CONSTANTS
    town = town
    shop = shop
    t1 = t1
    flat = flat
    owner = owner
    bob = bob
    eve = eve
    hello = hello
    more = more
    hi = hi
    again = again
    NoChannel = NoChannel
    Channels = {town, shop}
    Users = {owner, bob, eve}
    Threads = {t1, flat}
    NoThread = flat
    Msgs = {hello, more, hi, again}
    Mentions = {hello, hi, again}
    Groups = {town, shop}
    Founded = 2
    MaxAgents = 3
    MaxRestarts = 1
    ChannelOf <- McChannelOf
    ThreadOf <- McThreadOf
    SenderOf <- McSenderOf
    Command <- McCommand
    Policy <- McPolicy
    Mode <- McMode
    Known <- McKnown
    Accumulating <- McKnown
    FirstWired <- McWired
    FirstMember <- McMember
    Admins <- McAdmins
SPECIFICATION Spec
CHECK_DEADLOCK FALSE
INVARIANTS TypeOK Admission FollowedEngages
 
