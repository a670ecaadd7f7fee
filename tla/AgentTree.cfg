SPECIFICATION FairSpec
CONSTANTS
    lead = lead
    coder = coder
    scout = scout
    hall = hall
    nook = nook
    NoRequest = NoRequest
    Requests = {lead, coder, scout}
    NameOf <- Names
    Template <- Templates
    Places = {hall, nook}
    PlaceOf <- PlacesOf
    WantsRepo = {lead, coder}
    Managed = {lead, coder, scout}
    Tried = {coder}
    Granted <- CoderInNook
    MaxChildren = 3
    MaxClicks <- DoubleClick
    MaxTests = 2
INVARIANTS
    TypeOK
    Entitled
    ChannelsKept

    
CHECK_DEADLOCK FALSE
