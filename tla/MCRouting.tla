----------------------------- MODULE MCRouting -----------------------------
(* A group chat with two agents: the first hears everything from anybody   *)
(* known to it, the second is sticky. Bob, known to neither, addresses     *)
(* them. A second channel is wired to nobody; Eve addresses the bot there  *)
(* twice, once with an admin command, and once talks to somebody else.     *)
(* The owner is admin of every agent.                                      *)
EXTENDS Routing

CONSTANTS town, shop, t1, flat, owner, bob, eve, hello, more, hi, again

M(m) ==
    CASE m = hello -> <<town, t1, bob>> [] m = more -> <<shop, flat, eve>>
      [] m = hi -> <<shop, flat, eve>> [] m = again -> <<shop, flat, eve>>
McChannelOf == [m \in Msgs |-> M(m)[1]]
McThreadOf == [m \in Msgs |-> M(m)[2]]
McSenderOf == [m \in Msgs |-> M(m)[3]]
McCommand == [m \in Msgs |-> IF m = again THEN "admin" ELSE "none"]
McPolicy == [c \in Channels |-> "request_approval"]
McMode == [x \in Agents \X Channels |->
    IF x = <<1, town>> THEN "all" ELSE IF x[2] = town THEN "mention-sticky" ELSE "mention"]
McKnown == {2} \X {town} \union Agents \X {shop}
McWired == {1, 2} \X {town}
McMember == {}
McAdmins == {owner} \X Agents
=============================================================================
