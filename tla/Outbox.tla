------------------------------- MODULE Outbox -------------------------------
(***************************************************************************)
(* What delivery promises for the messages an agent wrote: each is sent by *)
(* one sender at a time, and after its outcome is recorded never again. It *)
(* is sent twice only if the first attempt was left in doubt.              *)
(***************************************************************************)
EXTENDS Naturals

CONSTANTS
    Msgs,    \* every message that may be written
    MaxSeen  \* bound: times a message is counted as seen on the platform

VARIABLES
    state,   \* where each message stands
    seen     \* how often its recipient has seen it

States == {"absent", "queued", "sent", "delivered", "failed"}

Init == state = [m \in Msgs |-> "absent"] /\ seen = [m \in Msgs |-> 0]

Move(m, from, to) == state[m] = from /\ state' = [state EXCEPT ![m] = to]

Write(m)   == Move(m, "absent", "queued") /\ UNCHANGED seen
Send(m)    == /\ Move(m, "queued", "sent")
              /\ seen' = [seen EXCEPT ![m] = IF @ < MaxSeen THEN @ + 1 ELSE @]
Confirm(m) == Move(m, "sent", "delivered") /\ UNCHANGED seen
\* There was nothing to send.
Discard(m) == Move(m, "queued", "delivered") /\ UNCHANGED seen
GiveUp(m)  == (Move(m, "queued", "failed") \/ Move(m, "sent", "failed")) /\ UNCHANGED seen
\* Attempts end without a word whether they worked.
Doubt == /\ \E M \in SUBSET {m \in Msgs : state[m] = "sent"} :
               state' = [m \in Msgs |-> IF m \in M THEN "queued" ELSE state[m]]
         /\ UNCHANGED seen

Next == \/ \E m \in Msgs : Write(m) \/ Send(m) \/ Confirm(m) \/ Discard(m) \/ GiveUp(m)
        \/ Doubt

Spec == Init /\ [][Next]_<<state, seen>>
=============================================================================
