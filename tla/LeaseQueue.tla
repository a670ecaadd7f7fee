----------------------------- MODULE LeaseQueue -----------------------------
(***************************************************************************)
(* What the inbound queue of a session promises, whoever runs: a message   *)
(* waits, is taken by the serving container, and ends acknowledged; only   *)
(* while no container serves may a taken message go back to waiting, or be *)
(* given up; what is acknowledged or settled never moves back.             *)
(***************************************************************************)
CONSTANT Msgs   \* the messages ever accepted

VARIABLES
    state,      \* where each message stands
    up          \* a container is serving the queue

States == {"new", "waiting", "taken", "acked", "settled"}

\* Every message stays where it is or moves along one of the edges.
Moves(edges) ==
    /\ state' \in [Msgs -> States]
    /\ \A m \in Msgs : state'[m] = state[m] \/ <<state[m], state'[m]>> \in edges

Init == state = [m \in Msgs |-> "new"] /\ up = FALSE

Accept  == Moves({<<"new", "waiting">>}) /\ up' \in {up, FALSE}
Serve   == /\ up /\ up'
           /\ Moves({<<"waiting", "taken">>, <<"waiting", "acked">>, <<"taken", "acked">>})
Recover == /\ ~up /\ up' \in BOOLEAN
           /\ Moves({<<"taken", "waiting">>, <<"taken", "settled">>})
Settle  == Moves({<<"acked", "settled">>}) /\ up' = up
Stop    == up /\ ~up' /\ UNCHANGED state

Next == Accept \/ Serve \/ Recover \/ Settle \/ Stop

Spec == Init /\ [][Next]_<<state, up>>
=============================================================================
