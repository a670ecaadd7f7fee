------------------------------ MODULE Delivery ------------------------------
(***************************************************************************)
(* The host's delivery loop, src/delivery.ts: two timer chains walk        *)
(* over the sessions, read what is due in each outbound.db, hand it to the *)
(* platform or to a system action, and record the outcome in the session's *)
(* inbound.db (table delivered). Attempts are counted in memory only.      *)
(*                                                                         *)
(* The chains interleave at every await: between the messages of a drain,  *)
(* while the adapter sends, and between sessions.                          *)
(***************************************************************************)
EXTENDS Integers, FiniteSets

CONSTANTS
    Sessions,       \* the sessions
    TaskSessions,   \* those of scheduled tasks, closed when spent
    None,           \* no session
    MaxOut,         \* bound: messages_out rows written per session
    MaxAttempts,    \* MAX_DELIVERY_ATTEMPTS
    MaxHangs,       \* bound: sends that never return
    MaxSeen         \* bound: times a message is counted as seen

ASSUME DeliveryAssumption ==
    /\ TaskSessions \subseteq Sessions
    /\ None \notin Sessions
    /\ MaxOut \in Nat /\ MaxHangs \in Nat
    /\ MaxAttempts \in Nat \ {0}
    /\ MaxSeen \in Nat \ {0}

VARIABLES
    written,    \* number of rows in each session's messages_out
    unrouted,   \* rows without channel_type or platform_id
    settled,    \* table delivered: status of each message, "none" without a row
    running,    \* container_status is running or idle
    open,       \* sessions with status 'active'
    attempts,   \* deliveryAttempts
    inflight,   \* inflightDeliveries
    stage,      \* where each chain is
    todo,       \* sessions its tick has still to visit
    at,         \* the session it is draining
    queue,      \* the undelivered rows it read there and has not dealt with
    hung,       \* chains whose send never returns
    seen        \* how often each message took effect outside

fileVars == <<written, unrouted, settled, seen>>
sessionVars == <<running, open>>
chainVars == <<attempts, inflight, stage, todo, at, queue, hung>>
vars == <<fileVars, sessionVars, chainVars>>

-----------------------------------------------------------------------------
Chains == {"active", "sweep"}
Seqs == 1..MaxOut
Outs == Sessions \X Seqs

Stages   == {"idle", "walk", "send", "sent"}
Outcomes == {"none", "delivered", "failed"}

Due(s) == {i \in Seqs : i <= written[s]}
\* Mutant: the rows in table delivered are not filtered out.
UndeliveredOrNot(s) == Due(s)
\* getDueOutboundMessages minus getDeliveredIds: any outcome counts.
Undelivered(s) == {i \in Due(s) : settled[<<s, i>>] = "none"}

\* The message a chain is busy with: the oldest of its queue.
First(S) == CHOOSE i \in S : \A j \in S : i <= j
Current(c) == <<at[c], First(queue[c])>>
Busy(c) == at[c] # None /\ c \notin hung

Init ==
    /\ written = [s \in Sessions |-> 0]
    /\ unrouted = {}
    /\ settled = [m \in Outs |-> "none"]
    /\ seen = [m \in Outs |-> 0]
    /\ running = {}
    /\ open = Sessions
    /\ attempts = [m \in Outs |-> 0]
    /\ inflight = {}
    /\ stage = [c \in Chains |-> "idle"]
    /\ todo = [c \in Chains |-> {}]
    /\ at = [c \in Chains |-> None]
    /\ queue = [c \in Chains |-> {}]
    /\ hung = {}

-----------------------------------------------------------------------------
(* What goes on around delivery *)

\* The container (writeMessageOut) or, in a chat session, the host's command gate
\* (writeOutboundDirect) writes a message.
Write(s) ==
    /\ s \in running \/ s \in open \ TaskSessions
    /\ written[s] < MaxOut
    /\ written' = [written EXCEPT ![s] = @ + 1]
    /\ unrouted' \in {unrouted, unrouted \union {<<s, written[s] + 1>>}}
    /\ UNCHANGED <<settled, seen, sessionVars, chainVars>>

ContainerUp(s) ==
    /\ s \in open \ running
    /\ running' = running \union {s}
    /\ UNCHANGED <<fileVars, open, chainVars>>

ContainerDown(s) ==
    /\ s \in running
    /\ running' = running \ {s}
    /\ UNCHANGED <<fileVars, open, chainVars>>

\* sweepSession step 6: a spent task session is closed; what its queue still
\* holds is not looked at.
CloseTask(s) ==
    /\ s \in (TaskSessions \intersect open) \ running
    /\ open' = open \ {s}
    /\ UNCHANGED <<fileVars, running, chainVars>>

\* The host process dies and comes back: its memory is gone.
HostRestart ==
    /\ attempts' = [m \in Outs |-> 0]
    /\ inflight' = {}
    /\ stage' = [c \in Chains |-> "idle"]
    /\ todo' = [c \in Chains |-> {}]
    /\ at' = [c \in Chains |-> None]
    /\ queue' = [c \in Chains |-> {}]
    /\ hung' = {}
    /\ UNCHANGED <<fileVars, sessionVars>>

-----------------------------------------------------------------------------
(* A timer chain *)

\* pollActive and pollSweep: a tick reads its list of sessions.
Tick(c) ==
    /\ stage[c] = "idle"
    /\ stage' = [stage EXCEPT ![c] = "walk"]
    /\ todo' = [todo EXCEPT ![c] = IF c = "active" THEN running ELSE open]
    /\ UNCHANGED <<fileVars, sessionVars, attempts, inflight, at, queue, hung>>

\* Mutant: two chains may drain one session.
EnterUnguarded(c, s) ==
    /\ stage[c] = "walk" /\ s \in todo[c]
    /\ todo' = [todo EXCEPT ![c] = @ \ {s}]
    /\ IF Undelivered(s) = {}
       THEN UNCHANGED <<inflight, stage, at, queue>>
       ELSE /\ inflight' = inflight \union {s}
            /\ stage' = [stage EXCEPT ![c] = "send"]
            /\ at' = [at EXCEPT ![c] = s]
            /\ queue' = [queue EXCEPT ![c] = Undelivered(s)]
    /\ UNCHANGED <<fileVars, sessionVars, attempts, hung>>

\* deliverSessionMessages: skip a session another chain is draining; otherwise
\* read its undelivered rows, once, and begin.
Enter(c, s) ==
    /\ stage[c] = "walk" /\ s \in todo[c]
    /\ todo' = [todo EXCEPT ![c] = @ \ {s}]
    /\ IF s \in inflight \/ Undelivered(s) = {}
       THEN UNCHANGED <<inflight, stage, at, queue>>
       ELSE /\ inflight' = inflight \union {s}
            /\ stage' = [stage EXCEPT ![c] = "send"]
            /\ at' = [at EXCEPT ![c] = s]
            /\ queue' = [queue EXCEPT ![c] = Undelivered(s)]
    /\ UNCHANGED <<fileVars, sessionVars, attempts, hung>>

\* Reading a session's databases threw: the tick ends, the sessions after it
\* wait for the next.
EnterFails(c) ==
    /\ stage[c] = "walk" /\ todo[c] # {}
    /\ stage' = [stage EXCEPT ![c] = "idle"]
    /\ todo' = [todo EXCEPT ![c] = {}]
    /\ UNCHANGED <<fileVars, sessionVars, attempts, inflight, at, queue, hung>>

\* All sessions visited: the timer is armed again.
TickEnds(c) ==
    /\ stage[c] = "walk" /\ todo[c] = {}
    /\ stage' = [stage EXCEPT ![c] = "idle"]
    /\ UNCHANGED <<fileVars, sessionVars, attempts, inflight, todo, at, queue, hung>>

-----------------------------------------------------------------------------
(* One message of a drain *)

\* On to the next row, or out of the session.
Advance(c) ==
    LET rest == queue[c] \ {First(queue[c])}
    IN  /\ queue' = [queue EXCEPT ![c] = rest]
        /\ IF rest = {}
           THEN /\ stage' = [stage EXCEPT ![c] = "walk"]
                /\ at' = [at EXCEPT ![c] = None]
                /\ inflight' = inflight \ {at[c]}
           ELSE stage' = [stage EXCEPT ![c] = "send"] /\ UNCHANGED <<at, inflight>>

\* The adapter shows the message, a system action is applied, another agent's
\* queue takes it: from here on the outside has seen it.
Effect(c) ==
    /\ Busy(c) /\ stage[c] = "send"
    /\ Current(c) \notin unrouted
    /\ stage' = [stage EXCEPT ![c] = "sent"]
    /\ seen' = [seen EXCEPT ![Current(c)] = IF @ < MaxSeen THEN @ + 1 ELSE @]
    /\ UNCHANGED <<written, unrouted, settled, sessionVars, attempts, inflight,
                   todo, at, queue, hung>>

\* deliverMessage returned: markDelivered, and the attempts are forgotten. A
\* row without routing returns without having been sent.
Record(c) ==
    /\ Busy(c)
    /\ stage[c] = "sent" \/ (stage[c] = "send" /\ Current(c) \in unrouted)
    /\ settled' = [settled EXCEPT ![Current(c)] = "delivered"]
    /\ attempts' = [attempts EXCEPT ![Current(c)] = 0]
    /\ Advance(c)
    /\ UNCHANGED <<written, unrouted, seen, sessionVars, todo, hung>>

\* Mutant: attempts are never counted up to the limit.
FailForever(c) ==
    /\ Busy(c) /\ stage[c] \in {"send", "sent"}
    /\ Advance(c)
    /\ UNCHANGED <<fileVars, sessionVars, attempts, todo, hung>>

\* Mutant: one attempt too many.
FailLate(c) ==
    /\ Busy(c) /\ stage[c] \in {"send", "sent"}
    /\ LET n == attempts[Current(c)] + 1
       IN  IF n > MaxAttempts
           THEN /\ settled' = [settled EXCEPT ![Current(c)] = "failed"]
                /\ attempts' = [attempts EXCEPT ![Current(c)] = 0]
           ELSE attempts' = [attempts EXCEPT ![Current(c)] = n] /\ UNCHANGED settled
    /\ Advance(c)
    /\ UNCHANGED <<written, unrouted, seen, sessionVars, todo, hung>>

\* deliverMessage threw (no permission, unknown chat, adapter error, before or
\* after the platform took the message) or markDelivered did: count it, and
\* give up at the limit.
Fail(c) ==
    /\ Busy(c) /\ stage[c] \in {"send", "sent"}
    /\ LET n == attempts[Current(c)] + 1
       IN  IF n >= MaxAttempts
           THEN /\ settled' = [settled EXCEPT ![Current(c)] = "failed"]
                /\ attempts' = [attempts EXCEPT ![Current(c)] = 0]
           ELSE attempts' = [attempts EXCEPT ![Current(c)] = n] /\ UNCHANGED settled
    /\ Advance(c)
    /\ UNCHANGED <<written, unrouted, seen, sessionVars, todo, hung>>

\* The adapter's promise never settles.
Hang(c) ==
    /\ Busy(c) /\ stage[c] \in {"send", "sent"}
    /\ Cardinality(hung) < MaxHangs
    /\ hung' = hung \union {c}
    /\ UNCHANGED <<fileVars, sessionVars, attempts, inflight, stage, todo, at, queue>>

Outside == \E s \in Sessions :
               Write(s) \/ ContainerUp(s) \/ ContainerDown(s) \/ CloseTask(s)
Chain(c) == \/ Tick(c) \/ (\E s \in Sessions : Enter(c, s)) \/ EnterFails(c) \/ TickEnds(c)
            \/ Effect(c) \/ Record(c) \/ Fail(c) \/ Hang(c)

Next == Outside \/ HostRestart \/ \E c \in Chains : Chain(c)

Spec == Init /\ [][Next]_vars

\* The timers fire, an await that settles is resumed, and a database that
\* cannot be read now can be read in some later tick.
Fairness ==
    \A c \in Chains :
        /\ WF_vars(Tick(c)) /\ WF_vars(TickEnds(c))
        /\ \A s \in Sessions : SF_vars(Enter(c, s))
        /\ WF_vars(Effect(c) \/ Record(c) \/ Fail(c))

FairSpec == Spec /\ Fairness

-----------------------------------------------------------------------------
(* Properties *)

\* Types: the rows, the table delivered, and the memory of the two chains.
TypeOK ==
    /\ written \in [Sessions -> 0..MaxOut] /\ unrouted \subseteq Outs
    /\ settled \in [Outs -> Outcomes] /\ seen \in [Outs -> 0..MaxSeen]
    /\ running \subseteq Sessions /\ open \subseteq Sessions
    /\ attempts \in [Outs -> 0..MaxAttempts - 1] /\ inflight \subseteq Sessions
    /\ stage \in [Chains -> Stages] /\ todo \in [Chains -> SUBSET Sessions]
    /\ at \in [Chains -> Sessions \union {None}] /\ queue \in [Chains -> SUBSET Seqs]
    /\ hung \subseteq Chains

\* While a chain is at work on a session no other is, and the row it is about
\* to send has no outcome: its snapshot of the table delivered, taken several
\* awaits ago, is still true.
OneSender ==
    \A c \in Chains : at[c] # None =>
        /\ \A d \in Chains \ {c} : at[d] # at[c]
        /\ \A i \in queue[c] : settled[<<at[c], i>>] = "none"

\* Every message gets an outcome if every send returns: a platform that keeps
\* failing, a tick that breaks off or the other chain holds it up, not for ever.
\* A send that never returns, or the end of a task, may (README, section 6).
EveryOutputSettles ==
    (<>[][~HostRestart]_vars) => \A s \in Sessions, i \in Seqs :
        (written[s] >= i) ~> (settled[<<s, i>>] # "none" \/ s \notin open \/ hung # {})

\* Once the outcome of a message is known it is not sent again; before that it
\* is sent again only after an attempt was left in doubt.
Standing(m) ==
    CASE settled[m] # "none" -> settled[m]
      [] written[m[1]] < m[2] -> "absent"
      [] \E c \in Chains : at[c] = m[1] /\ stage[c] = "sent" /\ Current(c) = m -> "sent"
      [] OTHER -> "queued"

Abstract == INSTANCE Outbox WITH Msgs <- Outs, state <- [m \in Outs |-> Standing(m)]

ImplementsOutbox == Abstract!Spec
=============================================================================
