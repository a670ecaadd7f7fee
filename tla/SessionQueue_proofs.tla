------------------------ MODULE SessionQueue_proofs -------------------------
(***************************************************************************)
(* Proofs about SessionQueue, for any number of messages, any limits and   *)
(* any traffic: what a live container works on stays its own, a row's      *)
(* status is one its acknowledgements or its tries earned, work that was   *)
(* acknowledged is not done again, and the two databases together are the  *)
(* lease queue of LeaseQueue. IInv says which container exists and what it *)
(* can hold; HInv adds where a row's status comes from. The last part      *)
(* sorts the steps by what they do to one message.                         *)
(***************************************************************************)
EXTENDS SessionQueue, TLAPS

\* What the retry of a row keeps: it is still a row.
LEMMA RetriedIsRow == ASSUME NEW r \in Rows PROVE Retried(r) \in Rows
<1>1. [r EXCEPT !.status = "failed"] \in Rows
  BY DEF Rows, Statuses
<1>2. ASSUME r.tries < MaxTries
      PROVE  [r EXCEPT !.tries = r.tries + 1, !.wait = Backoff(r.tries)] \in Rows
  <2>1. r.tries + 1 \in 0..MaxTries /\ Backoff(r.tries) \in Nat
    BY <1>2, QueueAssumption, BackoffAssumption DEF Rows
  <2> QED BY <2>1 DEF Rows
<1>3. r.tries \in Nat /\ MaxTries \in Nat
  BY QueueAssumption DEF Rows
<1> QED BY <1>1, <1>2, <1>3 DEF Retried

\* An insertion adds a row and leaves the others as they are.
LEMMA InsertedIsRow ==
    ASSUME TypeOK, NEW kind \in Kinds, NEW onWake \in BOOLEAN, NEW wait \in Nat,
           InsertRow(kind, onWake, wait)
    PROVE  row' \in [Ids -> Rows] /\ last' \in 0..MaxMessages
<1>1. [kind |-> kind, onWake |-> onWake, status |-> "pending", tries |-> 0, wait |-> wait]
        \in Rows
  BY QueueAssumption DEF Rows, Statuses
<1> QED BY <1>1, QueueAssumption DEF InsertRow, TypeOK, QueueType, Ids

\* The three writes to processing_ack keep its type.
LEMMA MarkDoneType ==
    ASSUME TypeOK, NEW ids \in SUBSET Ids, NEW errs \in SUBSET Ids,
           NEW touched \in BOOLEAN, MarkDone(ids, errs, touched)
    PROVE  /\ ack' \in [Ids -> Acks] /\ claimAge' \in [Ids -> Nat]
           /\ heard' \subseteq Ids /\ beat' \in Nat \union {NoBeat}
BY DEF TypeOK, AckType, ClockType, MarkDone, Acks, Claims

\* A claim keeps the types of the acknowledgements.
LEMMA MarkProcessingType ==
    ASSUME TypeOK, NEW ids \in SUBSET Ids, MarkProcessing(ids)
    PROVE  ack' \in [Ids -> Acks] /\ claimAge' \in [Ids -> Nat] /\ heard' \subseteq Ids
BY DEF TypeOK, AckType, MarkProcessing, Acks

\* So does the clearing of stale claims.
LEMMA DropProcessingType ==
    ASSUME TypeOK, DropProcessing
    PROVE  ack' \in [Ids -> Acks] /\ claimAge' \in [Ids -> Nat] /\ heard' \subseteq Ids
BY DEF TypeOK, AckType, DropProcessing, Acks

\* Only rows of the queue are ever selected.
LEMMA PendingAreIds ==
    ASSUME NEW first PROVE PendingMessages(first) \subseteq Ids
BY DEF PendingMessages, Newest, Selectable

\* A tick runs the delays down and leaves the rows rows.
LEMMA TickedAreRows ==
    ASSUME QueueType
    PROVE  [m \in Ids |-> [row[m] EXCEPT !.wait = IF row[m].wait > 0 THEN row[m].wait - 1 ELSE 0]]
             \in [Ids -> Rows]
BY DEF QueueType, Rows

\* When the container is gone, nothing is left in its hands.
LEMMA GoneType ==
    ASSUME ContainerGone, HandsType, declared \in Nat, beat \in Nat \union {NoBeat}
    PROVE  /\ LoopType' /\ batch' \subseteq Ids /\ follow' \subseteq FollowUps
           /\ bash' \in Nat
<1>1. LoopType'
  BY DEF ContainerGone, LoopType, Phases
<1> QED BY <1>1 DEF ContainerGone

\* Ending a query changes only the mark of its follow-ups.
LEMMA EndedAreFollowUps ==
    ASSUME follow \subseteq FollowUps
    PROVE  {[f EXCEPT !.live = FALSE] : f \in follow} \subseteq FollowUps
<1>1. \A f \in FollowUps : [f EXCEPT !.live = FALSE] \in FollowUps
  BY DEF FollowUps
<1> QED BY <1>1

\* The variables keep their types: row and claim tables over the message ids, the
\* host's maps and the runner's loop state.
THEOREM TypeCorrect == Spec => []TypeOK
<1>1. Init => TypeOK
  <2> SUFFICES ASSUME Init PROVE TypeOK
    OBVIOUS
  <2>1. Absent \in Rows
    BY QueueAssumption DEF Absent, Rows, Kinds, Statuses
  <2>2. QueueType
    BY <2>1, QueueAssumption DEF Init, QueueType
  <2>3. AckType
    BY DEF Init, AckType, Acks
  <2>4. ClockType
    <3>1. beat = NoBeat /\ declared = 0 /\ bash = 0
      BY DEF Init
    <3> QED BY <3>1 DEF ClockType
  <2>5. HostType
    BY DEF Init, HostType, Sweeps
  <2>6. LoopType
    BY DEF Init, LoopType, Phases
  <2>7. HandsType
    BY DEF Init, HandsType
  <2> QED BY <2>2, <2>3, <2>4, <2>5, <2>6, <2>7 DEF TypeOK
<1>2. TypeOK /\ [Next]_vars => TypeOK'
  <2> SUFFICES ASSUME TypeOK, [Next]_vars PROVE TypeOK'
    OBVIOUS
  <2> USE QueueAssumption DEF TypeOK
  <2>a. CASE UNCHANGED vars
    BY <2>a DEF vars, rowVars, ackVars, hostVars, ctrVars,
       QueueType, AckType, ClockType, HostType, LoopType, HandsType
  <2>1. ASSUME NEW kind \in Kinds, Arrive(kind) PROVE TypeOK'
    <3>1. InsertRow(kind, FALSE, 0)
      BY <2>1 DEF Arrive
    <3>2. QueueType'
      BY <3>1, InsertedIsRow DEF QueueType
    <3>3. HostType'
      BY <2>1 DEF Arrive, Wake, HostType
    <3>4. AckType' /\ HandsType' /\ LoopType'
      BY <2>1 DEF Arrive, ackVars, ctrVars, AckType, HandsType, LoopType
    <3>5. ClockType'
      BY <2>1 DEF Arrive, ctrVars, ClockType
    <3> QED BY <3>2, <3>3, <3>4, <3>5
  <2>2. CASE ScheduleTask
    <3>1. PICK d \in Delays : InsertRow("task", FALSE, d)
      BY <2>2 DEF ScheduleTask
    <3>2. d \in Nat /\ "task" \in Kinds
      BY DEF Kinds
    <3>3. QueueType'
      BY <3>1, <3>2, InsertedIsRow DEF QueueType
    <3>4. AckType' /\ HandsType' /\ LoopType' /\ HostType'
      BY <2>2 DEF ScheduleTask, ackVars, hostVars, ctrVars,
         AckType, HandsType, LoopType, HostType
    <3>5. ClockType'
      BY <2>2 DEF ScheduleTask, ctrVars, ClockType
    <3> QED BY <3>3, <3>4, <3>5
  <2>3. ASSUME NEW w \in BOOLEAN, Restart(w) PROVE TypeOK'
    <3>1. InsertRow("chat", TRUE, 0) \/ UNCHANGED rowVars
      BY <2>3 DEF Restart
    <3>2. QueueType'
      <4>1. "chat" \in Kinds
        BY DEF Kinds
      <4> QED BY <3>1, <4>1, InsertedIsRow DEF QueueType, rowVars
    <3>3. LoopType' /\ batch' \subseteq Ids /\ follow' \subseteq FollowUps /\ bash' \in Nat
      BY <2>3, GoneType DEF Restart, ClockType
    <3>4. onExit' \in BOOLEAN
      BY <2>3 DEF Restart, HostType, WorkDue
    <3>5. HostType' /\ AckType'
      BY <2>3, <3>4 DEF Restart, HostType, AckType, ackVars
    <3>6. ClockType'
      BY <2>3, <3>3 DEF Restart, ClockType
    <3>7. HandsType'
      BY <2>3, <3>3 DEF Restart, HandsType
    <3> QED BY <3>2, <3>3, <3>5, <3>6, <3>7
  <2>4. CASE SpawnOk
    <3>1. QueueType' /\ AckType' /\ HostType' /\ LoopType' /\ HandsType'
      BY <2>4 DEF SpawnOk, rowVars, QueueType, AckType, HostType, LoopType,
         HandsType, Phases
    <3>2. ClockType'
      BY <2>4 DEF SpawnOk, ClockType
    <3> QED BY <3>1, <3>2
  <2>5. CASE SpawnFail \/ Close \/ HostCrash \/ SweepWoken \/ SweepSla \/ SweepDropFails
    <3>1. QueueType' /\ AckType' /\ LoopType' /\ HandsType'
      BY <2>5 DEF SpawnFail, Close, HostCrash, SweepWoken, SweepSla, SweepDropFails, rowVars,
         ackVars, ctrVars, QueueType, AckType, LoopType, HandsType
    <3>2. HostType'
      BY <2>5 DEF SpawnFail, Close, HostCrash, SweepWoken, SweepSla, SweepDropFails, HostType, Sweeps
    <3>3. ClockType'
      BY <2>5 DEF SpawnFail, Close, HostCrash, SweepWoken, SweepSla, SweepDropFails, ctrVars, ClockType
    <3> QED BY <3>1, <3>2, <3>3
  <2>6. CASE HostRestart \/ SweepKill \/ Crash
    <3>1. ContainerGone
      BY <2>6 DEF HostRestart, SweepKill, Crash
    <3>2. LoopType' /\ batch' \subseteq Ids /\ follow' \subseteq FollowUps /\ bash' \in Nat
      BY <3>1, GoneType DEF ClockType
    <3>3. QueueType' /\ AckType' /\ HandsType'
      BY <2>6, <3>2 DEF HostRestart, SweepKill, Crash, rowVars, ackVars,
         QueueType, AckType, HandsType
    <3>4. HostType'
      BY <2>6 DEF HostRestart, SweepKill, Crash, hostVars, HostType, Sweeps
    <3>5. ClockType'
      BY <2>6, <3>2 DEF HostRestart, SweepKill, Crash, ClockType
    <3> QED BY <3>2, <3>3, <3>4, <3>5
  <2>7. CASE SweepBegin
    <3>1. Synced \in [Ids -> Rows]
      BY DEF Synced, Rows, Statuses, QueueType
    <3>2. QueueType' /\ AckType' /\ LoopType' /\ HandsType'
      BY <2>7, <3>1 DEF SweepBegin, ackVars, ctrVars, QueueType, AckType,
         LoopType, HandsType
    <3>3. HostType'
      BY <2>7 DEF SweepBegin, HostType, Sweeps, WorkDue
    <3>4. ClockType'
      BY <2>7 DEF SweepBegin, ctrVars, ClockType
    <3> QED BY <3>2, <3>3, <3>4
  <2>8. CASE SweepRetry
    <3>1. QueueType'
      BY <2>8, RetriedIsRow DEF SweepRetry, QueueType
    <3>2. AckType' /\ LoopType' /\ HandsType' /\ HostType'
      BY <2>8 DEF SweepRetry, ackVars, ctrVars, AckType, LoopType, HandsType,
         HostType, Sweeps
    <3>3. ClockType'
      BY <2>8 DEF SweepRetry, ctrVars, ClockType
    <3> QED BY <3>1, <3>2, <3>3
  <2>9. CASE SweepDrop \/ Boot
    <3>1. AckType'
      BY <2>9, DropProcessingType DEF SweepDrop, Boot, AckType
    <3>2. QueueType' /\ LoopType' /\ HandsType' /\ HostType'
      BY <2>9, ZenonT(30) DEF SweepDrop, Boot, rowVars, hostVars, ctrVars, QueueType, LoopType,
         HandsType, HostType, Sweeps, Phases
    <3>3. ClockType'
      BY <2>9 DEF SweepDrop, Boot, ctrVars, ClockType
    <3> QED BY <3>1, <3>2, <3>3
  <2>10. CASE Poll
    <3> DEFINE msgs == {m \in PendingMessages(firstPoll) : row[m].kind # "system"}
    <3>1. msgs \subseteq Ids
      BY PendingAreIds
    <3> HIDE DEF msgs
    <3> DEFINE commands == {m \in msgs : row[m].kind = "command"}
    <3>2. \/ /\ batch' = msgs \ commands
             /\ phase' \in {"poll", "scripts"}
             /\ reached' = reached \union commands
             /\ ack' = [m \in Ids |-> IF m \in commands THEN "completed"
                                      ELSE IF m \in msgs THEN "processing" ELSE ack[m]]
             /\ claimAge' = [m \in Ids |-> IF m \in msgs THEN 0 ELSE claimAge[m]]
             /\ heard' = heard \ msgs
          \/ UNCHANGED <<ackVars, batch, phase, reached>>
      BY <2>10 DEF Poll, msgs
    <3>3. AckType'
      BY <3>1, <3>2 DEF AckType, Acks, ackVars
    <3>4. batch' \subseteq Ids /\ reached' \subseteq Ids /\ phase' \in Phases
      BY <3>1, <3>2 DEF HandsType, LoopType, Phases
    <3>5. QueueType' /\ HandsType' /\ LoopType' /\ HostType'
      BY <2>10, <3>4 DEF Poll, rowVars, hostVars, QueueType, HandsType, LoopType, HostType
    <3>6. ClockType'
      BY <2>10 DEF Poll, ClockType
    <3> QED BY <3>3, <3>5, <3>6
  <2>11. CASE ScriptTouch \/ QueryEvent
    <3>1. TouchHeartbeat /\ UNCHANGED <<rowVars, ack, claimAge, declared, hostVars, ctrVars, reached>>
      BY <2>11 DEF ScriptTouch, QueryEvent
    <3>2. AckType'
      BY <3>1 DEF TouchHeartbeat, Claims, AckType
    <3>3. QueueType' /\ LoopType' /\ HandsType' /\ HostType'
      BY <3>1 DEF rowVars, hostVars, ctrVars, QueueType, LoopType, HandsType, HostType
    <3>4. ClockType'
      BY <3>1 DEF TouchHeartbeat, ctrVars, ClockType
    <3> QED BY <3>2, <3>3, <3>4
  <2>12. CASE Scripts
    <3>1. PICK gated \in SUBSET batch, errs \in SUBSET batch :
             /\ MarkDone(gated, errs, gated \union errs # {})
             /\ reached' = reached \union gated \union errs
      BY <2>12 DEF Scripts
    <3>2. AckType' /\ beat' \in Nat \union {NoBeat}
      BY <3>1, MarkDoneType DEF AckType, HandsType
    <3>3. reached' \subseteq Ids /\ batch' \subseteq Ids /\ phase' \in Phases
      BY <2>12, <3>1 DEF Scripts, HandsType, LoopType, Phases
    <3>4. QueueType' /\ LoopType' /\ HandsType' /\ HostType'
      BY <2>12, <3>3 DEF Scripts, rowVars, hostVars, QueueType, LoopType, HandsType, HostType
    <3>5. ClockType'
      BY <2>12, <3>2 DEF Scripts, ClockType
    <3> QED BY <3>2, <3>4, <3>5
  <2>13. CASE Hook
    <3>1. AckType' /\ beat' \in Nat \union {NoBeat}
      BY <2>13, MarkDoneType DEF Hook, ackVars, AckType, ClockType, HandsType
    <3>2. QueueType' /\ LoopType' /\ HandsType' /\ HostType'
      BY <2>13 DEF Hook, rowVars, hostVars, QueueType, LoopType, HandsType, HostType, Phases
    <3>3. ClockType'
      BY <2>13, <3>1 DEF Hook, ClockType
    <3> QED BY <3>1, <3>2, <3>3
  <2>14. CASE QueryResult
    <3>1. AckType' /\ beat' \in Nat \union {NoBeat}
      BY <2>14, MarkDoneType DEF QueryResult, AckType, HandsType
    <3>2. QueueType' /\ LoopType' /\ HandsType' /\ HostType'
      BY <2>14 DEF QueryResult, rowVars, hostVars, ctrVars, QueueType, LoopType,
         HandsType, HostType
    <3>3. ClockType'
      BY <2>14, <3>1 DEF QueryResult, ctrVars, ClockType
    <3> QED BY <3>1, <3>2, <3>3
  <2>15. CASE QueryEnd
    <3>1. AckType' /\ beat' \in Nat \union {NoBeat}
      BY <2>15, MarkDoneType DEF QueryEnd, AckType, HandsType
    <3>2. follow' \subseteq FollowUps
      BY <2>15, EndedAreFollowUps DEF QueryEnd, HandsType
    <3>3. QueueType' /\ LoopType' /\ HandsType' /\ HostType'
      BY <2>15, <3>2 DEF QueryEnd, rowVars, hostVars, QueueType, LoopType,
         HandsType, HostType, Phases
    <3>4. ClockType'
      BY <2>15, <3>1 DEF QueryEnd, ClockType
    <3> QED BY <3>1, <3>3, <3>4
  <2>16. CASE ToolStart \/ ToolEnd
    <3>1. QueueType' /\ AckType' /\ LoopType' /\ HandsType' /\ HostType'
      BY <2>16 DEF ToolStart, ToolEnd, rowVars, ackVars, hostVars, ctrVars,
         QueueType, AckType, LoopType, HandsType, HostType
    <3>2. ClockType'
      BY <2>16 DEF ToolStart, ToolEnd, ctrVars, ClockType
    <3> QED BY <3>1, <3>2
  <2>17. CASE TakeAnswer
    <3>1. PICK m \in Ids : MarkDone({m}, {}, FALSE) /\ reached' = reached \union {m}
      BY <2>17 DEF TakeAnswer
    <3>2. AckType' /\ beat' \in Nat \union {NoBeat}
      BY <3>1, MarkDoneType DEF AckType
    <3>3. QueueType' /\ LoopType' /\ HandsType' /\ HostType'
      BY <2>17, <3>1 DEF TakeAnswer, rowVars, hostVars, ctrVars, QueueType, LoopType, HandsType,
         HostType
    <3>4. ClockType'
      BY <2>17, <3>2 DEF TakeAnswer, ctrVars, ClockType
    <3> QED BY <3>2, <3>3, <3>4
  <2>18. CASE FollowPoll
    <3> DEFINE msgs == {m \in PendingMessages(FALSE) : row[m].kind # "system"}
    <3>1. msgs \subseteq Ids
      BY PendingAreIds
    <3> HIDE DEF msgs
    <3>2. \/ aborting' = TRUE /\ UNCHANGED <<ackVars, follow>>
          \/ /\ MarkProcessing(msgs) /\ UNCHANGED aborting
             /\ follow' = follow \union
                   {[batch |-> msgs, step |-> "scripts", live |-> TRUE]}
      BY <2>18 DEF FollowPoll, msgs
    <3>3. AckType'
      BY <3>1, <3>2, MarkProcessingType DEF AckType, ackVars
    <3>4. follow' \subseteq FollowUps
      <4>1. [batch |-> msgs, step |-> "scripts", live |-> TRUE] \in FollowUps
        BY <3>1 DEF FollowUps
      <4> QED BY <3>2, <4>1 DEF HandsType, ackVars
    <3>5. QueueType' /\ LoopType' /\ HandsType' /\ HostType'
      BY <2>18, <3>2, <3>4 DEF FollowPoll, rowVars, hostVars, QueueType, LoopType,
         HandsType, HostType
    <3>6. ClockType'
      BY <2>18 DEF FollowPoll, ClockType
    <3> QED BY <3>3, <3>5, <3>6
  <2>19. ASSUME NEW f \in follow, FollowScripts(f) PROVE TypeOK'
    <3>1. PICK gated \in SUBSET f.batch, errs \in SUBSET f.batch :
             /\ MarkDone(gated, errs, gated \union errs # {})
             /\ reached' = reached \union gated \union errs
             /\ follow' = (follow \ {f}) \union
                  (IF f.batch \ (gated \union errs) = {} \/ ~f.live THEN {}
                   ELSE {[f EXCEPT !.batch = f.batch \ (gated \union errs), !.step = "hook"]})
      BY <2>19 DEF FollowScripts
    <3>2. f \in FollowUps /\ f.batch \subseteq Ids
      BY DEF FollowUps, HandsType
    <3>3. [f EXCEPT !.batch = f.batch \ (gated \union errs), !.step = "hook"] \in FollowUps
      BY <3>2 DEF FollowUps
    <3>4. AckType' /\ beat' \in Nat \union {NoBeat}
      BY <3>1, <3>2, MarkDoneType DEF AckType
    <3>5. follow' \subseteq FollowUps /\ reached' \subseteq Ids
      BY <3>1, <3>2, <3>3 DEF HandsType
    <3>6. QueueType' /\ LoopType' /\ HandsType' /\ HostType'
      BY <2>19, <3>5 DEF FollowScripts, rowVars, hostVars, QueueType, LoopType, HandsType, HostType
    <3>7. ClockType'
      BY <2>19, <3>4 DEF FollowScripts, ClockType
    <3> QED BY <3>4, <3>6, <3>7
  <2>20. ASSUME NEW f \in follow, FollowPush(f) PROVE TypeOK'
    <3>1. f.batch \subseteq Ids
      BY DEF FollowUps, HandsType
    <3>2. AckType' /\ beat' \in Nat \union {NoBeat}
      BY <2>20, <3>1, MarkDoneType DEF FollowPush, AckType
    <3>3. QueueType' /\ LoopType' /\ HandsType' /\ HostType'
      BY <2>20, <3>1 DEF FollowPush, rowVars, hostVars, QueueType, LoopType, HandsType, HostType
    <3>4. ClockType'
      BY <2>20, <3>2 DEF FollowPush, ClockType
    <3> QED BY <3>2, <3>3, <3>4
  <2>21. ASSUME NEW f \in follow, FollowError(f) PROVE TypeOK'
    <3>1. QueueType' /\ AckType' /\ LoopType' /\ HandsType' /\ HostType'
      BY <2>21 DEF FollowError, rowVars, ackVars, hostVars, QueueType, AckType, LoopType,
         HandsType, HostType
    <3>2. ClockType'
      BY <2>21 DEF FollowError, ClockType
    <3> QED BY <3>1, <3>2
  <2>22. CASE Tick
    <3>1. QueueType'
      BY <2>22, TickedAreRows DEF Tick, QueueType
    <3>2. AckType'
      BY <2>22 DEF Tick, AckType
    <3>3. LoopType' /\ HandsType' /\ HostType'
      BY <2>22 DEF Tick, hostVars, ctrVars, LoopType, HandsType, HostType
    <3>4. ClockType'
      BY <2>22 DEF Tick, hostVars, ctrVars, ClockType
    <3> QED BY <3>1, <3>2, <3>3, <3>4
  <2> QED
    BY <2>a, <2>1, <2>2, <2>3, <2>4, <2>5, <2>6, <2>7, <2>8, <2>9, <2>10, <2>11, <2>12,
       <2>13, <2>14, <2>15, <2>16, <2>17, <2>18, <2>19, <2>20, <2>21, <2>22
       DEF Next, HostNext, ContainerNext
<1> QED BY <1>1, <1>2, PTL DEF Spec

-----------------------------------------------------------------------------
(* Which container exists, and what it can hold: the host's two maps, its  *)
(* sweep and the process agree.                                            *)

\* A live container is in activeContainers unless the host itself is down.
ContainerKnown == alive => registered \/ sweep = "down"
\* A spawn is under way only where no container is registered.
SpawnAlone == spawning => ~registered /\ sweep # "down"
\* The sweep resets claims only once the container is gone.
ResetAlone == sweep \in {"retry", "drop"} => ~alive
\* A container that is gone, or has just been started, holds nothing.
DeadHoldsNothing == ~alive => batch = {} /\ follow = {} /\ phase = "off"
BootHoldsNothing == phase = "boot" => batch = {} /\ follow = {}

Lifecycle == /\ ContainerKnown /\ SpawnAlone /\ ResetAlone
             /\ DeadHoldsNothing /\ BootHoldsNothing

\* At first there is no container.
LEMMA LifecycleInit == Init => Lifecycle
BY DEF Init, Lifecycle, ContainerKnown, SpawnAlone, ResetAlone, DeadHoldsNothing, BootHoldsNothing

\* Every step keeps host maps, sweep and process in line.
LEMMA LifecycleStep ==
    ASSUME TypeOK, Lifecycle, [Next]_vars PROVE Lifecycle'
<1> USE DEF Lifecycle, ContainerKnown, SpawnAlone, ResetAlone, DeadHoldsNothing, BootHoldsNothing
<1>t. /\ registered \in BOOLEAN /\ spawning \in BOOLEAN /\ alive \in BOOLEAN
      /\ onExit \in BOOLEAN
  BY DEF TypeOK, HostType, LoopType
<1>a. CASE UNCHANGED vars
  BY <1>a DEF vars, hostVars, ctrVars
<1>1. ASSUME NEW kind \in Kinds, Arrive(kind) PROVE Lifecycle'
  BY <1>1, <1>t DEF Arrive, Wake, HostFree, ctrVars
<1>2. CASE ScheduleTask
  BY <1>2 DEF ScheduleTask, hostVars, ctrVars
<1>3. ASSUME NEW w \in BOOLEAN, Restart(w) PROVE Lifecycle'
  BY <1>3, <1>t DEF Restart, ContainerGone
<1>4. CASE SpawnOk \/ SpawnFail
  BY <1>4, <1>t DEF SpawnOk, SpawnFail, HostFree, ctrVars
<1>5. CASE Close
  BY <1>5, <1>t DEF Close, HostFree, ctrVars
<1>6. CASE HostCrash \/ HostRestart
  BY <1>6, <1>t DEF HostCrash, HostRestart, ContainerGone, ctrVars
<1>7. CASE SweepBegin
  <2>1. /\ sweep = "idle" /\ UNCHANGED <<registered, ctrVars>>
        /\ sweep' \in {"waking", "sla", "retry"}
        /\ spawning' => spawning \/ ~registered
        /\ sweep' = "retry" => ~registered
    BY <1>7, <1>t DEF SweepBegin
  <2> QED BY <2>1, <1>t DEF ctrVars
<1>8. CASE SweepWoken \/ SweepSla
  BY <1>8, <1>t DEF SweepWoken, SweepSla, ctrVars
<1>9. CASE SweepKill \/ SweepRetry \/ SweepDrop \/ SweepDropFails
  BY <1>9, <1>t DEF SweepKill, SweepRetry, SweepDrop, SweepDropFails, ContainerGone, ctrVars
<1>10. CASE Boot \/ Poll \/ Scripts \/ Hook
  <2>1. alive /\ UNCHANGED <<alive, hostVars>> /\ phase' # "boot"
    BY <1>10 DEF Boot, Poll, Scripts, Hook
  <2> QED BY <2>1 DEF hostVars
<1>11. CASE ScriptTouch \/ QueryEvent \/ QueryResult \/ TakeAnswer
  <2>1. UNCHANGED <<hostVars, ctrVars>>
    BY <1>11 DEF ScriptTouch, QueryEvent, QueryResult, TakeAnswer
  <2> QED BY <2>1 DEF hostVars, ctrVars
<1>12. CASE ToolStart \/ ToolEnd
  <2>1. UNCHANGED <<alive, phase, batch, follow, hostVars>>
    BY <1>12 DEF ToolStart, ToolEnd
  <2> QED BY <2>1 DEF hostVars
<1>13. CASE QueryEnd \/ FollowPoll
  <2>1. alive /\ phase = "query" /\ phase' \in {"query", "poll"} /\ UNCHANGED <<alive, hostVars>>
    BY <1>13 DEF QueryEnd, FollowPoll
  <2> QED BY <2>1 DEF hostVars
<1>14. ASSUME NEW f \in follow, FollowScripts(f) \/ FollowPush(f) \/ FollowError(f)
       PROVE  Lifecycle'
  <2>1. f \in follow /\ UNCHANGED <<alive, phase, hostVars>>
    BY <1>14 DEF FollowScripts, FollowPush, FollowError
  <2>2. alive /\ phase # "boot"
    BY <2>1
  <2> QED BY <2>1, <2>2 DEF hostVars
<1>15. CASE Crash
  BY <1>15, <1>t DEF Crash, ContainerGone, hostVars
<1>16. CASE Tick
  BY <1>16, <1>t DEF Tick, hostVars, ctrVars
<1> QED
  BY <1>a, <1>1, <1>2, <1>3, <1>4, <1>5, <1>6, <1>7, <1>8, <1>9, <1>10, <1>11, <1>12,
     <1>13, <1>14, <1>15, <1>16 DEF Next, HostNext, ContainerNext

-----------------------------------------------------------------------------
(* Who holds a message                                                     *)

\* Nothing is known of a row before it is inserted.
Unborn == \A m \in Ids : m > last => row[m].status = "absent" /\ ack[m] = "none"

IInv == TypeOK /\ Lifecycle /\ Unborn /\ WorkStaysOwned /\ OneHandPerMessage

\* A message is held by the outer loop or by some follow-up.
LEMMA InHandMeans ==
    \A m : m \in InHand <=> (m \in batch \/ \E f \in follow : m \in f.batch)
BY DEF InHand

\* What is waiting to be claimed is a row of the queue that nobody holds.
LEMMA PendingIsFree ==
    ASSUME IInv, NEW first, NEW m \in PendingMessages(first)
    PROVE  m \in Ids /\ Due(m) /\ ack[m] = "none" /\ m \notin InHand /\ m <= last
<1>1. m \in Ids /\ Due(m) /\ ack[m] = "none"
  BY DEF PendingMessages, Newest, Selectable
<1>2. m \notin InHand
  BY <1>1 DEF IInv, WorkStaysOwned
<1>3. ~(m > last)
  BY <1>1 DEF IInv, Unborn, Due
<1>4. m \in Int /\ last \in Int
  BY <1>1 DEF Ids, IInv, TypeOK, QueueType
<1> QED BY <1>1, <1>2, <1>3, <1>4

\* A step that leaves the queue alone, moves acks of held messages only forward, and
\* takes nothing new in hand keeps the ownership.
LEMMA QuietStep ==
    ASSUME IInv, UNCHANGED row, InHand' \subseteq InHand,
           \A m \in Ids : ack'[m] = ack[m] \/ ack'[m] \in TerminalAck
    PROVE  WorkStaysOwned'
BY DEF IInv, TypeOK, HandsType, FollowUps, WorkStaysOwned, InHand, TerminalAck, Due

\* Handing a follow-up on, or dropping it, takes nothing new in hand.
LEMMA HandedOn ==
    ASSUME IInv, NEW f \in follow, NEW rest, UNCHANGED batch,
           \A g \in rest : g.batch \subseteq f.batch,
           \A g, h \in rest : g = h,
           follow' = (follow \ {f}) \union rest
    PROVE  OneHandPerMessage' /\ InHand' \subseteq InHand
<1>1. OneHandPerMessage'
  BY DEF IInv, OneHandPerMessage
<1>2. InHand' \subseteq InHand
  BY DEF InHand
<1> QED BY <1>1, <1>2

\* A follow-up that is let go leaves what is in the other hands.
LEMMA Dropped ==
    ASSUME IInv, NEW f \in follow, UNCHANGED batch, follow' = follow \ {f}
    PROVE  OneHandPerMessage' /\ InHand' \subseteq InHand
BY DEF IInv, OneHandPerMessage, InHand

\* Held messages, and claimed ones, have been inserted.
LEMMA BornFirst ==
    ASSUME IInv, NEW m \in Ids, m \in InHand \/ ack[m] # "none" PROVE ~(m > last)
BY DEF IInv, Unborn, WorkStaysOwned

\* A step that only acknowledges inserted messages, and takes nothing new in hand.
LEMMA AcknowledgeStep ==
    ASSUME IInv, UNCHANGED <<row, last>>, InHand' \subseteq InHand,
           NEW ids \in SUBSET Ids, NEW errs \in SUBSET Ids, NEW touched \in BOOLEAN,
           MarkDone(ids, errs, touched), \A m \in ids \union errs : ~(m > last)
    PROVE  Unborn' /\ WorkStaysOwned'
<1>1. \A m \in Ids : ack'[m] = ack[m] \/ (m \in ids \union errs /\ ack'[m] \in TerminalAck)
  BY DEF MarkDone, TerminalAck
<1>2. Unborn'
  BY <1>1 DEF IInv, Unborn
<1> QED BY <1>1, <1>2, QuietStep

\* With empty hands there is nothing to own.
LEMMA EmptyHands ==
    ASSUME batch' = {}, follow' = {} PROVE WorkStaysOwned' /\ OneHandPerMessage'
BY DEF WorkStaysOwned, OneHandPerMessage, InHand

\* A step that touches neither queue, claims nor hands.
LEMMA FrameStep ==
    ASSUME IInv, UNCHANGED <<row, last, ack, batch, follow>>
    PROVE  Unborn' /\ WorkStaysOwned' /\ OneHandPerMessage'
BY DEF IInv, Unborn, WorkStaysOwned, OneHandPerMessage, InHand, Due

\* An insertion disturbs no row that has been inserted before.
LEMMA InsertKeeps ==
    ASSUME IInv, NEW kind, NEW onWake, NEW wait, InsertRow(kind, onWake, wait), UNCHANGED ack
    PROVE  /\ \A m \in Ids : ~(m > last) => row'[m] = row[m]
           /\ Unborn'
<1>1. last \in Nat /\ last' = last + 1 /\ Ids \subseteq Nat
  BY QueueAssumption DEF IInv, TypeOK, QueueType, InsertRow, Ids
<1>2. \A m \in Ids : m # last + 1 => row'[m] = row[m]
  BY DEF InsertRow, IInv, TypeOK, QueueType
<1>3. \A m \in Ids : ~(m > last) => m # last + 1
  BY <1>1
<1>4. \A m \in Ids : m > last' => m > last /\ m # last + 1
  BY <1>1
<1> QED BY <1>2, <1>3, <1>4 DEF IInv, Unborn

\* A new row is in nobody's hands.
LEMMA InsertStep ==
    ASSUME IInv, NEW kind, NEW onWake, NEW wait, InsertRow(kind, onWake, wait),
           UNCHANGED <<ack, batch, follow>>
    PROVE  Unborn' /\ WorkStaysOwned' /\ OneHandPerMessage'
<1>1. InHand \subseteq Ids
  BY DEF InHand, IInv, TypeOK, HandsType, FollowUps
<1>2. \A m \in InHand : row'[m] = row[m]
  BY <1>1, InsertKeeps, BornFirst
<1>3. WorkStaysOwned'
  BY <1>2 DEF IInv, WorkStaysOwned, InHand, Due
<1>4. OneHandPerMessage'
  BY DEF IInv, OneHandPerMessage
<1> QED BY <1>3, <1>4, InsertKeeps

\* Every step keeps what is in hand owned, by one hand.
LEMMA OwnershipStep ==
    ASSUME IInv, [Next]_vars
    PROVE  Unborn' /\ WorkStaysOwned' /\ OneHandPerMessage'
<1> DEFINE Goal == Unborn' /\ WorkStaysOwned' /\ OneHandPerMessage'
<1>h. /\ batch \subseteq InHand /\ InHand \subseteq Ids
      /\ \A f \in follow : f.batch \subseteq InHand
  BY DEF InHand, IInv, TypeOK, HandsType, FollowUps
<1>b. \A m \in InHand : ~(m > last)
  BY <1>h, BornFirst
<1>a. CASE UNCHANGED vars
  BY <1>a, FrameStep DEF vars, rowVars, ackVars, ctrVars
<1>1. ASSUME NEW kind \in Kinds, Arrive(kind) PROVE Goal
  BY <1>1, InsertStep DEF Arrive, ackVars, ctrVars
<1>2. CASE ScheduleTask
  BY <1>2, InsertStep DEF ScheduleTask, ackVars, ctrVars
<1>3. ASSUME NEW w \in BOOLEAN, Restart(w) PROVE Goal
  <2>1. Unborn'
    BY <1>3, InsertKeeps DEF Restart, rowVars, ackVars, IInv, Unborn
  <2>2. batch' = {} /\ follow' = {}
    BY <1>3 DEF Restart, ContainerGone
  <2> QED BY <2>1, <2>2, EmptyHands
<1>4. CASE SpawnOk \/ SpawnFail \/ Close \/ HostCrash
  BY <1>4, FrameStep DEF SpawnOk, SpawnFail, Close, HostCrash, rowVars, ackVars, ctrVars
<1>5. CASE HostRestart \/ SweepKill \/ Crash
  <2>1. UNCHANGED <<row, last, ack>> /\ batch' = {} /\ follow' = {}
    BY <1>5 DEF HostRestart, SweepKill, Crash, ContainerGone, rowVars, ackVars
  <2> QED BY <2>1, EmptyHands DEF IInv, Unborn
<1>6. CASE SweepBegin
  <2>1. row' = Synced /\ UNCHANGED <<last, ack, batch, follow>>
    BY <1>6 DEF SweepBegin, ackVars, ctrVars
  <2>2. \A m \in Ids : ack[m] \notin TerminalAck \/ row[m].status # "pending" => row'[m] = row[m]
    BY <2>1 DEF Synced
  <2>3. Unborn'
    BY <2>1, <2>2 DEF IInv, Unborn, TerminalAck
  <2>4. WorkStaysOwned'
    BY <2>1, <2>2, <1>h DEF IInv, WorkStaysOwned, InHand, Due, TerminalAck
  <2> QED BY <2>1, <2>3, <2>4 DEF IInv, OneHandPerMessage
<1>7. CASE SweepWoken \/ SweepSla \/ SweepDropFails
  BY <1>7, FrameStep DEF SweepWoken, SweepSla, SweepDropFails, rowVars, ackVars, ctrVars
<1>8. CASE SweepRetry
  <2>1. batch' = {} /\ follow' = {}
    BY <1>8 DEF SweepRetry, ctrVars, IInv, Lifecycle, ResetAlone, DeadHoldsNothing
  <2>2. UNCHANGED <<last, ack>> /\ \A m \in Ids : ack[m] = "none" => row'[m] = row[m]
    BY <1>8 DEF SweepRetry, ackVars, Claims
  <2> QED BY <2>1, <2>2, EmptyHands DEF IInv, Unborn
<1>9. CASE SweepDrop \/ Boot
  <2>1. batch' = {} /\ follow' = {}
    BY <1>9 DEF SweepDrop, Boot, ctrVars, IInv, Lifecycle, ResetAlone, DeadHoldsNothing,
       BootHoldsNothing
  <2>2. UNCHANGED <<row, last>> /\ \A m \in Ids : ack[m] = "none" => ack'[m] = "none"
    BY <1>9 DEF SweepDrop, Boot, DropProcessing, rowVars
  <2> QED BY <2>1, <2>2, EmptyHands DEF IInv, Unborn
<1>10. CASE ScriptTouch \/ QueryEvent \/ ToolStart \/ ToolEnd
  BY <1>10, FrameStep DEF ScriptTouch, QueryEvent, ToolStart, ToolEnd, rowVars,
     ackVars, ctrVars
<1>11. CASE Poll
  <2> DEFINE msgs == {m \in PendingMessages(firstPoll) : row[m].kind # "system"}
             commands == {m \in msgs : row[m].kind = "command"}
  <2>1. \A m \in msgs : m \in Ids /\ Due(m) /\ m \notin InHand /\ ~(m > last) /\ ack[m] = "none"
    BY PendingIsFree DEF IInv, Unborn, Due
  <2>2. UNCHANGED <<row, last, follow>>
    BY <1>11 DEF Poll, rowVars
  <2>3. CASE UNCHANGED <<ack, batch>>
    BY <2>2, <2>3, FrameStep
  <2>4. ASSUME batch' = msgs \ commands,
               ack' = [m \in Ids |-> IF m \in commands THEN "completed"
                                     ELSE IF m \in msgs THEN "processing" ELSE ack[m]]
        PROVE  Goal
    <3> HIDE DEF msgs, commands
    <3>1. Unborn'
      BY <2>1, <2>2, <2>4 DEF IInv, Unborn, commands
    <3>2. \A m \in InHand' : m \in Ids /\ (m \in msgs \/ m \in InHand)
      BY <2>1, <2>2, <2>4, <1>h DEF InHand
    <3>3. \A m \in InHand : ack'[m] = ack[m]
      BY <2>1, <2>4, <1>h DEF commands
    <3>4. \A m \in msgs : ack'[m] # "none" /\ Due(m)
      BY <2>1, <2>4
    <3>5. WorkStaysOwned'
      BY <2>2, <3>2, <3>3, <3>4 DEF IInv, WorkStaysOwned, Due
    <3>6. OneHandPerMessage'
      BY <2>1, <2>2, <2>4, <1>h DEF IInv, OneHandPerMessage
    <3> QED BY <3>1, <3>5, <3>6
  <2> QED BY <2>3, <2>4, <1>11 DEF Poll, ackVars
<1>12. CASE Scripts
  <2>1. PICK gated \in SUBSET batch, errs \in SUBSET batch :
             MarkDone(gated, errs, gated \union errs # {})
    BY <1>12 DEF Scripts
  <2>2. UNCHANGED <<row, last, follow>> /\ batch' \subseteq batch
    BY <1>12 DEF Scripts, rowVars
  <2>3. InHand' \subseteq InHand
    BY <2>2 DEF InHand
  <2>4. OneHandPerMessage'
    BY <2>2 DEF IInv, OneHandPerMessage
  <2> QED BY <2>1, <2>2, <2>3, <2>4, <1>h, <1>b, AcknowledgeStep
<1>13. CASE Hook
  <2>1. UNCHANGED <<row, last, follow>> /\ batch' \subseteq batch
    BY <1>13 DEF Hook, rowVars
  <2>2. InHand' \subseteq InHand
    BY <2>1 DEF InHand
  <2>3. OneHandPerMessage'
    BY <2>1 DEF IInv, OneHandPerMessage
  <2>4. MarkDone(batch, {}, FALSE) \/ UNCHANGED ack
    BY <1>13 DEF Hook, ackVars
  <2>5. Unborn' /\ WorkStaysOwned'
    <3>1. CASE MarkDone(batch, {}, FALSE)
      BY <3>1, <2>1, <2>2, <1>h, <1>b, AcknowledgeStep
    <3>2. CASE UNCHANGED ack
      BY <3>2, <2>1, <2>2, QuietStep DEF IInv, Unborn
    <3> QED BY <2>4, <3>1, <3>2
  <2> QED BY <2>3, <2>5
<1>14. CASE QueryResult
  <2>1. UNCHANGED <<row, last, batch, follow>> /\ MarkDone(batch, {}, TRUE)
    BY <1>14 DEF QueryResult, rowVars, ctrVars
  <2>2. InHand' \subseteq InHand /\ OneHandPerMessage'
    BY <2>1 DEF InHand, IInv, OneHandPerMessage
  <2> QED BY <2>1, <2>2, <1>h, <1>b, AcknowledgeStep
<1>15. CASE QueryEnd
  <2>1. /\ UNCHANGED <<row, last>> /\ MarkDone(batch, {}, FALSE)
        /\ batch' = {} /\ follow' = {[f EXCEPT !.live = FALSE] : f \in follow}
    BY <1>15 DEF QueryEnd, rowVars
  <2>2. \A f \in follow : [f EXCEPT !.live = FALSE].batch = f.batch
    BY DEF IInv, TypeOK, HandsType, FollowUps
  <2>3. \A g \in follow' : \E f \in follow : g.batch = f.batch /\ g = [f EXCEPT !.live = FALSE]
    BY <2>1, <2>2
  <2>4. InHand' \subseteq InHand
    BY <2>1, <2>3 DEF InHand
  <2>5. OneHandPerMessage'
    <3>1. \A f, g \in follow' : f # g => f.batch \intersect g.batch = {}
      <4> SUFFICES ASSUME NEW f \in follow', NEW g \in follow', f # g
                   PROVE  f.batch \intersect g.batch = {}
        OBVIOUS
      <4>1. PICK f0 \in follow : f.batch = f0.batch /\ f = [f0 EXCEPT !.live = FALSE]
        BY <2>3
      <4>2. PICK g0 \in follow : g.batch = g0.batch /\ g = [g0 EXCEPT !.live = FALSE]
        BY <2>3
      <4>3. f0 # g0
        BY <4>1, <4>2
      <4> QED BY <4>1, <4>2, <4>3 DEF IInv, OneHandPerMessage
    <3> QED BY <3>1, <2>1 DEF OneHandPerMessage
  <2> QED BY <2>1, <2>4, <2>5, <1>h, <1>b, AcknowledgeStep
<1>16. CASE TakeAnswer
  <2>1. PICK m \in Ids : row[m].status = "pending" /\ MarkDone({m}, {}, FALSE)
    BY <1>16 DEF TakeAnswer
  <2>2. UNCHANGED <<row, last, batch, follow>>
    BY <1>16 DEF TakeAnswer, rowVars, ctrVars
  <2>3. ~(m > last)
    BY <2>1 DEF IInv, Unborn
  <2>4. InHand' \subseteq InHand /\ OneHandPerMessage'
    BY <2>2 DEF InHand, IInv, OneHandPerMessage
  <2>5. {m} \in SUBSET Ids /\ {} \in SUBSET Ids /\ \A k \in {m} \union {} : ~(k > last)
    BY <2>3
  <2>6. UNCHANGED <<row, last>> /\ FALSE \in BOOLEAN
    BY <2>2
  <2> QED BY <2>1, <2>4, <2>5, <2>6, AcknowledgeStep
<1>17. CASE FollowPoll
  <2> DEFINE msgs == {m \in PendingMessages(FALSE) : row[m].kind # "system"}
             new == [batch |-> msgs, step |-> "scripts", live |-> TRUE]
  <2>1. \A m \in msgs : m \in Ids /\ Due(m) /\ m \notin InHand /\ ~(m > last) /\ ack[m] = "none"
    BY PendingIsFree DEF IInv, Unborn, Due
  <2>2. UNCHANGED <<row, last, batch>>
    BY <1>17 DEF FollowPoll, rowVars
  <2>3. CASE UNCHANGED <<ack, follow>>
    BY <2>2, <2>3, FrameStep
  <2>4. ASSUME follow' = follow \union {new}, MarkProcessing(msgs)
        PROVE  Goal
    <3>1. ack' = [m \in Ids |-> IF m \in msgs THEN "processing" ELSE ack[m]]
      BY <2>4 DEF MarkProcessing
    <3>2. new.batch = msgs
      OBVIOUS
    <3> HIDE DEF msgs, new
    <3>3. Unborn'
      BY <2>1, <2>2, <3>1 DEF IInv, Unborn
    <3>4. \A m \in InHand' : m \in Ids /\ (m \in msgs \/ m \in InHand)
      BY <2>1, <2>2, <2>4, <3>2, <1>h DEF InHand
    <3>5. \A m \in InHand : ack'[m] = ack[m]
      BY <2>1, <3>1, <1>h
    <3>6. \A m \in msgs : ack'[m] # "none" /\ Due(m)
      BY <2>1, <3>1
    <3>7. WorkStaysOwned'
      BY <2>2, <3>4, <3>5, <3>6 DEF IInv, WorkStaysOwned, Due
    <3>8. OneHandPerMessage'
      BY <2>1, <2>2, <2>4, <3>2, <1>h DEF IInv, OneHandPerMessage
    <3> QED BY <3>3, <3>7, <3>8
  <2> QED BY <2>3, <2>4, <1>17 DEF FollowPoll, ackVars
<1>18. ASSUME NEW f \in follow, FollowScripts(f) PROVE Goal
  <2>1. PICK gated \in SUBSET f.batch, errs \in SUBSET f.batch :
           /\ MarkDone(gated, errs, gated \union errs # {})
           /\ follow' = (follow \ {f}) \union
                (IF f.batch \ (gated \union errs) = {} \/ ~f.live THEN {}
                 ELSE {[f EXCEPT !.batch = f.batch \ (gated \union errs), !.step = "hook"]})
    BY <1>18 DEF FollowScripts
  <2>2. UNCHANGED <<row, last, batch>>
    BY <1>18 DEF FollowScripts, rowVars
  <2> DEFINE rest == IF f.batch \ (gated \union errs) = {} \/ ~f.live THEN {}
                     ELSE {[f EXCEPT !.batch = f.batch \ (gated \union errs), !.step = "hook"]}
  <2>3. (\A g \in rest : g.batch \subseteq f.batch) /\ (\A g, h \in rest : g = h)
    BY DEF IInv, TypeOK, HandsType, FollowUps
  <2>4. follow' = (follow \ {f}) \union rest
    BY <2>1
  <2> HIDE DEF rest
  <2>5. OneHandPerMessage' /\ InHand' \subseteq InHand
    BY <2>2, <2>3, <2>4, HandedOn
  <2>6. /\ gated \in SUBSET Ids /\ errs \in SUBSET Ids
        /\ \A m \in gated \union errs : ~(m > last)
    BY <1>h, <1>b
  <2> QED BY <2>1, <2>2, <2>5, <2>6, AcknowledgeStep
<1>19. ASSUME NEW f \in follow, FollowPush(f) PROVE Goal
  <2>1. /\ UNCHANGED <<row, last, batch>> /\ MarkDone(f.batch, {}, FALSE)
        /\ follow' = follow \ {f}
    BY <1>19 DEF FollowPush, rowVars
  <2>2. OneHandPerMessage' /\ InHand' \subseteq InHand
    BY <2>1, Dropped
  <2>3. /\ f.batch \in SUBSET Ids /\ {} \in SUBSET Ids
        /\ \A m \in f.batch \union {} : ~(m > last)
    BY <1>h, <1>b
  <2> QED BY <2>1, <2>2, <2>3, AcknowledgeStep
<1>20. ASSUME NEW f \in follow, FollowError(f) PROVE Goal
  <2>1. UNCHANGED <<row, last, ack, batch>> /\ follow' = follow \ {f}
    BY <1>20 DEF FollowError, rowVars, ackVars
  <2>2. OneHandPerMessage' /\ InHand' \subseteq InHand
    BY <2>1, Dropped
  <2> QED BY <2>1, <2>2, QuietStep DEF IInv, Unborn
<1>21. CASE Tick
  <2>1. UNCHANGED <<last, ack, batch, follow>>
    BY <1>21 DEF Tick, ctrVars
  <2>2. \A m \in Ids : /\ row'[m].status = row[m].status
                       /\ row[m].wait = 0 => row'[m].wait = 0
    BY <1>21 DEF Tick, IInv, TypeOK, QueueType, Rows
  <2>3. \A m \in InHand' : m \in InHand
    BY <2>1 DEF InHand
  <2>4. WorkStaysOwned'
    BY <2>1, <2>2, <2>3, <1>h DEF IInv, WorkStaysOwned, Due
  <2> QED BY <2>1, <2>2, <2>4 DEF IInv, Unborn, OneHandPerMessage
<1> QED
  BY <1>a, <1>1, <1>2, <1>3, <1>4, <1>5, <1>6, <1>7, <1>8, <1>9, <1>10, <1>11, <1>12, <1>13,
     <1>14, <1>15, <1>16, <1>17, <1>18, <1>19, <1>20, <1>21
     DEF Next, HostNext, ContainerNext

\* Which container exists, what it may hold and who holds it, together.
THEOREM Inductive == Spec => []IInv
<1>1. Init => Unborn /\ WorkStaysOwned /\ OneHandPerMessage
  BY DEF Init, Absent, Unborn, WorkStaysOwned, OneHandPerMessage, InHand
<1>2. TypeOK /\ Lifecycle /\ Unborn /\ WorkStaysOwned /\ OneHandPerMessage <=> IInv
  BY DEF IInv
<1>3. IInv /\ [Next]_vars /\ TypeOK' => IInv'
  BY LifecycleStep, OwnershipStep DEF IInv
<1>4. Init /\ TypeOK => IInv
  BY <1>1, <1>2, LifecycleInit
<1> QED BY <1>3, <1>4, TypeCorrect, PTL DEF Spec

\* A message in a live container's hands is neither given up nor rescheduled nor freed
\* by the sweep, a restart or a host crash, and it is in one hand only, for any number
\* of messages.
THEOREM OwnershipHolds == Spec => []HandsAreOwned
<1>1. IInv => HandsAreOwned
  BY DEF IInv, HandsAreOwned
<1> QED BY <1>1, Inductive, PTL

-----------------------------------------------------------------------------
(* What a step does to the queue, seen message by message: seven kinds of  *)
(* step, told apart by what they do to rows and acknowledgements and by    *)
(* whether a container serves the queue.                                   *)

\* A container serves the queue: its loop is past its first clean-up.
Serving == phase \in {"poll", "scripts", "hook", "query"}

\* A loop that holds something polls the queue.
LoopRuns == alive => phase # "off"

\* A row that is not inserted yet was never tried.
Untried == \A m \in Ids : m > last => row[m].tries = 0

\* A row is inserted,
Inserts ==
    /\ \E kind \in Kinds, onWake \in BOOLEAN, wait \in Nat : InsertRow(kind, onWake, wait)
    /\ UNCHANGED ack /\ (Serving' => Serving)
\* the sweep takes over acknowledgements,
Mirrors == row' = Synced /\ UNCHANGED <<last, ack, phase>>
\* books a retry of what a dead container had claimed,
Books ==
    /\ ~alive /\ ~Serving
    /\ row' = [m \in Ids |-> IF m \in Claims THEN Retried(row[m]) ELSE row[m]]
    /\ UNCHANGED <<last, ack, phase>>
\* or frees its claims; a runner that boots does so, too,
Frees ==
    /\ ~Serving
    /\ ack' = [m \in Ids |-> IF ack[m] = "processing" THEN "none" ELSE ack[m]]
    /\ UNCHANGED rowVars
\* the container claims and acknowledges,
Works ==
    /\ Serving /\ Serving'
    /\ \A m \in Ids : \/ ack'[m] = ack[m]
                      \/ ack[m] = "none" /\ ack'[m] = "processing"
                      \/ ack'[m] \in TerminalAck
    /\ UNCHANGED rowVars
\* time passes,
Ticks ==
    /\ row' = [m \in Ids |->
          [row[m] EXCEPT !.wait = IF row[m].wait > 0 THEN row[m].wait - 1 ELSE 0]]
    /\ UNCHANGED <<last, ack, phase>>
\* or the step is about something else.
Rests == UNCHANGED <<rowVars, ack>> /\ (Serving' => Serving)

\* Acknowledging is work on the queue.
LEMMA MarkDoneWorks ==
    ASSUME TypeOK, NEW ids, NEW errs, NEW touched, MarkDone(ids, errs, touched), NEW m \in Ids
    PROVE  ack'[m] = ack[m] \/ ack'[m] \in TerminalAck
BY DEF MarkDone, TerminalAck

\* A follow-up changes neither the queue nor the state of the loop.
LEMMA FollowFrame ==
    ASSUME NEW f, FollowScripts(f) \/ FollowPush(f) \/ FollowError(f)
    PROVE  UNCHANGED <<alive, phase, rowVars>>
<1>1. CASE FollowScripts(f)
  BY <1>1 DEF FollowScripts
<1>2. CASE FollowPush(f)
  BY <1>2 DEF FollowPush
<1>3. CASE FollowError(f)
  BY <1>3 DEF FollowError
<1> QED BY <1>1, <1>2, <1>3

\* Every step is of one of these kinds.
LEMMA StepKinds ==
    ASSUME IInv, LoopRuns, [Next]_vars
    PROVE  Inserts \/ Mirrors \/ Books \/ Frees \/ Works \/ Ticks \/ Rests
<1> DEFINE Goal == Inserts \/ Mirrors \/ Books \/ Frees \/ Works \/ Ticks \/ Rests
<1>t. TypeOK /\ Lifecycle
  BY DEF IInv
<1>f. \A f \in follow : Serving
  BY <1>t DEF LoopRuns, Lifecycle, DeadHoldsNothing, BootHoldsNothing, Serving, TypeOK, LoopType,
     Phases
<1>a. CASE UNCHANGED vars
  BY <1>a DEF vars, rowVars, ackVars, ctrVars, Rests, Serving
<1>1. ASSUME NEW kind \in Kinds, Arrive(kind) PROVE Goal
  <2>1. InsertRow(kind, FALSE, 0) /\ UNCHANGED <<ack, phase>>
    BY <1>1 DEF Arrive, ackVars, ctrVars
  <2>2. Inserts
    BY <2>1 DEF Inserts, Serving
  <2> QED BY <2>2
<1>2. CASE ScheduleTask
  <2>1. UNCHANGED <<ack, phase>> /\ \E d \in Nat : InsertRow("task", FALSE, d)
    BY <1>2, QueueAssumption DEF ScheduleTask, ackVars, ctrVars
  <2>2. "task" \in Kinds
    BY DEF Kinds
  <2>3. Inserts
    BY <2>1, <2>2 DEF Inserts, Serving
  <2> QED BY <2>3
<1>3. ASSUME NEW w \in BOOLEAN, Restart(w) PROVE Goal
  <2>1. UNCHANGED ack /\ phase' = "off" /\ (InsertRow("chat", TRUE, 0) \/ UNCHANGED rowVars)
    BY <1>3 DEF Restart, ContainerGone, ackVars
  <2>2. "chat" \in Kinds /\ ~Serving'
    BY <2>1 DEF Kinds, Serving
  <2>3. Inserts \/ Rests
    BY <2>1, <2>2 DEF Inserts, Rests
  <2> QED BY <2>3
<1>4. CASE SpawnOk
  <2>1. UNCHANGED <<rowVars, ack>> /\ phase' = "boot"
    BY <1>4 DEF SpawnOk
  <2> QED BY <2>1 DEF Rests, Serving
<1>5. CASE SpawnFail \/ Close \/ HostCrash \/ SweepWoken \/ SweepSla \/ SweepDropFails
  BY <1>5 DEF SpawnFail, Close, HostCrash, SweepWoken, SweepSla, SweepDropFails, ackVars, ctrVars,
     Rests, Serving
<1>6. CASE HostRestart \/ SweepKill \/ Crash
  <2>1. UNCHANGED <<rowVars, ack>> /\ phase' = "off"
    BY <1>6 DEF HostRestart, SweepKill, Crash, ContainerGone, ackVars
  <2> QED BY <2>1 DEF Rests, Serving
<1>7. CASE SweepBegin
  BY <1>7 DEF SweepBegin, ackVars, ctrVars, Mirrors
<1>8. CASE SweepRetry
  <2>1. ~alive /\ ~Serving
    BY <1>8, <1>t DEF SweepRetry, Lifecycle, ResetAlone, DeadHoldsNothing, Serving
  <2> QED BY <1>8, <2>1 DEF SweepRetry, ackVars, ctrVars, Books
<1>9. CASE SweepDrop \/ Boot
  <2>1. ~Serving
    BY <1>9, <1>t DEF SweepDrop, Boot, Lifecycle, ResetAlone, DeadHoldsNothing, Serving
  <2> QED BY <1>9, <2>1 DEF SweepDrop, Boot, DropProcessing, Frees
<1>10. CASE Poll
  <2> DEFINE msgs == {m \in PendingMessages(firstPoll) : row[m].kind # "system"}
             commands == {m \in msgs : row[m].kind = "command"}
  <2>1. \A m \in msgs : ack[m] = "none"
    BY DEF PendingMessages
  <2>2. /\ Serving /\ UNCHANGED rowVars
        /\ \/ /\ phase' \in {"poll", "scripts"}
              /\ ack' = [m \in Ids |-> IF m \in commands THEN "completed"
                                       ELSE IF m \in msgs THEN "processing" ELSE ack[m]]
           \/ UNCHANGED <<ack, phase>>
    BY <1>10 DEF Poll, ackVars, Serving
  <2> HIDE DEF msgs, commands
  <2> QED BY <2>1, <2>2 DEF Works, Serving, TerminalAck
<1>11. CASE ScriptTouch \/ QueryEvent \/ ToolStart \/ ToolEnd
  BY <1>11 DEF ScriptTouch, QueryEvent, ToolStart, ToolEnd, ackVars, ctrVars, Rests, Serving
<1>12. CASE Scripts \/ Hook \/ QueryResult \/ QueryEnd
  <2>1. Serving /\ Serving' /\ UNCHANGED rowVars
    BY <1>12 DEF Scripts, Hook, QueryResult, QueryEnd, ctrVars, Serving
  <2>2. UNCHANGED ack \/ \E ids, errs, touched : MarkDone(ids, errs, touched)
    BY <1>12 DEF Scripts, Hook, QueryResult, QueryEnd, ackVars
  <2> QED BY <2>1, <2>2, <1>t, MarkDoneWorks DEF Works
<1>13. CASE TakeAnswer
  <2>1. Serving /\ Serving' /\ UNCHANGED rowVars
    BY <1>13 DEF TakeAnswer, ctrVars, Serving
  <2>2. \E ids, errs, touched : MarkDone(ids, errs, touched)
    BY <1>13 DEF TakeAnswer
  <2> QED BY <2>1, <2>2, <1>t, MarkDoneWorks DEF Works
<1>14. CASE FollowPoll
  <2> DEFINE msgs == {m \in PendingMessages(FALSE) : row[m].kind # "system"}
  <2>1. \A m \in msgs : ack[m] = "none"
    BY DEF PendingMessages
  <2>2. Serving /\ Serving' /\ UNCHANGED rowVars
    BY <1>14 DEF FollowPoll, Serving
  <2>3. UNCHANGED ack \/ ack' = [m \in Ids |-> IF m \in msgs THEN "processing" ELSE ack[m]]
    BY <1>14 DEF FollowPoll, MarkProcessing, ackVars
  <2> HIDE DEF msgs
  <2> QED BY <2>1, <2>2, <2>3 DEF Works
<1>15. ASSUME NEW f \in follow, FollowScripts(f) \/ FollowPush(f) \/ FollowError(f) PROVE Goal
  <2>1. UNCHANGED <<alive, phase, rowVars>>
    BY <1>15, FollowFrame
  <2>2. Serving /\ Serving' /\ UNCHANGED rowVars
    BY <2>1, <1>f DEF Serving
  <2>3. UNCHANGED ack \/ \E ids, errs, touched : MarkDone(ids, errs, touched)
    <3>1. CASE FollowScripts(f)
      BY <3>1 DEF FollowScripts
    <3>2. CASE FollowPush(f)
      BY <3>2 DEF FollowPush
    <3>3. CASE FollowError(f)
      BY <3>3 DEF FollowError, ackVars
    <3> QED BY <1>15, <3>1, <3>2, <3>3
  <2> QED BY <2>2, <2>3, <1>t, MarkDoneWorks DEF Works
<1>16. CASE Tick
  BY <1>16 DEF Tick, ctrVars, Ticks
<1> QED
  BY <1>a, <1>1, <1>2, <1>3, <1>4, <1>5, <1>6, <1>7, <1>8, <1>9, <1>10, <1>11, <1>12, <1>13,
     <1>14, <1>15, <1>16 DEF Next, HostNext, ContainerNext

\* A live container is in some phase of its loop.
LEMMA LoopRunsStep == ASSUME Lifecycle, LoopRuns, [Next]_vars PROVE LoopRuns'
<1> USE DEF LoopRuns
<1>1. CASE UNCHANGED vars
  BY <1>1 DEF vars, ctrVars
<1>2. CASE HostNext
  BY <1>2 DEF HostNext, Arrive, ScheduleTask, Restart, SpawnOk, SpawnFail, Close, HostCrash,
     HostRestart, SweepBegin, SweepWoken, SweepSla, SweepKill, SweepRetry, SweepDrop,
     SweepDropFails, ContainerGone, ctrVars, hostVars
<1>3. CASE Boot \/ Poll \/ ScriptTouch \/ Scripts \/ Hook \/ Crash
  BY <1>3 DEF Boot, Poll, ScriptTouch, Scripts, Hook, Crash, ContainerGone, ctrVars
<1>4. CASE QueryEvent \/ QueryResult \/ QueryEnd \/ ToolStart \/ ToolEnd \/ TakeAnswer \/ FollowPoll
  BY <1>4 DEF QueryEvent, QueryResult, QueryEnd, ToolStart, ToolEnd, TakeAnswer, FollowPoll, ctrVars
<1>5. ASSUME NEW f \in follow, FollowScripts(f) \/ FollowPush(f) \/ FollowError(f) PROVE LoopRuns'
  BY <1>5, FollowFrame
<1>6. CASE Tick
  BY <1>6 DEF Tick, ctrVars
<1> QED BY <1>1, <1>2, <1>3, <1>4, <1>5, <1>6 DEF Next, ContainerNext

-----------------------------------------------------------------------------
(* What a status means, and that nothing is done twice                     *)

\* The inductive invariant of rows and their statuses.
HInv == IInv /\ LoopRuns /\ Untried /\ StatusIsEarned

\* An acknowledgement is never taken back.
LEMMA AcksStay ==
    ASSUME IInv, LoopRuns, [Next]_vars, NEW m \in Ids, ack[m] \in TerminalAck
    PROVE  ack'[m] \in TerminalAck
<1>1. ack[m] # "none" /\ ack[m] # "processing"
  BY DEF TerminalAck
<1> QED BY <1>1, StepKinds DEF Inserts, Mirrors, Books, Frees, Works, Ticks, Rests

\* The row an insertion adds is one nobody knows of yet; all others stay.
LEMMA InsertsOne ==
    ASSUME IInv, Untried, Inserts, NEW m \in Ids
    PROVE  \/ row'[m] = row[m] /\ (m > last' => m > last)
           \/ /\ m > last /\ ~(m > last')
              /\ row[m].status = "absent" /\ row[m].tries = 0 /\ ack[m] = "none"
              /\ row'[m].status = "pending" /\ row'[m].tries = 0
<1>1. PICK kind \in Kinds, onWake \in BOOLEAN, wait \in Nat : InsertRow(kind, onWake, wait)
  BY DEF Inserts
<1>2. last \in Nat /\ m \in Nat /\ last' = last + 1
  BY <1>1, QueueAssumption DEF IInv, TypeOK, QueueType, InsertRow, Ids
<1>3. CASE m = last + 1
  <2>1. row'[m] = [kind |-> kind, onWake |-> onWake, status |-> "pending",
                   tries |-> 0, wait |-> wait]
    BY <1>1, <1>3 DEF InsertRow, IInv, TypeOK, QueueType
  <2>2. m > last /\ ~(m > last')
    BY <1>2, <1>3
  <2> QED BY <2>1, <2>2 DEF IInv, Unborn, Untried
<1>4. CASE m # last + 1
  <2>1. row'[m] = row[m]
    BY <1>1, <1>4 DEF InsertRow, IInv, TypeOK, QueueType
  <2>2. m > last' => m > last
    BY <1>2
  <2> QED BY <2>1, <2>2
<1> QED BY <1>3, <1>4

\* A retry is booked on a row that is claimed, and gives it up at the limit only.
LEMMA BookedRow ==
    ASSUME IInv, Books, NEW m \in Ids
    PROVE  \/ row'[m] = row[m]
           \/ /\ m \in Claims /\ row[m].status = "pending" /\ row'[m].status = "pending"
           \/ /\ m \in Claims /\ row[m].status = "pending" /\ row'[m].status = "failed"
              /\ row'[m].tries = row[m].tries /\ row[m].tries = MaxTries
<1>1. row[m] \in Rows /\ MaxTries \in Nat
  BY QueueAssumption DEF IInv, TypeOK, QueueType
<1>2. row'[m] = IF m \in Claims THEN Retried(row[m]) ELSE row[m]
  BY DEF Books
<1>3. row[m].tries >= MaxTries => row[m].tries = MaxTries
  BY <1>1 DEF Rows
<1> QED BY <1>1, <1>2, <1>3 DEF Retried, Rows

\* The mirrored row has the outcome its acknowledgement names, or is as it was.
LEMMA MirroredRow ==
    ASSUME IInv, Mirrors, NEW m \in Ids
    PROVE  \/ row'[m] = row[m]
           \/ /\ ack[m] \in TerminalAck /\ row[m].status = "pending"
              /\ row'[m].status \in {"completed", "failed"} /\ row'[m].tries = row[m].tries
BY DEF Mirrors, Synced, IInv, TypeOK, QueueType, Rows

\* Time changes only what is left of a delay.
LEMMA TickedRow ==
    ASSUME IInv, Ticks, NEW m \in Ids
    PROVE  row'[m].status = row[m].status /\ row'[m].tries = row[m].tries
BY DEF Ticks, IInv, TypeOK, QueueType, Rows

\* At the beginning nothing was tried, completed or failed.
LEMMA StatusInit == Init => LoopRuns /\ Untried /\ StatusIsEarned
BY DEF Init, LoopRuns, Untried, StatusIsEarned, Absent

\* A status is given by the sweep alone, to a message that earned it.
LEMMA StatusStep ==
    ASSUME HInv, [Next]_vars PROVE Untried' /\ StatusIsEarned'
<1>i. IInv /\ LoopRuns /\ Untried
  BY DEF HInv
<1>s. SUFFICES ASSUME NEW m \in Ids
      PROVE  /\ m > last' => row'[m].tries = 0
             /\ row'[m].status = "completed" => ack'[m] \in TerminalAck
             /\ row'[m].status = "failed" => ack'[m] \in TerminalAck \/ row'[m].tries = MaxTries
  BY DEF Untried, StatusIsEarned
<1>a. ack[m] \in TerminalAck => ack'[m] \in TerminalAck
  BY <1>i, AcksStay
<1>h. /\ m > last => row[m].tries = 0
      /\ row[m].status = "completed" => ack[m] \in TerminalAck
      /\ row[m].status = "failed" => ack[m] \in TerminalAck \/ row[m].tries = MaxTries
  BY DEF HInv, Untried, StatusIsEarned
<1>1. CASE Inserts
  BY <1>1, <1>i, <1>a, <1>h, InsertsOne
<1>2. CASE Mirrors
  BY <1>2, <1>i, <1>a, <1>h, MirroredRow DEF Mirrors
<1>3. CASE Books
  <2>1. m \in Claims => ~(m > last)
    BY <1>i, BornFirst DEF Claims
  <2> QED BY <1>3, <2>1, <1>i, <1>a, <1>h, BookedRow DEF Books
<1>4. CASE Frees \/ Works \/ Rests
  BY <1>4, <1>a, <1>h DEF Frees, Works, Rests, rowVars
<1>5. CASE Ticks
  BY <1>5, <1>i, <1>a, <1>h, TickedRow DEF Ticks
<1> QED BY <1>i, <1>1, <1>2, <1>3, <1>4, <1>5, StepKinds

\* All of this together is inductive.
LEMMA History == Spec => []HInv
<1>1. Init /\ IInv => HInv
  BY StatusInit DEF HInv
<1>2. HInv /\ [Next]_vars /\ IInv' => HInv'
  BY StatusStep, LoopRunsStep DEF HInv, IInv
<1> QED BY <1>1, <1>2, Inductive, PTL DEF Spec

\* The host calls a row completed only if the container acknowledged it, failed only if
\* it did or the tries are used up: syncProcessingAcks and resetStuckProcessingRows tell
\* the truth, for any traffic and any limits.
THEOREM StatusEarned == Spec => []StatusIsEarned
<1>1. HInv => StatusIsEarned
  BY DEF HInv
<1> QED BY <1>1, History, PTL

\* Neither a crash nor a restart nor a pass of the sweep redoes acknowledged work, and a
\* try is booked only against a container that is gone.
THEOREM WorkDoneOnce == Spec => NoWorkIsRedone
<1>1. HInv /\ [Next]_vars =>
        [\A m \in Ids : ack[m] \in TerminalAck =>
            /\ ack'[m] \in TerminalAck
            /\ row'[m].tries = row[m].tries]_vars
  <2> SUFFICES ASSUME HInv, [Next]_vars, NEW m \in Ids, ack[m] \in TerminalAck
               PROVE  ack'[m] \in TerminalAck /\ row'[m].tries = row[m].tries
    OBVIOUS
  <2>i. IInv /\ LoopRuns /\ Untried
    BY DEF HInv
  <2>n. ack[m] # "none" /\ m \notin Claims
    BY DEF TerminalAck, Claims
  <2>1. row'[m].tries = row[m].tries
    BY <2>i, <2>n, StepKinds, InsertsOne, MirroredRow, BookedRow, TickedRow
       DEF Frees, Works, Rests, rowVars
  <2> QED BY <2>1, <2>i, AcksStay
<1>2. HInv /\ [Next]_vars =>
        [\A m \in Ids : row'[m].tries # row[m].tries => m \in Claims /\ ~alive]_vars
  <2> SUFFICES ASSUME HInv, [Next]_vars, NEW m \in Ids, row'[m].tries # row[m].tries
               PROVE  m \in Claims /\ ~alive
    OBVIOUS
  <2>i. IInv /\ LoopRuns /\ Untried
    BY DEF HInv
  <2>1. Books
    BY <2>i, StepKinds, InsertsOne, MirroredRow, TickedRow DEF Frees, Works, Rests, rowVars
  <2> QED BY <2>1, <2>i, BookedRow DEF Books
<1> QED BY <1>1, <1>2, History, PTL DEF Spec, NoWorkIsRedone, AckIsFinal, RetryOnlyAbandoned

-----------------------------------------------------------------------------
(* The queue as seen from outside: every step is one of LeaseQueue's       *)

\* Where the messages stand, all at once.
Standings == [m \in Ids |-> Standing(m)]

\* What each message does decides what the abstract queue does.
LEMMA MovesEach ==
    ASSUME NEW edges,
           \A m \in Ids : Standing(m)' = Standing(m) \/ <<Standing(m), Standing(m)'>> \in edges
    PROVE  Lease!Moves(edges)
<1>1. \A m \in Ids : Standing(m)' \in Lease!States
  BY DEF Standing, Lease!States
<1> QED BY <1>1 DEF Lease!Moves

\* A message without a change stands where it stood.
LEMMA StandsStill ==
    ASSUME \A m \in Ids : row'[m].status = row[m].status, UNCHANGED ack
    PROVE  \A m \in Ids : Standing(m)' = Standing(m)
BY DEF Standing, Settled

\* An insertion accepts a message.
LEMMA InsertAccepts ==
    ASSUME HInv, Inserts PROVE Lease!Accept
<1>1. UNCHANGED ack /\ (Serving' => Serving)
  BY DEF Inserts
<1>2. ASSUME NEW m \in Ids
      PROVE  Standing(m)' = Standing(m) \/ <<Standing(m), Standing(m)'>> \in {<<"new", "waiting">>}
  <2>1. row'[m] = row[m]
        \/ (row[m].status = "absent" /\ ack[m] = "none" /\ row'[m].status = "pending")
    BY InsertsOne DEF HInv
  <2> QED BY <1>1, <2>1 DEF Standing, Settled, TerminalAck
<1>3. Lease!Moves({<<"new", "waiting">>})
  BY <1>2, MovesEach
<1>4. Serving' \in {Serving, FALSE}
  <2>1. \A a, b \in BOOLEAN : (a => b) => a \in {b, FALSE}
    OBVIOUS
  <2>2. Serving \in BOOLEAN /\ Serving' \in BOOLEAN
    BY DEF Serving
  <2> QED BY <1>1, <2>1, <2>2, Zenon
<1> QED BY <1>3, <1>4 DEF Lease!Accept, Serving

\* A sweep's first pass settles what was acknowledged.
LEMMA MirrorSettles ==
    ASSUME HInv, Mirrors PROVE Lease!Settle
<1>1. ASSUME NEW m \in Ids
      PROVE  Standing(m)' = Standing(m) \/ <<Standing(m), Standing(m)'>> \in {<<"acked", "settled">>}
  BY MirroredRow DEF HInv, Mirrors, Standing, Settled
<1>2. Lease!Moves({<<"acked", "settled">>})
  BY <1>1, MovesEach
<1> QED BY <1>2 DEF Lease!Settle, Mirrors

\* Booking tries and freeing claims is recovery, and nobody serves meanwhile.
LEMMA RecoveryRecovers ==
    ASSUME HInv, Books \/ Frees PROVE Lease!Recover
<1> DEFINE edges == {<<"taken", "waiting">>, <<"taken", "settled">>}
<1>1. ASSUME NEW m \in Ids
      PROVE  Standing(m)' = Standing(m) \/ <<Standing(m), Standing(m)'>> \in edges
  <2>1. CASE Books
    BY <2>1, BookedRow DEF HInv, Books, Claims, Standing, Settled, TerminalAck
  <2>2. CASE Frees
    BY <2>2 DEF Frees, rowVars, Standing, Settled, TerminalAck
  <2> QED BY <2>1, <2>2
<1>2. Lease!Moves(edges)
  BY <1>1, MovesEach
<1> QED BY <1>2 DEF Lease!Recover, Books, Frees, Serving

\* What a container does to the queue is service.
LEMMA WorkServes ==
    ASSUME HInv, Works PROVE Lease!Serve
<1> DEFINE edges == {<<"waiting", "taken">>, <<"waiting", "acked">>, <<"taken", "acked">>}
<1>1. ASSUME NEW m \in Ids
      PROVE  Standing(m)' = Standing(m) \/ <<Standing(m), Standing(m)'>> \in edges
  <2>1. row' = row /\ ack[m] \in Acks
    BY DEF Works, rowVars, HInv, IInv, TypeOK, AckType
  <2>2. \/ ack'[m] = ack[m] \/ (ack[m] = "none" /\ ack'[m] = "processing")
        \/ ack'[m] \in TerminalAck
    BY DEF Works
  <2> QED BY <2>1, <2>2 DEF Standing, Settled, TerminalAck, Acks
<1>2. Lease!Moves(edges)
  BY <1>1, MovesEach
<1> QED BY <1>2 DEF Lease!Serve, Works, Serving

\* Every step of host, sweep and container is a step of the abstract queue or none.
LEMMA LeaseStep ==
    ASSUME HInv, [Next]_vars PROVE [Lease!Next]_<<Standings, Serving>>
<1>1. CASE Inserts
  BY <1>1, InsertAccepts DEF Lease!Next
<1>2. CASE Mirrors
  BY <1>2, MirrorSettles DEF Lease!Next
<1>3. CASE Books \/ Frees
  BY <1>3, RecoveryRecovers DEF Lease!Next
<1>4. CASE Works
  BY <1>4, WorkServes DEF Lease!Next
<1>5. CASE Ticks
  <2>1. Standings' = Standings
    BY <1>5, TickedRow, StandsStill DEF HInv, Ticks, Standings
  <2> QED BY <1>5, <2>1 DEF Ticks, Serving
<1>6. CASE Rests
  <2>1. Standings' = Standings
    BY <1>6, StandsStill DEF Rests, rowVars, Standings
  <2>2. Serving' = Serving \/ Lease!Stop
    BY <1>6, <2>1 DEF Rests, Serving, Standings, Lease!Stop
  <2> QED BY <2>1, <2>2 DEF Lease!Next
<1> QED BY <1>1, <1>2, <1>3, <1>4, <1>5, <1>6, StepKinds DEF HInv

\* The session's database pair, the sweep and the container together implement the lease
\* queue: a message leaves a container's hands unfinished only while no container serves.
THEOREM LeaseImplemented == Spec => ImplementsLease
<1>1. Init => Lease!Init
  <2>1. Init => \A m \in Ids : Standing(m) = "new"
    BY DEF Init, Absent, Standing, Settled, TerminalAck
  <2>2. Init => [m \in Ids |-> Standing(m)] = [m \in Ids |-> "new"]
    BY <2>1, Zenon
  <2>3. Init => Serving = FALSE
    <3>1. Init => ~Serving
      BY DEF Init, Serving
    <3>2. \A a \in BOOLEAN : ~a => a = FALSE
      OBVIOUS
    <3> QED BY <3>1, <3>2 DEF Serving
  <2> QED BY <2>2, <2>3, Zenon DEF Lease!Init, Serving
<1>2. HInv /\ [Next]_vars => [Lease!Next]_<<[m \in Ids |-> Standing(m)], Serving>>
  BY LeaseStep DEF Standings
<1> QED BY <1>1, <1>2, History, PTL DEF Spec, ImplementsLease, Lease!Spec, Serving

=============================================================================
