------------------------- MODULE TaskSeries_proofs --------------------------
(***************************************************************************)
(* Proof that the schedule of a series is neither lost nor revived, for    *)
(* any number of rows and any limit of failures. The invariant ties the    *)
(* rows that carry a recurrence to the list the sweep is re-arming.        *)
(***************************************************************************)
EXTENDS TaskSeries, TLAPS

\* Only rows that were inserted have a status; only live rows and runs recur.
RowsShape ==
    /\ \A r \in RowIds : status[r] # "none" => r <= last
    /\ recurs \subseteq Live \union Ran

\* The sweep's list: rows that recur, and none outside step 5. A successor that
\* is already in is live, and is not the row it succeeds.
RearmShape ==
    /\ todo \subseteq recurs /\ (stage # "rearm" => todo = {})
    /\ rearming # 0 => /\ rearming \in todo /\ rearming # last
                       /\ last \in recurs \intersect Live

\* What the operator's last word means for the rows.
OrderShape ==
    /\ wanted => recurs # {}
    /\ ended => recurs = {} /\ last # 0

\* In step 5 a run that was not taken on by the sweep has a live successor.
CloseShape ==
    stage = "rearm" /\ ~slipped => Live # {} \/ CompletedRecurring \subseteq todo

\* The inductive invariant.
Shape == RowsShape /\ RearmShape /\ OrderShape /\ CloseShape /\ SessionStays
IInv == TypeOK /\ Shape

\* The initial state has no row and no work.
LEMMA InitIInv == Init => IInv
<1> SUFFICES ASSUME Init PROVE IInv
  OBVIOUS
<1>1. last \in 0..MaxRows /\ rearming \in 0..last
  BY SeriesAssumption DEF Init
<1>2. status \in [RowIds -> Statuses] /\ ack \in [RowIds -> Acks]
  BY DEF Init, Statuses, Acks
<1>3. TypeOK
  BY <1>1, <1>2 DEF Init, TypeOK, Stages
<1>4. Shape
  BY DEF Init, Shape, RowsShape, RearmShape, OrderShape, CloseShape, SessionStays, RowIds, Live, Ran
<1> QED BY <1>3, <1>4 DEF IInv

\* Every step keeps the invariant. Shape is disturbed by the commands that end a
\* series, by the insertions and by the two ends of step 5.
LEMMA StepIInv == ASSUME IInv, [Next]_vars PROVE IInv'
<1> USE SeriesAssumption DEF IInv, rowVars, runVars, sweepVars, orderVars
<1> USE DEF RowIds, Live, Ran, CompletedRecurring, Statuses, Acks, Stages
<1> USE DEF Shape, RowsShape, RearmShape, OrderShape, CloseShape, SessionStays

<1>1. CASE UNCHANGED vars
  <2>1. TypeOK'
    BY <1>1 DEF vars, TypeOK
  <2>2. Shape'
    BY <1>1 DEF vars, TypeOK
  <2> QED BY <2>1, <2>2

<1>2. CASE Cancel
  <2>1. TypeOK'
    BY <1>2 DEF Cancel, Command, TypeOK
  <2>2. Live' = {} /\ Ran' = Ran /\ stage # "rearm" /\ last # 0
    BY <1>2 DEF Cancel, Command, TypeOK
  <2>3. ended' => recurs' = {}
    BY <1>2 DEF Cancel
  <2>4. RowsShape'
    BY <1>2, <2>2 DEF Cancel, TypeOK
  <2>5. RearmShape' /\ OrderShape'
    BY <1>2, <2>2, <2>3 DEF Cancel, TypeOK
  <2>6. CloseShape' /\ SessionStays'
    BY <1>2, <2>2 DEF Cancel
  <2> QED BY <2>1, <2>4, <2>5, <2>6

<1>3. CASE Pause
  <2>1. TypeOK'
    BY <1>3 DEF Pause, Command, TypeOK
  <2>2. Shape'
    BY <1>3 DEF Pause, Command, TypeOK
  <2> QED BY <2>1, <2>2

<1>4. CASE Resume
  <2>1. TypeOK'
    BY <1>4 DEF Resume, Command, TypeOK
  <2>2. Shape'
    BY <1>4 DEF Resume, Command, TypeOK
  <2> QED BY <2>1, <2>2

<1>5. CASE Delete
  <2>1. TypeOK'
    BY <1>5 DEF Delete, Command, TypeOK
  <2>2. Shape'
    BY <1>5 DEF Delete, Command, TypeOK
  <2> QED BY <2>1, <2>2

<1>6. CASE Run
  <2>1. TypeOK'
    BY <1>6 DEF Run, InsertTaskRow, Command, TypeOK
  <2>2. Shape'
    BY <1>6 DEF Run, InsertTaskRow, Command, TypeOK
  <2> QED BY <2>1, <2>2

<1>7. CASE UpdateProcessAfter
  <2>1. TypeOK'
    BY <1>7 DEF UpdateProcessAfter, Command, TypeOK
  <2>2. Shape'
    BY <1>7 DEF UpdateProcessAfter, Command, TypeOK
  <2> QED BY <2>1, <2>2

<1>8. CASE Claim
  <2>1. TypeOK'
    BY <1>8 DEF Claim, TypeOK
  <2>2. Shape'
    BY <1>8 DEF Claim, TypeOK
  <2> QED BY <2>1, <2>2

<1>9. CASE ContainerDown
  <2>1. TypeOK'
    BY <1>9 DEF ContainerDown, TypeOK
  <2>2. Shape'
    BY <1>9 DEF ContainerDown, TypeOK
  <2> QED BY <2>1, <2>2

<1>10. CASE HostCrash
  <2>1. rearming' \in 0..last'
    BY <1>10 DEF HostCrash, TypeOK
  <2>2. TypeOK'
    BY <1>10, <2>1 DEF HostCrash, TypeOK
  <2>3. Shape'
    BY <1>10 DEF HostCrash, TypeOK
  <2> QED BY <2>2, <2>3

<1>11. CASE SweepSync
  <2>1. TypeOK'
    BY <1>11 DEF SweepSync, TypeOK
  <2>2. Shape'
    BY <1>11 DEF SweepSync, TypeOK
  <2> QED BY <2>1, <2>2

<1>12. CASE SweepWake
  <2>1. TypeOK'
    BY <1>12 DEF SweepWake, TypeOK
  <2>2. Shape'
    BY <1>12 DEF SweepWake, TypeOK
  <2> QED BY <2>1, <2>2

<1>13. CASE SweepReset
  <2>1. TypeOK'
    BY <1>13 DEF SweepReset, TypeOK
  <2>2. Shape'
    BY <1>13 DEF SweepReset, TypeOK
  <2> QED BY <2>1, <2>2

<1>14. CASE SweepRecurring
  <2>1. TypeOK'
    BY <1>14 DEF SweepRecurring, TypeOK
  <2>2. Shape'
    BY <1>14 DEF SweepRecurring, TypeOK
  <2> QED BY <2>1, <2>2

<1>15. CASE ClearRecurrence
  <2>1. TypeOK'
    BY <1>15 DEF ClearRecurrence, TypeOK
  <2>2. Shape'
    BY <1>15 DEF ClearRecurrence, TypeOK
  <2> QED BY <2>1, <2>2

<1>16. CASE SweepClose
  <2>1. TypeOK'
    BY <1>16 DEF SweepClose, TypeOK
  <2>2. RowsShape' /\ RearmShape' /\ OrderShape' /\ CloseShape'
    BY <1>16 DEF SweepClose, TypeOK
  <2>3. ASSUME wanted, ~slipped PROVE Live # {}
    <3>1. PICK r \in recurs : TRUE
      BY <2>3
    <3>2. CASE CompletedRecurring \subseteq todo
      BY <1>16, <3>1, <3>2 DEF SweepClose
    <3> QED BY <1>16, <2>3, <3>2 DEF SweepClose
  <2>4. SessionStays'
    BY <1>16, <2>3 DEF SweepClose
  <2> QED BY <2>1, <2>2, <2>4

<1>17. ASSUME NEW as \in {"pending", "paused"}, NEW recurring \in BOOLEAN, Create(as, recurring) PROVE IInv'
  <2>1. last = 0 /\ 1 \in RowIds /\ stage # "rearm"
    BY <1>17 DEF Create, Command
  <2>2. (\A k \in RowIds : status[k] = "none") /\ recurs = {} /\ due = {} /\ todo = {} /\ manual = {}
    BY <2>1 DEF TypeOK
  <2>3. last' = 1 /\ recurs' = (IF recurring THEN {1} ELSE {}) /\ due' = {} /\ rearming = 0 /\ ~ended
    BY <1>17, <2>1, <2>2 DEF Create, InsertTaskRow
  <2>4. /\ status' \in [RowIds -> Statuses]
        /\ \A k \in RowIds : status'[k] = IF k = 1 THEN as ELSE "none"
    <3>1. status' = [status EXCEPT ![1] = as]
      BY <1>17, <2>1 DEF Create, InsertTaskRow
    <3> QED BY <2>1, <2>2, <3>1 DEF TypeOK
  <2>5. last' \in 0..MaxRows /\ rearming' \in 0..last'
    BY <1>17, <2>1, <2>3 DEF Create
  <2>6. TypeOK'
    BY <1>17, <2>2, <2>3, <2>4, <2>5 DEF Create, TypeOK
  <2>7. Live' = {1}
    BY <1>17, <2>1, <2>4, ZenonT(30)
  <2>8. RowsShape'
    <3>1. ASSUME NEW k \in RowIds, status'[k] # "none" PROVE k = 1
      BY ONLY <2>4, <3>1
    <3>2. \A k \in RowIds : status'[k] # "none" => k <= last'
      BY <2>3, <3>1
    <3> QED BY <2>3, <2>7, <3>2
  <2>9. RearmShape' /\ OrderShape'
    BY <1>17, <2>2, <2>3 DEF Create
  <2>10. CloseShape' /\ SessionStays'
    BY <1>17, <2>1 DEF Create, Command
  <2> QED BY <2>6, <2>8, <2>9, <2>10

<1>18. ASSUME NEW recurring \in BOOLEAN, UpdateRecurrence(recurring) PROVE IInv'
  <2>1. Live \subseteq 1..last
    BY DEF TypeOK
  <2>2. TypeOK'
    BY <1>18, <2>1 DEF UpdateRecurrence, TypeOK
  <2>3. Live' = Live /\ Ran' = Ran /\ stage # "rearm" /\ Live # {}
    BY <1>18 DEF UpdateRecurrence, Command
  <2>4. RowsShape'
    BY <1>18, <2>3 DEF UpdateRecurrence, TypeOK
  <2>5. RearmShape' /\ OrderShape'
    BY <1>18, <2>3 DEF UpdateRecurrence
  <2>6. CloseShape' /\ SessionStays'
    BY <1>18, <2>3 DEF UpdateRecurrence, Command
  <2> QED BY <2>2, <2>4, <2>5, <2>6

<1>19. ASSUME NEW r \in RowIds, TimePasses(r) PROVE IInv'
  <2>1. TypeOK'
    BY <1>19 DEF TimePasses, TypeOK
  <2>2. Shape'
    BY <1>19 DEF TimePasses, TypeOK
  <2> QED BY <2>1, <2>2

<1>20. ASSUME NEW r \in RowIds, NEW as \in {"completed", "script-skip:error"}, Finish(r, as) PROVE IInv'
  <2>1. TypeOK'
    BY <1>20 DEF Finish, TypeOK
  <2>2. Shape'
    BY <1>20 DEF Finish, TypeOK
  <2> QED BY <2>1, <2>2

<1>21. ASSUME NEW r \in RowIds, InsertRecurrence(r) PROVE IInv'
  <2>1. TypeOK'
    BY <1>21 DEF InsertRecurrence, InsertTaskRow, TypeOK
  <2>2. Shape'
    BY <1>21 DEF InsertRecurrence, InsertTaskRow, TypeOK
  <2> QED BY <2>1, <2>2

<1>22. ASSUME NEW r \in RowIds, RearmFails(r) PROVE IInv'
  <2>1. TypeOK'
    BY <1>22 DEF RearmFails, TypeOK
  <2>2. Shape'
    BY <1>22 DEF RearmFails, TypeOK
  <2> QED BY <2>1, <2>2
<1> QED
  BY <1>1, <1>2, <1>3, <1>4, <1>5, <1>6, <1>7, <1>8, <1>9, <1>10, <1>11, <1>12, <1>13, <1>14, <1>15, <1>16, <1>17, <1>18, <1>19, <1>20, <1>21, <1>22 DEF Next, Operator, Container, Sweep

\* What the invariant says of a single state.
LEMMA IInvImplies == IInv => TypeOK /\ ScheduleSurvives /\ SessionStays /\ EndedStaysEnded
BY DEF IInv, Shape, RowsShape, OrderShape, ScheduleSurvives, EndedStaysEnded

\* The invariant holds of the specification.
LEMMA AlwaysIInv == Spec => []IInv
BY InitIInv, StepIInv, PTL DEF Spec

\* The rows, the session and the sweep keep their types: a series never has a
\* status, a stage or a row number the code does not know.
THEOREM SeriesTypes == Spec => []TypeOK
BY AlwaysIInv, IInvImplies, PTL

\* A series that is to recur always has a row to go on from, whatever dies or
\* fails between a run and the insertion of the next (handleRecurrence).
THEOREM ScheduleKept == Spec => []ScheduleSurvives
BY AlwaysIInv, IInvImplies, PTL

\* Its session stays open unless a re-arm failed (step 6 of sweepSession).
THEOREM SessionKept == Spec => []SessionStays
BY AlwaysIInv, IInvImplies, PTL

\* What was cancelled or deleted between two runs never recurs (cancelTask).
THEOREM EndedForGood == Spec => []EndedStaysEnded
BY AlwaysIInv, IInvImplies, PTL

=============================================================================
