----------------------------- MODULE TaskSeries -----------------------------
(***************************************************************************)
(* One scheduled task series in its own task session. A series is a chain  *)
(* of messages_in rows of kind 'task': the row carrying a recurrence is    *)
(* the schedule, `ncl tasks` edits the live rows, the container runs what  *)
(* is due, and the sweep puts the next row in when one has run.            *)
(*                                                                         *)
(* Source: src/modules/scheduling/{db,recurrence,create}.ts,               *)
(* cli/resources/tasks.ts, and the steps of host-sweep.ts around them. How *)
(* a row is claimed, retried and acknowledged is in SessionQueue; here a   *)
(* claim ends in an acknowledgement, another attempt or a failed run.      *)
(***************************************************************************)
EXTENDS Integers, FiniteSets

CONSTANTS
    MaxRows,   \* bound: rows the series ever has
    PauseCap   \* SCRIPT_FAIL_PAUSE_CAP

ASSUME SeriesAssumption == MaxRows \in Nat \ {0} /\ PauseCap \in Nat \ {0}

VARIABLES
    last,      \* rows inserted so far; a row is its number, seq order
    status,    \* messages_in.status; "none" before insertion, after deletion
    recurs,    \* rows with a recurrence
    due,       \* rows whose process_after has passed
    ack,       \* processing_ack.status
    open,      \* the task session is active
    running,   \* it has a container
    stage,     \* where sweepSession is
    todo,      \* recurring: the rows handleRecurrence has still to re-arm
    rearming,  \* the row whose successor is in, its recurrence not yet cleared
    manual,    \* rows put in by `ncl tasks run`
    wanted,    \* the operator's last word on the schedule: it is to recur
    ended,     \* ... or it was cancelled or deleted between two runs
    slipped    \* a row could not be re-armed: the insert threw

rowVars == <<last, status, recurs, due>>
runVars == <<ack, running>>
sweepVars == <<open, stage, todo, rearming>>
orderVars == <<manual, wanted, ended, slipped>>
vars == <<rowVars, runVars, sweepVars, orderVars>>

-----------------------------------------------------------------------------
RowIds == 1..MaxRows

Statuses == {"none", "pending", "paused", "cancelled", "completed", "failed"}
Acks     == {"none", "processing", "completed", "script-skip:error"}
Stages   == {"idle", "synced", "woken", "reset", "rearm"}

Live == {r \in RowIds : status[r] \in {"pending", "paused"}}
Ran  == {r \in RowIds : status[r] \in {"completed", "failed"}}

\* countDueMessages
WorkDue == \E r \in due : status[r] = "pending"

\* trailingFailedRuns: failed rows with no completed one after them.
TrailingFails ==
    Cardinality({r \in Ran : \A k \in Ran : k >= r => status[k] = "failed"})

\* Mutant: failed runs are not re-armed.
OnlyCompleted == {r \in Ran : status[r] = "completed"} \intersect recurs
\* getCompletedRecurring
CompletedRecurring == Ran \intersect recurs

Init ==
    /\ last = 0
    /\ status = [r \in RowIds |-> "none"] /\ recurs = {} /\ due = {}
    /\ ack = [r \in RowIds |-> "none"] /\ running = FALSE
    /\ open = TRUE /\ stage = "idle" /\ todo = {} /\ rearming = 0
    /\ manual = {} /\ wanted = FALSE /\ ended = FALSE /\ slipped = FALSE

\* insertTaskRow
InsertTaskRow(as, recurring, now) ==
    /\ last < MaxRows
    /\ last' = last + 1
    /\ status' = [status EXCEPT ![last + 1] = as]
    /\ recurs' = IF recurring THEN recurs \union {last + 1} ELSE recurs
    /\ due' = IF now THEN due \union {last + 1} ELSE due

-----------------------------------------------------------------------------
(* ncl tasks: commands run in the host process, between two steps of the   *)
(* sweep, on active sessions.                                              *)

Command == open /\ stage # "rearm"

\* createScheduledTask; a template's tasks start paused.
Create(as, recurring) ==
    /\ Command /\ last = 0
    /\ InsertTaskRow(as, recurring, FALSE)
    /\ wanted' = recurring
    /\ UNCHANGED <<runVars, sweepVars, manual, ended, slipped>>

\* Mutant: the recurrence stays on the cancelled row.
CancelKeepsRecurrence ==
    /\ Command /\ Live # {}
    /\ status' = [r \in RowIds |-> IF r \in Live THEN "cancelled" ELSE status[r]]
    /\ wanted' = FALSE
    /\ ended' = (CompletedRecurring = {})
    /\ UNCHANGED <<last, recurs, due, runVars, sweepVars, manual, slipped>>

\* cancelTask, cancelAllTasks. A row that has run and waits to be re-armed is
\* not live: it is not reached.
Cancel ==
    /\ Command /\ Live # {}
    /\ status' = [r \in RowIds |-> IF r \in Live THEN "cancelled" ELSE status[r]]
    /\ recurs' = recurs \ Live
    /\ wanted' = FALSE
    /\ ended' = (CompletedRecurring = {})
    /\ UNCHANGED <<last, due, runVars, sweepVars, manual, slipped>>

Pause ==
    /\ Command /\ \E r \in RowIds : status[r] = "pending"
    /\ status' = [r \in RowIds |-> IF status[r] = "pending" THEN "paused" ELSE status[r]]
    /\ UNCHANGED <<last, recurs, due, runVars, sweepVars, orderVars>>

Resume ==
    /\ Command /\ \E r \in RowIds : status[r] = "paused"
    /\ status' = [r \in RowIds |-> IF status[r] = "paused" THEN "pending" ELSE status[r]]
    /\ UNCHANGED <<last, recurs, due, runVars, sweepVars, orderVars>>

\* deleteTask: the history goes too.
Delete ==
    /\ Command /\ \E r \in RowIds : status[r] # "none"
    /\ status' = [r \in RowIds |-> "none"]
    /\ recurs' = {} /\ due' = {}
    /\ wanted' = FALSE /\ ended' = TRUE
    /\ UNCHANGED <<last, runVars, sweepVars, manual, slipped>>

\* updateTask on every live row: another recurrence or none, another time.
UpdateRecurrence(recurring) ==
    /\ Command /\ Live # {}
    /\ recurs' = IF recurring THEN recurs \union Live ELSE recurs \ Live
    /\ wanted' = recurring /\ ended' = FALSE
    /\ UNCHANGED <<last, status, due, runVars, sweepVars, manual, slipped>>

UpdateProcessAfter ==
    /\ Command /\ Live # {}
    /\ due' = due \ Live
    /\ UNCHANGED <<last, status, recurs, runVars, sweepVars, orderVars>>

\* runTaskCommand: an extra row, due now, that does not recur.
Run ==
    /\ Command /\ \E r \in RowIds : status[r] # "none"
    /\ InsertTaskRow("pending", FALSE, TRUE)
    /\ manual' = manual \union {last + 1}
    /\ UNCHANGED <<runVars, sweepVars, wanted, ended, slipped>>

-----------------------------------------------------------------------------
(* Time and the container *)

TimePasses(r) ==
    /\ r \in Live \ due
    /\ due' = due \union {r}
    /\ UNCHANGED <<last, status, recurs, runVars, sweepVars, orderVars>>

Claim ==
    LET fresh == {r \in due : status[r] = "pending" /\ ack[r] = "none"}
    IN  /\ running /\ fresh # {}
        /\ ack' = [r \in RowIds |-> IF r \in fresh THEN "processing" ELSE ack[r]]
        /\ UNCHANGED <<rowVars, running, sweepVars, orderVars>>

\* The run is over, or its script was broken.
Finish(r, as) ==
    /\ running /\ ack[r] = "processing"
    /\ ack' = [ack EXCEPT ![r] = as]
    /\ UNCHANGED <<rowVars, running, sweepVars, orderVars>>

ContainerDown ==
    /\ running
    /\ running' = FALSE
    /\ UNCHANGED <<rowVars, ack, sweepVars, orderVars>>

\* The host dies and restarts: its sweep is forgotten, its containers stopped.
HostCrash ==
    /\ running' = FALSE
    /\ stage' = "idle" /\ todo' = {} /\ rearming' = 0
    /\ UNCHANGED <<rowVars, ack, open, orderVars>>

-----------------------------------------------------------------------------
(* sweepSession *)

\* Mutant: the acknowledgement is copied as it stands.
SyncVerbatim ==
    /\ open /\ stage = "idle" /\ last > 0
    /\ status' = [r \in RowIds |->
          IF status[r] \in {"none", "completed", "failed"} \/ ack[r] \in {"none", "processing"}
          THEN status[r] ELSE ack[r]]
    /\ stage' = "synced"
    /\ UNCHANGED <<last, recurs, due, runVars, open, todo, rearming, orderVars>>

\* Step 1, syncProcessingAcks: also a row paused or cancelled while it ran.
SweepSync ==
    /\ open /\ stage = "idle" /\ last > 0
    /\ status' = [r \in RowIds |->
          IF status[r] \in {"none", "completed", "failed"} THEN status[r]
          ELSE CASE ack[r] = "completed" -> "completed"
                 [] ack[r] = "script-skip:error" -> "failed"
                 [] OTHER -> status[r]]
    /\ stage' = "synced"
    /\ UNCHANGED <<last, recurs, due, runVars, open, todo, rearming, orderVars>>

\* Step 2: the spawn may fail; a fresh container drops the lost claims.
SweepWake ==
    /\ stage = "synced"
    /\ \/ /\ WorkDue /\ ~running
          /\ running' = TRUE
          /\ ack' = [r \in RowIds |-> IF ack[r] = "processing" THEN "none" ELSE ack[r]]
          /\ stage' = "reset"
       \/ UNCHANGED runVars /\ stage' = "woken"
    /\ UNCHANGED <<rowVars, open, todo, rearming, orderVars>>

\* Steps 3 and 4: without a container, or after killing a stuck one, what it
\* had claimed is tried again later, or has failed for good.
SweepReset ==
    /\ stage = "woken"
    /\ stage' = "reset"
    /\ \/ running /\ UNCHANGED <<status, due, runVars>>
       \/ \E given \in SUBSET {r \in due : status[r] = "pending" /\ ack[r] = "processing"} :
             /\ running' = FALSE
             /\ status' = [r \in RowIds |-> IF r \in given THEN "failed" ELSE status[r]]
             /\ due' = {r \in due : r \in given \/ status[r] # "pending" \/ ack[r] # "processing"}
             /\ ack' = [r \in RowIds |-> IF ack[r] = "processing" THEN "none" ELSE ack[r]]
    /\ UNCHANGED <<last, recurs, open, todo, rearming, orderVars>>

\* Step 5, handleRecurrence: from here to the end of step 6 nothing else runs.
SweepRecurring ==
    /\ stage = "reset"
    /\ stage' = "rearm" /\ todo' = CompletedRecurring
    /\ UNCHANGED <<rowVars, runVars, open, rearming, orderVars>>

\* insertRecurrence: at the cron time or after the backoff; paused at the cap.
InsertRecurrence(r) ==
    /\ stage = "rearm" /\ rearming = 0 /\ r \in todo
    /\ InsertTaskRow(IF TrailingFails >= PauseCap THEN "paused" ELSE "pending", TRUE, FALSE)
    /\ rearming' = r
    /\ UNCHANGED <<runVars, open, stage, todo, orderVars>>

ClearRecurrence ==
    /\ rearming # 0
    /\ recurs' = recurs \ {rearming}
    /\ todo' = todo \ {rearming} /\ rearming' = 0
    /\ UNCHANGED <<last, status, due, runVars, open, stage, orderVars>>

\* Mutant: the recurrence is cleared although the insert threw.
RearmFailsClears(r) ==
    /\ stage = "rearm" /\ r \in todo /\ rearming \in {0, r}
    /\ todo' = todo \ {r} /\ rearming' = 0
    /\ recurs' = recurs \ {r}
    /\ slipped' = (slipped \/ rearming = 0)
    /\ UNCHANGED <<last, status, due, runVars, open, stage, manual, wanted, ended>>

\* Either statement may throw (a locked database): logged, on to the next row.
RearmFails(r) ==
    /\ stage = "rearm" /\ r \in todo /\ rearming \in {0, r}
    /\ todo' = todo \ {r} /\ rearming' = 0
    /\ slipped' = (slipped \/ rearming = 0)
    /\ UNCHANGED <<rowVars, runVars, open, stage, manual, wanted, ended>>

\* Mutant: only pending rows count as live.
CloseUnlessPending ==
    /\ stage = "rearm" /\ todo = {}
    /\ stage' = "idle"
    /\ open' = (running \/ \E r \in RowIds : status[r] = "pending")
    /\ UNCHANGED <<rowVars, runVars, todo, rearming, orderVars>>

\* Step 6: a spent task session is closed.
SweepClose ==
    /\ stage = "rearm" /\ todo = {}
    /\ stage' = "idle"
    /\ open' = (running \/ Live # {})
    /\ UNCHANGED <<rowVars, runVars, todo, rearming, orderVars>>

Operator ==
    \/ \E as \in {"pending", "paused"}, recurring \in BOOLEAN : Create(as, recurring)
    \/ Cancel \/ Pause \/ Resume \/ Delete \/ Run
    \/ (\E recurring \in BOOLEAN : UpdateRecurrence(recurring)) \/ UpdateProcessAfter
Container ==
    \/ Claim \/ ContainerDown
    \/ \E r \in RowIds, as \in {"completed", "script-skip:error"} : Finish(r, as)
Sweep ==
    \/ SweepSync \/ SweepWake \/ SweepReset \/ SweepRecurring
    \/ (\E r \in RowIds : InsertRecurrence(r) \/ RearmFails(r))
    \/ ClearRecurrence \/ SweepClose

Next == Operator \/ (\E r \in RowIds : TimePasses(r)) \/ Container \/ HostCrash \/ Sweep

Spec == Init /\ [][Next]_vars

\* The sweep comes round and time passes; a spawn, a claim by a fresh container
\* and a run that are tried again and again succeed in the end.
Fairness ==
    /\ WF_vars(SweepSync) /\ WF_vars(SweepWake) /\ SF_vars(SweepWake /\ running')
    /\ WF_vars(SweepReset) /\ WF_vars(SweepRecurring)
    /\ WF_vars(\E r \in RowIds : InsertRecurrence(r))
    /\ WF_vars(ClearRecurrence) /\ WF_vars(SweepClose) /\ SF_vars(Claim)
    /\ \A r \in RowIds :
          /\ WF_vars(TimePasses(r))
          /\ SF_vars(\E as \in {"completed", "script-skip:error"} : Finish(r, as))

FairSpec == Spec /\ Fairness

-----------------------------------------------------------------------------
(* Properties *)

\* Types of the rows, the session and the sweep over it.
TypeOK ==
    /\ last \in 0..MaxRows /\ status \in [RowIds -> Statuses]
    /\ recurs \subseteq 1..last /\ due \subseteq 1..last
    /\ ack \in [RowIds -> Acks] /\ running \in BOOLEAN
    /\ open \in BOOLEAN /\ stage \in Stages
    /\ todo \subseteq 1..last /\ rearming \in 0..last
    /\ manual \subseteq 1..last /\ wanted \in BOOLEAN /\ ended \in BOOLEAN /\ slipped \in BOOLEAN

\* A series the operator wants to recur has a row to go on from, live or run and
\* not yet re-armed: no crash of the host, failed statement, lost container or
\* acknowledgement in between loses the schedule.
ScheduleSurvives == wanted => \E r \in recurs : r \in Live \union Ran

\* As long as no re-arm failed, its session is not closed: the sweep that closes
\* spent sessions never takes one between a run and its re-arming.
SessionStays == wanted /\ ~slipped => open

\* A series cancelled or deleted between two runs never recurs again: not through
\* the run under way, acknowledged and synced later, nor through an extra run.
EndedStaysEnded == ended => recurs = {}

\* Left alone, an armed series runs and arms its next row, or is paused, however
\* often containers die and whenever the host did.
Quiet == <>[][~(Operator \/ HostCrash \/ \E r \in RowIds : RearmFails(r))]_vars
SeriesGoesOn ==
    Quiet => \A r \in RowIds :
        (open /\ r \in recurs /\ status[r] = "pending")
          ~> (r \notin recurs \/ status[r] = "paused" \/ last = MaxRows \/ slipped)

\* tasks.ts:404: "a run-now row must not be re-armed by handleRecurrence into a
\* phantom series". Not so: README, section 6.
RunNowNotRearmed == rearming \notin manual

\* host-sweep.ts:270: a session is closed after re-arming, "so a just-fired recurring
\* series has already re-armed its next pending row and is never collected". Not so: README, 6.
NeverCollected == wanted => open
=============================================================================
