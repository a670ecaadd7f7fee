---------------------------- MODULE SessionQueue ----------------------------
(***************************************************************************)
(* One session of NanoClaw: the inbound queue (messages_in, written by the *)
(* host), the claims on it (processing_ack, written by the container), the *)
(* container that works through the queue, and the host sweep that wakes,  *)
(* kills and retries.                                                      *)
(*                                                                         *)
(*   host       src/session-manager.ts, db/session-db.ts, host-sweep.ts    *)
(*              container-runner.ts, container-restart.ts                  *)
(*   container  container/agent-runner/src/poll-loop.ts, db/*.ts           *)
(*                                                                         *)
(* A message is a number: messages_in.seq order is the order of insertion. *)
(* Time is kept as ages (of a claim, of the heartbeat file) and remaining  *)
(* delays (process_after), which Tick advances and which saturate, so the  *)
(* model is finite without a bound on time.                                *)
(***************************************************************************)
EXTENDS Integers, FiniteSets

CONSTANTS
    MaxMessages,    \* bound: rows ever inserted in messages_in
    MaxPrompt,      \* maxMessagesPerPrompt, the LIMIT of getPendingMessages
    MaxTries,       \* MAX_TRIES
    StuckAge,       \* CLAIM_STUCK_MS in ticks
    CeilingAge,     \* ABSOLUTE_CEILING_MS in ticks
    BackoffBase,    \* BACKOFF_BASE_MS in ticks
    Delays,         \* process_after delays a scheduled task is inserted with
    BashTimeouts,   \* timeouts a Bash call may declare, in ticks
    Traffic         \* the kinds of row the host inserts in this instance

Kinds == {"chat", "context", "command", "task", "system"}

ASSUME QueueAssumption ==
    /\ MaxMessages \in Nat \ {0}
    /\ MaxPrompt \in Nat \ {0}
    /\ MaxTries \in Nat
    /\ StuckAge \in Nat
    /\ CeilingAge \in Nat
    /\ BackoffBase \in Nat \ {0}
    /\ Delays \subseteq Nat
    /\ BashTimeouts \subseteq Nat
    /\ Traffic \subseteq Kinds

VARIABLES
    row,        \* messages_in
    last,       \* number of rows inserted so far
    ack,        \* processing_ack.status of each message, "none" without a row
    claimAge,   \* age of processing_ack.status_changed
    heard,      \* messages whose claim is older than the heartbeat's mtime
    beat,       \* age of the heartbeat file, NoBeat without one
    declared,   \* container_state: Bash timeout declared, 0 without one
    bash,       \* timeout of the Bash call the live container is in, 0 if none
    registered, \* activeContainers has an entry for the session
    spawning,   \* wakePromises has an entry for the session
    onExit,     \* the 'close' event of the killed container respawns it
    sweep,      \* where sweepSession is; "down" while the host is not running
    alive,      \* the container process exists
    phase,      \* where runPollLoop is
    firstPoll,  \* isFirstPoll
    batch,      \* ids the outer loop will acknowledge (processingIds)
    follow,     \* follow-up polls past their claim: batch, await, live query
    aborting,   \* endedForCommand
    reached     \* messages shown to an open provider stream or answered
                \* by the runner itself (command, gate, hook notice)

rowVars  == <<row, last>>
ackVars  == <<ack, claimAge, heard>>
ctrVars  == <<alive, phase, firstPoll, batch, follow, aborting, bash>>
hostVars == <<registered, spawning, onExit, sweep>>
vars == <<rowVars, ackVars, beat, declared, hostVars, ctrVars, reached>>

-----------------------------------------------------------------------------
Ids == 1..MaxMessages
NoBeat == -1
Larger(a, b) == IF a >= b THEN a ELSE b

\* BACKOFF_BASE_MS * 2^tries
Backoff(tries) == BackoffBase * 2^tries

\* Arithmetic the provers do not know of: a power of two is a positive number.
ASSUME BackoffAssumption == \A t \in 0..MaxTries : Backoff(t) \in Nat \ {0}

\* Ages saturate one past the largest limit anything compares them with.
MaxBash == CHOOSE t \in BashTimeouts \union {0} :
              \A u \in BashTimeouts : t >= u
ClaimCap == Larger(StuckAge, MaxBash) + 1
BeatCap  == Larger(CeilingAge, MaxBash) + 1

Statuses == {"absent", "pending", "completed", "failed"}
Acks     == {"none", "processing", "completed", "script-skip:error"}
TerminalAck == {"completed", "script-skip:error"}
Phases   == {"off", "boot", "poll", "scripts", "hook", "query"}
Sweeps   == {"idle", "waking", "sla", "kill", "retry", "drop", "down"}

Rows == [kind : Kinds, onWake : BOOLEAN, status : Statuses,
         tries : 0..MaxTries, wait : Nat]
FollowUps == [batch : SUBSET Ids, step : {"scripts", "hook"}, live : BOOLEAN]

Absent == [kind |-> "chat", onWake |-> FALSE, status |-> "absent",
           tries |-> 0, wait |-> 0]

-----------------------------------------------------------------------------
\* Rows whose trigger column is 1: everything but accumulated context.
Triggers(m) == row[m].kind # "context"

Due(m) == row[m].status = "pending" /\ row[m].wait = 0

\* countDueMessages(...) > 0
WorkDue == \E m \in Ids : Due(m) /\ Triggers(m)

Selectable(first) == {m \in Ids : Due(m) /\ (first \/ ~row[m].onWake)}
Newest(S) == {m \in S : Cardinality({k \in S : k > m}) < MaxPrompt}
\* Mutant: only acknowledged rows are filtered, claimed ones come back.
PendingOrClaimed(first) ==
    {m \in Newest(Selectable(first)) : ack[m] \in {"none", "processing"}}

\* getPendingMessages(isFirstPoll): the newest MaxPrompt due rows, and only
\* then those without any processing_ack row.
PendingMessages(first) ==
    {m \in Newest(Selectable(first)) : ack[m] = "none"}

Claims == {m \in Ids : ack[m] = "processing"}

\* What the live container holds: claimed and not given up yet.
InHand == batch \union UNION {f.batch : f \in follow}

\* Writes to processing_ack: markProcessing, markCompleted, markScriptSkipped.
MarkProcessing(ids) ==
    /\ ack' = [m \in Ids |-> IF m \in ids THEN "processing" ELSE ack[m]]
    /\ claimAge' = [m \in Ids |-> IF m \in ids THEN 0 ELSE claimAge[m]]
    /\ heard' = heard \ ids
\* ids completed and errs skipped by a broken script, after a touch of the
\* heartbeat or without one; only a 'processing' claim has an age the host reads.
MarkDone(ids, errs, touched) ==
    /\ ack' = [m \in Ids |-> IF m \in errs THEN "script-skip:error"
                             ELSE IF m \in ids THEN "completed" ELSE ack[m]]
    /\ claimAge' = [m \in Ids |-> IF m \in ids \union errs THEN 0 ELSE claimAge[m]]
    /\ heard' = (IF touched THEN heard \union Claims ELSE heard) \ (ids \union errs)
    /\ beat' = IF touched THEN 0 ELSE beat
\* Mutant: the whole table is cleared.
DropAllAcks ==
    /\ ack' = [m \in Ids |-> "none"]
    /\ claimAge' = [m \in Ids |-> 0]
    /\ heard' = {}
\* DELETE FROM processing_ack WHERE status = 'processing'
DropProcessing ==
    /\ ack' = [m \in Ids |-> IF ack[m] = "processing" THEN "none" ELSE ack[m]]
    /\ claimAge' = [m \in Ids |-> IF ack[m] = "processing" THEN 0 ELSE claimAge[m]]
    /\ heard' = heard \ Claims

\* touchHeartbeat: every claim standing now is older than the new mtime.
TouchHeartbeat == beat' = 0 /\ heard' = heard \union Claims

-----------------------------------------------------------------------------
Init ==
    /\ row = [m \in Ids |-> Absent]
    /\ last = 0
    /\ ack = [m \in Ids |-> "none"]
    /\ claimAge = [m \in Ids |-> 0]
    /\ heard = {}
    /\ beat = NoBeat
    /\ declared = 0
    /\ bash = 0
    /\ registered = FALSE
    /\ spawning = FALSE
    /\ onExit = FALSE
    /\ sweep = "idle"
    /\ alive = FALSE
    /\ phase = "off"
    /\ firstPoll = FALSE
    /\ batch = {}
    /\ follow = {}
    /\ aborting = FALSE
    /\ reached = {}

\* The container process is gone, by whatever cause: its memory goes with it,
\* both databases and the heartbeat file stay.
ContainerGone ==
    /\ alive' = FALSE
    /\ phase' = "off"
    /\ firstPoll' = FALSE
    /\ batch' = {}
    /\ follow' = {}
    /\ aborting' = FALSE
    /\ bash' = 0

\* Host event handlers run between the synchronous segments of the sweep.
HostFree == sweep \in {"idle", "waking"}

\* wakeContainer up to its first await: already running, or joined, or begun.
Wake(wanted) == spawning' = (spawning \/ (wanted /\ ~registered))

\* insertMessage (and insertTaskRow): a new pending row after every other.
InsertRow(kind, onWake, wait) ==
    /\ last < MaxMessages
    /\ last' = last + 1
    /\ row' = [row EXCEPT ![last + 1] =
                 [kind |-> kind, onWake |-> onWake, status |-> "pending",
                  tries |-> 0, wait |-> wait]]

-----------------------------------------------------------------------------
(* The host: writers of the queue *)

\* deliverToAgent, notifyAgent, the a2a route: writeSessionMessage and, for a
\* row that triggers, wakeContainer.
Arrive(kind) ==
    /\ HostFree
    /\ kind \in Traffic \ {"task"}
    /\ InsertRow(kind, FALSE, 0)
    /\ Wake(kind # "context")
    /\ UNCHANGED <<ackVars, beat, declared, registered, onExit, sweep, ctrVars, reached>>

\* A scheduled task: inserted for later, woken by the sweep.
ScheduleTask ==
    /\ HostFree
    /\ "task" \in Traffic
    /\ \E d \in Delays : InsertRow("task", FALSE, d)
    /\ UNCHANGED <<ackVars, beat, declared, hostVars, ctrVars, reached>>

\* restartAgentGroupContainers, for this session: an optional on_wake row, the
\* kill, and a respawn on exit when there is anything to process. Unlike the
\* sweep's kill it leaves the claims alone.
Restart(withMessage) ==
    /\ HostFree
    /\ registered
    /\ IF withMessage THEN InsertRow("chat", TRUE, 0) ELSE UNCHANGED rowVars
    /\ onExit' = (onExit \/ withMessage \/ WorkDue)
    /\ ContainerGone
    /\ UNCHANGED <<ackVars, beat, declared, registered, spawning, sweep, reached>>

(* The host: container lifecycle *)

\* spawnContainer after its awaits: the orphan heartbeat is removed and the
\* process started in one synchronous segment.
SpawnOk ==
    /\ HostFree
    /\ spawning
    /\ spawning' = FALSE
    /\ registered' = TRUE
    /\ beat' = NoBeat
    /\ heard' = {}
    /\ alive' = TRUE
    /\ phase' = "boot"
    /\ UNCHANGED <<rowVars, ack, claimAge, declared, bash, onExit, sweep,
                   firstPoll, batch, follow, aborting, reached>>

\* spawnContainer threw (gateway unreachable...): the row stays pending.
SpawnFail ==
    /\ HostFree
    /\ spawning
    /\ spawning' = FALSE
    /\ UNCHANGED <<rowVars, ackVars, beat, declared, registered, onExit, sweep,
                   ctrVars, reached>>

\* The 'close' event: the entry goes, and a restart's callback wakes again.
Close ==
    /\ HostFree
    /\ registered
    /\ ~alive
    /\ registered' = FALSE
    /\ onExit' = FALSE
    /\ spawning' = (spawning \/ onExit)
    /\ UNCHANGED <<rowVars, ackVars, beat, declared, sweep, ctrVars, reached>>

HostCrash ==
    /\ sweep # "down"
    /\ sweep' = "down"
    /\ registered' = FALSE
    /\ spawning' = FALSE
    /\ onExit' = FALSE
    /\ UNCHANGED <<rowVars, ackVars, beat, declared, ctrVars, reached>>

\* main(): cleanupOrphans stops the containers the last host process left.
HostRestart ==
    /\ sweep = "down"
    /\ sweep' = "idle"
    /\ ContainerGone
    /\ UNCHANGED <<rowVars, ackVars, beat, declared, registered, spawning,
                   onExit, reached>>

-----------------------------------------------------------------------------
(* The host sweep *)

\* Mutant: every ack row counts, claims included.
SyncedClaims == [m \in Ids |->
    IF ack[m] # "none" /\ row[m].status = "pending"
    THEN [row[m] EXCEPT !.status =
             IF ack[m] = "script-skip:error" THEN "failed" ELSE "completed"]
    ELSE row[m]]

\* syncProcessingAcks: rows not yet terminal follow a terminal ack.
Synced == [m \in Ids |->
    IF ack[m] \in TerminalAck /\ row[m].status = "pending"
    THEN [row[m] EXCEPT !.status =
             IF ack[m] = "script-skip:error" THEN "failed" ELSE "completed"]
    ELSE row[m]]

\* sweepSession steps 1 and 2: mirror the acks, then wake if work is due and
\* nothing runs; otherwise go on to the step that fits the container.
SweepBegin ==
    /\ sweep = "idle"
    /\ row' = Synced
    /\ LET wake == ~registered /\ WorkDue'
       IN  /\ spawning' = (spawning \/ wake)
           /\ sweep' = IF wake THEN "waking"
                       ELSE IF registered THEN "sla" ELSE "retry"
    /\ UNCHANGED <<last, ackVars, beat, declared, registered, onExit, ctrVars, reached>>

\* The wake settled: a container that just started is left alone this time
\* (justWoke), a failed spawn leaves the claims to step 4.
SweepWoken ==
    /\ sweep = "waking"
    /\ ~spawning
    /\ sweep' = IF registered THEN "idle" ELSE "retry"
    /\ UNCHANGED <<rowVars, ackVars, beat, declared, registered, spawning,
                   onExit, ctrVars, reached>>

\* Mutant: no absolute ceiling.
NoCeiling == FALSE

\* decideStuckAction
PastCeiling == beat # NoBeat /\ beat > Larger(CeilingAge, declared)
SilentClaim(m) ==
    /\ m \in Claims \ heard
    /\ claimAge[m] > Larger(StuckAge, declared)
MustKill == PastCeiling \/ \E m \in Ids : SilentClaim(m)

\* Mutant: the rows are reset beside the container they were claimed by.
SweepSlaNoKill ==
    /\ sweep = "sla"
    /\ sweep' = IF MustKill THEN "retry" ELSE "idle"
    /\ UNCHANGED <<rowVars, ackVars, beat, declared, registered, spawning,
                   onExit, ctrVars, reached>>

\* Step 3, enforceRunningContainerSla up to its kill.
SweepSla ==
    /\ sweep = "sla"
    /\ sweep' = IF MustKill THEN "kill" ELSE "idle"
    /\ UNCHANGED <<rowVars, ackVars, beat, declared, registered, spawning,
                   onExit, ctrVars, reached>>

\* Mutant: the kill is only a request, the container is still there.
SweepKillNoWait ==
    /\ sweep = "kill"
    /\ sweep' = "retry"
    /\ UNCHANGED <<rowVars, ackVars, beat, declared, registered, spawning,
                   onExit, ctrVars, reached>>

\* killContainer: `docker stop` returns when the container is gone, and the
\* container may have taken steps since the decision.
SweepKill ==
    /\ sweep = "kill"
    /\ sweep' = "retry"
    /\ ContainerGone
    /\ UNCHANGED <<rowVars, ackVars, beat, declared, registered, spawning,
                   onExit, reached>>

\* Mutant: no limit on the tries.
RetriedForever(r) ==
    IF r.status # "pending" \/ r.wait > 0 THEN r
    ELSE [r EXCEPT !.tries = r.tries + 1, !.wait = BackoffBase]

\* resetStuckProcessingRows, the retry it books for a claimed row.
Retried(r) ==
    IF r.status # "pending" \/ r.wait > 0 THEN r
    ELSE IF r.tries >= MaxTries THEN [r EXCEPT !.status = "failed"]
    ELSE [r EXCEPT !.tries = r.tries + 1, !.wait = Backoff(r.tries)]

SweepRetry ==
    /\ sweep = "retry"
    /\ sweep' = "drop"
    /\ row' = [m \in Ids |-> IF m \in Claims THEN Retried(row[m]) ELSE row[m]]
    /\ UNCHANGED <<last, ackVars, beat, declared, registered, spawning, onExit,
                   ctrVars, reached>>

\* resetStuckProcessingRows, its second half: drop the orphan claims. Opening
\* outbound.db for writing may fail, which is logged and otherwise ignored.
SweepDrop ==
    /\ sweep = "drop"
    /\ sweep' = "idle"
    /\ DropProcessing
    /\ UNCHANGED <<rowVars, beat, declared, registered, spawning, onExit,
                   ctrVars, reached>>

SweepDropFails ==
    /\ sweep = "drop"
    /\ sweep' = "idle"
    /\ UNCHANGED <<rowVars, ackVars, beat, declared, registered, spawning, onExit,
                   ctrVars, reached>>

-----------------------------------------------------------------------------
(* The container: the outer loop *)

\* clearStaleProcessingAcks, once, before the first poll.
Boot ==
    /\ alive /\ phase = "boot"
    /\ phase' = "poll"
    /\ firstPoll' = TRUE
    /\ DropProcessing
    /\ UNCHANGED <<rowVars, beat, declared, hostVars, alive, batch, follow,
                   aborting, bash, reached>>

\* One iteration up to its first await: read, apply the accumulate gate, claim,
\* answer the commands.
Poll ==
    /\ alive /\ phase = "poll"
    /\ firstPoll' = FALSE
    /\ LET msgs == {m \in PendingMessages(firstPoll) : row[m].kind # "system"}
           commands == {m \in msgs : row[m].kind = "command"}
       IN  IF \E m \in msgs : Triggers(m)
           THEN /\ batch' = msgs \ commands
                /\ phase' = IF msgs = commands THEN "poll" ELSE "scripts"
                /\ reached' = reached \union commands
                /\ ack' = [m \in Ids |-> IF m \in commands THEN "completed"
                                         ELSE IF m \in msgs THEN "processing"
                                         ELSE ack[m]]
                /\ claimAge' = [m \in Ids |-> IF m \in msgs THEN 0 ELSE claimAge[m]]
                /\ heard' = heard \ msgs
           ELSE UNCHANGED <<ackVars, batch, phase, reached>>
    /\ UNCHANGED <<rowVars, beat, declared, hostVars, alive, follow, aborting, bash>>

\* The pre-task scripts of a batch: some tasks are skipped, by the script's
\* decision (gated) or because the script broke (errs).
ScriptOutcome(ids, gated, errs) ==
    /\ gated \subseteq {m \in ids : row[m].kind = "task"}
    /\ errs \subseteq {m \in ids : row[m].kind = "task"} \ gated

\* runScript touches the heartbeat before and after each script, in the outer
\* loop's batch or in a follow-up.
ScriptTouch ==
    /\ alive
    /\ \E m \in Ids :
          /\ row[m].kind = "task"
          /\ \/ phase = "scripts" /\ m \in batch
             \/ \E f \in follow : f.step = "scripts" /\ m \in f.batch
    /\ TouchHeartbeat
    /\ UNCHANGED <<rowVars, ack, claimAge, declared, hostVars, ctrVars, reached>>

\* applyPreTaskScripts has run: skipped tasks are acknowledged at once.
Scripts ==
    /\ alive /\ phase = "scripts"
    /\ \E gated, errs \in SUBSET batch :
          /\ ScriptOutcome(batch, gated, errs)
          /\ MarkDone(gated, errs, gated \union errs # {})
          /\ reached' = reached \union gated \union errs
          /\ IF gated \union errs = batch
             THEN phase' = "poll" /\ batch' = {}
             ELSE phase' = "hook" /\ UNCHANGED batch
    /\ UNCHANGED <<rowVars, declared, hostVars, alive, firstPoll, follow,
                   aborting, bash>>

\* The before-call hook. It blocks: a notice, and every row of the batch that is
\* not a command is acknowledged completed, the skipped ones again. Or it lets
\* the query start, on the rows no script skipped.
Hook ==
    /\ alive /\ phase = "hook"
    /\ \/ /\ MarkDone(batch, {}, FALSE)
          /\ phase' = "poll"
          /\ batch' = {}
       \/ /\ phase' = "query"
          /\ batch' = batch \intersect Claims
          /\ UNCHANGED <<ackVars, beat>>
    /\ reached' = reached \union batch
    /\ UNCHANGED <<rowVars, declared, hostVars, alive, firstPoll, follow,
                   aborting, bash>>

(* The container: the query *)

\* A provider event other than a result (activity, init, progress).
QueryEvent ==
    /\ alive /\ phase = "query"
    /\ TouchHeartbeat
    /\ UNCHANGED <<rowVars, ack, claimAge, declared, hostVars, ctrVars, reached>>

\* PreToolUse and PostToolUse: container_state names the tool and its timeout,
\* which counts only for Bash (bashTimeoutMs): any other tool declares 0.
ToolStart ==
    /\ alive /\ phase = "query"
    /\ bash = 0
    /\ \E t \in BashTimeouts \union {0} : bash' = t /\ declared' = t
    /\ UNCHANGED <<rowVars, ackVars, beat, hostVars, alive, phase, firstPoll,
                   batch, follow, aborting, reached>>

ToolEnd ==
    /\ alive /\ phase = "query"
    /\ bash # 0
    /\ bash' = 0 /\ declared' = 0
    /\ UNCHANGED <<rowVars, ackVars, beat, hostVars, alive, phase, firstPoll,
                   batch, follow, aborting, reached>>

\* A result ends the turn, not the stream: the heartbeat is touched and the
\* initial batch is acknowledged, before its answer is looked at.
QueryResult ==
    /\ alive /\ phase = "query"
    /\ MarkDone(batch, {}, TRUE)
    /\ UNCHANGED <<rowVars, declared, hostVars, ctrVars, reached>>

\* Mutant: a batch without a result is released for another attempt.
QueryEndReleases ==
    /\ alive /\ phase = "query"
    /\ phase' = "poll"
    /\ DropProcessing
    /\ batch' = {}
    /\ follow' = {[f EXCEPT !.live = FALSE] : f \in follow}
    /\ aborting' = FALSE
    /\ bash' = 0
    /\ UNCHANGED <<rowVars, beat, declared, hostVars, alive, firstPoll, reached>>

\* The event stream ended or threw: `done` is set for this query's poller and
\* the batch is acknowledged in any case.
QueryEnd ==
    /\ alive /\ phase = "query"
    /\ phase' = "poll"
    /\ MarkDone(batch, {}, FALSE)
    /\ batch' = {}
    /\ follow' = {[f EXCEPT !.live = FALSE] : f \in follow}
    /\ aborting' = FALSE
    /\ bash' = 0
    /\ UNCHANGED <<rowVars, declared, hostVars, alive, firstPoll, reached>>

\* ask_user_question found its answer among the system rows.
TakeAnswer ==
    /\ alive /\ phase = "query"
    /\ \E m \in Ids :
          /\ row[m].kind = "system" /\ row[m].status = "pending" /\ ack[m] = "none"
          /\ MarkDone({m}, {}, FALSE)
          /\ reached' = reached \union {m}
    /\ UNCHANGED <<rowVars, declared, hostVars, ctrVars>>

(* The container: follow-up polls, one at a time per query (pollInFlight) *)

\* A pending slash command ends the stream; anything else is claimed.
FollowPoll ==
    /\ alive /\ phase = "query"
    /\ ~aborting
    /\ \A f \in follow : ~f.live
    /\ LET pending == PendingMessages(FALSE)
           msgs == {m \in pending : row[m].kind # "system"}
       IN  IF \E m \in pending : row[m].kind = "command"
           THEN aborting' = TRUE /\ UNCHANGED <<ackVars, follow>>
           ELSE /\ msgs # {}
                /\ MarkProcessing(msgs)
                /\ follow' = follow \union
                      {[batch |-> msgs, step |-> "scripts", live |-> TRUE]}
                /\ UNCHANGED aborting
    /\ UNCHANGED <<rowVars, beat, declared, hostVars, alive, phase, firstPoll,
                   batch, bash, reached>>

\* After its scripts: nothing left, or the query is over (the claims stay), or
\* on to the hook.
FollowScripts(f) ==
    /\ f \in follow /\ f.step = "scripts"
    /\ \E gated, errs \in SUBSET f.batch :
          /\ ScriptOutcome(f.batch, gated, errs)
          /\ MarkDone(gated, errs, gated \union errs # {})
          /\ reached' = reached \union gated \union errs
          /\ LET keep == f.batch \ (gated \union errs)
             IN  follow' = (follow \ {f}) \union
                    (IF keep = {} \/ ~f.live THEN {}
                     ELSE {[f EXCEPT !.batch = keep, !.step = "hook"]})
    /\ UNCHANGED <<rowVars, declared, hostVars, alive, phase, firstPoll,
                   batch, aborting, bash>>

\* After the hook (and the usage snapshot): blocked, or pushed into the query
\* it was claimed for, open or not; acknowledged either way.
FollowPush(f) ==
    /\ f \in follow /\ f.step = "hook"
    /\ MarkDone(f.batch, {}, FALSE)
    /\ follow' = follow \ {f}
    /\ \E blocked \in BOOLEAN :
          reached' = IF blocked \/ f.live THEN reached \union f.batch ELSE reached
    /\ UNCHANGED <<rowVars, declared, hostVars, alive, phase, firstPoll,
                   batch, aborting, bash>>

\* Anything thrown after the claim is caught and logged; the claims stay.
FollowError(f) ==
    /\ f \in follow
    /\ follow' = follow \ {f}
    /\ UNCHANGED <<rowVars, ackVars, beat, declared, hostVars, alive, phase,
                   firstPoll, batch, aborting, bash, reached>>

\* The process exits (error in the outer loop, exit 75, OOM...).
Crash ==
    /\ alive
    /\ ContainerGone
    /\ UNCHANGED <<rowVars, ackVars, beat, declared, hostVars, reached>>

-----------------------------------------------------------------------------
\* One tick of the clock: ages grow up to their caps, delays run down. The
\* synchronous segments of the sweep take less than a tick.
Tick ==
    /\ sweep \in {"idle", "waking", "down"}
    /\ claimAge' = [m \in Ids |->
          IF ack[m] = "processing" /\ claimAge[m] < ClaimCap
          THEN claimAge[m] + 1 ELSE claimAge[m]]
    /\ beat' = IF beat \in {NoBeat, BeatCap} THEN beat ELSE beat + 1
    /\ row' = [m \in Ids |->
          [row[m] EXCEPT !.wait = IF row[m].wait > 0 THEN row[m].wait - 1 ELSE 0]]
    /\ UNCHANGED <<last, ack, heard, declared, hostVars, ctrVars, reached>>

HostNext ==
    \/ \E kind \in Kinds : Arrive(kind)
    \/ ScheduleTask
    \/ \E withMessage \in BOOLEAN : Restart(withMessage)
    \/ SpawnOk \/ SpawnFail \/ Close
    \/ HostCrash \/ HostRestart
    \/ SweepBegin \/ SweepWoken \/ SweepSla \/ SweepKill \/ SweepRetry
    \/ SweepDrop \/ SweepDropFails

ContainerNext ==
    \/ Boot \/ Poll \/ ScriptTouch \/ Scripts \/ Hook
    \/ QueryEvent \/ QueryResult \/ QueryEnd \/ ToolStart \/ ToolEnd
    \/ TakeAnswer
    \/ FollowPoll
    \/ \E f \in follow : FollowScripts(f) \/ FollowPush(f) \/ FollowError(f)
    \/ Crash

Next == HostNext \/ ContainerNext \/ Tick

Spec == Init /\ [][Next]_vars

\* What is fair: the host's own event loop (the sweep timer; 'close' events and
\* settled spawns, which wait only for a synchronous segment of the sweep to
\* end; a spawn, and a delete of the orphan claims, retried for ever works at
\* last), the clock, and the runner's own
\* code. Nothing the provider does is.
Fairness ==
    /\ SF_vars(Tick)
    /\ WF_vars(SweepBegin) /\ WF_vars(SweepWoken) /\ WF_vars(SweepSla)
    /\ WF_vars(SweepKill) /\ WF_vars(SweepRetry) 
    /\ WF_vars(SweepDrop \/ SweepDropFails) /\ SF_vars(SweepDrop)
    /\ SF_vars(Close) /\ WF_vars(HostRestart)
    /\ SF_vars(SpawnOk \/ SpawnFail) /\ SF_vars(SpawnOk)
    /\ WF_vars(Boot) /\ WF_vars(Poll) /\ WF_vars(Scripts) /\ WF_vars(Hook) /\ WF_vars(FollowPoll)
    /\ WF_vars(\E f \in follow : FollowScripts(f) \/ FollowPush(f) \/ FollowError(f))

FairSpec == Spec /\ Fairness

-----------------------------------------------------------------------------
(* Properties *)

\* Types of every variable (both databases, the heartbeat, the maps of the host
\* process, the loop state of the runner).
QueueType == row \in [Ids -> Rows] /\ last \in 0..MaxMessages
AckType   == ack \in [Ids -> Acks] /\ claimAge \in [Ids -> Nat] /\ heard \subseteq Ids
ClockType == beat \in Nat \union {NoBeat} /\ declared \in Nat /\ bash \in Nat
HostType  == /\ registered \in BOOLEAN /\ spawning \in BOOLEAN /\ onExit \in BOOLEAN
             /\ sweep \in Sweeps
LoopType  == /\ alive \in BOOLEAN /\ phase \in Phases /\ firstPoll \in BOOLEAN
             /\ aborting \in BOOLEAN
HandsType == /\ batch \subseteq Ids /\ follow \subseteq FollowUps
             /\ reached \subseteq Ids
TypeOK == /\ QueueType /\ AckType /\ ClockType
          /\ HostType /\ LoopType /\ HandsType

\* What the container is working on stays its own: a claimed message in its
\* hands has not been given up, nor rescheduled for another attempt, nor freed
\* for another claim, whatever the sweep, a restart or a crash of the host did
\* meanwhile (resetStuckProcessingRows never runs beside a live container).
WorkStaysOwned ==
    \A m \in InHand :
        /\ ack[m] # "none"
        /\ ack[m] = "processing" => Due(m)

\* No message is in two hands: not in the outer loop's batch and a follow-up,
\* nor in two follow-ups, the ones left over from an ended query included.
OneHandPerMessage ==
    /\ \A f \in follow : f.batch \intersect batch = {}
    /\ \A f, g \in follow : f # g => f.batch \intersect g.batch = {}

\* What is in a container's hands is owned by one of them and by nobody else.
HandsAreOwned == WorkStaysOwned /\ OneHandPerMessage

\* The host's status of a row says what happened to it: completed only if the
\* container acknowledged it, failed only if it did or the tries are used up.
StatusIsEarned ==
    \A m \in Ids :
        /\ row[m].status = "completed" => ack[m] \in TerminalAck
        /\ row[m].status = "failed" =>
              ack[m] \in TerminalAck \/ row[m].tries = MaxTries

\* An acknowledged message is never claimed, retried or failed afterwards: no
\* restart of the container or pass of the sweep processes it again.
AckIsFinal ==
    [][\A m \in Ids : ack[m] \in TerminalAck =>
          /\ ack'[m] \in TerminalAck
          /\ row'[m].tries = row[m].tries]_vars

\* A retry is booked (or the message given up) only for a claim nobody works
\* on any more: the container that made it is gone.
RetryOnlyAbandoned ==
    [][\A m \in Ids : row'[m].tries # row[m].tries => m \in Claims /\ ~alive]_vars

\* Neither a crash, a restart nor a pass of the sweep redoes what was done or
\* takes back what is being done.
NoWorkIsRedone == AckIsFinal /\ RetryOnlyAbandoned

\* The world calms down: from some point on no crash, no failed spawn, no
\* operator restart and no event from a provider (which may hang for ever).
Disturbance ==
    \/ Crash \/ HostCrash \/ SpawnFail
    \/ \E withMessage \in BOOLEAN : Restart(withMessage)
    \/ QueryEvent \/ QueryResult
Calm == <>[][~Disturbance]_vars

Settled(m) == row[m].status \in {"completed", "failed"}

\* Every row that triggers gets a final status once the world is calm: a hung
\* provider, a leaked claim, a lost container or a failed delete of the orphan
\* claims only delays it.
EveryMessageSettles ==
    Calm => \A m \in Ids :
        (Triggers(m) /\ row[m].status = "pending"
            /\ row[m].kind # "system" /\ ~row[m].onWake) ~> Settled(m)

\* architecture.md:535: "When the host detects a stale `processing` message or the
\* container exits with an error, it increments `tries`": so a message that is
\* claimed and lost over and over is given up after MAX_TRIES. Not so: README, 6.
LostClaimsUseUpTries ==
    (<>[][~(HostCrash \/ SpawnFail \/ \E w \in BOOLEAN : Restart(w))]_vars)
      => \A m \in Ids :
            ([]<>(m \in Claims) /\ []<>(m \notin Claims)) => <>Settled(m)

\* poll-loop.ts:527: "Re-check done — the outer query may have finished": a message
\* is not acknowledged completed without anyone having seen it. Not so: README, 6.
CompletedWasSeen == \A m \in Ids : ack[m] = "completed" => m \in reached

-----------------------------------------------------------------------------
(* The abstract queue this specification implements *)

Standing(m) ==
    CASE row[m].status = "absent" -> "new"
      [] Settled(m) -> "settled"
      [] ack[m] \in TerminalAck -> "acked"
      [] ack[m] = "processing" -> "taken"
      [] OTHER -> "waiting"

Lease == INSTANCE LeaseQueue WITH
    Msgs <- Ids,
    state <- [m \in Ids |-> Standing(m)],
    up <- phase \in {"poll", "scripts", "hook", "query"}

\* Seen from outside, the host, the sweep and the container together are that
\* queue: messages leave a container's hands unfinished only when it is gone.
ImplementsLease == Lease!Spec

=============================================================================
