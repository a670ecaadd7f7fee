-------------------------------- MODULE Turn --------------------------------
(***************************************************************************)
(* A query of the agent runner and what is made of its results. The loop   *)
(* opens a stream with the prompt of a batch and reads results from it;    *)
(* meanwhile a poll pushes the prompts of later messages, and the loop     *)
(* itself asks again: to wrap an answer for its destinations, to send what *)
(* a task run may only send with a tool, to meet a hook's objection. Which *)
(* prompt a result answers nobody says: the loop keeps a queue of prompts  *)
(* for the archive and one of usage jobs, and takes the first of each.     *)
(*                                                                         *)
(* Source: container/agent-runner/src/poll-loop.ts (processQuery and the   *)
(* end of runPollLoop), agent-hooks.ts and providers/. Prompts are numbered*)
(* as they are formed. A prompt asked again keeps its number. Claims and   *)
(* acknowledgements of the messages are in SessionQueue.                   *)
(* Bounds: MaxPrompts.                                                     *)
(***************************************************************************)
EXTENDS Naturals, Sequences, FiniteSets

CONSTANTS
    Styles,     \* how providers take a push while a turn is on: "queues"
                \* (Claude, opencode), "steers" (Codex), "skips" (DeepSeek, the
                \* local model; a failed request has no result)
    MaxPrompts

Prompts == 1..MaxPrompts
None == 0

ASSUME TurnAssumption == Styles \subseteq {"queues", "steers", "skips"} /\ MaxPrompts \in Nat

VARIABLES
    style,      \* the provider of this container
    given,      \* how many prompts were formed
    open,       \* the loop reads a stream
    task,       \* routing.taskRun of its batch
    aborted,    \* ... a slash command had it aborted
    mine,       \* ... prompts pushed into it, the batch's included
    asked,      \* ... what the provider has to answer, in order
    steering,   \* ... prompts on their way into a turn of Codex that is on
    handling,   \* the prompt whose result awaits the after-call hooks
    archive,    \* archivePrompts
    jobs,       \* usageJobs: prompts, or None for null
    unwrappedNudged, taskBlockNudged, postHookRetryCount,
    follow,     \* the follow-up poll in flight: [prompt, stage]
    late,       \* follow-ups that outlived their query
    absorbed,   \* prompts of the query that never get a result
    unsaid,     \* prompts whose answer left nothing: empty, or not sendable
    mixed,      \* "none", "nudged", or "overtaken": something was asked again
                \* behind a prompt that waited already
    rows        \* outbound rows: [kind, of]

queryVars ==
    <<open, task, aborted, mine, asked, steering, handling, archive, jobs, absorbed, mixed>>
flagVars == <<unwrappedNudged, taskBlockNudged, postHookRetryCount>>
vars == <<style, given, queryVars, flagVars, follow, late, unsaid, rows>>

NoFollow == [prompt |-> None, stage |-> "none"]

Init ==
    /\ style \in Styles /\ given = 0
    /\ open = FALSE /\ task = FALSE /\ aborted = FALSE /\ mine = {}
    /\ asked = <<>> /\ steering = <<>> /\ handling = None /\ archive = <<>> /\ jobs = <<>>
    /\ absorbed = {} /\ mixed = "none"
    /\ unwrappedNudged = FALSE /\ taskBlockNudged = FALSE /\ postHookRetryCount = 0
    /\ follow = NoFollow /\ late = {} /\ unsaid = {} /\ rows = {}

-----------------------------------------------------------------------------
Rest(s) == IF s = <<>> THEN s ELSE Tail(s)

Write(kind, n) == rows' = rows \union {[kind |-> kind, of |-> n]}

Fresh == unwrappedNudged' = FALSE /\ taskBlockNudged' = FALSE /\ postHookRetryCount' = 0

\* The notice of a hook that stops a batch, or a follow-up.
Stopped(n, t) == Write(IF t THEN "log" ELSE "notice", n)

\* runPollLoop: a batch's prompt, which the before-call hooks let pass,
Query(t) ==
    /\ ~open /\ given < MaxPrompts
    /\ given' = given + 1
    /\ open' = TRUE /\ task' = t /\ aborted' = FALSE
    /\ mine' = {given'} /\ asked' = <<given'>> /\ archive' = <<given'>> /\ jobs' = <<given'>>
    /\ steering' = <<>> /\ absorbed' = {} /\ mixed' = "none" /\ Fresh
    /\ UNCHANGED <<style, handling, follow, late, unsaid, rows>>

\* ... or do not.
BatchStopped(t) ==
    /\ ~open /\ given < MaxPrompts
    /\ given' = given + 1 /\ Stopped(given', t)
    /\ UNCHANGED <<style, queryVars, flagVars, follow, late, unsaid>>

-----------------------------------------------------------------------------
\* The poll inside processQuery: messages to follow up with,
FollowPoll ==
    /\ open /\ ~aborted /\ follow = NoFollow /\ given < MaxPrompts
    /\ given' = given + 1
    /\ follow' = [prompt |-> given', stage |-> "scripts"]
    /\ UNCHANGED <<style, queryVars, flagVars, late, unsaid, rows>>

\* ... or a command, which needs a query of its own.
Abort ==
    /\ open /\ ~aborted /\ follow = NoFollow
    /\ aborted' = TRUE
    /\ UNCHANGED <<style, given, open, task, mine, asked, steering, handling, archive, jobs,
                   absorbed, mixed, flagVars, follow, late, unsaid, rows>>

\* The scripts have run, and gated all of it or not.
FollowScripts ==
    /\ follow.stage = "scripts"
    /\ follow' \in {NoFollow, [follow EXCEPT !.stage = "hooks"]}
    /\ UNCHANGED <<style, given, queryVars, flagVars, late, unsaid, rows>>

FollowStopped ==
    /\ follow.stage = "hooks"
    /\ Stopped(follow.prompt, task) /\ follow' = NoFollow
    /\ UNCHANGED <<style, given, queryVars, flagVars, late, unsaid>>

\* The prompt is pushed, and the flags are those of a new turn. While a turn of
\* Codex is on, it is steered into that turn.
FollowPush ==
    LET n == follow.prompt IN
    /\ follow.stage = "hooks"
    /\ follow' = NoFollow /\ Fresh
    /\ mine' = mine \union {n} /\ archive' = Append(archive, n) /\ jobs' = Append(jobs, n)
    /\ \/ /\ asked' = Append(asked, n) /\ UNCHANGED steering
          /\ mixed' = IF steering # <<>> THEN "overtaken" ELSE mixed
       \/ /\ style = "steers" /\ handling = None /\ asked # <<>>
          /\ steering' = Append(steering, n) /\ UNCHANGED <<asked, mixed>>
    /\ UNCHANGED <<style, given, open, task, aborted, handling, absorbed, late, unsaid, rows>>

\* The turn took the prompt in, and answers both at once; or the request failed,
\* and it waits for a turn of its own.
Steered ==
    /\ steering # <<>> /\ steering' = Tail(steering)
    /\ \/ absorbed' = absorbed \union {Head(steering)} /\ UNCHANGED asked
       \/ asked' = Append(asked, Head(steering)) /\ UNCHANGED absorbed
    /\ UNCHANGED <<style, given, open, task, aborted, mine, handling, archive, jobs, mixed,
                   flagVars, follow, late, unsaid, rows>>

\* The query it was for has closed meanwhile: nobody reads what is pushed.
FollowLate(n) ==
    /\ n \in late /\ late' = late \ {n}
    /\ Write("notice", n) \/ UNCHANGED rows
    /\ UNCHANGED <<style, given, queryVars, flagVars, follow, unsaid>>

-----------------------------------------------------------------------------
\* Mutant: a result without text leaves its prompt in the archive's queue.
ResultKeepsPrompt ==
    /\ open /\ ~aborted /\ handling = None /\ asked # <<>>
    /\ asked' = Tail(asked) /\ jobs' = Rest(jobs)
    /\ \/ handling' = Head(asked) /\ UNCHANGED unsaid
       \/ unsaid' = unsaid \union {Head(asked)} /\ UNCHANGED handling
    /\ UNCHANGED <<style, given, open, task, aborted, mine, steering, archive, absorbed,
                   mixed, flagVars, follow, late, rows>>

\* A result event: the job of the turn is done. Text goes through the hooks.
Result ==
    /\ open /\ ~aborted /\ handling = None /\ asked # <<>>
    /\ asked' = Tail(asked) /\ jobs' = Rest(jobs)
    /\ \/ handling' = Head(asked) /\ UNCHANGED <<archive, unsaid>>
       \/ /\ archive' = Rest(archive) /\ unsaid' = unsaid \union {Head(asked)}
          /\ UNCHANGED handling
    /\ UNCHANGED <<style, given, open, task, aborted, mine, steering, absorbed, mixed,
                   flagVars, follow, late, rows>>

\* The turn is over for its prompt, or
Over ==
    /\ handling' = None /\ archive' = Rest(archive)
    /\ UNCHANGED <<asked, jobs, mixed>>

\* ... it is asked again, behind whatever was pushed before.
AskAgain(mark) ==
    /\ handling' = None /\ asked' = Append(asked, handling)
    /\ mixed' = CASE asked \o steering # <<>> -> "overtaken"
                  [] asked \o steering = <<>> /\ mixed = "none" -> mark
                  [] OTHER -> mixed
    /\ UNCHANGED archive

\* What all ends of a handled result leave alone.
Judged ==
    /\ handling # None
    /\ UNCHANGED <<style, given, open, task, aborted, mine, steering, absorbed, follow, late>>

Leave == unsaid' = unsaid \union {handling} /\ UNCHANGED rows

\* An after-call hook blocks the answer,
HookBlocks ==
    /\ Judged /\ Over
    /\ IF task /\ taskBlockNudged
       THEN Leave
       ELSE Stopped(handling, task) /\ UNCHANGED unsaid
    /\ UNCHANGED flagVars

\* Mutant: retries are counted, but there is no limit to them.
RetryUnlimited ==
    /\ Judged
    /\ postHookRetryCount' = postHookRetryCount + 1
    /\ AskAgain("none") /\ jobs' = Append(jobs, None)
    /\ UNCHANGED <<unwrappedNudged, taskBlockNudged, unsaid, rows>>

\* ... wants another, once,
Retry ==
    /\ Judged /\ postHookRetryCount = 0
    /\ postHookRetryCount' = 1
    /\ AskAgain("none") /\ jobs' = Append(jobs, None)
    /\ UNCHANGED <<unwrappedNudged, taskBlockNudged, unsaid, rows>>

\* ... or wants another still.
RetryLimit ==
    /\ Judged /\ postHookRetryCount > 0
    /\ Over /\ Write("notice", handling)
    /\ UNCHANGED <<flagVars, unsaid>>

\* The hooks let it pass. In a chat it has blocks for destinations, or
Passes == Judged /\ postHookRetryCount' = 0

Reply ==
    /\ Passes /\ ~task
    /\ Over /\ Write("reply", handling)
    /\ UNCHANGED <<unwrappedNudged, taskBlockNudged, unsaid>>

\* ... is the provider's error, or
ErrorResult ==
    /\ Passes /\ ~task /\ style = "queues"
    /\ Over /\ Write("error", handling)
    /\ UNCHANGED <<unwrappedNudged, taskBlockNudged, unsaid>>

\* Mutant: the nudge is not remembered.
UnwrappedAgain ==
    /\ Passes /\ ~task /\ ~unwrappedNudged
    /\ AskAgain("nudged") /\ UNCHANGED <<jobs, unwrappedNudged, taskBlockNudged, unsaid, rows>>

\* ... text for nobody, which the agent is asked to wrap, once, or
Unwrapped ==
    /\ Passes /\ ~task /\ ~unwrappedNudged
    /\ unwrappedNudged' = TRUE
    /\ AskAgain("nudged") /\ UNCHANGED <<jobs, taskBlockNudged, unsaid, rows>>

\* ... nothing to say, or text for nobody again.
Scratchpad ==
    /\ Passes /\ ~task
    /\ Over /\ Leave
    /\ UNCHANGED <<unwrappedNudged, taskBlockNudged>>

\* In a task run it is the entry of the run log; a block in it is not sent, and
\* the agent is told so, once.
TaskBlocks ==
    /\ Passes /\ task /\ ~taskBlockNudged
    /\ taskBlockNudged' = TRUE
    /\ Write("log", handling)
    /\ AskAgain("nudged") /\ UNCHANGED <<jobs, unwrappedNudged, unsaid>>

TaskLog ==
    /\ Passes /\ task /\ Over
    /\ IF taskBlockNudged THEN Leave ELSE Write("log", handling) /\ UNCHANGED unsaid
    /\ UNCHANGED <<unwrappedNudged, taskBlockNudged>>

Handled ==
    HookBlocks \/ Retry \/ RetryLimit \/ Reply \/ ErrorResult \/ Unwrapped \/ Scratchpad
    \/ TaskBlocks \/ TaskLog

-----------------------------------------------------------------------------
\* An error event of a failed request, which is only logged.
ErrorEvent ==
    /\ open /\ ~aborted /\ style = "skips" /\ handling = None /\ asked # <<>>
    /\ absorbed' = absorbed \union {Head(asked)} /\ asked' = Tail(asked)
    /\ UNCHANGED <<style, given, open, task, aborted, mine, steering, handling, archive, jobs,
                   mixed, flagVars, follow, late, unsaid, rows>>

\* done = true. A poll past its check of `done` goes on.
Close ==
    /\ open' = FALSE /\ asked' = <<>> /\ steering' = <<>> /\ archive' = <<>> /\ jobs' = <<>>
    /\ mine' = {} /\ absorbed' = {} /\ mixed' = "none" /\ aborted' = FALSE
    /\ follow' = NoFollow
    /\ late' = IF follow.stage = "hooks" THEN late \union {follow.prompt} ELSE late
    /\ UNCHANGED <<style, given, task, handling, flagVars, unsaid>>

\* The stream throws: one notice, on the route of the batch.
Throws ==
    /\ open /\ ~aborted /\ style # "skips" /\ handling = None
    /\ \E n \in mine : (\A k \in mine : n <= k) /\ Write("error", n)
    /\ Close

\* It ends, after an abort or by itself.
Ends ==
    /\ open /\ handling = None /\ (aborted \/ style = "queues")
    /\ Close /\ UNCHANGED rows

Next ==
    \/ \E t \in BOOLEAN : Query(t) \/ BatchStopped(t)
    \/ FollowPoll \/ Abort \/ FollowScripts \/ FollowStopped \/ FollowPush \/ Steered
    \/ \E n \in late : FollowLate(n)
    \/ Result \/ Handled \/ ErrorEvent \/ Throws \/ Ends

\* Hooks end, for they have a timeout, and so does an aborted stream. That the
\* provider answers is the assumption under which the loop must come to rest.
Fairness ==
    /\ WF_vars(Handled) /\ WF_vars(Result \/ ErrorEvent) /\ WF_vars(Steered)
    /\ WF_vars(aborted /\ Ends)

Spec == Init /\ [][Next]_vars /\ Fairness

-----------------------------------------------------------------------------
TypeOK ==
    /\ style \in Styles /\ given \in 0..MaxPrompts
    /\ {open, task, aborted, unwrappedNudged, taskBlockNudged} \subseteq BOOLEAN
    /\ mine \subseteq 1..given /\ absorbed \subseteq mine
    /\ asked \in Seq(mine) /\ steering \in Seq(mine) /\ handling \in mine \union {None}
    /\ archive \in Seq(mine) /\ jobs \in Seq(mine \union {None})
    /\ postHookRetryCount \in 0..1
    /\ follow.prompt \in 0..given /\ follow.stage \in {"none", "scripts", "hooks"}
    /\ late \subseteq 1..given /\ unsaid \subseteq 1..given
    /\ mixed \in {"none", "nudged", "overtaken"}
    /\ rows \subseteq [kind : {"reply", "notice", "error", "log"}, of : 1..given]

Outstanding == (IF handling = None THEN <<>> ELSE <<handling>>) \o asked \o steering

\* The archive's queue is never short of a prompt, and long only by those that
\* never get a result. Unless one was asked again behind another, it names the
\* prompt each result is about.
ArchiveMatches ==
    /\ Len(archive) = Len(Outstanding) + Cardinality(absorbed)
    /\ absorbed = {} /\ mixed # "overtaken" => archive = Outstanding

\* The usage jobs are those of the turns to come, one for one, until a nudge
\* puts in a turn without one.
JobsMatch ==
    absorbed = {} /\ mixed = "none" =>
        /\ Len(jobs) = Len(asked \o steering)
        /\ \A i \in DOMAIN jobs : jobs[i] \in {(asked \o steering)[i], None}

\* No prompt is asked twice at a time, and none is lost between the queues:
\* what was pushed is still to be answered, was answered, or cannot be.
NoneIsLost ==
    /\ \A i, j \in DOMAIN Outstanding : Outstanding[i] = Outstanding[j] => i = j
    /\ \A n \in mine :
        \/ \E i \in DOMAIN Outstanding : Outstanding[i] = n
        \/ n \in absorbed \union unsaid \/ \E r \in rows : r.of = n

\* Results find their prompts, however pushes, hooks, retries and nudges
\* interleave.
PromptsMatch == ArchiveMatches /\ JobsMatch /\ NoneIsLost

\* A provider that answers comes to rest: nudges and retries feed each other
\* only so often.
AnswersEnd == Outstanding # <<>> ~> Outstanding = <<>>

\* Not so (README, 6): an exchange is archived with the prompt it answers,
ExchangesMatch == handling # None => archive # <<>> /\ Head(archive) = handling
=============================================================================
