----------------------------- MODULE Approvals -----------------------------
(***************************************************************************)
(* Admin approval of what an agent asks for. A request is a durable row of *)
(* pending_approvals and a card in an admin's DM. A click reads the row,   *)
(* and then either rejects at once, parks the row until the admin's next   *)
(* DM gives a reason, or runs the registered handler, which re-enters the  *)
(* guarded action with the row as its grant. Whatever awaits (the guard's  *)
(* precheck, the handler, the prompt, the sweep's loop) lets other clicks  *)
(* and replies in between; what it holds of the row may then be stale.     *)
(*                                                                         *)
(* Source: src/modules/approvals/{primitive,response-handler,              *)
(* reason-capture,finalize}.ts, guard/guard.ts and delivery-guard.ts.      *)
(* Bounds: MaxClicks of a card, MaxCrashes. A crash falls on an await, not  *)
(* between two statements of one synchronous block.                        *)
(***************************************************************************)
EXTENDS Naturals

CONSTANTS
    Requests,
    Users,         \* whoever can click a card or send a DM
    MayResolve,    \* the users isAuthorizedApprovalClick accepts, per request
    NoRequest,
    MaxClicks,     \* bound: clicks on the card of a request
    MaxCrashes     \* bound: host restarts

ASSUME ApprovalsAssumption ==
    /\ MayResolve \in [Requests -> SUBSET Users]
    /\ NoRequest \notin Requests
    /\ MaxClicks \in [Requests -> Nat] /\ MaxCrashes \in Nat

VARIABLES
    asked,       \* requestApproval: not called, awaiting adapter.deliver, over
    row,         \* pending_approvals.status; "none" without a row
    lapsed,      \* requests whose expires_at, set with the hold, has passed
    shown,       \* requests whose card is on the admin's screen
    said,        \* the clicks made on a card while its row was live
    consulting,  \* approve clicks that await the guarded action's precheck
    handling,    \* handlers running
    prompting,   \* "Reject with reason" clicks that await the prompt, by user
    armed,       \* awaitingReason: the request the user's next DM is for
    ghosts,      \* the sweep's list: holds read as expired, not yet finalized
    clicks, crashes,
    runs,        \* executions of the approved action
    notes,       \* rejections written to the requesting session
    told         \* requests whose agent was told that they came to nothing

requestVars == <<asked, row, lapsed, shown>>
taskVars == <<consulting, handling, prompting>>
holdVars == <<armed, ghosts>>
countVars == <<said, clicks, crashes>>
outcomeVars == <<runs, notes, told>>
vars == <<requestVars, taskVars, holdVars, countVars, outcomeVars>>

-----------------------------------------------------------------------------
Options == {"approve", "reject", "reject_with_reason"}
NoTasks == [r \in Requests |-> 0]
NoPrompts == [r \in Requests |-> [u \in Users |-> 0]]

Live(r) == row[r] # "none"

\* getExpiredAwaitingReasonApprovals
Expired == {r \in lapsed : row[r] = "awaiting_reason"}

Init ==
    /\ asked = [r \in Requests |-> "no"]
    /\ row = [r \in Requests |-> "none"]
    /\ lapsed = {} /\ shown = {}
    /\ said = [r \in Requests |-> {}]
    /\ consulting = NoTasks /\ handling = NoTasks /\ prompting = NoPrompts
    /\ armed = [u \in Users |-> NoRequest] /\ ghosts = {}
    /\ clicks = [r \in Requests |-> 0] /\ crashes = 0
    /\ runs = [r \in Requests |-> 0] /\ notes = [r \in Requests |-> 0] /\ told = {}

\* Mutant: the row is closed by a status, as a credential request's is first.
RowExpired(r) == row' = [row EXCEPT ![r] = "expired"]
\* deletePendingApproval
DeleteRow(r) == row' = [row EXCEPT ![r] = "none"]

\* finalizeReject, up to its first await: note, then deletion, whatever became
\* of the row since the caller read it.
FinalizeReject(r) == DeleteRow(r) /\ notes' = [notes EXCEPT ![r] = @ + 1]

-----------------------------------------------------------------------------
\* requestApproval: nobody may approve, or no approver has a DM.
CannotAsk(r) ==
    /\ asked[r] = "no"
    /\ asked' = [asked EXCEPT ![r] = "sent"]
    /\ told' = told \union {r}
    /\ UNCHANGED <<row, lapsed, shown, taskVars, holdVars, countVars, runs, notes>>

\* ... or the row first, then the card.
Ask(r) ==
    /\ asked[r] = "no"
    /\ asked' = [asked EXCEPT ![r] = "sending"]
    /\ row' = [row EXCEPT ![r] = "pending"]
    /\ UNCHANGED <<lapsed, shown, taskVars, holdVars, countVars, outcomeVars>>

\* The platform shows the card while adapter.deliver is awaited.
CardShown(r) ==
    /\ asked[r] = "sending" /\ r \notin shown
    /\ shown' = shown \union {r}
    /\ UNCHANGED <<asked, row, lapsed, taskVars, holdVars, countVars, outcomeVars>>

CardDelivered(r) ==
    /\ asked[r] = "sending" /\ r \in shown
    /\ asked' = [asked EXCEPT ![r] = "sent"]
    /\ UNCHANGED <<row, lapsed, shown, taskVars, holdVars, countVars, outcomeVars>>

\* Mutant: the agent is not told.
CardLost(r) ==
    /\ asked[r] = "sending"
    /\ asked' = [asked EXCEPT ![r] = "sent"]
    /\ DeleteRow(r)
    /\ UNCHANGED <<lapsed, shown, taskVars, holdVars, countVars, outcomeVars>>

\* deliver throws, with or without the card on the screen.
CardFails(r) ==
    /\ asked[r] = "sending"
    /\ asked' = [asked EXCEPT ![r] = "sent"]
    /\ DeleteRow(r)
    /\ told' = told \union {r}
    /\ UNCHANGED <<lapsed, shown, taskVars, holdVars, countVars, runs, notes>>

-----------------------------------------------------------------------------
\* A click reaches handleApprovalsResponse. The card keeps its buttons until
\* the bridge has edited it, so one card can be clicked more than once.
CanClick(r) == r \in shown /\ clicks[r] < MaxClicks[r]

\* Mutant: anyone who sees the card may resolve the request.
AnyClick(r, u) == Live(r)
\* isAuthorizedApprovalClick
Authorized(r, u) == Live(r) /\ u \in MayResolve[r]

Clicked(r, u, option) ==
    /\ CanClick(r)
    /\ clicks' = [clicks EXCEPT ![r] = @ + 1]
    /\ said' = IF Live(r) THEN [said EXCEPT ![r] = @ \union {<<u, option>>}] ELSE said
    /\ UNCHANGED crashes

\* No row, or not this user's to resolve.
ClickIgnored(r, u, option) ==
    /\ ~Authorized(r, u)
    /\ Clicked(r, u, option)
    /\ UNCHANGED <<requestVars, taskVars, holdVars, outcomeVars>>

\* handleRegisteredApproval calls the handler, which re-enters the guarded
\* action and awaits its precheck.
ClickApprove(r, u) ==
    /\ Authorized(r, u) /\ Clicked(r, u, "approve")
    /\ consulting' = [consulting EXCEPT ![r] = @ + 1]
    /\ UNCHANGED <<requestVars, handling, prompting, holdVars, outcomeVars>>

ClickReject(r, u) ==
    /\ Authorized(r, u) /\ Clicked(r, u, "reject")
    /\ FinalizeReject(r)
    /\ UNCHANGED <<asked, lapsed, shown, taskVars, holdVars, runs, told>>

\* armReasonCapture awaits the user's DM and the prompt's delivery.
ClickReason(r, u) ==
    /\ Authorized(r, u) /\ Clicked(r, u, "reject_with_reason")
    /\ prompting' = [prompting EXCEPT ![r][u] = @ + 1]
    /\ UNCHANGED <<requestVars, consulting, handling, holdVars, outcomeVars>>

-----------------------------------------------------------------------------
\* Mutant: the grant is the row object the click read, not the live row.
ReplayTrustsGrant(r) ==
    /\ consulting[r] > 0
    /\ consulting' = [consulting EXCEPT ![r] = @ - 1]
    /\ handling' = [handling EXCEPT ![r] = @ + 1]
    /\ runs' = [runs EXCEPT ![r] = @ + 1]
    /\ UNCHANGED <<requestVars, prompting, holdVars, countVars, notes, told>>

\* runGuarded after the precheck: the hold is satisfied while the row is live,
\* and the action's handler starts.
ReplayAllowed(r) ==
    /\ consulting[r] > 0 /\ Live(r)
    /\ consulting' = [consulting EXCEPT ![r] = @ - 1]
    /\ handling' = [handling EXCEPT ![r] = @ + 1]
    /\ runs' = [runs EXCEPT ![r] = @ + 1]
    /\ UNCHANGED <<requestVars, prompting, holdVars, countVars, notes, told>>

\* ... the precheck stops it, a structural check now denies, or the row is
\* gone: the agent is told, and the row dropped.
ReplayDenied(r) ==
    /\ consulting[r] > 0
    /\ consulting' = [consulting EXCEPT ![r] = @ - 1]
    /\ DeleteRow(r)
    /\ told' = told \union {r}
    /\ UNCHANGED <<asked, lapsed, shown, handling, prompting, holdVars, countVars, runs, notes>>

\* The handler returns, or throws and the agent is told; then the row goes.
HandlerEnds(r) ==
    /\ handling[r] > 0
    /\ handling' = [handling EXCEPT ![r] = @ - 1]
    /\ DeleteRow(r)
    /\ told' \in {told, told \union {r}}
    /\ UNCHANGED <<asked, lapsed, shown, consulting, prompting, holdVars, countVars, runs, notes>>

\* The prompt is out: markApprovalAwaitingReason updates the row if there is
\* one, with a new deadline, and the user's next DM is for this request.
PromptDelivered(r, u) ==
    /\ prompting[r][u] > 0
    /\ prompting' = [prompting EXCEPT ![r][u] = @ - 1]
    /\ row' = IF Live(r) THEN [row EXCEPT ![r] = "awaiting_reason"] ELSE row
    /\ lapsed' = lapsed \ {r}
    /\ armed' = [armed EXCEPT ![u] = r]
    /\ UNCHANGED <<asked, shown, consulting, handling, ghosts, countVars, outcomeVars>>

\* No DM, no adapter, or deliver throws: a plain reject instead.
PromptFails(r, u) ==
    /\ prompting[r][u] > 0
    /\ prompting' = [prompting EXCEPT ![r][u] = @ - 1]
    /\ FinalizeReject(r)
    /\ UNCHANGED <<asked, lapsed, shown, consulting, handling, holdVars, countVars, runs, told>>

-----------------------------------------------------------------------------
\* captureReasonReply: an armed user's next DM. It is a reason only while the
\* row is held; otherwise it is routed as any message.
Reply(u) ==
    /\ armed[u] # NoRequest
    /\ armed' = [armed EXCEPT ![u] = NoRequest]
    /\ IF row[armed[u]] = "awaiting_reason"
       THEN FinalizeReject(armed[u])
       ELSE UNCHANGED <<row, notes>>
    /\ UNCHANGED <<asked, lapsed, shown, taskVars, ghosts, countVars, runs, told>>

\* The five minutes are over.
Lapse(r) ==
    /\ row[r] = "awaiting_reason" /\ r \notin lapsed
    /\ lapsed' = lapsed \union {r}
    /\ UNCHANGED <<asked, row, shown, taskVars, holdVars, countVars, outcomeVars>>

\* Mutant: the sweep finalizes what this process armed, and no more.
SweepArmed(r) ==
    /\ ghosts = {} /\ r \in Expired /\ \E u \in Users : armed[u] = r
    /\ ghosts' = Expired \ {r}
    /\ FinalizeReject(r)
    /\ UNCHANGED <<asked, lapsed, shown, taskVars, armed, countVars, runs, told>>

\* sweepAwaitingReasonRejects reads the expired holds and finalizes the first.
SweepReads(r) ==
    /\ ghosts = {} /\ r \in Expired
    /\ ghosts' = Expired \ {r}
    /\ FinalizeReject(r)
    /\ UNCHANGED <<asked, lapsed, shown, taskVars, armed, countVars, runs, told>>

\* ... and, after each await, the next of its list, without reading it again.
SweepNext(r) ==
    /\ r \in ghosts
    /\ ghosts' = ghosts \ {r}
    /\ FinalizeReject(r)
    /\ UNCHANGED <<asked, lapsed, shown, taskVars, armed, countVars, runs, told>>

\* What the process held in memory is gone; rows and cards stay.
HostCrash ==
    /\ crashes < MaxCrashes
    /\ crashes' = crashes + 1
    /\ asked' = [r \in Requests |-> IF asked[r] = "sending" THEN "sent" ELSE asked[r]]
    /\ consulting' = NoTasks /\ handling' = NoTasks /\ prompting' = NoPrompts
    /\ armed' = [u \in Users |-> NoRequest] /\ ghosts' = {}
    /\ UNCHANGED <<row, lapsed, shown, said, clicks, outcomeVars>>

-----------------------------------------------------------------------------
Clicking(r, u) ==
    \/ \E option \in Options : ClickIgnored(r, u, option)
    \/ ClickApprove(r, u) \/ ClickReject(r, u) \/ ClickReason(r, u)

Replaying(r) == ReplayAllowed(r) \/ ReplayDenied(r)
Prompted(r, u) == PromptDelivered(r, u) \/ PromptFails(r, u)
Sweeping(r) == SweepReads(r) \/ SweepNext(r)

Next ==
    \/ \E r \in Requests :
        \/ CannotAsk(r) \/ Ask(r) \/ CardShown(r) \/ CardDelivered(r) \/ CardFails(r)
        \/ ReplayAllowed(r) \/ ReplayDenied(r) \/ HandlerEnds(r)
        \/ Lapse(r) \/ SweepReads(r) \/ SweepNext(r)
        \/ \E u \in Users : Clicking(r, u) \/ Prompted(r, u)
    \/ \E u \in Users : Reply(u)
    \/ HostCrash

Spec == Init /\ [][Next]_vars

\* Timers fire, the sweep comes round, and what the host awaits settles.
Fairness ==
    \A r \in Requests :
        /\ WF_vars(Lapse(r)) /\ WF_vars(Sweeping(r))
        /\ WF_vars(Replaying(r)) /\ WF_vars(HandlerEnds(r))
        /\ \A u \in Users : WF_vars(Prompted(r, u))

FairSpec == Spec /\ Fairness

-----------------------------------------------------------------------------
\* Types of all variables.
TypeOK ==
    /\ asked \in [Requests -> {"no", "sending", "sent"}]
    /\ row \in [Requests -> {"none", "pending", "awaiting_reason"}]
    /\ lapsed \subseteq Requests /\ shown \subseteq Requests
    /\ said \in [Requests -> SUBSET (Users \X Options)]
    /\ consulting \in [Requests -> Nat] /\ handling \in [Requests -> Nat]
    /\ prompting \in [Requests -> [Users -> Nat]]
    /\ armed \in [Users -> Requests \union {NoRequest}]
    /\ ghosts \subseteq Requests
    /\ clicks \in [Requests -> Nat] /\ crashes \in 0..MaxCrashes
    /\ runs \in [Requests -> Nat] /\ notes \in [Requests -> Nat]
    /\ told \subseteq Requests

Said(r, options) == \E u \in MayResolve[r], option \in options : <<u, option>> \in said[r]

\* An action runs, or the agent reads of a rejection, only because a user who
\* may resolve the request said so on its card: across prompts, replies, the
\* sweep's stale list and restarts.
OutcomeWasSaid ==
    \A r \in Requests :
        /\ runs[r] > 0 => Said(r, {"approve"})
        /\ notes[r] > 0 => Said(r, {"reject", "reject_with_reason"})

\* A row disappears only with an outcome the agent sees: the action ran, or a
\* note says that it was rejected, denied or could not be asked for.
SettledIsTold ==
    \A r \in Requests :
        asked[r] # "no" /\ ~Live(r) => runs[r] > 0 \/ notes[r] > 0 \/ r \in told

\* Once the agent was told of a rejection, no approval still under way starts
\* the action, and no late prompt brings the row back.
RejectionIsFinal ==
    [][\A r \in Requests :
        notes[r] > 0 => runs'[r] = runs[r] /\ row'[r] = "none"]_vars

\* A hold ends: by the reason, by another click, or by the sweep's timeout,
\* also when the restart of the host has disarmed the capture.
HeldSettles == \A r \in Requests : row[r] = "awaiting_reason" ~> ~Live(r)

\* An authorized answer settles the request, unless the host restarts under it.
AnsweredSettles ==
    \A r \in Requests :
        Said(r, Options) ~> ~Live(r) \/ crashes > 0

\* What was answered, or only promised an answer, is settled in the end.
AnswersSettle == HeldSettles /\ AnsweredSettles

\* guard.ts:54 and primitive.ts:64: an approval executes exactly once.
GrantRunsOnce == \A r \in Requests : runs[r] <= 1
=============================================================================
