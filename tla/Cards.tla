------------------------------- MODULE Cards -------------------------------
(***************************************************************************)
(* Cards with buttons, and what a click on one does. An agent's tool asks  *)
(* a question and polls its inbound database for the answer; the gateway   *)
(* holds a request for a credential and waits for a promise of the host.   *)
(* Both put up a card and keep a row about it. A click reads the row to    *)
(* tell which option it was, awaits an edit of the card, and only then is  *)
(* acted on: by then the row may have gone, or come.                       *)
(*                                                                         *)
(* Source: src/modules/approvals/onecli-approvals.ts and                   *)
(* response-handler.ts, src/modules/interactive/index.ts,                  *)
(* src/delivery.ts (questions), src/channels/chat-sdk-bridge.ts            *)
(* (onAction), container/agent-runner/src/mcp-tools/interactive.ts. The    *)
(* cards of held actions have a module of their own, Approvals.            *)
(* Bounds: Together, the sets of cards that come up in one behaviour;      *)
(* MaxClicks that differ; MaxRestarts of the host.                         *)
(***************************************************************************)
EXTENDS Naturals, FiniteSets

CONSTANTS
    Questions,    \* calls of ask_user_question
    Requests,     \* requests the gateway holds
    Users, Admins,
    MaxAttempts,  \* MAX_DELIVERY_ATTEMPTS
    Together, MaxClicks, MaxRestarts

Cards == Questions \union Requests
Options == {"approve", "reject"}

ASSUME CardsAssumption ==
    /\ Questions \intersect Requests = {} /\ Admins \subseteq Users
    /\ MaxAttempts \in Nat \ {0} /\ {MaxClicks, MaxRestarts} \subseteq Nat

VARIABLES
    row,        \* of pending_questions or pending_approvals
    buttons,    \* cards on a screen that can be clicked
    clicks,     \* clicks whose edit is awaited: [card, by, value]
    said,       \* what was clicked, ever: <<card, user, option>>
    tool,       \* a question's call
    post,       \* ... its outbound row
    attempts,   \* ... deliveryAttempts
    sends,      \* ... how often its card was sent, a success or not
    inbox,      \* ... values of the question_response rows not taken
    written,    \* ... how many there were ever
    result,     \* ... what the call returned
    call,       \* a request's callback; "held" with an entry in `pending`
    decision,   \* ... what it returned to the gateway
    expiring,   \* ... expireApproval awaits the card's edit
    stale,      \* ... the startup sweep has still to end it
    restarts

cardVars == <<row, buttons, clicks, said>>
questionVars == <<tool, post, attempts, sends, inbox, written, result>>
requestVars == <<call, decision, expiring, stale>>
vars == <<cardVars, questionVars, requestVars, restarts>>

Init ==
    /\ row = [c \in Cards |-> "none"] /\ buttons = {} /\ clicks = {} /\ said = {}
    /\ tool = [q \in Questions |-> "none"] /\ post = [q \in Questions |-> "none"]
    /\ attempts = [q \in Questions |-> 0] /\ sends = [q \in Questions |-> 0]
    /\ inbox = [q \in Questions |-> {}] /\ written = [q \in Questions |-> 0]
    /\ result = [q \in Questions |-> "none"]
    /\ call = [r \in Requests |-> "none"] /\ decision = [r \in Requests |-> "none"]
    /\ expiring = {} /\ stale = {} /\ restarts = 0

\* A card's edit takes its buttons away, or fails.
Edited(c) == buttons' \in {buttons, buttons \ {c}}

DeleteRow(c) == row' = [row EXCEPT ![c] = "none"]

\* The bound Together.
ComesUp(c) ==
    {d \in Questions : tool[d] # "none"} \union {d \in Requests : call[d] # "none"} \union {c} \in Together

-----------------------------------------------------------------------------
\* askUserQuestion writes the card, and polls.
Ask(q) ==
    /\ tool[q] = "none" /\ ComesUp(q)
    /\ tool' = [tool EXCEPT ![q] = "polling"] /\ post' = [post EXCEPT ![q] = "due"]
    /\ UNCHANGED <<cardVars, attempts, sends, inbox, written, result, requestVars, restarts>>

\* deliverMessage: the row first (INSERT OR IGNORE), then the send.
Send(q) ==
    /\ post[q] = "due"
    /\ post' = [post EXCEPT ![q] = "sending"] /\ sends' = [sends EXCEPT ![q] = @ + 1]
    /\ row' = [row EXCEPT ![q] = "pending"]
    /\ UNCHANGED <<buttons, clicks, said, tool, attempts, inbox, written, result,
                   requestVars, restarts>>

\* The platform has it, and has not answered yet.
Posted(q) ==
    /\ post[q] = "sending"
    /\ post' = [post EXCEPT ![q] = "posted"] /\ buttons' = buttons \union {q}
    /\ UNCHANGED <<row, clicks, said, tool, attempts, sends, inbox, written, result,
                   requestVars, restarts>>

Sent(q) ==
    /\ post[q] = "posted"
    /\ post' = [post EXCEPT ![q] = "settled"] /\ attempts' = [attempts EXCEPT ![q] = 0]
    /\ UNCHANGED <<cardVars, tool, sends, inbox, written, result, requestVars, restarts>>

\* Mutant: it is not counted whether enough is enough.
SendFailsOn(q) ==
    /\ post[q] \in {"due", "sending", "posted"}
    /\ attempts' = [attempts EXCEPT ![q] = @ + 1]
    /\ post' = [post EXCEPT ![q] = "due"]
    /\ UNCHANGED <<cardVars, tool, sends, inbox, written, result, requestVars, restarts>>

\* drainSession's catch, also of what throws before the row is made: the same
\* card again, or no more.
SendFails(q) ==
    /\ post[q] \in {"due", "sending", "posted"}
    /\ LET more == attempts[q] + 1 < MaxAttempts IN
        /\ attempts' = [attempts EXCEPT ![q] = IF more THEN @ + 1 ELSE 0]
        /\ post' = [post EXCEPT ![q] = IF more THEN "due" ELSE "settled"]
    /\ UNCHANGED <<cardVars, tool, sends, inbox, written, result, requestVars, restarts>>

\* findQuestionResponse
TakeAnswer(q) ==
    /\ tool[q] = "polling"
    /\ \E v \in inbox[q] :
        /\ result' = [result EXCEPT ![q] = v] /\ inbox' = [inbox EXCEPT ![q] = @ \ {v}]
    /\ tool' = [tool EXCEPT ![q] = "answered"]
    /\ UNCHANGED <<cardVars, post, attempts, sends, written, requestVars, restarts>>

\* The deadline of the call, or the end of the container.
GiveUp(q) ==
    /\ tool[q] = "polling"
    /\ tool' = [tool EXCEPT ![q] = "over"]
    /\ UNCHANGED <<cardVars, post, attempts, sends, inbox, written, result, requestVars, restarts>>

-----------------------------------------------------------------------------
Answer(r, d) ==
    /\ call' = [call EXCEPT ![r] = "answered"] /\ decision' = [decision EXCEPT ![r] = d]

\* handleRequest, up to the delivery of its card.
Hold(r) ==
    /\ call[r] = "none" /\ ComesUp(r)
    /\ call' = [call EXCEPT ![r] = "sending"]
    /\ UNCHANGED <<cardVars, questionVars, decision, expiring, stale, restarts>>

CardShown(r) ==
    /\ call[r] = "sending"
    /\ call' = [call EXCEPT ![r] = "shown"] /\ buttons' = buttons \union {r}
    /\ UNCHANGED <<row, clicks, said, questionVars, decision, expiring, stale, restarts>>

\* Nobody to ask, or the delivery throws; the card may be on the screen.
HoldFails(r) ==
    /\ call[r] \in {"sending", "shown"}
    /\ Answer(r, "deny")
    /\ UNCHANGED <<cardVars, questionVars, expiring, stale, restarts>>

\* The row, the timer and the resolver.
Held(r) ==
    /\ call[r] = "shown"
    /\ call' = [call EXCEPT ![r] = "held"] /\ row' = [row EXCEPT ![r] = "pending"]
    /\ UNCHANGED <<buttons, clicks, said, questionVars, decision, expiring, stale, restarts>>

\* The timer: expireApproval up to its await, then resolve('deny').
TimesOut(r) ==
    /\ call[r] = "held"
    /\ Answer(r, "deny")
    /\ IF row[r] # "none"
       THEN row' = [row EXCEPT ![r] = "expired"] /\ expiring' = expiring \union {r}
       ELSE UNCHANGED <<row, expiring>>
    /\ UNCHANGED <<buttons, clicks, said, questionVars, stale, restarts>>

\* Mutant: an edit that throws is not caught.
ExpiredOrThrown(r) ==
    /\ r \in expiring
    /\ expiring' = expiring \ {r}
    /\ \/ buttons' = buttons \ {r} /\ DeleteRow(r)
       \/ UNCHANGED <<buttons, row>>
    /\ UNCHANGED <<clicks, said, questionVars, call, decision, stale, restarts>>

\* expireApproval goes on, the edit's failure having been caught.
Expired(r) ==
    /\ r \in expiring
    /\ expiring' = expiring \ {r} /\ Edited(r) /\ DeleteRow(r)
    /\ UNCHANGED <<clicks, said, questionVars, call, decision, stale, restarts>>

\* sweepStaleApprovals: one row of the list it read at the start.
Sweep(r) ==
    /\ r \in stale
    /\ stale' = stale \ {r} /\ Edited(r) /\ DeleteRow(r)
    /\ UNCHANGED <<clicks, said, questionVars, call, decision, expiring, restarts>>

-----------------------------------------------------------------------------
\* Mutant: ... it takes the first option.
ValueFirst(c, o) == IF row[c] = "none" THEN "approve" ELSE o

\* resolveSelectedOption: without a row the index of the button is all it has.
Value(c, o) == IF row[c] = "none" THEN "index" ELSE o

\* onAction of the bridge, up to the edit of the card.
Click(c, u, o) ==
    /\ c \in buttons
    /\ Cardinality(said \union {<<c, u, o>>}) <= MaxClicks
    /\ said' = said \union {<<c, u, o>>}
    /\ clicks' = clicks \union {[card |-> c, by |-> u, value |-> Value(c, o)]}
    /\ UNCHANGED <<row, buttons, questionVars, requestVars, restarts>>

\* handleInteractiveResponse: whoever clicked, while the row is there.
AnswerQuestion(q, v) ==
    /\ row[q] # "none" /\ DeleteRow(q)
    /\ inbox' = [inbox EXCEPT ![q] = @ \union {v}]
    /\ written' = [written EXCEPT ![q] = @ + 1]
    /\ UNCHANGED requestVars

\* resolveOneCLIApproval
Resolve(r, v) ==
    /\ row[r] # "none" /\ call[r] = "held"
    /\ Answer(r, IF v = "approve" THEN "approve" ELSE "deny") /\ DeleteRow(r)
    /\ UNCHANGED <<inbox, written, expiring, stale>>

\* handleApprovalsResponse, when the resolver has gone.
DropRow(r) ==
    /\ row[r] # "none" /\ call[r] # "held" /\ DeleteRow(r)
    /\ UNCHANGED <<inbox, written, requestVars>>

\* Nobody claims it, or the user may not.
Ignore(k) ==
    /\ row[k.card] = "none" \/ (k.card \in Requests /\ k.by \notin Admins)
    /\ UNCHANGED <<row, inbox, written, requestVars>>

\* The edit has ended, well or not, and the click is dispatched.
Dispatch(k) ==
    /\ k \in clicks
    /\ clicks' = clicks \ {k} /\ Edited(k.card)
    /\ \/ k.card \in Questions /\ AnswerQuestion(k.card, k.value)
       \/ k.card \in Requests /\ k.by \in Admins /\ (Resolve(k.card, k.value) \/ DropRow(k.card))
       \/ Ignore(k)
    /\ UNCHANGED <<said, tool, post, attempts, sends, result, restarts>>

-----------------------------------------------------------------------------
\* The callbacks, timers and clicks under way end with the process, and so do
\* the containers (cleanupOrphans). The new one reads which rows are stale.
HostRestart ==
    /\ restarts < MaxRestarts
    /\ restarts' = restarts + 1
    /\ call' = [r \in Requests |-> IF call[r] \in {"none", "answered"} THEN call[r] ELSE "cut"]
    /\ expiring' = {} /\ clicks' = {}
    /\ stale' = {r \in Requests : row[r] # "none"}
    /\ tool' = [q \in Questions |-> IF tool[q] = "polling" THEN "over" ELSE tool[q]]
    /\ post' = [q \in Questions |-> IF post[q] \in {"sending", "posted"} THEN "due" ELSE post[q]]
    /\ attempts' = [q \in Questions |-> 0]
    /\ UNCHANGED <<row, buttons, said, sends, inbox, written, result, decision>>

Next ==
    \/ \E q \in Questions :
        \/ Ask(q) \/ Send(q) \/ Posted(q) \/ Sent(q) \/ SendFails(q)
        \/ TakeAnswer(q) \/ GiveUp(q)
    \/ \E r \in Requests :
        \/ Hold(r) \/ CardShown(r) \/ HoldFails(r) \/ Held(r)
        \/ TimesOut(r) \/ Expired(r) \/ Sweep(r)
    \/ \E c \in Cards, u \in Users, o \in Options : Click(c, u, o)
    \/ \E k \in clicks : Dispatch(k)
    \/ HostRestart

Spec == Init /\ [][Next]_vars

\* A send and an edit return or throw, timers fire, a call has a deadline. That
\* anybody clicks is not assumed.
Fairness ==
    /\ \A q \in Questions : WF_vars(GiveUp(q))
    /\ \A r \in Requests :
        /\ WF_vars(CardShown(r) \/ Held(r) \/ HoldFails(r)) /\ WF_vars(TimesOut(r))
        /\ WF_vars(Expired(r)) /\ WF_vars(Sweep(r))

FairSpec == Spec /\ Fairness

-----------------------------------------------------------------------------
Clicks == [card : Cards, by : Users, value : Options \union {"index"}]

TypeOK ==
    /\ row \in [Cards -> {"none", "pending", "expired"}]
    /\ buttons \subseteq Cards /\ clicks \subseteq Clicks /\ said \subseteq Cards \X Users \X Options
    /\ tool \in [Questions -> {"none", "polling", "answered", "over"}]
    /\ post \in [Questions -> {"none", "due", "sending", "posted", "settled"}]
    /\ attempts \in [Questions -> 0..(MaxAttempts - 1)] /\ sends \in [Questions -> Nat]
    /\ inbox \in [Questions -> SUBSET (Options \union {"index"})]
    /\ written \in [Questions -> Nat] /\ result \in [Questions -> Options \union {"index", "none"}]
    /\ call \in [Requests -> {"none", "sending", "shown", "held", "answered", "cut"}]
    /\ decision \in [Requests -> {"none", "approve", "deny"}]
    /\ expiring \subseteq Requests /\ stale \subseteq Requests /\ restarts \in 0..MaxRestarts

\* An approval is an admin's click on Approve, an answer somebody's click on
\* that option, however clicks overtake rows, timers and restarts.
OnlyWhatWasSaid ==
    /\ \A r \in Requests : decision[r] = "approve" => \E u \in Admins : <<r, u, "approve">> \in said
    /\ \A q \in Questions, o \in Options : result[q] = o => \E u \in Users : <<q, u, o>> \in said

\* A row that stands for a request has exactly what will end it: its resolver
\* and timer, an expiry under way, or the startup sweep, which never takes the
\* row of a request that is held.
RowsHaveAnEnd ==
    \A r \in Requests :
        /\ row[r] = "pending" => call[r] = "held" \/ r \in stale
        /\ row[r] = "expired" => r \in expiring \union stale
        /\ call[r] = "held" => row[r] = "pending" /\ r \notin stale

\* Two clicks on a question make one answer; only a card that was sent again
\* can be answered again.
OneAnswerPerCard == \A q \in Questions : written[q] <= sends[q]

\* What clicks bring about is what was clicked, once, and in time.
ClicksCount == OnlyWhatWasSaid /\ RowsHaveAnEnd /\ OneAnswerPerCard

\* Every held request gets its decision, unless the host restarts, every row of
\* one goes, and every call of the tool returns.
CardsEnd ==
    /\ \A r \in Requests :
        /\ call[r] \in {"sending", "shown", "held"} ~> call[r] \in {"answered", "cut"}
        /\ row[r] # "none" ~> row[r] = "none"
    /\ \A q \in Questions : tool[q] = "polling" ~> tool[q] # "polling"
=============================================================================
