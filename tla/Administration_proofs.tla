----------------------- MODULE Administration_proofs ------------------------
(***************************************************************************)
(* Proofs about what an admin decides and what the decisions change.       *)
(*                                                                         *)
(* Approvals, for any sets of requests and users and any number of clicks  *)
(* and restarts: an approval's outcome is what an authorized user said and *)
(* is told to the agent. The invariant says what the tasks in flight, the  *)
(* holds and the sweep's list go back to: a click on the live row.         *)
(*                                                                         *)
(* Configuration, for any sessions, providers, requests and bounds: a      *)
(* session has one container, current for what it is told; migrations come *)
(* one at a time and end once. The invariant says of each container how it *)
(* agrees with its inbox and with container.json (Fit), and that every     *)
(* version still to come is one a pending migration has been counted for.  *)
(***************************************************************************)
EXTENDS Approvals, Configuration, FiniteSetTheorems, TLAPS

(* APPROVALS *)

\* An approval under way, and an execution, go back to an approve click.
GrantShape ==
    \A r \in Requests :
        /\ consulting[r] > 0 \/ handling[r] > 0 \/ runs[r] > 0 => Said(r, {"approve"})
        /\ handling[r] > 0 => runs[r] > 0

\* A prompt under way, a hold, an entry of the sweep's list and a rejection go
\* back to a reject click.
HoldShape ==
    \A r \in Requests :
        /\ (\E u \in Users : prompting[r][u] > 0) => Said(r, {"reject", "reject_with_reason"})
        /\ row[r] = "awaiting_reason" => Said(r, {"reject", "reject_with_reason"})
        /\ r \in ghosts => Said(r, {"reject", "reject_with_reason"})
        /\ notes[r] > 0 => Said(r, {"reject", "reject_with_reason"})

\* Rows and clicks belong to requests that were made; a rejected one has no row.
RowShape ==
    \A r \in Requests :
        /\ Live(r) \/ said[r] # {} => asked[r] # "no"
        /\ notes[r] > 0 => ~Live(r) /\ asked[r] # "no"

\* The inductive invariant.
IInv == TypeOK /\ GrantShape /\ HoldShape /\ RowShape /\ SettledIsTold

\* Nothing was asked or said yet.
LEMMA InitIInv == Init => IInv
<1> SUFFICES ASSUME Init PROVE IInv
  OBVIOUS
<1>1. TypeOK
  BY ApprovalsAssumption DEF Init, TypeOK, NoTasks, NoPrompts
<1>2. GrantShape /\ HoldShape /\ RowShape /\ SettledIsTold
  BY DEF Init, GrantShape, HoldShape, RowShape, SettledIsTold, Live, NoTasks, NoPrompts
<1> QED BY <1>1, <1>2 DEF IInv

\* Every step keeps the invariant: clicks are only added, and what a task needs
\* of them was there when it started.
LEMMA StepIInv == ASSUME IInv, [Next]_vars PROVE IInv'
<1> USE ApprovalsAssumption DEF IInv, GrantShape, HoldShape, RowShape, Said, Live

<1>1. ASSUME NEW r \in Requests, NEW u \in Users, NEW option \in Options, ClickIgnored(r, u, option) PROVE IInv'
  <2>1. TypeOK'
    BY <1>1 DEF
       ClickIgnored, Clicked, CanClick, TypeOK, Options, countVars, holdVars, taskVars,
       requestVars, outcomeVars
  <2>2. \A q \in Requests : said[q] \subseteq said'[q]
    BY <1>1 DEF ClickIgnored, Clicked, CanClick, TypeOK, countVars
  <2>3. GrantShape'
    BY <1>1, <2>2 DEF
       ClickIgnored, Clicked, CanClick, TypeOK, countVars, holdVars, taskVars, requestVars,
       outcomeVars
  <2>4. HoldShape'
    BY <1>1, <2>2 DEF
       ClickIgnored, Clicked, CanClick, TypeOK, countVars, holdVars, taskVars, requestVars,
       outcomeVars
  <2>5. RowShape' /\ SettledIsTold'
    BY <1>1, <2>2 DEF
       ClickIgnored, Clicked, CanClick, TypeOK, SettledIsTold, countVars, holdVars, taskVars,
       requestVars, outcomeVars
  <2> QED BY <2>1, <2>3, <2>4, <2>5

<1>2. ASSUME NEW r \in Requests, NEW u \in Users, ClickApprove(r, u) PROVE IInv'
  <2>1. TypeOK'
    BY <1>2 DEF
       ClickApprove, Authorized, Clicked, CanClick, TypeOK, Options, countVars, holdVars,
       taskVars, requestVars, outcomeVars
  <2>2. \A q \in Requests : said[q] \subseteq said'[q]
    BY <1>2 DEF ClickApprove, Authorized, Clicked, CanClick, TypeOK, countVars
  <2>3. GrantShape'
    BY <1>2, <2>2 DEF
       ClickApprove, Authorized, Clicked, CanClick, TypeOK, countVars, holdVars, taskVars,
       requestVars, outcomeVars
  <2>4. HoldShape'
    BY <1>2, <2>2 DEF
       ClickApprove, Authorized, Clicked, CanClick, TypeOK, countVars, holdVars, taskVars,
       requestVars, outcomeVars
  <2>5. RowShape' /\ SettledIsTold'
    BY <1>2, <2>2 DEF
       ClickApprove, Authorized, Clicked, CanClick, TypeOK, SettledIsTold, countVars, holdVars,
       taskVars, requestVars, outcomeVars
  <2> QED BY <2>1, <2>3, <2>4, <2>5

<1>3. ASSUME NEW r \in Requests, NEW u \in Users, ClickReject(r, u) PROVE IInv'
  <2>1. TypeOK'
    BY <1>3 DEF
       ClickReject, Authorized, Clicked, CanClick, FinalizeReject, DeleteRow, TypeOK, Options,
       countVars, holdVars, taskVars, requestVars, outcomeVars
  <2>2. \A q \in Requests : said[q] \subseteq said'[q]
    BY <1>3 DEF ClickReject, Authorized, Clicked, CanClick, FinalizeReject, DeleteRow, TypeOK, countVars
  <2>3. GrantShape'
    BY <1>3, <2>2 DEF
       ClickReject, Authorized, Clicked, CanClick, FinalizeReject, DeleteRow, TypeOK,
       countVars, holdVars, taskVars, requestVars, outcomeVars
  <2>4. HoldShape'
    BY <1>3, <2>2 DEF
       ClickReject, Authorized, Clicked, CanClick, FinalizeReject, DeleteRow, TypeOK,
       countVars, holdVars, taskVars, requestVars, outcomeVars
  <2>5. RowShape' /\ SettledIsTold'
    BY <1>3, <2>2 DEF
       ClickReject, Authorized, Clicked, CanClick, FinalizeReject, DeleteRow, TypeOK,
       SettledIsTold, countVars, holdVars, taskVars, requestVars, outcomeVars
  <2> QED BY <2>1, <2>3, <2>4, <2>5

<1>4. ASSUME NEW r \in Requests, NEW u \in Users, ClickReason(r, u) PROVE IInv'
  <2>1. TypeOK'
    BY <1>4 DEF
       ClickReason, Authorized, Clicked, CanClick, TypeOK, Options, countVars, holdVars,
       taskVars, requestVars, outcomeVars
  <2>2. \A q \in Requests : said[q] \subseteq said'[q]
    BY <1>4 DEF ClickReason, Authorized, Clicked, CanClick, TypeOK, countVars
  <2>3. GrantShape'
    BY <1>4, <2>2 DEF
       ClickReason, Authorized, Clicked, CanClick, TypeOK, countVars, holdVars, taskVars,
       requestVars, outcomeVars
  <2>4. HoldShape'
    BY <1>4, <2>2 DEF
       ClickReason, Authorized, Clicked, CanClick, TypeOK, countVars, holdVars, taskVars,
       requestVars, outcomeVars
  <2>5. RowShape' /\ SettledIsTold'
    BY <1>4, <2>2 DEF
       ClickReason, Authorized, Clicked, CanClick, TypeOK, SettledIsTold, countVars, holdVars,
       taskVars, requestVars, outcomeVars
  <2> QED BY <2>1, <2>3, <2>4, <2>5

<1>5. ASSUME NEW r \in Requests, NEW u \in Users, PromptDelivered(r, u) PROVE IInv'
  <2>1. TypeOK'
    BY <1>5 DEF PromptDelivered, TypeOK, Options, countVars, holdVars, taskVars, requestVars, outcomeVars
  <2>2. \A q \in Requests : said[q] \subseteq said'[q]
    BY <1>5 DEF PromptDelivered, TypeOK, countVars
  <2>3. GrantShape'
    BY <1>5, <2>2 DEF PromptDelivered, TypeOK, countVars, holdVars, taskVars, requestVars, outcomeVars
  <2>4. HoldShape'
    BY <1>5, <2>2 DEF PromptDelivered, TypeOK, countVars, holdVars, taskVars, requestVars, outcomeVars
  <2>5. RowShape' /\ SettledIsTold'
    BY <1>5, <2>2 DEF
       PromptDelivered, TypeOK, SettledIsTold, countVars, holdVars, taskVars, requestVars,
       outcomeVars
  <2> QED BY <2>1, <2>3, <2>4, <2>5

<1>6. ASSUME NEW r \in Requests, NEW u \in Users, PromptFails(r, u) PROVE IInv'
  <2>1. TypeOK'
    BY <1>6 DEF
       PromptFails, FinalizeReject, DeleteRow, TypeOK, Options, countVars, holdVars, taskVars,
       requestVars, outcomeVars
  <2>2. \A q \in Requests : said[q] \subseteq said'[q]
    BY <1>6 DEF PromptFails, FinalizeReject, DeleteRow, TypeOK, countVars
  <2>3. GrantShape'
    BY <1>6, <2>2 DEF
       PromptFails, FinalizeReject, DeleteRow, TypeOK, countVars, holdVars, taskVars,
       requestVars, outcomeVars
  <2>4. HoldShape'
    BY <1>6, <2>2 DEF
       PromptFails, FinalizeReject, DeleteRow, TypeOK, countVars, holdVars, taskVars,
       requestVars, outcomeVars
  <2>5. asked[r] # "no" /\ asked' = asked /\ said' = said
    BY <1>6 DEF PromptFails, TypeOK, countVars, holdVars, taskVars, requestVars, outcomeVars
  <2>6. row' = [row EXCEPT ![r] = "none"] /\ notes' = [notes EXCEPT ![r] = @ + 1]
    BY <1>6 DEF PromptFails, FinalizeReject, DeleteRow
  <2>7. RowShape'
    BY <2>5, <2>6 DEF TypeOK
  <2>8. SettledIsTold'
    BY <1>6, <2>5, <2>6 DEF PromptFails, TypeOK, SettledIsTold
  <2> QED BY <2>1, <2>3, <2>4, <2>7, <2>8

<1>7. ASSUME NEW r \in Requests, Ask(r) PROVE IInv'
  <2>1. TypeOK'
    BY <1>7 DEF Ask, TypeOK, Options, countVars, holdVars, taskVars, requestVars, outcomeVars
  <2>2. \A q \in Requests : said[q] \subseteq said'[q]
    BY <1>7 DEF Ask, TypeOK, countVars
  <2>3. GrantShape'
    BY <1>7, <2>2 DEF Ask, TypeOK, countVars, holdVars, taskVars, requestVars, outcomeVars
  <2>4. HoldShape'
    BY <1>7, <2>2 DEF Ask, TypeOK, countVars, holdVars, taskVars, requestVars, outcomeVars
  <2>5. RowShape' /\ SettledIsTold'
    BY <1>7, <2>2 DEF Ask, TypeOK, SettledIsTold, countVars, holdVars, taskVars, requestVars, outcomeVars
  <2> QED BY <2>1, <2>3, <2>4, <2>5

<1>8. ASSUME NEW r \in Requests, CardShown(r) PROVE IInv'
  <2>1. TypeOK'
    BY <1>8 DEF CardShown, TypeOK, Options, countVars, holdVars, taskVars, requestVars, outcomeVars
  <2>2. \A q \in Requests : said[q] \subseteq said'[q]
    BY <1>8 DEF CardShown, TypeOK, countVars
  <2>3. GrantShape'
    BY <1>8, <2>2 DEF CardShown, TypeOK, countVars, holdVars, taskVars, requestVars, outcomeVars
  <2>4. HoldShape'
    BY <1>8, <2>2 DEF CardShown, TypeOK, countVars, holdVars, taskVars, requestVars, outcomeVars
  <2>5. RowShape' /\ SettledIsTold'
    BY <1>8, <2>2 DEF
       CardShown, TypeOK, SettledIsTold, countVars, holdVars, taskVars, requestVars, outcomeVars
  <2> QED BY <2>1, <2>3, <2>4, <2>5

<1>9. ASSUME NEW r \in Requests, CardDelivered(r) PROVE IInv'
  <2>1. TypeOK'
    BY <1>9 DEF CardDelivered, TypeOK, Options, countVars, holdVars, taskVars, requestVars, outcomeVars
  <2>2. \A q \in Requests : said[q] \subseteq said'[q]
    BY <1>9 DEF CardDelivered, TypeOK, countVars
  <2>3. GrantShape'
    BY <1>9, <2>2 DEF CardDelivered, TypeOK, countVars, holdVars, taskVars, requestVars, outcomeVars
  <2>4. HoldShape'
    BY <1>9, <2>2 DEF CardDelivered, TypeOK, countVars, holdVars, taskVars, requestVars, outcomeVars
  <2>5. RowShape' /\ SettledIsTold'
    BY <1>9, <2>2 DEF
       CardDelivered, TypeOK, SettledIsTold, countVars, holdVars, taskVars, requestVars,
       outcomeVars
  <2> QED BY <2>1, <2>3, <2>4, <2>5

<1>10. ASSUME NEW r \in Requests, CardFails(r) PROVE IInv'
  <2>1. TypeOK'
    BY <1>10 DEF
       CardFails, DeleteRow, TypeOK, Options, countVars, holdVars, taskVars, requestVars,
       outcomeVars
  <2>2. \A q \in Requests : said[q] \subseteq said'[q]
    BY <1>10 DEF CardFails, DeleteRow, TypeOK, countVars
  <2>3. GrantShape'
    BY <1>10, <2>2 DEF CardFails, DeleteRow, TypeOK, countVars, holdVars, taskVars, requestVars, outcomeVars
  <2>4. HoldShape'
    BY <1>10, <2>2 DEF CardFails, DeleteRow, TypeOK, countVars, holdVars, taskVars, requestVars, outcomeVars
  <2>5. RowShape' /\ SettledIsTold'
    BY <1>10, <2>2 DEF
       CardFails, DeleteRow, TypeOK, SettledIsTold, countVars, holdVars, taskVars, requestVars,
       outcomeVars
  <2> QED BY <2>1, <2>3, <2>4, <2>5

<1>11. ASSUME NEW r \in Requests, ReplayAllowed(r) PROVE IInv'
  <2>1. TypeOK'
    BY <1>11 DEF ReplayAllowed, TypeOK, Options, countVars, holdVars, taskVars, requestVars, outcomeVars
  <2>2. \A q \in Requests : said[q] \subseteq said'[q]
    BY <1>11 DEF ReplayAllowed, TypeOK, countVars
  <2>3. GrantShape'
    <3>1. said' = said /\ Said(r, {"approve"})
      BY <1>11 DEF ReplayAllowed, TypeOK, countVars
    <3>2. consulting' = [consulting EXCEPT ![r] = @ - 1] /\ handling' = [handling EXCEPT ![r] = @ + 1]
          /\ runs' = [runs EXCEPT ![r] = @ + 1]
      BY <1>11 DEF ReplayAllowed
    <3>3. runs'[r] > 0
      BY <3>2 DEF TypeOK
    <3>4. \A q \in Requests \ {r} : consulting'[q] = consulting[q] /\ handling'[q] = handling[q] /\ runs'[q] = runs[q]
      BY <3>2 DEF TypeOK
    <3> QED BY <3>1, <3>3, <3>4
  <2>4. HoldShape'
    BY <1>11, <2>2 DEF ReplayAllowed, TypeOK, countVars, holdVars, taskVars, requestVars, outcomeVars
  <2>5. RowShape' /\ SettledIsTold'
    BY <1>11, <2>2 DEF
       ReplayAllowed, TypeOK, SettledIsTold, countVars, holdVars, taskVars, requestVars,
       outcomeVars
  <2> QED BY <2>1, <2>3, <2>4, <2>5

<1>12. ASSUME NEW r \in Requests, ReplayDenied(r) PROVE IInv'
  <2>1. TypeOK'
    BY <1>12 DEF
       ReplayDenied, DeleteRow, TypeOK, Options, countVars, holdVars, taskVars, requestVars,
       outcomeVars
  <2>2. \A q \in Requests : said[q] \subseteq said'[q]
    BY <1>12 DEF ReplayDenied, DeleteRow, TypeOK, countVars
  <2>3. GrantShape'
    BY <1>12, <2>2 DEF
       ReplayDenied, DeleteRow, TypeOK, countVars, holdVars, taskVars, requestVars, outcomeVars
  <2>4. HoldShape'
    BY <1>12, <2>2 DEF
       ReplayDenied, DeleteRow, TypeOK, countVars, holdVars, taskVars, requestVars, outcomeVars
  <2>5. RowShape' /\ SettledIsTold'
    BY <1>12, <2>2 DEF
       ReplayDenied, DeleteRow, TypeOK, SettledIsTold, countVars, holdVars, taskVars,
       requestVars, outcomeVars
  <2> QED BY <2>1, <2>3, <2>4, <2>5

<1>13. ASSUME NEW r \in Requests, HandlerEnds(r) PROVE IInv'
  <2>1. TypeOK'
    BY <1>13 DEF
       HandlerEnds, DeleteRow, TypeOK, Options, countVars, holdVars, taskVars, requestVars,
       outcomeVars
  <2>2. \A q \in Requests : said[q] \subseteq said'[q]
    BY <1>13 DEF HandlerEnds, DeleteRow, TypeOK, countVars
  <2>3. GrantShape'
    BY <1>13, <2>2 DEF HandlerEnds, DeleteRow, TypeOK, countVars, holdVars, taskVars, requestVars, outcomeVars
  <2>4. HoldShape'
    BY <1>13, <2>2 DEF HandlerEnds, DeleteRow, TypeOK, countVars, holdVars, taskVars, requestVars, outcomeVars
  <2>5. RowShape' /\ SettledIsTold'
    BY <1>13, <2>2 DEF
       HandlerEnds, DeleteRow, TypeOK, SettledIsTold, countVars, holdVars, taskVars,
       requestVars, outcomeVars
  <2> QED BY <2>1, <2>3, <2>4, <2>5

<1>14. ASSUME NEW r \in Requests, Lapse(r) PROVE IInv'
  <2>1. TypeOK'
    BY <1>14 DEF Lapse, TypeOK, Options, countVars, holdVars, taskVars, requestVars, outcomeVars
  <2>2. \A q \in Requests : said[q] \subseteq said'[q]
    BY <1>14 DEF Lapse, TypeOK, countVars
  <2>3. GrantShape'
    BY <1>14, <2>2 DEF Lapse, TypeOK, countVars, holdVars, taskVars, requestVars, outcomeVars
  <2>4. HoldShape'
    BY <1>14, <2>2 DEF Lapse, TypeOK, countVars, holdVars, taskVars, requestVars, outcomeVars
  <2>5. RowShape' /\ SettledIsTold'
    BY <1>14, <2>2 DEF Lapse, TypeOK, SettledIsTold, countVars, holdVars, taskVars, requestVars, outcomeVars
  <2> QED BY <2>1, <2>3, <2>4, <2>5

<1>15. ASSUME NEW r \in Requests, SweepReads(r) PROVE IInv'
  <2>1. TypeOK'
    BY <1>15 DEF
       SweepReads, Expired, FinalizeReject, DeleteRow, TypeOK, Options, countVars, holdVars,
       taskVars, requestVars, outcomeVars
  <2>2. \A q \in Requests : said[q] \subseteq said'[q]
    BY <1>15 DEF SweepReads, Expired, FinalizeReject, DeleteRow, TypeOK, countVars
  <2>3. GrantShape'
    BY <1>15, <2>2 DEF
       SweepReads, Expired, FinalizeReject, DeleteRow, TypeOK, countVars, holdVars, taskVars,
       requestVars, outcomeVars
  <2>4. HoldShape'
    BY <1>15, <2>2 DEF
       SweepReads, Expired, FinalizeReject, DeleteRow, TypeOK, countVars, holdVars, taskVars,
       requestVars, outcomeVars
  <2>5. RowShape' /\ SettledIsTold'
    BY <1>15, <2>2 DEF
       SweepReads, Expired, FinalizeReject, DeleteRow, TypeOK, SettledIsTold, countVars,
       holdVars, taskVars, requestVars, outcomeVars
  <2> QED BY <2>1, <2>3, <2>4, <2>5

<1>16. ASSUME NEW r \in Requests, SweepNext(r) PROVE IInv'
  <2>1. TypeOK'
    BY <1>16 DEF
       SweepNext, FinalizeReject, DeleteRow, TypeOK, Options, countVars, holdVars, taskVars,
       requestVars, outcomeVars
  <2>2. \A q \in Requests : said[q] \subseteq said'[q]
    BY <1>16 DEF SweepNext, FinalizeReject, DeleteRow, TypeOK, countVars
  <2>3. GrantShape'
    BY <1>16, <2>2 DEF
       SweepNext, FinalizeReject, DeleteRow, TypeOK, countVars, holdVars, taskVars,
       requestVars, outcomeVars
  <2>4. HoldShape'
    BY <1>16, <2>2 DEF
       SweepNext, FinalizeReject, DeleteRow, TypeOK, countVars, holdVars, taskVars,
       requestVars, outcomeVars
  <2>5. asked[r] # "no" /\ asked' = asked /\ said' = said
    BY <1>16 DEF SweepNext, TypeOK, countVars, holdVars, taskVars, requestVars, outcomeVars
  <2>6. row' = [row EXCEPT ![r] = "none"] /\ notes' = [notes EXCEPT ![r] = @ + 1]
    BY <1>16 DEF SweepNext, FinalizeReject, DeleteRow
  <2>7. RowShape'
    BY <2>5, <2>6 DEF TypeOK
  <2>8. SettledIsTold'
    BY <1>16, <2>5, <2>6 DEF SweepNext, TypeOK, SettledIsTold
  <2> QED BY <2>1, <2>3, <2>4, <2>7, <2>8

<1>17. ASSUME NEW u \in Users, Reply(u) PROVE IInv'
  <2> DEFINE r == armed[u]
  <2>1. r \in Requests /\ said' = said /\ asked' = asked
    BY <1>17 DEF Reply, TypeOK, countVars
  <2>2. CASE row[r] = "awaiting_reason"
    <3>1. row' = [row EXCEPT ![r] = "none"] /\ notes' = [notes EXCEPT ![r] = @ + 1]
      BY <1>17, <2>2 DEF Reply, FinalizeReject, DeleteRow
    <3>2. TypeOK'
      BY <1>17, <2>1, <3>1 DEF Reply, TypeOK, countVars, holdVars, taskVars, requestVars, outcomeVars
    <3>3. GrantShape' /\ HoldShape'
      BY <1>17, <2>1, <2>2, <3>1 DEF Reply, TypeOK, countVars, holdVars, taskVars, requestVars, outcomeVars
    <3>4. RowShape'
      BY <1>17, <2>1, <2>2, <3>1 DEF Reply, TypeOK
    <3>5. SettledIsTold'
      BY <1>17, <2>1, <3>1 DEF Reply, TypeOK, SettledIsTold
    <3> QED BY <3>2, <3>3, <3>4, <3>5
  <2>3. CASE row[r] # "awaiting_reason"
    <3>1. row' = row /\ notes' = notes
      BY <1>17, <2>3 DEF Reply
    <3>2. TypeOK'
      BY <1>17, <2>1, <3>1 DEF Reply, TypeOK, countVars, holdVars, taskVars, requestVars, outcomeVars
    <3>3. GrantShape' /\ HoldShape' /\ RowShape' /\ SettledIsTold'
      BY <1>17, <2>1, <3>1 DEF
         Reply, TypeOK, SettledIsTold, countVars, holdVars, taskVars, requestVars, outcomeVars
    <3> QED BY <3>2, <3>3
  <2> QED BY <2>2, <2>3

<1>18. CASE HostCrash
  <2>1. TypeOK'
    BY <1>18 DEF
       HostCrash, NoTasks, NoPrompts, TypeOK, countVars, holdVars, taskVars, requestVars,
       outcomeVars
  <2>2. \A r \in Requests : consulting'[r] = 0 /\ handling'[r] = 0 /\ \A u \in Users : prompting'[r][u] = 0
    BY <1>18 DEF HostCrash, NoTasks, NoPrompts
  <2>3. ghosts' = {} /\ said' = said /\ row' = row /\ runs' = runs /\ notes' = notes /\ told' = told
    BY <1>18 DEF HostCrash, outcomeVars
  <2>4. \A r \in Requests : asked[r] = "no" <=> asked'[r] = "no"
    BY <1>18 DEF HostCrash, TypeOK
  <2>5. GrantShape'
    <3>1. ~(0 > 0)
      BY SMT
    <3>2. \A r \in Requests : runs[r] > 0 => Said(r, {"approve"})
      OBVIOUS
    <3> QED BY <2>2, <2>3, <3>1, <3>2, Zenon
  <2>6. HoldShape'
    <3>1. ~(0 > 0)
      BY SMT
    <3>2. \A r \in Requests : ~\E u \in Users : prompting'[r][u] > 0
      BY <2>2, <3>1, Zenon
    <3>3. \A r \in Requests : r \notin ghosts'
      BY <2>3
    <3>4. \A r \in Requests :
              /\ row[r] = "awaiting_reason" => Said(r, {"reject", "reject_with_reason"})
              /\ notes[r] > 0 => Said(r, {"reject", "reject_with_reason"})
      OBVIOUS
    <3> QED BY <2>3, <3>2, <3>3, <3>4, Zenon
  <2>7. RowShape'
    BY <2>3, <2>4
  <2>8. SettledIsTold'
    BY <2>3, <2>4 DEF SettledIsTold
  <2> QED BY <2>1, <2>5, <2>6, <2>7, <2>8

<1>19. CASE UNCHANGED vars
  <2>1. TypeOK'
    BY <1>19 DEF vars, TypeOK, countVars, holdVars, taskVars, requestVars, outcomeVars
  <2>2. GrantShape' /\ HoldShape' /\ RowShape' /\ SettledIsTold'
    BY <1>19 DEF vars, SettledIsTold, countVars, holdVars, taskVars, requestVars, outcomeVars
  <2> QED BY <2>1, <2>2

<1>20. ASSUME NEW r \in Requests, CannotAsk(r) PROVE IInv'
  <2>1. TypeOK'
    BY <1>20 DEF CannotAsk, TypeOK, countVars, holdVars, taskVars
  <2>2. GrantShape' /\ HoldShape'
    BY <1>20 DEF CannotAsk, TypeOK, countVars, holdVars, taskVars
  <2>3. RowShape' /\ SettledIsTold'
    BY <1>20 DEF CannotAsk, TypeOK, SettledIsTold, countVars
  <2> QED BY <2>1, <2>2, <2>3

<1> QED
  BY <1>1, <1>2, <1>3, <1>4, <1>5, <1>6, <1>7, <1>8, <1>9, <1>10, <1>11, <1>12,
     <1>13, <1>14, <1>15, <1>16, <1>17, <1>18, <1>19, <1>20
  DEF Next, Clicking, Prompted

\* The invariant holds in every reachable state.
LEMMA Invariance == Spec => []IInv
<1>1. IInv /\ [Next]_vars => IInv'
  BY StepIInv
<1> QED BY InitIInv, <1>1, PTL DEF Spec

\* Rows, tasks and holds keep their types.
THEOREM ApprovalTypes == Spec => []TypeOK
<1>1. IInv => TypeOK
  BY DEF IInv
<1> QED BY Invariance, <1>1, PTL

\* No action runs without an approve click, and no rejection is written without
\* a reject click, of a user who may resolve the request.
THEOREM OutcomeSaid == Spec => []OutcomeWasSaid
<1>1. IInv => OutcomeWasSaid
  BY DEF IInv, GrantShape, HoldShape, OutcomeWasSaid
<1> QED BY Invariance, <1>1, PTL

\* A request whose row is gone had an outcome its agent sees.
THEOREM SettledTold == Spec => []SettledIsTold
<1>1. IInv => SettledIsTold
  BY DEF IInv
<1> QED BY Invariance, <1>1, PTL

\* A rejected request has no row, no step gives it one, and the guard lets no
\* replay run without one.
THEOREM RejectionFinal == Spec => RejectionIsFinal
<1> DEFINE A == \A r \in Requests : notes[r] > 0 => runs'[r] = runs[r] /\ row'[r] = "none"
<1>1. ASSUME IInv, [Next]_vars, NEW r \in Requests, notes[r] > 0
      PROVE runs'[r] = runs[r] /\ row'[r] = "none"
  <2>1. row[r] = "none" /\ asked[r] # "no"
    BY <1>1 DEF IInv, RowShape, Live
  <2>2. runs'[r] = runs[r]
    BY <1>1, <2>1 DEF
       IInv, TypeOK, Next, vars, requestVars, taskVars, holdVars, countVars, outcomeVars, Live,
       Clicking, Prompted, CannotAsk, Ask, CardShown, CardDelivered, CardFails, ClickIgnored,
       ClickApprove, ClickReject, ClickReason, ReplayAllowed, ReplayDenied, HandlerEnds,
       PromptDelivered, PromptFails, Reply, Lapse, SweepReads, SweepNext, HostCrash
  <2>3. row'[r] = "none"
    BY <1>1, <2>1 DEF
       IInv, TypeOK, Next, vars, requestVars, taskVars, holdVars, countVars, outcomeVars, Live,
       Clicking, Prompted, CannotAsk, Ask, CardShown, CardDelivered, CardFails, ClickIgnored,
       ClickApprove, ClickReject, ClickReason, ReplayAllowed, ReplayDenied, HandlerEnds,
       PromptDelivered, PromptFails, Reply, Lapse, SweepReads, SweepNext, HostCrash,
       FinalizeReject, DeleteRow
  <2> QED BY <2>2, <2>3
<1>2. IInv /\ [Next]_vars => [A]_vars
  BY <1>1
<1>3. RejectionIsFinal <=> [][A]_vars
  BY PTL DEF RejectionIsFinal
<1> QED BY Invariance, <1>2, <1>3, PTL DEF Spec

-----------------------------------------------------------------------------
(* CONFIGURATION *)

(* The containers of a group and what they are told *)

\* The rows that speak of a configuration, and rows that speak of none after n.
Told(r) == r[1] \in {"handoff", "restart"}
UpTo(rows, n) == \A r \in rows : Told(r) => r[2] <= n

\* A container record that agrees with its inbox and with container.json of version f:
\* it is the only one, it was made from what its inbox speaks of, and only a runner that
\* polled holds rows.
Fit(c, rows, f) ==
    /\ c.spawning + c.live <= 1 /\ (c.live > 0 => c.active) /\ (c.active => c.spawning = 0)
    /\ ~c.active => ~c.polled
    /\ c.spawning > 0 \/ c.live > 0 => c.spawned <= f /\ UpTo(rows, c.spawned)
    /\ c.claims # {} => c.live > 0 /\ c.polled
    /\ c.live > 0 /\ c.polled => c.spawned <= c.runner
    /\ UpTo(c.claims, c.spawned)

ContainersFit ==
    /\ cont \in [Sessions -> Containers] /\ inbox \in [Sessions -> SUBSET Rows]
    /\ version \in Versions /\ file \in 0..version
    /\ \A s \in Sessions : UpTo(inbox[s], version) /\ Fit(cont[s], inbox[s], file)

\* Every change of the version is one the bound counts; a migration that waits for its
\* handoff has its own still to come.
OnePending == \A m, n \in Migrations : Active(m) /\ Active(n) => m = n

Counted ==
    /\ version <= changes /\ changes <= MaxChanges
    /\ \A m \in Migrations : mig[m].state = "requesting_handoff" => version < changes

States == Pending \union {"none", "switched", "failed", "aborted"}

MigrationsFit ==
    /\ provider \in Providers /\ version \in Versions /\ handoff \in BOOLEAN /\ markers \in Nat
    /\ mig \in [Migrations -> [state : States, to : Providers, made : Versions]]
    /\ changes \in Nat /\ faults \in Nat
    /\ OnePending /\ Counted

BuildsFit ==
    /\ listed \subseteq Installs /\ image \subseteq listed /\ tagged \in BOOLEAN
    /\ dockerfile \in BOOLEAN /\ content \in [Installs -> SUBSET listed]
    /\ job \in [Installs \union Servers -> {"approved", "building", "done", "failed", "lost"}]

ConfInv == ContainersFit /\ MigrationsFit /\ BuildsFit

\* A version is a natural number.
LEMMA VersionsAreNumbers == Versions \subseteq Nat /\ Migrations \subseteq Nat
BY ConfigurationAssumption DEF Versions, Migrations

\* Rows that speak of no version after n speak of none after a later one.
LEMMA UpToLater ==
    ASSUME NEW rows \in SUBSET Rows, NEW n \in Nat, NEW k \in Nat, n <= k, UpTo(rows, n)
    PROVE  UpTo(rows, k)
<1> SUFFICES ASSUME NEW r \in rows, Told(r) PROVE r[2] <= k
  BY DEF UpTo
<1>1. r[2] \in Nat
  BY VersionsAreNumbers DEF Rows, OnWake
<1> QED BY <1>1 DEF UpTo

\* No container at all agrees with any inbox.
LEMMA OffFits ==
    /\ Off \in Containers
    /\ \A rows, f : Fit(Off, rows, f)
<1>1. Off \in Containers
  BY ConfigurationAssumption DEF Off, Containers, Versions
<1>2. ASSUME NEW rows, NEW f PROVE Fit(Off, rows, f)
  BY DEF Off, Fit, UpTo
<1> QED BY <1>1, <1>2

\* A wake, from the version current now.
LEMMA WokenFits ==
    ASSUME NEW c \in Containers, NEW rows \in SUBSET Rows, NEW n \in Versions, NEW f \in 0..n,
           UpTo(rows, n), Fit(c, rows, f)
    PROVE  /\ Woken(c, n) \in Containers
           /\ Fit(Woken(c, n), rows, IF Idle(c) THEN n ELSE f)
<1>1. CASE Idle(c)
  <2> DEFINE w == [c EXCEPT !.spawning = @ + 1, !.spawned = n]
  <2>1. Woken(c, n) = w
    BY <1>1 DEF Woken
  <2>0. c.spawning = 0 /\ c.live = 0 /\ ~c.active /\ ~c.polled /\ c.claims = {}
    BY <1>1 DEF Idle, Fit, Containers
  <2>a. w \in Containers
    <3> DEFINE v == [c EXCEPT !.spawning = 1]
    <3>1. v \in Containers
      BY DEF Containers
    <3>2. [v EXCEPT !.spawned = n] \in Containers
      BY <3>1 DEF Containers
    <3>3. c.spawning + 1 = 1
      BY <2>0
    <3> QED BY <3>2, <3>3
  <2>b. w.spawning = 1 /\ w.live = 0 /\ w.spawned = n
    BY <2>0 DEF Containers
  <2>c. ~w.active /\ ~w.polled
    BY <2>0 DEF Containers
  <2>d. w.claims = {}
    BY <2>0 DEF Containers
  <2>2. /\ w \in Containers /\ w.spawning = 1 /\ w.live = 0 /\ w.spawned = n /\ ~w.active
        /\ w.claims = {} /\ ~w.polled
    BY <2>a, <2>b, <2>c, <2>d
  <2>3. UpTo(rows, w.spawned) /\ UpTo(w.claims, w.spawned) /\ w.spawned <= n
    BY <2>2, VersionsAreNumbers DEF UpTo
  <2>4. Fit(w, rows, n)
    BY <2>2, <2>3 DEF Fit
  <2> QED BY <1>1, <2>1, <2>2, <2>4
<1>2. CASE ~Idle(c)
  BY <1>2 DEF Woken
<1> QED BY <1>1, <1>2

\* A running container that is killed agrees with whatever is written for its successor.
LEMMA KilledFits ==
    ASSUME NEW c \in Containers, NEW rows, NEW more, NEW f, NEW again \in BOOLEAN,
           Fit(c, rows, f), c.active
    PROVE  Killed(c, again) \in Containers /\ Fit(Killed(c, again), more, f)
<1> DEFINE k == [c EXCEPT !.live = 0, !.claims = {}, !.respawn = @ \/ again]
<1>1. Killed(c, again) = k
  BY DEF Killed
<1>2. k \in Containers /\ k.live = 0 /\ k.claims = {} /\ k.active /\ k.spawning = c.spawning
  BY DEF Containers
<1>3. Fit(k, more, f)
  BY <1>2 DEF Fit, UpTo, Containers
<1> QED BY <1>1, <1>2, <1>3

\* A container that is not restarted agrees with an inbox no row of a version was added
\* to, and with a container.json written since.
LEMMA FitsOn ==
    ASSUME NEW c \in Containers, NEW rows, NEW more, NEW f \in Nat, NEW g \in Nat, f <= g,
           Fit(c, rows, f), \A r \in more : Told(r) => r \in rows
    PROVE  Fit(c, more, g)
<1>1. c.spawned \in Nat
  BY VersionsAreNumbers DEF Containers
<1> QED BY <1>1 DEF Fit, UpTo

\* A step that concerns one session.
LEMMA OneSession ==
    ASSUME ContainersFit, version' \in Versions, version <= version', file <= file',
           file' \in 0..version',
           NEW s \in Sessions, NEW c \in Containers, NEW rows \in SUBSET Rows,
           cont' = [cont EXCEPT ![s] = c], inbox' = [inbox EXCEPT ![s] = rows],
           UpTo(rows, version'), Fit(c, rows, file')
    PROVE  ContainersFit'
<1>1. cont' \in [Sessions -> Containers] /\ inbox' \in [Sessions -> SUBSET Rows]
  BY DEF ContainersFit
<1>2. {version, version', file, file'} \subseteq Nat
  BY VersionsAreNumbers DEF ContainersFit
<1>3. ASSUME NEW t \in Sessions PROVE UpTo(inbox'[t], version') /\ Fit(cont'[t], inbox'[t], file')
  <2>1. CASE t = s
    BY <2>1 DEF ContainersFit
  <2>2. CASE t # s
    <3>1. cont'[t] = cont[t] /\ inbox'[t] = inbox[t]
      BY <2>2 DEF ContainersFit
    <3>2. UpTo(inbox[t], version') /\ Fit(cont[t], inbox[t], file')
      BY <1>2, FitsOn, UpToLater DEF ContainersFit
    <3> QED BY <3>1, <3>2
  <2> QED BY <2>1, <2>2
<1> QED BY <1>1, <1>3 DEF ContainersFit

\* A restart of several, each with a row that speaks of the version there is then.
LEMMA RestartFits ==
    ASSUME ContainersFit, version' \in Versions, version <= version', file' = file,
           NEW done \in SUBSET Sessions, NEW message \in SUBSET Rows, UpTo(message, version'),
           RestartAll(done, message)
    PROVE  ContainersFit'
<1>2. {version, version', file} \subseteq Nat /\ file' \in 0..version'
  BY VersionsAreNumbers DEF ContainersFit
<1>3. ASSUME NEW t \in Sessions
      PROVE  /\ cont'[t] \in Containers /\ inbox'[t] \in SUBSET Rows
             /\ UpTo(inbox'[t], version') /\ Fit(cont'[t], inbox'[t], file')
  <2>0. /\ cont[t] \in Containers /\ inbox[t] \in SUBSET Rows
        /\ UpTo(inbox[t], version') /\ Fit(cont[t], inbox[t], file)
    BY <1>2, UpToLater DEF ContainersFit
  <2>1. CASE t \in done /\ cont[t].active
    <3>1. /\ cont'[t] = Killed(cont[t], inbox[t] \union message # {})
          /\ inbox'[t] = inbox[t] \union message
      BY <2>1 DEF RestartAll
    <3>2. UpTo(inbox[t] \union message, version')
      BY <2>0 DEF UpTo
    <3>3. (inbox[t] \union message # {}) \in BOOLEAN
      OBVIOUS
    <3>6. PICK k \in BOOLEAN : cont'[t] = Killed(cont[t], k)
      BY <3>1, <3>3, Zenon
    <3>7. Killed(cont[t], k) \in Containers /\ Fit(Killed(cont[t], k), inbox'[t], file')
      BY <2>0, <2>1, KilledFits
    <3>4. cont'[t] \in Containers /\ Fit(cont'[t], inbox'[t], file')
      BY <3>6, <3>7, Zenon
    <3>5. inbox'[t] \in SUBSET Rows
      BY <2>0, <3>1
    <3> QED BY <3>1, <3>2, <3>4, <3>5, Zenon
  <2>2. CASE ~(t \in done /\ cont[t].active)
    <3>1. cont'[t] = cont[t] /\ inbox'[t] = inbox[t]
      BY <2>2 DEF RestartAll
    <3> QED BY <2>0, <3>1, Zenon
  <2> QED BY <2>1, <2>2
<1>4. cont' \in [Sessions -> Containers] /\ inbox' \in [Sessions -> SUBSET Rows]
  <2> DEFINE hit == {s \in done : cont[s].active}
             due(s) == inbox[s] \union message
             C(s) == IF s \in hit THEN Killed(cont[s], due(s) # {}) ELSE cont[s]
             R(s) == IF s \in hit THEN due(s) ELSE inbox[s]
  <2>1. cont' = [s \in Sessions |-> C(s)] /\ inbox' = [s \in Sessions |-> R(s)]
    BY DEF RestartAll
  <2> HIDE DEF C, R
  <2>2. \A s \in Sessions : C(s) \in Containers /\ R(s) \in SUBSET Rows
    BY <1>3, <2>1
  <2> QED BY <2>1, <2>2
<1> QED BY <1>2, <1>3, <1>4 DEF ContainersFit

\* Nothing is written or restarted; the version may be a later one.
LEMMA ContainersStand ==
    ASSUME ContainersFit, version' \in Versions, version <= version', UNCHANGED contVars
    PROVE  ContainersFit'
<1>1. {version, version', file} \subseteq Nat /\ file' \in 0..version' /\ UNCHANGED <<cont, inbox, file>>
  BY VersionsAreNumbers DEF ContainersFit, contVars
<1>2. \A s \in Sessions : UpTo(inbox[s], version')
  BY <1>1, UpToLater DEF ContainersFit
<1> QED BY <1>1, <1>2 DEF ContainersFit

\* The host restarts: no session has a container.
LEMMA AllOff ==
    ASSUME ContainersFit, version' \in Versions, version <= version', file' = file,
           cont' = [s \in Sessions |-> Off], inbox' \in [Sessions -> SUBSET Rows],
           \A s \in Sessions : UpTo(inbox'[s], version')
    PROVE  ContainersFit'
<1>1. file' \in 0..version'
  BY VersionsAreNumbers DEF ContainersFit
<1>2. cont' \in [Sessions -> Containers]
  BY OffFits
<1>3. \A s \in Sessions : Fit(cont'[s], inbox'[s], file')
  BY OffFits
<1> QED BY <1>1, <1>2, <1>3 DEF ContainersFit

\* The configuration and the migrations stay as they are.
LEMMA MigrationsStand ==
    ASSUME MigrationsFit, UNCHANGED <<provider, version, mig>>, handoff' \in BOOLEAN,
           markers' \in Nat, faults' \in Nat, changes' = changes \/ Changing
    PROVE  MigrationsFit'
<1>1. changes' \in Nat /\ changes <= changes' /\ changes' <= MaxChanges
  BY ConfigurationAssumption DEF MigrationsFit, Counted, Changing
<1>2. Counted'
  BY <1>1, VersionsAreNumbers DEF MigrationsFit, Counted
<1>3. OnePending'
  BY DEF MigrationsFit, OnePending, Active
<1> QED BY <1>1, <1>2, <1>3 DEF MigrationsFit

\* A change of the configuration that the bound counts.
LEMMA ConfigurationChanges ==
    ASSUME MigrationsFit, provider' \in Providers, version' = version + 1,
           UNCHANGED <<mig, handoff, markers, faults>>, Changing
    PROVE  MigrationsFit' /\ version' \in Versions /\ version <= version'
<1>1. /\ changes' = changes + 1 /\ changes' <= MaxChanges /\ changes' \in Nat
      /\ version \in Nat /\ changes \in Nat
  BY ConfigurationAssumption, VersionsAreNumbers DEF MigrationsFit, Changing
<1>2. Counted' /\ version' \in Versions /\ version <= version'
  BY <1>1, ConfigurationAssumption, VersionsAreNumbers DEF MigrationsFit, Counted, Versions
<1>3. OnePending'
  BY DEF MigrationsFit, OnePending, Active
<1> QED BY <1>1, <1>2, <1>3 DEF MigrationsFit

\* A pending migration goes on or ends; made and version are set where it switches.
LEMMA MigrationMoves ==
    ASSUME MigrationsFit, NEW m \in Migrations, Active(m),
           NEW r \in [state : States, to : Providers, made : Versions],
           mig' = [mig EXCEPT ![m] = r], r.state # "requesting_handoff",
           provider' \in Providers, handoff' \in BOOLEAN, markers' \in Nat, faults' \in Nat,
           changes' = changes, version' \in Versions, version' <= changes
    PROVE  MigrationsFit'
<1>1. mig' \in [Migrations -> [state : States, to : Providers, made : Versions]]
  BY DEF MigrationsFit
<1>2. mig'[m] = r /\ \A n \in Migrations \ {m} : mig'[n] = mig[n] /\ ~Active(n)
  BY DEF MigrationsFit, OnePending
<1>3. OnePending'
  BY <1>2 DEF OnePending, Active
<1>4. Counted'
  BY <1>2 DEF Counted, MigrationsFit, Active, Pending
<1> QED BY <1>1, <1>3, <1>4 DEF MigrationsFit

\* The packages and images stay as they are.
LEMMA BuildsStand ==
    ASSUME BuildsFit, UNCHANGED <<listed, image, tagged, dockerfile, content, job>>
    PROVE  BuildsFit'
BY DEF BuildsFit

\* What each part of the invariant needs of a step that leaves the rest alone.
LEMMA Quiet ==
    ASSUME ConfInv, UNCHANGED <<recordVars, buildVars, migVars, changes>>, faults' \in Nat
    PROVE  MigrationsFit' /\ BuildsFit'
<1>1. /\ UNCHANGED <<provider, version, mig, changes>> /\ handoff' = handoff /\ markers' = markers
      /\ handoff \in BOOLEAN /\ markers \in Nat
      /\ UNCHANGED <<listed, image, tagged, dockerfile, content, job>>
  BY DEF ConfInv, MigrationsFit, recordVars, buildVars, migVars
<1> QED BY <1>1, MigrationsStand, BuildsStand DEF ConfInv

\* A step of one container that writes no row.
LEMMA ContainerMoves ==
    ASSUME ConfInv, NEW s \in Sessions, NEW d \in Containers, cont' = [cont EXCEPT ![s] = d],
           inbox' = inbox, file <= file', file' \in 0..version, Fit(d, inbox[s], file'),
           UNCHANGED <<recordVars, buildVars, migVars, changes>>, faults' \in Nat
    PROVE  ConfInv'
<1>1. version' = version /\ version' \in Versions /\ version <= version'
  BY VersionsAreNumbers DEF ConfInv, ContainersFit, recordVars
<1>2. /\ inbox[s] \in SUBSET Rows /\ inbox' = [inbox EXCEPT ![s] = inbox[s]]
      /\ UpTo(inbox[s], version') /\ file' \in 0..version'
  BY <1>1 DEF ConfInv, ContainersFit
<1>3. ContainersFit
  BY DEF ConfInv
<1>4. ContainersFit'
  BY <1>1, <1>2, <1>3, OneSession
<1> QED BY <1>4, Quiet DEF ConfInv

\* A step in a container, from spawn to close, or a wake of the sweep.
LEMMA ContainerStep ==
    ASSUME ConfInv, NEW s \in Sessions,
           \/ Spawned(s) \/ SpawnFails(s) \/ Boot(s) \/ Poll(s) \/ Done(s) \/ Exit(s) \/ Close(s)
           \/ Sweep(s)
    PROVE  ConfInv'
<1> DEFINE c == cont[s]
<1>1. /\ c \in Containers /\ inbox[s] \in SUBSET Rows /\ UpTo(inbox[s], version)
      /\ Fit(c, inbox[s], file) /\ version \in Versions /\ version \in Nat
      /\ file \in 0..version /\ file \in Nat /\ faults \in Nat
      /\ cont = [cont EXCEPT ![s] = c] /\ inbox = [inbox EXCEPT ![s] = inbox[s]]
  BY VersionsAreNumbers DEF ConfInv, ContainersFit, MigrationsFit
<1> HIDE DEF c
<1>2. CASE Spawned(s)
  <2> DEFINE d == [c EXCEPT !.spawning = 0, !.active = TRUE, !.live = 1]
  <2>1. /\ inbox' = inbox /\ file' = file /\ c.spawning > 0
        /\ UNCHANGED <<recordVars, buildVars, migVars, changes>> /\ faults' = faults
    BY <1>2 DEF Spawned, bounds, c
  <2>2. /\ c.spawning = 1 /\ c.live = 0 /\ ~c.active /\ ~c.polled /\ c.claims = {}
        /\ c.spawned <= file /\ UpTo(inbox[s], c.spawned)
    BY <1>1, <2>1 DEF Fit, Containers
  <2>0. cont' = [cont EXCEPT ![s] = d]
    <3>1. cont' = [cont EXCEPT ![s] = [c EXCEPT !.spawning = @ - 1, !.active = TRUE, !.live = @ + 1]]
      BY <1>2 DEF Spawned, c
    <3>2. c.spawning - 1 = 0 /\ c.live + 1 = 1
      BY <2>2
    <3> QED BY <3>1, <3>2
  <2>3. /\ d \in Containers /\ d.spawning = 0 /\ d.live = 1 /\ d.active /\ ~d.polled
        /\ d.claims = {} /\ d.spawned = c.spawned
    BY <1>1, <2>2 DEF Containers
  <2>4. Fit(d, inbox[s], file)
    BY <2>2, <2>3 DEF Fit, UpTo
  <2>5. file <= file' /\ file' \in 0..version /\ faults' \in Nat /\ Fit(d, inbox[s], file')
    BY <1>1, <2>1, <2>4
  <2>6. d \in Containers
    BY <2>3
  <2> HIDE DEF d
  <2> QED BY <2>0, <2>1, <2>5, <2>6, ContainerMoves
<1>3. CASE SpawnFails(s)
  <2> DEFINE d == [c EXCEPT !.spawning = @ - 1]
  <2>1. /\ cont' = [cont EXCEPT ![s] = d] /\ inbox' = inbox /\ file' = file /\ c.spawning > 0
        /\ UNCHANGED <<recordVars, buildVars, migVars, changes>> /\ faults' = faults + 1
    BY <1>3 DEF SpawnFails, Fault, c
  <2>2. c.spawning = 1 /\ c.live = 0 /\ ~c.active /\ ~c.polled /\ c.claims = {}
    BY <1>1, <2>1 DEF Fit, Containers
  <2>3. /\ d \in Containers /\ d.spawning = 0 /\ d.live = 0 /\ ~d.active /\ ~d.polled
        /\ d.claims = {}
    BY <1>1, <2>2 DEF Containers
  <2>4. Fit(d, inbox[s], file)
    BY <2>3 DEF Fit, UpTo
  <2>5. file <= file' /\ file' \in 0..version /\ faults' \in Nat /\ Fit(d, inbox[s], file')
    BY <1>1, <2>1, <2>4
  <2>6. d \in Containers
    BY <2>3
  <2> HIDE DEF d
  <2> QED BY <2>1, <2>5, <2>6, ContainerMoves
<1>4. CASE Boot(s)
  <2> DEFINE d == [c EXCEPT !.polled = TRUE, !.runner = file, !.claims = inbox[s]]
  <2>1. /\ cont' = [cont EXCEPT ![s] = d] /\ inbox' = inbox /\ file' = file /\ c.live > 0
        /\ UNCHANGED <<recordVars, buildVars, migVars, changes>> /\ faults' = faults
    BY <1>4 DEF Boot, bounds, c
  <2>2. /\ c.spawning = 0 /\ c.live = 1 /\ c.active
        /\ c.spawned <= file /\ UpTo(inbox[s], c.spawned)
    BY <1>1, <2>1 DEF Fit, Containers
  <2>3. /\ file \in Versions
    BY <1>1, ConfigurationAssumption DEF Versions
  <2>4. /\ d \in Containers /\ d.spawning = 0 /\ d.live = 1 /\ d.active /\ d.polled
        /\ d.claims = inbox[s] /\ d.spawned = c.spawned /\ d.runner = file
    BY <1>1, <2>2, <2>3 DEF Containers
  <2>5. Fit(d, inbox[s], file)
    BY <2>2, <2>4 DEF Fit
  <2>6. file <= file' /\ file' \in 0..version /\ faults' \in Nat /\ Fit(d, inbox[s], file')
    BY <1>1, <2>1, <2>5
  <2>7. d \in Containers
    BY <2>4
  <2> HIDE DEF d
  <2> QED BY <2>1, <2>6, <2>7, ContainerMoves
<1>5. CASE Poll(s)
  <2> DEFINE rows == {r \in inbox[s] : r[1] \notin OnWake}
             d == [c EXCEPT !.claims = rows]
  <2>1. /\ cont' = [cont EXCEPT ![s] = d] /\ inbox' = inbox /\ file' = file
        /\ c.live > 0 /\ c.polled
        /\ UNCHANGED <<recordVars, buildVars, migVars, changes>> /\ faults' = faults
    BY <1>5 DEF Poll, bounds, c
  <2>2. UpTo(rows, c.spawned)
    BY DEF UpTo, Told, OnWake
  <2>3. /\ d \in Containers /\ d.spawning = c.spawning /\ d.live = c.live /\ d.active = c.active
        /\ d.polled = c.polled /\ d.claims = rows /\ d.spawned = c.spawned /\ d.runner = c.runner
    BY <1>1 DEF Containers
  <2> HIDE DEF rows, d
  <2>4. Fit(d, inbox[s], file)
    BY <1>1, <2>1, <2>2, <2>3 DEF Fit
  <2>5. file <= file' /\ file' \in 0..version /\ faults' \in Nat /\ Fit(d, inbox[s], file')
    BY <1>1, <2>1, <2>4
  <2>6. d \in Containers
    BY <2>3
  <2> HIDE DEF d
  <2> QED BY <2>1, <2>5, <2>6, ContainerMoves
<1>6. CASE Done(s)
  <2> DEFINE d == [c EXCEPT !.claims = {}]
             rows == inbox[s] \ c.claims
  <2>1. /\ cont' = [cont EXCEPT ![s] = d] /\ inbox' = [inbox EXCEPT ![s] = rows] /\ file' = file
        /\ UNCHANGED <<recordVars, buildVars, mig, bounds>>
        /\ handoff' \in {handoff, TRUE} /\ markers' \in {markers, markers + 1}
    <3>1. handoff' \in {handoff, TRUE} /\ markers' \in {markers, markers + 1}
      BY <1>6 DEF Done
    <3> QED BY <1>6, <3>1 DEF Done, c
  <2>2. /\ d \in Containers /\ d.spawning = c.spawning /\ d.live = c.live /\ d.active = c.active
        /\ d.polled = c.polled /\ d.claims = {} /\ d.spawned = c.spawned /\ d.runner = c.runner
    BY <1>1 DEF Containers
  <2>3. rows \in SUBSET Rows /\ UpTo(rows, version) /\ \A n : UpTo(inbox[s], n) => UpTo(rows, n)
    BY <1>1 DEF UpTo
  <2>n. UpTo({}, d.spawned)
    BY DEF UpTo
  <2> HIDE DEF rows, d
  <2>4. Fit(d, rows, file)
    BY <1>1, <2>2, <2>3, <2>n DEF Fit
  <2>5. UNCHANGED <<provider, version, mig, listed, image, tagged, dockerfile, content, job,
                    changes, faults>>
    BY <2>1 DEF recordVars, buildVars, bounds
  <2>6. ContainersFit'
    <3>1. /\ version' \in Versions /\ version <= version' /\ file <= file' /\ file' \in 0..version'
          /\ UpTo(rows, version') /\ Fit(d, rows, file') /\ d \in Containers /\ rows \in SUBSET Rows
      BY <1>1, <2>1, <2>2, <2>3, <2>4, <2>5
    <3> QED BY <2>1, <3>1, OneSession DEF ConfInv
  <2>7. handoff' \in BOOLEAN /\ markers' \in Nat
    <3>1. handoff \in BOOLEAN /\ markers \in Nat
      BY DEF ConfInv, MigrationsFit
    <3>2. handoff' = handoff \/ handoff' = TRUE
      BY <2>1
    <3>3. handoff' \in BOOLEAN
      BY <3>1, <3>2, Zenon
    <3>4. markers' \in Nat
      BY <2>1, <3>1
    <3> QED BY <3>3, <3>4
  <2>8. MigrationsFit'
    BY <1>1, <2>5, <2>7, MigrationsStand DEF ConfInv
  <2> QED BY <2>5, <2>6, <2>8, BuildsStand DEF ConfInv
<1>7. CASE Exit(s)
  <2> DEFINE d == [c EXCEPT !.live = 0, !.claims = {}]
  <2>1. /\ cont' = [cont EXCEPT ![s] = d] /\ inbox' = inbox /\ file' = file /\ c.live > 0
        /\ UNCHANGED <<recordVars, buildVars, migVars, changes>> /\ faults' = faults + 1
    BY <1>7 DEF Exit, Fault, c
  <2>2. c.spawning = 0 /\ c.active
    BY <1>1, <2>1 DEF Fit, Containers
  <2>3. d \in Containers /\ d.spawning = 0 /\ d.live = 0 /\ d.active /\ d.claims = {}
    BY <1>1, <2>2 DEF Containers
  <2>4. Fit(d, inbox[s], file)
    BY <2>3 DEF Fit, UpTo
  <2>5. file <= file' /\ file' \in 0..version /\ faults' \in Nat /\ Fit(d, inbox[s], file')
    BY <1>1, <2>1, <2>4
  <2>6. d \in Containers
    BY <2>3
  <2> HIDE DEF d
  <2> QED BY <2>1, <2>5, <2>6, ContainerMoves
<1>8. CASE Close(s)
  <2>1. /\ inbox' = inbox /\ UNCHANGED <<recordVars, buildVars, migVars, changes>>
        /\ faults' = faults
    BY <1>8 DEF Close, bounds
  <2>2. version' = version
    BY <2>1 DEF recordVars
  <2>3. CASE c.respawn
    <3>1. cont' = [cont EXCEPT ![s] = Woken(Off, version)] /\ file' = version
      BY <1>8, <2>3 DEF Close, c
    <3>2. Idle(Off)
      BY DEF Idle, Off
    <3>3. Woken(Off, version) \in Containers /\ Fit(Woken(Off, version), inbox[s], version)
      BY <1>1, <3>2, OffFits, WokenFits
    <3>4. file' \in 0..version /\ file <= file' /\ faults' \in Nat
      BY <1>1, <2>1, <3>1
    <3>5. PICK w \in Containers : w = Woken(Off, version)
      BY <3>3
    <3> QED BY <2>1, <3>1, <3>3, <3>4, <3>5, ContainerMoves
  <2>4. CASE ~c.respawn
    <3>1. cont' = [cont EXCEPT ![s] = Off] /\ file' = file
      BY <1>8, <2>4 DEF Close, c
    <3>2. file' \in 0..version /\ file <= file' /\ faults' \in Nat
      BY <1>1, <2>1, <3>1
    <3>3. Off \in Containers /\ Fit(Off, inbox[s], file')
      BY OffFits
    <3> QED BY <2>1, <3>1, <3>2, <3>3, ContainerMoves
  <2> QED BY <2>3, <2>4
<1>9. CASE Sweep(s)
  <2>1. /\ cont' = [cont EXCEPT ![s] = Woken(c, version)]
        /\ file' = IF Idle(c) THEN version ELSE file
        /\ inbox' = inbox /\ UNCHANGED <<recordVars, buildVars, migVars, changes>>
        /\ faults' = faults
    BY <1>9 DEF Sweep, Wake, bounds, c
  <2>2. version' = version /\ file' \in 0..version /\ file <= file'
    BY <1>1, <2>1 DEF recordVars
  <2>3. Woken(c, version) \in Containers /\ Fit(Woken(c, version), inbox[s], file')
    BY <1>1, <2>1, WokenFits
  <2>4. PICK w \in Containers : w = Woken(c, version)
    BY <2>3
  <2>5. /\ cont' = [cont EXCEPT ![s] = w] /\ Fit(w, inbox[s], file') /\ faults' \in Nat
    BY <1>1, <2>1, <2>3, <2>4
  <2> QED BY <2>1, <2>2, <2>5, ContainerMoves
<1> QED BY <1>2, <1>3, <1>4, <1>5, <1>6, <1>7, <1>8, <1>9

\* A row that speaks of no version is written for a session, and its container killed.
LEMMA KillMoves ==
    ASSUME ContainersFit, version' \in Versions, version <= version', file' = file,
           NEW s \in Sessions, NEW again \in BOOLEAN, NEW rows \in SUBSET Rows,
           cont' = [cont EXCEPT ![s] = Killed(@, again)], inbox' = [inbox EXCEPT ![s] = rows],
           \A r \in rows : Told(r) => r \in inbox[s]
    PROVE  ContainersFit'
<1>1. /\ cont[s] \in Containers /\ Fit(cont[s], inbox[s], file) /\ UpTo(inbox[s], version)
      /\ {version, version', file} \subseteq Nat /\ file' \in 0..version' /\ file <= file'
  BY VersionsAreNumbers DEF ContainersFit
<1>2. UpTo(rows, version')
  <2>1. UpTo(rows, version)
    BY <1>1 DEF UpTo
  <2> QED BY <1>1, <2>1, UpToLater
<1>3. PICK d \in Containers : d = Killed(cont[s], again) /\ Fit(d, rows, file)
  <2>1. CASE cont[s].active
    BY <1>1, <2>1, KilledFits
  <2>2. CASE ~cont[s].active
    BY <1>1, <2>2, FitsOn DEF Killed
  <2> QED BY <2>1, <2>2
<1>4. cont' = [cont EXCEPT ![s] = d] /\ Fit(d, rows, file')
  BY <1>3
<1> QED BY <1>1, <1>2, <1>4, OneSession

\* A restart: of the group by the operator, of itself by an agent.
LEMMA RestartStep ==
    ASSUME ConfInv, Restart \/ \E s \in Sessions : RestartSelf(s)
    PROVE  ConfInv'
<1>1. /\ Changing /\ file' = file /\ faults' = faults
      /\ UNCHANGED <<provider, version, mig, handoff, markers>>
      /\ UNCHANGED <<listed, image, tagged, dockerfile, content, job>>
  BY DEF Restart, RestartSelf, recordVars, buildVars, migVars
<1>2. MigrationsFit' /\ BuildsFit'
  <2>1. handoff' \in BOOLEAN /\ markers' \in Nat /\ faults' \in Nat
    BY <1>1 DEF ConfInv, MigrationsFit
  <2> QED BY <1>1, <2>1, MigrationsStand, BuildsStand DEF ConfInv
<1>3. /\ version' \in Versions /\ version <= version' /\ version' \in Nat /\ version' = version
      /\ file <= file' /\ file' \in 0..version' /\ ContainersFit
  BY <1>1, VersionsAreNumbers DEF ConfInv, ContainersFit
<1>4. CASE Restart
  <2>1. PICK message \in {{}, {<<"restart", version>>}} : RestartAll(Sessions, message)
    BY <1>4 DEF Restart
  <2>2. message \in SUBSET Rows /\ UpTo(message, version')
    BY <1>3 DEF UpTo, Rows, OnWake
  <2>3. ContainersFit'
    BY <1>1, <1>3, <2>1, <2>2, RestartFits
  <2> QED BY <1>2, <2>3 DEF ConfInv
<1>5. ASSUME NEW s \in Sessions, RestartSelf(s) PROVE ConfInv'
  <2>1. PICK again \in BOOLEAN :
          /\ cont' = [cont EXCEPT ![s] = Killed(@, again)]
          /\ \/ inbox' = [inbox EXCEPT ![s] = @ \union {<<"note", version>>}]
             \/ inbox' = inbox
    BY <1>5 DEF RestartSelf, Write
  <2>2. PICK rows \in SUBSET Rows :
          /\ inbox' = [inbox EXCEPT ![s] = rows]
          /\ \A r \in rows : Told(r) => r \in inbox[s]
    <3>1. CASE inbox' = inbox
      BY <3>1 DEF ConfInv, ContainersFit
    <3>2. CASE inbox' = [inbox EXCEPT ![s] = @ \union {<<"note", version>>}]
      <4>1. <<"note", version>> \in Rows /\ inbox[s] \in SUBSET Rows
        BY DEF Rows, OnWake, ConfInv, ContainersFit
      <4>2. inbox[s] \union {<<"note", version>>} \in SUBSET Rows
        BY <4>1
      <4>3. \A r \in inbox[s] \union {<<"note", version>>} : Told(r) => r \in inbox[s]
        BY DEF Told
      <4> QED BY <3>2, <4>2, <4>3
    <3> QED BY <2>1, <3>1, <3>2
  <2> QED BY <1>1, <1>2, <1>3, <2>1, <2>2, KillMoves DEF ConfInv
<1> QED BY <1>4, <1>5

\* A wake after a row that speaks of no version was written.
LEMMA WakeMoves ==
    ASSUME ContainersFit, version' = version, NEW s \in Sessions, NEW rows \in SUBSET Rows,
           Wake(s), inbox' = [inbox EXCEPT ![s] = rows],
           \A r \in rows : Told(r) => r \in inbox[s]
    PROVE  ContainersFit'
<1>1. /\ cont[s] \in Containers /\ Fit(cont[s], inbox[s], file) /\ UpTo(inbox[s], version)
      /\ {version, file} \subseteq Nat /\ file \in 0..version /\ version \in Versions
  BY VersionsAreNumbers DEF ContainersFit
<1>2. UpTo(rows, version) /\ Fit(cont[s], rows, file)
  BY <1>1, FitsOn DEF UpTo
<1>3. file' = (IF Idle(cont[s]) THEN version ELSE file) /\ file <= file' /\ file' \in 0..version'
  BY <1>1 DEF Wake
<1>4. PICK d \in Containers : d = Woken(cont[s], version) /\ Fit(d, rows, file')
  BY <1>1, <1>2, <1>3, WokenFits
<1>5. cont' = [cont EXCEPT ![s] = d]
  BY <1>4 DEF Wake
<1>6. version' \in Versions /\ version <= version' /\ UpTo(rows, version')
  BY <1>1, <1>2
<1> QED BY <1>3, <1>4, <1>5, <1>6, OneSession

\* A migration is started.
LEMMA StartStep == ASSUME ConfInv, NEW m \in Migrations, NEW p \in Targets, Start(m, p) PROVE ConfInv'
<1>1. /\ Changing /\ UNCHANGED <<provider, version, handoff, markers, faults>>
      /\ UNCHANGED <<listed, image, tagged, dockerfile, content, job>>
      /\ mig[m].state = "none" /\ \A n \in Migrations : ~Active(n)
      /\ mig' = [mig EXCEPT ![m].state = "requesting_handoff", ![m].to = p]
      /\ Wake(Shared) /\ inbox' = [inbox EXCEPT ![Shared] = @ \union {<<"ask", m>>}]
  BY DEF Start, recordVars, buildVars, Write
<1>2. /\ version \in Nat /\ changes \in Nat /\ changes' = changes + 1 /\ changes' <= MaxChanges
      /\ changes' \in Nat /\ version <= changes
  BY <1>1, VersionsAreNumbers, ConfigurationAssumption
  DEF Changing, ConfInv, MigrationsFit, Counted
<1>3. mig' \in [Migrations -> [state : States, to : Providers, made : Versions]]
  BY <1>1, ConfigurationAssumption DEF ConfInv, MigrationsFit, States, Pending
<1>4. \A n \in Migrations \ {m} : mig'[n] = mig[n]
  BY <1>1 DEF ConfInv, MigrationsFit
<1>5. OnePending'
  BY <1>1, <1>4 DEF OnePending, Active
<1>6. Counted'
  BY <1>1, <1>2 DEF Counted
<1>7. MigrationsFit'
  BY <1>1, <1>2, <1>3, <1>5, <1>6 DEF ConfInv, MigrationsFit
<1>8. ContainersFit'
  <2> DEFINE rows == inbox[Shared] \union {<<"ask", m>>}
  <2>1. Shared \in Sessions /\ <<"ask", m>> \in Rows /\ inbox[Shared] \in SUBSET Rows
    BY ConfigurationAssumption DEF Rows, ConfInv, ContainersFit
  <2>2. rows \in SUBSET Rows /\ inbox' = [inbox EXCEPT ![Shared] = rows]
    BY <1>1, <2>1
  <2>3. \A r \in rows : Told(r) => r \in inbox[Shared]
    BY DEF Told
  <2> HIDE DEF rows
  <2> QED BY <1>1, <2>1, <2>2, <2>3, WakeMoves DEF ConfInv
<1> QED BY <1>1, <1>7, <1>8, BuildsStand DEF ConfInv

\* A marker is consumed, or a migration aborted or expired, with nothing restarted.
LEMMA EndStep ==
    ASSUME ConfInv, NEW m \in Migrations, HandoffMissing(m) \/ Abort(m) \/ Expire(m)
    PROVE  ConfInv'
<1>1. /\ Active(m) /\ UNCHANGED <<provider, version, handoff, changes, faults>>
      /\ UNCHANGED <<listed, image, tagged, dockerfile, content, job>> /\ UNCHANGED contVars
  BY DEF HandoffMissing, Abort, Expire, Active, Pending, recordVars, buildVars, bounds
<1>2. markers' = markers \/ (markers > 0 /\ markers' = markers - 1)
  BY DEF HandoffMissing, Abort, Expire
<1>3. PICK st \in {"aborted", "failed"} : mig' = [mig EXCEPT ![m] = [mig[m] EXCEPT !.state = st]]
  BY DEF HandoffMissing, Abort, Expire, SetState
<1>4. PICK r \in [state : States, to : Providers, made : Versions] :
        mig' = [mig EXCEPT ![m] = r] /\ r.state = st
  <2>1. mig[m] \in [state : States, to : Providers, made : Versions]
    BY DEF ConfInv, MigrationsFit
  <2> DEFINE r == [mig[m] EXCEPT !.state = st]
  <2>2. r \in [state : States, to : Providers, made : Versions] /\ r.state = st
    BY <2>1 DEF States
  <2>3. mig' = [mig EXCEPT ![m] = r]
    BY <1>3
  <2> QED BY <2>2, <2>3
<1>5. /\ provider \in Providers /\ handoff \in BOOLEAN /\ markers' \in Nat /\ faults \in Nat
      /\ version \in Versions /\ version <= changes /\ version \in Nat
  BY <1>2, VersionsAreNumbers DEF ConfInv, MigrationsFit, Counted
<1>6. MigrationsFit'
  BY <1>1, <1>3, <1>4, <1>5, MigrationMoves DEF ConfInv
<1>7. ContainersFit'
  BY <1>1, <1>5, ContainersStand DEF ConfInv
<1> QED BY <1>1, <1>6, <1>7, BuildsStand DEF ConfInv

\* A marker finds the handoff: the group is restarted with a new version.
LEMMA SwitchStep == ASSUME ConfInv, NEW m \in Migrations, Switch(m) PROVE ConfInv'
<1>1. /\ Active(m) /\ mig[m].state = "requesting_handoff"
      /\ provider' = mig[m].to /\ version' = version + 1
      /\ UNCHANGED <<handoff, file, changes, faults>>
      /\ UNCHANGED <<listed, image, tagged, dockerfile, content, job>>
      /\ markers > 0 /\ markers' = markers - 1
      /\ RestartAll(Sessions, {<<"handoff", version + 1>>})
      /\ mig' = [mig EXCEPT ![m].state = "switched", ![m].made = version + 1]
  BY DEF Switch, SwitchConfig, Active, Pending, buildVars, bounds
<1>2. /\ version \in Nat /\ changes \in Nat /\ version' <= changes /\ version <= version'
      /\ version' \in Versions
  BY <1>1, VersionsAreNumbers, ConfigurationAssumption
  DEF ConfInv, MigrationsFit, Counted, Versions
<1>3. PICK r \in [state : States, to : Providers, made : Versions] :
        mig' = [mig EXCEPT ![m] = r] /\ r.state = "switched"
  <2>1. mig[m] \in [state : States, to : Providers, made : Versions]
    BY DEF ConfInv, MigrationsFit
  <2> DEFINE r == [mig[m] EXCEPT !.state = "switched", !.made = version + 1]
  <2>2. r \in [state : States, to : Providers, made : Versions] /\ r.state = "switched"
    BY <1>1, <1>2, <2>1 DEF States
  <2>3. mig' = [mig EXCEPT ![m] = r]
    BY <1>1
  <2> QED BY <2>2, <2>3
<1>4. /\ provider' \in Providers /\ handoff' \in BOOLEAN /\ markers' \in Nat /\ faults' \in Nat
  BY <1>1 DEF ConfInv, MigrationsFit
<1>5. MigrationsFit'
  BY <1>1, <1>2, <1>3, <1>4, MigrationMoves DEF ConfInv
<1>6. ContainersFit'
  <2>1. {<<"handoff", version + 1>>} \in SUBSET Rows /\ UpTo({<<"handoff", version + 1>>}, version')
    BY <1>1, <1>2 DEF Rows, OnWake, UpTo
  <2> QED BY <1>1, <1>2, <2>1, RestartFits DEF ConfInv
<1> QED BY <1>1, <1>5, <1>6, BuildsStand DEF ConfInv

\* The host dies, also in the middle of a switch.
LEMMA DeathStep ==
    ASSUME ConfInv, HostRestart \/ \E m \in Migrations : DiesSwitching(m)
    PROVE  ConfInv'
<1>1. /\ Fault /\ cont' = [s \in Sessions |-> Off] /\ file' = file
      /\ UNCHANGED <<image, tagged, dockerfile, content, handoff, markers, changes>>
      /\ job' = [q \in DOMAIN job |-> IF job[q] = "building" THEN "lost" ELSE job[q]]
  BY DEF HostRestart, DiesSwitching, Dies
<1>2. /\ handoff' \in BOOLEAN /\ markers' \in Nat /\ faults' \in Nat
      /\ version \in Nat /\ changes \in Nat /\ version \in Versions
      /\ version <= changes
  BY <1>1, VersionsAreNumbers DEF ConfInv, MigrationsFit, Fault, Counted
<1>3. listed' = listed
  BY DEF HostRestart, DiesSwitching, recordVars, SwitchConfig
<1>4. BuildsFit'
  BY <1>1, <1>3 DEF ConfInv, BuildsFit
<1>5. CASE HostRestart
  <2>1. UNCHANGED <<provider, version, mig, inbox>>
    BY <1>5 DEF HostRestart, recordVars
  <2>2. MigrationsFit'
    BY <1>1, <1>2, <2>1, MigrationsStand DEF ConfInv
  <2>3. ContainersFit'
    BY <1>1, <1>2, <2>1, AllOff DEF ConfInv, ContainersFit
  <2> QED BY <1>4, <2>2, <2>3 DEF ConfInv
<1>6. ASSUME NEW m \in Migrations, DiesSwitching(m) PROVE ConfInv'
  <2>0. Active(m) /\ mig[m].state = "requesting_handoff"
        /\ mig[m] \in [state : States, to : Providers, made : Versions]
    BY <1>6 DEF DiesSwitching, Active, Pending, ConfInv, MigrationsFit
  <2>1. CASE SetState(m, "switching") /\ UNCHANGED <<recordVars, inbox>>
    <3>1. UNCHANGED <<provider, version, inbox>>
      BY <2>1 DEF recordVars
    <3>2. PICK r \in [state : States, to : Providers, made : Versions] :
            mig' = [mig EXCEPT ![m] = r] /\ r.state = "switching"
      <4> DEFINE r == [mig[m] EXCEPT !.state = "switching"]
      <4>1. r \in [state : States, to : Providers, made : Versions] /\ r.state = "switching"
        BY <2>0 DEF States, Pending
      <4>2. mig' = [mig EXCEPT ![m] = r]
        BY <2>1 DEF SetState
      <4> QED BY <4>1, <4>2
    <3>3. provider' \in Providers
      BY <3>1 DEF ConfInv, MigrationsFit
    <3>4. MigrationsFit'
      BY <1>1, <1>2, <2>0, <3>1, <3>2, <3>3, MigrationMoves DEF ConfInv
    <3>5. ContainersFit'
      BY <1>1, <1>2, <3>1, AllOff DEF ConfInv, ContainersFit
    <3> QED BY <1>4, <3>4, <3>5 DEF ConfInv
  <2>2. CASE /\ mig' = [mig EXCEPT ![m].state = "switching", ![m].made = version + 1]
             /\ SwitchConfig(m)
             /\ \E done \in SUBSET {s \in Sessions : cont[s].active} :
                   inbox' = [s \in Sessions |-> IF s \in done
                                THEN inbox[s] \union {<<"handoff", version + 1>>} ELSE inbox[s]]
    <3>1. provider' = mig[m].to /\ version' = version + 1 /\ provider' \in Providers
      BY <2>0, <2>2 DEF SwitchConfig
    <3>2. version' <= changes /\ version <= version' /\ version' \in Versions /\ version' \in Nat
      BY <1>2, <2>0, <3>1, ConfigurationAssumption DEF ConfInv, MigrationsFit, Counted, Versions
    <3>3. PICK r \in [state : States, to : Providers, made : Versions] :
            mig' = [mig EXCEPT ![m] = r] /\ r.state = "switching"
      <4> DEFINE r == [mig[m] EXCEPT !.state = "switching", !.made = version + 1]
      <4>1. r \in [state : States, to : Providers, made : Versions] /\ r.state = "switching"
        BY <2>0, <3>1, <3>2 DEF States, Pending
      <4>2. mig' = [mig EXCEPT ![m] = r]
        BY <2>2
      <4> QED BY <4>1, <4>2
    <3>4. MigrationsFit'
      BY <1>1, <1>2, <2>0, <3>1, <3>2, <3>3, MigrationMoves DEF ConfInv
    <3>5. PICK done \in SUBSET {s \in Sessions : cont[s].active} :
            inbox' = [s \in Sessions |-> IF s \in done
                         THEN inbox[s] \union {<<"handoff", version + 1>>} ELSE inbox[s]]
      BY <2>2
    <3>6. ASSUME NEW s \in Sessions PROVE inbox'[s] \in SUBSET Rows /\ UpTo(inbox'[s], version')
      <4>1. inbox[s] \in SUBSET Rows /\ UpTo(inbox[s], version')
        BY <1>2, <3>2, UpToLater DEF ConfInv, ContainersFit
      <4>2. <<"handoff", version + 1>> \in Rows
        BY <3>1, <3>2 DEF Rows, OnWake
      <4>3. inbox'[s] \subseteq inbox[s] \union {<<"handoff", version + 1>>}
        BY <3>5
      <4> QED BY <3>1, <3>2, <4>1, <4>2, <4>3 DEF UpTo
    <3>7. inbox' \in [Sessions -> SUBSET Rows]
      BY <3>5, <3>6
    <3>8. ContainersFit'
      BY <1>1, <1>2, <3>2, <3>6, <3>7, AllOff DEF ConfInv
    <3> QED BY <1>4, <3>4, <3>8 DEF ConfInv
  <2> QED BY <1>6, <2>1, <2>2 DEF DiesSwitching
<1> QED BY <1>5, <1>6

\* The operator changes the configuration.
LEMMA UpdateStep == ASSUME ConfInv, NEW p \in Providers, Update(p) PROVE ConfInv'
<1>1. /\ Changing /\ provider' \in Providers /\ version' = version + 1
      /\ UNCHANGED <<mig, handoff, markers, faults, contVars>>
      /\ UNCHANGED <<listed, image, tagged, dockerfile, content, job>>
  BY DEF Update, migVars, buildVars
<1>2. MigrationsFit' /\ version' \in Versions /\ version <= version'
  BY <1>1, ConfigurationChanges DEF ConfInv
<1>3. ContainersFit'
  BY <1>1, <1>2, ContainersStand DEF ConfInv
<1> QED BY <1>1, <1>2, <1>3, BuildsStand DEF ConfInv

\* An approved request lists its package and starts a build.
LEMMA InstallStep == ASSUME ConfInv, NEW q \in Installs, Install(q) PROVE ConfInv'
<1>1. /\ Changing /\ provider' = provider /\ version' = version + 1
      /\ UNCHANGED <<mig, handoff, markers, faults, contVars, image, tagged>>
      /\ job' = [job EXCEPT ![q] = "building"] /\ listed' = listed \union {q}
      /\ content' = [content EXCEPT ![q] = listed'] /\ dockerfile' = TRUE
  BY DEF Install, migVars
<1>2. MigrationsFit' /\ version' \in Versions /\ version <= version'
  BY <1>1, ConfigurationChanges DEF ConfInv, MigrationsFit
<1>3. ContainersFit'
  BY <1>1, <1>2, ContainersStand DEF ConfInv
<1>4. BuildsFit'
  BY <1>1 DEF ConfInv, BuildsFit
<1> QED BY <1>2, <1>3, <1>4 DEF ConfInv

\* The build of a request ends, well or not.
LEMMA BuildEndStep == ASSUME ConfInv, NEW q \in Installs, Built(q) \/ BuildFails(q) PROVE ConfInv'
<1> DEFINE s == SessionOf[q]
<1>1. s \in Sessions
  BY ConfigurationAssumption
<1>2. /\ UNCHANGED <<provider, version, mig, handoff, markers, changes, faults, listed, content>>
      /\ \E st \in {"done", "failed"} : job' = [job EXCEPT ![q] = st]
      /\ dockerfile' = FALSE
  BY DEF Built, BuildFails, ImageBuilt, BuildThrows, recordVars, migVars, bounds
<1>3. image' \in {image, content[q]} /\ tagged' \in {tagged, TRUE}
  BY DEF Built, BuildFails, ImageBuilt, BuildThrows
<1>4. BuildsFit'
  <2>1. tagged \in BOOLEAN /\ image \subseteq listed /\ content[q] \subseteq listed
    BY DEF ConfInv, BuildsFit
  <2>2. tagged' = tagged \/ tagged' = TRUE
    BY <1>3
  <2>3. tagged' \in BOOLEAN
    BY <2>1, <2>2, Zenon
  <2>4. image' \subseteq listed'
    BY <1>2, <1>3, <2>1
  <2>5. job' \in [Installs \union Servers -> {"approved", "building", "done", "failed", "lost"}]
    BY <1>2 DEF ConfInv, BuildsFit
  <2> QED BY <1>2, <2>3, <2>4, <2>5 DEF ConfInv, BuildsFit
<1>5. MigrationsFit'
  <2>1. handoff' \in BOOLEAN /\ markers' \in Nat /\ faults' \in Nat
    BY <1>2 DEF ConfInv, MigrationsFit
  <2> QED BY <1>2, <2>1, MigrationsStand DEF ConfInv
<1>6. version' = version /\ version \in Versions /\ version \in Nat /\ inbox[s] \in SUBSET Rows
  BY <1>1, <1>2, VersionsAreNumbers DEF ConfInv, ContainersFit
<1> HIDE DEF s
<1>7. CASE Built(q)
  <2> DEFINE rows == inbox[s] \union {<<"note", version>>}
  <2>1. /\ inbox' = [inbox EXCEPT ![s] = rows] /\ file' = file
        /\ cont' = [cont EXCEPT ![s] = Killed(@, TRUE)]
    BY <1>7 DEF Built, Write, s
  <2>2. rows \in SUBSET Rows /\ \A r \in rows : Told(r) => r \in inbox[s]
    BY <1>6 DEF Rows, OnWake, Told
  <2> HIDE DEF rows
  <2>3. version' \in Versions /\ version <= version'
    BY <1>6
  <2>4. ContainersFit'
    BY <1>1, <2>1, <2>2, <2>3, KillMoves DEF ConfInv
  <2> QED BY <1>4, <1>5, <2>4 DEF ConfInv
<1>8. CASE BuildFails(q)
  <2> DEFINE rows == inbox[s] \union {<<"failed", version>>}
  <2>1. inbox' = [inbox EXCEPT ![s] = rows] /\ Wake(s)
    BY <1>8 DEF BuildFails, Write, s
  <2>2. rows \in SUBSET Rows /\ \A r \in rows : Told(r) => r \in inbox[s]
    BY <1>6 DEF Rows, Told
  <2> HIDE DEF rows
  <2>3. ContainersFit'
    BY <1>1, <1>6, <2>1, <2>2, WakeMoves DEF ConfInv
  <2> QED BY <1>4, <1>5, <2>3 DEF ConfInv
<1> QED BY <1>7, <1>8

\* An approved MCP server is written to the configuration.
LEMMA AddServerStep == ASSUME ConfInv, NEW q \in Servers, AddServer(q) PROVE ConfInv'
<1> DEFINE s == SessionOf[q]
           rows == inbox[s] \union {<<"note", version + 1>>}
<1>1. /\ Changing /\ provider' = provider /\ version' = version + 1 /\ file' = file
      /\ UNCHANGED <<mig, handoff, markers, faults, listed, image, tagged, dockerfile, content>>
      /\ job' = [job EXCEPT ![q] = "done"]
      /\ inbox' = [inbox EXCEPT ![s] = rows] /\ cont' = [cont EXCEPT ![s] = Killed(@, TRUE)]
  BY DEF AddServer, migVars, Write
<1>2. MigrationsFit' /\ version' \in Versions /\ version <= version'
  BY <1>1, ConfigurationChanges DEF ConfInv, MigrationsFit
<1>3. BuildsFit'
  BY <1>1 DEF ConfInv, BuildsFit
<1>4. s \in Sessions /\ inbox[s] \in SUBSET Rows
  BY ConfigurationAssumption DEF ConfInv, ContainersFit
<1>5. rows \in SUBSET Rows /\ \A r \in rows : Told(r) => r \in inbox[s]
  BY <1>1, <1>2, <1>4 DEF Rows, OnWake, Told
<1> HIDE DEF s, rows
<1>6. ContainersFit'
  BY <1>1, <1>2, <1>4, <1>5, KillMoves DEF ConfInv
<1> QED BY <1>2, <1>3, <1>6 DEF ConfInv

\* A marker that no migration waits for.
LEMMA MarkerStep == ASSUME ConfInv, MarkerPasses PROVE ConfInv'
<1>1. /\ UNCHANGED <<provider, version, mig, handoff, changes, faults>> /\ UNCHANGED contVars
      /\ UNCHANGED <<listed, image, tagged, dockerfile, content, job>>
      /\ markers > 0 /\ markers' = markers - 1
  BY DEF MarkerPasses, recordVars, buildVars, bounds
<1>2. handoff' \in BOOLEAN /\ markers' \in Nat /\ faults' \in Nat
  BY <1>1 DEF ConfInv, MigrationsFit
<1>3. MigrationsFit'
  BY <1>1, <1>2, MigrationsStand DEF ConfInv
<1>4. ContainersFit'
  BY <1>1, ContainersStand, VersionsAreNumbers DEF ConfInv, ContainersFit
<1> QED BY <1>1, <1>3, <1>4, BuildsStand DEF ConfInv

\* Nothing changes.
LEMMA StutterStep == ASSUME ConfInv, UNCHANGED groupVars PROVE ConfInv'
<1>1. /\ UNCHANGED <<provider, version, mig, handoff, markers, changes, faults>>
      /\ UNCHANGED contVars /\ UNCHANGED <<listed, image, tagged, dockerfile, content, job>>
  BY DEF groupVars, recordVars, buildVars, migVars, bounds
<1>2. handoff' \in BOOLEAN /\ markers' \in Nat /\ faults' \in Nat
  BY <1>1 DEF ConfInv, MigrationsFit
<1>3. MigrationsFit'
  BY <1>1, <1>2, MigrationsStand DEF ConfInv
<1>4. ContainersFit'
  BY <1>1, ContainersStand, VersionsAreNumbers DEF ConfInv, ContainersFit
<1> QED BY <1>1, <1>3, <1>4, BuildsStand DEF ConfInv

-----------------------------------------------------------------------------
\* No container, no row, no change.
LEMMA ConfigStarts == ConfigInit => ConfInv
<1> SUFFICES ASSUME ConfigInit PROVE ConfInv
  OBVIOUS
<1>1. ContainersFit
  <2>1. \A s \in Sessions : cont[s] = Off /\ inbox[s] = {} /\ UpTo(inbox[s], version)
    BY DEF ConfigInit, UpTo
  <2>2. version \in Versions /\ file \in 0..version
    BY ConfigurationAssumption DEF ConfigInit, Versions
  <2>3. cont \in [Sessions -> Containers] /\ inbox \in [Sessions -> SUBSET Rows]
    BY OffFits DEF ConfigInit
  <2> QED BY <2>1, <2>2, <2>3, OffFits DEF ContainersFit
<1>2. MigrationsFit
  <2>1. \A m \in Migrations : mig[m].state = "none"
    BY DEF ConfigInit
  <2>2. OnePending /\ Counted
    BY <2>1, ConfigurationAssumption DEF ConfigInit, OnePending, Counted, Active, Pending
  <2>3. mig \in [Migrations -> [state : States, to : Providers, made : Versions]]
    BY ConfigurationAssumption DEF ConfigInit, States, Versions
  <2>4. provider \in Providers /\ version \in Versions
    BY ConfigurationAssumption DEF ConfigInit, Versions
  <2>5. handoff \in BOOLEAN /\ markers \in Nat /\ changes \in Nat /\ faults \in Nat
    BY DEF ConfigInit
  <2> QED BY <2>2, <2>3, <2>4, <2>5 DEF MigrationsFit
<1>3. BuildsFit
  BY DEF ConfigInit, BuildsFit
<1> QED BY <1>1, <1>2, <1>3 DEF ConfInv

\* The invariant is inductive.
LEMMA ConfigSteps == ConfInv /\ [ConfigNext]_groupVars => ConfInv'
<1> SUFFICES ASSUME ConfInv, [ConfigNext]_groupVars PROVE ConfInv'
  OBVIOUS
<1>1. CASE UNCHANGED groupVars
  BY <1>1, StutterStep
<1>2. CASE \E s \in Sessions : \/ Spawned(s) \/ SpawnFails(s) \/ Boot(s) \/ Poll(s) \/ Done(s)
                               \/ Exit(s) \/ Close(s) \/ Sweep(s)
  BY <1>2, ContainerStep
<1>3. CASE Restart \/ \E s \in Sessions : RestartSelf(s)
  BY <1>3, RestartStep
<1>4. CASE MarkerPasses
  BY <1>4, MarkerStep
<1>5. CASE HostRestart \/ \E m \in Migrations : DiesSwitching(m)
  BY <1>5, DeathStep
<1>6. CASE \E p \in Providers : Update(p)
  BY <1>6, UpdateStep
<1>7. CASE \E m \in Migrations : \E p \in Targets : Start(m, p)
  BY <1>7, StartStep
<1>8. CASE \E m \in Migrations : HandoffMissing(m) \/ Abort(m) \/ Expire(m)
  BY <1>8, EndStep
<1>9. CASE \E m \in Migrations : Switch(m)
  BY <1>9, SwitchStep
<1>10. CASE \E q \in Installs : Install(q)
  BY <1>10, InstallStep
<1>11. CASE \E q \in Installs : Built(q) \/ BuildFails(q)
  BY <1>11, BuildEndStep
<1>12. CASE \E q \in Servers : AddServer(q)
  BY <1>12, AddServerStep
<1> QED
  BY <1>1, <1>2, <1>3, <1>4, <1>5, <1>6, <1>7, <1>8, <1>9, <1>10, <1>11, <1>12 DEF ConfigNext

\* It holds in every reachable state.
LEMMA ConfigInductive == ConfigSpec => []ConfInv
BY ConfigStarts, ConfigSteps, PTL DEF ConfigSpec

\* The configuration's tables, containers and rows keep their types: no row and no
\* container.json is of a version there is not yet, and no image holds a package that
\* the configuration does not list.
THEOREM ConfigTypes == ConfigSpec => []ConfigTypeOK
<1>1. ConfInv => ConfigTypeOK
  <2> SUFFICES ASSUME ConfInv PROVE ConfigTypeOK
    OBVIOUS
  <2>1. {changes, faults} \subseteq Nat
    BY DEF ConfInv, MigrationsFit
  <2>2. cont \in [Sessions -> Containers] /\ inbox \in [Sessions -> SUBSET Rows]
        /\ file \in 0..version
    BY DEF ConfInv, ContainersFit
  <2>3. mig \in [Migrations -> [state : Pending \union {"none", "switched", "failed", "aborted"},
                                to : Providers, made : Versions]]
    BY DEF ConfInv, MigrationsFit, States
  <2>4. provider \in Providers /\ version \in Versions /\ handoff \in BOOLEAN /\ markers \in Nat
    BY DEF ConfInv, MigrationsFit
  <2>5. /\ listed \subseteq Installs /\ image \subseteq listed /\ tagged \in BOOLEAN
        /\ dockerfile \in BOOLEAN /\ content \in [Installs -> SUBSET listed]
        /\ job \in [Installs \union Servers -> {"approved", "building", "done", "failed", "lost"}]
    BY DEF ConfInv, BuildsFit
  <2> QED BY <2>1, <2>2, <2>3, <2>4, <2>5, Zenon DEF ConfigTypeOK
<1> QED BY <1>1, ConfigInductive, PTL

\* A session never has two containers, whoever wakes it, and no runner works with a
\* configuration older than its mounts or than the message that opens its work.
THEOREM ContainersAreCurrent == ConfigSpec => []ContainersAgree
<1>1. ConfInv => ContainersAgree
  <2> SUFFICES ASSUME ConfInv, NEW s \in Sessions
               PROVE  /\ cont[s].live + cont[s].spawning <= 1
                      /\ cont[s].live > 0 /\ cont[s].polled => cont[s].spawned <= cont[s].runner
                      /\ \A r \in cont[s].claims : r[1] \in {"handoff", "restart"}
                            => r[2] <= cont[s].spawned /\ r[2] <= cont[s].runner
    BY DEF ContainersAgree, OneContainer, NoneIsOutdated, HandoffIsForSuccessor, RunnerNotOlder
  <2>1. cont[s] \in Containers /\ Fit(cont[s], inbox[s], file)
    BY DEF ConfInv, ContainersFit
  <2>2. cont[s].live + cont[s].spawning <= 1
    BY <2>1 DEF Fit, Containers
  <2>3. cont[s].live > 0 /\ cont[s].polled => cont[s].spawned <= cont[s].runner
    BY <2>1 DEF Fit
  <2>4. ASSUME NEW r \in cont[s].claims, r[1] \in {"handoff", "restart"}
        PROVE  r[2] <= cont[s].spawned /\ r[2] <= cont[s].runner
    <3>1. r[2] <= cont[s].spawned /\ cont[s].spawned <= cont[s].runner
      BY <2>1, <2>4 DEF Fit, UpTo, Told
    <3>2. {r[2], cont[s].spawned, cont[s].runner} \subseteq Nat
      BY <2>1, VersionsAreNumbers DEF Containers, Rows, OnWake
    <3> QED BY <3>1, <3>2
  <2> QED BY <2>2, <2>3, <2>4
<1> QED BY <1>1, ConfigInductive, PTL

\* At most one migration is pending, whatever was started, aborted or cut off by the
\* host's death.
THEOREM MigrationsAreSingle == ConfigSpec => []OneMigration
<1>1. ConfInv => OneMigration
  <2> SUFFICES ASSUME ConfInv PROVE OneMigration
    OBVIOUS
  <2> DEFINE P == {m \in Migrations : mig[m].state \in Pending}
  <2>1. \A m, n \in P : m = n
    BY DEF ConfInv, MigrationsFit, OnePending, Active
  <2>2. P = {} \/ \E m : P = {m}
    BY <2>1
  <2>3. Cardinality(P) = 0 \/ Cardinality(P) = 1
    <3> HIDE DEF P
    <3>1. CASE P = {}
      BY <3>1, FS_EmptySet
    <3>2. ASSUME NEW m, P = {m} PROVE Cardinality(P) = 1
      BY <3>2, FS_Singleton
    <3> QED BY <2>2, <3>1, <3>2
  <2> QED BY <2>3 DEF OneMigration
<1> QED BY <1>1, ConfigInductive, PTL

\* What a step of a migration that has ended may be: none.
Ended(m) == mig[m].state \in {"switched", "failed", "aborted"}
EndedStays == \A m \in Migrations : Ended(m) => mig'[m] = mig[m]

\* A step changes a migration that was not started or is pending, and no other.
LEMMA EndedStand == ASSUME ConfInv, [ConfigNext]_groupVars PROVE EndedStays
<1>t. mig \in [Migrations -> [state : States, to : Providers, made : Versions]]
  BY DEF ConfInv, MigrationsFit
<1>1. CASE \/ mig' = mig
           \/ \E m \in Migrations : ~Ended(m) /\ \A n \in Migrations \ {m} : mig'[n] = mig[n]
  BY <1>1 DEF EndedStays
<1>2. CASE \E m \in Migrations : \/ HandoffMissing(m) \/ Switch(m) \/ Abort(m) \/ Expire(m)
                                 \/ DiesSwitching(m) \/ \E p \in Targets : Start(m, p)
  <2>1. PICK m \in Migrations : \/ HandoffMissing(m) \/ Switch(m) \/ Abort(m) \/ Expire(m)
                                \/ DiesSwitching(m) \/ \E p \in Targets : Start(m, p)
    BY <1>2
  <2>2. ~Ended(m)
    BY <2>1 DEF HandoffMissing, Switch, Abort, Expire, DiesSwitching, Start, Active, Pending, Ended
  <2>3. \A n \in Migrations \ {m} : mig'[n] = mig[n]
    BY <1>t, <2>1 DEF HandoffMissing, Switch, Abort, Expire, DiesSwitching, Start, SetState
  <2> QED BY <1>1, <2>2, <2>3
<1>3. CASE \E s \in Sessions : \/ Spawned(s) \/ SpawnFails(s) \/ Boot(s) \/ Poll(s) \/ Done(s)
                               \/ Exit(s) \/ Close(s) \/ Sweep(s) \/ RestartSelf(s)
  BY <1>1, <1>3
  DEF Spawned, SpawnFails, Boot, Poll, Done, Exit, Close, Sweep, RestartSelf, migVars
<1>4. CASE Restart \/ MarkerPasses \/ HostRestart \/ \E p \in Providers : Update(p)
  BY <1>1, <1>4 DEF Restart, MarkerPasses, HostRestart, Update, migVars
<1>5. CASE \/ \E q \in Installs : Install(q) \/ Built(q) \/ BuildFails(q)
           \/ \E q \in Servers : AddServer(q)
  BY <1>1, <1>5 DEF Install, Built, BuildFails, AddServer, migVars
<1>6. CASE UNCHANGED groupVars
  BY <1>1, <1>6 DEF groupVars, migVars
<1> QED BY <1>2, <1>3, <1>4, <1>5, <1>6 DEF ConfigNext

\* A migration that was switched, failed or was aborted stays as it ended: a late marker,
\* an abort and the expiry, and a host that dies, change nothing of it.
THEOREM EndedForever == ConfigSpec => EndedIsFinal
<1>1. ConfInv /\ [ConfigNext]_groupVars => [EndedStays]_groupVars
  BY EndedStand
<1>2. EndedIsFinal <=> [][EndedStays]_groupVars
  BY PTL DEF EndedIsFinal, EndedStays, Ended
<1> QED BY <1>1, <1>2, ConfigInductive, PTL DEF ConfigSpec
=============================================================================
