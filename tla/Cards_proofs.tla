---------------------------- MODULE Cards_proofs ----------------------------
(***************************************************************************)
(* What clicks bring about, for any cards, users, clicks and restarts.     *)
(***************************************************************************)
EXTENDS Cards, TLAPS

\* A click that is acted on later, and an answer not yet read, were said.
SaidShape ==
    /\ \A k \in clicks : k.value \in Options => <<k.card, k.by, k.value>> \in said
    /\ \A q \in Questions, o \in Options : o \in inbox[q] => \E u \in Users : <<q, u, o>> \in said
    /\ OnlyWhatWasSaid

\* A request has its row while it is held; what the sweep or an expiry works
\* on is no longer held.
RowShape ==
    \A r \in Requests :
        /\ call[r] \in {"none", "sending", "shown"} => row[r] = "none"
        /\ call[r] = "held" => row[r] = "pending"
        /\ row[r] = "pending" => call[r] = "held" \/ r \in stale
        /\ row[r] = "expired" => r \in expiring \union stale
        /\ r \in stale \union expiring => call[r] \in {"answered", "cut"}

\* Each sending of a question opens it for one answer.
AnswerShape ==
    \A q \in Questions : written[q] <= sends[q] /\ (row[q] # "none" => written[q] < sends[q])

\* The initial values have their types.
LEMMA InitTypes == Init => TypeOK
  BY CardsAssumption DEF Init, TypeOK, Cards

\* Every step keeps the types.
LEMMA TypesKept == TypeOK /\ [Next]_vars => TypeOK'
  <1> SUFFICES ASSUME TypeOK, [Next]_vars PROVE TypeOK' OBVIOUS
  <1> USE CardsAssumption DEF TypeOK
  <1>1. ASSUME NEW q \in Questions, Ask(q) PROVE TypeOK'
    BY <1>1 DEF Ask, cardVars, requestVars
  <1>2. ASSUME NEW q \in Questions, Send(q) PROVE TypeOK'
    BY <1>2 DEF Send, Cards, requestVars
  <1>3. ASSUME NEW q \in Questions, Posted(q) PROVE TypeOK'
    BY <1>3 DEF Posted, Cards, requestVars
  <1>4. ASSUME NEW q \in Questions, Sent(q) PROVE TypeOK'
    BY <1>4 DEF Sent, cardVars, requestVars
  <1>5. ASSUME NEW q \in Questions, SendFails(q) PROVE TypeOK'
    <2>1. attempts' \in [Questions -> 0..(MaxAttempts - 1)]
      BY <1>5 DEF SendFails
    <2>2. QED BY <1>5, <2>1 DEF SendFails, cardVars, requestVars
  <1>6. ASSUME NEW q \in Questions, TakeAnswer(q) PROVE TypeOK'
    BY <1>6 DEF TakeAnswer, cardVars, requestVars
  <1>7. ASSUME NEW q \in Questions, GiveUp(q) PROVE TypeOK'
    BY <1>7 DEF GiveUp, cardVars, requestVars
  <1>8. ASSUME NEW r \in Requests, Hold(r) PROVE TypeOK'
    BY <1>8 DEF Hold, cardVars, questionVars
  <1>9. ASSUME NEW r \in Requests, CardShown(r) PROVE TypeOK'
    BY <1>9 DEF CardShown, Cards, questionVars
  <1>10. ASSUME NEW r \in Requests, HoldFails(r) PROVE TypeOK'
    BY <1>10 DEF HoldFails, Answer, cardVars, questionVars
  <1>11. ASSUME NEW r \in Requests, Held(r) PROVE TypeOK'
    BY <1>11 DEF Held, Cards, questionVars
  <1>12. ASSUME NEW r \in Requests, TimesOut(r) PROVE TypeOK'
    BY <1>12 DEF TimesOut, Answer, Cards, questionVars
  <1>13. ASSUME NEW r \in Requests, Expired(r) PROVE TypeOK'
    BY <1>13 DEF Expired, Edited, DeleteRow, Cards, questionVars
  <1>14. ASSUME NEW r \in Requests, Sweep(r) PROVE TypeOK'
    BY <1>14 DEF Sweep, Edited, DeleteRow, Cards, questionVars
  <1>15. ASSUME NEW c \in Cards, NEW u \in Users, NEW o \in Options, Click(c, u, o) PROVE TypeOK'
    <2>1. [card |-> c, by |-> u, value |-> Value(c, o)] \in Clicks
      BY DEF Value, Clicks
    <2>2. QED BY <1>15, <2>1 DEF Click, questionVars, requestVars
  <1>16. ASSUME NEW k \in clicks, Dispatch(k) PROVE TypeOK'
    <2>1. k \in Clicks /\ k.card \in Cards /\ k.value \in Options \union {"index"}
      BY DEF Clicks
    <2>2. clicks' \subseteq Clicks /\ buttons' \subseteq Cards
      BY <1>16 DEF Dispatch, Edited
    <2>3. ASSUME k.card \in Questions, AnswerQuestion(k.card, k.value) PROVE TypeOK'
      BY <1>16, <2>1, <2>2, <2>3 DEF Dispatch, AnswerQuestion, DeleteRow, requestVars
    <2>4. ASSUME k.card \in Requests, Resolve(k.card, k.value) PROVE TypeOK'
      BY <1>16, <2>1, <2>2, <2>4 DEF Dispatch, Resolve, Answer, DeleteRow
    <2>5. ASSUME k.card \in Requests, DropRow(k.card) PROVE TypeOK'
      BY <1>16, <2>1, <2>2, <2>5 DEF Dispatch, DropRow, DeleteRow, requestVars
    <2>6. ASSUME Ignore(k) PROVE TypeOK'
      BY <1>16, <2>2, <2>6 DEF Dispatch, Ignore, requestVars
    <2>7. QED BY <1>16, <2>3, <2>4, <2>5, <2>6 DEF Dispatch
  <1>17. ASSUME HostRestart PROVE TypeOK'
    <2>1. attempts' \in [Questions -> 0..(MaxAttempts - 1)]
      BY <1>17 DEF HostRestart
    <2>2. QED BY <1>17, <2>1 DEF HostRestart
  <1>18. ASSUME UNCHANGED vars PROVE TypeOK'
    BY <1>18 DEF vars, cardVars, questionVars, requestVars
  <1>19. QED
    BY <1>1, <1>2, <1>3, <1>4, <1>5, <1>6, <1>7, <1>8, <1>9, <1>10, <1>11, <1>12, <1>13,
       <1>14, <1>15, <1>16, <1>17, <1>18 DEF Next

\* The variables of cards, calls and files keep their types.
THEOREM CardTypes == Spec => []TypeOK
  BY InitTypes, TypesKept, PTL DEF Spec

\* Of the questions no step of a request changes the row, and the other way
\* round: a row's deletion is of that card only.
LEMMA OneRow ==
    ASSUME TypeOK, NEW c \in Cards, NEW d \in Cards, DeleteRow(c)
    PROVE  row'[d] = IF d = c THEN "none" ELSE row[d]
  BY DEF DeleteRow, TypeOK

\* What is clicked stays said, and only clicks are handed on.
LEMMA SaidKept == TypeOK /\ SaidShape /\ [Next]_vars => SaidShape'
  <1> SUFFICES ASSUME TypeOK, SaidShape, [Next]_vars PROVE SaidShape' OBVIOUS
  <1> USE DEF SaidShape, OnlyWhatWasSaid
  <1>1. ASSUME UNCHANGED <<said, clicks, inbox, result, decision>> PROVE SaidShape'
    BY <1>1
  <1>2. ASSUME UNCHANGED <<said, clicks, inbox, result>>,
               NEW r \in Requests, Answer(r, "deny") PROVE SaidShape'
    BY <1>2 DEF Answer, TypeOK
  <1>3. ASSUME NEW q \in Questions, TakeAnswer(q) PROVE SaidShape'
    <2>1. UNCHANGED <<said, clicks, decision>>
      BY <1>3 DEF TakeAnswer, cardVars, requestVars
    <2>2. PICK v \in inbox[q] : result' = [result EXCEPT ![q] = v] /\ inbox' = [inbox EXCEPT ![q] = @ \ {v}]
      BY <1>3 DEF TakeAnswer
    <2>3. \A p \in Questions : inbox'[p] \subseteq inbox[p]
      BY <2>2 DEF TypeOK
    <2>4. \A p \in Questions, o \in Options :
            result'[p] = o => result[p] = o \/ o \in inbox[p]
      BY <2>2 DEF TypeOK
    <2>5. QED BY <2>1, <2>3, <2>4
  <1>4. ASSUME NEW c \in Cards, NEW u \in Users, NEW o \in Options, Click(c, u, o) PROVE SaidShape'
    <2>1. \A k \in clicks' : k.value \in Options => <<k.card, k.by, k.value>> \in said'
      BY <1>4 DEF Click, Value, Options
    <2>2. QED BY <1>4, <2>1 DEF Click, questionVars, requestVars
  <1>5. ASSUME NEW k \in clicks, Dispatch(k) PROVE SaidShape'
    <2>1. /\ UNCHANGED <<said, result>> /\ clicks' \subseteq clicks
          /\ k.card \in Cards /\ k.by \in Users
      BY <1>5 DEF Dispatch, TypeOK, Clicks
    <2>2. ASSUME k.card \in Questions, AnswerQuestion(k.card, k.value) PROVE SaidShape'
      BY <2>1, <2>2, ZenonT(30) DEF AnswerQuestion, requestVars, TypeOK
    <2>3. ASSUME k.card \in Requests, k.by \in Admins, Resolve(k.card, k.value) PROVE SaidShape'
      <3>1. \A r \in Requests : decision'[r] = "approve" => decision[r] = "approve" \/ (r = k.card /\ k.value = "approve")
        BY <2>3 DEF Resolve, Answer, TypeOK
      <3>2. k.value = "approve" => <<k.card, k.by, "approve">> \in said
        BY DEF Options
      <3>3. QED BY <2>1, <2>3, <3>1, <3>2 DEF Resolve
    <2>4. ASSUME UNCHANGED <<inbox, decision>> PROVE SaidShape'
      BY <2>1, <2>4
    <2>5. QED BY <1>5, <2>2, <2>3, <2>4 DEF Dispatch, DropRow, Ignore, requestVars
  <1>6. ASSUME HostRestart PROVE SaidShape'
    BY <1>6 DEF HostRestart
  <1>7. ASSUME NEW r \in Requests, HoldFails(r) \/ TimesOut(r) PROVE SaidShape'
    BY <1>2, <1>7 DEF HoldFails, TimesOut, cardVars, questionVars
  <1>8. ASSUME NEW q \in Questions, Ask(q) \/ Send(q) \/ Posted(q) \/ Sent(q) \/ SendFails(q) \/ GiveUp(q)
        PROVE SaidShape'
    BY <1>1, <1>8 DEF Ask, Send, Posted, Sent, SendFails, GiveUp, cardVars, requestVars
  <1>9. ASSUME NEW r \in Requests, Hold(r) \/ CardShown(r) \/ Held(r) \/ Expired(r) \/ Sweep(r)
        PROVE SaidShape'
    BY <1>1, <1>9 DEF Hold, CardShown, Held, Expired, Sweep, cardVars, questionVars
  <1>10. ASSUME UNCHANGED vars PROVE SaidShape'
    BY <1>1, <1>10 DEF vars, cardVars, questionVars, requestVars
  <1>11. QED
    BY <1>3, <1>4, <1>5, <1>6, <1>7, <1>8, <1>9, <1>10 DEF Next

\* A request's row stands exactly as long as something is bound to end it.
LEMMA RowKept == TypeOK /\ RowShape /\ [Next]_vars => RowShape'
  <1> SUFFICES ASSUME TypeOK, RowShape, [Next]_vars PROVE RowShape' OBVIOUS
  <1>0. \A q \in Questions, r \in Requests : q # r
    BY CardsAssumption
  <1> USE DEF RowShape
  <1>1. ASSUME UNCHANGED <<call, stale, expiring>>, \A r \in Requests : row'[r] = row[r]
        PROVE RowShape'
    BY <1>1
  <1>2. ASSUME NEW q \in Questions, Ask(q) \/ Posted(q) \/ Sent(q) \/ SendFails(q) \/ TakeAnswer(q) \/ GiveUp(q)
        PROVE RowShape'
    BY <1>1, <1>2 DEF Ask, Posted, Sent, SendFails, TakeAnswer, GiveUp, cardVars, requestVars
  <1>3. ASSUME NEW q \in Questions, Send(q) PROVE RowShape'
    BY <1>0, <1>1, <1>3 DEF Send, requestVars, TypeOK, Cards
  <1>4. ASSUME NEW r \in Requests, Hold(r) PROVE RowShape'
    BY <1>4 DEF Hold, cardVars, TypeOK
  <1>5. ASSUME NEW r \in Requests, CardShown(r) PROVE RowShape'
    BY <1>5 DEF CardShown, TypeOK
  <1>6. ASSUME NEW r \in Requests, HoldFails(r) PROVE RowShape'
    BY <1>6 DEF HoldFails, Answer, cardVars, TypeOK
  <1>7. ASSUME NEW r \in Requests, Held(r) PROVE RowShape'
    BY <1>7 DEF Held, TypeOK, Cards
  <1>8. ASSUME NEW r \in Requests, TimesOut(r) PROVE RowShape'
    BY <1>8 DEF TimesOut, Answer, TypeOK, Cards
  <1>9. ASSUME NEW r \in Requests, Expired(r) \/ Sweep(r) PROVE RowShape'
    BY <1>9 DEF Expired, Sweep, DeleteRow, TypeOK, Cards
  <1>10. ASSUME NEW c \in Cards, NEW u \in Users, NEW o \in Options, Click(c, u, o) PROVE RowShape'
    BY <1>1, <1>10 DEF Click, requestVars
  <1>11. ASSUME NEW k \in clicks, Dispatch(k) PROVE RowShape'
    <2>1. ASSUME k.card \in Questions, AnswerQuestion(k.card, k.value) PROVE RowShape'
      BY <1>0, <1>1, <2>1 DEF AnswerQuestion, DeleteRow, requestVars, TypeOK, Cards
    <2>2. ASSUME k.card \in Requests, Resolve(k.card, k.value) PROVE RowShape'
      BY <2>2 DEF Resolve, Answer, DeleteRow, TypeOK, Cards
    <2>3. ASSUME k.card \in Requests, DropRow(k.card) PROVE RowShape'
      BY <2>3 DEF DropRow, DeleteRow, requestVars, TypeOK, Cards
    <2>4. ASSUME Ignore(k) PROVE RowShape'
      BY <1>1, <2>4 DEF Ignore, requestVars
    <2>5. QED BY <1>11, <2>1, <2>2, <2>3, <2>4 DEF Dispatch
  <1>12. ASSUME HostRestart PROVE RowShape'
    BY <1>12 DEF HostRestart, TypeOK, Cards
  <1>13. ASSUME UNCHANGED vars PROVE RowShape'
    BY <1>1, <1>13 DEF vars, cardVars, requestVars
  <1>14. QED
    BY <1>2, <1>3, <1>4, <1>5, <1>6, <1>7, <1>8, <1>9, <1>10, <1>11, <1>12, <1>13 DEF Next

\* No answer without a sending of its own.
LEMMA AnswerKept == TypeOK /\ AnswerShape /\ [Next]_vars => AnswerShape'
  <1> SUFFICES ASSUME TypeOK, AnswerShape, [Next]_vars PROVE AnswerShape' OBVIOUS
  <1>0. \A q \in Questions, r \in Requests : q # r
    BY CardsAssumption
  <1>1. ASSUME UNCHANGED <<written, sends>>,
               \A q \in Questions : row'[q] = row[q] \/ row'[q] = "none"
        PROVE AnswerShape'
    BY <1>1 DEF AnswerShape
  <1>2. ASSUME NEW q \in Questions, Ask(q) \/ Posted(q) \/ Sent(q) \/ SendFails(q) \/ TakeAnswer(q) \/ GiveUp(q)
        PROVE AnswerShape'
    BY <1>1, <1>2 DEF Ask, Posted, Sent, SendFails, TakeAnswer, GiveUp, cardVars, requestVars
  <1>3. ASSUME NEW q \in Questions, Send(q) PROVE AnswerShape'
    <2> SUFFICES ASSUME NEW p \in Questions
                 PROVE  written'[p] <= sends'[p] /\ (row'[p] # "none" => written'[p] < sends'[p])
      BY DEF AnswerShape
    <2>1. /\ written' = written /\ written[p] \in Nat /\ sends[p] \in Nat
          /\ sends'[p] = IF p = q THEN sends[p] + 1 ELSE sends[p]
          /\ row'[p] = IF p = q THEN "pending" ELSE row[p]
      BY <1>3 DEF Send, TypeOK, Cards
    <2>2. written[p] <= sends[p] /\ (row[p] # "none" => written[p] < sends[p])
      BY DEF AnswerShape
    <2>3. QED BY <2>1, <2>2
  <1>4. ASSUME NEW r \in Requests, Hold(r) \/ CardShown(r) \/ HoldFails(r) PROVE AnswerShape'
    BY <1>1, <1>4 DEF Hold, CardShown, HoldFails, cardVars, questionVars
  <1>5. ASSUME NEW r \in Requests, Held(r) \/ TimesOut(r) PROVE AnswerShape'
    BY <1>0, <1>1, <1>5 DEF Held, TimesOut, questionVars, TypeOK, Cards
  <1>6. ASSUME NEW r \in Requests, Expired(r) \/ Sweep(r) PROVE AnswerShape'
    BY <1>0, <1>1, <1>6 DEF Expired, Sweep, DeleteRow, questionVars, TypeOK, Cards
  <1>7. ASSUME NEW c \in Cards, NEW u \in Users, NEW o \in Options, Click(c, u, o) PROVE AnswerShape'
    BY <1>1, <1>7 DEF Click, questionVars
  <1>8. ASSUME NEW k \in clicks, Dispatch(k) PROVE AnswerShape'
    <2>0. sends' = sends
      BY <1>8 DEF Dispatch
    <2>1. ASSUME k.card \in Questions, AnswerQuestion(k.card, k.value) PROVE AnswerShape'
      <3> SUFFICES ASSUME NEW p \in Questions
                   PROVE  written'[p] <= sends'[p] /\ (row'[p] # "none" => written'[p] < sends'[p])
        BY DEF AnswerShape
      <3>1. /\ row[k.card] # "none" /\ written[p] \in Nat /\ sends[p] \in Nat
            /\ written'[p] = IF p = k.card THEN written[p] + 1 ELSE written[p]
            /\ row'[p] = IF p = k.card THEN "none" ELSE row[p]
        BY <2>1 DEF AnswerQuestion, DeleteRow, TypeOK, Cards
      <3>2. written[p] <= sends[p] /\ (row[p] # "none" => written[p] < sends[p])
        BY DEF AnswerShape
      <3>3. QED BY <2>0, <3>1, <3>2
    <2>2. ASSUME k.card \in Requests, Resolve(k.card, k.value) \/ DropRow(k.card) PROVE AnswerShape'
      BY <1>0, <1>1, <2>0, <2>2 DEF Resolve, DropRow, DeleteRow, TypeOK, Cards
    <2>3. ASSUME Ignore(k) PROVE AnswerShape'
      BY <1>1, <2>0, <2>3 DEF Ignore
    <2>4. QED BY <1>8, <2>1, <2>2, <2>3 DEF Dispatch
  <1>9. ASSUME HostRestart PROVE AnswerShape'
    BY <1>1, <1>9 DEF HostRestart
  <1>10. ASSUME UNCHANGED vars PROVE AnswerShape'
    BY <1>1, <1>10 DEF vars, cardVars, questionVars
  <1>11. QED
    BY <1>2, <1>3, <1>4, <1>5, <1>6, <1>7, <1>8, <1>9, <1>10 DEF Next

\* What clicks bring about is what was clicked, once, and in time: for any
\* number of cards, users, clicks and restarts.
THEOREM ClicksCounted == Spec => []ClicksCount
  <1>1. Init => SaidShape /\ RowShape /\ AnswerShape
    BY CardsAssumption DEF Init, SaidShape, RowShape, AnswerShape, OnlyWhatWasSaid, Cards, Options
  <1>2. TypeOK /\ SaidShape /\ RowShape /\ AnswerShape => ClicksCount
    <2> SUFFICES ASSUME TypeOK, SaidShape, RowShape, AnswerShape PROVE ClicksCount OBVIOUS
    <2>1. RowsHaveAnEnd
      BY DEF RowShape, RowsHaveAnEnd
    <2>2. OneAnswerPerCard
      BY DEF AnswerShape, OneAnswerPerCard
    <2>3. QED BY <2>1, <2>2 DEF ClicksCount, SaidShape
  <1>3. QED BY CardTypes, SaidKept, RowKept, AnswerKept, <1>1, <1>2, PTL DEF Spec
=============================================================================
