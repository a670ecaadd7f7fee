--------------------------- MODULE Routing_proofs ---------------------------
(***************************************************************************)
(* Who is let in, followed and answered, for any channels, users, agents   *)
(* and messages.                                                           *)
(***************************************************************************)
EXTENDS Routing, TLAPS

\* An agent wired where the message came from, that engages on it.
Wanted(m, a) == <<a, ChannelOf[m]>> \in wired /\ Engages(m, a)

\* Whatever is under way or held came in before, and is about an agent that
\* is wired there and wanted it.
Origin ==
    /\ \A j \in jobs : j.msg \in sent /\ \A a \in j.left : <<a, ChannelOf[j.msg]>> \in wired
    /\ \A x \in asking :
        /\ x[1] \in sent
        /\ x[2] = Nobody => x[1] \in Mentions
        /\ x[2] # Nobody => Wanted(x[1], x[2])
    /\ \A h \in heldSender : h.msg \in sent /\ Wanted(h.msg, h.agent)
    /\ \A h \in heldChannel : h.msg \in sent /\ h.msg \in Mentions

\* A routing by a decision will come to the agent the message was held for,
\* that engages and whose member the sender is now, or has come there.
Promise ==
    \A j \in jobs : j.for # Nobody =>
        /\ Engages(j.msg, j.for) /\ CanAccess(SenderOf[j.msg], j.for)
        /\ j.for \in j.left \/ j.for \in Reached(j.msg) \/ Command[j.msg] = "filter"

\* Nobody is no agent, agents are numbers, and messages have their places.
LEMMA Constants ==
    /\ \A m \in Msgs : ChannelOf[m] \in Channels /\ SenderOf[m] \in Users /\ ThreadOf[m] \in Threads
    /\ Nobody \notin Agents /\ 1 \in Agents
    /\ Founded \in Agents /\ Mentions \subseteq Msgs /\ NoChannel \notin Channels
    /\ \A a \in Agents : a \in Nat
  BY RoutingAssumption DEF Agents, Nobody

\* What a message is, and where it goes, when it is routed or passed on.
LEMMA Typed ==
    ASSUME TypeOK, NEW j \in jobs
    PROVE  /\ j \in Fans /\ j.msg \in Msgs /\ j.for \in Agents \union {Nobody} /\ j.left \subseteq Agents
           /\ \A a \in j.left : Place(j.msg, a) \in Agents \X Channels \X Threads
  BY Constants DEF TypeOK, Fans, Place

\* The cards a stretch of a fan-out asks for.
Refusals(j, A) == \A x \in A : x[1] = j.msg /\ x[2] \in j.left /\ Asks(j.msg, x[2]) /\ x = <<x[1], x[2]>>

\* A stretch ends with no agent left that takes the message, or at the first
\* that does: it is delivered to, or has the message already.
LEMMA Stretch ==
    ASSUME TypeOK, NEW j \in jobs, FanOut(j)
    PROVE  /\ UNCHANGED <<sent, group, denied, wired, member, heldSender, heldChannel,
                          naming, made, restarts>>
           /\ \E A : asking' = asking \union A /\ Refusals(j, A)
           /\ \/ /\ \A a \in j.left : ~Takes(j.msg, a)
                 /\ jobs' = jobs \ {j} /\ UNCHANGED <<session, inbox, refused, subscribed>>
              \/ \E a \in j.left :
                    /\ Takes(j.msg, a) /\ \A b \in j.left : Takes(j.msg, b) => a <= b
                    /\ \/ DeliverTo(j.msg, a, j)
                       \/ /\ Duplicate(j.msg, a) /\ jobs' = jobs \ {j}
                          /\ session' = session \union {Place(j.msg, a)}
                          /\ UNCHANGED <<inbox, refused, subscribed>>
  <1> DEFINE m == j.msg
             takers == {a \in j.left : Takes(m, a)}
             passed == {a \in j.left : \A b \in takers : a < b}
             A == {<<m, a>> : a \in {b \in passed : Asks(m, b)}}
  <1>1. /\ UNCHANGED <<sent, group, denied, wired, member, heldSender, heldChannel,
                       naming, made, restarts>>
        /\ asking' = asking \union A
    BY DEF FanOut
  <1>2. Refusals(j, A)
    BY DEF Refusals
  <1>3. \/ /\ takers = {}
           /\ jobs' = jobs \ {j} /\ UNCHANGED <<session, inbox, refused, subscribed>>
        \/ \E a \in takers : (\A b \in takers : a <= b) /\ DeliverTo(m, a, j)
        \/ \E a \in takers :
             /\ \A b \in takers : a <= b
             /\ Duplicate(m, a)
             /\ jobs' = jobs \ {j} /\ session' = session \union {Place(m, a)}
             /\ UNCHANGED <<inbox, refused, subscribed>>
    BY DEF FanOut
  <1>4. \E B : asking' = asking \union B /\ Refusals(j, B)
    BY <1>1, <1>2
  <1>5. CASE takers = {} /\ jobs' = jobs \ {j} /\ UNCHANGED <<session, inbox, refused, subscribed>>
    BY <1>1, <1>4, <1>5
  <1>6. CASE \E a \in takers : (\A b \in takers : a <= b) /\ DeliverTo(m, a, j)
    BY <1>1, <1>4, <1>6
  <1>7. CASE \E a \in takers :
               /\ \A b \in takers : a <= b
               /\ Duplicate(m, a)
               /\ jobs' = jobs \ {j} /\ session' = session \union {Place(m, a)}
               /\ UNCHANGED <<inbox, refused, subscribed>>
    BY <1>1, <1>4, <1>7
  <1>8. QED BY <1>3, <1>5, <1>6, <1>7

\* What a delivery leaves behind, of the right types.
LEMMA Delivered ==
    ASSUME TypeOK, NEW j \in jobs, NEW a \in j.left, DeliverTo(j.msg, a, j)
    PROVE  /\ jobs' = (jobs \ {j}) \union {[j EXCEPT !.left = {b \in @ : b > a}]}
           /\ [j EXCEPT !.left = {b \in @ : b > a}] \in Fans
           /\ session' = session \union {Place(j.msg, a)}
           /\ inbox' \in [Msgs -> [Agents -> {"none", "context", "trigger"}]]
           /\ refused' \subseteq Msgs \X Agents /\ subscribed' \subseteq Channels \X Threads
  <1>1. /\ j \in Fans /\ j.msg \in Msgs /\ a \in Agents /\ j.left \subseteq Agents
        /\ ChannelOf[j.msg] \in Channels /\ ThreadOf[j.msg] \in Threads
    BY Typed, Constants
  <1>2. [j EXCEPT !.left = {b \in @ : b > a}] \in Fans
    <2>1. {b \in j.left : b > a} \in SUBSET Agents
      BY <1>1
    <2>2. QED BY <1>1, <2>1 DEF Fans
  <1>3. inbox' \in [Msgs -> [Agents -> {"none", "context", "trigger"}]]
    <2> DEFINE v == IF Gate(j.msg, a) # "pass" THEN inbox[j.msg][a]
                    ELSE IF Engages(j.msg, a) THEN "trigger" ELSE "context"
    <2>1. inbox[j.msg][a] \in {"none", "context", "trigger"}
      BY <1>1 DEF TypeOK
    <2>2. v \in {"none", "context", "trigger"}
      BY <2>1
    <2>3. inbox' = [inbox EXCEPT ![j.msg][a] = v]
      BY DEF DeliverTo
    <2> HIDE DEF v
    <2>4. inbox' = [inbox EXCEPT ![j.msg] = [inbox[j.msg] EXCEPT ![a] = v]]
      BY <2>3
    <2>5. [inbox[j.msg] EXCEPT ![a] = v] \in [Agents -> {"none", "context", "trigger"}]
      BY <1>1, <2>2 DEF TypeOK
    <2>6. QED BY <2>4, <2>5 DEF TypeOK
  <1>4. QED BY <1>1, <1>2, <1>3 DEF DeliverTo, Follow, TypeOK

-----------------------------------------------------------------------------
\* The initial values have their types.
LEMMA InitTypes == Init => TypeOK
  <1>1. (1..Founded) \subseteq Agents /\ Founded \in Agents /\ 0 \in 0..MaxRestarts
    BY RoutingAssumption DEF Agents
  <1>2. FirstWired \subseteq Agents \X Channels /\ FirstMember \subseteq Users \X Agents
    BY <1>1, RoutingAssumption
  <1>3. {x[2] : x \in FirstWired} \subseteq Channels
    BY <1>2
  <1>4. QED BY <1>1, <1>2, <1>3 DEF Init, TypeOK

\* Routing a message keeps the types of what it starts or asks for.
LEMMA RoutedTypes ==
    ASSUME TypeOK, NEW m \in Msgs, NEW f \in Agents \union {Nobody}, NEW W, W \subseteq Agents \X Channels,
           Routed(m, f, W)
    PROVE  jobs' \subseteq Fans /\ group' \subseteq Channels /\ asking' \subseteq Msgs \X (Agents \union {Nobody})
  <1>1. [msg |-> m, for |-> f, left |-> WiredTo(ChannelOf[m], W)] \in Fans
    BY DEF Fans, WiredTo
  <1>2. ChannelOf[m] \in Channels
    BY Constants
  <1>3. QED BY <1>1, <1>2 DEF Routed, TypeOK

\* ... and so does wiring a channel.
LEMMA WireTypes ==
    ASSUME TypeOK, NEW h \in heldChannel, NEW a \in Agents, WireChannel(h, a)
    PROVE  /\ jobs' \subseteq Fans /\ group' \subseteq Channels /\ asking' \subseteq Msgs \X (Agents \union {Nobody})
           /\ wired' \subseteq Agents \X Channels /\ member' \subseteq Users \X Agents
           /\ heldChannel' \subseteq heldChannel
  <1>1. h.msg \in Msgs
    BY DEF TypeOK
  <1>2. ChannelOf[h.msg] \in Channels /\ SenderOf[h.msg] \in Users
    BY <1>1, Constants
  <1>3. CASE <<a, ChannelOf[h.msg]>> \in wired
    BY <1>3 DEF WireChannel, TypeOK
  <1>4. CASE <<a, ChannelOf[h.msg]>> \notin wired
    <2> DEFINE W == wired \union {<<a, ChannelOf[h.msg]>>}
    <2>1. Routed(h.msg, a, W) /\ wired' = W /\ member' = member \union {<<SenderOf[h.msg], a>>}
          /\ heldChannel' = heldChannel \ {h}
      BY <1>4 DEF WireChannel
    <2>2. W \subseteq Agents \X Channels
      BY <1>2 DEF TypeOK
    <2> HIDE DEF W
    <2>3. jobs' \subseteq Fans /\ group' \subseteq Channels /\ asking' \subseteq Msgs \X (Agents \union {Nobody})
      BY <1>1, <2>1, <2>2, RoutedTypes
    <2>4. QED BY <1>2, <2>1, <2>2, <2>3 DEF TypeOK
  <1>5. QED BY <1>3, <1>4

\* Every step keeps the types.
LEMMA TypesKept == TypeOK /\ [Next]_vars => TypeOK'
  <1> SUFFICES ASSUME TypeOK, [Next]_vars PROVE TypeOK' OBVIOUS
  <1> USE DEF TypeOK
  <1>1. ASSUME NEW m \in Msgs, Receive(m) PROVE TypeOK'
    <2>1. jobs' \subseteq Fans /\ group' \subseteq Channels /\ asking' \subseteq Msgs \X (Agents \union {Nobody})
      BY <1>1, RoutedTypes DEF Receive
    <2>2. QED BY <1>1, <2>1 DEF Receive
  <1>2. ASSUME NEW m \in Msgs, NEW f \in Agents \union {Nobody}, AskFails(m, f) PROVE TypeOK'
    BY <1>2 DEF AskFails
  <1>3. ASSUME NEW m \in Msgs, NEW u \in Users, NEW a \in Agents, HoldSender(m, a, u) PROVE TypeOK'
    BY <1>3 DEF HoldSender
  <1>4. ASSUME NEW m \in Msgs, NEW u \in Users, HoldChannel(m, u) PROVE TypeOK'
    BY <1>4 DEF HoldChannel
  <1>5. ASSUME NEW j \in jobs, FanOut(j) PROVE TypeOK'
    <2>0. /\ j.msg \in Msgs /\ j.left \subseteq Agents
          /\ \A a \in j.left : Place(j.msg, a) \in Agents \X Channels \X Threads
      BY Typed
    <2>1. asking' \subseteq Msgs \X (Agents \union {Nobody})
      <3>1. PICK A : asking' = asking \union A /\ Refusals(j, A)
        BY <1>5, Stretch
      <3>2. QED BY <2>0, <3>1 DEF Refusals
    <2>2. /\ jobs' \subseteq Fans /\ session' \subseteq Agents \X Channels \X Threads
          /\ inbox' \in [Msgs -> [Agents -> {"none", "context", "trigger"}]]
          /\ refused' \subseteq Msgs \X Agents /\ subscribed' \subseteq Channels \X Threads
      <3>1. CASE \E a \in j.left : DeliverTo(j.msg, a, j)
        <4>1. PICK a \in j.left : DeliverTo(j.msg, a, j)
          BY <3>1
        <4>2. Place(j.msg, a) \in Agents \X Channels \X Threads
          BY <2>0
        <4>3. /\ jobs' \subseteq Fans
              /\ session' = session \union {Place(j.msg, a)}
              /\ inbox' \in [Msgs -> [Agents -> {"none", "context", "trigger"}]]
              /\ refused' \subseteq Msgs \X Agents /\ subscribed' \subseteq Channels \X Threads
          <5>1. TypeOK OBVIOUS
          <5>2. jobs \subseteq Fans OBVIOUS
          <5> HIDE DEF TypeOK
          <5>3. QED BY <4>1, <5>1, <5>2, Delivered
        <4>4. QED BY <4>2, <4>3
      <3>2. CASE /\ jobs' = jobs \ {j} /\ UNCHANGED <<inbox, refused, subscribed>>
                 /\ session' = session \/ \E a \in j.left : session' = session \union {Place(j.msg, a)}
        BY <2>0, <3>2
      <3>3. QED BY <1>5, <3>1, <3>2, Stretch
    <2>3. UNCHANGED <<sent, group, denied, wired, member, heldSender, heldChannel, naming, made, restarts>>
      BY <1>5, Stretch
    <2>4. QED BY <2>1, <2>2, <2>3
  <1>6. ASSUME NEW u \in Users, NEW h \in heldSender, Admit(h, u) PROVE TypeOK'
    <2>1. h.msg \in Msgs /\ h.agent \in Agents /\ SenderOf[h.msg] \in Users
      BY Constants
    <2>2. jobs' \subseteq Fans /\ group' \subseteq Channels /\ asking' \subseteq Msgs \X (Agents \union {Nobody})
      BY <1>6, <2>1, RoutedTypes DEF Admit
    <2>3. QED BY <1>6, <2>1, <2>2 DEF Admit
  <1>7. ASSUME NEW u \in Users, NEW h \in heldSender, Refuse(h, u) PROVE TypeOK'
    BY <1>7 DEF Refuse
  <1>8. ASSUME NEW u \in Users, NEW h \in heldChannel, AskName(h, u) \/ Deny(h, u) PROVE TypeOK'
    <2>1. h.by \in Users /\ ChannelOf[h.msg] \in Channels
      BY Constants
    <2>2. QED BY <1>8, <2>1 DEF AskName, Deny
  <1>9. ASSUME NEW u \in Users, NEW h \in heldChannel, NEW a \in Agents, Connect(h, u, a) PROVE TypeOK'
    BY <1>9, WireTypes DEF Connect
  <1>10. ASSUME NEW u \in Users, Name(u) PROVE TypeOK'
    <2>1. CASE UNCHANGED <<jobs, group, asking, wired, member, heldChannel, made>>
      BY <1>10, <2>1 DEF Name
    <2>2. CASE \E h \in heldChannel : made < MaxAgents /\ made' = made + 1 /\ WireChannel(h, made + 1)
      <3>1. PICK h \in heldChannel : made < MaxAgents /\ made' = made + 1 /\ WireChannel(h, made + 1)
        BY <2>2
      <3>2. made + 1 \in Agents
        BY <3>1, RoutingAssumption DEF Agents
      <3>3. QED BY <1>10, <3>1, <3>2, WireTypes DEF Name
    <2>3. QED BY <1>10, <2>1, <2>2 DEF Name
  <1>11. ASSUME NEW u \in Users, NameLost(u) PROVE TypeOK'
    BY <1>11 DEF NameLost
  <1>12. ASSUME HostRestart PROVE TypeOK'
    <2>1. restarts' \in 0..MaxRestarts /\ naming' \in [Users -> Channels \union {NoChannel}]
      BY <1>12, RoutingAssumption DEF HostRestart
    <2>2. QED BY <1>12, <2>1 DEF HostRestart
  <1>13. ASSUME UNCHANGED vars PROVE TypeOK'
    BY <1>13 DEF vars, cardVars
  <1>14. QED
    BY <1>1, <1>2, <1>3, <1>4, <1>5, <1>6, <1>7, <1>8, <1>9, <1>10, <1>11, <1>12, <1>13 DEF Next

\* The variables of routings, cards, wirings and sessions keep their types.
THEOREM RoutingTypes == Spec => []TypeOK
  BY InitTypes, TypesKept, PTL DEF Spec

-----------------------------------------------------------------------------
\* Wirings, members, sessions and what was sent only ever become more.
Grown == wired \subseteq wired' /\ member \subseteq member' /\ session \subseteq session' /\ sent \subseteq sent'

\* A message that reached an agent stays where it is.
Kept ==
    /\ \A m \in Msgs, a \in Agents : inbox[m][a] # "none" => inbox'[m][a] = inbox[m][a]
    /\ refused \subseteq refused'

\* No step takes back a wiring, a member, a session or a message.
LEMMA Grows == TypeOK /\ [Next]_vars => Grown /\ Kept
  <1> SUFFICES ASSUME TypeOK, [Next]_vars PROVE Grown /\ Kept OBVIOUS
  <1> USE DEF Grown, Kept
  <1>1. ASSUME NEW m \in Msgs,
               \/ Receive(m) \/ \E f \in Agents \union {Nobody} : AskFails(m, f)
               \/ \E u \in Users : (\E a \in Agents : HoldSender(m, a, u)) \/ HoldChannel(m, u)
        PROVE Grown /\ Kept
    BY <1>1 DEF Receive, AskFails, HoldSender, HoldChannel
  <1>2. ASSUME NEW j \in jobs, FanOut(j) PROVE Grown /\ Kept
    <2>1. UNCHANGED <<wired, member, sent>> /\ session \subseteq session'
      BY <1>2, Stretch DEF DeliverTo
    <2>2. CASE UNCHANGED <<inbox, refused>>
      BY <2>1, <2>2
    <2>3. CASE \E a \in j.left : DeliverTo(j.msg, a, j)
      <3>1. PICK a \in j.left : DeliverTo(j.msg, a, j)
        BY <2>3
      <3>2. j.msg \in Msgs /\ a \in Agents
        BY Typed
      <3>3. refused \subseteq refused' /\ (Gate(j.msg, a) # "pass" \/ inbox[j.msg][a] = "none")
        BY <3>1 DEF DeliverTo, Duplicate
      <3>4. \E v : inbox' = [inbox EXCEPT ![j.msg][a] = v] /\ (Gate(j.msg, a) # "pass" => v = inbox[j.msg][a])
        BY <3>1 DEF DeliverTo
      <3>5. PICK v : inbox' = [inbox EXCEPT ![j.msg][a] = v] /\ (inbox[j.msg][a] # "none" => v = inbox[j.msg][a])
        BY <3>3, <3>4
      <3>6. ASSUME NEW m \in Msgs, NEW b \in Agents, inbox[m][b] # "none"
            PROVE  inbox'[m][b] = inbox[m][b]
        BY <3>2, <3>5, <3>6 DEF TypeOK
      <3>7. QED BY <2>1, <3>3, <3>6
    <2>4. QED BY <1>2, <2>2, <2>3, Stretch
  <1>3. ASSUME NEW u \in Users, NEW h \in heldSender, Admit(h, u) \/ Refuse(h, u) PROVE Grown /\ Kept
    BY <1>3 DEF Admit, Refuse
  <1>4. ASSUME NEW u \in Users, NEW h \in heldChannel,
               AskName(h, u) \/ Deny(h, u) \/ \E a \in Agents : Connect(h, u, a)
        PROVE Grown /\ Kept
    BY <1>4 DEF AskName, Deny, Connect, WireChannel
  <1>5. ASSUME NEW u \in Users, Name(u) \/ NameLost(u) PROVE Grown /\ Kept
    BY <1>5 DEF Name, NameLost, WireChannel
  <1>6. ASSUME HostRestart \/ UNCHANGED vars PROVE Grown /\ Kept
    BY <1>6 DEF HostRestart, vars, cardVars
  <1>7. QED BY <1>1, <1>2, <1>3, <1>4, <1>5, <1>6 DEF Next

\* So whoever engages on a message, is let in or was reached by it, goes on so.
LEMMA Lasting ==
    ASSUME TypeOK, Grown, Kept, NEW m \in Msgs, NEW a \in Agents
    PROVE  /\ Engages(m, a) => Engages(m, a)'
           /\ Wanted(m, a) => Wanted(m, a)'
           /\ CanAccess(SenderOf[m], a) => CanAccess(SenderOf[m], a)'
           /\ Admitted(m, a) => Admitted(m, a)'
           /\ a \in Reached(m) => a \in Reached(m)'
  <1>1. Engages(m, a) => Engages(m, a)'
    BY DEF Grown, Engages, Place
  <1>2. CanAccess(SenderOf[m], a) => CanAccess(SenderOf[m], a)'
    BY DEF Grown, CanAccess
  <1>3. Wanted(m, a) => Wanted(m, a)'
    BY <1>1 DEF Wanted, Grown
  <1>4. Admitted(m, a) => Admitted(m, a)'
    BY <1>2 DEF Admitted, AccessOk, ScopeOk
  <1>5. a \in Reached(m) => a \in Reached(m)'
    BY DEF Reached, Kept
  <1>6. QED BY <1>1, <1>2, <1>3, <1>4, <1>5

\* Whoever engages on a mention, wired by a card, or asked for a card.
LEMMA MentionEngages ==
    ASSUME NEW m \in Msgs, NEW a \in Agents, m \in Mentions PROVE Engages(m, a)
  <1>1. Mode[<<a, ChannelOf[m]>>] \in {"all", "mention", "mention-sticky"}
    BY Constants, RoutingAssumption
  <1>2. QED BY <1>1 DEF Engages

\* Every step keeps the origin of what is under way.
LEMMA OriginKept == TypeOK /\ Origin /\ [Next]_vars => Origin'
  <1> SUFFICES ASSUME TypeOK, Origin, [Next]_vars PROVE Origin' OBVIOUS
  <1>0. Grown /\ Kept
    BY Grows
  <1> DEFINE J == \A j \in jobs' : j.msg \in sent' /\ \A a \in j.left : <<a, ChannelOf[j.msg]>> \in wired'
             A == \A x \in asking' :
                    /\ x[1] \in sent'
                    /\ x[2] = Nobody => x[1] \in Mentions
                    /\ x[2] # Nobody => Wanted(x[1], x[2])'
             S == \A h \in heldSender' : h.msg \in sent' /\ Wanted(h.msg, h.agent)'
             C == \A h \in heldChannel' : h.msg \in sent' /\ h.msg \in Mentions
  <1>1. J /\ A /\ S /\ C => Origin'
    BY DEF Origin
  <1>2. jobs' \subseteq jobs => J
    BY <1>0 DEF Origin, Grown
  <1>3. \A x \in asking : /\ x[1] \in sent' /\ (x[2] = Nobody => x[1] \in Mentions)
                          /\ (x[2] # Nobody => Wanted(x[1], x[2])')
    <2> SUFFICES ASSUME NEW x \in asking
                 PROVE  /\ x[1] \in sent' /\ (x[2] = Nobody => x[1] \in Mentions)
                        /\ (x[2] # Nobody => Wanted(x[1], x[2])')
      OBVIOUS
    <2>1. x[1] \in Msgs /\ (x[2] # Nobody => x[2] \in Agents)
      BY DEF TypeOK
    <2>2. x[1] \in sent /\ (x[2] = Nobody => x[1] \in Mentions) /\ (x[2] # Nobody => Wanted(x[1], x[2]))
      BY DEF Origin
    <2>3. QED BY <1>0, <2>1, <2>2, Lasting DEF Grown
  <1>4. asking' \subseteq asking => A
    BY <1>3
  <1>5. heldSender' \subseteq heldSender => S
    <2> SUFFICES ASSUME NEW h \in heldSender PROVE h.msg \in sent' /\ Wanted(h.msg, h.agent)'
      OBVIOUS
    <2>1. h.msg \in Msgs /\ h.agent \in Agents /\ h.msg \in sent /\ Wanted(h.msg, h.agent)
      BY DEF TypeOK, Origin
    <2>2. QED BY <1>0, <2>1, Lasting DEF Grown
  <1>6. heldChannel' \subseteq heldChannel => C
    BY <1>0 DEF Origin, Grown
  <1>7. ASSUME NEW m \in sent', NEW f, Routed(m, f, wired') PROVE J /\ A
    <2>1. CASE jobs' = jobs \union {[msg |-> m, for |-> f, left |-> WiredTo(ChannelOf[m], wired')]} /\ asking' = asking
      <3>1. \A j \in jobs : j.msg \in sent' /\ \A a \in j.left : <<a, ChannelOf[j.msg]>> \in wired'
        BY <1>0 DEF Origin, Grown
      <3>2. J
        BY <2>1, <3>1 DEF WiredTo
      <3>3. QED BY <1>4, <2>1, <3>2
    <2>2. CASE jobs' = jobs /\ (asking' = asking \/ (m \in Mentions /\ asking' = asking \union {<<m, Nobody>>}))
      BY <1>2, <1>3, <2>2
    <2>3. QED BY <1>7, <2>1, <2>2 DEF Routed
  <1>8. ASSUME NEW h \in heldChannel, NEW a \in Agents, WireChannel(h, a) PROVE J /\ A /\ C
    <2>1. CASE UNCHANGED <<jobs, asking, heldChannel>>
      BY <1>2, <1>4, <1>6, <2>1
    <2>2. CASE Routed(h.msg, a, wired') /\ heldChannel' = heldChannel \ {h}
      <3>1. h.msg \in sent'
        BY <1>0 DEF Origin, Grown
      <3>2. QED BY <1>6, <1>7, <2>2, <3>1
    <2>3. QED BY <1>8, <2>1, <2>2 DEF WireChannel
  <1> HIDE DEF J, A, S, C
  <1>9. ASSUME NEW m \in Msgs, Receive(m) PROVE Origin'
    <2>1. m \in sent' /\ Routed(m, Nobody, wired') /\ UNCHANGED <<heldSender, heldChannel>>
      BY <1>9 DEF Receive
    <2>2. QED BY <1>1, <1>5, <1>6, <1>7, <2>1
  <1>10. ASSUME NEW m \in Msgs, NEW f \in Agents \union {Nobody}, AskFails(m, f) PROVE Origin'
    BY <1>1, <1>2, <1>4, <1>5, <1>6, <1>10 DEF AskFails
  <1>11. ASSUME NEW m \in Msgs, NEW u \in Users, NEW a \in Agents, HoldSender(m, a, u) PROVE Origin'
    <2>1. S
      <3>1. m \in sent' /\ Wanted(m, a)'
        BY <1>3, <1>11 DEF HoldSender
      <3>2. \A h \in heldSender : h.msg \in sent' /\ Wanted(h.msg, h.agent)'
        <4>1. heldSender \subseteq heldSender => \A h \in heldSender : h.msg \in sent /\ Wanted(h.msg, h.agent) /\ h.msg \in Msgs /\ h.agent \in Agents
          BY DEF TypeOK, Origin
        <4>2. QED BY <1>0, <4>1, Lasting DEF Grown
      <3>3. QED BY <1>11, <3>1, <3>2 DEF S, HoldSender
    <2>2. QED BY <1>1, <1>2, <1>4, <1>6, <1>11, <2>1 DEF HoldSender
  <1>12. ASSUME NEW m \in Msgs, NEW u \in Users, HoldChannel(m, u) PROVE Origin'
    <2>1. C
      <3>1. m \in sent' /\ m \in Mentions
        BY <1>3, <1>12 DEF HoldChannel
      <3>2. \A h \in heldChannel : h.msg \in sent' /\ h.msg \in Mentions
        BY <1>0 DEF Origin, Grown
      <3>3. QED BY <1>12, <3>1, <3>2 DEF C, HoldChannel
    <2>2. QED BY <1>1, <1>2, <1>4, <1>5, <1>12, <2>1 DEF HoldChannel
  <1>13. ASSUME NEW j \in jobs, FanOut(j) PROVE Origin'
    <2>1. UNCHANGED <<sent, wired, heldSender, heldChannel>>
      BY <1>13, Stretch
    <2>2. A
      <3>1. PICK B : asking' = asking \union B /\ Refusals(j, B)
        BY <1>13, Stretch
      <3>2. ASSUME NEW x \in B PROVE x[1] \in sent' /\ x[2] # Nobody /\ Wanted(x[1], x[2])'
        <4>1. x[1] = j.msg /\ x[2] \in j.left /\ Engages(j.msg, x[2])
          BY <3>1 DEF Refusals, Asks
        <4>2. x[1] \in Msgs /\ x[2] \in Agents /\ j.msg \in sent /\ Wanted(x[1], x[2])
          BY <4>1, Typed DEF Origin, Wanted
        <4>3. QED BY <1>0, <2>1, <4>1, <4>2, Lasting, Constants
      <3>3. QED BY <1>3, <3>1, <3>2 DEF A
    <2>3. J
      <3>1. \A k \in jobs' : \E i \in jobs : k.msg = i.msg /\ k.left \subseteq i.left
        <4>1. CASE jobs' \subseteq jobs
          BY <4>1
        <4>2. CASE \E a \in j.left : DeliverTo(j.msg, a, j)
          <5>1. PICK a : jobs' = (jobs \ {j}) \union {[j EXCEPT !.left = {b \in @ : b > a}]}
            BY <4>2 DEF DeliverTo
          <5>2. j \in Fans
            BY Typed
          <5>3. [j EXCEPT !.left = {b \in @ : b > a}].msg = j.msg
                /\ [j EXCEPT !.left = {b \in @ : b > a}].left \subseteq j.left
            BY <5>2 DEF Fans
          <5>4. QED BY <5>1, <5>3
        <4>3. QED BY <1>13, <4>1, <4>2, Stretch
      <3>2. QED BY <2>1, <3>1 DEF J, Origin
    <2>4. QED BY <1>1, <1>5, <1>6, <2>1, <2>2, <2>3
  <1>14. ASSUME NEW u \in Users, NEW h \in heldSender, Admit(h, u) PROVE Origin'
    <2>1. h.msg \in sent'
      BY <1>0 DEF Origin, Grown
    <2>2. Routed(h.msg, h.agent, wired') /\ heldSender' \subseteq heldSender /\ UNCHANGED heldChannel
      BY <1>14 DEF Admit
    <2>3. QED BY <1>1, <1>5, <1>6, <1>7, <2>1, <2>2
  <1>15. ASSUME NEW u \in Users, NEW h \in heldSender, Refuse(h, u) PROVE Origin'
    BY <1>1, <1>2, <1>4, <1>5, <1>6, <1>15 DEF Refuse
  <1>16. ASSUME NEW u \in Users, NEW h \in heldChannel, AskName(h, u) \/ Deny(h, u) PROVE Origin'
    BY <1>1, <1>2, <1>4, <1>5, <1>6, <1>16 DEF AskName, Deny
  <1>17. ASSUME NEW u \in Users, NEW h \in heldChannel, NEW a \in Agents, Connect(h, u, a) PROVE Origin'
    BY <1>1, <1>5, <1>8, <1>17 DEF Connect
  <1>18. ASSUME NEW u \in Users, Name(u) \/ NameLost(u) PROVE Origin'
    <2>1. UNCHANGED heldSender
      BY <1>18 DEF Name, NameLost
    <2>2. CASE UNCHANGED <<jobs, asking, heldChannel>>
      BY <1>1, <1>2, <1>4, <1>5, <1>6, <2>1, <2>2
    <2>3. CASE \E h \in heldChannel : made < MaxAgents /\ WireChannel(h, made + 1)
      <3>1. PICK h \in heldChannel : made < MaxAgents /\ WireChannel(h, made + 1)
        BY <2>3
      <3>2. made + 1 \in Agents
        BY <3>1, RoutingAssumption DEF TypeOK, Agents
      <3>3. QED BY <1>1, <1>5, <1>8, <2>1, <3>1, <3>2
    <2>4. QED BY <1>18, <2>2, <2>3 DEF Name, NameLost
  <1>19. ASSUME HostRestart \/ UNCHANGED vars PROVE Origin'
    BY <1>1, <1>2, <1>4, <1>5, <1>6, <1>19 DEF HostRestart, vars, cardVars
  <1>20. QED
    BY <1>9, <1>10, <1>11, <1>12, <1>13, <1>14, <1>15, <1>16, <1>17, <1>18, <1>19 DEF Next

-----------------------------------------------------------------------------
\* Only a fan-out writes to agents and follows threads.
LEMMA OnlyFanOuts ==
    ASSUME TypeOK, [Next]_vars, \A j \in jobs : ~FanOut(j)
    PROVE  UNCHANGED <<inbox, subscribed>>
  <1>1. ASSUME NEW m \in Msgs,
               \/ Receive(m) \/ \E f \in Agents \union {Nobody} : AskFails(m, f)
               \/ \E u \in Users : (\E a \in Agents : HoldSender(m, a, u)) \/ HoldChannel(m, u)
        PROVE UNCHANGED <<inbox, subscribed>>
    BY <1>1 DEF Receive, AskFails, HoldSender, HoldChannel
  <1>2. ASSUME NEW u \in Users, NEW h, Admit(h, u) \/ Refuse(h, u) \/ AskName(h, u) \/ Deny(h, u)
                                       \/ \E a \in Agents : Connect(h, u, a)
        PROVE UNCHANGED <<inbox, subscribed>>
    BY <1>2 DEF Admit, Refuse, AskName, Deny, Connect
  <1>3. ASSUME NEW u \in Users, Name(u) \/ NameLost(u) PROVE UNCHANGED <<inbox, subscribed>>
    BY <1>3 DEF Name, NameLost
  <1>4. ASSUME HostRestart \/ UNCHANGED vars PROVE UNCHANGED <<inbox, subscribed>>
    BY <1>4 DEF HostRestart, vars
  <1>5. QED BY <1>1, <1>2, <1>3, <1>4 DEF Next

\* An agent that answers was wired, and its sender let in, when it was written to.
LEMMA StrangersKept == TypeOK /\ Origin /\ StrangersWait /\ [Next]_vars => StrangersWait'
  <1> SUFFICES ASSUME TypeOK, Origin, StrangersWait, [Next]_vars PROVE StrangersWait' OBVIOUS
  <1>0. Grown /\ Kept
    BY Grows
  <1> SUFFICES ASSUME NEW m \in Msgs, NEW a \in Agents, inbox'[m][a] = "trigger"
               PROVE  Admitted(m, a)' /\ <<a, ChannelOf[m]>> \in wired'
    BY DEF StrangersWait
  <1>1. CASE inbox[m][a] = "trigger"
    BY <1>0, <1>1, Lasting DEF StrangersWait, Grown
  <1>2. CASE inbox[m][a] # "trigger"
    <2>1. PICK j \in jobs : FanOut(j)
      BY <1>2, OnlyFanOuts
    <2>2. PICK b \in j.left : Takes(j.msg, b) /\ DeliverTo(j.msg, b, j)
      BY <1>2, <2>1, Stretch
    <2>3. j.msg \in Msgs /\ b \in Agents
      BY Typed
    <2>4. inbox' = [inbox EXCEPT ![j.msg][b] =
              IF Gate(j.msg, b) # "pass" THEN @ ELSE IF Engages(j.msg, b) THEN "trigger" ELSE "context"]
      BY <2>2 DEF DeliverTo
    <2>5. m = j.msg /\ a = b /\ Engages(m, a)
      BY <1>2, <2>3, <2>4 DEF TypeOK
    <2>6. Admitted(m, a) /\ <<a, ChannelOf[m]>> \in wired
      BY <2>2, <2>5 DEF Takes, Origin
    <2>7. QED BY <1>0, <2>6, Lasting DEF Grown
  <1>3. QED BY <1>1, <1>2

\* A member was one at first, or wrote where the agent is wired.
LEMMA MembersKept == TypeOK /\ Origin /\ MembersWrote /\ [Next]_vars => MembersWrote'
  <1> SUFFICES ASSUME TypeOK, Origin, MembersWrote, [Next]_vars PROVE MembersWrote' OBVIOUS
  <1>0. Grown
    BY Grows
  <1> DEFINE W(x) == \E m \in sent' : SenderOf[m] = x[1] /\ <<x[2], ChannelOf[m]>> \in wired'
  <1>1. \A x \in member \ FirstMember : W(x)
    BY <1>0 DEF MembersWrote, Grown
  <1>2. ASSUME NEW h, h.msg \in sent', NEW a, <<a, ChannelOf[h.msg]>> \in wired',
               member' = member \union {<<SenderOf[h.msg], a>>}
        PROVE MembersWrote'
    <2>1. W(<<SenderOf[h.msg], a>>)
      BY <1>2
    <2>2. QED BY <1>1, <1>2, <2>1 DEF MembersWrote
  <1>3. ASSUME UNCHANGED member PROVE MembersWrote'
    BY <1>1, <1>3 DEF MembersWrote
  <1> HIDE DEF W
  <1>4. ASSUME NEW h \in heldChannel, NEW a, WireChannel(h, a) PROVE MembersWrote'
    <2>1. h.msg \in sent'
      BY <1>0 DEF Origin, Grown
    <2>2. CASE UNCHANGED member
      BY <1>3, <2>2
    <2>3. CASE wired' = wired \union {<<a, ChannelOf[h.msg]>>} /\ member' = member \union {<<SenderOf[h.msg], a>>}
      BY <1>2, <2>1, <2>3
    <2>4. QED BY <1>4, <2>2, <2>3 DEF WireChannel
  <1>5. ASSUME NEW u \in Users, NEW h \in heldSender, Admit(h, u) PROVE MembersWrote'
    <2>1. h.msg \in sent' /\ <<h.agent, ChannelOf[h.msg]>> \in wired'
      BY <1>0 DEF Origin, Grown, Wanted
    <2>2. QED BY <1>2, <1>5, <2>1 DEF Admit
  <1>6. ASSUME NEW m \in Msgs,
               \/ Receive(m) \/ \E f \in Agents \union {Nobody} : AskFails(m, f)
               \/ \E u \in Users : (\E a \in Agents : HoldSender(m, a, u)) \/ HoldChannel(m, u)
        PROVE UNCHANGED member
    BY <1>6 DEF Receive, AskFails, HoldSender, HoldChannel
  <1>7. ASSUME NEW j \in jobs, FanOut(j) PROVE UNCHANGED member
    BY <1>7, Stretch
  <1>8. ASSUME NEW u \in Users, NEW h, Refuse(h, u) \/ AskName(h, u) \/ Deny(h, u) PROVE UNCHANGED member
    BY <1>8 DEF Refuse, AskName, Deny
  <1>9. ASSUME NEW u \in Users, NEW h \in heldChannel, NEW a \in Agents, Connect(h, u, a) PROVE MembersWrote'
    BY <1>4, <1>9 DEF Connect
  <1>10. ASSUME NEW u \in Users, Name(u) PROVE MembersWrote'
    BY <1>3, <1>4, <1>10 DEF Name
  <1>11. ASSUME NEW u \in Users, NameLost(u) PROVE UNCHANGED member
    BY <1>11 DEF NameLost
  <1>12. ASSUME HostRestart \/ UNCHANGED vars PROVE UNCHANGED member
    BY <1>12 DEF HostRestart, vars
  <1>13. QED
    BY <1>3, <1>5, <1>6, <1>7, <1>8, <1>9, <1>10, <1>11, <1>12 DEF Next

\* The second of two requests finds the first one's row.
LEMMA OneCardKept == TypeOK /\ OneCard /\ [Next]_vars => OneCard'
  <1> SUFFICES ASSUME TypeOK, OneCard, [Next]_vars PROVE OneCard' OBVIOUS
  <1>1. ASSUME heldSender' \subseteq heldSender, heldChannel' \subseteq heldChannel PROVE OneCard'
    BY <1>1 DEF OneCard
  <1>2. ASSUME NEW m \in Msgs, NEW u \in Users, NEW a \in Agents, HoldSender(m, a, u) PROVE OneCard'
    BY <1>2 DEF HoldSender, SenderHeld, OneCard
  <1>3. ASSUME NEW m \in Msgs, NEW u \in Users, HoldChannel(m, u) PROVE OneCard'
    BY <1>3 DEF HoldChannel, ChannelHeld, OneCard
  <1>4. ASSUME NEW m \in Msgs, Receive(m) \/ \E f \in Agents \union {Nobody} : AskFails(m, f) PROVE OneCard'
    BY <1>1, <1>4 DEF Receive, AskFails
  <1>5. ASSUME NEW j \in jobs, FanOut(j) PROVE OneCard'
    BY <1>1, <1>5, Stretch
  <1>6. ASSUME NEW u \in Users, NEW h, Admit(h, u) \/ Refuse(h, u) \/ AskName(h, u) \/ Deny(h, u) PROVE OneCard'
    BY <1>1, <1>6 DEF Admit, Refuse, AskName, Deny
  <1>7. ASSUME NEW u \in Users, Name(u) \/ NameLost(u) \/ \E h, a : Connect(h, u, a) PROVE OneCard'
    BY <1>1, <1>7 DEF Name, NameLost, Connect, WireChannel
  <1>8. ASSUME HostRestart \/ UNCHANGED vars PROVE OneCard'
    BY <1>1, <1>8 DEF HostRestart, vars, cardVars
  <1>9. QED BY <1>2, <1>3, <1>4, <1>5, <1>6, <1>7, <1>8 DEF Next

\* A followed thread got its session in the same step.
LEMMA FollowedKept == TypeOK /\ FollowedEngages /\ [Next]_vars => FollowedEngages'
  <1> SUFFICES ASSUME TypeOK, FollowedEngages, [Next]_vars PROVE FollowedEngages' OBVIOUS
  <1>0. session \subseteq session'
    BY Grows DEF Grown
  <1> SUFFICES ASSUME NEW t \in subscribed'
               PROVE  \E a \in Agents : Mode[<<a, t[1]>>] = "mention-sticky" /\ <<a, t[1], t[2]>> \in session'
    BY DEF FollowedEngages
  <1>1. CASE t \in subscribed
    BY <1>0, <1>1 DEF FollowedEngages
  <1>2. CASE t \notin subscribed
    <2>1. PICK j \in jobs : FanOut(j)
      BY <1>2, OnlyFanOuts
    <2>2. PICK a \in j.left : DeliverTo(j.msg, a, j)
      BY <1>2, <2>1, Stretch
    <2>3. /\ Mode[<<a, ChannelOf[j.msg]>>] = "mention-sticky" /\ t = <<ChannelOf[j.msg], ThreadOf[j.msg]>>
          /\ Place(j.msg, a) \in session'
      BY <1>2, <2>2 DEF DeliverTo, Follow
    <2>4. a \in Agents
      BY Typed
    <2>5. QED BY <2>3, <2>4 DEF Place
  <1>3. QED BY <1>1, <1>2

\* No stranger is answered, nobody becomes a member who did not write, and
\* racing requests leave one card: for any number of all of them.
THEOREM StrangersAdmitted == Spec => []Admission
  <1>1. Init => Origin /\ Admission
    BY DEF Init, Origin, Admission, StrangersWait, MembersWrote, OneCard
  <1>2. TypeOK /\ Origin /\ Admission /\ [Next]_vars => Admission'
    BY StrangersKept, MembersKept, OneCardKept DEF Admission
  <1>3. QED BY InitTypes, TypesKept, OriginKept, <1>1, <1>2, PTL DEF Spec

\* Every thread the adapter follows has a sticky agent's session.
THEOREM FollowedHasSession == Spec => []FollowedEngages
  <1>1. Init => FollowedEngages
    BY DEF Init, FollowedEngages
  <1>2. QED BY InitTypes, TypesKept, FollowedKept, <1>1, PTL DEF Spec

-----------------------------------------------------------------------------
\* An agent that engages and lets the sender in takes the message.
LEMMA EngagedTakes ==
    ASSUME NEW m, NEW a, Engages(m, a), CanAccess(SenderOf[m], a) PROVE Takes(m, a)
  BY DEF Takes, Admitted, AccessOk, ScopeOk

\* Until it has reached the agent it was admitted to, a routing has it left.
LEMMA StretchPromise ==
    ASSUME TypeOK, Promise, NEW j \in jobs, FanOut(j), j.for # Nobody
    PROVE  \/ j.for \in Reached(j.msg)' \/ Command[j.msg] = "filter"
           \/ /\ \E b \in Agents : b < j.for /\ inbox[j.msg][b] # "none"
              /\ jobs' = jobs \ {j}
           \/ \E a \in j.left :
                /\ jobs' = (jobs \ {j}) \union {[j EXCEPT !.left = {b \in @ : b > a}]}
                /\ j.for \in j.left /\ j.for > a
  <1> DEFINE m == j.msg
             f == j.for
  <1>1. m \in Msgs /\ f \in Agents /\ j.left \subseteq Agents
    BY Typed
  <1>2. [Next]_vars
    BY DEF Next
  <1>3. Kept /\ (f \in Reached(m) => f \in Reached(m)')
    BY <1>1, <1>2, Grows, Lasting
  <1>4. Takes(m, f)
    BY EngagedTakes DEF Promise
  <1>5. f \in Reached(m) \/ Command[m] = "filter" \/ f \in j.left
    BY DEF Promise
  <1> SUFFICES ASSUME f \in j.left, f \notin Reached(m)', Command[m] # "filter"
               PROVE  \/ (\E b \in Agents : b < f /\ inbox[m][b] # "none") /\ jobs' = jobs \ {j}
                      \/ \E a \in j.left :
                           /\ jobs' = (jobs \ {j}) \union {[j EXCEPT !.left = {b \in @ : b > a}]}
                           /\ f > a
    BY <1>3, <1>5
  <1>6. PICK a \in j.left :
          /\ Takes(m, a) /\ a <= f
          /\ DeliverTo(m, a, j) \/ (Duplicate(m, a) /\ jobs' = jobs \ {j} /\ UNCHANGED inbox)
    BY <1>4, Stretch
  <1>7. a \in Nat /\ f \in Nat /\ a \in Agents
    BY <1>1, Constants
  <1>8. CASE Duplicate(m, a) /\ jobs' = jobs \ {j} /\ UNCHANGED inbox
    <2>1. inbox[m][a] # "none"
      BY <1>8 DEF Duplicate
    <2>2. a # f
      BY <1>1, <1>8, <2>1 DEF Reached
    <2>3. QED BY <1>6, <1>7, <1>8, <2>1, <2>2
  <1>9. CASE DeliverTo(m, a, j)
    <2>1. a # f
      <3>1. ASSUME a = f PROVE FALSE
        <4>1. Gate(m, f) \in {"pass", "deny"}
          BY <1>1, RoutingAssumption DEF Gate
        <4>2. CASE Gate(m, f) = "deny"
          BY <1>1, <1>9, <3>1, <4>2 DEF DeliverTo, Reached
        <4>3. CASE Gate(m, f) = "pass"
          <5>1. inbox' = [inbox EXCEPT ![m][f] = IF Engages(m, f) THEN "trigger" ELSE "context"]
            BY <1>9, <3>1, <4>3 DEF DeliverTo
          <5>2. inbox'[m][f] # "none"
            BY <1>1, <5>1 DEF TypeOK
          <5>3. QED BY <1>1, <5>2 DEF Reached
        <4>4. QED BY <4>1, <4>2, <4>3
      <3>2. QED BY <3>1
    <2>2. QED BY <1>6, <1>7, <1>9, <2>1 DEF DeliverTo
  <1>10. QED BY <1>6, <1>8, <1>9

\* What is promised of a routing that did not move.
LEMMA PromiseLasts ==
    ASSUME TypeOK, Promise, [Next]_vars, NEW j \in jobs, j.for # Nobody
    PROVE  /\ Engages(j.msg, j.for)' /\ CanAccess(SenderOf[j.msg], j.for)'
           /\ j.for \in j.left \/ j.for \in Reached(j.msg)' \/ Command[j.msg] = "filter"
  <1>1. j.msg \in Msgs /\ j.for \in Agents
    BY Typed
  <1>2. QED BY <1>1, Grows, Lasting DEF Promise

\* Every step keeps what is promised of the routings under way.
LEMMA PromiseKept == TypeOK /\ Origin /\ Promise /\ [Next]_vars => Promise'
  <1> SUFFICES ASSUME TypeOK, Origin, Promise, [Next]_vars PROVE Promise' OBVIOUS
  <1>0. Grown /\ Kept
    BY Grows
  <1> DEFINE Fine(k) == k.for # Nobody =>
                /\ Engages(k.msg, k.for)' /\ CanAccess(SenderOf[k.msg], k.for)'
                /\ k.for \in k.left \/ k.for \in Reached(k.msg)' \/ Command[k.msg] = "filter"
  <1>1. \A k \in jobs : Fine(k)
    BY PromiseLasts
  <1>2. ASSUME \A k \in jobs' : Fine(k) PROVE Promise'
    BY <1>2 DEF Promise
  <1>3. ASSUME jobs' \subseteq jobs PROVE Promise'
    BY <1>1, <1>2, <1>3
  <1>4. ASSUME NEW m, NEW f, Routed(m, f, wired'),
               f # Nobody => /\ Engages(m, f)' /\ CanAccess(SenderOf[m], f)'
                             /\ f \in WiredTo(ChannelOf[m], wired')
        PROVE Promise'
    <2>1. \A k : k = [msg |-> m, for |-> f, left |-> WiredTo(ChannelOf[m], wired')] => Fine(k)
      BY <1>4
    <2> HIDE DEF Fine
    <2>2. jobs' = jobs \/ jobs' = jobs \union {[msg |-> m, for |-> f, left |-> WiredTo(ChannelOf[m], wired')]}
      BY <1>4 DEF Routed
    <2>3. QED BY <1>1, <1>2, <2>1, <2>2
  <1>5. ASSUME NEW h \in heldChannel, NEW a \in Agents, WireChannel(h, a) PROVE Promise'
    <2>1. h.msg \in Msgs /\ ChannelOf[h.msg] \in Channels /\ Engages(h.msg, a)
      BY Constants, MentionEngages DEF TypeOK, Origin
    <2>2. Engages(h.msg, a)'
      BY <1>0, <2>1, Lasting
    <2>3. CASE UNCHANGED jobs
      BY <1>3, <2>3
    <2>4. CASE /\ wired' = wired \union {<<a, ChannelOf[h.msg]>>}
               /\ member' = member \union {<<SenderOf[h.msg], a>>}
               /\ Routed(h.msg, a, wired')
      <3>1. CanAccess(SenderOf[h.msg], a)' /\ a \in WiredTo(ChannelOf[h.msg], wired')
        BY <2>4 DEF CanAccess, WiredTo
      <3>2. QED BY <1>4, <2>2, <2>4, <3>1
    <2>5. QED BY <1>5, <2>3, <2>4 DEF WireChannel
  <1> HIDE DEF Fine
  <1>6. ASSUME NEW m \in Msgs, Receive(m) PROVE Promise'
    <2>1. Routed(m, Nobody, wired')
      BY <1>6 DEF Receive
    <2>2. QED BY <1>4, <2>1
  <1>7. ASSUME NEW m \in Msgs,
               \/ \E f \in Agents \union {Nobody} : AskFails(m, f)
               \/ \E u \in Users : (\E a \in Agents : HoldSender(m, a, u)) \/ HoldChannel(m, u)
        PROVE Promise'
    BY <1>3, <1>7 DEF AskFails, HoldSender, HoldChannel
  <1>8. ASSUME NEW j \in jobs, FanOut(j) PROVE Promise'
    <2>1. CASE jobs' \subseteq jobs
      BY <1>3, <2>1
    <2>2. ASSUME NEW a \in j.left, DeliverTo(j.msg, a, j) PROVE Promise'
      <3> DEFINE n == [j EXCEPT !.left = {b \in @ : b > a}]
      <3>1. jobs' = (jobs \ {j}) \union {n}
        BY <2>2 DEF DeliverTo
      <3>2. j \in Fans /\ a \in Agents /\ n.msg = j.msg /\ n.for = j.for /\ n.left = {b \in j.left : b > a}
        BY Typed DEF Fans
      <3> HIDE DEF n
      <3>3. Fine(n)
        <4> SUFFICES ASSUME n.for # Nobody PROVE Fine(n)
          BY DEF Fine
        <4>1. Engages(n.msg, n.for)' /\ CanAccess(SenderOf[n.msg], n.for)'
          BY <3>2, PromiseLasts
        <4>2. j.for \in Reached(j.msg)' \/ Command[j.msg] = "filter" \/ n.for \in n.left
          <5>1. CASE j.for \in Reached(j.msg)' \/ Command[j.msg] = "filter"
            BY <5>1
          <5>2. CASE jobs' = jobs \ {j}
            \* the moved routing was there already, and nothing was left of it
            <6>1. n \in jobs /\ n # j
              BY <3>1, <5>2
            <6>2. n.for \in n.left \/ n.for \in Reached(n.msg)' \/ Command[n.msg] = "filter"
              BY <1>1, <6>1 DEF Fine
            <6>3. QED BY <3>2, <6>2
          <5>3. CASE \E c \in j.left :
                       /\ jobs' = (jobs \ {j}) \union {[j EXCEPT !.left = {b \in @ : b > c}]}
                       /\ j.for \in j.left /\ j.for > c
            <6>1. PICK c \in j.left :
                       /\ jobs' = (jobs \ {j}) \union {[j EXCEPT !.left = {b \in @ : b > c}]}
                       /\ j.for \in j.left /\ j.for > c
              BY <5>3
            <6> DEFINE o == [j EXCEPT !.left = {b \in @ : b > c}]
            <6>2. o.for = j.for /\ o.msg = j.msg /\ o.left = {b \in j.left : b > c} /\ o \in jobs'
              BY <3>2, <6>1 DEF Fans
            <6> HIDE DEF o
            <6>3. CASE n = o
              BY <3>2, <6>1, <6>2, <6>3
            <6>4. CASE n \in jobs
              <7>1. n.for \in n.left \/ n.for \in Reached(n.msg)' \/ Command[n.msg] = "filter"
                BY <1>1, <6>4 DEF Fine
              <7>2. QED BY <3>2, <7>1
            <6>5. QED BY <3>1, <6>1, <6>3, <6>4 DEF o
          <5>4. QED BY <1>8, <3>2, <5>1, <5>2, <5>3, StretchPromise
        <4>3. QED BY <3>2, <4>1, <4>2 DEF Fine
      <3>4. QED BY <1>1, <1>2, <3>1, <3>3
    <2>3. QED BY <1>8, <2>1, <2>2, Stretch
  <1>9. ASSUME NEW u \in Users, NEW h \in heldSender, Admit(h, u) PROVE Promise'
    <2>1. h.msg \in Msgs /\ h.agent \in Agents /\ Wanted(h.msg, h.agent)
      BY DEF TypeOK, Origin
    <2>2. /\ Routed(h.msg, h.agent, wired') /\ UNCHANGED wired
          /\ member' = member \union {<<SenderOf[h.msg], h.agent>>}
      BY <1>9 DEF Admit
    <2>3. CanAccess(SenderOf[h.msg], h.agent)' /\ h.agent \in WiredTo(ChannelOf[h.msg], wired')
      BY <2>1, <2>2 DEF CanAccess, WiredTo, Wanted
    <2>4. Engages(h.msg, h.agent)'
      BY <1>0, <2>1, Lasting DEF Wanted
    <2>5. QED BY <1>4, <2>2, <2>3, <2>4
  <1>10. ASSUME NEW u \in Users, NEW h, Refuse(h, u) \/ AskName(h, u) \/ Deny(h, u) PROVE Promise'
    BY <1>3, <1>10 DEF Refuse, AskName, Deny
  <1>11. ASSUME NEW u \in Users, NEW h \in heldChannel, NEW a \in Agents, Connect(h, u, a) PROVE Promise'
    BY <1>5, <1>11 DEF Connect
  <1>12. ASSUME NEW u \in Users, Name(u) PROVE Promise'
    <2>1. CASE UNCHANGED jobs
      BY <1>3, <2>1
    <2>2. CASE \E h \in heldChannel : made < MaxAgents /\ WireChannel(h, made + 1)
      <3>1. made < MaxAgents => made + 1 \in Agents
        BY RoutingAssumption DEF TypeOK, Agents
      <3>2. QED BY <1>5, <2>2, <3>1
    <2>3. QED BY <1>12, <2>1, <2>2 DEF Name
  <1>13. ASSUME NEW u \in Users, NameLost(u) PROVE Promise'
    BY <1>3, <1>13 DEF NameLost
  <1>14. ASSUME HostRestart \/ UNCHANGED vars PROVE Promise'
    BY <1>3, <1>14 DEF HostRestart, vars
  <1>15. QED
    BY <1>6, <1>7, <1>8, <1>9, <1>10, <1>11, <1>12, <1>13, <1>14 DEF Next

\* A routing under way goes on but for the fan-out itself and a restart.
LEMMA RoutingsStay ==
    ASSUME TypeOK, [Next]_vars, restarts' = restarts, NEW j \in jobs, j \notin jobs'
    PROVE  \E k \in jobs : FanOut(k)
  <1> SUFFICES ASSUME \A k \in jobs : ~FanOut(k) PROVE FALSE OBVIOUS
  <1>1. \A m, f, W : Routed(m, f, W) => jobs \subseteq jobs'
    BY DEF Routed
  <1>2. \A h, a : WireChannel(h, a) => jobs \subseteq jobs'
    BY <1>1 DEF WireChannel
  <1>3. ASSUME NEW m \in Msgs,
               \/ Receive(m) \/ \E f \in Agents \union {Nobody} : AskFails(m, f)
               \/ \E u \in Users : (\E a \in Agents : HoldSender(m, a, u)) \/ HoldChannel(m, u)
        PROVE jobs \subseteq jobs'
    BY <1>1, <1>3 DEF Receive, AskFails, HoldSender, HoldChannel
  <1>4. ASSUME NEW u \in Users, NEW h, Admit(h, u) \/ Refuse(h, u) \/ AskName(h, u) \/ Deny(h, u)
                                       \/ \E a \in Agents : Connect(h, u, a)
        PROVE jobs \subseteq jobs'
    BY <1>1, <1>2, <1>4 DEF Admit, Refuse, AskName, Deny, Connect
  <1>5. ASSUME NEW u \in Users, Name(u) \/ NameLost(u) PROVE jobs \subseteq jobs'
    BY <1>2, <1>5 DEF Name, NameLost
  <1>6. ASSUME UNCHANGED vars PROVE jobs \subseteq jobs'
    BY <1>6 DEF vars
  <1>7. ~HostRestart
    <2>1. restarts \in Nat
      BY RoutingAssumption DEF TypeOK
    <2>2. QED BY <2>1 DEF HostRestart
  <1>8. QED BY <1>3, <1>4, <1>5, <1>6, <1>7 DEF Next

\* The routing of a decision ends where the message was to go.
LEMMA ArrivesStep == TypeOK /\ Promise /\ [Next]_vars =>
    \A m \in Msgs, a \in Agents :
        Replayed(m, a) /\ ~Replayed(m, a)' =>
            \/ a \in Reached(m)' \/ Command[m] = "filter" \/ restarts' # restarts
            \/ \E b \in Agents : b < a /\ inbox[m][b] # "none"
  <1> SUFFICES ASSUME TypeOK, Promise, [Next]_vars, NEW m \in Msgs, NEW a \in Agents,
                      Replayed(m, a), ~Replayed(m, a)', restarts' = restarts
               PROVE  \/ a \in Reached(m)' \/ Command[m] = "filter"
                      \/ \E b \in Agents : b < a /\ inbox[m][b] # "none"
    OBVIOUS
  <1>1. PICK j \in jobs : j.msg = m /\ j.for = a
    BY DEF Replayed
  <1>2. j \notin jobs'
    BY <1>1 DEF Replayed
  <1>3. PICK k \in jobs : FanOut(k)
    BY <1>2, RoutingsStay
  <1>4. jobs \ {k} \subseteq jobs'
    BY <1>3, Stretch DEF DeliverTo
  <1>5. k = j
    BY <1>2, <1>4
  <1>6. j.for # Nobody
    BY <1>1, Constants
  <1>7. ASSUME NEW c \in j.left, jobs' = (jobs \ {j}) \union {[j EXCEPT !.left = {b \in @ : b > c}]}
        PROVE  FALSE
    <2> DEFINE n == [j EXCEPT !.left = {b \in @ : b > c}]
    <2>1. n \in jobs' /\ n.msg = j.msg /\ n.for = j.for
      BY <1>7, Typed DEF Fans
    <2>2. QED BY <1>1, <2>1 DEF Replayed
  <1>8. QED BY <1>1, <1>3, <1>5, <1>6, <1>7, StretchPromise

\* No request for a denied channel begins, so none is held.
LEMMA QuietStep == TypeOK /\ [Next]_vars =>
    \A c \in denied :
        /\ ~ChannelHeld(c) /\ \A m \in Msgs : ChannelOf[m] = c => <<m, Nobody>> \notin asking
        => ~ChannelHeld(c)' /\ \A m \in Msgs : ChannelOf[m] = c => <<m, Nobody>> \notin asking'
  <1> SUFFICES ASSUME TypeOK, [Next]_vars, NEW c \in denied, ~ChannelHeld(c),
                      \A m \in Msgs : ChannelOf[m] = c => <<m, Nobody>> \notin asking
               PROVE  ~ChannelHeld(c)' /\ \A m \in Msgs : ChannelOf[m] = c => <<m, Nobody>> \notin asking'
    OBVIOUS
  <1> DEFINE H == ~ChannelHeld(c)'
             A == \A m \in Msgs : ChannelOf[m] = c => <<m, Nobody>> \notin asking'
  <1>1. heldChannel' \subseteq heldChannel => H
    BY DEF ChannelHeld
  <1>2. asking' \subseteq asking => A
    OBVIOUS
  <1>3. \A m, f, W : Routed(m, f, W) => A
    <2>1. ASSUME NEW m, NEW f, NEW W, Routed(m, f, W) PROVE A
      <3>1. asking' = asking \/ (ChannelOf[m] \notin denied /\ asking' = asking \union {<<m, Nobody>>})
        BY <2>1 DEF Routed
      <3>2. QED BY <3>1
    <2>2. QED BY <2>1
  <1> HIDE DEF H, A
  <1>4. \A h, a : WireChannel(h, a) => H /\ A
    BY <1>1, <1>2, <1>3 DEF WireChannel
  <1>5. ASSUME NEW m \in Msgs, Receive(m) \/ \E f \in Agents \union {Nobody} : AskFails(m, f) PROVE H /\ A
    BY <1>1, <1>2, <1>3, <1>5 DEF Receive, AskFails
  <1>6. ASSUME NEW m \in Msgs, NEW u \in Users, HoldChannel(m, u) PROVE H /\ A
    <2>1. ChannelOf[m] # c /\ heldChannel' = heldChannel \union {[msg |-> m, by |-> u]} /\ asking' \subseteq asking
      BY <1>6 DEF HoldChannel
    <2>2. H
      BY <2>1 DEF H, ChannelHeld
    <2>3. QED BY <1>2, <2>1, <2>2
  <1>7. ASSUME NEW m \in Msgs, NEW u \in Users, NEW a \in Agents, HoldSender(m, a, u) PROVE H /\ A
    BY <1>1, <1>2, <1>7 DEF HoldSender
  <1>8. ASSUME NEW j \in jobs, FanOut(j) PROVE H /\ A
    <2>1. UNCHANGED heldChannel
      BY <1>8, Stretch
    <2>2. PICK B : asking' = asking \union B /\ Refusals(j, B)
      BY <1>8, Stretch
    <2>3. \A m : <<m, Nobody>> \notin B
      BY <2>2, Typed, Constants DEF Refusals
    <2>4. A
      BY <2>2, <2>3 DEF A
    <2>5. QED BY <1>1, <2>1, <2>4
  <1>9. ASSUME NEW u \in Users, NEW h, Admit(h, u) \/ Refuse(h, u) \/ AskName(h, u) \/ Deny(h, u)
                                       \/ \E a \in Agents : Connect(h, u, a)
        PROVE H /\ A
    BY <1>1, <1>2, <1>3, <1>4, <1>9 DEF Admit, Refuse, AskName, Deny, Connect
  <1>10. ASSUME NEW u \in Users, Name(u) \/ NameLost(u) PROVE H /\ A
    BY <1>1, <1>2, <1>4, <1>10 DEF Name, NameLost
  <1>11. ASSUME HostRestart \/ UNCHANGED vars PROVE H /\ A
    BY <1>1, <1>2, <1>11 DEF HostRestart, vars, cardVars
  <1>12. QED
    BY <1>5, <1>6, <1>7, <1>8, <1>9, <1>10, <1>11 DEF Next, H, A

\* A decision stands: a denied channel stays quiet, and an admitted message
\* arrives where it was held for.
THEOREM DecisionsStand == Spec => DecisionsHold
  <1>1. Init => Origin /\ Promise
    BY DEF Init, Origin, Promise
  <1>2. TypeOK /\ [Next]_vars =>
          [\A c \in denied :
            /\ ~ChannelHeld(c) /\ \A m \in Msgs : ChannelOf[m] = c => <<m, Nobody>> \notin asking
            => ~ChannelHeld(c)' /\ \A m \in Msgs : ChannelOf[m] = c => <<m, Nobody>> \notin asking']_vars
    BY QuietStep
  <1>3. TypeOK /\ Promise /\ [Next]_vars =>
          [\A m \in Msgs, a \in Agents :
            Replayed(m, a) /\ ~Replayed(m, a)' =>
                \/ a \in Reached(m)' \/ Command[m] = "filter" \/ restarts' # restarts
                \/ \E b \in Agents : b < a /\ inbox[m][b] # "none"]_vars
    BY ArrivesStep
  <1>4. Spec => DeniedIsQuiet
    BY InitTypes, TypesKept, <1>2, PTL DEF Spec, DeniedIsQuiet
  <1>5. Spec => AdmittedArrives
    BY InitTypes, TypesKept, OriginKept, PromiseKept, <1>1, <1>3, PTL DEF Spec, AdmittedArrives
  <1>6. QED BY <1>4, <1>5 DEF DecisionsHold
=============================================================================
