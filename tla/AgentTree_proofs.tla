-------------------------- MODULE AgentTree_proofs --------------------------
(***************************************************************************)
(* Agents, their routes, grants and channels, and their smoke tests, for   *)
(* any requests, children, places, clicks and tests.                       *)
(***************************************************************************)
EXTENDS AgentTree, TLAPS

\* Who asked exists, and so does whoever had a grant delegated.
WereMade == (\A r \in Requests : asker[r] <= made) /\ delegated \subseteq 1..made

\* A wiring of the factory's has its group, and a group of the factory's own
\* making is no project's.
WiringShape ==
    \A p \in Places :
        wiring[p].grouped => p \in group /\ (wiring[p].created => project[p] = Nobody)

\* A subtree is of live agents, has its root, and misses no child of a member.
LEMMA BelowIsClosed ==
    ASSUME NEW c \in live
    PROVE  /\ Below(c) \subseteq live
           /\ c \in Below(c)
           /\ \A x \in live : parent[x] \in Below(c) => x \in Below(c)
  <1>1. Below(c) \subseteq live /\ c \in Below(c)
    BY DEF Below
  <1>2. ASSUME NEW x \in live, parent[x] \in Below(c) PROVE x \in Below(c)
    <2> SUFFICES ASSUME NEW S \in SUBSET live, c \in S,
                        \A y \in live : parent[y] \in S => y \in S
                 PROVE  x \in S
      BY DEF Below
    <2>1. parent[x] \in S
      BY <1>2 DEF Below
    <2>2. QED BY <2>1
  <1>3. QED BY <1>1, <1>2

\* The number of a child to be made is new, and it has its parent before it.
LEMMA NewChild ==
    ASSUME TypeOK, WereMade, NEW r \in Requests, made < MaxChildren
    PROVE  /\ made + 1 \in Children /\ made + 1 \in Agents /\ made + 1 \notin 1..made
           /\ made + 1 # Nobody /\ asker[r] # made + 1
           /\ 1..(made + 1) = 1..made \union {made + 1}
           /\ asker[r] \in Agents /\ asker[r] \in 0..((made + 1) - 1)
  BY AgentTreeAssumption, SMTT(30) DEF TypeOK, WereMade, Children, Agents, Nobody

\* Children and agents are numbers, and those made are among them.
LEMMA Numbers ==
    ASSUME TypeOK
    PROVE  /\ Children \subseteq Agents /\ Root \in Agents /\ Nobody \notin Agents
           /\ live \subseteq Children /\ 1..made \subseteq Children
           /\ \A x \in live : parent[x] \in 0..(x - 1) /\ parent[x] \in Agents /\ parent[x] # x
           /\ \A x \in live : of[x] \in Requests
  <1>1. made \in Nat /\ made <= MaxChildren /\ MaxChildren \in Nat
    BY AgentTreeAssumption DEF TypeOK, Agents
  <1>2. Children \subseteq Agents /\ Root \in Agents /\ Nobody \notin Agents /\ 1..made \subseteq Children
    BY <1>1 DEF Children, Agents, Root, Nobody
  <1>3. live \subseteq 1..made
    BY DEF TypeOK
  <1>4. ASSUME NEW x \in live PROVE parent[x] \in 0..(x - 1) /\ parent[x] \in Agents /\ parent[x] # x /\ of[x] \in Requests
    <2>1. x \in 1..made /\ parent[x] \in 0..(x - 1) /\ of[x] \in Requests
      BY <1>3 DEF TypeOK
    <2>2. QED BY <1>1, <2>1 DEF Agents
  <1>5. QED BY <1>2, <1>3, <1>4

-----------------------------------------------------------------------------
\* At first nobody asked, and nothing was made.
LEMMA InitTypes == Init => TypeOK /\ WereMade
  <1> SUFFICES ASSUME Init PROVE TypeOK /\ WereMade OBVIOUS
  <1>1. MaxChildren \in Nat /\ Root \in Agents /\ 0 \in Agents /\ 0 \in 0..MaxTests
    BY AgentTreeAssumption DEF Agents, Root
  <1>2. 1..0 = {}
    OBVIOUS
  <1>3. QED BY <1>1, <1>2 DEF Init, TypeOK, WereMade, Root, NoWiring

\* What a made child changes keeps its types.
LEMMA MakeTypes ==
    ASSUME TypeOK, WereMade, NEW r \in Requests, Make(r)
    PROVE  TypeOK' /\ WereMade'
  <1>0. PlaceOf[r] \in Places
    BY AgentTreeAssumption
  <1>1. /\ made < MaxChildren /\ making[r] > 0
        /\ making' = [making EXCEPT ![r] = @ - 1]
        /\ card' = card \ {r} /\ Settle(r, "provisioned")
        /\ contract' = IF state[r] = "pending" THEN [contract EXCEPT ![r] = made + 1] ELSE contract
        /\ Relate(made + 1, r) /\ Entrust(made + 1, r) /\ Endow(made + 1, r)
        /\ Respond(made + 1, r) /\ Join(made + 1, r)
        /\ dest' = dest \union {<<asker[r], made + 1>>, <<made + 1, asker[r]>>}
        /\ UNCHANGED <<asker, used, wiring, testVars>>
    BY DEF Make, Makeable
  <1>2. /\ made + 1 \in Children /\ made + 1 \in Agents /\ made + 1 \notin 1..made
        /\ 1..(made + 1) = 1..made \union {made + 1}
        /\ asker[r] \in Agents /\ asker[r] \in 0..((made + 1) - 1)
    BY <1>1, NewChild
  <1>3. 1..made \subseteq Children
    BY Numbers
  <1>4. made' = made + 1 /\ live' = live \union {made + 1} /\ live' \subseteq 1..made'
    BY <1>1, <1>2 DEF Relate, TypeOK
  <1>5. /\ of' \in [Children -> Requests \union {NoRequest}]
        /\ parent' \in [Children -> Agents \union {Nobody}]
    BY <1>1, <1>2 DEF Relate, TypeOK
  <1>6. \A c \in 1..made' : of'[c] \in Requests /\ parent'[c] \in 0..(c - 1)
    BY <1>1, <1>2, <1>3, <1>4 DEF Relate, TypeOK
  <1>7. /\ state' \in [Requests -> {"none", "pending", "rejected", "provisioned", "failed"}]
        /\ contract' \in [Requests -> Children \union {Nobody}] /\ card' \subseteq Requests
    BY <1>1, <1>2 DEF Settle, TypeOK
  <1>8. making' \in [Requests -> Nat]
    <2>1. making[r] \in Nat /\ making[r] - 1 \in Nat
      BY <1>1 DEF TypeOK
    <2>2. QED BY <1>1, <2>1 DEF TypeOK
  <1>9. /\ manages' \subseteq Agents \X Children /\ repo' \subseteq Children
        /\ delegated' \subseteq Children /\ dest' \subseteq Agents \X Agents
    BY <1>1, <1>2 DEF Entrust, Endow, TypeOK
  <1>10. group' \subseteq Places /\ wired' \subseteq Agents \X Places
    BY <1>0, <1>1, <1>2 DEF Respond, TypeOK
  <1>11. project' \in [Places -> Children \union {Nobody}] /\ member' \subseteq Children \X Places
    BY <1>0, <1>1, <1>2 DEF Join, TypeOK
  <1>12. WereMade'
    <2>1. \A q \in Requests : asker'[q] <= made'
      BY <1>1, <1>4, AgentTreeAssumption DEF WereMade, TypeOK, Agents
    <2>2. delegated' \subseteq 1..made'
      BY <1>1, <1>2, <1>4 DEF Endow, WereMade
    <2>3. QED BY <2>1, <2>2 DEF WereMade
  <1>13. made' \in Agents
    BY <1>2, <1>4
  <1>14. /\ asker' \in [Requests -> Agents] /\ used' \subseteq Places
         /\ wiring' \in [Places -> [to : Children \union {Nobody}, created : BOOLEAN, grouped : BOOLEAN]]
         /\ test' \in [Tests -> {"none", "running", "passed", "failed", "timeout"}]
         /\ tested' \in [Tests -> Children \union {Nobody}] /\ tests' \in 0..MaxTests
    BY <1>1 DEF testVars, TypeOK
  <1>15. QED
    BY <1>4, <1>5, <1>6, <1>7, <1>8, <1>9, <1>10, <1>11, <1>12, <1>13, <1>14 DEF TypeOK

\* What a removal, or the factory, does to channels keeps their types.
LEMMA ChannelTypes ==
    ASSUME TypeOK, NEW p \in Places, NEW c \in Children,
           Wire(c, p) \/ Unwire(p) \/ Use(p) \/ (\E a \in Agents : Remove(a, c))
    PROVE  /\ group' \subseteq Places /\ used' \subseteq Places
           /\ wired' \subseteq Agents \X Places /\ member' \subseteq Children \X Places
           /\ wiring' \in [Places -> [to : Children \union {Nobody}, created : BOOLEAN, grouped : BOOLEAN]]
  <1> USE DEF TypeOK
  <1>1. c \in Agents
    BY Numbers
  <1>2. ASSUME Wire(c, p) PROVE wiring' \in [Places -> [to : Children \union {Nobody}, created : BOOLEAN, grouped : BOOLEAN]]
    <2>1. [to |-> c, created |-> p \notin group, grouped |-> TRUE]
            \in [to : Children \union {Nobody}, created : BOOLEAN, grouped : BOOLEAN]
      OBVIOUS
    <2>2. QED BY <1>2, <2>1 DEF Wire
  <1>3. CASE Wire(c, p)
    BY <1>1, <1>2, <1>3 DEF Wire
  <1>4. CASE Unwire(p)
    <2>1. NoWiring \in [to : Children \union {Nobody}, created : BOOLEAN, grouped : BOOLEAN]
      BY DEF NoWiring
    <2>2. QED BY <1>4, <2>1 DEF Unwire
  <1>5. CASE Use(p)
    BY <1>5 DEF Use
  <1>6. CASE \E a \in Agents : Remove(a, c)
    <2>1. PICK a \in Agents : Remove(a, c)
      BY <1>6
    <2> DEFINE gone == Emptied(Below(c))
    <2>2. /\ wiring' = [q \in Places |-> [wiring[q] EXCEPT !.grouped = @ /\ q \notin gone]]
          /\ wired' \subseteq wired /\ group' \subseteq group /\ member' \subseteq member /\ UNCHANGED used
      BY <2>1 DEF Remove
    <2> HIDE DEF gone
    <2>3. ASSUME NEW q \in Places
          PROVE  [wiring[q] EXCEPT !.grouped = @ /\ q \notin gone]
                     \in [to : Children \union {Nobody}, created : BOOLEAN, grouped : BOOLEAN]
      <3>1. wiring[q] \in [to : Children \union {Nobody}, created : BOOLEAN, grouped : BOOLEAN]
        OBVIOUS
      <3>2. (wiring[q].grouped /\ q \notin gone) \in BOOLEAN
        OBVIOUS
      <3>3. QED BY <3>1, <3>2
    <2>4. QED BY <2>2, <2>3
  <1>7. QED BY <1>3, <1>4, <1>5, <1>6

\* Every step keeps the types, and whoever asked.
LEMMA TypesKept == TypeOK /\ WereMade /\ [Next]_vars => TypeOK' /\ WereMade'
  <1> SUFFICES ASSUME TypeOK, WereMade, [Next]_vars PROVE TypeOK' /\ WereMade' OBVIOUS
  <1>1. ASSUME UNCHANGED <<treeVars, channelVars, testVars, asker, contract>>, card' \subseteq Requests,
               making' \in [Requests -> Nat],
               state' \in [Requests -> {"none", "pending", "rejected", "provisioned", "failed"}]
        PROVE TypeOK' /\ WereMade'
    BY <1>1 DEF treeVars, channelVars, testVars, TypeOK, WereMade
  <1>2. ASSUME NEW r \in Requests, NEW a \in Agents, Ask(a, r) PROVE TypeOK' /\ WereMade'
    <2>1. a <= made
      BY <1>2 DEF Ask, Exists
    <2>2. QED BY <1>2, <2>1 DEF Ask, treeVars, channelVars, testVars, TypeOK, WereMade
  <1>3. ASSUME NEW r \in Requests, ClickApprove(r) PROVE TypeOK' /\ WereMade'
    <2>1. making' \in [Requests -> Nat]
      BY <1>3 DEF ClickApprove, TypeOK
    <2>2. QED BY <1>1, <1>3, <2>1 DEF ClickApprove, TypeOK
  <1>4. ASSUME NEW r \in Requests, Reject(r) \/ Expire(r) PROVE TypeOK' /\ WereMade'
    BY <1>1, <1>4 DEF Reject, Expire, Settle, TypeOK
  <1>5. ASSUME NEW r \in Requests, Make(r) PROVE TypeOK' /\ WereMade'
    BY <1>5, MakeTypes
  <1>6. ASSUME NEW r \in Requests, MakeFails(r) PROVE TypeOK' /\ WereMade'
    <2>1. making' \in [Requests -> Nat]
      <3>1. making[r] \in Nat /\ making[r] - 1 \in Nat
        BY <1>6 DEF MakeFails, TypeOK
      <3>2. QED BY <1>6, <3>1 DEF MakeFails, TypeOK
    <2>2. QED BY <1>1, <1>6, <2>1 DEF MakeFails, TypeOK
  <1>7. ASSUME NEW c \in Children, NEW a \in Agents, Remove(a, c) PROVE TypeOK' /\ WereMade'
    <2>2. /\ live' \subseteq live /\ manages' \subseteq manages /\ repo' \subseteq repo /\ dest' \subseteq dest
          /\ UNCHANGED <<requestVars, made, of, parent, delegated, used, project, testVars>>
          /\ wired' \subseteq wired /\ group' \subseteq group /\ member' \subseteq member
      BY <1>7 DEF Remove
    <2>3. wiring' \in [Places -> [to : Children \union {Nobody}, created : BOOLEAN, grouped : BOOLEAN]]
      <3>1. CASE Places = {}
        BY <1>7, <3>1 DEF Remove
      <3>2. CASE Places # {}
        BY <1>7, <3>2, ChannelTypes
      <3>3. QED BY <3>1, <3>2
    <2>4. QED BY <2>2, <2>3 DEF requestVars, testVars, TypeOK, WereMade
  <1>8. ASSUME NEW p \in Places, NEW c \in Children, Wire(c, p) PROVE TypeOK' /\ WereMade'
    BY <1>8, ChannelTypes DEF Wire, requestVars, treeVars, testVars, TypeOK, WereMade
  <1>9. ASSUME NEW p \in Places, Unwire(p) \/ Use(p) PROVE TypeOK' /\ WereMade'
    <2>1. /\ group' \subseteq Places /\ used' \subseteq Places
          /\ wired' \subseteq Agents \X Places
          /\ wiring' \in [Places -> [to : Children \union {Nobody}, created : BOOLEAN, grouped : BOOLEAN]]
      <3>1. NoWiring \in [to : Children \union {Nobody}, created : BOOLEAN, grouped : BOOLEAN]
        BY DEF NoWiring
      <3>2. CASE Unwire(p)
        BY <3>1, <3>2 DEF Unwire, TypeOK
      <3>3. CASE Use(p)
        BY <3>3 DEF Use, TypeOK
      <3>4. QED BY <1>9, <3>2, <3>3
    <2>2. QED BY <1>9, <2>1 DEF Unwire, Use, requestVars, treeVars, testVars, TypeOK, WereMade
  <1>10. ASSUME NEW c \in Children, StartTest(c) PROVE TypeOK' /\ WereMade'
    <2>1. tests + 1 \in Tests /\ tests + 1 \in 0..MaxTests
      BY <1>10, AgentTreeAssumption DEF StartTest, Tests, TypeOK
    <2>2. QED BY <1>10, <2>1 DEF StartTest, requestVars, treeVars, channelVars, TypeOK, WereMade
  <1>11. ASSUME NEW k \in Tests, TimeOut(k) \/ \E c \in Children, right \in BOOLEAN : Observe(c, k, right)
         PROVE TypeOK' /\ WereMade'
    <2>1. PICK o \in {"timeout", "passed", "failed"} :
            test' = [test EXCEPT ![k] = o] /\ UNCHANGED <<requestVars, treeVars, channelVars, tested, tests>>
      BY <1>11 DEF TimeOut, Observe
    <2>2. test' \in [Tests -> {"none", "running", "passed", "failed", "timeout"}]
      BY <2>1 DEF TypeOK
    <2>3. QED BY <2>1, <2>2 DEF requestVars, treeVars, channelVars, TypeOK, WereMade
  <1>12. ASSUME HostRestart PROVE TypeOK' /\ WereMade'
    BY <1>1, <1>12 DEF HostRestart, TypeOK
  <1>13. ASSUME UNCHANGED vars PROVE TypeOK' /\ WereMade'
    BY <1>1, <1>13 DEF vars, requestVars, TypeOK
  <1>14. QED
    BY <1>2, <1>3, <1>4, <1>5, <1>6, <1>7, <1>8, <1>9, <1>10, <1>11, <1>12, <1>13 DEF Next

\* The variables of requests, agents, channels and tests keep their types.
THEOREM TreeTypes == Spec => []TypeOK
  BY InitTypes, TypesKept, PTL DEF Spec

-----------------------------------------------------------------------------
\* Steps that leave the channels, and whose members are, as they were.
LEMMA ChannelsUntouched ==
    ASSUME ChannelsKept, WiringShape, UNCHANGED <<group, wired, project, member, wiring>>, live \subseteq live'
    PROVE  ChannelsKept' /\ WiringShape'
  BY DEF ChannelsKept, OneResponder, ProjectKept, WiringShape

\* A child is made where nobody answers, or answers nowhere.
LEMMA MakeChannels ==
    ASSUME TypeOK, WereMade, ChannelsKept, WiringShape, NEW r \in Requests, Make(r)
    PROVE  ChannelsKept' /\ WiringShape'
  <1>0. PlaceOf[r] \in Places
    BY AgentTreeAssumption
  <1>1. /\ Respond(made + 1, r) /\ Join(made + 1, r)
        /\ live' = live \union {made + 1} /\ wiring' = wiring
        /\ Template[r] = "requirements-parent" => PlaceOf[r] \notin group /\ project[PlaceOf[r]] = Nobody
        /\ Template[r] = "member" => project[PlaceOf[r]] # Nobody
        /\ Template[r] = "singleton" => PlaceOf[r] \notin group
    BY DEF Make, Makeable, Relate, Belongs
  <1>2. made + 1 # Nobody
    BY NewChild DEF Make, Makeable
  <1>3. OneResponder'
    BY <1>1 DEF Respond, ChannelsKept, OneResponder
  <1>4. \A p \in Places : project'[p] # Nobody => p \in group'
    BY <1>0, <1>1 DEF Respond, Join, ChannelsKept, ProjectKept, TypeOK
  <1>5. \A x \in member' : x[1] \in live' /\ project'[x[2]] # Nobody
    <2>1. \A p \in Places : project[p] # Nobody => project'[p] # Nobody
      BY <1>1, <1>2 DEF Join, TypeOK
    <2>2. \A x \in member : x[1] \in live' /\ project'[x[2]] # Nobody
      BY <1>1, <2>1 DEF ChannelsKept, ProjectKept, TypeOK
    <2>3. QED BY <1>0, <1>1, <2>1, <2>2 DEF Join
  <1>6. WiringShape'
    BY <1>1 DEF Respond, Join, WiringShape, TypeOK
  <1>7. QED BY <1>3, <1>4, <1>5, <1>6 DEF ChannelsKept, ProjectKept

\* A removal takes only channels that no project and nobody else uses.
LEMMA RemoveChannels ==
    ASSUME TypeOK, ChannelsKept, WiringShape, NEW c \in Children, NEW a \in Agents, Remove(a, c)
    PROVE  ChannelsKept' /\ WiringShape'
  <1> DEFINE S == Below(c)
  <1>1. /\ live' = live \ S
        /\ wired' = {x \in wired : x[1] \notin S}
        /\ group' = group \ Emptied(S)
        /\ wiring' = [p \in Places |-> [wiring[p] EXCEPT !.grouped = @ /\ p \notin Emptied(S)]]
        /\ member' = {x \in member : x[1] \notin S} /\ project' = project
    BY DEF Remove
  <1>2. \A p \in Emptied(S) : project[p] = Nobody /\ \A x \in wired : x[2] = p => x[1] \in S
    BY DEF Emptied
  <1>3. \A p \in Places :
            /\ wiring'[p].grouped => wiring[p].grouped /\ p \notin Emptied(S)
            /\ wiring'[p].created = wiring[p].created
    BY <1>1 DEF TypeOK
  <1> HIDE DEF S
  <1>4. OneResponder' /\ ProjectKept'
    BY <1>1, <1>2 DEF ChannelsKept, OneResponder, ProjectKept
  <1>5. WiringShape'
    BY <1>1, <1>3 DEF WiringShape
  <1>6. QED BY <1>4, <1>5 DEF ChannelsKept

\* The factory wires a place only where nobody answers, and takes back no more
\* than it made.
LEMMA FactoryChannels ==
    ASSUME TypeOK, ChannelsKept, WiringShape, NEW p \in Places,
           Unwire(p) \/ \E c \in Children : Wire(c, p)
    PROVE  ChannelsKept' /\ WiringShape'
  <1> USE DEF ChannelsKept, OneResponder, ProjectKept, WiringShape
  <1>1. ASSUME NEW c \in Children, Wire(c, p) PROVE ChannelsKept' /\ WiringShape'
    <2>1. /\ \A x \in wired : x[2] # p
          /\ group' = group \union {p} /\ wired' = wired \union {<<c, p>>}
          /\ wiring' = [wiring EXCEPT ![p] = [to |-> c, created |-> p \notin group, grouped |-> TRUE]]
          /\ UNCHANGED <<live, project, member>>
      BY <1>1 DEF Wire, treeVars
    <2>2. OneResponder' /\ ProjectKept'
      BY <2>1
    <2>3. WiringShape'
      BY <2>1 DEF TypeOK
    <2>4. QED BY <2>2, <2>3
  <1>2. ASSUME Unwire(p) PROVE ChannelsKept' /\ WiringShape'
    <2> DEFINE w == wiring[p]
               rest == IF w.grouped THEN wired \ {<<w.to, p>>} ELSE wired
               drop == w.created /\ w.grouped /\ \A x \in rest : x[2] # p
    <2>1. /\ wired' = rest /\ group' = (IF drop THEN group \ {p} ELSE group)
          /\ wiring' = [wiring EXCEPT ![p] = NoWiring]
          /\ UNCHANGED <<live, project, member>>
      BY <1>2 DEF Unwire, treeVars
    <2>2. rest \subseteq wired /\ (drop => project[p] = Nobody /\ \A x \in rest : x[2] # p)
      OBVIOUS
    <2> HIDE DEF w, rest, drop
    <2>3. OneResponder' /\ ProjectKept'
      BY <2>1, <2>2
    <2>4. WiringShape'
      BY <2>1 DEF TypeOK, NoWiring
    <2>5. QED BY <2>3, <2>4
  <1>3. QED BY <1>1, <1>2

\* Every step keeps one responder to a place, and a project's channel.
LEMMA ChannelsStep ==
    TypeOK /\ WereMade /\ ChannelsKept /\ WiringShape /\ [Next]_vars => ChannelsKept' /\ WiringShape'
  <1> SUFFICES ASSUME TypeOK, WereMade, ChannelsKept, WiringShape, [Next]_vars
               PROVE  ChannelsKept' /\ WiringShape'
    OBVIOUS
  <1> DEFINE Same == UNCHANGED <<group, wired, project, member, wiring, live>>
  <1>1. ASSUME Same PROVE ChannelsKept' /\ WiringShape'
    BY <1>1, ChannelsUntouched
  <1> HIDE DEF Same
  <1>2. ASSUME NEW r \in Requests, NEW a \in Agents, Ask(a, r) PROVE Same
    BY <1>2 DEF Same, Ask, treeVars, channelVars
  <1>3. ASSUME NEW r \in Requests,
               ClickApprove(r) \/ Reject(r) \/ Expire(r) \/ MakeFails(r)
        PROVE Same
    BY <1>3 DEF Same, ClickApprove, Reject, Expire, MakeFails, treeVars, channelVars
  <1>4. ASSUME NEW k \in Tests, NEW c \in Children, NEW right \in BOOLEAN,
               TimeOut(k) \/ StartTest(c) \/ Observe(c, k, right)
        PROVE Same
    BY <1>4 DEF Same, TimeOut, StartTest, Observe, treeVars, channelVars
  <1>5. ASSUME NEW p \in Places, Use(p) PROVE Same
    BY <1>5 DEF Same, Use, treeVars
  <1>6. ASSUME HostRestart \/ UNCHANGED vars PROVE Same
    BY <1>6 DEF Same, HostRestart, vars, treeVars, channelVars
  <1>7. ASSUME NEW c \in Children, StartTest(c) PROVE Same
    BY <1>7 DEF Same, StartTest, treeVars, channelVars
  <1>8. ASSUME NEW k \in Tests, TimeOut(k) PROVE Same
    BY <1>8 DEF Same, TimeOut, treeVars, channelVars
  <1>9. QED
    BY <1>1, <1>2, <1>3, <1>4, <1>5, <1>6, <1>7, <1>8, MakeChannels, RemoveChannels, FactoryChannels
    DEF Next

\* Whatever is approved, wired, removed and unwired: a place has one responder,
\* and the channel of a project outlives its agents.
THEOREM ChannelsStayKept == Spec => []ChannelsKept
  <1>1. Init => ChannelsKept /\ WiringShape
    BY DEF Init, ChannelsKept, OneResponder, ProjectKept, WiringShape, NoWiring
  <1>2. QED BY InitTypes, TypesKept, ChannelsStep, <1>1, PTL DEF Spec

-----------------------------------------------------------------------------
\* A made child gets the one pair of routes, grants of its parent's own, and a
\* name no live child of its parent has.
LEMMA MakeEntitles ==
    ASSUME TypeOK, WereMade, Entitled, NEW r \in Requests, Make(r)
    PROVE  Entitled'
  <1> DEFINE c == made + 1
             a == asker[r]
  <1>1. /\ made < MaxChildren /\ NoSuchRoute(a, r) /\ (Delegates(r) => Holds(a))
        /\ Relate(c, r) /\ Entrust(c, r) /\ Endow(c, r)
        /\ dest' = dest \union {<<a, c>>, <<c, a>>}
    BY DEF Make, Makeable
  <1>2. c \in Children /\ c \in Agents /\ a \in Agents /\ a # c /\ c \notin 1..made
    BY <1>1, NewChild
  <1>3. c \notin live /\ \A x \in live : parent[x] # c /\ parent[x] \in Agents /\ x \in Children /\ x \in Agents
    <2>1. \A x \in live : x \in 1..made /\ parent[x] \in 0..(x - 1)
      BY DEF TypeOK
    <2>2. \A x \in 1..made : c \notin 0..(x - 1)
      BY DEF TypeOK, Agents
    <2>3. QED BY <1>2, <2>1, <2>2, Numbers
  <1> HIDE DEF c, a
  <1>4. /\ live' = live \union {c} /\ of' = [of EXCEPT ![c] = r] /\ parent' = [parent EXCEPT ![c] = a]
    BY <1>1 DEF Relate, a
  <1>5. /\ parent'[c] = a /\ of'[c] = r
        /\ \A x \in live : parent'[x] = parent[x] /\ of'[x] = of[x] /\ x # c
    BY <1>2, <1>3, <1>4 DEF TypeOK
  <1>6. RoutesAreRelations'
    <2> SUFFICES ASSUME NEW x \in Agents, NEW y \in Agents
                 PROVE  <<x, y>> \in dest' <=>
                          (x \in live' /\ parent'[x] = y) \/ (y \in live' /\ parent'[y] = x)
      BY DEF RoutesAreRelations
    <2>1. <<x, y>> \in dest <=> (x \in live /\ parent[x] = y) \/ (y \in live /\ parent[y] = x)
      BY DEF Entitled, RoutesAreRelations
    <2>2. <<x, y>> \in dest' <=> <<x, y>> \in dest \/ (x = a /\ y = c) \/ (x = c /\ y = a)
      BY <1>1
    <2>3. (x \in live' /\ parent'[x] = y) <=> (x \in live /\ parent[x] = y) \/ (x = c /\ y = a)
      BY <1>4, <1>5
    <2>4. (y \in live' /\ parent'[y] = x) <=> (y \in live /\ parent[y] = x) \/ (y = c /\ x = a)
      BY <1>4, <1>5
    <2>5. QED BY <2>1, <2>2, <2>3, <2>4
  <1>7. ManagedIsLive'
    <2>1. \A m \in manages' : m \in manages \/ m = <<a, c>>
      BY <1>1 DEF Entrust, a
    <2>2. QED BY <1>4, <1>5, <2>1 DEF Entitled, ManagedIsLive
  <1>8. DelegatedIsBacked'
    <2>1. repo = {x \in live : of[x] \in WantsRepo} /\ \A x \in repo \intersect delegated : parent[x] \in repo
      BY DEF Entitled, DelegatedIsBacked
    <2>2. repo' = (IF r \in WantsRepo THEN repo \union {c} ELSE repo)
          /\ \A x \in delegated' : x \in delegated \/ (x = c /\ a \in repo)
      BY <1>1 DEF Endow, Holds
    <2>3. repo' = {x \in live' : of'[x] \in WantsRepo}
      BY <1>3, <1>4, <1>5, <2>1, <2>2
    <2>4. ASSUME NEW x \in repo' \intersect delegated' PROVE parent'[x] \in repo'
      <3>1. CASE x = c /\ a \in repo
        BY <1>5, <2>2, <3>1
      <3>2. CASE x \in delegated /\ x \in repo
        BY <1>5, <2>1, <2>2, <3>2
      <3>3. CASE x \in delegated /\ x = c
        BY <1>2, <3>3 DEF WereMade
      <3>4. QED BY <2>2, <2>4, <3>1, <3>2, <3>3
    <2>5. QED BY <2>3, <2>4 DEF DelegatedIsBacked
  <1>9. NamesAreRoutes'
    <2>1. \A x \in live : parent[x] = a => NameOf[of[x]] # NameOf[r]
      BY <1>1, <1>2, <1>3 DEF NoSuchRoute, Entitled, RoutesAreRelations
    <2>2. QED BY <1>4, <1>5, <2>1 DEF Entitled, NamesAreRoutes
  <1>10. QED BY <1>6, <1>7, <1>8, <1>9 DEF Entitled

\* A removed subtree takes along what it had and what was had of it, and
\* leaves behind no child of a removed agent.
LEMMA RemoveEntitles ==
    ASSUME TypeOK, Entitled, NEW c \in Children, NEW a \in Agents, Remove(a, c)
    PROVE  Entitled'
  <1> DEFINE S == Below(c)
  <1>1. c \in live
    BY DEF Remove, MayManage
  <1>2. S \subseteq live /\ \A x \in live : parent[x] \in S => x \in S
    BY <1>1, BelowIsClosed
  <1>3. /\ live' = live \ S /\ UNCHANGED <<of, parent, delegated>>
        /\ manages' = {m \in manages : Untouched(m, S)}
        /\ repo' = repo \ S /\ dest' = {d \in dest : Untouched(d, S)}
    BY DEF Remove
  <1> HIDE DEF S
  <1>4. RoutesAreRelations'
    <2> SUFFICES ASSUME NEW x \in Agents, NEW y \in Agents
                 PROVE  <<x, y>> \in dest' <=>
                          (x \in live' /\ parent'[x] = y) \/ (y \in live' /\ parent'[y] = x)
      BY DEF RoutesAreRelations
    <2>1. <<x, y>> \in dest <=> (x \in live /\ parent[x] = y) \/ (y \in live /\ parent[y] = x)
      BY DEF Entitled, RoutesAreRelations
    <2>2. <<x, y>> \in dest' <=> <<x, y>> \in dest /\ x \notin S /\ y \notin S
      BY <1>3 DEF Untouched
    <2>3. QED BY <1>2, <1>3, <2>1, <2>2
  <1>5. ManagedIsLive'
    BY <1>3 DEF Entitled, ManagedIsLive, Untouched
  <1>6. DelegatedIsBacked'
    <2>1. repo = {x \in live : of[x] \in WantsRepo} /\ \A x \in repo \intersect delegated : parent[x] \in repo
      BY DEF Entitled, DelegatedIsBacked
    <2>2. QED BY <1>2, <1>3, <2>1 DEF DelegatedIsBacked
  <1>7. NamesAreRoutes'
    BY <1>3 DEF Entitled, NamesAreRoutes
  <1>8. QED BY <1>4, <1>5, <1>6, <1>7 DEF Entitled

\* Every step keeps what agents are entitled to in line with the tree.
LEMMA EntitledStep == TypeOK /\ WereMade /\ Entitled /\ [Next]_vars => Entitled'
  <1> SUFFICES ASSUME TypeOK, WereMade, Entitled, [Next]_vars PROVE Entitled'
    OBVIOUS
  <1> DEFINE Same == UNCHANGED treeVars
  <1>1. ASSUME Same PROVE Entitled'
    BY <1>1 DEF Same, treeVars, Entitled, RoutesAreRelations, ManagedIsLive, DelegatedIsBacked, NamesAreRoutes
  <1> HIDE DEF Same
  <1>2. ASSUME NEW r \in Requests, NEW a \in Agents, Ask(a, r) PROVE Same
    BY <1>2 DEF Same, Ask
  <1>3. ASSUME NEW r \in Requests,
               ClickApprove(r) \/ Reject(r) \/ Expire(r) \/ MakeFails(r)
        PROVE Same
    BY <1>3 DEF Same, ClickApprove, Reject, Expire, MakeFails
  <1>4. ASSUME NEW k \in Tests, NEW c \in Children, NEW right \in BOOLEAN, Observe(c, k, right)
        PROVE Same
    BY <1>4 DEF Same, Observe
  <1>5. ASSUME NEW p \in Places, Use(p) \/ Unwire(p) \/ \E c \in Children : Wire(c, p) PROVE Same
    BY <1>5 DEF Same, Use, Unwire, Wire
  <1>6. ASSUME HostRestart \/ UNCHANGED vars PROVE Same
    BY <1>6 DEF Same, HostRestart, vars
  <1>7. ASSUME NEW c \in Children, StartTest(c) PROVE Same
    BY <1>7 DEF Same, StartTest
  <1>8. ASSUME NEW k \in Tests, TimeOut(k) PROVE Same
    BY <1>8 DEF Same, TimeOut
  <1>9. QED
    BY <1>1, <1>2, <1>3, <1>4, <1>5, <1>6, <1>7, <1>8, MakeEntitles, RemoveEntitles DEF Next

\* Routes, grants and names follow the tree of live agents, however approvals,
\* removals and late handlers interleave.
THEOREM AgentsEntitled == Spec => []Entitled
  <1>1. Init => Entitled
    BY DEF Init, Entitled, RoutesAreRelations, ManagedIsLive, DelegatedIsBacked, NamesAreRoutes
  <1>2. QED BY InitTypes, TypesKept, EntitledStep, <1>1, PTL DEF Spec

-----------------------------------------------------------------------------
\* Tests are numbered in the order they start: the next one has no row yet.
NextIsFree == \A k \in Tests : k > tests => test[k] = "none"

\* What a step may do to the rows of tests.
TestMoves ==
    \A k \in Tests :
        /\ test[k] \notin {"none", "running"} => test'[k] = test[k]
        /\ test'[k] = "passed" /\ test[k] # "passed" => tested[k] \in live

\* A test is started in a free row and ends where it runs; only a child that is there
\* answers.
LEMMA TestStep ==
    ASSUME TypeOK, NextIsFree, [Next]_vars
    PROVE  NextIsFree' /\ TestMoves
  <1>1. ASSUME UNCHANGED testVars PROVE NextIsFree' /\ TestMoves
    BY <1>1 DEF testVars, NextIsFree, TestMoves
  <1>2. ASSUME NEW c \in Children, StartTest(c) PROVE NextIsFree' /\ TestMoves
    <2>1. /\ tests + 1 \in Tests /\ tests \in Nat /\ Tests \subseteq Nat
          /\ tests' = tests + 1 /\ test' = [test EXCEPT ![tests + 1] = "running"]
      BY <1>2, AgentTreeAssumption DEF StartTest, Tests, TypeOK
    <2>2. test[tests + 1] = "none"
      BY <2>1 DEF NextIsFree
    <2>3. NextIsFree'
      BY <2>1 DEF NextIsFree, TypeOK
    <2>4. TestMoves
      BY <2>1, <2>2 DEF TestMoves, TypeOK
    <2>5. QED BY <2>3, <2>4
  <1>3. ASSUME NEW k \in Tests, test[k] = "running", tests' = tests,
               NEW o \in {"timeout", "passed", "failed"}, test' = [test EXCEPT ![k] = o],
               o = "passed" => tested[k] \in live
        PROVE NextIsFree' /\ TestMoves
    BY <1>3 DEF NextIsFree, TestMoves, TypeOK
  <1>4. ASSUME NEW k \in Tests, TimeOut(k) PROVE NextIsFree' /\ TestMoves
    BY <1>3, <1>4 DEF TimeOut
  <1>5. ASSUME NEW c \in Children, NEW k \in Tests, NEW right \in BOOLEAN, Observe(c, k, right)
        PROVE NextIsFree' /\ TestMoves
    <2>1. test[k] = "running" /\ tested[k] = c /\ c \in live
      BY <1>5 DEF Observe, Newest
    <2>2. PICK o \in {"timeout", "passed", "failed"} : test' = [test EXCEPT ![k] = o]
      BY <1>5 DEF Observe
    <2>3. QED BY <1>3, <1>5, <2>1, <2>2 DEF Observe
  <1>6. ASSUME NEW r \in Requests,
               \/ \E a \in Agents : Ask(a, r)
               \/ ClickApprove(r) \/ Reject(r) \/ Expire(r) \/ Make(r) \/ MakeFails(r)
        PROVE UNCHANGED testVars
    BY <1>6 DEF Ask, ClickApprove, Reject, Expire, Make, MakeFails
  <1>7. ASSUME NEW c \in Children,
               (\E a \in Agents : Remove(a, c)) \/ \E p \in Places : Wire(c, p)
        PROVE UNCHANGED testVars
    BY <1>7 DEF Remove, Wire
  <1>8. ASSUME NEW p \in Places, Use(p) \/ Unwire(p) PROVE UNCHANGED testVars
    BY <1>8 DEF Use, Unwire
  <1>9. ASSUME HostRestart \/ UNCHANGED vars PROVE UNCHANGED testVars
    BY <1>9 DEF HostRestart, vars
  <1>10. QED
    BY <1>1, <1>2, <1>4, <1>5, <1>6, <1>7, <1>8, <1>9 DEF Next

\* A smoke test that ended stays as it ended, whatever answers late, and none passes for
\* a child removed meanwhile.
THEOREM TestsEndOnce == Spec => TestIsFinal
  <1>1. Init => NextIsFree
    BY DEF Init, NextIsFree
  <1>2. TypeOK /\ NextIsFree /\ [Next]_vars => NextIsFree' /\ [TestMoves]_vars
    BY TestStep
  <1>3. TestIsFinal <=> [][TestMoves]_vars
    BY PTL DEF TestIsFinal, TestMoves
  <1>4. QED BY TreeTypes, <1>1, <1>2, <1>3, PTL DEF Spec

=============================================================================
