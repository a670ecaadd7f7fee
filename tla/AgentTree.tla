----------------------------- MODULE AgentTree -----------------------------
(***************************************************************************)
(* Agents that agents ask for. A parent's request is a row that waits for  *)
(* the owner's card; an approval makes the child in one transaction, with  *)
(* its relation, routes, grants and channel; a removal takes a whole       *)
(* subtree back. Between the click and the transaction the handler awaits  *)
(* a probe of the model, so a second click, a rejection or the expiry of   *)
(* the card can come first, and what the click saw may be gone.            *)
(*                                                                         *)
(* Source: src/modules/agent-to-agent/{provisioning,relations,             *)
(* capabilities,projects,factory}.ts. Children are numbered as they are    *)
(* made; Root is any agent nobody provisioned. A project is known by its   *)
(* place, the address of its channel. The actions a parent asks for over   *)
(* its child are granted together. Only requirements-parent may have       *)
(* children, at a depth of 1, so depth limits never bite.                  *)
(* Bounds: MaxChildren, MaxClicks of a card, MaxTests.                     *)
(***************************************************************************)
EXTENDS Naturals

CONSTANTS
    Requests, NoRequest,
    NameOf,       \* the normalized name of the child asked for
    Template,     \* "requirements-parent", "singleton", "member" or "plain"
    Places,       \* channel addresses
    PlaceOf,      \* the place a request binds to; of no use to a plain one
    WantsRepo,    \* requests with a repository_id
    Managed,      \* requests that ask for actions over the child
    Tried,        \* ... among which run-smoke-test
    Granted,      \* <<request, place>>: the owner enrols the child in the
                  \* factory, and grants the wiring of that place to it
    MaxChildren,
    MaxClicks,    \* bound: approve handlers at work on one request
    MaxTests      \* bound: smoke tests

ASSUME AgentTreeAssumption ==
    /\ NoRequest \notin Requests
    /\ PlaceOf \in [Requests -> Places]
    /\ MaxChildren \in Nat /\ MaxTests \in Nat /\ MaxClicks \in [Requests -> Nat]

Root == 0
Children == 1..MaxChildren
Agents == 0..MaxChildren
Nobody == MaxChildren + 1
Tests == 1..MaxTests

VARIABLES
    state,      \* agent_provision_requests.state, "none" without a row
    asker,      \* ... parent_agent_group_id
    contract,   \* ... provisioned_child_group_id, or Nobody
    card,       \* requests with a pending_approvals row
    making,     \* approve handlers that await the probe, per request
    made,       \* how many children were made
    of,         \* the request a child was made for
    parent,     \* agent_relations.parent_agent_group_id
    live,       \* children whose relation is not removed
    dest,       \* agent_destinations between agents: <<owner, target>>
    manages,    \* live factory-relation grants: <<parent, child>>
    repo,       \* children with a live repository grant
    delegated,  \* ... whose grant derives from their parent's
    group,      \* places with a messaging group
    wired,      \* messaging_group_agents: <<agent, place>>
    used,       \* places with a group some session refers to
    project,    \* project_parent_group_id of the project at a place, or Nobody
    member,     \* project_agents rows not removed: <<child, place>>
    wiring,     \* the live row of factory_channel_wirings for a place
    test,       \* agent_smoke_test_results.state, by number
    tested,     \* ... agent_group_id
    tests       \* how many were started

requestVars == <<state, asker, contract, card, making>>
treeVars == <<made, of, parent, live, dest, manages, repo, delegated>>
channelVars == <<group, wired, used, project, member, wiring>>
testVars == <<test, tested, tests>>
vars == <<requestVars, treeVars, channelVars, testVars>>

-----------------------------------------------------------------------------
NoWiring == [to |-> Nobody, created |-> FALSE, grouped |-> FALSE]

Init ==
    /\ state = [r \in Requests |-> "none"]
    /\ asker = [r \in Requests |-> Root] /\ contract = [r \in Requests |-> Nobody]
    /\ card = {} /\ making = [r \in Requests |-> 0]
    /\ made = 0 /\ live = {}
    /\ of = [c \in Children |-> NoRequest] /\ parent = [c \in Children |-> Nobody]
    /\ dest = {} /\ manages = {} /\ repo = {} /\ delegated = {}
    /\ group = {} /\ wired = {} /\ used = {} /\ member = {}
    /\ project = [p \in Places |-> Nobody] /\ wiring = [p \in Places |-> NoWiring]
    /\ test = [k \in Tests |-> "none"] /\ tested = [k \in Tests |-> Nobody]
    /\ tests = 0

Exists(a) == a <= made

\* provisionedContract
HasContract(c) == state[of[c]] = "provisioned" /\ contract[of[c]] = c

\* parentBelongsToProject
Belongs(a, p) == project[p] # Nobody /\ (project[p] = a \/ <<a, p>> \in member)

\* getLiveRelation finds nothing: the host takes a removed agent for a root.
IsRoot(a) == a \notin live

\* parentCanProvision
CanProvision(a) ==
    ~IsRoot(a) => HasContract(a) /\ Template[of[a]] = "requirements-parent"

\* directChildName, and the unique index of migration 026
NameTaken(a, r) ==
    \E q \in Requests :
        /\ asker[q] = a /\ NameOf[q] = NameOf[r]
        /\ state[q] \in {"pending", "provisioned"}

\* requestPayload: the checks that depend on the state of the host.
Valid(a, r) ==
    /\ CanProvision(a)
    /\ Template[r] = "requirements-parent" => IsRoot(a) /\ project[PlaceOf[r]] = Nobody
    /\ Template[r] = "member" => Belongs(a, PlaceOf[r])

-----------------------------------------------------------------------------
\* requestAgentProvision. requestApproval returns also when nobody could be
\* asked, or the card could not be sent: the row stays, without a card.
Ask(a, r) ==
    /\ Exists(a) /\ state[r] = "none" /\ Valid(a, r) /\ ~NameTaken(a, r)
    /\ asker' = [asker EXCEPT ![r] = a]
    /\ \/ state' = [state EXCEPT ![r] = "pending"] /\ card' \in {card, card \union {r}}
       \/ state' = [state EXCEPT ![r] = "failed"] /\ UNCHANGED card
    /\ UNCHANGED <<contract, making, treeVars, channelVars, testVars>>

\* The approval handler, up to the probe. A settled request has no card.
ClickApprove(r) ==
    /\ r \in card /\ state[r] = "pending" /\ making[r] < MaxClicks[r]
    /\ making' = [making EXCEPT ![r] = @ + 1]
    /\ UNCHANGED <<state, asker, contract, card, treeVars, channelVars, testVars>>

\* Mutant: a request closed by the sweep gets a state of its own.
SettleExpired(r, s) ==
    state' = [state EXCEPT ![r] = IF @ = "pending" /\ s = "failed" THEN "expired" ELSE @]

\* UPDATE ... WHERE state='pending'
Settle(r, s) == state' = [state EXCEPT ![r] = IF @ = "pending" THEN s ELSE @]

\* The rejection's hook.
Reject(r) ==
    /\ r \in card
    /\ card' = card \ {r} /\ Settle(r, "rejected")
    /\ UNCHANGED <<asker, contract, making, treeVars, channelVars, testVars>>

\* Mutant: the sweep drops the card and leaves the request.
ExpireCard(r) ==
    /\ r \in card
    /\ card' = card \ {r}
    /\ UNCHANGED <<state, asker, contract, making, treeVars, channelVars, testVars>>

\* sweepExpiredProvisionApprovals, once expires_at has passed.
Expire(r) ==
    /\ r \in card
    /\ card' = card \ {r} /\ Settle(r, "failed")
    /\ UNCHANGED <<asker, contract, making, treeVars, channelVars, testVars>>

-----------------------------------------------------------------------------
\* The primary key of agent_destinations: an owner has one route of a name.
NoSuchRoute(a, r) == \A c \in Children : <<a, c>> \in dest => NameOf[of[c]] # NameOf[r]

\* findEffectiveGrant, for the repository; an agent without a relation is
\* given a grant of the owner's instead.
Holds(a) == a \in repo
Delegates(r) == r \in WantsRepo /\ ~IsRoot(asker[r])

\* materialize: what is checked again after the probe, and what makes the
\* transaction throw.
Makeable(r) ==
    LET a == asker[r] p == PlaceOf[r] IN
    /\ made < MaxChildren
    /\ Template[r] = "requirements-parent" => IsRoot(a) /\ p \notin group /\ project[p] = Nobody
    /\ Template[r] = "member" => Belongs(a, p)
    /\ Template[r] = "singleton" => p \notin group
    /\ NoSuchRoute(a, r)
    /\ Delegates(r) => Holds(a)

\* createRelation
Relate(c, r) ==
    /\ made' = c /\ of' = [of EXCEPT ![c] = r]
    /\ parent' = [parent EXCEPT ![c] = asker[r]] /\ live' = live \union {c}

\* issueRootGrant, to the parent over the child
Entrust(c, r) ==
    manages' = IF r \in Managed THEN manages \union {<<asker[r], c>>} ELSE manages

\* delegateGrant, or issueRootGrant to the child
Endow(c, r) ==
    /\ repo' = IF r \in WantsRepo THEN repo \union {c} ELSE repo
    /\ delegated' = IF Delegates(r) THEN delegated \union {c} ELSE delegated

\* A messaging group of the child's own, wired to it: createProjectInTransaction
\* or a singleton's.
Respond(c, r) ==
    IF Template[r] \in {"requirements-parent", "singleton"}
    THEN group' = group \union {PlaceOf[r]} /\ wired' = wired \union {<<c, PlaceOf[r]>>}
    ELSE UNCHANGED <<group, wired>>

Join(c, r) ==
    LET p == PlaceOf[r] IN
    /\ project' = IF Template[r] = "requirements-parent" THEN [project EXCEPT ![p] = c] ELSE project
    /\ member' = IF Template[r] = "member" THEN member \union {<<c, p>>} ELSE member

\* The transaction. Its last update asks for a pending row and does not look
\* whether there was one.
Make(r) ==
    /\ making[r] > 0 /\ Makeable(r)
    /\ making' = [making EXCEPT ![r] = @ - 1]
    /\ card' = card \ {r} /\ Settle(r, "provisioned")
    /\ contract' = IF state[r] = "pending" THEN [contract EXCEPT ![r] = made + 1] ELSE contract
    /\ LET c == made + 1 IN
        /\ Relate(c, r) /\ Entrust(c, r) /\ Endow(c, r) /\ Respond(c, r) /\ Join(c, r)
        /\ dest' = dest \union {<<asker[r], c>>, <<c, asker[r]>>}
    /\ UNCHANGED <<asker, used, wiring, testVars>>

\* The model is not healthy, a check fails or the transaction throws.
MakeFails(r) ==
    /\ making[r] > 0
    /\ making' = [making EXCEPT ![r] = @ - 1]
    /\ card' = card \ {r} /\ state' = [state EXCEPT ![r] = "failed"]
    /\ UNCHANGED <<asker, contract, treeVars, channelVars, testVars>>

-----------------------------------------------------------------------------
\* Mutant: the child only.
Alone(c) == {c}

\* removeProvisionedChild. A child and whatever lives below it: the least set
\* that contains it and the live children of its members.
Below(c) ==
    {d \in live :
        \A S \in SUBSET live :
            c \in S /\ (\A x \in live : parent[x] \in S => x \in S) => d \in S}

\* The channel groups that are deleted: of no project, and nobody's else.
Emptied(S) ==
    {p \in group :
        /\ project[p] = Nobody
        /\ \E c \in S : <<c, p>> \in wired
        /\ \A x \in wired : x[2] = p => x[1] \in S}

\* hasChildCapability
MayManage(a, c) == c \in live /\ parent[c] = a /\ <<a, c>> \in manages

\* Neither held by nor about an agent of S.
Untouched(x, S) == x[1] \notin S /\ x[2] \notin S

\* A session's reference to a channel's group keeps the row, and with it the
\* whole transaction from committing.
Remove(a, c) ==
    LET S == Below(c) gone == Emptied(Below(c)) IN
    /\ MayManage(a, c) /\ gone \intersect used = {}
    /\ live' = live \ S
    /\ manages' = {m \in manages : Untouched(m, S)}
    /\ repo' = repo \ S
    /\ dest' = {d \in dest : Untouched(d, S)}
    /\ wired' = {x \in wired : x[1] \notin S}
    /\ group' = group \ gone
    /\ wiring' = [p \in Places |-> [wiring[p] EXCEPT !.grouped = @ /\ p \notin gone]]
    /\ member' = {x \in member : x[1] \notin S}
    /\ UNCHANGED <<requestVars, made, of, parent, delegated, used, project, testVars>>

\* Somebody writes in a channel, and a session is opened for it.
Use(p) ==
    /\ \E a \in Agents : <<a, p>> \in wired
    /\ used' = used \union {p}
    /\ UNCHANGED <<requestVars, treeVars, group, wired, project, member, wiring, testVars>>

\* Mutant: only the factory's own rows are looked at.
WireOver(c, p) ==
    /\ Exists(c) /\ <<of[c], p>> \in Granted
    /\ wiring[p] = NoWiring
    /\ group' = group \union {p} /\ wired' = wired \union {<<c, p>>}
    /\ wiring' = [wiring EXCEPT ![p] = [to |-> c, created |-> p \notin group, grouped |-> TRUE]]
    /\ UNCHANGED <<requestVars, treeVars, used, project, member, testVars>>

\* wireAgentChannel: neither another factory row nor a responder.
Wire(c, p) ==
    /\ Exists(c) /\ <<of[c], p>> \in Granted
    /\ wiring[p] = NoWiring /\ \A x \in wired : x[2] # p
    /\ group' = group \union {p} /\ wired' = wired \union {<<c, p>>}
    /\ wiring' = [wiring EXCEPT ![p] = [to |-> c, created |-> p \notin group, grouped |-> TRUE]]
    /\ UNCHANGED <<requestVars, treeVars, used, project, member, testVars>>

\* unwireAgentChannel
Unwire(p) ==
    LET w == wiring[p]
        rest == IF w.grouped THEN wired \ {<<w.to, p>>} ELSE wired
        drop == w.created /\ w.grouped /\ \A x \in rest : x[2] # p IN
    /\ w # NoWiring /\ ~(drop /\ p \in used)
    /\ wired' = rest
    /\ group' = IF drop THEN group \ {p} ELSE group
    /\ wiring' = [wiring EXCEPT ![p] = NoWiring]
    /\ UNCHANGED <<requestVars, treeVars, used, project, member, testVars>>

-----------------------------------------------------------------------------
\* runProvisionedSmokeTest: authority before the probe, the row after it. A
\* removal during the probe does not stop it.
StartTest(c) ==
    /\ tests < MaxTests /\ Exists(c) /\ of[c] \in Tried /\ HasContract(c)
    /\ c \in live => <<parent[c], c>> \in manages
    /\ tests' = tests + 1
    /\ test' = [test EXCEPT ![tests + 1] = "running"]
    /\ tested' = [tested EXCEPT ![tests + 1] = c]
    /\ UNCHANGED <<requestVars, treeVars, channelVars>>

Newest(c) ==
    LET K == {k \in Tests : test[k] = "running" /\ tested[k] = c} IN
    {k \in K : \A j \in K : j <= k}

\* observeProvisionedSmokeResponse: any message of the child to its parent is
\* taken for the answer to its newest test.
Observe(c, k, right) ==
    /\ c \in live /\ k \in Newest(c)
    /\ test' = [test EXCEPT ![k] = IF right THEN "passed" ELSE "failed"]
    /\ UNCHANGED <<requestVars, treeVars, channelVars, tested, tests>>

\* sweepProvisionedSmokeTests
TimeOut(k) ==
    /\ test[k] = "running"
    /\ test' = [test EXCEPT ![k] = "timeout"]
    /\ UNCHANGED <<requestVars, treeVars, channelVars, tested, tests>>

-----------------------------------------------------------------------------
\* The handlers under way end with the process; rows and cards stay.
HostRestart ==
    /\ making' = [r \in Requests |-> 0]
    /\ UNCHANGED <<state, asker, contract, card, treeVars, channelVars, testVars>>

Making(r) == Make(r) \/ MakeFails(r)

Next ==
    \/ \E r \in Requests :
        \/ \E a \in Agents : Ask(a, r)
        \/ ClickApprove(r) \/ Reject(r) \/ Expire(r)
        \/ Make(r) \/ MakeFails(r)
    \/ \E c \in Children :
        \/ \E a \in Agents : Remove(a, c)
        \/ \E p \in Places : Wire(c, p)
        \/ StartTest(c)
        \/ \E k \in Tests, right \in BOOLEAN : Observe(c, k, right)
    \/ \E p \in Places : Use(p) \/ Unwire(p)
    \/ \E k \in Tests : TimeOut(k)
    \/ HostRestart

Spec == Init /\ [][Next]_vars

\* Time passes, the sweep comes round, and a probe answers.
Fairness ==
    /\ \A r \in Requests : WF_vars(Expire(r)) /\ WF_vars(Making(r))
    /\ \A k \in Tests : WF_vars(TimeOut(k))

FairSpec == Spec /\ Fairness

-----------------------------------------------------------------------------
TypeOK ==
    /\ state \in [Requests -> {"none", "pending", "rejected", "provisioned", "failed"}]
    /\ asker \in [Requests -> Agents] /\ contract \in [Requests -> Children \union {Nobody}]
    /\ card \subseteq Requests
    /\ making \in [Requests -> Nat]
    /\ made \in Agents /\ live \subseteq 1..made
    /\ of \in [Children -> Requests \union {NoRequest}]
    /\ \A c \in 1..made : of[c] \in Requests /\ parent[c] \in 0..(c - 1)
    /\ parent \in [Children -> Agents \union {Nobody}]
    /\ dest \subseteq Agents \X Agents /\ manages \subseteq Agents \X Children
    /\ repo \subseteq Children /\ delegated \subseteq Children
    /\ group \subseteq Places /\ used \subseteq Places
    /\ wired \subseteq Agents \X Places /\ member \subseteq Children \X Places
    /\ project \in [Places -> Children \union {Nobody}]
    /\ wiring \in [Places -> [to : Children \union {Nobody}, created : BOOLEAN, grouped : BOOLEAN]]
    /\ test \in [Tests -> {"none", "running", "passed", "failed", "timeout"}]
    /\ tested \in [Tests -> Children \union {Nobody}] /\ tests \in 0..MaxTests

\* Two agents can write to each other exactly while one is the live child of
\* the other: a removal takes the routes of its subtree, and only those.
RoutesAreRelations ==
    \A a, b \in Agents :
        <<a, b>> \in dest <=> (a \in live /\ parent[a] = b) \/ (b \in live /\ parent[b] = a)

\* A grant over a child is held by its parent, and ends with the relation.
ManagedIsLive == \A m \in manages : m[2] \in live /\ parent[m[2]] = m[1]

\* A delegated repository grant has its parent's live grant behind it, and
\* no live child lost the grant it was made with.
DelegatedIsBacked ==
    /\ repo = {c \in live : of[c] \in WantsRepo}
    /\ \A c \in repo \intersect delegated : parent[c] \in repo

\* A parent's live children have different names: each name is one route.
NamesAreRoutes ==
    \A c, d \in live : parent[c] = parent[d] /\ NameOf[of[c]] = NameOf[of[d]] => c = d

\* An agent lives, acts and is reached by what its parent was granted for it,
\* and by nothing that outlives it: removals take whole subtrees, and what was
\* made for one child never serves another.
Entitled == RoutesAreRelations /\ ManagedIsLive /\ DelegatedIsBacked /\ NamesAreRoutes

\* A place has at most one responder, and only one with a messaging group.
OneResponder ==
    \A x, y \in wired : x[2] \in group /\ (x[2] = y[2] => x = y)

\* The channel of a project outlives its agents, whoever is removed or unwired;
\* its live members are live agents.
ProjectKept ==
    /\ \A p \in Places : project[p] # Nobody => p \in group
    /\ \A x \in member : x[1] \in live /\ project[x[2]] # Nobody

\* Approved children, wirings by the owner, removals and unwirings share the
\* channels: none answers where another does, none takes a project's away.
ChannelsKept == OneResponder /\ ProjectKept

\* A test that ended stays as it ended, and none of a removed child passes.
TestIsFinal ==
    [][\A k \in Tests :
        /\ test[k] \notin {"none", "running"} => test'[k] = test[k]
        /\ test'[k] = "passed" /\ test[k] # "passed" => tested[k] \in live]_vars

\* A request that got its card is decided, whatever clicks and probes do.
HeldSettles == \A r \in Requests : state[r] = "pending" /\ r \in card ~> state[r] # "pending"

\* A running test ends, also one of a child removed meanwhile.
TestsEnd == \A k \in Tests : test[k] = "running" ~> test[k] # "running"

\* Requests that got their card and tests that were started end, once.
EachEndsOnce == HeldSettles /\ TestsEnd /\ TestIsFinal
=============================================================================
