------------------------------ MODULE Routing ------------------------------
(***************************************************************************)
(* Which agents a message reaches. A message on a channel is offered to    *)
(* each agent wired there, in order; a stranger's is held for an admin's   *)
(* card, and one from a channel nobody wired for a card about the channel. *)
(* A decision routes the held message once more. The cards are asked for   *)
(* in the background, and a fan-out awaits after each agent it delivers    *)
(* to, so several routings, requests and clicks are under way at once.     *)
(*                                                                         *)
(* Source: src/router.ts, command-gate.ts and modules/permissions.         *)
(* Agents are numbered in the order a channel's wirings are read; those up *)
(* to Founded exist, the rest are made by an answer to a name prompt. A    *)
(* thread is the effective one, after the wiring's thread policy, with a   *)
(* session of its own. Left out: projects' aliases (AgentTree has the      *)
(* projects), agent-shared sessions, the end of a wiring or a membership.  *)
(* Bounds: MaxAgents, MaxRestarts.                                         *)
(***************************************************************************)
EXTENDS Naturals

CONSTANTS
    Channels, NoChannel, Users,
    Threads, NoThread,
    Msgs,         \* messages, and of each:
    ChannelOf, ThreadOf, SenderOf,
    Mentions,     \* those the platform says are addressed to the bot
    Command,      \* "none", "filter" or "admin"
    Policy,       \* unknown_sender_policy: "public", "strict" or "request_approval"
    Mode,         \* engage_mode of an agent's wiring: "all" (a pattern that
                  \* matches), "mention" or "mention-sticky"
    Known,        \* <<agent, channel>> with sender_scope 'known'
    Accumulating, \* ... with ignored_message_policy 'accumulate'
    Groups,       \* channels that are group chats
    FirstWired,   \* the wirings, and the members, there are at first
    FirstMember,
    Admins,       \* <<user, agent>>: hasAdminPrivilege, of owners every agent
    Founded, MaxAgents, MaxRestarts

Agents == 1..MaxAgents
Nobody == 0

ASSUME RoutingAssumption ==
    /\ MaxAgents \in Nat \ {0} /\ Founded \in Agents /\ MaxRestarts \in Nat
    /\ NoChannel \notin Channels
    /\ ChannelOf \in [Msgs -> Channels] /\ SenderOf \in [Msgs -> Users]
    /\ ThreadOf \in [Msgs -> Threads] /\ NoThread \in Threads
    /\ FirstWired \subseteq (1..Founded) \X Channels
    /\ FirstMember \subseteq Users \X Agents
    /\ Mentions \subseteq Msgs
    /\ Command \in [Msgs -> {"none", "filter", "admin"}]
    /\ Mode \in [Agents \X Channels -> {"all", "mention", "mention-sticky"}]

VARIABLES
    sent,       \* messages the platform has handed over
    jobs,       \* fan-outs: [msg, for, left], left the agents still to do, for
                \* the one a held message was held for, Nobody of a new one
    group,      \* channels with a messaging_groups row
    denied,     \* ... whose denied_at is set
    wired,      \* messaging_group_agents: <<agent, channel>>
    member,     \* agent_group_members: <<user, agent>>
    session,    \* <<agent, channel, thread>>
    inbox,      \* message -> agent -> "none", "context" (trigger 0), "trigger"
    refused,    \* <<message, agent>> answered with "Permission denied"
    subscribed, \* <<channel, thread>> the adapter was asked to follow
    asking,     \* <<message, agent>> whose sender card is being prepared, with
                \* Nobody the channel's
    heldSender, \* pending_sender_approvals: [msg, agent, by]
    heldChannel,\* pending_channel_approvals: [msg, by]
    naming,     \* awaitingNameInput: the channel an approver names an agent for
    made,       \* agents there are
    restarts

cardVars == <<asking, heldSender, heldChannel, naming>>
vars == <<sent, jobs, group, denied, wired, member, session, inbox,
          refused, subscribed, made, restarts, cardVars>>

Init ==
    /\ sent = {} /\ jobs = {}
    /\ group = {x[2] : x \in FirstWired} /\ denied = {}
    /\ wired = FirstWired /\ member = FirstMember
    /\ session = {} /\ inbox = [m \in Msgs |-> [a \in Agents |-> "none"]]
    /\ refused = {} /\ subscribed = {}
    /\ asking = {} /\ heldSender = {} /\ heldChannel = {}
    /\ naming = [u \in Users |-> NoChannel]
    /\ made = Founded /\ restarts = 0

-----------------------------------------------------------------------------
\* Mutant: one session for all threads of a channel.
PlaceShared(m, a) == <<a, ChannelOf[m], NoThread>>
\* The key of a session.
Place(m, a) == <<a, ChannelOf[m], ThreadOf[m]>>

\* evaluateEngage: a session is what makes a follow-up of a sticky wiring engage.
Engages(m, a) ==
    LET mode == Mode[<<a, ChannelOf[m]>>] IN
    \/ mode = "all"
    \/ m \in Mentions /\ mode \in {"mention", "mention-sticky"}
    \/ mode = "mention-sticky" /\ ChannelOf[m] \in Groups /\ Place(m, a) \in session

\* canAccessAgentGroup
CanAccess(u, a) == <<u, a>> \in Admins \union member

\* The access gate and the sender scope.
AccessOk(m, a) == Policy[ChannelOf[m]] = "public" \/ CanAccess(SenderOf[m], a)
ScopeOk(m, a) == <<a, ChannelOf[m]>> \in Known => CanAccess(SenderOf[m], a)
Admitted(m, a) == AccessOk(m, a) /\ ScopeOk(m, a)

\* Mutant: accumulating whatever is not engaged, the refused with it.
TakesRefused(m, a) ==
    <<a, ChannelOf[m]>> \in Accumulating \/ (Engages(m, a) /\ Admitted(m, a))

\* An agent is delivered to when it engages and the sender is let in, or when
\* it does not and gathers what it hears.
Takes(m, a) ==
    IF Engages(m, a) THEN Admitted(m, a) ELSE <<a, ChannelOf[m]>> \in Accumulating

\* hasInFlightSenderApproval, hasInFlightChannelApproval
SenderHeld(m) ==
    \E h \in heldSender : ChannelOf[h.msg] = ChannelOf[m] /\ SenderOf[h.msg] = SenderOf[m]
ChannelHeld(c) == \E h \in heldChannel : ChannelOf[h.msg] = c

\* handleUnknownSender, up to the first await of requestSenderApproval
Asks(m, a) ==
    /\ Engages(m, a) /\ ~AccessOk(m, a)
    /\ Policy[ChannelOf[m]] = "request_approval" /\ ~SenderHeld(m)

-----------------------------------------------------------------------------
WiredTo(c, W) == {a \in Agents : <<a, c>> \in W}

\* routeInbound up to the fan-out, W being the wirings. A channel without one
\* is asked about when the bot is addressed there, unless it was denied.
Routed(m, f, W) ==
    LET c == ChannelOf[m] to == WiredTo(ChannelOf[m], W) IN
    IF to # {}
    THEN /\ jobs' = jobs \union {[msg |-> m, for |-> f, left |-> to]}
         /\ UNCHANGED <<group, asking>>
    ELSE /\ group' = IF m \in Mentions THEN group \union {c} ELSE group
         /\ asking' = IF m \in Mentions /\ c \notin denied /\ ~ChannelHeld(c)
                      THEN asking \union {<<m, Nobody>>} ELSE asking
         /\ UNCHANGED jobs

\* An adapter hands over a message.
Receive(m) ==
    /\ m \notin sent
    /\ sent' = sent \union {m} /\ Routed(m, Nobody, wired)
    /\ UNCHANGED <<denied, wired, member, session, inbox, refused, subscribed,
                   heldSender, heldChannel, naming, made, restarts>>

-----------------------------------------------------------------------------
\* gateCommand: "pass", or what becomes of a command that does not.
Gate(m, a) ==
    CASE Command[m] = "none" -> "pass"
      [] Command[m] = "filter" -> "filter"
      [] Command[m] = "admin" -> IF <<SenderOf[m], a>> \in Admins THEN "pass" ELSE "deny"

\* Mutant: the agent is followed with the thread.
FollowPlace(m, a) ==
    IF /\ Engages(m, a) /\ Mode[<<a, ChannelOf[m]>>] = "mention-sticky"
       /\ ThreadOf[m] # NoThread /\ ChannelOf[m] \in Groups
    THEN subscribed' = subscribed \union {Place(m, a)}
    ELSE UNCHANGED subscribed

\* The first sticky wiring that engages has the adapter follow the thread.
Follow(m, a) ==
    IF /\ Engages(m, a) /\ Mode[<<a, ChannelOf[m]>>] = "mention-sticky"
       /\ ThreadOf[m] # NoThread /\ ChannelOf[m] \in Groups
    THEN subscribed' = subscribed \union {<<ChannelOf[m], ThreadOf[m]>>}
    ELSE UNCHANGED subscribed

\* writeSessionMessage: a second row of the message in the agent's session is
\* an error of its primary key, that no one catches before the routing's end.
Duplicate(m, a) == Gate(m, a) = "pass" /\ inbox[m][a] # "none"

\* deliverToAgent. The session is made before the command is looked at.
DeliverTo(m, a, j) ==
    /\ ~Duplicate(m, a)
    /\ session' = session \union {Place(m, a)}
    /\ inbox' = [inbox EXCEPT ![m][a] =
          IF Gate(m, a) # "pass" THEN @ ELSE IF Engages(m, a) THEN "trigger" ELSE "context"]
    /\ refused' = IF Gate(m, a) = "deny" THEN refused \union {<<m, a>>} ELSE refused
    /\ Follow(m, a)
    /\ jobs' = (jobs \ {j}) \union {[j EXCEPT !.left = {b \in @ : b > a}]}

\* One stretch of the fan-out between two awaits: the agents that do not take
\* the message, with the cards their refusals ask for, and the first that does.
FanOut(j) ==
    LET m == j.msg
        takers == {a \in j.left : Takes(m, a)}
        passed == {a \in j.left : \A b \in takers : a < b} IN
    /\ j \in jobs
    /\ asking' = asking \union {<<m, a>> : a \in {b \in passed : Asks(m, b)}}
    /\ \/ /\ takers = {}
          /\ jobs' = jobs \ {j}
          /\ UNCHANGED <<session, inbox, refused, subscribed>>
       \/ \E a \in takers : (\A b \in takers : a <= b) /\ DeliverTo(m, a, j)
       \/ \E a \in takers :
            /\ \A b \in takers : a <= b
            /\ Duplicate(m, a)
            /\ jobs' = jobs \ {j} /\ session' = session \union {Place(m, a)}
            /\ UNCHANGED <<inbox, refused, subscribed>>
    /\ UNCHANGED <<sent, group, denied, wired, member, heldSender, heldChannel,
                   naming, made, restarts>>

-----------------------------------------------------------------------------
\* The admins a card about agent a may be sent to; a channel's is about the
\* first agent.
ApproverOf(u, a) == <<u, IF a = Nobody THEN 1 ELSE a>> \in Admins

\* requestSenderApproval and requestChannelApproval after their awaits: no
\* approver can be written to, another request's row is there first (the
\* INSERT fails), or the row is made. A card that did not get out is one that
\* nobody ever answers.
AskFails(m, a) ==
    /\ <<m, a>> \in asking
    /\ asking' = asking \ {<<m, a>>}
    /\ UNCHANGED <<sent, jobs, group, denied, wired, member, session, inbox,
                   refused, subscribed, heldSender, heldChannel, naming, made, restarts>>

HoldSender(m, a, u) ==
    /\ <<m, a>> \in asking /\ a # Nobody /\ ApproverOf(u, a) /\ ~SenderHeld(m)
    /\ asking' = asking \ {<<m, a>>}
    /\ heldSender' = heldSender \union {[msg |-> m, agent |-> a, by |-> u]}
    /\ UNCHANGED <<sent, jobs, group, denied, wired, member, session, inbox,
                   refused, subscribed, heldChannel, naming, made, restarts>>

HoldChannel(m, u) ==
    /\ <<m, Nobody>> \in asking /\ ApproverOf(u, Nobody) /\ ~ChannelHeld(ChannelOf[m])
    /\ asking' = asking \ {<<m, Nobody>>}
    /\ heldChannel' = heldChannel \union {[msg |-> m, by |-> u]}
    /\ UNCHANGED <<sent, jobs, group, denied, wired, member, session, inbox,
                   refused, subscribed, heldSender, naming, made, restarts>>

\* The approver the card went to, or any admin of the agent it is about.
MayDecide(u, h, a) == u = h.by \/ ApproverOf(u, a)

\* handleSenderApprovalResponse
Admit(h, u) ==
    /\ h \in heldSender /\ MayDecide(u, h, h.agent)
    /\ member' = member \union {<<SenderOf[h.msg], h.agent>>}
    /\ heldSender' = heldSender \ {h}
    /\ Routed(h.msg, h.agent, wired)
    /\ UNCHANGED <<sent, denied, wired, session, inbox, refused, subscribed, heldChannel,
                   naming, made, restarts>>

Refuse(h, u) ==
    /\ h \in heldSender /\ MayDecide(u, h, h.agent)
    /\ heldSender' = heldSender \ {h}
    /\ UNCHANGED <<sent, jobs, group, denied, wired, member, session, inbox,
                   refused, subscribed, asking, heldChannel, naming, made, restarts>>

\* Mutant: the sender is not made a member.
WireChannelOnly(h, a) ==
    LET c == ChannelOf[h.msg] IN
    IF <<a, c>> \in wired
    THEN UNCHANGED <<wired, member, heldChannel, jobs, group, asking>>
    ELSE /\ wired' = wired \union {<<a, c>>}
         /\ UNCHANGED member
         /\ heldChannel' = heldChannel \ {h}
         /\ Routed(h.msg, a, wired \union {<<a, c>>})

\* wireApprovedChannel. An agent wired there already is an error, and the row stays.
WireChannel(h, a) ==
    LET c == ChannelOf[h.msg] IN
    IF <<a, c>> \in wired
    THEN UNCHANGED <<wired, member, heldChannel, jobs, group, asking>>
    ELSE /\ wired' = wired \union {<<a, c>>}
         /\ member' = member \union {<<SenderOf[h.msg], a>>}
         /\ heldChannel' = heldChannel \ {h}
         /\ Routed(h.msg, a, wired \union {<<a, c>>})

\* handleChannelApprovalResponse: an existing agent, a new one, or none.
Connect(h, u, a) ==
    /\ h \in heldChannel /\ MayDecide(u, h, Nobody)
    /\ a <= made /\ <<u, a>> \in Admins
    /\ WireChannel(h, a)
    /\ UNCHANGED <<sent, denied, session, inbox, refused, subscribed, heldSender, naming,
                   made, restarts>>

\* The prompt goes to the approver of the card, and takes the place of any
\* other prompt of theirs.
AskName(h, u) ==
    /\ h \in heldChannel /\ MayDecide(u, h, Nobody)
    /\ naming' = [naming EXCEPT ![h.by] = ChannelOf[h.msg]]
    /\ UNCHANGED <<sent, jobs, group, denied, wired, member, session, inbox,
                   refused, subscribed, asking, heldSender, heldChannel, made, restarts>>

Deny(h, u) ==
    /\ h \in heldChannel /\ MayDecide(u, h, Nobody)
    /\ denied' = denied \union {ChannelOf[h.msg]} /\ heldChannel' = heldChannel \ {h}
    /\ UNCHANGED <<sent, jobs, group, wired, member, session, inbox, refused,
                   subscribed, asking, heldSender, naming, made, restarts>>

\* The interceptor: the approver's next direct message. An empty one, or the
\* prompt's failure, ends the wait.
NameLost(u) ==
    /\ naming[u] # NoChannel
    /\ naming' = [naming EXCEPT ![u] = NoChannel]
    /\ UNCHANGED <<sent, jobs, group, denied, wired, member, session, inbox,
                   refused, subscribed, asking, heldSender, heldChannel, made, restarts>>

Name(u) ==
    /\ naming[u] # NoChannel
    /\ naming' = [naming EXCEPT ![u] = NoChannel]
    /\ \/ /\ ~ChannelHeld(naming[u])
          /\ UNCHANGED <<jobs, group, asking, wired, member, heldChannel, made>>
       \/ \E h \in heldChannel :
            /\ ChannelOf[h.msg] = naming[u] /\ made < MaxAgents
            /\ made' = made + 1 /\ WireChannel(h, made + 1)
    /\ UNCHANGED <<sent, denied, session, inbox, refused, subscribed, heldSender, restarts>>

\* What is under way is lost, rows and cards stay.
HostRestart ==
    /\ restarts < MaxRestarts
    /\ restarts' = restarts + 1
    /\ jobs' = {} /\ asking' = {}
    /\ naming' = [u \in Users |-> NoChannel]
    /\ UNCHANGED <<sent, group, denied, wired, member, session, inbox, refused,
                   subscribed, heldSender, heldChannel, made>>

-----------------------------------------------------------------------------
Fans == [msg : Msgs, for : Agents \union {Nobody}, left : SUBSET Agents]

Next ==
    \/ \E m \in Msgs :
        \/ Receive(m)
        \/ \E f \in Agents \union {Nobody} : AskFails(m, f)
        \/ \E u \in Users :
            (\E a \in Agents : HoldSender(m, a, u)) \/ HoldChannel(m, u)
    \/ \E j \in jobs : FanOut(j)
    \/ \E u \in Users :
        \/ \E h \in heldSender : Admit(h, u) \/ Refuse(h, u)
        \/ \E h \in heldChannel :
            AskName(h, u) \/ Deny(h, u) \/ \E a \in Agents : Connect(h, u, a)
        \/ Name(u) \/ NameLost(u)
    \/ HostRestart

Spec == Init /\ [][Next]_vars

-----------------------------------------------------------------------------
TypeOK ==
    /\ sent \subseteq Msgs
    /\ jobs \subseteq Fans
    /\ group \subseteq Channels /\ denied \subseteq Channels
    /\ wired \subseteq Agents \X Channels /\ member \subseteq Users \X Agents
    /\ session \subseteq Agents \X Channels \X Threads
    /\ inbox \in [Msgs -> [Agents -> {"none", "context", "trigger"}]]
    /\ refused \subseteq Msgs \X Agents /\ subscribed \subseteq Channels \X Threads
    /\ asking \subseteq Msgs \X (Agents \union {Nobody})
    /\ heldSender \subseteq [msg : Msgs, agent : Agents, by : Users]
    /\ heldChannel \subseteq [msg : Msgs, by : Users]
    /\ naming \in [Users -> Channels \union {NoChannel}]
    /\ made \in Agents /\ restarts \in 0..MaxRestarts

\* The agents a message went to, as an answer of its own or as context.
Reached(m) == {a \in Agents : inbox[m][a] # "none" \/ <<m, a>> \in refused}

\* A message an agent has to answer comes from somebody let in to that very
\* agent; only where the channel is public and the wiring open from anybody.
StrangersWait ==
    \A m \in Msgs, a \in Agents :
        inbox[m][a] = "trigger" => Admitted(m, a) /\ <<a, ChannelOf[m]>> \in wired

\* Membership is the decision on a held message of that user's: nobody is a
\* member who neither was one at first nor had a message held.
MembersWrote ==
    \A x \in member \ FirstMember :
        \E m \in sent : SenderOf[m] = x[1] /\ <<x[2], ChannelOf[m]>> \in wired

\* One card a channel and one a sender in it: the rows of two requests that
\* raced each other are never both there.
OneCard ==
    /\ \A g, h \in heldChannel : ChannelOf[g.msg] = ChannelOf[h.msg] => g = h
    /\ \A g, h \in heldSender :
        ChannelOf[g.msg] = ChannelOf[h.msg] /\ SenderOf[g.msg] = SenderOf[h.msg] => g = h

\* Nobody unknown gets an answer: of the decisions on what strangers wrote
\* each is asked for once, and lets in the one who wrote, there.
Admission == StrangersWait /\ MembersWrote /\ OneCard

\* A thread the adapter follows has a sticky agent with a session in it, so
\* that what follows without a mention does engage it.
FollowedEngages ==
    \A s \in subscribed :
        \E a \in Agents : Mode[<<a, s[1]>>] = "mention-sticky" /\ <<a, s[1], s[2]>> \in session

\* A denied channel, once the requests under way when it was denied are over,
\* is never asked about again.
DeniedIsQuiet ==
    [][\A c \in denied :
        /\ ~ChannelHeld(c) /\ \A m \in Msgs : ChannelOf[m] = c => <<m, Nobody>> \notin asking
        => ~ChannelHeld(c)' /\ \A m \in Msgs : ChannelOf[m] = c => <<m, Nobody>> \notin asking']_vars

\* A message admitted by a decision is not done with before it reached the
\* agent it was held for, short of a restart; or of an agent before it having
\* the message already, whose second row ends the routing.
Replayed(m, a) == \E j \in jobs : j.msg = m /\ j.for = a

AdmittedArrives ==
    [][\A m \in Msgs, a \in Agents :
        Replayed(m, a) /\ ~Replayed(m, a)' =>
            \/ a \in Reached(m)' \/ Command[m] = "filter" \/ restarts' # restarts
            \/ \E b \in Agents : b < a /\ inbox[m][b] # "none"]_vars

\* A decision stands: the refused is not asked about again, the admitted
\* message arrives.
DecisionsHold == DeniedIsQuiet /\ AdmittedArrives
=============================================================================
