--------------------------- MODULE Configuration ---------------------------
(***************************************************************************)
(* The configuration of one agent group and the containers that run with   *)
(* it. A container reads it when it is spawned (mounts, image) and once    *)
(* more, from container.json, when its runner boots; a change takes effect *)
(* by killing the container and waking another. Who changes it: the        *)
(* operator, an approved self-modification, and a provider migration, which*)
(* first asks the agent to write a handoff for its successor.              *)
(*                                                                         *)
(* Source: src/{container-runner,container-restart}.ts,                    *)
(* src/modules/agent-to-agent/provider-migration.ts,                       *)
(* src/modules/self-mod/apply.ts, and the commands of                      *)
(* src/cli/resources/groups.ts. A configuration is known by its            *)
(* version, the number of changes made to it. An inbound row is a pair of  *)
(* its kind and a number: the migration for "ask", the version current     *)
(* when it was written for the others. "handoff", "restart" and "note" are *)
(* on_wake rows, which only the first poll of a runner takes.              *)
(* Bounds: MaxChanges (commands of the operator and requests applied),     *)
(* MaxFaults (failed spawns, containers that die by themselves, crashes of *)
(* the host).                                                              *)
(***************************************************************************)
EXTENDS Naturals, FiniteSets

CONSTANTS
    Sessions,     \* of the agent group
    Shared,       \* its agent-shared session
    Providers, FirstProvider,
    Targets,      \* the providers a migration can switch to
    Installs,     \* install_packages requests the admin approved
    Servers,      \* add_mcp_server requests the admin approved
    SessionOf,    \* the session that asked
    MaxChanges, MaxFaults

ASSUME ConfigurationAssumption ==
    /\ Shared \in Sessions /\ FirstProvider \in Providers /\ Targets \subseteq Providers
    /\ SessionOf \in [Installs \union Servers -> Sessions]
    /\ {MaxChanges, MaxFaults} \subseteq Nat

Migrations == 1..MaxChanges
Versions == 0..MaxChanges

VARIABLES
    provider,   \* container_configs.provider
    version,    \* how often container_configs was changed
    file,       \* the version container.json was last written from
    listed,     \* requests whose packages container_configs lists
    image,      \* the requests whose packages the group's image holds
    tagged,     \* container_configs.image_tag is set
    dockerfile, \* the temporary Dockerfile of the group exists
    job,        \* what became of an approved request
    content,    \* what the Dockerfile of its build listed
    mig,        \* provider_migrations: state, target, version it made
    handoff,    \* .migration-handoff.md exists
    markers,    \* undelivered HANDOFF_READY replies
    cont,       \* the container of each session
    inbox,      \* its inbound rows not completed
    changes, faults

recordVars == <<provider, version, listed>>
buildVars == <<image, tagged, dockerfile, job, content>>
migVars == <<mig, handoff, markers>>
bounds == <<changes, faults>>
contVars == <<cont, inbox, file>>
groupVars == <<recordVars, buildVars, migVars, contVars, bounds>>

-----------------------------------------------------------------------------
(***************************************************************************)
(* spawning: spawns in flight (wakePromises); active: in activeContainers; *)
(* live: containers that run; polled: its runner polled once; spawned and  *)
(* runner: the version its arguments and its runner were made from;        *)
(* respawn: wake another when it has closed; claims: rows it processes.    *)
(***************************************************************************)
Off == [spawning |-> 0, active |-> FALSE, live |-> 0, polled |-> FALSE,
        spawned |-> 0, runner |-> 0, respawn |-> FALSE, claims |-> {}]

ConfigInit ==
    /\ provider = FirstProvider /\ version = 0 /\ file = 0 /\ listed = {}
    /\ image = {} /\ tagged = FALSE /\ dockerfile = FALSE
    /\ job = [q \in Installs \union Servers |-> "approved"]
    /\ content = [q \in Installs |-> {}]
    /\ mig = [m \in Migrations |-> [state |-> "none", to |-> FirstProvider, made |-> 0]]
    /\ handoff = FALSE /\ markers = 0
    /\ cont = [s \in Sessions |-> Off] /\ inbox = [s \in Sessions |-> {}]
    /\ changes = 0 /\ faults = 0

OnWake == {"handoff", "restart", "note"}

\* Mutant: the wake in flight is not looked for.
IdleUnlessActive(c) == ~c.active

Idle(c) == ~c.active /\ c.spawning = 0

\* wakeContainer and the synchronous part of spawnContainer, at version v.
Woken(c, v) ==
    IF Idle(c) THEN [c EXCEPT !.spawning = @ + 1, !.spawned = v] ELSE c

\* killContainer: docker stop returns when the container is gone.
Killed(c, again) ==
    IF c.active THEN [c EXCEPT !.live = 0, !.claims = {}, !.respawn = @ \/ again] ELSE c

\* A spawn writes container.json.
Wake(s) ==
    /\ cont' = [cont EXCEPT ![s] = Woken(@, version)]
    /\ file' = IF Idle(cont[s]) THEN version ELSE file

Fault == faults < MaxFaults /\ faults' = faults + 1

Changing == changes < MaxChanges /\ changes' = changes + 1

Write(s, row) == inbox' = [inbox EXCEPT ![s] = @ \union {row}]

\* spawnContainer got through its awaits, or did not.
Spawned(s) ==
    /\ cont[s].spawning > 0
    /\ cont' = [cont EXCEPT ![s].spawning = @ - 1, ![s].active = TRUE, ![s].live = @ + 1]
    /\ UNCHANGED <<recordVars, buildVars, migVars, inbox, file, bounds>>

SpawnFails(s) ==
    /\ cont[s].spawning > 0 /\ Fault
    /\ cont' = [cont EXCEPT ![s].spawning = @ - 1]
    /\ UNCHANGED <<recordVars, buildVars, migVars, inbox, file, changes>>

\* The runner reads container.json and polls for the first time: the acks a
\* dead container left are cleared, so whatever it had claimed is due again.
Boot(s) ==
    /\ cont[s].live > 0 /\ ~cont[s].polled
    /\ cont' = [cont EXCEPT ![s].polled = TRUE, ![s].runner = file, ![s].claims = inbox[s]]
    /\ UNCHANGED <<recordVars, buildVars, migVars, inbox, file, bounds>>

Poll(s) ==
    LET rows == {r \in inbox[s] : r[1] \notin OnWake}
    IN  /\ cont[s].live > 0 /\ cont[s].polled /\ cont[s].claims = {} /\ rows # {}
        /\ cont' = [cont EXCEPT ![s].claims = rows]
        /\ UNCHANGED <<recordVars, buildVars, migVars, inbox, file, bounds>>

\* The turn ends. An agent asked for a handoff may write the file, and may
\* reply with the marker.
Done(s) ==
    LET asked == \E r \in cont[s].claims : r[1] = "ask"
    IN  /\ cont[s].claims # {}
        /\ inbox' = [inbox EXCEPT ![s] = @ \ cont[s].claims]
        /\ cont' = [cont EXCEPT ![s].claims = {}]
        /\ handoff' \in IF asked THEN {handoff, TRUE} ELSE {handoff}
        /\ markers' \in IF asked THEN {markers, markers + 1} ELSE {markers}
        /\ UNCHANGED <<recordVars, buildVars, mig, file, bounds>>

\* A container dies by itself, or the sweep kills it.
Exit(s) ==
    /\ cont[s].live > 0 /\ Fault
    /\ cont' = [cont EXCEPT ![s].live = 0, ![s].claims = {}]
    /\ UNCHANGED <<recordVars, buildVars, migVars, inbox, file, changes>>

\* The close event: first it leaves activeContainers, then onExit wakes.
Close(s) ==
    /\ cont[s].active /\ cont[s].live = 0
    /\ IF cont[s].respawn
       THEN cont' = [cont EXCEPT ![s] = Woken(Off, version)] /\ file' = version
       ELSE cont' = [cont EXCEPT ![s] = Off] /\ UNCHANGED file
    /\ UNCHANGED <<recordVars, buildVars, migVars, inbox, bounds>>

\* The host sweep wakes a session with due rows and no container.
Sweep(s) ==
    /\ inbox[s] # {} /\ ~cont[s].active
    /\ Wake(s)
    /\ UNCHANGED <<recordVars, buildVars, migVars, inbox, bounds>>

-----------------------------------------------------------------------------
\* Mutants: containers keep running until they are needed, or
RestartNone(done, row) ==
    /\ inbox' = [s \in Sessions |->
                    IF s \in done /\ cont[s].active THEN inbox[s] \union row ELSE inbox[s]]
    /\ UNCHANGED cont

\* a session whose container is still being spawned is taken for running.
RestartSpawning(done, row) ==
    /\ inbox' = [s \in Sessions |->
                    IF s \in done /\ ~Idle(cont[s]) THEN inbox[s] \union row ELSE inbox[s]]
    /\ cont' = [s \in Sessions |-> Killed(cont[s], TRUE)]

\* restartAgentGroupContainers over the sessions `done` (all, unless the host
\* dies meanwhile). row is the wake message, as a set of at most one.
RestartAll(done, row) ==
    LET hit == {s \in done : cont[s].active}
        due(s) == inbox[s] \union row
    IN  /\ inbox' = [s \in Sessions |-> IF s \in hit THEN due(s) ELSE inbox[s]]
        /\ cont' = [s \in Sessions |->
                       IF s \in hit THEN Killed(cont[s], due(s) # {}) ELSE cont[s]]

\* ncl groups restart from the host, with or without a message.
Restart ==
    /\ Changing
    /\ \E row \in {{}, {<<"restart", version>>}} : RestartAll(Sessions, row)
    /\ UNCHANGED <<recordVars, buildVars, migVars, file, faults>>

\* ... from a container: its own session, woken again only for a message.
RestartSelf(s) ==
    /\ Changing
    /\ \/ /\ Write(s, <<"note", version>>)
          /\ cont' = [cont EXCEPT ![s] = Killed(@, TRUE)]
       \/ /\ cont' = [cont EXCEPT ![s] = Killed(@, FALSE)]
          /\ UNCHANGED inbox
    /\ UNCHANGED <<recordVars, buildVars, migVars, file, faults>>

\* ncl groups config update
Update(p) ==
    /\ Changing
    /\ provider' = p /\ version' = version + 1
    /\ UNCHANGED <<listed, buildVars, migVars, contVars, faults>>

-----------------------------------------------------------------------------
Pending == {"requesting_handoff", "switching"}

Active(m) == mig[m].state \in Pending

SetState(m, s) == mig' = [mig EXCEPT ![m].state = s]

\* startProviderSwitch, with validateProviderSwitch.
Start(m, p) ==
    /\ Changing /\ mig[m].state = "none" /\ \A n \in 1..(m - 1) : mig[n].state # "none"
    /\ p \in Targets /\ p # provider /\ \A n \in Migrations : ~Active(n)
    /\ mig' = [mig EXCEPT ![m].state = "requesting_handoff", ![m].to = p]
    /\ Write(Shared, <<"ask", m>>) /\ Wake(Shared)
    /\ UNCHANGED <<recordVars, buildVars, handoff, markers, faults>>

\* observeProviderHandoff consumes a marker, and finds no file,
HandoffMissing(m) ==
    /\ markers > 0 /\ mig[m].state = "requesting_handoff" /\ ~handoff
    /\ SetState(m, "failed") /\ markers' = markers - 1
    /\ UNCHANGED <<recordVars, buildVars, handoff, contVars, bounds>>

\* ... or switches: state, configuration, containers and state again,
SwitchConfig(m) ==
    /\ provider' = mig[m].to /\ version' = version + 1 /\ UNCHANGED listed

Switch(m) ==
    /\ markers > 0 /\ mig[m].state = "requesting_handoff" /\ handoff
    /\ SwitchConfig(m)
    /\ RestartAll(Sessions, {<<"handoff", version + 1>>})
    /\ mig' = [mig EXCEPT ![m].state = "switched", ![m].made = version + 1]
    /\ markers' = markers - 1
    /\ UNCHANGED <<buildVars, handoff, file, bounds>>

\* ... or has nothing to do with it: the marker goes to the channel.
MarkerPasses ==
    /\ markers > 0 /\ \A m \in Migrations : mig[m].state # "requesting_handoff"
    /\ markers' = markers - 1
    /\ UNCHANGED <<recordVars, buildVars, mig, handoff, contVars, bounds>>

\* Mutants: the newest migration, whatever its state.
AbortNewest(m) ==
    /\ mig[m].state # "none" /\ \A n \in Migrations : n > m => mig[n].state = "none"
    /\ SetState(m, "aborted")
    /\ UNCHANGED <<recordVars, buildVars, handoff, markers, contVars, bounds>>

\* abortProviderMigration
Abort(m) ==
    /\ Active(m) /\ SetState(m, "aborted")
    /\ UNCHANGED <<recordVars, buildVars, handoff, markers, contVars, bounds>>

\* sweepExpiredProviderMigrations: after 24 hours.
Expire(m) ==
    /\ Active(m) /\ SetState(m, "failed")
    /\ UNCHANGED <<recordVars, buildVars, handoff, markers, contVars, bounds>>

-----------------------------------------------------------------------------
\* Mutant: the build lists the package, the configuration does not.
InstallUnsaved(q) ==
    /\ Changing /\ job[q] = "approved" /\ job' = [job EXCEPT ![q] = "building"]
    /\ content' = [content EXCEPT ![q] = listed \union {q}] /\ dockerfile' = TRUE
    /\ UNCHANGED <<recordVars, image, tagged, migVars, contVars, faults>>

\* applyInstallPackages, up to the await of the build.
Install(q) ==
    /\ Changing /\ job[q] = "approved" /\ job' = [job EXCEPT ![q] = "building"]
    /\ listed' = listed \union {q} /\ version' = version + 1
    /\ content' = [content EXCEPT ![q] = listed'] /\ dockerfile' = TRUE
    /\ UNCHANGED <<provider, image, tagged, migVars, contVars, faults>>

\* buildAgentGroupImage ends: an image of the group's tag, the Dockerfile
\* removed, the tag stored,
ImageBuilt(q) ==
    /\ dockerfile /\ dockerfile' = FALSE
    /\ image' = content[q] /\ tagged' = TRUE

\* or the build failed, or another build's end has removed the Dockerfile.
BuildThrows(q) ==
    /\ image' \in IF dockerfile THEN {image} ELSE {image, content[q]}
    /\ dockerfile' = FALSE /\ UNCHANGED tagged

\* applyInstallPackages goes on after the await.
Built(q) ==
    /\ job[q] = "building" /\ job' = [job EXCEPT ![q] = "done"]
    /\ ImageBuilt(q)
    /\ Write(SessionOf[q], <<"note", version>>)
    /\ cont' = [cont EXCEPT ![SessionOf[q]] = Killed(@, TRUE)]
    /\ UNCHANGED <<provider, version, listed, content, migVars, file, bounds>>

BuildFails(q) ==
    /\ job[q] = "building" /\ job' = [job EXCEPT ![q] = "failed"]
    /\ BuildThrows(q)
    /\ Write(SessionOf[q], <<"failed", version>>) /\ Wake(SessionOf[q])
    /\ UNCHANGED <<recordVars, content, migVars, bounds>>

\* applyAddMcpServer
AddServer(q) ==
    /\ Changing /\ job[q] = "approved" /\ job' = [job EXCEPT ![q] = "done"]
    /\ version' = version + 1
    /\ Write(SessionOf[q], <<"note", version + 1>>)
    /\ cont' = [cont EXCEPT ![SessionOf[q]] = Killed(@, TRUE)]
    /\ UNCHANGED <<provider, listed, image, tagged, dockerfile, content, migVars, file, faults>>

-----------------------------------------------------------------------------
\* The host dies and starts again: cleanupOrphans stops its containers, and
\* the builds it awaited are forgotten.
Dies ==
    /\ Fault
    /\ cont' = [s \in Sessions |-> Off]
    /\ job' = [q \in DOMAIN job |-> IF job[q] = "building" THEN "lost" ELSE job[q]]
    /\ UNCHANGED <<image, tagged, dockerfile, content, handoff, markers, file, changes>>

HostRestart == Dies /\ UNCHANGED <<recordVars, mig, inbox>>

\* ... between two steps of a switch. The marker stays undelivered.
DiesSwitching(m) ==
    /\ markers > 0 /\ mig[m].state = "requesting_handoff" /\ handoff
    /\ Dies
    /\ \/ SetState(m, "switching") /\ UNCHANGED <<recordVars, inbox>>
       \/ /\ mig' = [mig EXCEPT ![m].state = "switching", ![m].made = version + 1]
          /\ SwitchConfig(m)
          /\ \E done \in SUBSET {s \in Sessions : cont[s].active} :
                inbox' = [s \in Sessions |-> IF s \in done
                             THEN inbox[s] \union {<<"handoff", version + 1>>} ELSE inbox[s]]

-----------------------------------------------------------------------------
ConfigNext ==
    \/ \E s \in Sessions : Spawned(s) \/ SpawnFails(s) \/ Boot(s) \/ Poll(s) \/ Done(s)
                           \/ Exit(s) \/ Close(s) \/ Sweep(s) \/ RestartSelf(s)
    \/ Restart \/ MarkerPasses \/ HostRestart
    \/ \E p \in Providers : Update(p)
    \/ \E m \in Migrations : \/ \E p \in Targets : Start(m, p)
                             \/ HandoffMissing(m) \/ Switch(m) \/ Abort(m) \/ Expire(m)
                             \/ DiesSwitching(m)
    \/ \E q \in Installs : Install(q) \/ Built(q) \/ BuildFails(q)
    \/ \E q \in Servers : AddServer(q)

\* The sweep runs for ever, a spawn, a boot and a turn succeed now and then,
\* and a build is stopped after 15 minutes.
ConfigFairness ==
    /\ \A s \in Sessions : /\ WF_groupVars(Spawned(s)) /\ WF_groupVars(Boot(s)) /\ WF_groupVars(Done(s))
                           /\ WF_groupVars(Poll(s)) /\ WF_groupVars(Close(s)) /\ WF_groupVars(Sweep(s))
    /\ \A m \in Migrations : WF_groupVars(Expire(m))
    /\ \A q \in Installs : WF_groupVars(Built(q) \/ BuildFails(q))

ConfigSpec == ConfigInit /\ [][ConfigNext]_groupVars /\ ConfigFairness

-----------------------------------------------------------------------------
Rows == {"ask"} \X Migrations \union (OnWake \union {"failed"}) \X Versions
Containers ==
    [spawning : Nat, active : BOOLEAN, live : Nat, polled : BOOLEAN, spawned : Versions,
     runner : Versions, respawn : BOOLEAN, claims : SUBSET Rows]

ConfigTypeOK ==
    /\ provider \in Providers /\ version \in Versions /\ file \in 0..version
    /\ listed \subseteq Installs /\ image \subseteq listed /\ tagged \in BOOLEAN
    /\ dockerfile \in BOOLEAN /\ content \in [Installs -> SUBSET listed]
    /\ job \in [Installs \union Servers -> {"approved", "building", "done", "failed", "lost"}]
    /\ mig \in [Migrations -> [state : Pending \union {"none", "switched", "failed", "aborted"},
                               to : Providers, made : Versions]]
    /\ handoff \in BOOLEAN /\ markers \in Nat
    /\ cont \in [Sessions -> Containers] /\ inbox \in [Sessions -> SUBSET Rows]
    /\ {changes, faults} \subseteq Nat

\* A session never has two containers, whoever wakes it while one is being
\* spawned, being killed or closing.
OneContainer == \A s \in Sessions : cont[s].live + cont[s].spawning <= 1

\* At most one migration of the group is pending, also after the host died in
\* the middle of a switch.
OneMigration == Cardinality({m \in Migrations : mig[m].state \in Pending}) <= 1

\* A handoff, and the message of a restart, are read only by a container
\* that was made from the configuration they speak of, or from a newer one:
\* never by one that is on its way out.
HandoffIsForSuccessor ==
    \A s \in Sessions : \A r \in cont[s].claims :
        r[1] \in {"handoff", "restart"} => r[2] <= cont[s].spawned /\ r[2] <= cont[s].runner

\* A runner reads a configuration no older than its mounts were made from.
RunnerNotOlder ==
    \A s \in Sessions : cont[s].live > 0 /\ cont[s].polled => cont[s].spawned <= cont[s].runner

\* No container works with a configuration older than the one it was made for,
\* or than the one its opening message speaks of.
NoneIsOutdated == HandoffIsForSuccessor /\ RunnerNotOlder

\* A session's container is its only one, and current for what it is told.
ContainersAgree == OneContainer /\ NoneIsOutdated

\* What ended stays as it ended: a late marker, an abort and the expiry
\* change nothing of a migration that was switched, aborted or failed.
EndedIsFinal ==
    [][\A m \in Migrations : mig[m].state \in {"switched", "failed", "aborted"} => mig'[m] = mig[m]]_groupVars

\* The handoff of a migration that switched is in a session's inbox, for its
\* successor to begin from. Not so: README, 6.
HandoffIsKept ==
    [][\A m \in Migrations :
          mig[m].state # "switched" /\ mig'[m].state = "switched"
              => \E s \in Sessions : <<"handoff", mig'[m].made>> \in inbox'[s]]_groupVars

\* Every migration ends, one the host died in included.
MigrationsEnd ==
    \A m \in Migrations : mig[m].state \in Pending ~> mig[m].state \notin Pending

\* One migration at a time, each ends, and only once.
MigrationsSettle == []OneMigration /\ EndedIsFinal /\ MigrationsEnd

\* A row written for a session is read to its end, on_wake or not: no
\* interleaving of kills and wakes leaves one where no container polls for it.
RowsAreRead == \A s \in Sessions : inbox[s] # {} ~> inbox[s] = {}
=============================================================================
