---------------------------- MODULE CoreLifecycle ----------------------------
(***************************************************************************)
(* How the Core of a device starts, is paused, resumed, moved between      *)
(* loopback and the network, stopped and started again: core_lifecycle.go, *)
(* network_access.go, the listener of share_transport.go, the start and    *)
(* suspension of the mesh in share_mqtt.go and share_discovery.go, and the *)
(* tray that supervises it (app.go, boot.go, coreclient).                  *)
(*                                                                         *)
(* A Core is a process that owns two ports.  The tray and the session hook *)
(* start one when they find the ports closed; what they looked at may have *)
(* changed by then.  A Core answers admin requests concurrently, and each  *)
(* is a sequence of writes to files, flags and sockets.                    *)
(*                                                                         *)
(* Left out: failing writes of the two files; the discovery library        *)
(* (external); links the loops build later (MeshElection has those).       *)
(***************************************************************************)
EXTENDS Naturals, FiniteSets

CONSTANTS
    CoreProcess,    \* processes that may run a Core
    Request,        \* admin requests that are under way
    None,
    Scene           \* who acts, and how often

VARIABLES
    scene,
    disk,       \* mesh-state.json and network.json
    port,       \* who listens on the share port, who on the dashboard's
    core,       \* the state of each process
    starter,    \* goroutines that build links and start discovery
    request,
    tray,       \* the tray's control loop
    recent,     \* Starter.lastSpawn is less than five seconds ago
    hook,       \* a session hook
    left,       \* how much of each may still happen
    overlap,    \* two requests, or a request and a start of the mesh, overlapped
    crashed     \* a Core was killed

life == <<scene, disk, port, core, starter, request, tray, recent, hook, left, overlap, crashed>>

\* admin: requests by kind; up: a Core runs already; clicks: what the tray's person may click.
IsScene(s) ==
    /\ s.admin \subseteq {"pause", "resume", "stop", "lan", "local"}
    /\ s.admins \in Nat /\ s.hooks \in Nat /\ s.clicks \in Nat /\ s.crashes \in Nat
    /\ s.up \in BOOLEAN

ASSUME LifeAssumption ==
    /\ CoreProcess # {} /\ None \notin CoreProcess
    /\ \A s \in Scene : IsScene(s)

-----------------------------------------------------------------------------
Off == [at |-> "off", paused |-> FALSE, stopped |-> FALSE, finishing |-> FALSE, bind |-> "local",
        rebinding |-> None, armed |-> FALSE, epoch |-> 0, closing |-> FALSE,
        links |-> {}, announced |-> None]

\* meshTransportsOpen.
Open(c) == ~core[c].paused /\ ~core[c].stopped

EpochOpen(c, e) == core[c].epoch = e /\ core[c].armed /\ ~core[c].closing

\* A process starts on loopback; the stored choice decides what it listens on.
Effective(choice) == IF choice = "lan" THEN "lan" ELSE "local"

Lives(c) == core[c].at # "off"

\* Answers /api/core/ui.
Serves(c) == port.ui = c

\* boot.go registered: the share port takes connections, or the admin API answers.
Registered == port.listen # None \/ port.ui # None

Idle == [what |-> "none", at |-> "idle", core |-> None, mode |-> "running", prev |-> "unset", epoch |-> 0,
         says |-> None]

Working(c) == {r \in Request : request[r].core = c}

\* The process is gone, with its sockets, goroutines and requests.
Exits(c) ==
    /\ core' = [core EXCEPT ![c] = Off]
    /\ port' = [p \in DOMAIN port |-> IF port[p] = c THEN None ELSE port[p]]
    /\ starter' = {s \in starter : s.core # c}
    /\ request' = [r \in Request |-> IF request[r].core = c THEN Idle ELSE request[r]]

-----------------------------------------------------------------------------
(* A Core starts: share listen.                                             *)

Spawned == {c \in CoreProcess : core[c].at = "off"}

Spawn == \E c \in Spawned : core' = [core EXCEPT ![c].at = "starting"]

\* loadMeshState and effectiveShareListen, before the bind.
LoadMeshState(c) ==
    /\ core[c].at = "starting"
    /\ core' = [core EXCEPT ![c].at = "loaded", ![c].paused = (disk.mesh = "paused"),
                            ![c].bind = Effective(disk.network)]
    /\ overlap' = (overlap \/ \E r \in Request : request[r] # Idle)
    /\ UNCHANGED <<scene, disk, port, starter, request, tray, recent, hook, left, crashed>>

\* startShareListener: when the port is taken, the process ends.
StartShareListener(c) ==
    /\ core[c].at = "loaded"
    /\ IF port.listen = None
       THEN /\ port' = [port EXCEPT !.listen = c]
            /\ core' = [core EXCEPT ![c].at = "listening"]
            /\ UNCHANGED <<starter, request>>
       ELSE Exits(c)
    /\ UNCHANGED <<scene, disk, tray, recent, hook, left, overlap, crashed>>

\* startShareDashboard: when its port is taken, the Core goes on without.
StartShareDashboard(c) ==
    /\ core[c].at = "listening"
    /\ port' = [port EXCEPT !.ui = IF @ = None THEN c ELSE @]
    /\ core' = [core EXCEPT ![c].at = "served"]
    /\ UNCHANGED <<scene, disk, starter, request, tray, recent, hook, left, overlap, crashed>>

\* startMeshServices: a new epoch, and a goroutine that brings links and discovery up.
MeshStarts(c) ==
    /\ core' = [core EXCEPT ![c].at = "up", ![c].armed = TRUE, ![c].epoch = @ + 1]
    /\ starter' = IF Open(c)
                  THEN starter \cup {[core |-> c, epoch |-> core[c].epoch + 1, at |-> "links", says |-> None]}
                  ELSE starter

StartMeshServices(c) ==
    /\ core[c].at = "served"
    /\ MeshStarts(c)
    /\ overlap' = (overlap \/ Working(c) # {})
    /\ UNCHANGED <<scene, disk, port, request, tray, recent, hook, left, crashed>>

-----------------------------------------------------------------------------
(* The goroutine of an epoch: links, then discovery.                        *)

Goes(s, at) == starter' = (starter \ {s}) \cup {[s EXCEPT !.at = at]}

\* startCircleLinks: the circle's broker is elsewhere, or it is to be here.
StartCircleLinks(s) ==
    /\ s.at = "links"
    /\ \E at \in IF EpochOpen(s.core, s.epoch) /\ Open(s.core) THEN {"dialing", "hosting"} ELSE {"discovery"} :
          Goes(s, at)
    /\ UNCHANGED <<scene, disk, port, core, request, tray, recent, hook, left, overlap, crashed>>

\* ensureLocalBroker: it looks again, under the lock, once it listens.
EnsureLocalBroker(s) ==
    /\ s.at = "hosting"
    /\ core' = IF ~core[s.core].closing /\ Open(s.core)
               THEN [core EXCEPT ![s.core].links = @ \cup {"broker"}] ELSE core
    /\ Goes(s, "discovery")
    /\ UNCHANGED <<scene, disk, port, request, tray, recent, hook, left, overlap, crashed>>

\* connectMeshClient: the link is kept whatever happened since the dial began.
ConnectMeshClient(s) ==
    /\ s.at = "dialing"
    /\ core' = [core EXCEPT ![s.core].links = @ \cup {"client"}]
    /\ Goes(s, "discovery")
    /\ UNCHANGED <<scene, disk, port, request, tray, recent, hook, left, overlap, crashed>>

\* startDiscovery: what is announced is read before the server is registered.
\* bindAddr waits for a rebind.
Announces(c, e) == Open(c) /\ EpochOpen(c, e)

StartDiscovery(s) ==
    /\ s.at = "discovery"
    /\ IF Announces(s.core, s.epoch)
       THEN /\ core[s.core].rebinding = None
            /\ starter' = (starter \ {s}) \cup {[s EXCEPT !.at = "announcing", !.says = core[s.core].bind]}
       ELSE starter' = starter \ {s}
    /\ UNCHANGED <<scene, disk, port, core, request, tray, recent, hook, left, overlap, crashed>>

\* As Registers, without the epoch.
RegistersAnyEpoch(c, e, says) ==
    IF core[c].armed /\ core[c].announced = None THEN [core EXCEPT ![c].announced = says] ELSE core

\* registerDiscovery.
Registers(c, e, says) ==
    IF EpochOpen(c, e) /\ core[c].announced = None THEN [core EXCEPT ![c].announced = says] ELSE core

RegisterDiscovery(s) ==
    /\ s.at = "announcing"
    /\ core' = Registers(s.core, s.epoch, s.says)
    /\ starter' = starter \ {s}
    /\ UNCHANGED <<scene, disk, port, request, tray, recent, hook, left, overlap, crashed>>

-----------------------------------------------------------------------------
(* Admin requests, each handled by a goroutine of its own.                  *)

\* One that comes while another is under way, or while a Core or its mesh is starting, overlaps it.
MeshStarting(c) == core[c].at \in {"loaded", "listening", "served"} \/ \E s \in starter : s.core = c

Begin(r, c, what) ==
    /\ request[r] = Idle /\ Serves(c)
    /\ request' = [request EXCEPT ![r] = [Idle EXCEPT !.what = what, !.at = "begun", !.core = c]]
    /\ overlap' = (overlap \/ Working(c) # {} \/ \E d \in CoreProcess : MeshStarting(d))

Ask(r, c, what) ==
    /\ what \in scene.admin /\ left.admins > 0
    /\ Begin(r, c, what)
    /\ left' = [left EXCEPT !.admins = @ - 1]
    /\ UNCHANGED <<scene, disk, port, core, starter, tray, recent, hook, crashed>>

Step(r, at) == request' = [request EXCEPT ![r].at = at]

Done(r) == request' = [request EXCEPT ![r] = Idle]

Quietly == UNCHANGED <<scene, tray, recent, hook, left, overlap, crashed>>

\* pauseMesh and resumeMesh: the file, the flag, then the transports.
WriteSwitch(r) ==
    /\ request[r].at = "begun" /\ request[r].what \in {"pause", "resume"}
    /\ disk' = [disk EXCEPT !.mesh = IF request[r].what = "pause" THEN "paused" ELSE "running"]
    /\ Step(r, "written")
    /\ UNCHANGED <<port, core, starter>> /\ Quietly

SetSwitch(r) ==
    /\ request[r].at = "written"
    /\ core' = [core EXCEPT ![request[r].core].paused = (request[r].what = "pause")]
    /\ Step(r, "flagged")
    /\ UNCHANGED <<disk, port, starter>> /\ Quietly

Resumes(r) ==
    LET c == request[r].core
    IN  /\ request[r].at = "flagged" /\ request[r].what = "resume"
        /\ IF core[c].armed THEN MeshStarts(c) ELSE UNCHANGED <<core, starter>>
        /\ Done(r)
        /\ UNCHANGED <<disk, port>> /\ Quietly

\* suspendMeshTransports: the epoch ends and everything is taken down, ...
Suspend(r) ==
    LET c == request[r].core
    IN  /\ request[r].at = "flagged" /\ request[r].what \in {"pause", "stop"}
        /\ core' = [core EXCEPT ![c].epoch = @ + 1, ![c].closing = TRUE, ![c].links = {}, ![c].announced = None]
        /\ Step(r, "closing")
        /\ UNCHANGED <<disk, port, starter>> /\ Quietly

\* ... then the mesh may be started again.
Suspended(r) ==
    LET c == request[r].core
    IN  /\ request[r].at = "closing"
        /\ core' = [core EXCEPT ![c].closing = FALSE]
        /\ IF request[r].what = "stop" THEN Step(r, "stopped") ELSE Done(r)
        /\ UNCHANGED <<disk, port, starter>> /\ Quietly

\* stopCore: the switch is read, written, and written again after the checkpoint.
ReadSwitch(r) ==
    LET c == request[r].core
    IN  /\ request[r].at = "begun" /\ request[r].what = "stop"
        /\ request' = [request EXCEPT ![r].at = "read", ![r].mode = IF core[c].paused THEN "paused" ELSE "running"]
        /\ UNCHANGED <<disk, port, core, starter>> /\ Quietly

WriteLocal(r) ==
    /\ request[r].at = "read"
    /\ disk' = [disk EXCEPT !.mesh = request[r].mode, !.memory = "local"]
    /\ Step(r, "local")
    /\ UNCHANGED <<port, core, starter>> /\ Quietly

CheckpointFails(r) ==
    /\ request[r].at = "local"
    /\ Done(r)
    /\ UNCHANGED <<disk, port, core, starter>> /\ Quietly

Checkpoint(r) ==
    /\ request[r].at = "local"
    /\ disk' = [disk EXCEPT !.mesh = request[r].mode, !.memory = "checkpointed"]
    /\ Step(r, "saved")
    /\ UNCHANGED <<port, core, starter>> /\ Quietly

MarkStopped(r) ==
    /\ request[r].at = "saved" /\ request[r].what = "stop"
    /\ core' = [core EXCEPT ![request[r].core].stopped = TRUE]
    /\ Step(r, "flagged")
    /\ UNCHANGED <<disk, port, starter>> /\ Quietly

\* finishCoreStop: a moment after the answer the listener closes, once it is not being moved, ...
FinishCoreStop(r) ==
    LET c == request[r].core
    IN  /\ request[r].at = "stopped" /\ core[c].rebinding = None
        /\ core' = [core EXCEPT ![c].finishing = TRUE]
        /\ port' = [port EXCEPT !.listen = IF @ = c THEN None ELSE @]
        /\ Done(r)
        /\ UNCHANGED <<disk, starter>> /\ Quietly

\* ... and the process, which waited for that, ends.
ExitCore(c) ==
    /\ core[c].finishing
    /\ Exits(c)
    /\ UNCHANGED disk /\ Quietly

Crash(c) ==
    /\ Lives(c) /\ left.crashes > 0
    /\ Exits(c)
    /\ left' = [left EXCEPT !.crashes = @ - 1]
    /\ crashed' = TRUE
    /\ UNCHANGED <<scene, disk, tray, recent, hook, overlap>>

-----------------------------------------------------------------------------
(* applyNetworkAccess.                                                      *)

SaveNetworkSetting(r) ==
    /\ request[r].at = "begun" /\ request[r].what \in {"lan", "local"}
    /\ disk' = [disk EXCEPT !.network = request[r].what]
    /\ request' = [request EXCEPT ![r].at = "saved", ![r].prev = disk.network]
    /\ UNCHANGED <<port, core, starter>> /\ Quietly

\* rebind, under the listener's lock: nothing to do, or the old socket closes first.
\* `says' holds the target.
CloseOld(r) ==
    LET c == request[r].core  target == Effective(disk.network)
    IN  /\ request[r].at = "saved" /\ request[r].what \in {"lan", "local"} /\ core[c].rebinding = None
        /\ IF core[c].bind = target
           THEN Step(r, "moved") /\ UNCHANGED <<port, core>>
           ELSE /\ port' = [port EXCEPT !.listen = IF @ = c THEN None ELSE @]
                /\ core' = [core EXCEPT ![c].rebinding = r]
                /\ request' = [request EXCEPT ![r].at = "closed", ![r].says = target]
        /\ UNCHANGED <<disk, starter>> /\ Quietly

Rebind(r) ==
    LET c == request[r].core
    IN  /\ request[r].at = "closed" /\ port.listen = None
        /\ port' = [port EXCEPT !.listen = c]
        /\ core' = [core EXCEPT ![c].bind = request[r].says, ![c].rebinding = None]
        /\ Step(r, "moved")
        /\ UNCHANGED <<disk, starter>> /\ Quietly

\* As TakeBack, with the new choice left on disk.
TakeBackOnly(r) ==
    LET c == request[r].core
    IN  /\ request[r].at = "closed"
        /\ port' = [port EXCEPT !.listen = IF @ = None THEN c ELSE @]
        /\ core' = [core EXCEPT ![c].rebinding = None]
        /\ Done(r)
        /\ UNCHANGED <<disk, starter>> /\ Quietly

\* The new address cannot be had: the old one is taken back if it can be, ...
TakeBack(r) ==
    LET c == request[r].core
    IN  /\ request[r].at = "closed"
        /\ port' = [port EXCEPT !.listen = IF @ = None THEN c ELSE @]
        /\ core' = [core EXCEPT ![c].rebinding = None]
        /\ Step(r, "refused")
        /\ UNCHANGED <<disk, starter>> /\ Quietly

\* ... and the choice before this one is stored again.
RestoreNetworkSetting(r) ==
    /\ request[r].at = "refused"
    /\ disk' = [disk EXCEPT !.network = request[r].prev]
    /\ Done(r)
    /\ UNCHANGED <<port, core, starter>> /\ Quietly

\* restartDiscovery: what announces is taken, if anything does, ...
TakeDiscovery(r) ==
    LET c == request[r].core
    IN  /\ request[r].at = "moved"
        /\ core' = [core EXCEPT ![c].announced = None]
        /\ IF core[c].announced = None THEN Done(r)
           ELSE request' = [request EXCEPT ![r].at = "taken", ![r].epoch = core[c].epoch]
        /\ UNCHANGED <<disk, port, starter>> /\ Quietly

\* ... and startDiscovery announces what holds now.
RestartDiscovery(r) ==
    LET c == request[r].core  e == request[r].epoch
    IN  /\ request[r].at = "taken"
        /\ IF Announces(c, e)
           THEN core[c].rebinding = None /\ starter' = starter \cup {[core |-> c, epoch |-> e, at |-> "announcing", says |-> core[c].bind]}
           ELSE starter' = starter
        /\ Done(r)
        /\ UNCHANGED <<disk, port, core>> /\ Quietly

-----------------------------------------------------------------------------
(* The tray: one loop that clicks and calls one after the other.            *)

Tray(at) == tray' = [tray EXCEPT !.at = at]

\* Ensure: nothing is started when a port answers, or within seconds of the last start.
Ensure ==
    /\ tray.at = "ensure"
    /\ Tray(IF Registered \/ recent THEN "idle" ELSE "spawn")
    /\ UNCHANGED <<scene, disk, port, core, starter, request, recent, hook, left, overlap, crashed>>

SpawnCore ==
    /\ tray.at = "spawn"
    /\ Spawn
    /\ recent' = TRUE
    /\ Tray("idle")
    /\ UNCHANGED <<scene, disk, port, starter, request, hook, left, overlap, crashed>>

GuardEnds ==
    /\ recent
    /\ recent' = FALSE
    /\ UNCHANGED <<scene, disk, port, core, starter, request, tray, hook, left, overlap, crashed>>

Click(at) ==
    /\ tray.at = "idle" /\ left.clicks > 0
    /\ left' = [left EXCEPT !.clicks = @ - 1]
    /\ Tray(at)

ClickStart ==
    /\ Click("ensure")
    /\ UNCHANGED <<scene, disk, port, core, starter, request, recent, hook, overlap, crashed>>

\* restart: asks the Core that answers to stop.
ClickRestart ==
    \E r \in Request, c \in CoreProcess :
        /\ Begin(r, c, "stop")
        /\ tray' = [at |-> "stopping", asked |-> r]
        /\ tray.at = "idle" /\ left.clicks > 0
        /\ left' = [left EXCEPT !.clicks = @ - 1]
        /\ UNCHANGED <<scene, disk, port, core, starter, recent, hook, crashed>>

\* The Core says that it has stopped.
StopAnswered ==
    /\ tray.at = "stopping" /\ request[tray.asked].at = "stopped"
    /\ Tray("awaiting")
    /\ UNCHANGED <<scene, disk, port, core, starter, request, recent, hook, left, overlap, crashed>>

\* It fails, ends first, or takes longer than the tray waits.
StopFails ==
    /\ tray.at = "stopping" /\ request[tray.asked].at # "stopped"
    /\ Tray("idle")
    /\ UNCHANGED <<scene, disk, port, core, starter, request, recent, hook, left, overlap, crashed>>

\* As AwaitDown, with the last start left remembered.
AwaitDownOnly ==
    /\ tray.at = "awaiting" /\ ~Registered
    /\ Tray("ensure")
    /\ UNCHANGED <<scene, disk, port, core, starter, request, recent, hook, left, overlap, crashed>>

\* AwaitDown: the ports are closed, and a start may follow at once.
AwaitDown ==
    /\ tray.at = "awaiting" /\ ~Registered
    /\ recent' = FALSE
    /\ Tray("ensure")
    /\ UNCHANGED <<scene, disk, port, core, starter, request, hook, left, overlap, crashed>>

\* ErrStillRunning.
AwaitTimesOut ==
    /\ tray.at = "awaiting" /\ Registered /\ ~ \E c \in CoreProcess : core[c].stopped
    /\ Tray("idle")
    /\ UNCHANGED <<scene, disk, port, core, starter, request, recent, hook, left, overlap, crashed>>

\* ensure_share_listen of the session hook: looks at the share port, then starts a Core.
HookLooks ==
    /\ hook = "idle" /\ left.hooks > 0 /\ port.listen = None
    /\ hook' = "looked"
    /\ left' = [left EXCEPT !.hooks = @ - 1]
    /\ UNCHANGED <<scene, disk, port, core, starter, request, tray, recent, overlap, crashed>>

HookStarts ==
    /\ hook = "looked"
    /\ Spawn
    /\ hook' = "idle"
    /\ UNCHANGED <<scene, disk, port, starter, request, tray, recent, left, overlap, crashed>>

-----------------------------------------------------------------------------
\* Nothing runs, or a Core that has been up for a while.
Up == [Off EXCEPT !.at = "up", !.armed = TRUE, !.epoch = 1, !.announced = "local"]

First == CHOOSE c \in CoreProcess : TRUE

LifeInit ==
    /\ scene \in Scene
    /\ disk = [mesh |-> "running", memory |-> "local", network |-> "unset"]
    /\ core = [c \in CoreProcess |-> IF scene.up /\ c = First THEN Up ELSE Off]
    /\ port = [p \in {"listen", "ui"} |-> IF scene.up THEN First ELSE None]
    /\ starter = {}
    /\ request = [r \in Request |-> Idle]
    /\ tray = [at |-> IF scene.clicks > 0 THEN "ensure" ELSE "idle", asked |-> CHOOSE r \in Request : TRUE]
    /\ recent = FALSE
    /\ hook = "idle"
    /\ left = [admins |-> scene.admins, hooks |-> scene.hooks, clicks |-> scene.clicks, crashes |-> scene.crashes]
    /\ overlap = FALSE
    /\ crashed = FALSE

Starting(c) == LoadMeshState(c) \/ StartShareListener(c) \/ StartShareDashboard(c) \/ StartMeshServices(c)

Building(s) == StartCircleLinks(s) \/ EnsureLocalBroker(s) \/ ConnectMeshClient(s) \/ StartDiscovery(s) \/ RegisterDiscovery(s)

Answering(r) ==
    \/ WriteSwitch(r) \/ SetSwitch(r) \/ Resumes(r) \/ Suspend(r) \/ Suspended(r)
    \/ ReadSwitch(r) \/ WriteLocal(r) \/ CheckpointFails(r) \/ Checkpoint(r) \/ MarkStopped(r) \/ FinishCoreStop(r)
    \/ SaveNetworkSetting(r) \/ CloseOld(r) \/ Rebind(r) \/ TakeBack(r) \/ RestoreNetworkSetting(r)
    \/ TakeDiscovery(r) \/ RestartDiscovery(r)

Supervising ==
    Ensure \/ SpawnCore \/ StopAnswered \/ StopFails \/ AwaitDown \/ AwaitTimesOut

LifeStep ==
    \/ \E c \in CoreProcess : Starting(c)
    \/ \E s \in starter : Building(s)
    \/ \E r \in Request : Answering(r) \/ \E c \in CoreProcess, what \in scene.admin : Ask(r, c, what)
    \/ Supervising \/ GuardEnds \/ ClickStart \/ ClickRestart
    \/ HookLooks \/ HookStarts

LifeNext == LifeStep \/ \E c \in CoreProcess : ExitCore(c) \/ Crash(c)

\* Goroutines and processes go on; the tray's loop goes round.
LifeFairness ==
    /\ \A c \in CoreProcess : WF_life(Starting(c)) /\ WF_life(ExitCore(c))
    /\ WF_life(\E s \in starter : Building(s))
    /\ \A r \in Request : WF_life(Answering(r))
    /\ WF_life(Supervising) /\ WF_life(HookStarts)

LifeSpec == LifeInit /\ [][LifeNext]_life /\ LifeFairness

-----------------------------------------------------------------------------
(* Properties *)

\* Every variable has its type; a dashboard belongs to a Core that lives, and a Core listens only where
\* no other one does.
LifeTypeOK ==
    /\ IsScene(scene)
    /\ disk \in [mesh : {"running", "paused"}, memory : {"local", "checkpointed"}, network : {"unset", "lan", "local"}]
    /\ \A p \in {"listen", "ui"} : port[p] # None => port[p] \in CoreProcess /\ Lives(port[p])
    /\ \A c \in CoreProcess : core[c].links \subseteq {"broker", "client"} /\ core[c].announced \in {None, "lan", "local"}
    /\ \A r \in Request : request[r] # Idle => Lives(request[r].core)
    /\ \A s \in starter : Lives(s.core) /\ s.epoch <= core[s.core].epoch

\* What the person chose is what the Core does and what the next one will do: while no request is under
\* way, the switch of a Core that is up and the address it took are those on disk, whatever failed or was
\* killed half way (pauseMesh, resumeMesh, stopCore, applyNetworkAccess), unless two requests overlapped.
ChoicesAreKept ==
    \A c \in CoreProcess :
        (core[c].at = "up" /\ Serves(c) /\ Working(c) = {} /\ ~overlap)
        => /\ core[c].paused <=> (disk.mesh = "paused")
           /\ core[c].bind = Effective(disk.network)

\* While the mesh is paused or the Core stopped, and what was there has been taken down, the device hosts
\* no chat and announces nothing, however starts, restarts of discovery and switches overlap
\* (suspendMeshTransports, registerDiscovery, ensureLocalBroker).
QuietWhenOff ==
    \A c \in CoreProcess :
        (~Open(c) /\ \A r \in Working(c) : request[r].at # "flagged")
        => core[c].announced = None /\ "broker" \notin core[c].links

\* The switches rule the Core: what it does, and what the next one will do.
SwitchesAreObeyed == ChoicesAreKept /\ QuietWhenOff

\* A Core the tray restarts serves again ("restart stops the Core, waits until its ports are free, and starts it again"),
\* unless one is killed or the person restarts it once more.
RestartServes ==
    tray.at = "awaiting"
        ~> \/ crashed \/ tray.at = "stopping"
           \/ \E c \in CoreProcess : core[c].at = "up" /\ ~core[c].stopped /\ port.listen = c
=============================================================================
