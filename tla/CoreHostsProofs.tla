--------------------------- MODULE CoreHostsProofs ---------------------------
(***************************************************************************)
(* For any number of Core processes, admin requests and restarts: the      *)
(* sessions' states and the Core's switches are typed, a session that      *)
(* reads FAILED has no host that answers, what the person chose is what    *)
(* the Core does, and a device that is paused or stopped stays quiet.      *)
(***************************************************************************)
EXTENDS CoreHosts, TLAPS

-----------------------------------------------------------------------------
(* What TerminalHost and CoreLifecycle allow is all that happens here.      *)

LEMMA StepsAreHostSteps == [HostsNext]_all => [Next]_vars
<1>1. CoreUsesTerminals => [Next]_vars
    <2>1. Core \in Process
        BY DEF Process
    <2> QED
        BY <2>1 DEF CoreUsesTerminals, CreatesAndEnds, Watches, RecoversHosts, Next, ProcessNext
<1>2. HostsRun \/ CoreGoesOn \/ Alone => [Next]_vars
    BY DEF HostsRun, CoreGoesOn, Alone, Next
<1>3. ASSUME NEW c \in CoreProcess, HostsStay(c) PROVE [Next]_vars
    <2>1. Core \in Process
        BY DEF Process
    <2> QED
        BY <1>3, <2>1 DEF HostsStay, Next, ProcessNext
<1> QED
    BY <1>1, <1>2, <1>3 DEF HostsNext, CoreExits, CoreCrashes, all

LEMMA StepsAreLifeSteps == [HostsNext]_all => [LifeNext]_life
BY DEF HostsNext, all, CoreUsesTerminals, HostsRun, CoreGoesOn, Alone, CoreExits, CoreCrashes, LifeNext

\* Whatever restarts the Core, a session lives as TerminalHost has it (CreateSession, recoverSessionHosts).
THEOREM HostsImplementSession == HostsSpec => Spec
BY StepsAreHostSteps, PTL DEF HostsSpec, HostsInit, Spec

-----------------------------------------------------------------------------
(* A session and its host.                                                  *)

\* A host starts once: until then nothing watches, terminates or recovers one.
NotStarted ==
    create \in {"none", "inserted"} =>
        /\ host = "none" /\ ~tracked /\ ~watch /\ adopted = {}
        /\ state \notin {"STARTING", "RUNNING"}
        /\ \A p \in Process : recovery[p] \notin {"stale", "unanswered"}

\* What a recovery has terminated stays so.
Reaped == \A p \in Process : recovery[p] = "unanswered" => host = "gone"

\* No host is on its way to listen, or answers, when the session reads FAILED.
FailedIsOver == state = "FAILED" => hasty \/ (host # "running" /\ ~Answers)

SessionInv == TypeOK /\ NotStarted /\ Reaped /\ FailedIsOver

LEMMA InitSession == Init => SessionInv
<1> SUFFICES ASSUME Init PROVE SessionInv
    OBVIOUS
<1>1. stops \in 0..MaxStops
    BY ProcessAssumption DEF Init
<1>2. TypeOK
    BY <1>1 DEF Init, TypeOK, States, Live
<1>3. NotStarted /\ Reaped /\ FailedIsOver
    BY DEF Init, NotStarted, Reaped, FailedIsOver
<1> QED
    BY <1>2, <1>3 DEF SessionInv

LEMMA CreateKeepsSession ==
    ASSUME SessionInv, InsertSession \/ SpawnHost \/ SpawnFails \/ MarkStarting PROVE SessionInv'
<1> USE DEF SessionInv, TypeOK, NotStarted, Reaped, FailedIsOver, States, Live, Answers,
            hostVars, coreVars, readerVars, ghosts
<1>1. CASE InsertSession
    BY <1>1 DEF InsertSession
<1>2. CASE SpawnHost
    BY <1>2 DEF SpawnHost
<1>3. CASE SpawnFails
    BY <1>3 DEF SpawnFails
<1>4. CASE MarkStarting
    BY <1>4 DEF MarkStarting
<1> QED
    BY <1>1, <1>2, <1>3, <1>4

LEMMA HostKeepsSession == ASSUME SessionInv, HostNext PROVE SessionInv'
<1> USE DEF SessionInv, TypeOK, NotStarted, Reaped, FailedIsOver, States, Live, Answers, Alive, HostGone,
            hostVars, coreVars, readerVars, ghosts
<1>1. CASE BootShell
    BY <1>1 DEF BootShell
<1>2. CASE BootFails
    BY <1>2 DEF BootFails
<1>3. CASE Listen
    BY <1>3 DEF Listen
<1>4. CASE ListenFails
    BY <1>4 DEF ListenFails
<1>5. CASE ShellEnds
    BY <1>5 DEF ShellEnds
<1>6. CASE WaitProcess
    <2>1. TypeOK'
        BY <1>6 DEF WaitProcess
    <2>2. NotStarted' /\ Reaped'
        BY <1>6 DEF WaitProcess
    <2>3. FailedIsOver'
        BY <1>6 DEF WaitProcess
    <2> QED
        BY <2>1, <2>2, <2>3 DEF SessionInv
<1>7. CASE HostExits
    <2>1. TypeOK'
        BY <1>7 DEF HostExits
    <2>2. NotStarted' /\ Reaped'
        BY <1>7 DEF HostExits
    <2>3. FailedIsOver'
        BY <1>7 DEF HostExits
    <2> QED
        BY <2>1, <2>2, <2>3 DEF SessionInv
<1>8. CASE HostCrashes
    BY <1>8 DEF HostCrashes
<1> QED
    BY <1>1, <1>2, <1>3, <1>4, <1>5, <1>6, <1>7, <1>8 DEF HostNext

LEMMA WatchKeepsSession == ASSUME SessionInv, WatchSessionHost PROVE SessionInv'
BY DEF WatchSessionHost, SessionInv, TypeOK, NotStarted, Reaped, FailedIsOver, States, Live, Answers,
       hostVars, coreVars, readerVars, ghosts

LEMMA EndingKeepsSession == ASSUME SessionInv, AskHost \/ MarkTerminated \/ KillHost PROVE SessionInv'
<1> USE DEF SessionInv, TypeOK, NotStarted, Reaped, FailedIsOver, States, Live, Answers, HostGone,
            hostVars, coreVars, readerVars, ghosts
<1>1. CASE AskHost
    BY <1>1 DEF AskHost
<1>2. CASE MarkTerminated
    BY <1>2 DEF MarkTerminated
<1>3. CASE KillHost
    <2>1. TypeOK'
        <3>1. ~tracked' /\ tracked' \in BOOLEAN /\ socket' \in BOOLEAN
            BY <1>3 DEF KillHost
        <3>2. host' \in {"none", "booting", "running", "serving", "closing", "gone"}
              /\ shell' \in {"none", "up", "told", "ended"}
              /\ (host' \in {"none", "gone"} => shell' \in {"none", "ended"})
            BY <1>3 DEF KillHost
        <3> QED
            BY <1>3, <3>1, <3>2 DEF KillHost
    <2>2. NotStarted' /\ Reaped'
        BY <1>3 DEF KillHost
    <2>3. FailedIsOver'
        BY <1>3 DEF KillHost
    <2> QED
        BY <2>1, <2>2, <2>3 DEF SessionInv
<1> QED
    BY <1>1, <1>2, <1>3

LEMMA ProcessKeepsSession == ASSUME SessionInv, NEW p \in Process, ProcessNext(p) PROVE SessionInv'
<1> USE DEF SessionInv, TypeOK, NotStarted, Reaped, FailedIsOver, States, Live, Answers, Alive, HostGone, Recovers,
            hostVars, coreVars, readerVars, ghosts
<1>1. CASE WatchAdoptedHost(p)
    <2>1. TypeOK'
        <3>1. state' \in States /\ socket' \in BOOLEAN
            BY <1>1 DEF WatchAdoptedHost
        <3> QED
            BY <1>1, <3>1 DEF WatchAdoptedHost
    <2>2. NotStarted' /\ Reaped'
        BY <1>1 DEF WatchAdoptedHost
    <2>3. FailedIsOver'
        BY <1>1 DEF WatchAdoptedHost
    <2> QED
        BY <2>1, <2>2, <2>3 DEF SessionInv
<1>2. CASE ReadRow(p)
    BY <1>2 DEF ReadRow
<1>3. CASE FailUnavailable(p)
    <2>1. TypeOK'
        BY <1>3 DEF FailUnavailable
    <2>2. NotStarted' /\ Reaped'
        BY <1>3 DEF FailUnavailable
    <2>3. FailedIsOver'
        BY <1>3 DEF FailUnavailable
    <2> QED
        BY <2>1, <2>2, <2>3 DEF SessionInv
<1>4. CASE ReadStale(p)
    BY <1>4 DEF ReadStale
<1>5. CASE AdoptHost(p)
    BY <1>5 DEF AdoptHost
<1>6. CASE TerminateStale(p)
    BY <1>6 DEF TerminateStale
<1>7. CASE FailStale(p)
    BY <1>7 DEF FailStale
<1>8. CASE Stop(p)
    <2>1. TypeOK'
        <3>1. stops' \in 0..MaxStops
            BY <1>8, ProcessAssumption DEF Stop
        <3>2. create' \in {"none", "inserted", "spawned", "done"} /\ ending' \in {"idle", "asked", "marked"}
            BY <1>8 DEF Stop
        <3>3. tracked' \in BOOLEAN /\ watch' \in BOOLEAN /\ (tracked' => watch')
            BY <1>8 DEF Stop
        <3> QED
            BY <1>8, <3>1, <3>2, <3>3 DEF Stop
    <2>2. NotStarted' /\ Reaped'
        BY <1>8 DEF Stop
    <2>3. FailedIsOver'
        BY <1>8 DEF Stop
    <2> QED
        BY <2>1, <2>2, <2>3 DEF SessionInv
<1> QED
    BY <1>1, <1>2, <1>3, <1>4, <1>5, <1>6, <1>7, <1>8 DEF ProcessNext

LEMMA NextSession == SessionInv /\ [Next]_vars => SessionInv'
<1> SUFFICES ASSUME SessionInv, [Next]_vars PROVE SessionInv'
    OBVIOUS
<1>1. CASE UNCHANGED vars
    BY <1>1 DEF vars, SessionInv, TypeOK, NotStarted, Reaped, FailedIsOver, Answers
<1>2. CASE Next
    BY <1>2, CreateKeepsSession, HostKeepsSession, WatchKeepsSession, EndingKeepsSession, ProcessKeepsSession
    DEF Next
<1> QED
    BY <1>1, <1>2

\* A session that reads FAILED has no host that still answers, but for a hasty listing, whatever
\* restarts the Core (recoverSessionHosts, watchAdoptedHost).
THEOREM FailedStaysGone == HostsSpec => []FailedIsGone
<1>1. SessionInv => FailedIsGone
    BY DEF SessionInv, FailedIsOver, FailedIsGone
<1>2. Spec => []SessionInv
    BY InitSession, NextSession, PTL DEF Spec
<1> QED
    BY <1>1, <1>2, HostsImplementSession, PTL

-----------------------------------------------------------------------------
(* The Core: types, and who holds what.                                     *)

CoreState ==
    [at : {"off", "starting", "loaded", "listening", "served", "up"}, paused : BOOLEAN, stopped : BOOLEAN,
     finishing : BOOLEAN, bind : {"local", "lan"}, rebinding : Request \cup {None}, armed : BOOLEAN, epoch : Nat,
     closing : BOOLEAN, links : SUBSET {"broker", "client"}, announced : {None, "lan", "local"}]

StarterState ==
    [core : CoreProcess, epoch : Nat, at : {"links", "dialing", "hosting", "discovery", "announcing"},
     says : {None, "lan", "local"}]

RequestState ==
    [what : {"none", "pause", "resume", "stop", "lan", "local"},
     at : {"idle", "begun", "written", "flagged", "closing", "read", "local", "saved", "stopped", "closed", "moved",
           "refused", "taken"},
     core : CoreProcess \cup {None}, mode : {"running", "paused"}, prev : {"unset", "lan", "local"}, epoch : Nat,
     says : {None, "lan", "local"}]

DiskState == [mesh : {"running", "paused"}, memory : {"local", "checkpointed"}, network : {"unset", "lan", "local"}]

CoresTyped    == core \in [CoreProcess -> CoreState]
StartersTyped == starter \in SUBSET StarterState
RequestsTyped == /\ request \in [Request -> RequestState]
                 /\ \A r \in Request : request[r].at = "closed" => request[r].says \in {"lan", "local"}
PortsTyped    == port \in [{"listen", "ui"} -> CoreProcess \cup {None}]

Typed == IsScene(scene) /\ disk \in DiskState /\ CoresTyped /\ StartersTyped /\ RequestsTyped /\ PortsTyped

\* The two ports belong to Cores that are up or on their way, and every request was made of the one that
\* serves the dashboard.
Placed ==
    /\ \A c \in CoreProcess : port.listen = c => Lives(c)
    /\ \A c \in CoreProcess : port.ui = c => core[c].at \in {"served", "up"}
    /\ \A r \in Request : request[r] # Idle => request[r].core # None /\ request[r].core = port.ui

\* A process that has only been started has no goroutines, links or announcement, and no goroutine is of
\* an epoch to come.
Begun ==
    /\ \A c \in CoreProcess : core[c].at \in {"off", "starting"} =>
          /\ core[c].announced = None /\ core[c].links = {} /\ ~core[c].stopped /\ ~core[c].paused
          /\ \A s \in starter : s.core # c
    /\ \A s \in starter : s.epoch <= core[s.core].epoch

LEMMA Blanks == Off \in CoreState /\ Idle \in RequestState /\ Idle.core = None /\ Idle.at = "idle" /\ Idle.what = "none"
BY DEF Off, CoreState, Idle, RequestState

LEMMA EffectiveTyped == \A x : Effective(x) \in {"lan", "local"}
BY DEF Effective

LEMMA InitTyped == LifeInit => Typed /\ Placed /\ Begun
<1> SUFFICES ASSUME LifeInit PROVE Typed /\ Placed /\ Begun
    OBVIOUS
<1>1. First \in CoreProcess /\ First # None /\ IsScene(scene)
    BY LifeAssumption DEF First, LifeInit
<1>2. Up \in CoreState /\ Up.at = "up" /\ Off.at = "off"
    BY DEF Up, Off, CoreState
<1>3. \A c \in CoreProcess : core[c] = (IF scene.up /\ c = First THEN Up ELSE Off)
    BY DEF LifeInit
<1>4. port.listen = (IF scene.up THEN First ELSE None) /\ port.ui = (IF scene.up THEN First ELSE None)
    BY DEF LifeInit
<1>5. Typed
    <2>1. CoresTyped
        BY <1>2, Blanks DEF LifeInit, CoresTyped
    <2>2. RequestsTyped
        BY Blanks DEF LifeInit, RequestsTyped
    <2>3. PortsTyped
        BY <1>1 DEF LifeInit, PortsTyped
    <2> QED
        BY <1>1, <2>1, <2>2, <2>3 DEF LifeInit, Typed, DiskState, StartersTyped
<1>6. Placed
    BY <1>1, <1>2, <1>3, <1>4, LifeAssumption DEF Placed, Lives, LifeInit
<1>7. Begun
    BY <1>2, <1>3 DEF Begun, LifeInit, Off
<1> QED
    BY <1>5, <1>6, <1>7

-----------------------------------------------------------------------------
(* Every step keeps the types.                                              *)

LEMMA CoreUpdated ==
    ASSUME CoresTyped, NEW c \in CoreProcess, NEW v \in CoreState, core' = [core EXCEPT ![c] = v]
    PROVE  CoresTyped'
BY DEF CoresTyped

LEMMA RequestUpdated ==
    ASSUME RequestsTyped, NEW r \in Request, NEW v \in RequestState, request' = [request EXCEPT ![r] = v],
           v.at = "closed" => v.says \in {"lan", "local"}
    PROVE  RequestsTyped'
BY DEF RequestsTyped

LEMMA StepTyped ==
    ASSUME RequestsTyped, NEW r \in Request, NEW at, Step(r, at),
           at \in {"written", "flagged", "closing", "local", "saved", "stopped", "moved", "refused"}
    PROVE  RequestsTyped'
<1>1. request[r] \in RequestState
    BY DEF RequestsTyped
<1>2. [request[r] EXCEPT !.at = at] \in RequestState
    BY <1>1 DEF RequestState
<1> QED
    BY <1>1, <1>2, RequestUpdated DEF Step, RequestState

LEMMA DoneTyped == ASSUME RequestsTyped, NEW r \in Request, Done(r) PROVE RequestsTyped'
BY Blanks, RequestUpdated DEF Done

LEMMA ExitsTyped == ASSUME Typed, NEW c \in CoreProcess, Exits(c) PROVE CoresTyped' /\ RequestsTyped' /\ StartersTyped' /\ PortsTyped'
<1>1. CoresTyped'
    BY Blanks, CoreUpdated DEF Typed, Exits
<1>2. RequestsTyped'
    BY Blanks DEF Typed, Exits, RequestsTyped
<1>3. StartersTyped'
    BY DEF Typed, Exits, StartersTyped
<1>4. PortsTyped'
    BY DEF Typed, Exits, PortsTyped
<1> QED
    BY <1>1, <1>2, <1>3, <1>4

LEMMA MeshStartsTyped == ASSUME Typed, NEW c \in CoreProcess, MeshStarts(c) PROVE CoresTyped' /\ StartersTyped'
<1>1. core[c] \in CoreState /\ core[c].epoch + 1 \in Nat
    BY DEF Typed, CoresTyped, CoreState
<1>2. [core[c] EXCEPT !.at = "up", !.armed = TRUE, !.epoch = core[c].epoch + 1] \in CoreState
    BY <1>1 DEF CoreState
<1>3. core' = [core EXCEPT ![c] = [core[c] EXCEPT !.at = "up", !.armed = TRUE, !.epoch = core[c].epoch + 1]]
    BY DEF MeshStarts, Typed, CoresTyped
<1>4. CoresTyped'
    BY <1>2, <1>3, CoreUpdated DEF Typed
<1>5. [core |-> c, epoch |-> core[c].epoch + 1, at |-> "links", says |-> None] \in StarterState
    BY <1>1 DEF StarterState, CoreState
<1>6. StartersTyped'
    BY <1>5 DEF MeshStarts, Typed, StartersTyped
<1> QED
    BY <1>4, <1>6

LEMMA StartingKeepsTyped == ASSUME Typed, NEW c \in CoreProcess, Starting(c) PROVE Typed'
<1> USE DEF Typed
<1>0. core[c] \in CoreState
    BY DEF CoresTyped
<1>1. CASE LoadMeshState(c)
    <2>1. [core[c] EXCEPT !.at = "loaded", !.paused = (disk.mesh = "paused"), !.bind = Effective(disk.network)] \in CoreState
        BY <1>0, EffectiveTyped DEF CoreState
    <2>2. core' = [core EXCEPT ![c] = [core[c] EXCEPT !.at = "loaded", !.paused = (disk.mesh = "paused"),
                                                      !.bind = Effective(disk.network)]]
        BY <1>1 DEF LoadMeshState, CoresTyped
    <2>3. CoresTyped'
        BY <2>1, <2>2, CoreUpdated
    <2> QED
        BY <1>1, <2>3 DEF LoadMeshState, StartersTyped, RequestsTyped, PortsTyped
<1>2. CASE StartShareListener(c)
    <2>1. CASE port.listen = None
        <3>1. [core[c] EXCEPT !.at = "listening"] \in CoreState
            BY <1>0 DEF CoreState
        <3>2. CoresTyped'
            BY <1>2, <2>1, <3>1, CoreUpdated DEF StartShareListener
        <3> QED
            BY <1>2, <2>1, <3>2 DEF StartShareListener, StartersTyped, RequestsTyped, PortsTyped
    <2>2. CASE port.listen # None
        BY <1>2, <2>2, ExitsTyped DEF StartShareListener
    <2> QED
        BY <2>1, <2>2
<1>3. CASE StartShareDashboard(c)
    <2>1. [core[c] EXCEPT !.at = "served"] \in CoreState
        BY <1>0 DEF CoreState
    <2>2. CoresTyped'
        BY <1>3, <2>1, CoreUpdated DEF StartShareDashboard
    <2> QED
        BY <1>3, <2>2 DEF StartShareDashboard, StartersTyped, RequestsTyped, PortsTyped
<1>4. CASE StartMeshServices(c)
    BY <1>4, MeshStartsTyped DEF StartMeshServices, RequestsTyped, PortsTyped
<1> QED
    BY <1>1, <1>2, <1>3, <1>4 DEF Starting

LEMMA GoesTyped ==
    ASSUME StartersTyped, NEW s \in starter, NEW at \in {"dialing", "hosting", "discovery"}, Goes(s, at)
    PROVE  StartersTyped'
<1>1. [s EXCEPT !.at = at] \in StarterState
    BY DEF StartersTyped, StarterState
<1> QED
    BY <1>1 DEF StartersTyped, Goes

LEMMA BuildingKeepsTyped == ASSUME Typed, NEW s \in starter, Building(s) PROVE Typed'
<1> USE DEF Typed
<1>0. /\ s \in StarterState /\ s.core \in CoreProcess /\ s.says \in {None, "lan", "local"}
      /\ core[s.core] \in CoreState
    BY DEF StartersTyped, StarterState, CoresTyped
<1>1. CASE StartCircleLinks(s)
    <2>1. StartersTyped'
        BY <1>1, GoesTyped DEF StartCircleLinks
    <2> QED
        BY <1>1, <2>1 DEF StartCircleLinks, CoresTyped, RequestsTyped, PortsTyped
<1>2. CASE EnsureLocalBroker(s)
    <2>1. [core[s.core] EXCEPT !.links = core[s.core].links \cup {"broker"}] \in CoreState
        BY <1>0 DEF CoreState
    <2>2. CoresTyped'
        BY <1>0, <1>2, <2>1, CoreUpdated DEF EnsureLocalBroker, CoresTyped
    <2>3. StartersTyped'
        BY <1>2, GoesTyped DEF EnsureLocalBroker
    <2> QED
        BY <1>2, <2>2, <2>3 DEF EnsureLocalBroker, RequestsTyped, PortsTyped
<1>3. CASE ConnectMeshClient(s)
    <2>1. [core[s.core] EXCEPT !.links = core[s.core].links \cup {"client"}] \in CoreState
        BY <1>0 DEF CoreState
    <2>2. CoresTyped'
        BY <1>0, <1>3, <2>1, CoreUpdated DEF ConnectMeshClient
    <2>3. StartersTyped'
        BY <1>3, GoesTyped DEF ConnectMeshClient
    <2> QED
        BY <1>3, <2>2, <2>3 DEF ConnectMeshClient, RequestsTyped, PortsTyped
<1>4. CASE StartDiscovery(s)
    <2>1. [s EXCEPT !.at = "announcing", !.says = core[s.core].bind] \in StarterState
        BY <1>0 DEF StarterState, CoreState
    <2>2. StartersTyped'
        BY <1>4, <2>1 DEF StartDiscovery, StartersTyped
    <2> QED
        BY <1>4, <2>2 DEF StartDiscovery, CoresTyped, RequestsTyped, PortsTyped
<1>5. CASE RegisterDiscovery(s)
    <2>1. [core[s.core] EXCEPT !.announced = s.says] \in CoreState
        BY <1>0 DEF CoreState
    <2>2. CoresTyped'
        BY <1>0, <1>5, <2>1, CoreUpdated DEF RegisterDiscovery, Registers, CoresTyped
    <2> QED
        BY <1>5, <2>2 DEF RegisterDiscovery, StartersTyped, RequestsTyped, PortsTyped
<1> QED
    BY <1>1, <1>2, <1>3, <1>4, <1>5 DEF Building

\* A request under way is one of the Core that serves the dashboard.
LEMMA AskedOfCore ==
    ASSUME Typed, Placed, NEW r \in Request, request[r].at # "idle"
    PROVE  /\ request[r] \in RequestState /\ request[r] # Idle
           /\ request[r].core \in CoreProcess /\ request[r].core = port.ui
           /\ core[request[r].core] \in CoreState /\ core[request[r].core].at \in {"served", "up"}
<1>1. request[r] \in RequestState /\ request[r] # Idle
    BY Blanks DEF Typed, RequestsTyped
<1>2. request[r].core \in CoreProcess /\ request[r].core = port.ui
    BY <1>1 DEF Placed, RequestState
<1> QED
    BY <1>1, <1>2 DEF Placed, Typed, CoresTyped

LEMMA AnsweringKeepsTyped == ASSUME Typed, Placed, NEW r \in Request, Answering(r) PROVE Typed'
<1> USE DEF Typed
<1> DEFINE c == request[r].core
<1>a. ASSUME request[r].at # "idle"
      PROVE  request[r] \in RequestState /\ c \in CoreProcess /\ core[c] \in CoreState
    BY <1>a, AskedOfCore
<1> HIDE DEF c
<1>1. CASE WriteSwitch(r)
    <2>0. request[r] \in RequestState /\ c \in CoreProcess /\ core[c] \in CoreState
        BY <1>1, <1>a DEF WriteSwitch
    <2>1. RequestsTyped'
        BY <1>1, StepTyped DEF WriteSwitch
    <2>2. disk' \in DiskState
        BY <1>1, <2>0 DEF WriteSwitch, DiskState, RequestState
    <2> QED
        BY <1>1, <2>1, <2>2 DEF WriteSwitch, Quietly, CoresTyped, PortsTyped, StartersTyped
<1>2. CASE SetSwitch(r)
    <2>0. request[r] \in RequestState /\ c \in CoreProcess /\ core[c] \in CoreState
        BY <1>2, <1>a DEF SetSwitch
    <2>1. [core[c] EXCEPT !.paused = (request[r].what = "pause")] \in CoreState
        BY <2>0 DEF CoreState
    <2>2. core' = [core EXCEPT ![c] = [core[c] EXCEPT !.paused = (request[r].what = "pause")]]
        BY <1>2, <2>0 DEF SetSwitch, CoresTyped, c
    <2>3. CoresTyped'
        BY <2>0, <2>1, <2>2, CoreUpdated
    <2>4. RequestsTyped'
        BY <1>2, StepTyped DEF SetSwitch
    <2> QED
        BY <1>2, <2>3, <2>4 DEF SetSwitch, Quietly, PortsTyped, StartersTyped
<1>3. CASE Resumes(r)
    <2>0. request[r] \in RequestState /\ c \in CoreProcess /\ core[c] \in CoreState
        BY <1>3, <1>a DEF Resumes
    <2>1. CoresTyped' /\ StartersTyped'
        BY <1>3, <2>0, MeshStartsTyped DEF Resumes, c, CoresTyped, StartersTyped
    <2>2. RequestsTyped'
        BY <1>3, DoneTyped DEF Resumes
    <2> QED
        BY <1>3, <2>1, <2>2 DEF Resumes, Quietly, PortsTyped
<1>4. CASE Suspend(r)
    <2>0. request[r] \in RequestState /\ c \in CoreProcess /\ core[c] \in CoreState
        BY <1>4, <1>a DEF Suspend
    <2>1. core[c].epoch + 1 \in Nat
        BY <2>0 DEF CoreState
    <2>2. [core[c] EXCEPT !.epoch = core[c].epoch + 1, !.closing = TRUE, !.links = {}, !.announced = None] \in CoreState
        BY <2>1, <2>0 DEF CoreState
    <2>3. core' = [core EXCEPT ![c] = [core[c] EXCEPT !.epoch = core[c].epoch + 1, !.closing = TRUE, !.links = {}, !.announced = None]]
        BY <1>4, <2>0 DEF Suspend, CoresTyped, c
    <2>4. CoresTyped'
        BY <2>0, <2>2, <2>3, CoreUpdated
    <2>5. RequestsTyped'
        BY <1>4, StepTyped DEF Suspend
    <2> QED
        BY <1>4, <2>4, <2>5 DEF Suspend, Quietly, PortsTyped, StartersTyped
<1>5. CASE Suspended(r)
    <2>0. request[r] \in RequestState /\ c \in CoreProcess /\ core[c] \in CoreState
        BY <1>5, <1>a DEF Suspended
    <2>1. [core[c] EXCEPT !.closing = FALSE] \in CoreState
        BY <2>0 DEF CoreState
    <2>2. core' = [core EXCEPT ![c] = [core[c] EXCEPT !.closing = FALSE]]
        BY <1>5, <2>0 DEF Suspended, CoresTyped, c
    <2>3. CoresTyped'
        BY <2>0, <2>1, <2>2, CoreUpdated
    <2>4. RequestsTyped'
        BY <1>5, StepTyped, DoneTyped DEF Suspended
    <2> QED
        BY <1>5, <2>3, <2>4 DEF Suspended, Quietly, PortsTyped, StartersTyped
<1>6. CASE ReadSwitch(r)
    <2>0. request[r] \in RequestState /\ c \in CoreProcess /\ core[c] \in CoreState
        BY <1>6, <1>a DEF ReadSwitch
    <2>1. [request[r] EXCEPT !.at = "read", !.mode = IF core[c].paused THEN "paused" ELSE "running"] \in RequestState
        BY <2>0 DEF RequestState, CoreState, DiskState
    <2>2. request' = [request EXCEPT ![r] = [request[r] EXCEPT !.at = "read", !.mode = IF core[c].paused THEN "paused" ELSE "running"]]
        BY <1>6, <2>0 DEF ReadSwitch, RequestsTyped, c
    <2>3. RequestsTyped'
        BY <2>0, <2>1, <2>2, RequestUpdated DEF RequestState
    <2> QED
        BY <1>6, <2>3 DEF ReadSwitch, Quietly, CoresTyped, PortsTyped, StartersTyped
<1>7. CASE WriteLocal(r)
    <2>0. request[r] \in RequestState /\ c \in CoreProcess /\ core[c] \in CoreState
        BY <1>7, <1>a DEF WriteLocal
    <2>1. RequestsTyped'
        BY <1>7, StepTyped DEF WriteLocal
    <2>2. disk' \in DiskState
        BY <1>7, <2>0 DEF WriteLocal, DiskState, RequestState
    <2> QED
        BY <1>7, <2>1, <2>2 DEF WriteLocal, Quietly, CoresTyped, PortsTyped, StartersTyped
<1>8. CASE CheckpointFails(r)
    <2>0. request[r] \in RequestState /\ c \in CoreProcess /\ core[c] \in CoreState
        BY <1>8, <1>a DEF CheckpointFails
    <2>1. RequestsTyped'
        BY <1>8, DoneTyped DEF CheckpointFails
    <2> QED
        BY <1>8, <2>1 DEF CheckpointFails, Quietly, CoresTyped, PortsTyped, StartersTyped
<1>9. CASE Checkpoint(r)
    <2>0. request[r] \in RequestState /\ c \in CoreProcess /\ core[c] \in CoreState
        BY <1>9, <1>a DEF Checkpoint
    <2>1. RequestsTyped'
        BY <1>9, StepTyped DEF Checkpoint
    <2>2. disk' \in DiskState
        BY <1>9, <2>0 DEF Checkpoint, DiskState, RequestState
    <2> QED
        BY <1>9, <2>1, <2>2 DEF Checkpoint, Quietly, CoresTyped, PortsTyped, StartersTyped
<1>10. CASE MarkStopped(r)
    <2>0. request[r] \in RequestState /\ c \in CoreProcess /\ core[c] \in CoreState
        BY <1>10, <1>a DEF MarkStopped
    <2>1. [core[c] EXCEPT !.stopped = TRUE] \in CoreState
        BY <2>0 DEF CoreState
    <2>2. core' = [core EXCEPT ![c] = [core[c] EXCEPT !.stopped = TRUE]]
        BY <1>10, <2>0 DEF MarkStopped, CoresTyped, c
    <2>3. CoresTyped'
        BY <2>0, <2>1, <2>2, CoreUpdated
    <2>4. RequestsTyped'
        BY <1>10, StepTyped DEF MarkStopped
    <2> QED
        BY <1>10, <2>3, <2>4 DEF MarkStopped, Quietly, PortsTyped, StartersTyped
<1>11. CASE FinishCoreStop(r)
    <2>0. request[r] \in RequestState /\ c \in CoreProcess /\ core[c] \in CoreState
        BY <1>11, <1>a DEF FinishCoreStop
    <2>1. [core[c] EXCEPT !.finishing = TRUE] \in CoreState
        BY <2>0 DEF CoreState
    <2>2. core' = [core EXCEPT ![c] = [core[c] EXCEPT !.finishing = TRUE]]
        BY <1>11, <2>0 DEF FinishCoreStop, CoresTyped, c
    <2>3. CoresTyped'
        BY <2>0, <2>1, <2>2, CoreUpdated
    <2>4. RequestsTyped'
        BY <1>11, DoneTyped DEF FinishCoreStop
    <2>5. PortsTyped'
        BY <1>11, <2>0 DEF FinishCoreStop, PortsTyped, c
    <2> QED
        BY <1>11, <2>3, <2>4, <2>5 DEF FinishCoreStop, Quietly, StartersTyped
<1>12. CASE SaveNetworkSetting(r)
    <2>0. request[r] \in RequestState /\ c \in CoreProcess /\ core[c] \in CoreState
        BY <1>12, <1>a DEF SaveNetworkSetting
    <2>1. [request[r] EXCEPT !.at = "saved", !.prev = disk.network] \in RequestState
        BY <2>0 DEF RequestState, CoreState, DiskState
    <2>2. request' = [request EXCEPT ![r] = [request[r] EXCEPT !.at = "saved", !.prev = disk.network]]
        BY <1>12, <2>0 DEF SaveNetworkSetting, RequestsTyped, c
    <2>3. RequestsTyped'
        BY <2>0, <2>1, <2>2, RequestUpdated DEF RequestState
    <2>4. disk' \in DiskState
        BY <1>12, <2>0 DEF SaveNetworkSetting, DiskState, RequestState
    <2> QED
        BY <1>12, <2>3, <2>4 DEF SaveNetworkSetting, Quietly, CoresTyped, PortsTyped, StartersTyped
<1>13. CASE CloseOld(r)
    <2>0. request[r] \in RequestState /\ c \in CoreProcess /\ core[c] \in CoreState
        BY <1>13, <1>a DEF CloseOld
    <2>1. [core[c] EXCEPT !.rebinding = r] \in CoreState
        BY <2>0 DEF CoreState
    <2>2. core' = core \/ core' = [core EXCEPT ![c] = [core[c] EXCEPT !.rebinding = r]]
        BY <1>13, <2>0 DEF CloseOld, CoresTyped, c
    <2>3. CoresTyped'
        BY <2>0, <2>1, <2>2, CoreUpdated DEF CoresTyped
    <2>4. [request[r] EXCEPT !.at = "closed", !.says = Effective(disk.network)] \in RequestState
        BY <2>0, EffectiveTyped DEF RequestState
    <2>5. Step(r, "moved") \/ request' = [request EXCEPT ![r] = [request[r] EXCEPT !.at = "closed", !.says = Effective(disk.network)]]
        BY <1>13, <2>0 DEF CloseOld, RequestsTyped
    <2>6. RequestsTyped'
        BY <2>0, <2>4, <2>5, RequestUpdated, StepTyped, EffectiveTyped DEF RequestState
    <2>7. PortsTyped'
        BY <1>13 DEF CloseOld, PortsTyped
    <2> QED
        BY <1>13, <2>3, <2>6, <2>7 DEF CloseOld, Quietly, StartersTyped
<1>14. CASE Rebind(r)
    <2>0. request[r] \in RequestState /\ c \in CoreProcess /\ core[c] \in CoreState
        BY <1>14, <1>a DEF Rebind
    <2>1. request[r].says \in {"lan", "local"}
        BY <1>14 DEF Rebind, RequestsTyped
    <2>2. [core[c] EXCEPT !.bind = request[r].says, !.rebinding = None] \in CoreState
        BY <2>1, <2>0 DEF CoreState
    <2>3. core' = [core EXCEPT ![c] = [core[c] EXCEPT !.bind = request[r].says, !.rebinding = None]]
        BY <1>14, <2>0 DEF Rebind, CoresTyped, c
    <2>4. CoresTyped'
        BY <2>0, <2>2, <2>3, CoreUpdated
    <2>5. RequestsTyped'
        BY <1>14, StepTyped DEF Rebind
    <2>6. PortsTyped'
        BY <1>14, <2>0 DEF Rebind, PortsTyped, c
    <2> QED
        BY <1>14, <2>4, <2>5, <2>6 DEF Rebind, Quietly, StartersTyped
<1>15. CASE TakeBack(r)
    <2>0. request[r] \in RequestState /\ c \in CoreProcess /\ core[c] \in CoreState
        BY <1>15, <1>a DEF TakeBack
    <2>1. [core[c] EXCEPT !.rebinding = None] \in CoreState
        BY <2>0 DEF CoreState
    <2>2. core' = [core EXCEPT ![c] = [core[c] EXCEPT !.rebinding = None]]
        BY <1>15, <2>0 DEF TakeBack, CoresTyped, c
    <2>3. CoresTyped'
        BY <2>0, <2>1, <2>2, CoreUpdated
    <2>4. RequestsTyped'
        BY <1>15, StepTyped DEF TakeBack
    <2>5. PortsTyped'
        BY <1>15, <2>0 DEF TakeBack, PortsTyped, c
    <2> QED
        BY <1>15, <2>3, <2>4, <2>5 DEF TakeBack, Quietly, StartersTyped
<1>16. CASE RestoreNetworkSetting(r)
    <2>0. request[r] \in RequestState /\ c \in CoreProcess /\ core[c] \in CoreState
        BY <1>16, <1>a DEF RestoreNetworkSetting
    <2>1. RequestsTyped'
        BY <1>16, DoneTyped DEF RestoreNetworkSetting
    <2>2. disk' \in DiskState
        BY <1>16, <2>0 DEF RestoreNetworkSetting, DiskState, RequestState
    <2> QED
        BY <1>16, <2>1, <2>2 DEF RestoreNetworkSetting, Quietly, CoresTyped, PortsTyped, StartersTyped
<1>17. CASE TakeDiscovery(r)
    <2>0. request[r] \in RequestState /\ c \in CoreProcess /\ core[c] \in CoreState
        BY <1>17, <1>a DEF TakeDiscovery
    <2>1. [core[c] EXCEPT !.announced = None] \in CoreState
        BY <2>0 DEF CoreState
    <2>2. core' = [core EXCEPT ![c] = [core[c] EXCEPT !.announced = None]]
        BY <1>17, <2>0 DEF TakeDiscovery, CoresTyped, c
    <2>3. CoresTyped'
        BY <2>0, <2>1, <2>2, CoreUpdated
    <2>4. [request[r] EXCEPT !.at = "taken", !.epoch = core[c].epoch] \in RequestState
        BY <2>0 DEF RequestState, CoreState, DiskState
    <2>5. Done(r) \/ request' = [request EXCEPT ![r] = [request[r] EXCEPT !.at = "taken", !.epoch = core[c].epoch]]
        BY <1>17, <2>0 DEF TakeDiscovery, RequestsTyped, c
    <2>6. RequestsTyped'
        BY <2>0, <2>4, <2>5, RequestUpdated, DoneTyped DEF RequestState
    <2> QED
        BY <1>17, <2>3, <2>6 DEF TakeDiscovery, Quietly, PortsTyped, StartersTyped
<1>18. CASE RestartDiscovery(r)
    <2>0. request[r] \in RequestState /\ c \in CoreProcess /\ core[c] \in CoreState
        BY <1>18, <1>a DEF RestartDiscovery
    <2>1. RequestsTyped'
        BY <1>18, DoneTyped DEF RestartDiscovery
    <2>2. [core |-> c, epoch |-> request[r].epoch, at |-> "announcing", says |-> core[c].bind] \in StarterState
        BY <2>0 DEF StarterState, CoreState, RequestState
    <2>3. StartersTyped'
        BY <1>18, <2>2 DEF RestartDiscovery, StartersTyped, c
    <2> QED
        BY <1>18, <2>1, <2>3 DEF RestartDiscovery, Quietly, CoresTyped, PortsTyped
<1> QED
    BY <1>1, <1>2, <1>3, <1>4, <1>5, <1>6, <1>7, <1>8, <1>9, <1>10, <1>11, <1>12, <1>13, <1>14, <1>15, <1>16, <1>17, <1>18 DEF Answering

LEMMA BeginTyped ==
    ASSUME Typed, NEW r \in Request, NEW c \in CoreProcess, NEW what \in {"pause", "resume", "stop", "lan", "local"},
           Begin(r, c, what)
    PROVE  /\ RequestsTyped' /\ request[r] = Idle /\ request'[r].core = c /\ port.ui = c
           /\ \A q \in Request : q # r => request'[q] = request[q]
<1>1. [Idle EXCEPT !.what = what, !.at = "begun", !.core = c] \in RequestState
    BY Blanks DEF RequestState
<1>2. request' = [request EXCEPT ![r] = [Idle EXCEPT !.what = what, !.at = "begun", !.core = c]]
    BY DEF Begin
<1> QED
    BY <1>1, <1>2, Blanks, RequestUpdated DEF Begin, Serves, Typed, RequestsTyped, RequestState

LEMMA SpawnTyped ==
    ASSUME Typed, Spawn
    PROVE  /\ CoresTyped'
           /\ \E c \in CoreProcess : /\ core[c].at = "off" /\ core'[c] = [core[c] EXCEPT !.at = "starting"]
                                      /\ \A d \in CoreProcess : d # c => core'[d] = core[d]
<1>1. PICK c \in CoreProcess : core[c].at = "off" /\ core' = [core EXCEPT ![c].at = "starting"]
    BY DEF Spawn, Spawned
<1>2. [core[c] EXCEPT !.at = "starting"] \in CoreState
    BY DEF Typed, CoresTyped, CoreState
<1> QED
    BY <1>1, <1>2, CoreUpdated DEF Typed, CoresTyped

\* Steps of the tray, the hook and the requests that come in.
Outside ==
    \/ \E r \in Request, c \in CoreProcess, what \in scene.admin : Ask(r, c, what)
    \/ Supervising \/ GuardEnds \/ ClickStart \/ ClickRestart \/ HookLooks \/ HookStarts

\* What they may do to Cores and requests.
Beginning == \E r \in Request, c \in CoreProcess, what \in {"pause", "resume", "stop", "lan", "local"} :
                 Begin(r, c, what) /\ core' = core
Spawning  == Spawn /\ UNCHANGED <<request, overlap>>

LEMMA OutsideSteps ==
    ASSUME Typed, Outside
    PROVE  /\ UNCHANGED <<scene, disk, port, starter>>
           /\ Beginning \/ Spawning \/ UNCHANGED <<core, request, overlap>>
<1>1. ASSUME NEW r \in Request, NEW c \in CoreProcess, NEW what \in scene.admin, Ask(r, c, what)
      PROVE  Beginning /\ UNCHANGED <<scene, disk, port, starter>>
    BY <1>1 DEF Typed, IsScene, Ask, Beginning
<1>2. CASE ClickRestart
    BY <1>2 DEF ClickRestart, Beginning
<1>3. CASE SpawnCore \/ HookStarts
    BY <1>3 DEF SpawnCore, HookStarts, Spawning
<1>4. CASE Ensure \/ StopAnswered \/ StopFails \/ AwaitDown \/ AwaitTimesOut \/ GuardEnds \/ ClickStart \/ HookLooks
    BY <1>4 DEF Ensure, StopAnswered, StopFails, AwaitDown, AwaitTimesOut, GuardEnds, ClickStart, HookLooks
<1> QED
    BY <1>1, <1>2, <1>3, <1>4 DEF Outside, Supervising

LEMMA OutsideKeepsTyped == ASSUME Typed, Outside PROVE Typed'
<1>1. CASE Beginning
    BY <1>1, OutsideSteps, BeginTyped DEF Beginning, Typed, CoresTyped, StartersTyped, PortsTyped
<1>2. CASE Spawning
    BY <1>2, OutsideSteps, SpawnTyped DEF Spawning, Typed, RequestsTyped, StartersTyped, PortsTyped
<1>3. CASE UNCHANGED <<core, request, overlap>>
    BY <1>3, OutsideSteps DEF Typed, CoresTyped, RequestsTyped, StartersTyped, PortsTyped
<1> QED
    BY <1>1, <1>2, <1>3, OutsideSteps

LEMMA EndingKeepsTyped == ASSUME Typed, NEW c \in CoreProcess, ExitCore(c) \/ Crash(c) PROVE Typed'
BY ExitsTyped DEF Typed, ExitCore, Crash, Quietly

-----------------------------------------------------------------------------
(* Every step keeps what is placed and what has begun.                      *)

\* A request changes the Core it was made of, its own state and that Core's goroutines.
LEMMA AnsweringFrame ==
    ASSUME Typed, Placed, Begun, NEW r \in Request, Answering(r), NEW c, c = request[r].core
    PROVE  /\ c \in CoreProcess /\ port.ui = c /\ core[c].at \in {"served", "up"}
           /\ \A d \in CoreProcess : d # c => core'[d] = core[d]
           /\ core'[c].at \in {core[c].at, "up"} /\ core[c].epoch <= core'[c].epoch
           /\ \A q \in Request : q # r => request'[q] = request[q]
           /\ request[r].at # "idle" /\ (request'[r] = Idle \/ request'[r].core = c)
           /\ port'.ui = port.ui /\ port'.listen \in {port.listen, None, c}
           /\ \A s \in starter' : s \in starter \/ (s.core = c /\ s.epoch <= core'[c].epoch)
<1> USE DEF Typed, CoresTyped, RequestsTyped, PortsTyped
<1>0. ASSUME request[r].at # "idle"
      PROVE  /\ c \in CoreProcess /\ port.ui = c /\ core[c].at \in {"served", "up"}
             /\ core[c].epoch \in Nat /\ core[c] \in CoreState /\ request[r] \in RequestState
    BY <1>0, AskedOfCore DEF CoreState
<1>1. CASE WriteSwitch(r)
    <2>1. request[r].at # "idle"
        BY <1>1 DEF WriteSwitch
    <2> QED
        BY <1>1, <1>0, <2>1 DEF WriteSwitch, Step, Done, CoreState, RequestState
<1>2. CASE SetSwitch(r)
    <2>1. request[r].at # "idle"
        BY <1>2 DEF SetSwitch
    <2> QED
        BY <1>2, <1>0, <2>1 DEF SetSwitch, Step, Done, CoreState, RequestState
<1>3. CASE Resumes(r)
    <2>1. request[r].at # "idle"
        BY <1>3 DEF Resumes
    <2> QED
        BY <1>3, <1>0, <2>1 DEF Resumes, Step, Done, CoreState, RequestState, MeshStarts
<1>4. CASE Suspend(r)
    <2>1. request[r].at # "idle"
        BY <1>4 DEF Suspend
    <2> QED
        BY <1>4, <1>0, <2>1 DEF Suspend, Step, Done, CoreState, RequestState
<1>5. CASE Suspended(r)
    <2>1. request[r].at # "idle"
        BY <1>5 DEF Suspended
    <2> QED
        BY <1>5, <1>0, <2>1 DEF Suspended, Step, Done, CoreState, RequestState
<1>6. CASE ReadSwitch(r)
    <2>1. request[r].at # "idle"
        BY <1>6 DEF ReadSwitch
    <2> QED
        BY <1>6, <1>0, <2>1 DEF ReadSwitch, Step, Done, CoreState, RequestState
<1>7. CASE WriteLocal(r)
    <2>1. request[r].at # "idle"
        BY <1>7 DEF WriteLocal
    <2> QED
        BY <1>7, <1>0, <2>1 DEF WriteLocal, Step, Done, CoreState, RequestState
<1>8. CASE CheckpointFails(r)
    <2>1. request[r].at # "idle"
        BY <1>8 DEF CheckpointFails
    <2> QED
        BY <1>8, <1>0, <2>1 DEF CheckpointFails, Step, Done, CoreState, RequestState
<1>9. CASE Checkpoint(r)
    <2>1. request[r].at # "idle"
        BY <1>9 DEF Checkpoint
    <2> QED
        BY <1>9, <1>0, <2>1 DEF Checkpoint, Step, Done, CoreState, RequestState
<1>10. CASE MarkStopped(r)
    <2>1. request[r].at # "idle"
        BY <1>10 DEF MarkStopped
    <2> QED
        BY <1>10, <1>0, <2>1 DEF MarkStopped, Step, Done, CoreState, RequestState
<1>11. CASE FinishCoreStop(r)
    <2>1. request[r].at # "idle"
        BY <1>11 DEF FinishCoreStop
    <2> QED
        BY <1>11, <1>0, <2>1 DEF FinishCoreStop, Step, Done, CoreState, RequestState
<1>12. CASE SaveNetworkSetting(r)
    <2>1. request[r].at # "idle"
        BY <1>12 DEF SaveNetworkSetting
    <2> QED
        BY <1>12, <1>0, <2>1 DEF SaveNetworkSetting, Step, Done, CoreState, RequestState
<1>13. CASE CloseOld(r)
    <2>1. request[r].at # "idle"
        BY <1>13 DEF CloseOld
    <2>2. CASE core[c].bind = Effective(disk.network)
        BY <1>13, <1>0, <2>1, <2>2 DEF CloseOld, Step, RequestState
    <2>3. CASE core[c].bind # Effective(disk.network)
        <3>1. core' = [core EXCEPT ![c].rebinding = r] /\ starter' = starter
            BY <1>13, <2>3 DEF CloseOld
        <3>2. port' = [port EXCEPT !.listen = IF port.listen = c THEN None ELSE port.listen]
            BY <1>13, <2>3 DEF CloseOld
        <3>3. request' = [request EXCEPT ![r].at = "closed", ![r].says = Effective(disk.network)]
            BY <1>13, <2>3 DEF CloseOld
        <3> QED
            BY <1>0, <2>1, <3>1, <3>2, <3>3 DEF CoreState, RequestState
    <2> QED
        BY <2>2, <2>3
<1>14. CASE Rebind(r)
    <2>1. request[r].at # "idle"
        BY <1>14 DEF Rebind
    <2> QED
        BY <1>14, <1>0, <2>1 DEF Rebind, Step, Done, CoreState, RequestState
<1>15. CASE TakeBack(r)
    <2>1. request[r].at # "idle"
        BY <1>15 DEF TakeBack
    <2> QED
        BY <1>15, <1>0, <2>1 DEF TakeBack, Step, Done, CoreState, RequestState
<1>16. CASE RestoreNetworkSetting(r)
    <2>1. request[r].at # "idle"
        BY <1>16 DEF RestoreNetworkSetting
    <2> QED
        BY <1>16, <1>0, <2>1 DEF RestoreNetworkSetting, Step, Done, CoreState, RequestState
<1>17. CASE TakeDiscovery(r)
    <2>1. request[r].at # "idle"
        BY <1>17 DEF TakeDiscovery
    <2> QED
        BY <1>17, <1>0, <2>1 DEF TakeDiscovery, Step, Done, CoreState, RequestState
<1>18. CASE RestartDiscovery(r)
    <2>1. request[r].at # "idle"
        BY <1>18 DEF RestartDiscovery
    <2> QED
        BY <1>18, <1>0, <2>1 DEF RestartDiscovery, Step, Done, CoreState, RequestState, Announces, EpochOpen
<1> QED
    BY <1>1, <1>2, <1>3, <1>4, <1>5, <1>6, <1>7, <1>8, <1>9, <1>10, <1>11, <1>12, <1>13, <1>14, <1>15, <1>16, <1>17, <1>18 DEF Answering

\* A goroutine changes its Core's links and what it announces, and goes on or ends.
LEMMA BuildingFrame ==
    ASSUME Typed, NEW s \in starter, Building(s)
    PROVE  /\ s \in StarterState /\ UNCHANGED <<scene, disk, port, request, overlap>>
           /\ \A d \in CoreProcess :
                 /\ d # s.core => core'[d] = core[d]
                 /\ core'[d].at = core[d].at /\ core'[d].epoch = core[d].epoch
                 /\ core'[d].paused = core[d].paused /\ core'[d].stopped = core[d].stopped
                 /\ core'[d].bind = core[d].bind
           /\ \A t \in starter' : t \in starter \/ (t.core = s.core /\ t.epoch = s.epoch)
<1> USE DEF Typed, CoresTyped, StartersTyped
<1>0. s \in StarterState /\ s.core \in CoreProcess /\ \A d \in CoreProcess : core[d] \in CoreState
    BY DEF StarterState
<1>1. CASE StartCircleLinks(s)
    BY <1>0, <1>1 DEF StartCircleLinks, Goes, StarterState
<1>2. CASE EnsureLocalBroker(s)
    BY <1>0, <1>2 DEF EnsureLocalBroker, Goes, StarterState, CoreState
<1>3. CASE ConnectMeshClient(s)
    BY <1>0, <1>3 DEF ConnectMeshClient, Goes, StarterState, CoreState
<1>4. CASE StartDiscovery(s)
    BY <1>0, <1>4 DEF StartDiscovery, StarterState
<1>5. CASE RegisterDiscovery(s)
    BY <1>0, <1>5 DEF RegisterDiscovery, Registers, CoreState
<1> QED
    BY <1>1, <1>2, <1>3, <1>4, <1>5 DEF Building

\* A Core on its way goes on alone: its own state, a port it finds free, a goroutine of a new epoch; or it ends.
LEMMA StartingFrame ==
    ASSUME Typed, NEW c \in CoreProcess, Starting(c)
    PROVE  \/ Exits(c) /\ UNCHANGED <<disk, overlap>> /\ core[c].at = "loaded"
           \/ /\ request' = request /\ disk' = disk
              /\ \A d \in CoreProcess : d # c => core'[d] = core[d]
              /\ core[c].at \in {"starting", "loaded", "listening", "served"}
              /\ core'[c].at \in {"loaded", "listening", "served", "up"} /\ core[c].epoch <= core'[c].epoch
              /\ port'.listen = port.listen \/ port'.listen = c
              /\ port'.ui = port.ui \/ (port'.ui = c /\ port.ui = None /\ core[c].at = "listening")
              /\ core[c].at \in {"listening", "served"} => core'[c].at \in {"served", "up"}
              /\ \A s \in starter' : s \in starter \/ (s.core = c /\ s.epoch = core'[c].epoch)
<1> USE DEF Typed, CoresTyped, PortsTyped
<1>0. core[c] \in CoreState /\ core[c].epoch \in Nat
    BY DEF CoreState
<1>1. CASE LoadMeshState(c)
    BY <1>0, <1>1 DEF LoadMeshState, CoreState
<1>2. CASE StartShareListener(c)
    BY <1>0, <1>2 DEF StartShareListener, CoreState
<1>3. CASE StartShareDashboard(c)
    BY <1>0, <1>3 DEF StartShareDashboard, CoreState
<1>4. CASE StartMeshServices(c)
    BY <1>0, <1>4 DEF StartMeshServices, MeshStarts, CoreState
<1> QED
    BY <1>1, <1>2, <1>3, <1>4 DEF Starting

Kept == Typed /\ Placed /\ Begun

LEMMA AnsweringKeepsPlaces == ASSUME Kept, NEW r \in Request, Answering(r) PROVE Placed' /\ Begun'
<1> USE DEF Kept
<1> DEFINE c == request[r].core
<1>1. /\ c \in CoreProcess /\ port.ui = c /\ core[c].at \in {"served", "up"} /\ c # None
      /\ \A d \in CoreProcess : d # c => core'[d] = core[d]
      /\ core'[c].at \in {core[c].at, "up"} /\ core[c].epoch <= core'[c].epoch
      /\ \A q \in Request : q # r => request'[q] = request[q]
      /\ request[r].at # "idle" /\ (request'[r] = Idle \/ request'[r].core = c)
      /\ port'.ui = port.ui /\ port'.listen \in {port.listen, None, c}
      /\ \A s \in starter' : s \in starter \/ (s.core = c /\ s.epoch <= core'[c].epoch)
    BY AnsweringFrame, LifeAssumption
<1> HIDE DEF c
<1>2. Placed'
    <2>1. \A d \in CoreProcess : port'.listen = d => core'[d].at # "off"
        BY <1>1, LifeAssumption DEF Placed, Lives
    <2>2. \A d \in CoreProcess : port'.ui = d => core'[d].at \in {"served", "up"}
        BY <1>1 DEF Placed
    <2>3. \A q \in Request : request'[q] # Idle => request'[q].core # None /\ request'[q].core = port'.ui
        BY <1>1 DEF Placed
    <2> QED
        BY <2>1, <2>2, <2>3 DEF Placed, Lives
<1>3. \A d \in CoreProcess : core[d].epoch \in Nat /\ core'[d].epoch \in Nat
    BY AnsweringKeepsTyped DEF Typed, CoresTyped, CoreState
<1>4. \A s \in starter : s.core \in CoreProcess /\ s.epoch \in Nat
    BY DEF Typed, StartersTyped, StarterState
<1>5. \A s \in starter' : s.epoch <= core'[s.core].epoch
    BY <1>1, <1>3, <1>4 DEF Begun
<1>6. ASSUME NEW d \in CoreProcess, core'[d].at \in {"off", "starting"}
      PROVE  /\ core'[d].announced = None /\ core'[d].links = {} /\ ~core'[d].stopped /\ ~core'[d].paused
             /\ \A s \in starter' : s.core # d
    <2>1. d # c
        BY <1>1, <1>6
    <2> QED
        BY <1>1, <1>6, <2>1 DEF Begun
<1> QED
    BY <1>2, <1>5, <1>6 DEF Begun

LEMMA BuildingKeepsPlaces == ASSUME Kept, NEW s \in starter, Building(s) PROVE Placed' /\ Begun'
<1> USE DEF Kept
<1>1. /\ s \in StarterState /\ s.core \in CoreProcess /\ UNCHANGED <<port, request>>
      /\ \A d \in CoreProcess :
            /\ d # s.core => core'[d] = core[d]
            /\ core'[d].at = core[d].at /\ core'[d].epoch = core[d].epoch
      /\ \A t \in starter' : t \in starter \/ (t.core = s.core /\ t.epoch = s.epoch)
    BY BuildingFrame DEF StarterState
<1>2. \A t \in starter : t.core \in CoreProcess
    BY DEF Typed, StartersTyped, StarterState
<1>3. Placed'
    BY <1>1 DEF Placed, Lives
<1>4. \A t \in starter' : t.epoch <= core'[t.core].epoch
    BY <1>1, <1>2 DEF Begun
<1>5. core[s.core].at \notin {"off", "starting"}
    BY <1>1 DEF Begun
<1>6. ASSUME NEW d \in CoreProcess, core'[d].at \in {"off", "starting"}
      PROVE  /\ core'[d].announced = None /\ core'[d].links = {} /\ ~core'[d].stopped /\ ~core'[d].paused
             /\ \A t \in starter' : t.core # d
    BY <1>1, <1>5, <1>6 DEF Begun
<1> QED
    BY <1>3, <1>4, <1>6 DEF Begun

\* What a process that ends leaves.
LEMMA ExitsPlaced == ASSUME Kept, NEW c \in CoreProcess, Exits(c) PROVE Placed' /\ Begun'
<1> USE DEF Kept
<1>1. /\ core'[c] = Off /\ \A d \in CoreProcess : d # c => core'[d] = core[d]
      /\ \A q \in Request : request'[q] = IF request[q].core = c THEN Idle ELSE request[q]
      /\ starter' = {s \in starter : s.core # c}
      /\ port'.listen = (IF port.listen = c THEN None ELSE port.listen)
      /\ port'.ui = (IF port.ui = c THEN None ELSE port.ui)
    BY DEF Exits, Typed, CoresTyped, PortsTyped
<1>2. Off.at = "off" /\ Off.announced = None /\ Off.links = {} /\ ~Off.stopped /\ ~Off.paused
    BY DEF Off
<1>3. Placed'
    BY <1>1, <1>2, LifeAssumption DEF Placed, Lives
<1>4. \A s \in starter : s.core \in CoreProcess
    BY DEF Typed, StartersTyped, StarterState
<1> QED
    BY <1>1, <1>2, <1>3, <1>4 DEF Begun

LEMMA StartingKeepsPlaces == ASSUME Kept, NEW c \in CoreProcess, Starting(c) PROVE Placed' /\ Begun'
<1> USE DEF Kept
<1>1. CASE Exits(c)
    BY <1>1, ExitsPlaced
<1>2. CASE ~Exits(c)
    <2>1. /\ request' = request
          /\ \A d \in CoreProcess : d # c => core'[d] = core[d]
          /\ core[c].at \in {"starting", "loaded", "listening", "served"}
          /\ core'[c].at \in {"loaded", "listening", "served", "up"} /\ core[c].epoch <= core'[c].epoch
          /\ port'.listen = port.listen \/ port'.listen = c
          /\ port'.ui = port.ui \/ (port'.ui = c /\ port.ui = None /\ core[c].at = "listening")
          /\ core[c].at \in {"listening", "served"} => core'[c].at \in {"served", "up"}
          /\ \A s \in starter' : s \in starter \/ (s.core = c /\ s.epoch = core'[c].epoch)
        BY <1>2, StartingFrame
    <2>2. Placed'
        BY <2>1 DEF Placed, Lives
    <2>3. \A d \in CoreProcess : core[d].epoch \in Nat /\ core'[d].epoch \in Nat
        BY StartingKeepsTyped DEF Typed, CoresTyped, CoreState
    <2>4. \A s \in starter : s.core \in CoreProcess /\ s.epoch \in Nat
        BY DEF Typed, StartersTyped, StarterState
    <2>5. \A s \in starter' : s.epoch <= core'[s.core].epoch
        BY <2>1, <2>3, <2>4 DEF Begun
    <2> QED
        BY <2>1, <2>2, <2>5 DEF Begun
<1> QED
    BY <1>1, <1>2

LEMMA OutsideKeepsPlaces == ASSUME Kept, Outside PROVE Placed' /\ Begun'
<1> USE DEF Kept
<1>0. UNCHANGED <<port, starter>>
    BY OutsideSteps
<1>1. CASE Beginning
    <2>1. PICK r \in Request, c \in CoreProcess :
                /\ core' = core /\ request'[r].core = c /\ port.ui = c /\ request[r] = Idle
                /\ \A q \in Request : q # r => request'[q] = request[q]
        BY <1>1, BeginTyped DEF Beginning
    <2> QED
        BY <1>0, <2>1, LifeAssumption DEF Placed, Begun, Lives
<1>2. CASE Spawning
    <2>1. PICK c \in CoreProcess : /\ core[c].at = "off" /\ core'[c] = [core[c] EXCEPT !.at = "starting"]
                                   /\ \A d \in CoreProcess : d # c => core'[d] = core[d]
        BY <1>2, SpawnTyped DEF Spawning
    <2>2. /\ core'[c].at = "starting" /\ core'[c].announced = core[c].announced /\ core'[c].links = core[c].links
          /\ core'[c].stopped = core[c].stopped /\ core'[c].paused = core[c].paused
          /\ core'[c].epoch = core[c].epoch
        BY <2>1 DEF Typed, CoresTyped, CoreState
    <2>3. \A s \in starter : s.core \in CoreProcess
        BY DEF Typed, StartersTyped, StarterState
    <2>4. Placed'
        BY <1>0, <1>2, <2>1, <2>2 DEF Spawning, Placed, Lives
    <2>5. \A s \in starter' : s.epoch <= core'[s.core].epoch
        BY <1>0, <2>1, <2>2, <2>3 DEF Begun
    <2>6. ASSUME NEW d \in CoreProcess, core'[d].at \in {"off", "starting"}
          PROVE  /\ core'[d].announced = None /\ core'[d].links = {} /\ ~core'[d].stopped /\ ~core'[d].paused
                 /\ \A s \in starter' : s.core # d
        <3>1. CASE d = c
            BY <1>0, <2>1, <2>2, <3>1 DEF Begun
        <3>2. CASE d # c
            BY <1>0, <2>1, <2>6, <3>2 DEF Begun
        <3> QED
            BY <3>1, <3>2
    <2> QED
        BY <2>4, <2>5, <2>6 DEF Begun
<1>3. CASE UNCHANGED <<core, request, overlap>>
    BY <1>0, <1>3 DEF Placed, Begun, Lives
<1> QED
    BY <1>1, <1>2, <1>3, OutsideSteps

LEMMA LifeSteps ==
    ASSUME LifeNext
    PROVE  \/ \E c \in CoreProcess : Starting(c) \/ ExitCore(c) \/ Crash(c)
           \/ \E s \in starter : Building(s)
           \/ \E r \in Request : Answering(r)
           \/ Outside
BY DEF LifeNext, LifeStep, Outside

LEMMA NextKept == Kept /\ [LifeNext]_life => Kept'
<1> SUFFICES ASSUME Kept, [LifeNext]_life PROVE Kept'
    OBVIOUS
<1>1. CASE UNCHANGED life
    BY <1>1 DEF life, Kept, Typed, CoresTyped, StartersTyped, RequestsTyped, PortsTyped, Placed, Begun, Lives
<1>2. ASSUME NEW c \in CoreProcess, Starting(c) PROVE Kept'
    BY <1>2, StartingKeepsTyped, StartingKeepsPlaces DEF Kept
<1>3. ASSUME NEW c \in CoreProcess, ExitCore(c) \/ Crash(c) PROVE Kept'
    BY <1>3, EndingKeepsTyped, ExitsPlaced DEF Kept, ExitCore, Crash
<1>4. ASSUME NEW s \in starter, Building(s) PROVE Kept'
    BY <1>4, BuildingKeepsTyped, BuildingKeepsPlaces DEF Kept
<1>5. ASSUME NEW r \in Request, Answering(r) PROVE Kept'
    BY <1>5, AnsweringKeepsTyped, AnsweringKeepsPlaces DEF Kept
<1>6. CASE Outside
    BY <1>6, OutsideKeepsTyped, OutsideKeepsPlaces DEF Kept
<1> QED
    BY <1>1, <1>2, <1>3, <1>4, <1>5, <1>6, LifeSteps

LEMMA KeptImpliesTypeOK == Kept => LifeTypeOK
<1> SUFFICES ASSUME Kept PROVE LifeTypeOK
    OBVIOUS
<1>1. \A p \in {"listen", "ui"} : port[p] # None => port[p] \in CoreProcess /\ Lives(port[p])
    BY DEF Kept, Typed, PortsTyped, Placed, Lives
<1>2. \A c \in CoreProcess : core[c].links \subseteq {"broker", "client"} /\ core[c].announced \in {None, "lan", "local"}
    BY DEF Kept, Typed, CoresTyped, CoreState
<1>3. \A r \in Request : request[r] # Idle => Lives(request[r].core)
    BY DEF Kept, Typed, RequestsTyped, RequestState, Placed, Lives
<1>4. \A s \in starter : Lives(s.core) /\ s.epoch <= core[s.core].epoch
    BY DEF Kept, Typed, StartersTyped, StarterState, Begun, Lives
<1> QED
    BY <1>1, <1>2, <1>3, <1>4 DEF LifeTypeOK, Kept, Typed, DiskState

-----------------------------------------------------------------------------
(* Off is quiet.                                                            *)

\* A pause or a stop has set its flag and is about to take everything down.
ToldOff(c) == \E r \in Request : request[r].core = c /\ request[r].at = "flagged" /\ request[r].what # "resume"

\* Nothing is there, and no goroutine is left that could still announce.
QuietNow(c) ==
    /\ core[c].announced = None /\ "broker" \notin core[c].links
    /\ \A s \in starter : s.core = c /\ s.at = "announcing" => s.epoch # core[c].epoch

OffIsQuiet == \A c \in CoreProcess : ~Open(c) => ToldOff(c) \/ QuietNow(c)

LEMMA InitOff == LifeInit => OffIsQuiet
<1> SUFFICES ASSUME LifeInit, NEW c \in CoreProcess PROVE Open(c)
    BY DEF OffIsQuiet
<1> QED
    BY DEF LifeInit, Open, Up, Off

\* A step that changes neither the switches nor the request, and starts or announces nothing.
LEMMA OffUnchanged ==
    ASSUME OffIsQuiet, NEW c \in CoreProcess, core'[c] = core[c],
           \A r \in Request : request[r].core = c /\ request[r].at = "flagged" => request'[r] = request[r],
           \A s \in starter' : s.core = c /\ s.at = "announcing" => s \in starter
    PROVE  ~Open(c)' => ToldOff(c)' \/ QuietNow(c)'
BY DEF OffIsQuiet, Open, ToldOff, QuietNow

LEMMA BuildingKeepsOff == ASSUME Kept, OffIsQuiet, NEW s \in starter, Building(s) PROVE OffIsQuiet'
<1> USE DEF Kept, Typed, CoresTyped, StartersTyped
<1>0. /\ s \in StarterState /\ s.core \in CoreProcess /\ core[s.core] \in CoreState /\ request' = request
      /\ \A d \in CoreProcess : /\ d # s.core => core'[d] = core[d]
                                /\ core'[d].epoch = core[d].epoch
                                /\ core'[d].paused = core[d].paused /\ core'[d].stopped = core[d].stopped
    BY BuildingFrame DEF StarterState
<1>1. ASSUME NEW c \in CoreProcess, c # s.core PROVE ~Open(c)' => ToldOff(c)' \/ QuietNow(c)'
    BY <1>0, <1>1, OffUnchanged, BuildingFrame
<1>2. ASSUME ~Open(s.core)' PROVE ToldOff(s.core)' \/ QuietNow(s.core)'
    <2>1. ~Open(s.core)
        BY <1>0, <1>2 DEF Open
    <2>2. CASE ToldOff(s.core)
        BY <1>0, <2>2 DEF ToldOff
    <2>3. CASE QuietNow(s.core)
        <3>1. CASE StartCircleLinks(s)
            BY <1>0, <2>3, <3>1 DEF StartCircleLinks, Goes, StarterState, QuietNow
        <3>2. CASE EnsureLocalBroker(s)
            BY <1>0, <2>1, <2>3, <3>2 DEF EnsureLocalBroker, Goes, StarterState, QuietNow
        <3>3. CASE ConnectMeshClient(s)
            BY <1>0, <2>3, <3>3 DEF ConnectMeshClient, Goes, StarterState, QuietNow, CoreState
        <3>4. CASE StartDiscovery(s)
            BY <1>0, <2>1, <2>3, <3>4 DEF StartDiscovery, Announces, QuietNow
        <3>5. CASE RegisterDiscovery(s)
            <4>1. ~EpochOpen(s.core, s.epoch)
                BY <2>3, <3>5 DEF RegisterDiscovery, QuietNow, EpochOpen
            <4> QED
                BY <2>3, <3>5, <4>1 DEF RegisterDiscovery, Registers, QuietNow
        <3> QED
            BY <3>1, <3>2, <3>3, <3>4, <3>5 DEF Building
    <2> QED
        BY <2>1, <2>2, <2>3, <1>0 DEF OffIsQuiet
<1> QED
    BY <1>0, <1>1, <1>2 DEF OffIsQuiet

\* A new epoch of a Core that is off starts nothing.
LEMMA MeshStartsKeepsOff ==
    ASSUME Kept, OffIsQuiet, NEW c \in CoreProcess, MeshStarts(c), NEW d \in CoreProcess, ~Open(d)',
           ToldOff(d) => ToldOff(d)'
    PROVE  ToldOff(d)' \/ QuietNow(d)'
<1> USE DEF Kept
<1>1. core[c] \in CoreState /\ core[c].epoch \in Nat
    BY DEF Typed, CoresTyped, CoreState
<1>2. /\ core'[c].epoch = core[c].epoch + 1 /\ core'[c].announced = core[c].announced /\ core'[c].links = core[c].links
      /\ core'[c].paused = core[c].paused /\ core'[c].stopped = core[c].stopped
      /\ \A e \in CoreProcess : e # c => core'[e] = core[e]
    BY <1>1 DEF MeshStarts, CoreState, Typed, CoresTyped
<1>3. ~Open(d)
    BY <1>2 DEF Open
<1>4. CASE QuietNow(d) /\ d # c
    <2>1. \A s \in starter' : s.at = "announcing" => s \in starter
        BY DEF MeshStarts
    <2> QED
        BY <1>2, <1>4, <2>1 DEF QuietNow
<1>5. CASE QuietNow(d) /\ d = c
    <2>1. starter' = starter
        BY <1>3, <1>5 DEF MeshStarts
    <2>2. \A s \in starter : s.core = c => s.epoch \in Nat /\ s.epoch <= core[c].epoch
        BY DEF Typed, StartersTyped, StarterState, Begun
    <2> QED
        BY <1>1, <1>2, <1>5, <2>1, <2>2 DEF QuietNow
<1> QED
    BY <1>3, <1>4, <1>5 DEF OffIsQuiet

LEMMA ExitsKeepsOff == ASSUME Kept, OffIsQuiet, NEW c \in CoreProcess, Exits(c) PROVE OffIsQuiet'
<1> USE DEF Kept, Typed, CoresTyped
<1>1. core'[c] = Off /\ \A d \in CoreProcess : d # c => core'[d] = core[d]
    BY DEF Exits
<1>2. Open(c)'
    BY <1>1 DEF Open, Off
<1>3. ASSUME NEW d \in CoreProcess, d # c PROVE ~Open(d)' => ToldOff(d)' \/ QuietNow(d)'
    BY <1>1, <1>3, OffUnchanged DEF Exits
<1> QED
    BY <1>2, <1>3 DEF OffIsQuiet

LEMMA StartingKeepsOff == ASSUME Kept, OffIsQuiet, NEW c \in CoreProcess, Starting(c) PROVE OffIsQuiet'
<1> USE DEF Kept
<1>0. core[c] \in CoreState
    BY DEF Typed, CoresTyped
<1>1. CASE Exits(c)
    BY <1>1, ExitsKeepsOff
<1>2. CASE LoadMeshState(c)
    <2>1. QuietNow(c)'
        BY <1>0, <1>2 DEF LoadMeshState, Begun, QuietNow, CoreState, Typed, CoresTyped
    <2> QED
        BY <1>2, <2>1, OffUnchanged DEF LoadMeshState, OffIsQuiet, Typed, CoresTyped
<1>3. CASE StartShareListener(c) /\ ~Exits(c)
    BY <1>0, <1>3 DEF StartShareListener, OffIsQuiet, Open, ToldOff, QuietNow, Typed, CoresTyped, CoreState
<1>4. CASE StartShareDashboard(c)
    BY <1>0, <1>4 DEF StartShareDashboard, OffIsQuiet, Open, ToldOff, QuietNow, Typed, CoresTyped, CoreState
<1>5. CASE StartMeshServices(c)
    BY <1>5, MeshStartsKeepsOff DEF StartMeshServices, OffIsQuiet, ToldOff
<1> QED
    BY <1>1, <1>2, <1>3, <1>4, <1>5 DEF Starting

LEMMA AnsweringKeepsOff == ASSUME Kept, OffIsQuiet, NEW r \in Request, Answering(r) PROVE OffIsQuiet'
<1> USE DEF Kept
<1>0. request[r].core \in CoreProcess
    BY AnsweringFrame
<1>1. PICK c \in CoreProcess :
      /\ c = request[r].core /\ request[r].at # "idle"
      /\ \A d \in CoreProcess : d # c => core'[d] = core[d]
      /\ \A q \in Request : q # r => request'[q] = request[q]
      /\ \A s \in starter' : s \in starter \/ s.core = c
    BY <1>0, AnsweringFrame
<1>2. /\ core[c] \in CoreState /\ request[r] \in RequestState
      /\ core \in [CoreProcess -> CoreState] /\ request \in [Request -> RequestState]
    BY <1>1, AskedOfCore DEF Typed, CoresTyped, RequestsTyped
<1>3. ASSUME NEW d \in CoreProcess, d # c PROVE ~Open(d)' => ToldOff(d)' \/ QuietNow(d)'
    BY <1>1, <1>3, OffUnchanged
<1>4. ~(request[r].at = "flagged" /\ request[r].what # "resume") /\ ToldOff(c) => ToldOff(c)'
    BY <1>1 DEF ToldOff
<1>5. ASSUME ~Open(c)' PROVE ToldOff(c)' \/ QuietNow(c)'
    <2>1. CASE WriteSwitch(r)
        BY <1>1, <1>2, <1>4, <1>5, <2>1 DEF WriteSwitch, OffIsQuiet, Open, QuietNow, CoreState
    <2>2. CASE SetSwitch(r)
        <3>1. CASE request[r].what = "pause"
            BY <1>1, <1>2, <2>2, <3>1 DEF SetSwitch, Step, ToldOff, RequestState
        <3>2. CASE request[r].what # "pause"
            BY <1>2, <1>4, <1>5, <2>2, <3>2 DEF SetSwitch, OffIsQuiet, Open, QuietNow, CoreState
        <3> QED
            BY <3>1, <3>2
    <2>3. CASE Resumes(r)
        <3>1. ToldOff(c) => ToldOff(c)'
            BY <1>4, <2>3 DEF Resumes
        <3>2. CASE core[c].armed
            BY <1>1, <1>5, <2>3, <3>1, <3>2, MeshStartsKeepsOff DEF Resumes
        <3>3. CASE ~core[c].armed
            BY <1>1, <1>5, <2>3, <3>1, <3>3 DEF Resumes, OffIsQuiet, Open, QuietNow
        <3> QED
            BY <3>2, <3>3
    <2>4. CASE Suspend(r)
        <3>1. core[c].epoch \in Nat /\ \A s \in starter : s.core = c => s.epoch \in Nat /\ s.epoch <= core[c].epoch
            BY <1>2 DEF CoreState, Typed, StartersTyped, StarterState, Begun
        <3>2. core'[c].epoch = core[c].epoch + 1 /\ core'[c].announced = None /\ core'[c].links = {} /\ starter' = starter
            BY <1>1, <1>2, <2>4 DEF Suspend, CoreState
        <3> QED
            BY <3>1, <3>2 DEF QuietNow
    <2>5. CASE Suspended(r)
        BY <1>1, <1>2, <1>4, <1>5, <2>5 DEF Suspended, OffIsQuiet, Open, QuietNow, CoreState
    <2>6. CASE ReadSwitch(r)
        BY <1>1, <1>2, <1>4, <1>5, <2>6 DEF ReadSwitch, OffIsQuiet, Open, QuietNow, CoreState
    <2>7. CASE WriteLocal(r)
        BY <1>1, <1>2, <1>4, <1>5, <2>7 DEF WriteLocal, OffIsQuiet, Open, QuietNow, CoreState
    <2>8. CASE CheckpointFails(r)
        BY <1>1, <1>2, <1>4, <1>5, <2>8 DEF CheckpointFails, OffIsQuiet, Open, QuietNow, CoreState
    <2>9. CASE Checkpoint(r)
        BY <1>1, <1>2, <1>4, <1>5, <2>9 DEF Checkpoint, OffIsQuiet, Open, QuietNow, CoreState
    <2>10. CASE MarkStopped(r)
        BY <1>1, <1>2, <2>10 DEF MarkStopped, Step, ToldOff, RequestState
    <2>11. CASE FinishCoreStop(r)
        BY <1>1, <1>2, <1>4, <1>5, <2>11 DEF FinishCoreStop, OffIsQuiet, Open, QuietNow, CoreState
    <2>12. CASE SaveNetworkSetting(r)
        BY <1>1, <1>2, <1>4, <1>5, <2>12 DEF SaveNetworkSetting, OffIsQuiet, Open, QuietNow, CoreState
    <2>13. CASE CloseOld(r)
        BY <1>1, <1>2, <1>4, <1>5, <2>13 DEF CloseOld, OffIsQuiet, Open, QuietNow, CoreState
    <2>14. CASE Rebind(r)
        BY <1>1, <1>2, <1>4, <1>5, <2>14 DEF Rebind, OffIsQuiet, Open, QuietNow, CoreState
    <2>15. CASE TakeBack(r)
        BY <1>1, <1>2, <1>4, <1>5, <2>15 DEF TakeBack, OffIsQuiet, Open, QuietNow, CoreState
    <2>16. CASE RestoreNetworkSetting(r)
        BY <1>1, <1>2, <1>4, <1>5, <2>16 DEF RestoreNetworkSetting, OffIsQuiet, Open, QuietNow, CoreState
    <2>17. CASE TakeDiscovery(r)
        BY <1>1, <1>2, <1>4, <1>5, <2>17 DEF TakeDiscovery, OffIsQuiet, Open, QuietNow, CoreState
    <2>18. CASE RestartDiscovery(r)
        <3>1. ~Open(c)
            BY <1>5, <2>18 DEF RestartDiscovery, Open
        <3>2. starter' = starter /\ core' = core
            BY <1>1, <2>18, <3>1 DEF RestartDiscovery, Announces
        <3> QED
            BY <1>1, <1>4, <2>18, <3>1, <3>2 DEF RestartDiscovery, OffIsQuiet, QuietNow
    <2> QED
        BY <2>1, <2>2, <2>3, <2>4, <2>5, <2>6, <2>7, <2>8, <2>9, <2>10, <2>11, <2>12, <2>13, <2>14, <2>15, <2>16, <2>17, <2>18 DEF Answering
<1> QED
    BY <1>3, <1>5 DEF OffIsQuiet

LEMMA OutsideKeepsOff == ASSUME Kept, OffIsQuiet, Outside PROVE OffIsQuiet'
<1> USE DEF Kept
<1>1. UNCHANGED starter
    BY OutsideSteps
<1>2. CASE Beginning
    <2>1. PICK r \in Request, c \in CoreProcess :
                core' = core /\ request[r] = Idle /\ \A q \in Request : q # r => request'[q] = request[q]
        BY <1>2, BeginTyped DEF Beginning
    <2> QED
        BY <1>1, <2>1, OffUnchanged, Blanks DEF OffIsQuiet
<1>3. CASE Spawning
    <2>1. PICK c \in CoreProcess : /\ core[c].at = "off" /\ core'[c] = [core[c] EXCEPT !.at = "starting"]
                                   /\ \A d \in CoreProcess : d # c => core'[d] = core[d]
        BY <1>3, SpawnTyped DEF Spawning
    <2>2. Open(c)'
        BY <2>1 DEF Typed, CoresTyped, CoreState, Begun, Open
    <2> QED
        BY <1>1, <1>3, <2>1, <2>2, OffUnchanged DEF Spawning, OffIsQuiet
<1>4. CASE UNCHANGED <<core, request, overlap>>
    BY <1>1, <1>4, OffUnchanged DEF OffIsQuiet
<1> QED
    BY <1>2, <1>3, <1>4, OutsideSteps

LEMMA NextOff == Kept /\ OffIsQuiet /\ [LifeNext]_life => OffIsQuiet'
<1> SUFFICES ASSUME Kept, OffIsQuiet, [LifeNext]_life PROVE OffIsQuiet'
    OBVIOUS
<1>1. CASE UNCHANGED life
    BY <1>1 DEF life, OffIsQuiet, Open, ToldOff, QuietNow
<1>2. ASSUME NEW c \in CoreProcess, ExitCore(c) \/ Crash(c) PROVE OffIsQuiet'
    BY <1>2, ExitsKeepsOff DEF ExitCore, Crash
<1> QED
    BY <1>1, <1>2, StartingKeepsOff, BuildingKeepsOff, AnsweringKeepsOff, OutsideKeepsOff, LifeSteps

LEMMA OffImpliesQuiet == Kept /\ OffIsQuiet => QuietWhenOff
BY DEF OffIsQuiet, QuietWhenOff, ToldOff, QuietNow, Working

-----------------------------------------------------------------------------
(* Choices are kept.                                                        *)

FollowsSwitch(c)  == core[c].paused <=> disk.mesh = "paused"
FollowsAddress(c) == core[c].bind = Effective(disk.network)

OneAtATime == \A r, q \in Request : request[r] # Idle /\ request[q] # Idle => r = q

\* Between requests, the Core that serves and any that may yet do so follow the disk.
Settled ==
    (\A r \in Request : request[r] = Idle) =>
        \A c \in CoreProcess :
            core[c].at \in {"loaded", "listening"} \/ port.ui = c => FollowsSwitch(c) /\ FollowsAddress(c)

NoneComes == \A c \in CoreProcess : core[c].at \notin {"loaded", "listening"}

Moving(r) == request[r].what \in {"lan", "local"} /\ request[r].at \in {"saved", "closed", "refused"}

\* How far a request under way has brought its Core and the disk.
UnderWay(r, c) ==
    LET q == request[r]
    IN  /\ q.at = "written" => disk.mesh = (IF q.what = "pause" THEN "paused" ELSE "running")
        /\ q.at # "written" => FollowsSwitch(c)
        /\ q.at \in {"read", "local"} => q.what = "stop" /\ (q.mode = "paused" <=> core[c].paused)
        /\ q.at \in {"closed", "refused"} => q.what \in {"lan", "local"}
        /\ Moving(r) => /\ disk.network = q.what /\ core[c].bind = Effective(q.prev)
                        /\ q.at = "closed" => q.says = q.what
        /\ ~Moving(r) => FollowsAddress(c)

ChoicesFollowed ==
    ~overlap => /\ OneAtATime /\ Settled
                /\ \A r \in Request : request[r] # Idle => NoneComes /\ UnderWay(r, request[r].core)

LEMMA InitChoices == LifeInit => ChoicesFollowed
<1> SUFFICES ASSUME LifeInit PROVE OneAtATime /\ Settled /\ \A r \in Request : request[r] = Idle
    BY DEF ChoicesFollowed
<1>1. \A r \in Request : request[r] = Idle
    BY DEF LifeInit
<1>2. ASSUME NEW c \in CoreProcess PROVE FollowsSwitch(c) /\ FollowsAddress(c)
    BY DEF LifeInit, FollowsSwitch, FollowsAddress, Effective, Up, Off
<1> QED
    BY <1>1, <1>2 DEF OneAtATime, Settled

\* Steps that change no choice, nor which Cores may come to serve.
LEMMA ChoicesUnchanged ==
    ASSUME Kept, ChoicesFollowed, request' = request, disk' = disk, ~overlap' => ~overlap,
           \A c \in CoreProcess :
               /\ core'[c].paused = core[c].paused /\ core'[c].bind = core[c].bind
               /\ core'[c].at \in {"loaded", "listening"} => core[c].at \in {"loaded", "listening"}
               /\ port'.ui = c => port.ui = c
    PROVE  ChoicesFollowed'
<1> SUFFICES ASSUME ~overlap'
             PROVE  /\ OneAtATime' /\ Settled'
                    /\ \A r \in Request : request'[r] # Idle => NoneComes' /\ UnderWay(r, request[r].core)'
    BY DEF ChoicesFollowed
<1>1. OneAtATime /\ Settled /\ \A r \in Request : request[r] # Idle => NoneComes /\ UnderWay(r, request[r].core)
    BY DEF ChoicesFollowed
<1>2. OneAtATime' /\ Settled'
    BY <1>1 DEF OneAtATime, Settled, FollowsSwitch, FollowsAddress
<1>3. ASSUME NEW r \in Request, request'[r] # Idle PROVE NoneComes' /\ UnderWay(r, request[r].core)'
    <2>1. request[r].core \in CoreProcess
        BY <1>3 DEF Kept, Placed, Typed, RequestsTyped, RequestState
    <2>2. NoneComes'
        BY <1>1, <1>3 DEF NoneComes
    <2>3. UnderWay(r, request[r].core)'
        BY <1>1, <1>3, <2>1 DEF UnderWay, Moving, FollowsSwitch, FollowsAddress
    <2> QED
        BY <2>2, <2>3
<1> QED
    BY <1>2, <1>3

LEMMA BuildingKeepsChoices == ASSUME Kept, ChoicesFollowed, NEW s \in starter, Building(s) PROVE ChoicesFollowed'
BY BuildingFrame, ChoicesUnchanged DEF Kept

LEMMA ExitsKeepsChoices ==
    ASSUME Kept, ChoicesFollowed, NEW c \in CoreProcess, Exits(c), UNCHANGED <<disk, overlap>>
    PROVE  ChoicesFollowed'
<1> USE DEF Kept
<1>1. /\ core'[c] = Off /\ \A d \in CoreProcess : d # c => core'[d] = core[d]
      /\ \A q \in Request : request'[q] = IF request[q].core = c THEN Idle ELSE request[q]
      /\ port'.ui = (IF port.ui = c THEN None ELSE port.ui)
    BY DEF Exits, Typed, CoresTyped, PortsTyped
<1>2. Off.at = "off"
    BY DEF Off
<1>3. ASSUME ~overlap
      PROVE  OneAtATime /\ Settled /\ \A r \in Request : request[r] # Idle => NoneComes /\ UnderWay(r, request[r].core)
    BY <1>3 DEF ChoicesFollowed
<1>4. ASSUME ~overlap PROVE OneAtATime'
    BY <1>1, <1>3, <1>4 DEF OneAtATime
<1>5. ASSUME ~overlap PROVE Settled'
    <2>1. CASE \A r \in Request : request[r] = Idle
        BY <1>1, <1>2, <1>3, <1>5, <2>1, LifeAssumption DEF Settled, FollowsSwitch, FollowsAddress
    <2>2. CASE \E r \in Request : request[r] # Idle
        <3>1. PICK r \in Request : request[r] # Idle
            BY <2>2
        <3>2. NoneComes
            BY <1>3, <1>5, <3>1
        <3>3. CASE port.ui = c
            BY <1>1, <1>2, <3>2, <3>3, LifeAssumption DEF NoneComes, Settled
        <3>4. CASE port.ui # c
            BY <1>1, <3>1, <3>4 DEF Settled, Placed
        <3> QED
            BY <3>3, <3>4
    <2> QED
        BY <2>1, <2>2
<1>6. ASSUME ~overlap, NEW r \in Request, request'[r] # Idle PROVE NoneComes' /\ UnderWay(r, request[r].core)'
    <2>1. request'[r] = request[r] /\ request[r].core # c /\ request[r].core \in CoreProcess
        BY <1>1, <1>6 DEF Placed, Typed, RequestsTyped, RequestState
    <2>2. NoneComes'
        BY <1>1, <1>2, <1>3, <1>6, <2>1 DEF NoneComes
    <2>3. core'[request[r].core] = core[request[r].core]
        BY <1>1, <2>1
    <2>4. UnderWay(r, request[r].core)
        BY <1>3, <1>6, <2>1
    <2> QED
        BY <2>1, <2>2, <2>3, <2>4 DEF UnderWay, Moving, FollowsSwitch, FollowsAddress
<1> QED
    BY <1>4, <1>5, <1>6 DEF ChoicesFollowed

LEMMA StartingKeepsChoices == ASSUME Kept, ChoicesFollowed, NEW c \in CoreProcess, Starting(c) PROVE ChoicesFollowed'
<1> USE DEF Kept
<1>0. core[c] \in CoreState /\ core \in [CoreProcess -> CoreState] /\ port \in [{"listen", "ui"} -> CoreProcess \cup {None}]
    BY DEF Typed, CoresTyped, PortsTyped
<1>1. CASE LoadMeshState(c)
    <2>1. SUFFICES ASSUME ~overlap' PROVE OneAtATime' /\ Settled' /\ \A r \in Request : request'[r] = Idle
        BY DEF ChoicesFollowed
    <2>2. ~overlap /\ \A r \in Request : request'[r] = Idle /\ request[r] = Idle
        BY <1>1, <2>1 DEF LoadMeshState
    <2>3. /\ core'[c].paused = (disk.mesh = "paused") /\ core'[c].bind = Effective(disk.network)
          /\ UNCHANGED <<disk, port>> /\ \A d \in CoreProcess : d # c => core'[d] = core[d]
        BY <1>0, <1>1 DEF LoadMeshState, CoreState
    <2>4. FollowsSwitch(c)' /\ FollowsAddress(c)'
        BY <2>3 DEF FollowsSwitch, FollowsAddress
    <2>5. Settled
        BY <2>2 DEF ChoicesFollowed
    <2>6. Settled'
        BY <2>2, <2>3, <2>4, <2>5 DEF Settled, FollowsSwitch, FollowsAddress
    <2> QED
        BY <2>2, <2>6 DEF OneAtATime
<1>2. CASE Exits(c) /\ UNCHANGED <<disk, overlap>>
    BY <1>2, ExitsKeepsChoices
<1>3. CASE StartShareListener(c) /\ ~Exits(c)
    <2>1. core[c].at = "loaded" /\ core' = [core EXCEPT ![c].at = "listening"]
          /\ UNCHANGED <<request, disk, overlap>> /\ port'.ui = port.ui
        BY <1>0, <1>3 DEF StartShareListener
    <2>2. \A d \in CoreProcess : /\ core'[d].paused = core[d].paused /\ core'[d].bind = core[d].bind
                                 /\ core'[d].at \in {"loaded", "listening"} => core[d].at \in {"loaded", "listening"}
        BY <1>0, <2>1 DEF CoreState
    <2> QED
        BY <2>1, <2>2, ChoicesUnchanged
<1>4. CASE StartShareDashboard(c)
    <2>1. /\ core[c].at = "listening" /\ UNCHANGED <<request, disk, overlap>>
          /\ port'.ui = port.ui \/ port'.ui = c
          /\ \A d \in CoreProcess : /\ core'[d].paused = core[d].paused /\ core'[d].bind = core[d].bind
                                    /\ core'[d].at \in {"loaded", "listening"} => core[d].at \in {"loaded", "listening"}
        BY <1>0, <1>4 DEF StartShareDashboard, CoreState
    <2>2. ASSUME ~overlap
          PROVE  OneAtATime' /\ Settled' /\ \A r \in Request : request'[r] = Idle
        <3>1. OneAtATime /\ Settled /\ \A r \in Request : request[r] # Idle => NoneComes
            BY <2>2 DEF ChoicesFollowed
        <3>2. \A r \in Request : request[r] = Idle
            BY <2>1, <3>1 DEF NoneComes
        <3> QED
            BY <2>1, <3>1, <3>2 DEF OneAtATime, Settled, FollowsSwitch, FollowsAddress
    <2> QED
        BY <2>1, <2>2 DEF ChoicesFollowed
<1>5. CASE StartMeshServices(c)
    <2>1. /\ UNCHANGED <<request, disk, port>>
          /\ \A d \in CoreProcess : /\ core'[d].paused = core[d].paused /\ core'[d].bind = core[d].bind
                                    /\ core'[d].at \in {"loaded", "listening"} => core[d].at \in {"loaded", "listening"}
        BY <1>0, <1>5 DEF StartMeshServices, MeshStarts, CoreState
    <2>2. ~overlap' => ~overlap
        BY <1>5 DEF StartMeshServices
    <2> QED
        BY <2>1, <2>2, ChoicesUnchanged
<1> QED
    BY <1>1, <1>2, <1>3, <1>4, <1>5 DEF Starting, StartShareListener

\* The one request under way goes on, and leaves the Core as it is to be.
LEMMA AnsweringKeepsChoices == ASSUME Kept, ChoicesFollowed, NEW r \in Request, Answering(r) PROVE ChoicesFollowed'
<1> USE DEF Kept
<1>0. request[r].core \in CoreProcess
    BY AnsweringFrame
<1>1. PICK c \in CoreProcess :
      /\ c = request[r].core /\ port.ui = c /\ core[c].at \in {"served", "up"}
      /\ \A d \in CoreProcess : d # c => core'[d] = core[d]
      /\ core'[c].at \in {core[c].at, "up"}
      /\ \A q \in Request : q # r => request'[q] = request[q]
      /\ request[r].at # "idle" /\ (request'[r] = Idle \/ request'[r].core = c)
      /\ port'.ui = port.ui
    BY <1>0, AnsweringFrame
<1>2. /\ core[c] \in CoreState /\ request[r] \in RequestState /\ disk \in DiskState
      /\ core \in [CoreProcess -> CoreState] /\ request \in [Request -> RequestState]
    BY <1>1, AskedOfCore DEF Typed, CoresTyped, RequestsTyped
<1>3. overlap' = overlap
    BY DEF Answering, Quietly, WriteSwitch, SetSwitch, Resumes, Suspend, Suspended, ReadSwitch, WriteLocal,
           CheckpointFails, Checkpoint, MarkStopped, FinishCoreStop, SaveNetworkSetting, CloseOld, Rebind, TakeBack,
           RestoreNetworkSetting, TakeDiscovery, RestartDiscovery
<1> SUFFICES ASSUME ~overlap
             PROVE  /\ OneAtATime' /\ Settled'
                    /\ \A q \in Request : request'[q] # Idle => NoneComes' /\ UnderWay(q, request[q].core)'
    BY <1>3 DEF ChoicesFollowed
<1>4. /\ \A q \in Request : q # r => request[q] = Idle /\ request'[q] = Idle
      /\ NoneComes /\ UnderWay(r, c)
    BY <1>1, Blanks DEF ChoicesFollowed, OneAtATime
<1>5. NoneComes'
    BY <1>1, <1>4 DEF NoneComes
<1>6. IF request'[r] = Idle THEN FollowsSwitch(c)' /\ FollowsAddress(c)' ELSE UnderWay(r, c)'
    <2> USE DEF UnderWay, Moving, FollowsSwitch, FollowsAddress
    <2>0. Effective("lan") = "lan" /\ Effective("local") = "local"
        BY DEF Effective
    <2>1. CASE WriteSwitch(r)
        <3>1. request'[r].at = "written" /\ request'[r].what = request[r].what /\ request'[r].prev = request[r].prev /\ request'[r].says = request[r].says
            BY <1>1, <1>2, <2>1 DEF WriteSwitch, Step, Quietly, CoreState, RequestState, DiskState
        <3>2. core' = core /\ disk'.network = disk.network
            BY <1>1, <1>2, <2>1 DEF WriteSwitch, Step, Quietly, CoreState, RequestState, DiskState
        <3>3. disk'.mesh = IF request[r].what = "pause" THEN "paused" ELSE "running"
            BY <1>1, <1>2, <2>1 DEF WriteSwitch, Step, Quietly, CoreState, RequestState, DiskState
        <3> QED
            BY <1>1, <1>2, <1>4, <2>0, <2>1, Blanks, <3>1, <3>2, <3>3 DEF WriteSwitch
    <2>2. CASE SetSwitch(r)
        <3>1. request'[r].at = "flagged" /\ request'[r].what = request[r].what /\ request'[r].prev = request[r].prev /\ request'[r].says = request[r].says
            BY <1>1, <1>2, <2>2 DEF SetSwitch, Step, Quietly, CoreState, RequestState, DiskState
        <3>2. core'[c].paused = (request[r].what = "pause") /\ core'[c].bind = core[c].bind /\ disk' = disk
            BY <1>1, <1>2, <2>2 DEF SetSwitch, Step, Quietly, CoreState, RequestState, DiskState
        <3>3. request'[r] # Idle
            BY <3>1, Blanks
        <3>4. ~Moving(r)' /\ request'[r].at # "written"
            BY <1>4, <2>2, <3>1 DEF SetSwitch
        <3>5. FollowsSwitch(c)'
            BY <1>1, <1>4, <2>2, <3>2 DEF SetSwitch
        <3> QED
            BY <1>1, <1>4, <2>2, <3>1, <3>2, <3>3, <3>4, <3>5 DEF SetSwitch
    <2>3. CASE Resumes(r)
        BY <1>1, <1>2, <1>4, <2>0, <2>3 DEF Resumes, Step, Done, Quietly, CoreState, RequestState, DiskState, MeshStarts
    <2>4. CASE Suspend(r)
        BY <1>1, <1>2, <1>4, <2>0, <2>4 DEF Suspend, Step, Done, Quietly, CoreState, RequestState, DiskState
    <2>5. CASE Suspended(r)
        BY <1>1, <1>2, <1>4, <2>0, <2>5 DEF Suspended, Step, Done, Quietly, CoreState, RequestState, DiskState
    <2>6. CASE ReadSwitch(r)
        BY <1>1, <1>2, <1>4, <2>0, <2>6 DEF ReadSwitch, Step, Done, Quietly, CoreState, RequestState, DiskState
    <2>7. CASE WriteLocal(r)
        BY <1>1, <1>2, <1>4, <2>0, <2>7 DEF WriteLocal, Step, Done, Quietly, CoreState, RequestState, DiskState
    <2>8. CASE CheckpointFails(r)
        BY <1>1, <1>2, <1>4, <2>0, <2>8 DEF CheckpointFails, Step, Done, Quietly, CoreState, RequestState, DiskState
    <2>9. CASE Checkpoint(r)
        BY <1>1, <1>2, <1>4, <2>0, <2>9 DEF Checkpoint, Step, Done, Quietly, CoreState, RequestState, DiskState
    <2>10. CASE MarkStopped(r)
        BY <1>1, <1>2, <1>4, <2>0, <2>10 DEF MarkStopped, Step, Done, Quietly, CoreState, RequestState, DiskState
    <2>11. CASE FinishCoreStop(r)
        BY <1>1, <1>2, <1>4, <2>0, <2>11 DEF FinishCoreStop, Step, Done, Quietly, CoreState, RequestState, DiskState
    <2>12. CASE SaveNetworkSetting(r)
        <3>1. request'[r].at = "saved" /\ request'[r].what = request[r].what /\ request'[r].prev = disk.network
            BY <1>1, <1>2, <2>12 DEF SaveNetworkSetting, Step, Quietly, CoreState, RequestState, DiskState
        <3>2. core' = core /\ disk'.mesh = disk.mesh /\ disk'.network = request[r].what
            BY <1>1, <1>2, <2>12 DEF SaveNetworkSetting, Step, Quietly, CoreState, RequestState, DiskState
        <3>3. request'[r] # Idle
            BY <3>1, Blanks
        <3>4. Moving(r)' /\ request'[r].at # "written"
            BY <1>4, <2>12, <3>1 DEF SaveNetworkSetting
        <3>5. FollowsSwitch(c)' /\ core'[c].bind = Effective(disk.network)
            BY <1>1, <1>4, <2>12, <3>2 DEF SaveNetworkSetting
        <3> QED
            BY <1>1, <1>4, <2>12, <3>1, <3>2, <3>3, <3>4, <3>5 DEF SaveNetworkSetting
    <2>13. CASE CloseOld(r)
        <3>1. disk' = disk /\ Effective(disk.network) = disk.network /\ request[r].at = "saved" /\ Moving(r)
              /\ disk.network = request[r].what
            BY <1>4, <2>0, <2>13 DEF CloseOld, Quietly
        <3>2. core'[c].paused = core[c].paused /\ core'[c].bind = core[c].bind
            BY <1>1, <1>2, <2>13 DEF CloseOld, CoreState
        <3>3. CASE core[c].bind = Effective(disk.network)
            <4>1. request'[r].at = "moved" /\ request'[r].what = request[r].what
                BY <1>1, <1>2, <2>13, <3>3 DEF CloseOld, Step, RequestState
            <4> QED
                BY <1>4, <3>1, <3>2, <3>3, <4>1
        <3>4. CASE core[c].bind # Effective(disk.network)
            <4>1. request' = [request EXCEPT ![r].at = "closed", ![r].says = Effective(disk.network)]
                BY <1>1, <2>13, <3>4 DEF CloseOld
            <4>2. request'[r].at = "closed" /\ request'[r].what = request[r].what /\ request'[r].prev = request[r].prev
                  /\ request'[r].says = disk.network
                BY <1>2, <3>1, <4>1 DEF RequestState
            <4> QED
                BY <1>4, <3>1, <3>2, <4>2, Blanks
        <3> QED
            BY <3>3, <3>4
    <2>14. CASE Rebind(r)
        BY <1>1, <1>2, <1>4, <2>0, <2>14 DEF Rebind, Step, Done, Quietly, CoreState, RequestState, DiskState
    <2>15. CASE TakeBack(r)
        <3>1. request'[r].at = "refused" /\ request'[r].what = request[r].what /\ request'[r].prev = request[r].prev /\ request'[r].says = request[r].says
            BY <1>1, <1>2, <2>15 DEF TakeBack, Step, Quietly, CoreState, RequestState, DiskState
        <3>2. core'[c].paused = core[c].paused /\ core'[c].bind = core[c].bind /\ disk' = disk
            BY <1>1, <1>2, <2>15 DEF TakeBack, Step, Quietly, CoreState, RequestState, DiskState
        <3> QED
            BY <1>1, <1>2, <1>4, <2>0, <2>15, Blanks, <3>1, <3>2 DEF TakeBack
    <2>16. CASE RestoreNetworkSetting(r)
        BY <1>1, <1>2, <1>4, <2>0, <2>16 DEF RestoreNetworkSetting, Step, Done, Quietly, CoreState, RequestState, DiskState
    <2>17. CASE TakeDiscovery(r)
        BY <1>1, <1>2, <1>4, <2>0, <2>17 DEF TakeDiscovery, Step, Done, Quietly, CoreState, RequestState, DiskState
    <2>18. CASE RestartDiscovery(r)
        BY <1>1, <1>2, <1>4, <2>0, <2>18 DEF RestartDiscovery, Step, Done, Quietly, CoreState, RequestState, DiskState
    <2> QED
        BY <2>1, <2>2, <2>3, <2>4, <2>5, <2>6, <2>7, <2>8, <2>9, <2>10, <2>11, <2>12, <2>13, <2>14, <2>15, <2>16, <2>17, <2>18 DEF Answering
<1>7. OneAtATime'
    BY <1>4 DEF OneAtATime
<1>8. Settled'
    BY <1>1, <1>5, <1>6 DEF Settled, NoneComes
<1>9. ASSUME NEW q \in Request, request'[q] # Idle PROVE UnderWay(q, request[q].core)'
    BY <1>1, <1>4, <1>6, <1>9
<1> QED
    BY <1>5, <1>7, <1>8, <1>9

LEMMA OutsideKeepsChoices == ASSUME Kept, ChoicesFollowed, Outside PROVE ChoicesFollowed'
<1> USE DEF Kept
<1>1. UNCHANGED <<disk, port, starter>>
    BY OutsideSteps
<1>2. CASE Beginning
    <2>1. PICK r \in Request, c \in CoreProcess, what \in {"pause", "resume", "stop", "lan", "local"} :
                Begin(r, c, what) /\ core' = core
        BY <1>2 DEF Beginning
    <2>2. /\ request[r] = Idle /\ request'[r].core = c /\ port.ui = c
          /\ \A q \in Request : q # r => request'[q] = request[q]
        BY <2>1, BeginTyped
    <2>3. request'[r].at = "begun"
        BY <2>1 DEF Begin, Typed, RequestsTyped, Idle
    <2> SUFFICES ASSUME ~overlap'
                 PROVE  /\ OneAtATime' /\ Settled'
                        /\ \A q \in Request : request'[q] # Idle => NoneComes' /\ UnderWay(q, request[q].core)'
        BY DEF ChoicesFollowed
    <2>4. ~overlap /\ Working(c) = {} /\ \A d \in CoreProcess : core[d].at \notin {"loaded", "listening", "served"}
        BY <2>1 DEF Begin, MeshStarting
    <2>5. \A q \in Request : request[q] = Idle
        BY <2>2, <2>4 DEF Placed, Working
    <2>6. FollowsSwitch(c) /\ FollowsAddress(c)
        BY <2>2, <2>4, <2>5 DEF ChoicesFollowed, Settled
    <2>7. NoneComes' /\ UnderWay(r, c)'
        BY <1>1, <2>1, <2>2, <2>3, <2>4, <2>6 DEF NoneComes, UnderWay, Moving, FollowsSwitch, FollowsAddress
    <2>8. request'[r] # Idle
        BY <2>3, Blanks
    <2> QED
        BY <2>2, <2>5, <2>7, <2>8 DEF OneAtATime, Settled
<1>3. CASE Spawning
    <2>1. PICK c \in CoreProcess : /\ core[c].at = "off" /\ core'[c] = [core[c] EXCEPT !.at = "starting"]
                                   /\ \A d \in CoreProcess : d # c => core'[d] = core[d]
        BY <1>3, SpawnTyped DEF Spawning
    <2>2. core'[c].at = "starting" /\ core'[c].paused = core[c].paused /\ core'[c].bind = core[c].bind
        BY <2>1 DEF Typed, CoresTyped, CoreState
    <2> QED
        BY <1>1, <1>3, <2>1, <2>2, ChoicesUnchanged DEF Spawning
<1>4. CASE UNCHANGED <<core, request, overlap>>
    BY <1>1, <1>4, ChoicesUnchanged
<1> QED
    BY <1>2, <1>3, <1>4, OutsideSteps

LEMMA NextChoices == Kept /\ ChoicesFollowed /\ [LifeNext]_life => ChoicesFollowed'
<1> SUFFICES ASSUME Kept, ChoicesFollowed, [LifeNext]_life PROVE ChoicesFollowed'
    OBVIOUS
<1>1. CASE UNCHANGED life
    BY <1>1, ChoicesUnchanged DEF life
<1>2. ASSUME NEW c \in CoreProcess, ExitCore(c) \/ Crash(c) PROVE ChoicesFollowed'
    BY <1>2, ExitsKeepsChoices DEF ExitCore, Crash, Quietly
<1> QED
    BY <1>1, <1>2, StartingKeepsChoices, BuildingKeepsChoices, AnsweringKeepsChoices, OutsideKeepsChoices, LifeSteps

LEMMA FollowedImpliesKept == Kept /\ ChoicesFollowed => ChoicesAreKept
<1> SUFFICES ASSUME Kept, ChoicesFollowed, ~overlap, NEW c \in CoreProcess, port.ui = c, Working(c) = {}
             PROVE  FollowsSwitch(c) /\ FollowsAddress(c)
    BY DEF ChoicesAreKept, Serves, FollowsSwitch, FollowsAddress
<1>1. \A r \in Request : request[r] = Idle
    BY DEF Kept, Placed, Working
<1> QED
    BY <1>1 DEF ChoicesFollowed, Settled

-----------------------------------------------------------------------------
(* The theorems on Cores.                                                   *)

LifeInv == Kept /\ OffIsQuiet /\ ChoicesFollowed

LEMMA LifeInvariant == HostsSpec => []LifeInv
<1>1. LifeInit => LifeInv
    BY InitTyped, InitOff, InitChoices DEF LifeInv, Kept
<1>2. LifeInv /\ [LifeNext]_life => LifeInv'
    BY NextKept, NextOff, NextChoices DEF LifeInv
<1> QED
    BY <1>1, <1>2, StepsAreLifeSteps, PTL DEF HostsSpec, HostsInit

\* Every reachable state of a Core and of its session is well typed, and a port belongs to a Core that lives.
THEOREM TypeCorrect == HostsSpec => []HostsTypeOK
<1>1. HostsInit => scene \in Scene
    BY DEF HostsInit, LifeInit
<1>2. scene \in Scene /\ [HostsNext]_all => (scene \in Scene)'
    <2>1. [LifeNext]_life => scene' = scene
        BY DEF LifeNext, LifeStep, life, Starting, LoadMeshState, StartShareListener, StartShareDashboard,
               StartMeshServices, Building, StartCircleLinks, EnsureLocalBroker, ConnectMeshClient, StartDiscovery,
               RegisterDiscovery, Answering, Quietly, WriteSwitch, SetSwitch, Resumes, Suspend, Suspended, ReadSwitch,
               WriteLocal, CheckpointFails, Checkpoint, MarkStopped, FinishCoreStop, SaveNetworkSetting, CloseOld,
               Rebind, TakeBack, RestoreNetworkSetting, TakeDiscovery, RestartDiscovery, Ask, Supervising, Ensure,
               SpawnCore, StopAnswered, StopFails, AwaitDown, AwaitTimesOut, GuardEnds, ClickStart, ClickRestart,
               HookLooks, HookStarts, ExitCore, Crash
    <2> QED
        BY <2>1, StepsAreLifeSteps
<1>3. scene \in Scene /\ SessionInv /\ LifeInv => HostsTypeOK
    BY KeptImpliesTypeOK, SceneAssumption DEF HostsTypeOK, SessionInv, LifeInv
<1>4. Spec => []SessionInv
    BY InitSession, NextSession, PTL DEF Spec
<1> QED
    BY <1>1, <1>2, <1>3, <1>4, LifeInvariant, HostsImplementSession, PTL DEF HostsSpec

\* Whatever overlaps, fails or is killed, the Core is up or paused and listens where the disk says, unless two
\* requests overlapped; and while it is paused or stopped it hosts no chat and announces nothing (pauseMesh,
\* applyNetworkAccess, suspendMeshTransports, registerDiscovery).
THEOREM SwitchesStayObeyed == HostsSpec => []SwitchesAreObeyed
<1>1. LifeInv => SwitchesAreObeyed
    BY OffImpliesQuiet, FollowedImpliesKept DEF LifeInv, SwitchesAreObeyed
<1> QED
    BY <1>1, LifeInvariant, PTL
=============================================================================
