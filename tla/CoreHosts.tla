------------------------------ MODULE CoreHosts ------------------------------
(***************************************************************************)
(* Terminal sessions of a device whose Core is restarted: TerminalHost and *)
(* CoreLifecycle together.  The process that serves the dashboard creates, *)
(* watches and terminates sessions; when it exits, its watches and the     *)
(* table of hosts go with it, the hosts stay, and the next Core recovers   *)
(* them when it first uses the terminals.                                  *)
(***************************************************************************)
EXTENDS TerminalHost, CoreLifecycle

all == <<vars, life>>

\* sessions: the terminals are used under a Core that restarts in one step
\* ("alone"), under one that restarts as CoreLifecycle has it ("under"), or not
\* at all ("none").
IsHostScene(s) == IsScene(s) /\ s.sessions \in {"alone", "under", "none"}

ASSUME SceneAssumption == \A s \in Scene : IsHostScene(s)

CoreServes == port.ui # None

\* The Core is alone with its sessions, or there is one that uses terminals.
Using == scene.sessions = "under" /\ CoreServes

CreatesAndEnds ==
    \/ InsertSession \/ SpawnHost \/ SpawnFails \/ MarkStarting
    \/ AskHost \/ MarkTerminated \/ KillHost

Watches(p) == WatchSessionHost \/ WatchAdoptedHost(p) \/ ReadRow(p) \/ FailUnavailable(p)

RecoversHosts(p) == ReadStale(p) \/ AdoptHost(p) \/ TerminateStale(p) \/ FailStale(p)

\* serveTerminalCreate and the rest of the API, which the dashboard serves.
CoreUsesTerminals ==
    /\ Using
    /\ CreatesAndEnds \/ Watches(Core) \/ RecoversHosts(Core)
    /\ UNCHANGED life

HostsRun == scene.sessions = "under" /\ HostNext /\ UNCHANGED life

CoreGoesOn == scene.sessions # "alone" /\ LifeStep /\ UNCHANGED vars

\* The process ends: the sessions' hosts do not.
HostsStay(c) ==
    /\ scene.sessions # "alone"
    /\ IF scene.sessions = "under" /\ port.ui = c THEN Stop(Core) ELSE UNCHANGED vars

CoreExits(c) == ExitCore(c) /\ HostsStay(c)

CoreCrashes(c) == Crash(c) /\ HostsStay(c)

Alone == scene.sessions = "alone" /\ Next /\ UNCHANGED life

HostsInit == Init /\ LifeInit

HostsNext ==
    \/ Alone \/ CoreUsesTerminals \/ HostsRun \/ CoreGoesOn
    \/ \E c \in CoreProcess : CoreExits(c) \/ CoreCrashes(c)

\* Requests and recoveries go on while a Core serves.
InCore(A) == (scene.sessions = "alone" \/ Using) /\ A /\ UNCHANGED life

HostsFairness ==
    /\ WF_all(InCore(SpawnHost \/ SpawnFails)) /\ WF_all(InCore(MarkStarting))
    /\ WF_all(InCore(WatchSessionHost))
    /\ WF_all(InCore(WatchAdoptedHost(Core))) /\ WF_all(InCore(RecoversHosts(Core)))
    /\ WF_all(InCore(MarkTerminated)) /\ WF_all(InCore(KillHost))
    /\ \A c \in CoreProcess : WF_all(Starting(c) /\ UNCHANGED vars) /\ WF_all(CoreExits(c))
    /\ WF_all((\E s \in starter : Building(s)) /\ UNCHANGED vars)
    /\ \A r \in Request : WF_all(Answering(r) /\ UNCHANGED vars)
    /\ WF_all(Supervising /\ UNCHANGED vars) /\ WF_all(HookStarts /\ UNCHANGED vars)

HostsSpec == HostsInit /\ [][HostsNext]_all /\ HostsFairness

-----------------------------------------------------------------------------
(* Properties *)

\* Every variable of both parts has its type.
HostsTypeOK == TypeOK /\ LifeTypeOK /\ IsHostScene(scene)

\* watchAdoptedHost: "once the process is gone, a session still marked live is
\* failed".  A session whose host is gone does not stay STARTING or RUNNING, in
\* whichever order its writers come, whichever Core started the host, and even
\* if the host ended while no Core ran, with two exceptions: STARTING was written
\* after the watch had seen the host's end, or a Core stopped before STARTING was
\* written, and the next one passed over a session that was not live yet.
DeadIsNoticed ==
    host = "gone" /\ state \in {"STARTING", "RUNNING"}
        ~> state \notin {"STARTING", "RUNNING"} \/ missed \/ ~CoreServes

\* What restarts must bring back: a Core that serves, and the truth about the hosts.
RestartsRecover == DeadIsNoticed /\ RestartServes
=============================================================================
