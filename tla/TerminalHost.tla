---------------------------- MODULE TerminalHost ----------------------------
(***************************************************************************)
(* The life of one terminal session: terminal_manager.go and the process   *)
(* part of terminal_host.go.                                               *)
(*                                                                         *)
(* A session is a row with a state, and a session host: a process of its   *)
(* own that runs the shell, serves a socket and outlives the Core that     *)
(* started it.  The row's state is written by the request that creates the *)
(* session, by the host, by the Core's watches over the host, by whoever   *)
(* lists the sessions, by the request that terminates it and by the        *)
(* recovery a process runs when it first uses the terminals.  Every write  *)
(* is an UPDATE without a condition: the last one wins.                    *)
(*                                                                         *)
(* Besides the Core, the process of an MCP server uses the terminals, and  *)
(* so recovers, too.  A signal that ends a process takes effect before the *)
(* sender's next statement.  A watch's look at the host and its write are  *)
(* one step, a host's process id is stored with its start, and purging old *)
(* sessions is left out.                                                   *)
(***************************************************************************)
EXTENDS Naturals

CONSTANTS
    Core,       \* the process that creates and terminates sessions
    Tool,       \* the process of an MCP server
    MaxStops    \* bound on the restarts of the two

ASSUME ProcessAssumption == Core # Tool /\ MaxStops \in Nat

Process == {Core, Tool}

VARIABLES
    state,      \* terminal_sessions.state
    socket,     \* the socket file is there
    host,       \* the session host process
    shell,      \* the shell it runs; "told" to end by a signal
    create,     \* how far CreateSession came
    tracked,    \* the Core's TerminalManager.hosts knows the process
    watch,      \* a watchSessionHost runs in the Core
    adopted,    \* the processes that run a watchAdoptedHost
    recovery,   \* recoverSessionHosts of each process
    listing,    \* ListSessions of each process
    ending,     \* TerminateSession in the Core
    stops,      \* how often either process stopped
    hasty,      \* a listing failed the session between RUNNING and the socket
    missed      \* no watch is left that would notice the host's end

vars == <<state, socket, host, shell, create, tracked, watch, adopted, recovery,
          listing, ending, stops, hasty, missed>>

hostVars   == <<socket, host, shell>>
coreVars   == <<create, tracked, watch, ending>>
readerVars == <<adopted, recovery, listing>>
ghosts     == <<stops, hasty, missed>>

Live   == {"CREATED", "STARTING", "RUNNING"}
States == Live \cup {"none", "STOPPING", "EXITED", "FAILED", "TERMINATED"}

Alive   == host \in {"booting", "running", "serving", "closing"}
Answers == host = "serving" /\ socket

\* The host ends; a shell it leaves loses its terminal and ends too.
HostGone == host' = "gone" /\ shell' = IF shell = "none" THEN "none" ELSE "ended"

-----------------------------------------------------------------------------
(* CreateSession.                                                           *)

InsertSession ==
    /\ create = "none" /\ recovery[Core] = "done"
    /\ state' = "CREATED"
    /\ create' = "inserted"
    /\ UNCHANGED <<hostVars, tracked, watch, ending, readerVars, ghosts>>

\* spawnSessionHost: the process starts and a watch with it.
SpawnHost ==
    /\ create = "inserted"
    /\ create' = "spawned"
    /\ host' = "booting"
    /\ tracked' = TRUE /\ watch' = TRUE
    /\ UNCHANGED <<state, socket, shell, ending, readerVars, ghosts>>

\* The process cannot be started.
SpawnFails ==
    /\ create = "inserted"
    /\ create' = "done"
    /\ state' = "FAILED"
    /\ UNCHANGED <<hostVars, tracked, watch, ending, readerVars, ghosts>>

\* startSessionHostAndWait: STARTING, whatever the host has written by now.
MarkStarting ==
    /\ create = "spawned"
    /\ create' = "done"
    /\ state' = "STARTING"
    /\ missed' = (missed \/ ~watch)
    /\ UNCHANGED <<hostVars, tracked, watch, ending, readerVars, stops, hasty>>

-----------------------------------------------------------------------------
(* The session host.                                                        *)

\* startManagedShell: RUNNING is written before the socket is there.
BootShell ==
    /\ host = "booting"
    /\ host' = "running" /\ shell' = "up"
    /\ state' = "RUNNING"
    /\ UNCHANGED <<socket, coreVars, readerVars, ghosts>>

BootFails ==
    /\ host = "booting"
    /\ HostGone
    /\ state' = "FAILED"
    /\ UNCHANGED <<socket, coreVars, readerVars, ghosts>>

\* serveIPC.
Listen ==
    /\ host = "running"
    /\ host' = "serving" /\ socket' = TRUE
    /\ UNCHANGED <<state, shell, coreVars, readerVars, ghosts>>

ListenFails ==
    /\ host = "running"
    /\ HostGone
    /\ state' = "FAILED"
    /\ UNCHANGED <<socket, coreVars, readerVars, ghosts>>

ShellEnds ==
    /\ shell \in {"up", "told"}
    /\ shell' = "ended"
    /\ UNCHANGED <<state, socket, host, coreVars, readerVars, ghosts>>

\* waitProcess: the shell's end is recorded, then the host stops serving.
WaitProcess ==
    /\ host \in {"running", "serving"} /\ shell = "ended"
    /\ host' = "closing"
    /\ state' \in {"EXITED", "FAILED"}
    /\ UNCHANGED <<socket, shell, coreVars, readerVars, ghosts>>

HostExits ==
    /\ host = "closing"
    /\ HostGone
    /\ socket' = FALSE
    /\ UNCHANGED <<state, coreVars, readerVars, ghosts>>

\* The host is killed, or crashes; its socket file stays.
HostCrashes ==
    /\ Alive
    /\ HostGone
    /\ UNCHANGED <<state, socket, coreVars, readerVars, ghosts>>

-----------------------------------------------------------------------------
(* The Core's watches.                                                      *)

\* As WatchSessionHost, with the process left in the table.
WatchKeepsEntry ==
    /\ watch /\ host = "gone"
    /\ watch' = FALSE
    /\ state' = IF state \in Live THEN "FAILED" ELSE state
    /\ UNCHANGED <<hostVars, create, tracked, ending, readerVars, ghosts>>

\* watchSessionHost, once the process is reaped.
WatchSessionHost ==
    /\ watch /\ host = "gone"
    /\ watch' = FALSE /\ tracked' = FALSE
    /\ state' = IF state \in Live THEN "FAILED" ELSE state
    /\ UNCHANGED <<hostVars, create, ending, readerVars, ghosts>>

\* watchAdoptedHost: looks at the row, then at the process.
WatchAdoptedHost(p) ==
    /\ p \in adopted
    /\ state \notin Live \/ host = "gone"
    /\ adopted' = adopted \ {p}
    /\ IF state \in Live THEN state' = "FAILED" /\ socket' = FALSE
       ELSE UNCHANGED <<state, socket>>
    /\ UNCHANGED <<host, shell, coreVars, recovery, listing, ghosts>>

\* ListSessions: a session that is RUNNING ...
ReadRow(p) ==
    /\ listing[p] = "idle" /\ recovery[p] = "done"
    /\ state = "RUNNING"
    /\ listing' = [listing EXCEPT ![p] = "running"]
    /\ UNCHANGED <<state, hostVars, coreVars, adopted, recovery, ghosts>>

\* ... without a socket is FAILED.
FailUnavailable(p) ==
    /\ listing[p] = "running"
    /\ listing' = [listing EXCEPT ![p] = "idle"]
    /\ state' = IF socket THEN state ELSE "FAILED"
    /\ hasty' = (hasty \/ (~socket /\ host = "running"))
    /\ UNCHANGED <<hostVars, coreVars, adopted, recovery, stops, missed>>

-----------------------------------------------------------------------------
(* recoverSessionHosts, when a process first uses the terminals.            *)

Recovers(p, step) == recovery' = [recovery EXCEPT ![p] = step]

\* The rows that are STARTING or RUNNING; any other host is left as it is.
ReadStale(p) ==
    LET stale == state \in {"STARTING", "RUNNING"}
    IN /\ recovery[p] = "none"
       /\ Recovers(p, IF stale THEN "stale" ELSE "done")
       /\ missed' = (missed \/ (p = Core /\ ~stale /\ Alive))
       /\ UNCHANGED <<state, hostVars, coreVars, adopted, listing, stops, hasty>>

\* As AdoptHost, without the watch.
AdoptUnwatched(p) ==
    /\ recovery[p] = "stale"
    /\ Answers
    /\ Recovers(p, "done")
    /\ UNCHANGED <<state, hostVars, coreVars, adopted, listing, ghosts>>

\* A host that answers its token is adopted.
AdoptHost(p) ==
    /\ recovery[p] = "stale"
    /\ Answers
    /\ adopted' = adopted \cup {p}
    /\ Recovers(p, "done")
    /\ UNCHANGED <<state, hostVars, coreVars, listing, ghosts>>

\* As TerminateStale, with the process left alone.
LeaveStale(p) ==
    /\ recovery[p] = "stale"
    /\ ~Answers
    /\ socket' = FALSE
    /\ Recovers(p, "unanswered")
    /\ UNCHANGED <<state, host, shell, coreVars, adopted, listing, ghosts>>

\* Any other is terminated, ...
TerminateStale(p) ==
    /\ recovery[p] = "stale"
    /\ ~Answers
    /\ HostGone
    /\ socket' = FALSE
    /\ Recovers(p, "unanswered")
    /\ UNCHANGED <<state, coreVars, adopted, listing, ghosts>>

\* ... and its session marked failed.
FailStale(p) ==
    /\ recovery[p] = "unanswered"
    /\ state' = "FAILED"
    /\ Recovers(p, "done")
    /\ UNCHANGED <<hostVars, coreVars, adopted, listing, ghosts>>

-----------------------------------------------------------------------------
(* TerminateSession, and processes that stop.                               *)

\* Asks the host, if it answers: STOPPING, and a signal to the shell.
AskHost ==
    /\ ending = "idle" /\ recovery[Core] = "done"
    /\ state # "none"
    /\ ending' = "asked"
    /\ IF Answers /\ shell = "up" THEN state' = "STOPPING" /\ shell' = "told"
       ELSE UNCHANGED <<state, shell>>
    /\ UNCHANGED <<socket, host, create, tracked, watch, readerVars, ghosts>>

MarkTerminated ==
    /\ ending = "asked"
    /\ ending' = "marked"
    /\ state' = "TERMINATED"
    /\ UNCHANGED <<hostVars, create, tracked, watch, readerVars, ghosts>>

\* A host this Core started is killed; an adopted one is left to its shell's end.
KillHost ==
    /\ ending = "marked"
    /\ ending' = "idle"
    /\ IF tracked THEN HostGone ELSE UNCHANGED <<host, shell>>
    /\ tracked' = FALSE
    /\ socket' = FALSE
    /\ UNCHANGED <<state, create, watch, readerVars, ghosts>>

Stop(p) ==
    /\ stops < MaxStops
    /\ stops' = stops + 1
    /\ adopted' = adopted \ {p}
    /\ Recovers(p, "none")
    /\ listing' = [listing EXCEPT ![p] = "idle"]
    /\ IF p = Core
       THEN /\ create' = IF create = "none" THEN "none" ELSE "done"
            /\ tracked' = FALSE /\ watch' = FALSE /\ ending' = "idle"
       ELSE UNCHANGED coreVars
    /\ UNCHANGED <<state, hostVars, hasty, missed>>

-----------------------------------------------------------------------------
Init ==
    /\ state = "none" /\ socket = FALSE
    /\ host = "none" /\ shell = "none"
    /\ create = "none" /\ tracked = FALSE /\ watch = FALSE
    /\ adopted = {}
    /\ recovery = [p \in Process |-> "none"]
    /\ listing = [p \in Process |-> "idle"]
    /\ ending = "idle"
    /\ stops = 0 /\ hasty = FALSE /\ missed = FALSE

HostNext ==
    \/ BootShell \/ BootFails \/ Listen \/ ListenFails
    \/ ShellEnds \/ WaitProcess \/ HostExits \/ HostCrashes

ProcessNext(p) ==
    \/ WatchAdoptedHost(p)
    \/ ReadRow(p) \/ FailUnavailable(p)
    \/ ReadStale(p) \/ AdoptHost(p) \/ TerminateStale(p) \/ FailStale(p)
    \/ Stop(p)

Next ==
    \/ InsertSession
    \/ SpawnHost \/ SpawnFails \/ MarkStarting
    \/ HostNext
    \/ WatchSessionHost
    \/ \E p \in Process : ProcessNext(p)
    \/ AskHost \/ MarkTerminated \/ KillHost

\* A request once begun goes on, and a process that uses the terminals recovers
\* and watches.
Fairness ==
    /\ WF_vars(SpawnHost \/ SpawnFails) /\ WF_vars(MarkStarting)
    /\ WF_vars(WatchSessionHost)
    /\ \A p \in Process :
          /\ WF_vars(WatchAdoptedHost(p))
          /\ WF_vars(ReadStale(p))
          /\ WF_vars(AdoptHost(p) \/ TerminateStale(p))
          /\ WF_vars(FailStale(p))
    /\ WF_vars(MarkTerminated) /\ WF_vars(KillHost)

Spec     == Init /\ [][Next]_vars
FairSpec == Spec /\ Fairness

-----------------------------------------------------------------------------
(* Properties.                                                              *)

\* Every variable holds a value of its type; a process that is gone runs no
\* shell, and only a host that this Core still watches is in its table.
TypeOK ==
    /\ state \in States /\ socket \in BOOLEAN
    /\ host \in {"none", "booting", "running", "serving", "closing", "gone"}
    /\ shell \in {"none", "up", "told", "ended"}
    /\ host \in {"none", "gone"} => shell \in {"none", "ended"}
    /\ create \in {"none", "inserted", "spawned", "done"}
    /\ tracked \in BOOLEAN /\ watch \in BOOLEAN /\ (tracked => watch)
    /\ adopted \subseteq Process
    /\ recovery \in [Process -> {"none", "stale", "unanswered", "done"}]
    /\ listing \in [Process -> {"idle", "running"}]
    /\ ending \in {"idle", "asked", "marked"}
    /\ stops \in 0..MaxStops /\ hasty \in BOOLEAN /\ missed \in BOOLEAN

\* A session that reads FAILED has no host that still answers, however the
\* writers of its state overlap: the host was reaped, found dead or terminated
\* before the row says so (recoverSessionHosts, watchAdoptedHost).  The one
\* exception is a listing that looks after the host wrote RUNNING and before it
\* listens.
FailedIsGone ==
    state = "FAILED" /\ Answers => hasty \/ shell # "up" \/ ending # "idle"
=============================================================================
