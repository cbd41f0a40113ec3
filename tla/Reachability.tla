---------------------------- MODULE Reachability ----------------------------
(***************************************************************************)
(* How the devices of a circle know each other's addresses, and what the   *)
(* dashboard says of it: share_peers.go, share_discovery.go, the exchanges *)
(* of share_transport.go, share_roster_exchange.go and share_catalog.go    *)
(* that carry addresses, network_access.go and connection_health.go, over  *)
(* the chat links of MeshElection.                                         *)
(*                                                                         *)
(* Two Cores may share a computer; then their ports differ.  An address is *)
(* a hint: it travels with every exchange and the newest to arrive wins,   *)
(* whatever its age.  What a device once dialled it keeps in its list.     *)
(*                                                                         *)
(* A check of connection health is one step; so is each circle's update.   *)
(* Names, round-trip times, TURN, and members that leave are left out.     *)
(***************************************************************************)
EXTENDS MeshElection

CONSTANTS
    Computer,    \* Computer[d]: where d's Core runs
    Port,        \* Port[d]: where it listens
    DefaultPort, \* defaultSharePort
    Address,     \* the addresses of the local network
    Net          \* scenes: see IsNet

\* members: who is in the circle; shared: a folder is; lan: who accepts connections
\* from the network; restless: who changes that; moves: how many such changes, and new
\* addresses, and dismissals, there may be; nearby: who browses; dashboards: who looks at one;
\* mesh: the chat moves, and nothing else does.
IsNet(n) == /\ n \in [members : SUBSET Device, shared : BOOLEAN, lan : SUBSET Device, restless : SUBSET Device,
                      moves : Nat, nearby : SUBSET Device,
                      dashboards : SUBSET Device, mesh : BOOLEAN]
            /\ n.members # {} /\ n.lan \subseteq n.members

ASSUME NetAssumption == /\ \A n \in Net : IsNet(n)
                        /\ \A d, e \in Device : Computer[d] = Computer[e] /\ Port[d] = Port[e] => d = e
ASSUME AddressAssumption == \E f \in [{Computer[d] : d \in Device} -> Address] : IsInjective(f)

VARIABLES
    net,     \* the scene; it never changes
    lan,     \* the devices that accept connections from the network
    ip,      \* ip[c]: the address of computer c
    hints,   \* hints[d][m]: the endpoint of member m in d's circle file
    dials,   \* PeerEndpoints: what d's exchanges dial
    reply,   \* reply[d]: the members in an answer that d has yet to merge
    cache,   \* peerProbes
    shown,   \* what d's dashboard shows
    nearby,  \* discovered.json: of each device, nothing, or the network it announced
    noting,  \* an announcement that was looked up in discovery-ignore.json
    ignored, \* discovery-ignore.json
    left     \* how many changes may still come

hood == <<net, lan, ip, hints, dials, reply, cache, shown, nearby, noting, ignored, left>>
around == <<meshVars, hood>>

Endpoint  == [host : Address \cup {"loopback"}, port : {Port[d] : d \in Device} \cup {DefaultPort}]
NoAddress == [host |-> "none", port |-> DefaultPort]
NoReply   == [m \in Device |-> NoAddress]

Members   == net.members
Peers(d)  == Members \ {d}
Lan(d)    == d \in lan

-----------------------------------------------------------------------------
(* Addresses *)

\* publicEndpoint of what the Core listens on.
SelfEndpoint(d) == [host |-> IF Lan(d) THEN ip[Computer[d]] ELSE "loopback", port |-> Port[d]]

\* The Cores that answer where d dials e.
Listeners(d, e) == {m \in Members : /\ e.port = Port[m]
                                    /\ IF e.host = "loopback" THEN Computer[m] = Computer[d]
                                       ELSE Lan(m) /\ ip[Computer[m]] = e.host}

\* The address that d's connection to e comes from.
Remote(d, e) == IF e.host = "loopback" THEN "loopback" ELSE ip[Computer[d]]

\* A loopback address told over the network is taken for the sender's.
ChooseEndpoint(told, remote) ==
    IF told = NoAddress THEN IF remote = "loopback" THEN NoAddress ELSE [host |-> remote, port |-> DefaultPort]
    ELSE IF told.host = "loopback" /\ remote # "loopback" THEN [told EXCEPT !.host = remote]
    ELSE told

\* upsertMember, mergeMember: an address that is told replaces the one there was.
MergeMember(file, m, e) == IF e = NoAddress THEN file ELSE [file EXCEPT ![m] = e]

\* mergePeerRoster: about others only.
MergePeerRoster(d, file, heard) ==
    [m \in Device |-> IF m \in Peers(d) /\ heard[m] # NoAddress THEN heard[m] ELSE file[m]]

\* A slip: an address that comes to be the own is dialled still.
DialsItself(d, file, old) == (old \cup {file[m] : m \in Peers(d)}) \ {NoAddress}

\* refreshPeerEndpoints: nothing that was dialled once is forgotten, but the own address.
RefreshPeerEndpoints(d, file, old) ==
    (old \cup {file[m] : m \in Peers(d)}) \ {NoAddress, file[d]}

Records(d, file) ==
    /\ hints' = [hints EXCEPT ![d] = file]
    /\ dials' = [dials EXCEPT ![d] = RefreshPeerEndpoints(d, file, @)]

-----------------------------------------------------------------------------
(* Exchanges.  A Core tells its address; a command, which does not listen, *)
(* does not.                                                               *)

Dials(d, e) == ~net.mesh /\ d \in Members /\ reply[d] = NoReply /\ e \in dials[d] /\ e # SelfEndpoint(d)

\* handleSyncWire: the caller's address, then the own.
HandleSyncWire(r, d, told, remote) ==
    LET file == MergeMember(MergeMember(hints[r], d, ChooseEndpoint(told, remote)), r, SelfEndpoint(r))
    IN  Records(r, file) /\ reply' = [reply EXCEPT ![d] = file]

Sync(d, e, told) ==
    /\ Dials(d, e)
    /\ \E r \in Listeners(d, e) \ {d} : HandleSyncWire(r, d, told, Remote(d, e))
    /\ UNCHANGED <<meshVars, net, lan, ip, cache, shown, nearby, noting, ignored, left>>

\* fetchPeerRoster, fetchPeerCatalog: the peer's members as they are.
AskMembers(d, e) ==
    /\ Dials(d, e)
    /\ \E r \in Listeners(d, e) \ {d} : reply' = [reply EXCEPT ![d] = hints[r]]
    /\ UNCHANGED <<meshVars, net, lan, ip, hints, dials, cache, shown, nearby, noting, ignored, left>>

TakeMembers(d) ==
    /\ reply[d] # NoReply
    /\ Records(d, MergePeerRoster(d, hints[d], reply[d]))
    /\ reply' = [reply EXCEPT ![d] = NoReply]
    /\ UNCHANGED <<meshVars, net, lan, ip, cache, shown, nearby, noting, ignored, left>>

-----------------------------------------------------------------------------
(* The world changes. *)

Changes == left > 0 /\ left' = left - 1

NewAddress(c) ==
    /\ Changes
    /\ \E a \in Address : a \notin {ip[k] : k \in DOMAIN ip} /\ ip' = [ip EXCEPT ![c] = a]
    /\ UNCHANGED <<meshVars, net, lan, hints, dials, reply, cache, shown, nearby, noting, ignored>>

\* applyNetworkAccess, which CoreLifecycle has in detail.
ApplyNetworkAccess(d) ==
    /\ d \in net.restless /\ Changes
    /\ lan' = IF Lan(d) THEN lan \ {d} ELSE lan \cup {d}
    /\ UNCHANGED <<meshVars, net, ip, hints, dials, reply, cache, shown, nearby, noting, ignored>>

-----------------------------------------------------------------------------
(* Devices nearby.  What a note does to the chat is in MeshElection. *)

AnnouncedNet(m) == IF Lan(m) THEN "lan" ELSE "local"

\* A slip: who was dismissed is noted again.
NotesAnyone(d, m) ==
    /\ d \in net.nearby /\ m \in Peers(d) /\ noting[d] = Nobody
    /\ noting' = [noting EXCEPT ![d] = m]
    /\ UNCHANGED <<meshVars, net, lan, ip, hints, dials, reply, cache, shown, nearby, ignored, left>>

\* noteDiscoveredPeer looks before it takes the lock ...
BrowseOnce(d, m) ==
    /\ d \in net.nearby /\ m \in Peers(d) /\ noting[d] = Nobody /\ m \notin ignored[d]
    /\ noting' = [noting EXCEPT ![d] = m]
    /\ UNCHANGED <<meshVars, net, lan, ip, hints, dials, reply, cache, shown, nearby, ignored, left>>

\* ... and writes.
SaveDiscovered(d) ==
    /\ noting[d] # Nobody
    /\ nearby' = [nearby EXCEPT ![d][noting[d]] = AnnouncedNet(noting[d])]
    /\ noting' = [noting EXCEPT ![d] = Nobody]
    /\ UNCHANGED <<meshVars, net, lan, ip, hints, dials, reply, cache, shown, ignored, left>>

IgnoreDiscoveredPeer(d, m) ==
    /\ nearby[d][m] # "none" /\ m \notin ignored[d] /\ Changes
    /\ ignored' = [ignored EXCEPT ![d] = @ \cup {m}]
    /\ nearby' = [nearby EXCEPT ![d][m] = "none"]
    /\ UNCHANGED <<meshVars, net, lan, ip, hints, dials, reply, cache, shown, noting>>

\* discoveryFresh: two minutes without a note.
NearbyExpires(d, m) ==
    /\ nearby[d][m] # "none" /\ noting[d] # m
    /\ nearby' = [nearby EXCEPT ![d][m] = "none"]
    /\ UNCHANGED <<meshVars, net, lan, ip, hints, dials, reply, cache, shown, noting, ignored, left>>

-----------------------------------------------------------------------------
(* Connection health *)

States     == <<"connected", "degraded", "reconnecting", "offline", "blocked">>
Severity(s) == CHOOSE i \in DOMAIN States : States[i] = s
Capability == {"chat", "calls", "memory", "terminal"}

\* A slip: the address on the local network is not compared.
IsLoopback(d, e) == e.port = Port[d] /\ e.host = "loopback"

IsOwnAddress(d, e) == e.port = Port[d] /\ e.host \in {"loopback", ip[Computer[d]]}

\* What the probe of e says.
ProbeAnswer(d, e) == IF Listeners(d, e) # {} THEN "ok"
                     ELSE IF e.host = "loopback" \/ \E c \in DOMAIN ip : ip[c] = e.host THEN "refused"
                     ELSE "timeout"

Probed(d) == {hints[d][m] : m \in Peers(d)} \ ({NoAddress} \cup {e \in Endpoint : IsOwnAddress(d, e)})

\* A slip: what is cached is not in the answer.
ProbesStale(d) == [e \in Probed(d) |-> IF cache[d][e] # "none" THEN "unknown" ELSE ProbeAnswer(d, e)]

ProbePeerEndpoints(d) == [e \in Probed(d) |-> IF cache[d][e] # "none" THEN cache[d][e] ELSE ProbeAnswer(d, e)]

Reach(d, m, answers) ==
    LET e == hints[d][m] IN
    IF e = NoAddress THEN "no_address" ELSE IF IsOwnAddress(d, e) THEN "self_address" ELSE answers[e]

\* peerFix has nothing to say of a peer that answers, or that was not asked.
HasFix(answer) == answer \notin {"ok", "unknown"}

In(state, fix) == [state |-> state, fix |-> fix]

ReachHealth(d, answers) ==
    LET silent == {m \in Peers(d) : Reach(d, m, answers) # "ok"}
        fix    == \E m \in silent : HasFix(Reach(d, m, answers))
    IN  IF silent = {} THEN In("connected", FALSE)
        ELSE In(IF silent # Peers(d) THEN "degraded" ELSE "offline", fix)

RemotePeers(d) == \E m \in Peers(d) : hints[d][m].host \notin {"none", "loopback"}

TerminalHealth(d, answers) ==
    IF ~Lan(d) /\ RemotePeers(d) THEN In("blocked", TRUE) ELSE ReachHealth(d, answers)

MemoryHealth(d, answers) == IF ~net.shared THEN In("blocked", TRUE) ELSE TerminalHealth(d, answers)

Guests(d) == {m \in Device \ {d} : link[m].host = d /\ Linked(m)}

ChatHealth(d) ==
    IF Linked(d)
    THEN IF link[d].host = d /\ d \in broker /\ Guests(d) = {} THEN In("degraded", TRUE)
         ELSE In("connected", FALSE)
    ELSE IF d \in busy THEN In("reconnecting", TRUE)
    ELSE IF failing[d] # NoMark THEN In("offline", TRUE) ELSE In("reconnecting", TRUE)

\* deriveCapabilities; a device whose Core runs with its chat off is paused.
DeriveCapabilities(d, answers) ==
    IF d \notin up \/ Peers(d) = {} THEN [c \in Capability |-> In("offline", TRUE)]
    ELSE [c \in Capability |-> IF c = "terminal" THEN TerminalHealth(d, answers)
                               ELSE IF c = "memory" THEN MemoryHealth(d, answers)
                               ELSE ChatHealth(d)]

WorstOf(health) ==
    CHOOSE s \in {health[c].state : c \in Capability} :
        \A c \in Capability : Severity(health[c].state) <= Severity(s)

\* The dashboard asks: who has not answered lately is probed.
CheckHealth(d) ==
    /\ d \in net.dashboards
    /\ LET answers == ProbePeerEndpoints(d)
       IN  /\ cache' = [cache EXCEPT ![d] = [e \in Endpoint |-> IF e \in Probed(d) /\ @[e] = "none" THEN answers[e]
                                                               ELSE @[e]]]
           /\ shown' = [shown EXCEPT ![d] = DeriveCapabilities(d, answers)]
    /\ UNCHANGED <<meshVars, net, lan, ip, hints, dials, reply, nearby, noting, ignored, left>>

\* A slip: who did not answer once is not asked again.
KeepsFailures(d, e) ==
    /\ cache[d][e] = "ok"
    /\ cache' = [cache EXCEPT ![d][e] = "none"]
    /\ UNCHANGED <<meshVars, net, lan, ip, hints, dials, reply, shown, nearby, noting, ignored, left>>

\* peerProbeTTL.
ProbeExpires(d, e) ==
    /\ cache[d][e] # "none"
    /\ cache' = [cache EXCEPT ![d][e] = "none"]
    /\ UNCHANGED <<meshVars, net, lan, ip, hints, dials, reply, shown, nearby, noting, ignored, left>>

-----------------------------------------------------------------------------
(* Before anything changes: the addresses of the pairing, and, but for the *)
(* scenes of the mesh, a chat that is whole.                               *)

AtRest ==
    /\ scene \in Scene /\ scene.up = Members /\ scene.events = 0 /\ \A d, e \in Members : {d, e} \in scene.reach
    /\ up = scene.up /\ reach = scene.reach /\ broker = {FirstOf(up)} /\ busy = {} /\ events = 0
    /\ link = [d \in Device |-> IF d \in up THEN [host |-> FirstOf(up), client |-> "live"] ELSE NoLink]
    /\ gone = [d \in Device |-> NoMark] /\ failing = gone /\ trying = gone

PairedEndpoint(d, m) ==
    IF d = m THEN SelfEndpoint(d)
    ELSE ChooseEndpoint(SelfEndpoint(m), IF Computer[d] = Computer[m] THEN "loopback" ELSE ip[Computer[m]])

HoodInit ==
    /\ net \in Net
    /\ IF net.mesh THEN MeshInit ELSE AtRest
    /\ lan = net.lan /\ left = net.moves
    /\ ip = CHOOSE f \in [{Computer[d] : d \in Device} -> Address] : IsInjective(f)
    /\ hints = [d \in Device |-> [m \in Device |-> IF {d, m} \subseteq Members THEN PairedEndpoint(d, m) ELSE NoAddress]]
    /\ dials = [d \in Device |-> RefreshPeerEndpoints(d, hints[d], {})]
    /\ reply = [d \in Device |-> NoReply]
    /\ cache = [d \in Device |-> [e \in Endpoint |-> "none"]]
    /\ shown = [d \in Device |-> [c \in Capability |-> In("reconnecting", TRUE)]]
    /\ nearby = [d \in Device |-> [m \in Device |-> "none"]]
    /\ noting = [d \in Device |-> Nobody]
    /\ ignored = [d \in Device |-> {}]

MeshMoves == net.mesh /\ MeshNext /\ UNCHANGED hood

Moves ==
    /\ ~net.mesh
    /\ \/ \E c \in DOMAIN ip : NewAddress(c)
       \/ \E d \in Members :
             \/ ApplyNetworkAccess(d) \/ TakeMembers(d) \/ SaveDiscovered(d) \/ CheckHealth(d)
             \/ \E e \in Endpoint : \/ AskMembers(d, e) \/ ProbeExpires(d, e)
                                    \/ \E told \in {SelfEndpoint(d), NoAddress} : Sync(d, e, told)
             \/ \E m \in Members : BrowseOnce(d, m) \/ IgnoreDiscoveredPeer(d, m) \/ NearbyExpires(d, m)

HoodNext == MeshMoves \/ Moves

\* The mesh as in MeshElection.  Whoever works syncs, again and again, and looks at the dashboard,
\* which asks for the health; time passes.
HoodFairness ==
    /\ \A d \in Device :
          /\ WF_around(Recover(d) /\ UNCHANGED hood) /\ WF_around(ChatFailBack(d) /\ UNCHANGED hood)
          /\ WF_around(ClientError(d) /\ UNCHANGED hood)
    /\ \A d \in Device :
          /\ SF_around(\E e \in Endpoint : Sync(d, e, SelfEndpoint(d))) /\ WF_around(TakeMembers(d))
          /\ WF_around(CheckHealth(d)) /\ WF_around(\E e \in Endpoint : ProbeExpires(d, e))
          /\ WF_around(SaveDiscovered(d)) /\ WF_around(\E m \in ignored[d] : NearbyExpires(d, m))

HoodSpec == HoodInit /\ [][HoodNext]_around /\ HoodFairness

-----------------------------------------------------------------------------
(* Properties *)

\* The mesh and the neighbourhood hold values of their types; a device never dials the address it
\* records as its own.
HoodTypeOK ==
    /\ MeshTypeOK /\ IsNet(net) /\ lan \subseteq Members
    /\ \A d \in Device :
          /\ hints[d] \in [Device -> Endpoint \cup {NoAddress}] /\ dials[d] \subseteq Endpoint \ {hints[d][d]}
          /\ nearby[d] \in [Device -> {"none", "lan", "local"}] /\ nearby[d][d] = "none"

\* connection_health.go: health says "whether this device reaches the circle and, when it does not,
\* why and what fixes it".  Whatever is wrong, in the network or in the chat, comes with a fix; and a
\* peer is never said to answer because this device's own listener did, although hints go stale,
\* addresses are given to other computers, and two Cores share one.
Health(d) == IF net.mesh THEN DeriveCapabilities(d, [e \in Probed(d) |-> ProbeAnswer(d, e)]) ELSE shown[d]
TroubleNamesAFix ==
    \A d \in IF net.mesh THEN Device ELSE net.dashboards, c \in Capability :
        Health(d)[c].state # "connected" => Health(d)[c].fix
NeverItself ==
    [][cache' # cache => \A d \in Device, e \in Endpoint :
           cache[d][e] = "none" /\ cache'[d][e] = "ok" => d \notin Listeners(d, e)]_around
HealthIsHonest == []TroubleNamesAFix /\ NeverItself

\* Two devices that accept connections, one of which still knows where the other listens, find each
\* other for good, and both dashboards come to say so.
InReach == lan = Members /\ net.shared /\ \E d \in Members : \E m \in Peers(d) : SelfEndpoint(m) \in dials[d]
HealthCatchesUp == <>[]InReach => <>[](\A d \in net.dashboards : WorstOf(shown[d]) = "connected")

\* A device that was dismissed leaves the nearby list for good, although an announcement of it may
\* have been looked up just before.
DismissedLeaves == <>[](\A d \in Device, m \in Device : m \in ignored[d] => nearby[d][m] = "none")

\* What the dashboard says of others comes to be what holds of them.
DashboardCatchesUp == HealthCatchesUp /\ DismissedLeaves
=============================================================================
