---------------------------- MODULE MeshElection ----------------------------
(***************************************************************************)
(* Which device hosts a circle's chat: share_mqtt.go, share_discovery.go.  *)
(*                                                                         *)
(* No message decides it.  Every device elects for itself, from the        *)
(* members of the circle and the brokers that failed it lately, and dials  *)
(* the one it elected: itself, whose broker it then starts, or another,    *)
(* which answers if its own election made it a host.  The chat is whole    *)
(* when all of them come to the same host.                                 *)
(*                                                                         *)
(* Time is counted in each device's passes of chatFailBackLoop, 15 s       *)
(* apart.  An attempt to link is one step, so two dials of one device at   *)
(* the same time are left out, as are addresses, TLS and the messages      *)
(* themselves; the members do not change.                                  *)
(***************************************************************************)
EXTENDS Integers, Sequences, SequencesExt

CONSTANTS
    Order,     \* the members of the circle, as their identifiers sort
    Creator,   \* the one that created it
    GoneTTL,   \* brokerGoneTTL: for how many passes a broker that failed is passed over
    Impatient, \* passes after which brokerFailoverAfter has certainly elapsed
    Nobody,    \* "no host yet"
    MaxEvents, \* bound: faults and sightings
    Scene      \* the situations to start from

Device == {Order[i] : i \in DOMAIN Order}
Pair   == {{d, e} : d, e \in Device}

\* A scene: the devices that run and the pairs that reach each other at first, the devices that may
\* stop and start, the pairs whose network may come and go, those who see announcements, and how
\* much of all this happens.
IsScene(s) == s \in [up : SUBSET Device, reach : SUBSET Pair, restless : SUBSET Device, frail : SUBSET Pair,
                     watchers : SUBSET Device, events : 0..MaxEvents]

ASSUME OrderAssumption == Order \in Seq(Device) /\ IsInjective(Order) /\ Creator \in Device /\ Nobody \notin Device
ASSUME TimeAssumption  == GoneTTL \in Nat \ {0} /\ Impatient \in Nat \ {0} /\ MaxEvents \in Nat
ASSUME SceneAssumption == \A s \in Scene : IsScene(s)

VARIABLES
    scene,    \* the scene chosen; it never changes
    up,       \* the devices whose Core runs with its chat on
    reach,    \* the pairs of devices whose network works
    broker,   \* the devices whose own broker listens
    link,     \* link[d]: the host of d's link and the state of its client
    gone,     \* gone[d][h]: for how many passes d passes h over
    failing,  \* failing[d][h]: the passes since h started failing, as d has it noted
    trying,   \* trying[d][h]: the same since d was last linked to h (history)
    busy,     \* the devices with a recoverCircleMesh under way
    events    \* how much may still happen

meshVars == <<scene, up, reach, broker, link, gone, failing, trying, busy, events>>
world == <<scene, up, reach>>

Client == {"none", "live", "dead"}
Link   == [host : Device \cup {Nobody}, client : Client]
NoLink == [host |-> Nobody, client |-> "none"]
\* 0 for a host that is not failing, 1 for one that just started, and 1 more for every pass.
Age    == 0..(Impatient + 1)

NoMark == [h \in Device |-> 0]

Reaches(d, h) == \/ h = d
                 \/ h \in up \cap broker /\ {d, h} \in reach
Linked(d)     == link[d].client # "none"
AlreadyLinked(d, h) == Linked(d) /\ link[d].host = h

-----------------------------------------------------------------------------
(* Election *)

\* The creator comes first, then the others in their order, from the one after the creator on.
Place(h)   == CHOOSE i \in DOMAIN Order : Order[i] = h
Rank       == [h \in Device |-> (Place(h) - Place(Creator)) % Len(Order)]
FirstOf(S) == CHOOSE h \in S : \A e \in S : Rank[h] <= Rank[e]

ElectBroker(d) == FirstOf({h \in Device : gone[d][h] = 0})

-----------------------------------------------------------------------------
(* Linking *)

\* A slip: a broker that closes lets its guests be.
CastNobody(l, h) == l

\* The links of others to a broker of h that has closed: their clients have yet to notice.
Cast(l, h) == [e \in Device |-> IF e # h /\ l[e] = [host |-> h, client |-> "live"]
                                THEN [l[e] EXCEPT !.client = "dead"] ELSE l[e]]

\* ensureLocalBroker keeps the broker of a device whose link is to itself, and replaces an older one.
KeepsBroker(d) == d \in broker /\ link[d].host = d

ConnectMeshClient(d, h) ==
    LET linked == [link EXCEPT ![d] = [host |-> h, client |-> "live"]] IN
    /\ link' = IF h = d /\ ~KeepsBroker(d) THEN Cast(linked, d) ELSE linked
    /\ broker' = IF h = d THEN broker \cup {d} ELSE broker

\* recoverCircleMeshOnce succeeds; on a link it has it only flushes the outbox, which a dead link may not notice.
LinkOnce(d, h) == IF AlreadyLinked(d, h) THEN UNCHANGED <<link, broker>>
                                         ELSE Reaches(d, h) /\ ConnectMeshClient(d, h)

FailsOnce(d, h) == /\ h # d
                   /\ IF AlreadyLinked(d, h) THEN link[d].client = "dead" ELSE ~Reaches(d, h)

Note(ages, h) == [ages EXCEPT ![h] = IF @ = 0 THEN 1 ELSE @]

\* Whether a host noted that long ago has failed for brokerFailoverAfter: 20 s lie between one pass and two.
MayGiveUp(age)    == age > 1
MayStayLoyal(age) == age <= Impatient

-----------------------------------------------------------------------------
(* recoverCircleMesh, one round of its loop at a time *)

\* A slip: what was failing is remembered over the link that ended it.
RecoverRemembering(d) ==
    /\ d \in busy /\ LinkOnce(d, ElectBroker(d))
    /\ trying' = [trying EXCEPT ![d][ElectBroker(d)] = 0]
    /\ busy' = busy \ {d}
    /\ UNCHANGED <<world, gone, failing, events>>

RecoverLinks(d) ==
    /\ d \in busy /\ LinkOnce(d, ElectBroker(d))
    /\ trying' = [trying EXCEPT ![d][ElectBroker(d)] = 0]
    /\ failing' = [failing EXCEPT ![d] = NoMark]
    /\ busy' = busy \ {d}
    /\ UNCHANGED <<world, gone, events>>

\* The host may be restarting: the device stays as it is until the next pass.
RecoverWaits(d) ==
    LET h == ElectBroker(d) IN
    /\ d \in busy /\ FailsOnce(d, h) /\ MayStayLoyal(failing[d][h])
    /\ failing' = [failing EXCEPT ![d] = Note(@, h)]
    /\ trying' = [trying EXCEPT ![d] = Note(@, h)]
    /\ busy' = busy \ {d}
    /\ UNCHANGED <<world, broker, link, gone, events>>

RecoverGivesUp(d) ==
    LET h == ElectBroker(d) IN
    /\ d \in busy /\ FailsOnce(d, h) /\ MayGiveUp(failing[d][h])
    /\ gone' = [gone EXCEPT ![d][h] = GoneTTL]
    /\ trying' = [trying EXCEPT ![d] = Note(@, h)]
    /\ UNCHANGED <<world, broker, link, failing, busy, events>>

-----------------------------------------------------------------------------
(* chatFailBack, every 15 s *)

Older(ages) == [h \in Device |-> IF ages[h] \in 1..Impatient THEN ages[h] + 1 ELSE ages[h]]
\* A slip: marks do not expire.
KeepMarks(marks) == marks
Sooner(marks) == [h \in Device |-> IF marks[h] = 0 THEN 0 ELSE marks[h] - 1]

Tick(d) == d \in up \ busy /\ failing' = [failing EXCEPT ![d] = Older(@)]

PassRecovers(d) ==
    /\ Tick(d) /\ ~Linked(d)
    /\ busy' = busy \cup {d}
    /\ gone' = [gone EXCEPT ![d] = Sooner(@)]
    /\ trying' = [trying EXCEPT ![d] = Older(@)]
    /\ UNCHANGED <<world, broker, link, events>>

PassStays(d) ==
    /\ Tick(d) /\ Linked(d) /\ ElectBroker(d) = link[d].host
    /\ gone' = [gone EXCEPT ![d] = Sooner(@)]
    /\ trying' = [trying EXCEPT ![d] = Older(@)]
    /\ UNCHANGED <<world, broker, link, busy, events>>

PassMoves(d) ==
    LET want == ElectBroker(d) IN
    /\ Tick(d) /\ Linked(d) /\ want # link[d].host /\ Reaches(d, want)
    /\ ConnectMeshClient(d, want)
    /\ trying' = [trying EXCEPT ![d] = [Older(@) EXCEPT ![want] = 0]]
    /\ gone' = [gone EXCEPT ![d] = Sooner(@)]
    /\ UNCHANGED <<world, busy, events>>

\* A slip: the link is given up for a host that does not answer.
PassDropsLink(d) ==
    LET want == ElectBroker(d) IN
    /\ Tick(d) /\ Linked(d) /\ want # link[d].host /\ ~Reaches(d, want)
    /\ gone' = [gone EXCEPT ![d] = [Sooner(@) EXCEPT ![want] = GoneTTL]]
    /\ trying' = [trying EXCEPT ![d] = Note(Older(@), want)]
    /\ link' = [link EXCEPT ![d].client = "none"]
    /\ UNCHANGED <<world, broker, busy, events>>

\* A move that fails keeps the link that works.
PassFailsToMove(d) ==
    LET want == ElectBroker(d) IN
    /\ Tick(d) /\ Linked(d) /\ want # link[d].host /\ ~Reaches(d, want)
    /\ gone' = [gone EXCEPT ![d] = [Sooner(@) EXCEPT ![want] = GoneTTL]]
    /\ trying' = [trying EXCEPT ![d] = Note(Older(@), want)]
    /\ UNCHANGED <<world, broker, link, busy, events>>

-----------------------------------------------------------------------------
(* The client, announcements, and the world *)

\* The client notices: OnClientError drops it and schedules a recovery.
ClientError(d) ==
    /\ link[d].client = "dead"
    /\ link' = [link EXCEPT ![d].client = "none"]
    /\ busy' = busy \cup {d}
    /\ UNCHANGED <<world, broker, gone, failing, trying, events>>

\* noteDiscoveredPeer: h announces a chat; at a new address, its mark is taken off.
NoteDiscoveredPeer(d, h) ==
    /\ d \in (up \cap scene.watchers) \ busy /\ h # d /\ Reaches(d, h) /\ events > 0
    /\ events' = events - 1
    /\ gone' \in {gone, [gone EXCEPT ![d][h] = 0]}
    /\ busy' = busy \cup {d}
    /\ UNCHANGED <<world, broker, link, failing, trying>>

\* The Core stops, or its chat is paused, which keeps the marks.
GoDown(d, paused) ==
    /\ d \in up \cap scene.restless /\ events > 0
    /\ events' = events - 1
    /\ up' = up \ {d} /\ broker' = broker \ {d} /\ busy' = busy \ {d}
    /\ link' = [Cast(link, d) EXCEPT ![d] = NoLink]
    /\ gone' = [gone EXCEPT ![d] = IF paused THEN @ ELSE NoMark]
    /\ failing' = [failing EXCEPT ![d] = IF paused THEN @ ELSE NoMark]
    /\ trying' = [trying EXCEPT ![d] = NoMark]
    /\ UNCHANGED <<scene, reach>>

\* startMeshServices; the time away has aged what a pause kept.
ComeUp(d) ==
    /\ d \in scene.restless \ up
    /\ up' = up \cup {d} /\ busy' = busy \cup {d}
    /\ gone' = [gone EXCEPT ![d] = NoMark]
    /\ failing' = [failing EXCEPT ![d] = [h \in Device |-> IF @[h] = 0 THEN 0 ELSE Impatient + 1]]
    /\ UNCHANGED <<scene, reach, broker, link, trying, events>>

Cut(p) ==
    /\ p \in reach \cap scene.frail /\ events > 0
    /\ events' = events - 1
    /\ reach' = reach \ {p}
    /\ link' = [d \in Device |-> IF p = {d, link[d].host} /\ link[d].client = "live" /\ link[d].host # d
                                 THEN [link[d] EXCEPT !.client = "dead"] ELSE link[d]]
    /\ UNCHANGED <<scene, up, broker, gone, failing, trying, busy>>

Heal(p) ==
    /\ p \in scene.frail \ reach
    /\ reach' = reach \cup {p}
    /\ UNCHANGED <<scene, up, broker, link, gone, failing, trying, busy, events>>

-----------------------------------------------------------------------------
MeshInit ==
    /\ scene \in Scene
    /\ up = scene.up
    /\ reach = scene.reach
    /\ broker = {}
    /\ link = [d \in Device |-> NoLink]
    /\ gone = [d \in Device |-> NoMark]
    /\ failing = [d \in Device |-> NoMark]
    /\ trying = [d \in Device |-> NoMark]
    /\ busy = scene.up
    /\ events = scene.events

Recover(d) == RecoverLinks(d) \/ RecoverWaits(d) \/ RecoverGivesUp(d)
ChatFailBack(d) == PassRecovers(d) \/ PassStays(d) \/ PassMoves(d) \/ PassFailsToMove(d)

MeshNext ==
    \/ \E d \in Device : \/ Recover(d) \/ ChatFailBack(d) \/ ClientError(d) \/ ComeUp(d)
                         \/ \E paused \in BOOLEAN : GoDown(d, paused)
                         \/ \E h \in Device : NoteDiscoveredPeer(d, h)
    \/ \E p \in Pair : Cut(p) \/ Heal(p)

MeshSpec == MeshInit /\ [][MeshNext]_meshVars

\* A device that runs keeps passing, an attempt to link ends, and a client notices a dead connection
\* (its keep-alive is 30 s).
MeshFairness == \A d \in Device : WF_meshVars(Recover(d)) /\ WF_meshVars(ChatFailBack(d)) /\ WF_meshVars(ClientError(d))

FairMeshSpec == MeshSpec /\ MeshFairness

-----------------------------------------------------------------------------
(* Properties *)

\* The shape of the state; a live link leads to a broker that listens and can be reached.
MeshTypeOK ==
    /\ IsScene(scene)
    /\ up \subseteq Device /\ broker \subseteq up /\ busy \subseteq up /\ reach \subseteq Pair
    /\ link \in [Device -> Link]
    /\ \A d \in Device : link[d].client = "live" => d \in up /\ Reaches(d, link[d].host) /\ link[d].host \in broker
    /\ gone \in [Device -> [Device -> 0..GoneTTL]]
    /\ failing \in [Device -> [Device -> Age]]
    /\ trying \in [Device -> [Device -> Age]]
    /\ events \in 0..MaxEvents

\* Electing and dialling never cost a device a link that works: it loses one only when it stops, when
\* the network fails, or when the host stops or replaces its broker.
KeepsWorkingLink ==
    [][\A d \in Device : LET h == link[d].host IN
        link[d].client = "live" /\ link'[d].client # "live" =>
            \/ d \notin up' \/ h \notin up' \/ {d, h} \notin reach'
            \/ h # d /\ link[h].host # h /\ link'[h].host = h]_meshVars

\* What brokerFailoverAfter is for: a device gives a host up for another only after it has failed for a
\* while since they were last linked, so that a host that restarts finds its guests waiting.  It holds
\* for devices that neither pause their chat nor act on announcements: the note of a failure
\* outlives a pause, and the link that fail-back makes after a failed attempt on an announcement.
WaitsForHost(d) ==
    \A h \in Device : d \in busy /\ busy' = busy /\ gone'[d][h] > gone[d][h] => trying[d][h] > 1
PatientFailover == [][\A d \in Device \ (scene.watchers \cup scene.restless) : WaitsForHost(d)]_meshVars

\* A device holds on to its host, linked or not.
HoldsOn == KeepsWorkingLink /\ PatientFailover

\* Once the devices that run reach each other for good, all come to be linked to the first of them
\* in the order of election: the creator, if it runs.
InTouch  == \A d, e \in up : d = e \/ {d, e} \in reach
Together == \A d \in up : link[d] = [host |-> FirstOf(up), client |-> "live"]
Meets    == <>[]InTouch => <>[]Together
=============================================================================
