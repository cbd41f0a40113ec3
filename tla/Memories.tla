------------------------------ MODULE Memories ------------------------------
(***************************************************************************)
(* What the devices of a circle have learnt about one repository, and how  *)
(* lessons travel between their stores (db.go, share_sync.go, sync_logic.go *)
(* distill.go, share_catalog.go, graph.go, recall_logic.go).               *)
(*                                                                         *)
(* A lesson's id is the fingerprint of what it says, so two devices that   *)
(* record the same lesson share the id.  A user's command and an import    *)
(* read a row, decide, and write it back later, each in a process or a     *)
(* goroutine of its own; only the write is a transaction.  An exchange     *)
(* works with the circle as it was when the exchange began.                *)
(*                                                                         *)
(* Confidence is not tracked: whether a failure takes it low enough is     *)
(* either.  One listener goroutine per client; all clocks agree, and       *)
(* count the seconds in which something may happen.                        *)
(***************************************************************************)
EXTENDS Naturals, FiniteSets

CONSTANTS
    Device,
    Lesson,     \* fingerprints of lessons, shareable and of one repository in an allowed folder
    NoRow,
    Nobody,     \* no device
    MaxClock,   \* seconds in which something happens
    Old,        \* age in seconds from which the collector takes a retired lesson
    Scene       \* what users may do, who reaches whom

VARIABLES
    scene,
    row,        \* row[d][m]: the row of m in d's memories table
    node,       \* lessons with a node in d's graph
    heard,      \* of those, lessons a peer's catalog brought
    task,       \* a command of d's user: the row it has read
    left,       \* commands the user may still give
    sync,       \* d's exchange with its peers, one after another
    serve,      \* serve[e][d]: e's goroutine that answers d
    cursor,     \* time of the last answer applied, over all peers
    active,     \* members of d's copy of the circle that are not revoked
    marking,    \* removed devices whose rows are yet to be retired
    clock,
    recorded,   \* lessons d's user has recorded
    touched,    \* lessons d's user has written since
    overlap     \* devices that were exchanging with d when d removed them

vars == <<scene, row, node, heard, task, left, sync, serve, cursor, active, marking, clock,
          recorded, touched, overlap>>

stores  == <<row, node, heard>>
history == <<recorded, touched, overlap>>
circle  == <<active, marking>>

\* acts: what each user may do, and how often; says: what is recorded with evidence in words and
\* from a source that counts as a success; syncs: who starts exchanges; dials: who reaches whose
\* listener; removes: whom the creator of the circle, who cannot be revoked, revokes; recalls: who asks
\* for what its graph names; seconds: in how many something happens.
IsScene(s) ==
    /\ s.acts \in [Device -> SUBSET ([what : {"record", "validate", "collect"}, m : Lesson])]
    /\ s.many \in [Device -> Nat]
    /\ s.says \subseteq [words : BOOLEAN, positive : BOOLEAN]
    /\ s.members \subseteq Device /\ s.syncs \subseteq s.members
    /\ s.dials \subseteq Device \X Device
    /\ s.removes \subseteq Device \X Device
    /\ \A p, q \in s.removes : p[1] = q[1] /\ p[1] # p[2]
    /\ s.recalls \subseteq Device
    /\ s.seconds \in 1..MaxClock

ASSUME MemoriesAssumption ==
    /\ MaxClock \in Nat /\ Old \in Nat
    /\ Nobody \notin Device
    /\ \A s \in Scene : IsScene(s)

-----------------------------------------------------------------------------
(* Rows *)

Row == [from   : Device,            \* who it came from: the device itself, or a peer
        status : {"active", "stale", "deprecated"},
        hot    : BOOLEAN,
        good   : Nat, bad : Nat,    \* validations
        text   : BOOLEAN,           \* evidence in words
        ev     : Nat,               \* evidence score, in validations
        at     : 0..MaxClock]

\* What travels: the packet does not carry the evidence, only its score.
Packet == [m : Lesson, ev : Nat, at : 0..MaxClock]

\* 0.35, 0.25 for words, 0.08 a validation up to 0.4.
EvidenceScore(r) ==
    (IF r.text THEN 3 ELSE 0) + (IF r.good + r.bad > 5 THEN 5 ELSE r.good + r.bad)

\* The row in the table when a command writes r over it: ON CONFLICT keeps the origin.
Persisted(old, r) == IF old = NoRow THEN r ELSE [r EXCEPT !.from = old.from]

\* An import replaces the score, the time, the status and the index of a row, not its origin.
PeerUpserted(old, p, peer) ==
    IF old = NoRow
    THEN [from |-> peer, status |-> "active", hot |-> TRUE, good |-> 0, bad |-> 0,
          text |-> FALSE, ev |-> p.ev, at |-> p.at]
    ELSE [old EXCEPT !.status = "active", !.hot = TRUE, !.ev = p.ev, !.at = p.at]

UpsertGraphNode(d, m) == node[d] \cup {m}
RemoveMemoryGraph(d, m) == node[d] \ {m}

\* Whatever writes a row brings the graph into line in the same transaction.
Write(d, m, r) ==
    /\ row'   = [row EXCEPT ![d][m] = r]
    /\ node'  = [node EXCEPT ![d] = IF r # NoRow /\ r.status = "active" THEN UpsertGraphNode(d, m)
                                                                      ELSE RemoveMemoryGraph(d, m)]
    /\ heard' = [heard EXCEPT ![d] = @ \ {m}]

\* Rows that are active and in the hot index.
Hot(d) == {m \in Lesson : row[d][m] # NoRow /\ row[d][m].status = "active" /\ row[d][m].hot}

\* Rows a device hands out: its own.
Exportable(d) == {m \in Hot(d) : row[d][m].from = d}

Packets(d, since) ==
    {[m |-> m, ev |-> row[d][m].ev, at |-> row[d][m].at] :
        m \in {l \in Exportable(d) : since = 0 \/ row[d][l].at > since}}

Requested(d, ids) == {p \in Packets(d, 0) : p.m \in ids}

-----------------------------------------------------------------------------
(* A user's commands.  Each reads the row, then writes what it made of it. *)

NoTask == [what |-> "none"]

Begin(d, m, what) ==
    /\ task[d] = NoTask /\ left[d] > 0
    /\ [what |-> what, m |-> m] \in scene.acts[d]
    /\ task' = [task EXCEPT ![d] = [what |-> what, m |-> m, saw |-> row[d][m]]]
    /\ left' = [left EXCEPT ![d] = @ - 1]
    /\ UNCHANGED <<scene, stores, sync, serve, cursor, circle, clock, history>>

GetMemory(d, m) == \/ Begin(d, m, "record")
                   \/ row[d][m] # NoRow /\ Begin(d, m, "validate")

Inserted(d, say) ==
    [from |-> d, status |-> "active", hot |-> TRUE, good |-> IF say.positive THEN 1 ELSE 0, bad |-> 0,
     text |-> say.words, ev |-> 0, at |-> clock]

Merged(r, say) ==
    [r EXCEPT !.status = "active", !.hot = TRUE, !.at = clock,
              !.good = IF say.positive THEN @ + 1 ELSE @, !.text = @ \/ say.words]

Scored(r) == [r EXCEPT !.ev = EvidenceScore(r)]

Done(d, m) ==
    /\ task' = [task EXCEPT ![d] = NoTask]
    /\ touched' = [touched EXCEPT ![d] = @ \cup {m}]

\* Records m, with or without evidence in words and a source that counts as a success.
RecordMemory(d) ==
    /\ task[d].what = "record"
    /\ \E say \in scene.says :
          LET it  == task[d].m
              saw == task[d].saw
              r   == IF saw = NoRow THEN Inserted(d, say) ELSE Merged(saw, say)
          IN  /\ Write(d, it, Persisted(row[d][it], Scored(r)))
              /\ recorded' = [recorded EXCEPT ![d] = @ \cup {it}]
              /\ Done(d, it)
    /\ UNCHANGED <<scene, left, sync, serve, cursor, circle, clock, overlap>>

Succeeded(r) == [r EXCEPT !.good = @ + 1, !.status = "active", !.hot = TRUE]

\* A failure takes a peer's row out of the hot index, and any row down when confidence gets low.
Failed(d, r, low) ==
    [r EXCEPT !.bad = @ + 1, !.hot = @ /\ r.from = d, !.status = IF low THEN "stale" ELSE @]

Contradicted(r) == [r EXCEPT !.bad = @ + 1, !.status = "deprecated"]

ValidateMemory(d) ==
    /\ task[d].what = "validate"
    /\ LET it == task[d].m  saw == task[d].saw
       IN  /\ \E r \in {Succeeded(saw), Failed(d, saw, TRUE), Failed(d, saw, FALSE), Contradicted(saw)} :
                 Write(d, it, Persisted(row[d][it], [Scored(r) EXCEPT !.at = clock]))
           /\ Done(d, it)
    /\ UNCHANGED <<scene, left, sync, serve, cursor, circle, clock, recorded, overlap>>

\* The collector of a new session lists what was retired long ago, then deletes it by its id.
RunGC(d, m) ==
    /\ row[d][m] # NoRow /\ row[d][m].status # "active" /\ row[d][m].at + Old < clock
    /\ Begin(d, m, "collect")

DeleteMemory(d) ==
    /\ task[d].what = "collect"
    /\ Write(d, task[d].m, NoRow)
    /\ Done(d, task[d].m)
    /\ UNCHANGED <<scene, left, sync, serve, cursor, circle, clock, recorded, overlap>>

\* At the end of a session a lesson that failed more often than it held leaves the hot index.
ConsolidateSession(d, m) ==
    /\ row[d][m] # NoRow /\ row[d][m].from = d /\ row[d][m].status = "active" /\ row[d][m].hot
    /\ row[d][m].bad > row[d][m].good
    /\ row' = [row EXCEPT ![d][m].hot = FALSE]
    /\ UNCHANGED <<scene, node, heard, task, left, sync, serve, cursor, circle, clock, history>>

-----------------------------------------------------------------------------
(* An exchange: what d has goes to each peer in turn, what the peer has comes back. *)

NoSync == [at |-> "idle"]
NoServe == [at |-> "idle"]

\* The circle is read once, for all peers.
Exchange(d, ids, since, out) ==
    /\ sync[d] = NoSync
    /\ sync' = [sync EXCEPT ![d] =
                  [at |-> "ready", ids |-> ids, since |-> since, out |-> out,
                   roster |-> active[d], todo |-> active[d] \ {d},
                   peer |-> Nobody, queue |-> {}, saw |-> {}, now |-> 0]]
    /\ UNCHANGED <<scene, stores, task, left, serve, cursor, circle, clock, history>>

\* A variant: only what is newer than the cursor is sent.
SendsSinceCursor(d) ==
    d \in active[d] \cap scene.syncs /\ Exchange(d, {}, cursor[d], Packets(d, cursor[d]))

\* So are the cursor and what is sent, which is all there is.
SyncCirclePeers(d) ==
    d \in active[d] \cap scene.syncs /\ Exchange(d, {}, cursor[d], Packets(d, 0))

\* Recall asks for the lessons its graph names and its table lacks.
FetchMissingPeerPackets(d) ==
    LET missing == {m \in node[d] : row[d][m] = NoRow}
    IN  d \in scene.recalls /\ missing # {} /\ Exchange(d, missing, 0, {})

TakesAnyone(d, e) ==
    /\ sync[d].at = "ready" /\ e \in sync[d].todo
    /\ <<d, e>> \in scene.dials
    /\ serve[e][d] = NoServe
    /\ sync' = [sync EXCEPT ![d].at = "asking", ![d].peer = e]
    /\ serve' = [serve EXCEPT ![e][d] =
                   [at |-> "importing", ids |-> sync[d].ids, since |-> sync[d].since,
                    queue |-> sync[d].out, saw |-> {}, open |-> TRUE]]
    /\ UNCHANGED <<scene, stores, task, left, cursor, circle, clock, history>>

\* The listener takes a request of an active member.
HandleSyncWire(d, e) == d \in active[e] /\ TakesAnyone(d, e)

\* The peer does not answer, or not in time: the next one is tried.
PeerTimeout(d, e) ==
    /\ \/ sync[d].at = "ready" /\ e \in sync[d].todo /\ serve' = serve
       \/ sync[d].at = "asking" /\ sync[d].peer = e /\ serve' = [serve EXCEPT ![e][d].open = FALSE]
    /\ sync' = [sync EXCEPT ![d].at = "ready", ![d].peer = Nobody, ![d].todo = @ \ {e}]
    /\ UNCHANGED <<scene, stores, task, left, cursor, circle, clock, history>>

\* An import passes over a packet whose score is not above the row's, and keeps the others to write.
ShouldUpdate(old, p) == old = NoRow \/ old.ev < p.ev

ImportLoad(d, q, p) ==
    IF ShouldUpdate(row[d][p.m], p) THEN [q EXCEPT !.saw = {p}, !.queue = @ \ {p}]
                                    ELSE [q EXCEPT !.queue = @ \ {p}]

\* The listener imports what it was sent, packet by packet, reading and then writing.
ImportPushedPackets(e, d) ==
    /\ serve[e][d].at = "importing"
    /\ \/ /\ serve[e][d].saw = {}
          /\ \E p \in serve[e][d].queue : serve' = [serve EXCEPT ![e][d] = ImportLoad(e, @, p)]
          /\ UNCHANGED stores
       \/ \E p \in serve[e][d].saw :
             /\ Write(e, p.m, PeerUpserted(row[e][p.m], p, d))
             /\ serve' = [serve EXCEPT ![e][d].saw = {}]
    /\ UNCHANGED <<scene, task, left, sync, cursor, circle, clock, history>>

\* Then it answers with its own, later than the cursor or asked for by id.
BuildSyncResponse(e, d) ==
    /\ serve[e][d].at = "importing" /\ serve[e][d].queue = {} /\ serve[e][d].saw = {}
    /\ serve' = [serve EXCEPT ![e][d] = NoServe]
    /\ sync' = IF ~serve[e][d].open THEN sync
               ELSE [sync EXCEPT ![d].at = "importing", ![d].now = clock,
                                 ![d].queue = IF serve[e][d].ids # {} THEN Requested(e, serve[e][d].ids)
                                              ELSE Packets(e, serve[e][d].since)]
    /\ UNCHANGED <<scene, stores, task, left, cursor, circle, clock, history>>

\* The answer is imported; the sender was a member when the exchange began.
ImportPeerBatch(d) ==
    /\ sync[d].at = "importing"
    /\ \/ /\ sync[d].saw = {}
          /\ \E p \in sync[d].queue : sync' = [sync EXCEPT ![d] = ImportLoad(d, @, p)]
          /\ UNCHANGED stores
       \/ \E p \in sync[d].saw :
             /\ Write(d, p.m, PeerUpserted(row[d][p.m], p, sync[d].peer))
             /\ sync' = [sync EXCEPT ![d].saw = {}]
    /\ UNCHANGED <<scene, task, left, serve, cursor, circle, clock, history>>

\* One cursor for all peers moves to the time of the answer, unless lessons were asked for by id.
ApplyPeerSyncResult(d) ==
    /\ sync[d].at = "importing" /\ sync[d].queue = {} /\ sync[d].saw = {}
    /\ cursor' = [cursor EXCEPT ![d] = IF sync[d].ids = {} THEN sync[d].now ELSE @]
    /\ sync' = [sync EXCEPT ![d].at = "ready", ![d].todo = @ \ {sync[d].peer}, ![d].peer = Nobody]
    /\ UNCHANGED <<scene, stores, task, left, serve, circle, clock, history>>

\* The process of an exchange stops while it imports.
ExchangeStops(d) ==
    /\ sync[d].at = "importing"
    /\ sync' = [sync EXCEPT ![d] = NoSync]
    /\ UNCHANGED <<scene, stores, task, left, serve, cursor, circle, clock, history>>

\* So does the one that answers d, which then goes on to its next peer.
ListenerStops(e, d) ==
    /\ serve[e][d].at = "importing"
    /\ serve' = [serve EXCEPT ![e][d] = NoServe]
    /\ sync' = IF ~serve[e][d].open THEN sync
               ELSE [sync EXCEPT ![d].at = "ready", ![d].peer = Nobody, ![d].todo = @ \ {e}]
    /\ UNCHANGED <<scene, stores, task, left, cursor, circle, clock, history>>

RecordShareSyncReport(d) ==
    /\ sync[d].at = "ready" /\ sync[d].todo = {}
    /\ sync' = [sync EXCEPT ![d] = NoSync]
    /\ UNCHANGED <<scene, stores, task, left, serve, cursor, circle, clock, history>>

\* The graph of what a device has recorded, which it answers to an active member that asks for it.
CatalogGraphExport(e) ==
    {m \in Lesson : row[e][m] # NoRow /\ row[e][m].from = e /\ row[e][m].status = "active"}

HandleCatalog(e, d) == d \in active[e]

\* Nodes are added, or written over; none is taken away.
ImportCatalogGraph(d, tree) ==
    /\ node'  = [node EXCEPT ![d] = @ \cup tree]
    /\ heard' = [heard EXCEPT ![d] = @ \cup (tree \ node[d])]

\* A session that starts takes over the graph of each peer.
ImportPeerCatalogs(d, e) ==
    /\ d \in scene.recalls /\ <<d, e>> \in scene.dials
    /\ e \in active[d] \ {d} /\ HandleCatalog(e, d)
    /\ ~(CatalogGraphExport(e) \subseteq node[d])
    /\ ImportCatalogGraph(d, CatalogGraphExport(e))
    /\ UNCHANGED <<scene, row, task, left, sync, serve, cursor, circle, clock, history>>

-----------------------------------------------------------------------------
(* The circle *)

\* d exchanges with e, or holds an answer of its own to.
Exchanging(d, e) ==
    \/ sync[d].at # "idle" /\ (e = sync[d].peer \/ e \in sync[d].todo)
    \/ serve[d][e].at # "idle"

\* The creator revokes e, then retires what e has shared with it.
RevokeMember(d, e) ==
    /\ <<d, e>> \in scene.removes /\ e \in active[d]
    /\ active'  = [active EXCEPT ![d] = @ \ {e}]
    /\ marking' = [marking EXCEPT ![d] = @ \cup {e}]
    /\ overlap' = [overlap EXCEPT ![d] = IF Exchanging(d, e) THEN @ \cup {e} ELSE @]
    /\ UNCHANGED <<scene, stores, task, left, sync, serve, cursor, clock, recorded, touched>>

From(d, e) == {m \in Lesson : row[d][m] # NoRow /\ row[d][m].from = e /\ e # d}

RetireRows(d, e) ==
    /\ e \in marking[d]
    /\ marking' = [marking EXCEPT ![d] = @ \ {e}]
    /\ row' = [row EXCEPT ![d] = [m \in Lesson |->
                 IF m \in From(d, e) THEN [row[d][m] EXCEPT !.status = "deprecated", !.hot = FALSE]
                                     ELSE row[d][m]]]
    /\ UNCHANGED <<scene, task, left, sync, serve, cursor, active, clock, history>>

\* A variant: the graph keeps what is retired.
MarksWithoutGraph(d, e) == RetireRows(d, e) /\ UNCHANGED <<node, heard>>

MarkPeerRevoked(d, e) ==
    /\ RetireRows(d, e)
    /\ node'  = [node EXCEPT ![d] = @ \ From(d, e)]
    /\ heard' = [heard EXCEPT ![d] = @ \ From(d, e)]

\* The others, and the removed device itself, learn of it when they exchange rosters.
LearnRemoval(d, e) ==
    /\ \E c \in active[d] \ {d} : <<c, e>> \in scene.removes /\ e \notin active[c]
    /\ e \in active[d]
    /\ active' = [active EXCEPT ![d] = @ \ {e}]
    /\ UNCHANGED <<scene, stores, task, left, sync, serve, cursor, marking, clock, history>>

Tick ==
    /\ clock < scene.seconds
    /\ clock' = clock + 1
    /\ UNCHANGED <<scene, stores, task, left, sync, serve, cursor, circle, history>>

-----------------------------------------------------------------------------
Init ==
    /\ scene \in Scene
    /\ row = [d \in Device |-> [m \in Lesson |-> NoRow]]
    /\ node = [d \in Device |-> {}]
    /\ heard = [d \in Device |-> {}]
    /\ task = [d \in Device |-> NoTask]
    /\ left = scene.many
    /\ sync = [d \in Device |-> NoSync]
    /\ serve = [e \in Device |-> [d \in Device |-> NoServe]]
    /\ cursor = [d \in Device |-> 0]
    /\ active = [d \in Device |-> IF d \in scene.members THEN scene.members ELSE {}]
    /\ marking = [d \in Device |-> {}]
    /\ clock = 1
    /\ recorded = [d \in Device |-> {}]
    /\ touched = [d \in Device |-> {}]
    /\ overlap = [d \in Device |-> {}]

Next ==
    \/ \E d \in Device, m \in Lesson : GetMemory(d, m) \/ RunGC(d, m) \/ ConsolidateSession(d, m)
    \/ \E d \in Device : \/ RecordMemory(d) \/ ValidateMemory(d) \/ DeleteMemory(d)
                         \/ SyncCirclePeers(d) \/ FetchMissingPeerPackets(d)
                         \/ ImportPeerBatch(d) \/ ApplyPeerSyncResult(d) \/ RecordShareSyncReport(d)
                         \/ ExchangeStops(d)
    \/ \E d, e \in Device : \/ HandleSyncWire(d, e) \/ PeerTimeout(d, e)
                            \/ ImportPushedPackets(e, d) \/ BuildSyncResponse(e, d) \/ ListenerStops(e, d)
                            \/ ImportPeerCatalogs(d, e)
                            \/ RevokeMember(d, e) \/ MarkPeerRevoked(d, e) \/ LearnRemoval(d, e)
    \/ Tick

Spec == Init /\ [][Next]_vars

\* Sessions keep starting, and each syncs; every call ends, and of those to a
\* peer that can be reached some succeed; what has begun goes on.
Fairness ==
    \A d \in Device :
        /\ WF_vars(\/ SyncCirclePeers(d) \/ \E e \in Device : PeerTimeout(d, e)
                   \/ ImportPeerBatch(d) \/ ApplyPeerSyncResult(d) \/ RecordShareSyncReport(d))
        /\ \A e \in Device \ {d} : /\ SF_vars(HandleSyncWire(d, e))
                                   /\ WF_vars(ImportPushedPackets(e, d) \/ BuildSyncResponse(e, d))

FairSpec == Spec /\ Fairness

-----------------------------------------------------------------------------
(* Properties *)

Shape ==
    /\ IsScene(scene)
    /\ row \in [Device -> [Lesson -> Row \cup {NoRow}]]
    /\ node \in [Device -> SUBSET Lesson] /\ heard \in [Device -> SUBSET Lesson]
    /\ cursor \in [Device -> 0..MaxClock] /\ clock \in 0..MaxClock
    /\ active \in [Device -> SUBSET Device] /\ marking \in [Device -> SUBSET Device]
    /\ \A d \in Device : sync[d] # NoSync => sync[d].out \cup sync[d].queue \subseteq Packet

\* Every variable has its shape, and the graph follows the table: an active lesson has its node, and
\* a node without an active lesson came with a peer's catalog (syncMemoryGraphOn, markPeerRevoked).
TypeOK ==
    /\ Shape
    /\ \A d \in Device, m \in Lesson :
          (row[d][m] # NoRow /\ row[d][m].status = "active") <=> m \in node[d] \ heard[d]

\* A device passes on only what its own user has recorded: what is held as a peer's lesson, or is on
\* its way from a device, was recorded there, whatever else brought the same lesson.
NoSecondHand ==
    \A d \in Device :
        /\ \A m \in Lesson : row[d][m] # NoRow => m \in recorded[row[d][m].from]
        /\ sync[d] # NoSync => \A p \in sync[d].out : p.m \in recorded[d]

\* Once a removal has retired what a device shared, nothing of it is active again, unless an exchange
\* with it was under way at the removal, the remover's own user has since written the lesson, or a
\* third device recorded the same: its packet wakes the row, which keeps its first origin.
RemovedStayQuiet ==
    \A d, e \in Device : \A m \in From(d, e) :
        (<<d, e>> \in scene.removes /\ e \notin active[d] \cup marking[d] \cup overlap[d])
        => \/ row[d][m].status # "active"
           \/ m \in touched[d]
           \/ \E x \in Device \ {d, e} : m \in recorded[x]

\* A lesson reaches every member its device can call, however cursors, clocks and lost calls fall.
LessonsSpread ==
    \A d \in Device : \A e \in Device \ {d}, m \in Lesson :
        (m \in Exportable(d) /\ d \in scene.syncs /\ <<d, e>> \in scene.dials)
        ~> (row[e][m] # NoRow \/ m \notin Exportable(d) \/ e \notin active[d] \/ d \notin active[e])
=============================================================================
