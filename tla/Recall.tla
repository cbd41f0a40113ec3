------------------------------- MODULE Recall -------------------------------
(***************************************************************************)
(* Looking up what Memories holds: the answer to a query, the index of     *)
(* peers' vectors it needs, and the decisions found in agents' transcripts *)
(* (db.go, recall_logic.go, graph.go, turbovec.go, span_index.go).         *)
(*                                                                         *)
(* Every command, every exchange and every call the listener answers opens *)
(* the store for itself, and with it a copy of the vector index.  A row is *)
(* committed first; then the copy, changed, is written whole, and once     *)
(* more when the store is closed.  Of the local index, which a lesson does *)
(* not need to be found, only what it may do to an answer is modelled.     *)
(* Scores, limits and the working memory are left out; so are a change of  *)
(* embedder and the rebuild it starts.                                     *)
(***************************************************************************)
EXTENDS Memories, Sequences

CONSTANTS
    Trait,     \* how lessons stand to the query: see IsTrait
    Alike,     \* pairs of lessons whose graph nodes mention the same thing, or supersede each other
    Filed,     \* the folder and kind each lesson is filed under in the graph
    Line,      \* the lines of a transcript: where each says "decided"
    Starter,   \* commands that start a session
    Search     \* scenes of this module: see IsSearch

\* words: it shares words with the query; near: its vector is near, and it names the same problem;
\* titled: its node's title or summary has a word of the query; critical: a rule that is always told.
IsTrait(t) == t \in [words : BOOLEAN, near : BOOLEAN, titled : BOOLEAN, critical : BOOLEAN]

\* asks: who looks things up, and how often; indexed: whose index is followed; visits: whose store is
\* opened at any time; scans: which sessions start; scene: what else happens.
IsSearch(s) ==
    s \in [asks : SUBSET Device, many : Nat, indexed : SUBSET Device, visits : SUBSET Device,
          scans : SUBSET Starter, scene : Scene]

ASSUME RecallAssumption ==
    /\ \A m \in Lesson : IsTrait(Trait[m])
    /\ Alike \subseteq Lesson \X Lesson /\ DOMAIN Filed = Lesson
    /\ Line \in Seq({"nowhere", "early", "across"})
    /\ NoRow \notin Row /\ "shut" \notin Lesson /\ Device \cap {"task", "look", "sync", "visit"} = {}
    /\ \A s \in Search : IsSearch(s)

VARIABLES
    search,   \* the scene; it never changes
    file,     \* file[d]: the lessons in the index of peers' vectors on disk
    copy,     \* copy[d][w]: the same as w, at work on d, has it in memory
    due,      \* due[d]: which of them has changed its copy, and for which lesson, and is yet to write it
    astray,   \* astray[d]: lessons indexed while other copies were open, or not for a stop (history)
    look,     \* d's lookup
    asked,    \* lookups so far
    log,      \* half lines in the transcript
    spans,    \* transcript_spans, by the half lines from and to
    mark,     \* the watermark
    scan,     \* scan[p]: what the starting session p has yet to do
    cut       \* lines that a scan has seen in part only (history)

index == <<file, copy, due, astray>>
lookup == <<look, asked>>
transcript == <<log, spans, mark, scan, cut>>
all == <<vars, search, index, lookup, transcript>>

-----------------------------------------------------------------------------
(* The index of peers' vectors *)

\* d's own: its command, its lookup, its exchange and whatever else opens the store, and the listener's
\* for a peer.
Worker == {"task", "look", "sync", "visit"} \cup Device
Shut   == {"shut"}
Open(d) == {w \in Worker : copy[d][w] # Shut}

\* Elsewhere a lookup may find any vectors.
Follows(d) == d \in search.indexed

\* A slip: the index is opened without what it holds.
OpensEmpty(d, w) ==
    copy[d][w] = Shut /\ copy' = IF Follows(d) THEN [copy EXCEPT ![d][w] = {}] ELSE copy

OpenTurboVec(d, w) ==
    copy[d][w] = Shut /\ copy' = IF Follows(d) THEN [copy EXCEPT ![d][w] = file[d]] ELSE copy

Opens(d, w) == OpenTurboVec(d, w) /\ UNCHANGED <<file, due, astray>>

Unwritten(d, w) == {m \in Lesson : <<w, m>> \in due[d]}

\* w has committed what became of the lessons s, and changes its copy, in memory, to new.
Changes(d, w, new, s) ==
    /\ IF Follows(d) THEN /\ copy' = [copy EXCEPT ![d][w] = new]
                          /\ due' = [due EXCEPT ![d] = @ \cup ({w} \X s)]
                     ELSE UNCHANGED <<copy, due>>
    /\ UNCHANGED <<file, astray>>

\* indexPersistedMemory, upsertPeerMemory: the origin is the one w had in hand.
Indexes(d, w, m, from) ==
    LET adds == IF from # d /\ row'[d][m].status = "active" /\ row'[d][m].hot THEN {m} ELSE {}
    IN  Changes(d, w, copy[d][w] \cup adds, adds)

Removes(d, w, s) == Changes(d, w, copy[d][w] \ s, s)

\* What w has put in its copy and not written.
Fresh(d, w) == Unwritten(d, w) \cap copy[d][w]

\* w writes its copy, over what others have written since it was opened.
SyncIndex(d, w) ==
    /\ Unwritten(d, w) # {}
    /\ file'   = [file EXCEPT ![d] = copy[d][w]]
    /\ due'    = [due EXCEPT ![d] = {p \in @ : p[1] # w}]
    /\ astray' = [astray EXCEPT ![d] = IF Open(d) = {w} THEN @ \ Fresh(d, w) ELSE @ \cup Fresh(d, w)]
    /\ UNCHANGED <<vars, search, copy, lookup, transcript>>

\* The process of w stops after the commit and before that.
StopsUnwritten(d, w) ==
    /\ Unwritten(d, w) # {}
    /\ copy'   = [copy EXCEPT ![d][w] = Shut]
    /\ due'    = [due EXCEPT ![d] = {p \in @ : p[1] # w}]
    /\ astray' = [astray EXCEPT ![d] = @ \cup Fresh(d, w)]
    /\ \/ w \in {"task", "visit"} /\ UNCHANGED vars
       \/ w = "sync" /\ ExchangeStops(d)
       \/ w \in Device /\ ListenerStops(d, w)
    /\ UNCHANGED <<search, file, lookup, transcript>>

\* Whether w still has to do with the store.
Busy(d, w) == CASE w = "task" -> task[d] # NoTask
                [] w = "sync" -> sync[d] # NoSync
                [] w = "look" -> look[d].at \in {"listed", "hits", "missing"}
                [] w = "visit" -> FALSE
                [] OTHER -> serve[d][w] # NoServe

\* Engine.Close writes the copy too.
Close(d, w) ==
    /\ copy[d][w] # Shut /\ ~Busy(d, w) /\ Unwritten(d, w) = {}
    /\ file' = [file EXCEPT ![d] = copy[d][w]]
    /\ copy' = [copy EXCEPT ![d][w] = Shut]
    /\ UNCHANGED <<vars, search, due, astray, lookup, transcript>>

\* A removal, the end of a session, a request of the dashboard or for the catalog opens the store.
Visit(d) ==
    /\ Follows(d) /\ (d \in search.visits \/ marking[d] # {})
    /\ Opens(d, "visit")
    /\ UNCHANGED <<vars, search, lookup, transcript>>

Visited(d) == Follows(d) => copy[d]["visit"] # Shut

-----------------------------------------------------------------------------
(* What Memories does, with the copies it opens and changes *)

Begins(d) == \E m \in Lesson : GetMemory(d, m) \/ RunGC(d, m)

\* What a command has in hand came from the row it read.
CommandWrites(d) ==
    LET it   == task[d].m
        from == IF task[d].saw = NoRow THEN d ELSE task[d].saw.from
    IN  /\ RecordMemory(d) \/ ValidateMemory(d)
        /\ Indexes(d, "task", it, from)

\* deleteMemory reads the row again.
CommandDeletes(d) ==
    LET it == task[d].m IN
    /\ DeleteMemory(d)
    /\ Removes(d, "task", IF row[d][it] # NoRow /\ row[d][it].from # d THEN {it} ELSE {})

\* Nothing else happens between the write of a row and that of the index.
Imports(d) ==
    /\ ImportPeerBatch(d) /\ Unwritten(d, "sync") = {}
    /\ IF sync[d].saw = {} THEN UNCHANGED index
       ELSE \E p \in sync[d].saw : Indexes(d, "sync", p.m, sync[d].peer)

Takes(e, d) ==
    /\ ImportPushedPackets(e, d) /\ Unwritten(e, d) = {}
    /\ IF serve[e][d].saw = {} THEN UNCHANGED index
       ELSE \E p \in serve[e][d].saw : Indexes(e, d, p.m, d)

Retires(d, e) ==
    /\ MarkPeerRevoked(d, e) /\ Visited(d) /\ Unwritten(d, "visit") = {}
    /\ Removes(d, "visit", From(d, e))

\* A lookup fetches in a step of its own.
Unasked(d) == d \notin search.asks \cup search.indexed

MemoriesMove ==
    /\ \/ \E d \in Device :
             \/ Begins(d) /\ Opens(d, "task")
             \/ CommandWrites(d) \/ CommandDeletes(d) \/ Imports(d)
             \/ SyncCirclePeers(d) /\ Opens(d, "sync")
             \/ RecordShareSyncReport(d) /\ sync[d].ids = {} /\ UNCHANGED index
             \/ ApplyPeerSyncResult(d) /\ Unwritten(d, "sync") = {} /\ UNCHANGED index
             \/ Unasked(d) /\ FetchMissingPeerPackets(d) /\ UNCHANGED index
             \/ Unasked(d) /\ RecordShareSyncReport(d) /\ sync[d].ids # {} /\ UNCHANGED index
             \/ \E m \in Lesson : ConsolidateSession(d, m) /\ Visited(d) /\ UNCHANGED index
       \/ \E d, e \in Device :
             \/ HandleSyncWire(d, e) /\ Opens(e, d)
             \/ Takes(e, d) \/ Retires(d, e)
             \/ BuildSyncResponse(e, d) /\ Unwritten(e, d) = {} /\ UNCHANGED index
             \/ (PeerTimeout(d, e) \/ ImportPeerCatalogs(d, e) \/ RevokeMember(d, e) \/ LearnRemoval(d, e))
                /\ UNCHANGED index
       \/ Tick /\ UNCHANGED index
    /\ UNCHANGED <<search, lookup, transcript>>

-----------------------------------------------------------------------------
(* A lookup reads the rows, then the circle, the index and the graph. *)

NoLook == [at |-> "idle"]

PeerEligible(d, r) == r.from \in active[d]

\* listActiveMemories.
ListActiveMemories(d) ==
    /\ d \in search.asks /\ look[d].at \in {"idle", "answered"} /\ asked < search.many
    /\ asked' = asked + 1
    /\ look' = [look EXCEPT ![d] = [at |-> "listed", rows |-> [m \in Hot(d) |-> row[d][m]],
                                    barred |-> Device \ active[d]]]
    /\ Opens(d, "look")
    /\ UNCHANGED <<vars, search, transcript>>

\* A lesson of the own: shared words, found by the full-text index or not, and a vector that, if it is
\* in the local index, may be too far away.
ShouldIncludeLocalRecall(m, found, indexed) ==
    \/ Trait[m].critical
    \/ m \in found
    \/ Trait[m].words /\ (m \in indexed => Trait[m].near)

\* A peer's lesson: only with a vector that is near.
ShouldIncludePeerRecall(m, vectors) == Trait[m].near /\ m \in vectors

\* partitionRecallMemories: the own, and those of peers that are still in the circle.
Own(d, rows)     == {m \in DOMAIN rows : rows[m].from = d}
OfPeers(d, rows) == {m \in DOMAIN rows : rows[m].from # d /\ PeerEligible(d, rows[m])}

\* The full-text index knows the rows of now, and may not know the words of the query.
FtsCandidates(d) == {m \in Lesson : Trait[m].words /\ row[d][m] # NoRow /\ row[d][m].status = "active"}

\* The vectors of what was found are compared, or, if that is nothing, all of them.
RecallLocalAllowIDs(found, own) == IF found \cap own # {} THEN found \cap own ELSE own

BuildLocalRecallResults(own, found, indexed) ==
    {m \in own : ShouldIncludeLocalRecall(m, found, indexed)}

BuildPeerRecallResults(peers, vectors) == {m \in peers : ShouldIncludePeerRecall(m, vectors)}

Vectors(d) == IF Follows(d) THEN {copy[d]["look"]} ELSE SUBSET Lesson

RecallHits(d, found, indexed, vectors) ==
    BuildLocalRecallResults(Own(d, look[d].rows), found, indexed)
    \cup BuildPeerRecallResults(OfPeers(d, look[d].rows), vectors)

RecallResults(d, hits) ==
    [at |-> "hits", shown |-> {<<m, look[d].rows[m].from>> : m \in hits}, missing |-> {}, barred |-> look[d].barred]

BuildRecallResults(d) ==
    /\ look[d].at = "listed"
    /\ \E found \in SUBSET FtsCandidates(d), vectors \in Vectors(d) :
       \E indexed \in SUBSET RecallLocalAllowIDs(found, Own(d, look[d].rows)) :
          look' = [look EXCEPT ![d] = RecallResults(d, RecallHits(d, found, indexed, vectors))]
    /\ UNCHANGED <<vars, search, index, asked, transcript>>

Shown(d)   == {h[1] : h \in look[d].shown}
Around(hits) == hits \cup {m \in Lesson : \E h \in hits : <<h, m>> \in Alike \/ <<m, h>> \in Alike}

\* A slip: a peer's lesson next to one that is shown is shown.
LoadsAnyNeighbor(d, ids) == {<<m, row[d][m].from>> : m \in (ids \cap Hot(d)) \ Shown(d)}

LoadGraphNeighborMemories(d, ids) ==
    {<<m, row[d][m].from>> : m \in {l \in (ids \cap Hot(d)) \ Shown(d) :
                                       row[d][l].from = d \/ PeerEligible(d, row[d][l])}}

GraphNeighborIDs(d) == Around(Shown(d)) \cap node[d]

\* The keys of a lesson's node put it under the same folder and kind as others.
Siblings(m) == {h \in Lesson : Filed[h] = Filed[m]}

\* The page index: hits and neighbours, and what is filed next to them.
PageIndexBranch(d) == node[d] \cap UNION {Siblings(h) : h \in GraphNeighborIDs(d)}

UnresolvedPageIndexIDs(d) == {m \in PageIndexBranch(d) : row[d][m] = NoRow /\ Trait[m].titled}

ExpandGraph(d) ==
    LET missing == UnresolvedPageIndexIDs(d)
    IN  /\ look[d].at = "hits"
        /\ look' = [look EXCEPT ![d].at = IF missing = {} THEN "answered" ELSE "missing",
                                ![d].shown = @ \cup LoadGraphNeighborMemories(d, GraphNeighborIDs(d)),
                                ![d].missing = missing]
        /\ UNCHANGED <<vars, search, index, asked, transcript>>

\* What has no row is asked of the peers, in an exchange that uses the lookup's copy.
FetchMissing(d) ==
    /\ look[d].at = "missing"
    /\ Exchange(d, look[d].missing, 0, {})
    /\ look' = [look EXCEPT ![d].at = "fetching"]
    /\ copy[d]["sync"] = Shut
    /\ copy' = [copy EXCEPT ![d]["sync"] = copy[d]["look"], ![d]["look"] = Shut]
    /\ UNCHANGED <<search, file, due, astray, asked, transcript>>

RecallEnds(d) ==
    /\ look[d].at = "fetching" /\ RecordShareSyncReport(d)
    /\ look' = [look EXCEPT ![d].at = "answered",
                            ![d].shown = @ \cup LoadGraphNeighborMemories(d, look[d].missing)]
    /\ UNCHANGED <<search, index, asked, transcript>>

-----------------------------------------------------------------------------
(* Transcripts.  The agent appends; every session that starts scans what   *)
(* is new.  A line is two halves long.                                     *)

LineOf(h) == (h + 1) \div 2
NoScan == [at |-> "idle"]

AgentWrites ==
    /\ search.scans # {} /\ log < 2 * Len(Line)
    /\ log' = log + 1
    /\ UNCHANGED <<vars, search, index, lookup, spans, mark, scan, cut>>

StatTranscript(p) ==
    /\ p \in search.scans /\ scan[p] = NoScan /\ log > mark
    /\ scan' = [scan EXCEPT ![p] = [at |-> "sized", size |-> log]]
    /\ UNCHANGED <<vars, search, index, lookup, log, spans, mark, cut>>

\* Whether what lies between half lines from and to of line k says that something was decided.
DecisionShaped(k, from, to) == \/ Line[k] = "early"  /\ 2 * k - 1 \in from..to
                               \/ Line[k] = "across" /\ {2 * k - 1, 2 * k} \subseteq from..to

SpansFromTail(old, size) ==
    {s \in (old + 1..size) \X (old + 1..size) :
        LET h == s[1]  t == s[2] IN
        /\ LineOf(h) = LineOf(t) /\ DecisionShaped(LineOf(h), h, t)
        /\ h = old + 1 \/ LineOf(h - 1) # LineOf(h)
        /\ t = size \/ LineOf(t + 1) # LineOf(t)}

ReadTail(p) ==
    /\ scan[p].at = "sized"
    /\ LET size == scan[p].size IN
       IF size <= mark THEN scan' = [scan EXCEPT ![p] = NoScan] /\ cut' = cut
       ELSE /\ scan' = [scan EXCEPT ![p] = [at |-> "read", size |-> size, todo |-> SpansFromTail(mark, size)]]
            /\ cut'  = cut \cup {LineOf(h) : h \in {k \in {mark, size} : k % 2 = 1}}
    /\ UNCHANGED <<vars, search, index, lookup, log, spans, mark>>

InsertSpan(p) ==
    /\ scan[p].at = "read"
    /\ \E s \in scan[p].todo : spans' = spans \cup {s} /\ scan' = [scan EXCEPT ![p].todo = @ \ {s}]
    /\ UNCHANGED <<vars, search, index, lookup, log, mark, cut>>

\* An insert fails, or the command is stopped: what is in stays, the watermark too.
ScanFails(p) ==
    /\ scan[p].at = "read"
    /\ scan' = [scan EXCEPT ![p] = NoScan]
    /\ UNCHANGED <<vars, search, index, lookup, log, spans, mark, cut>>

\* A slip: the watermark goes to where the transcript ends by now.
MarksTheEnd(p) ==
    /\ scan[p].at = "read" /\ scan[p].todo = {}
    /\ mark' = log
    /\ scan' = [scan EXCEPT ![p] = NoScan]
    /\ UNCHANGED <<vars, search, index, lookup, log, spans, cut>>

SetWatermark(p) ==
    /\ scan[p].at = "read" /\ scan[p].todo = {}
    /\ mark' = scan[p].size
    /\ scan' = [scan EXCEPT ![p] = NoScan]
    /\ UNCHANGED <<vars, search, index, lookup, log, spans, cut>>

\* A lookup that no recorded decision answers gets hints: the spans that can still be read.
SpanBoundsOK(s) == s[1] <= s[2] /\ s[2] <= log
MatchingSpanHints == {s \in spans : SpanBoundsOK(s)}

-----------------------------------------------------------------------------
RecallInit ==
    /\ search \in Search /\ Init /\ scene = search.scene
    /\ file  = [d \in Device |-> {}]
    /\ copy  = [d \in Device |-> [w \in Worker |-> Shut]]
    /\ due   = [d \in Device |-> {}]
    /\ astray = [d \in Device |-> {}]
    /\ look  = [d \in Device |-> NoLook] /\ asked = 0
    /\ log = 0 /\ spans = {} /\ mark = 0 /\ cut = {}
    /\ scan = [p \in Starter |-> NoScan]

RecallNext ==
    \/ MemoriesMove
    \/ \E d \in Device, w \in Worker : SyncIndex(d, w) \/ StopsUnwritten(d, w) \/ Close(d, w)
    \/ \E d \in Device : \/ Visit(d) \/ ListActiveMemories(d) \/ BuildRecallResults(d) \/ ExpandGraph(d)
                         \/ FetchMissing(d) \/ RecallEnds(d)
    \/ AgentWrites
    \/ \E p \in Starter : StatTranscript(p) \/ ReadTail(p) \/ InsertSpan(p) \/ ScanFails(p) \/ SetWatermark(p)

RecallSpec     == RecallInit /\ [][RecallNext]_all
RecallFairSpec == RecallSpec /\ Fairness

-----------------------------------------------------------------------------
(* Properties *)

\* The types of Memories, of the copies and of the transcript's rows.
RecallTypeOK ==
    /\ TypeOK /\ IsSearch(search)
    /\ \A d \in Device : /\ file[d] \subseteq Lesson /\ astray[d] \subseteq Lesson
                         /\ due[d] \subseteq Worker \X Lesson
    /\ copy \in [Device -> [Worker -> (SUBSET Lesson) \cup {Shut}]]
    /\ mark \in 0..log /\ spans \subseteq (1..log) \X (1..log)

\* A removed device falls silent: what it shared is retired for good (see RemovedStayQuiet), and a lookup
\* begun once it is out of the circle shows nothing of it, in the graph's neighbourhood either, even
\* where its rows were never retired: only who removes a device retires them.  A device that was
\* removed itself still finds its own.
RemovedNotRecalled ==
    \A d \in Device : look[d].at \in {"hits", "missing", "fetching", "answered"} =>
        \A h \in look[d].shown : h[2] \notin look[d].barred \ {d}
RemovedFallSilent == RemovedStayQuiet /\ RemovedNotRecalled

\* A peer's lesson without a vector is never found.  Each lesson a device may show has one, unless who
\* committed it is about to write it, stopped before it had, or wrote it while another had a copy open,
\* which is written back.
PeersCanBeFound ==
    \A d \in search.indexed : \A m \in Hot(d) :
        row[d][m].from # d => m \in file[d] \cup astray[d] \/ \E w \in Worker : m \in Fresh(d, w)

\* Whatever scans overlap, fail, or fall behind, a line that says what was decided has its span once
\* the watermark has passed it, and can be told, but for one that a scan has cut where it says so.
NothingOverlooked ==
    \A k \in DOMAIN Line : 2 * k <= mark /\ Line[k] # "nowhere" =>
        (\E s \in MatchingSpanHints : DecisionShaped(k, s[1], s[2])) \/ (Line[k] = "across" /\ k \in cut)

\* What is there can be found: lessons and decisions.
CanBeFound == PeersCanBeFound /\ NothingOverlooked
=============================================================================
