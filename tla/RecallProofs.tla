---------------------------- MODULE RecallProofs ----------------------------
(***************************************************************************)
(* Proofs about Recall, and with it about Memories: for any devices,       *)
(* lessons, transcripts and scenes.  The stores and exchanges (Memory)     *)
(* need nothing of lookups, the index or the transcript, so each has its   *)
(* part of the invariant and its own lemma that a step keeps it; Memory's  *)
(* are for MemoryStep, which allows any exchange a lookup may ask for.     *)
(***************************************************************************)
EXTENDS Recall, TLAPS

-----------------------------------------------------------------------------
(***************************************************************************)
(* The invariant, part by part.                                            *)
(***************************************************************************)

Order   == [what : {"record", "validate", "collect"}, m : Lesson, saw : Row \cup {NoRow}]
Session == [at : {"ready", "asking", "importing"}, ids : SUBSET Lesson, since : 0..MaxClock,
            out : SUBSET Packet, roster : SUBSET Device, todo : SUBSET Device,
            peer : Device \cup {Nobody}, queue : SUBSET Packet, saw : SUBSET Packet, now : 0..MaxClock]
Answer  == [at : {"importing"}, ids : SUBSET Lesson, since : 0..MaxClock,
            queue : SUBSET Packet, saw : SUBSET Packet, open : BOOLEAN]

\* What is under way, a command, an exchange or an answer, is well formed.
Forms ==
    /\ task \in [Device -> Order \cup {NoTask}]
    /\ left \in [Device -> Nat]
    /\ sync \in [Device -> Session \cup {NoSync}]
    /\ serve \in [Device -> [Device -> Answer \cup {NoServe}]]
    /\ recorded \in [Device -> SUBSET Lesson] /\ touched \in [Device -> SUBSET Lesson]
    /\ overlap \in [Device -> SUBSET Device]
    /\ clock <= scene.seconds
    /\ \A d \in Device : task[d] # NoTask /\ task[d].what = "validate" => task[d].saw # NoRow

\* The graph follows the table, row by row.
Follow ==
    \A d \in Device, m \in Lesson :
        (row[d][m] # NoRow /\ row[d][m].status = "active") <=> m \in node[d] \ heard[d]

\* Who calls whom: an answer that is still wanted is the one its caller waits for, nothing is in hand
\* while a call is out, and no device calls itself.
CallsOf(d) ==
    /\ sync[d] # NoSync =>
          /\ d \notin sync[d].todo /\ d # sync[d].peer
          /\ sync[d].at = "ready" => sync[d].peer = Nobody
          /\ sync[d].at # "ready" => sync[d].peer \in sync[d].todo
          /\ sync[d].at # "importing" => sync[d].queue = {} /\ sync[d].saw = {}
    /\ serve[d][d] = NoServe
    /\ \A e \in Device :
          (serve[e][d] # NoServe /\ serve[e][d].open)
          <=> (sync[d] # NoSync /\ sync[d].at = "asking" /\ sync[d].peer = e)

Calls == \A d \in Device : CallsOf(d)

\* Whose lessons they are: those in a table, in the row a command holds, and on their way.
Origins ==
    \A d \in Device :
        /\ \A m \in Lesson : row[d][m] # NoRow => m \in recorded[row[d][m].from]
        /\ task[d] # NoTask /\ task[d].saw # NoRow => task[d].m \in recorded[task[d].saw.from]
        /\ sync[d] # NoSync =>
              /\ \A p \in sync[d].out : p.m \in recorded[d]
              /\ sync[d].at = "importing" =>
                    \A p \in sync[d].queue \cup sync[d].saw : p.m \in recorded[sync[d].peer]
        /\ \A e \in Device : serve[e][d] # NoServe =>
              \A p \in serve[e][d].queue \cup serve[e][d].saw : p.m \in recorded[d]

\* No exchange with a removed device is under way but those its removal met.
Parted ==
    \A d, e \in Device :
        <<d, e>> \in scene.removes /\ e \notin active[d] \cup overlap[d] => ~Exchanging(d, e)

\* An import has read the row of one packet at most.
OneSeen(s) == \A p, q \in s.saw : p = q

OneByOne ==
    \A d \in Device : /\ sync[d] # NoSync => OneSeen(sync[d])
                      /\ \A e \in Device : serve[e][d] # NoServe => OneSeen(serve[e][d])

Memory == Shape /\ Forms /\ Follow /\ Calls /\ OneByOne /\ Origins /\ Parted /\ RemovedStayQuiet

Listing(l) ==
    \E s \in SUBSET Lesson : l \in [at : {"listed"}, rows : [s -> Row], barred : SUBSET Device]
Finding == [at : {"hits", "missing", "fetching", "answered"}, shown : SUBSET (Lesson \X Device),
            missing : SUBSET Lesson, barred : SUBSET Device]

\* A lookup is well formed, and who was out of the circle when it began still is.
Looks ==
    /\ look = [d \in Device |-> look[d]]
    /\ \A d \in Device : look[d] = NoLook \/ Listing(look[d]) \/ look[d] \in Finding
    /\ \A d \in Device : look[d] # NoLook => look[d].barred \cap active[d] = {}
    /\ RemovedNotRecalled

Opened(d, w) == copy[d][w] \in SUBSET Lesson /\ copy[d][w] # Shut

\* What is yet to be written is in a copy, and never in a lookup's.
CopyForms ==
    /\ file \in [Device -> SUBSET Lesson] /\ astray \in [Device -> SUBSET Lesson]
    /\ copy \in [Device -> [Worker -> (SUBSET Lesson) \cup {Shut}]]
    /\ due \in [Device -> SUBSET (Worker \X Lesson)]
    /\ \A d \in Device : /\ Unwritten(d, "look") = {}
                        /\ \A w \in Worker : Unwritten(d, w) # {} => Opened(d, w)

\* Who works with the index has a copy of it; a command changes its own last.
HasCopies(d) ==
    /\ task[d] # NoTask => Opened(d, "task") /\ Unwritten(d, "task") = {}
    /\ sync[d] # NoSync => Opened(d, "sync")
    /\ look[d].at \in {"listed", "hits", "missing"} => Opened(d, "look")
    /\ \A e \in Device : serve[d][e] # NoServe => Opened(d, e)

\* Lessons that went astray, or that somebody is about to write.
Loose(d) == astray[d] \cup {m \in Lesson : \E w \in Worker : m \in Fresh(d, w)}

\* What the file and every copy hold.
Held(d) ==
    \A m \in Hot(d) \ Loose(d) :
        row[d][m].from # d => /\ m \in file[d]
                              /\ \A w \in Worker : copy[d][w] # Shut => m \in copy[d][w]

\* A row that came up behind a command's back was indexed next to its copy; one it has read stays.
InHand(d) ==
    task[d] # NoTask =>
        LET r == row[d][task[d].m]  saw == task[d].saw IN
        /\ saw = NoRow /\ r # NoRow /\ r.from # d => task[d].m \in Loose(d)
        /\ saw # NoRow => r # NoRow /\ r.from = saw.from

IndexOf(d) == HasCopies(d) /\ Held(d) /\ InHand(d)

Index == CopyForms /\ \A d \in search.indexed : IndexOf(d)

Cut(sp, from, to) == \E s \in sp : SpanBoundsOK(s) /\ s[1] <= from /\ to <= s[2]

\* Every line that says something up to the half line upto has a span, or was cut where it says so.
Told(sp, upto) ==
    \A k \in DOMAIN Line :
        /\ Line[k] = "early" /\ 2 * k - 1 <= upto => Cut(sp, 2 * k - 1, 2 * k - 1)
        /\ Line[k] = "across" /\ 2 * k <= upto => Cut(sp, 2 * k - 1, 2 * k) \/ k \in cut

Sized   == [at : {"sized"}, size : Nat]
Reading == [at : {"read"}, size : Nat, todo : SUBSET (Nat \X Nat)]

Marked == Told(spans, mark)

\* What a scan has yet to insert would tell all up to where it has read.
ScanOK(s) ==
    s # NoScan => /\ s.size <= log
                  /\ s.at = "read" => s.todo \subseteq (1..log) \X (1..log) /\ Told(spans \cup s.todo, s.size)

Transcript ==
    /\ log \in Nat /\ mark \in 0..log /\ spans \subseteq (1..log) \X (1..log)
    /\ scan \in [Starter -> {NoScan} \cup Sized \cup Reading]
    /\ Marked
    /\ \A p \in Starter : ScanOK(scan[p])

Everything == Memory /\ IsSearch(search) /\ scene = search.scene /\ Looks /\ Index /\ Transcript

-----------------------------------------------------------------------------
(* Forms *)

\* What is idle is told from what is under way by where it is.
LEMMA Blanks ==
    /\ NoTask.what = "none" /\ NoSync.at = "idle" /\ NoServe.at = "idle" /\ NoLook.at = "idle"
    /\ NoSync \notin Session /\ NoServe \notin Answer /\ NoTask \notin Order
    /\ NoLook \notin Finding /\ ~Listing(NoLook)
<1>1. NoTask.what = "none" /\ NoSync.at = "idle" /\ NoServe.at = "idle" /\ NoLook.at = "idle"
  BY DEF NoTask, NoSync, NoServe, NoLook
<1>2. /\ \A s \in Session : s.at # "idle"
      /\ \A s \in Answer : s.at # "idle"
      /\ \A s \in Order : s.what # "none"
      /\ \A s \in Finding : s.at # "idle"
  BY DEF Session, Answer, Order, Finding
<1>3. ~Listing(NoLook)
  BY <1>1 DEF Listing
<1> QED BY <1>1, <1>2, <1>3

\* What is not idle has its fields.
LEMMA Ongoing ==
    ASSUME Forms, NEW d \in Device
    PROVE  /\ sync[d] # NoSync <=> sync[d] \in Session
           /\ sync[d].at # "idle" <=> sync[d] \in Session
           /\ task[d] # NoTask <=> task[d] \in Order
           /\ task[d].what # "none" <=> task[d] \in Order
           /\ \A e \in Device : /\ serve[d][e] # NoServe <=> serve[d][e] \in Answer
                                /\ serve[d][e].at # "idle" <=> serve[d][e] \in Answer
<1>1. /\ \A s \in Session : s.at # "idle"
      /\ \A s \in Answer : s.at # "idle"
      /\ \A s \in Order : s.what # "none"
  BY DEF Session, Answer, Order
<1> QED BY <1>1, Blanks DEF Forms

\* The rows a command makes are rows, and keep where they came from.
LEMMA Rows ==
    ASSUME NEW r \in Row
    PROVE  /\ EvidenceScore(r) \in Nat
           /\ Scored(r) \in Row /\ Scored(r).from = r.from
           /\ Succeeded(r) \in Row /\ Succeeded(r).from = r.from
           /\ Contradicted(r) \in Row /\ Contradicted(r).from = r.from
           /\ \A d \in Device, low \in BOOLEAN : Failed(d, r, low) \in Row /\ Failed(d, r, low).from = r.from
           /\ \A t \in 0..MaxClock : [r EXCEPT !.at = t] \in Row /\ [r EXCEPT !.at = t].from = r.from
<1>1. EvidenceScore(r) \in Nat
  BY DEF EvidenceScore, Row
<1>2. Scored(r) \in Row /\ Scored(r).from = r.from
  BY <1>1 DEF Scored, Row
<1>3. Succeeded(r) \in Row /\ Succeeded(r).from = r.from
  <2>1. PICK n \in Nat : n = r.good + 1
    BY DEF Row
  <2>2. Succeeded(r) = [r EXCEPT !.good = n, !.status = "active", !.hot = TRUE]
    BY <2>1 DEF Succeeded
  <2> QED BY <2>2 DEF Row
<1>4. Contradicted(r) \in Row /\ Contradicted(r).from = r.from
  <2>1. PICK n \in Nat : n = r.bad + 1
    BY DEF Row
  <2>2. Contradicted(r) = [r EXCEPT !.bad = n, !.status = "deprecated"]
    BY <2>1 DEF Contradicted
  <2> QED BY <2>2 DEF Row
<1>5. ASSUME NEW d \in Device, NEW low \in BOOLEAN
      PROVE  Failed(d, r, low) \in Row /\ Failed(d, r, low).from = r.from
  <2>1. PICK n \in Nat : n = r.bad + 1
    BY DEF Row
  <2>2. PICK h \in BOOLEAN : h = (r.hot /\ r.from = d)
    OBVIOUS
  <2>3. PICK st \in {"active", "stale", "deprecated"} : st = IF low THEN "stale" ELSE r.status
    BY DEF Row
  <2>4. Failed(d, r, low) = [r EXCEPT !.bad = n, !.hot = h, !.status = st]
    BY <2>1, <2>2, <2>3 DEF Failed
  <2> QED BY <2>4 DEF Row
<1>6. \A t \in 0..MaxClock : [r EXCEPT !.at = t] \in Row /\ [r EXCEPT !.at = t].from = r.from
  BY DEF Row
<1> QED BY <1>1, <1>2, <1>3, <1>4, <1>5, <1>6

\* A recorded lesson makes a row, of the own or of where the row read came from.
LEMMA RecordedRows ==
    ASSUME Shape, NEW d \in Device, NEW say \in scene.says
    PROVE  /\ Inserted(d, say) \in Row /\ Inserted(d, say).from = d
           /\ \A r \in Row : Merged(r, say) \in Row /\ Merged(r, say).from = r.from
<1>1. say.words \in BOOLEAN /\ say.positive \in BOOLEAN /\ clock \in 0..MaxClock
  BY DEF Shape, IsScene
<1>2. Inserted(d, say) \in Row /\ Inserted(d, say).from = d
  BY <1>1 DEF Inserted, Row
<1>3. ASSUME NEW r \in Row
      PROVE  Merged(r, say) \in Row /\ Merged(r, say).from = r.from
  <2>1. PICK n \in Nat : n = IF say.positive THEN r.good + 1 ELSE r.good
    BY DEF Row
  <2>2. PICK t \in BOOLEAN : t = (r.text \/ say.words)
    OBVIOUS
  <2>3. Merged(r, say) = [r EXCEPT !.status = "active", !.hot = TRUE, !.at = clock, !.good = n, !.text = t]
    BY <2>1, <2>2 DEF Merged
  <2> QED BY <1>1, <2>3 DEF Row
<1> QED BY <1>2, <1>3

\* So does an import.
LEMMA ImportedRows ==
    ASSUME NEW old \in Row \cup {NoRow}, NEW p \in Packet, NEW peer \in Device
    PROVE  LET r == PeerUpserted(old, p, peer) IN
           /\ r \in Row /\ r.status = "active" /\ r.hot
           /\ r.from = IF old = NoRow THEN peer ELSE old.from
BY DEF PeerUpserted, Row, Packet

\* Writing one row leaves the others, and keeps the graph in line.
LEMMA Writes ==
    ASSUME Shape, NEW d \in Device, NEW m \in Lesson, NEW r \in Row \cup {NoRow}, Write(d, m, r)
    PROVE  /\ row' \in [Device -> [Lesson -> Row \cup {NoRow}]]
           /\ node' \in [Device -> SUBSET Lesson] /\ heard' \in [Device -> SUBSET Lesson]
           /\ row'[d][m] = r
           /\ \A x \in Device, l \in Lesson : x # d \/ l # m => row'[x][l] = row[x][l]
           /\ Follow => Follow'
<1> DEFINE n == IF r # NoRow /\ r.status = "active" THEN UpsertGraphNode(d, m) ELSE RemoveMemoryGraph(d, m)
<1>1. /\ row \in [Device -> [Lesson -> Row \cup {NoRow}]]
      /\ node \in [Device -> SUBSET Lesson] /\ heard \in [Device -> SUBSET Lesson]
  BY DEF Shape
<1>2. n \subseteq Lesson /\ n = IF r # NoRow /\ r.status = "active" THEN node[d] \cup {m} ELSE node[d] \ {m}
  BY <1>1 DEF UpsertGraphNode, RemoveMemoryGraph
<1>3. /\ row' = [row EXCEPT ![d] = [row[d] EXCEPT ![m] = r]]
      /\ node' = [node EXCEPT ![d] = n] /\ heard' = [heard EXCEPT ![d] = heard[d] \ {m}]
  BY DEF Write
<1> HIDE DEF n
<1>4. row' \in [Device -> [Lesson -> Row \cup {NoRow}]]
  BY <1>1, <1>3
<1>5. /\ row'[d][m] = r
      /\ \A x \in Device, l \in Lesson : x # d \/ l # m => row'[x][l] = row[x][l]
  BY <1>1, <1>3
<1>6. node' \in [Device -> SUBSET Lesson] /\ heard' \in [Device -> SUBSET Lesson]
  BY <1>1, <1>2, <1>3
<1>7. /\ node'[d] = n /\ heard'[d] = heard[d] \ {m}
      /\ \A x \in Device : x # d => node'[x] = node[x] /\ heard'[x] = heard[x]
  BY <1>1, <1>3
<1>8. ASSUME Follow PROVE Follow'
  <2> SUFFICES ASSUME NEW x \in Device, NEW l \in Lesson
               PROVE  ((row[x][l] # NoRow /\ row[x][l].status = "active") <=> l \in node[x] \ heard[x])'
    BY DEF Follow
  <2>1. (row[x][l] # NoRow /\ row[x][l].status = "active") <=> l \in node[x] \ heard[x]
    BY <1>8 DEF Follow
  <2>2. CASE x # d
    BY <2>1, <2>2, <1>5, <1>7
  <2>3. CASE x = d /\ l # m
    BY <2>1, <2>3, <1>2, <1>5, <1>7
  <2>4. CASE x = d /\ l = m
    BY <2>4, <1>2, <1>5, <1>7
  <2> QED BY <2>2, <2>3, <2>4
<1> QED BY <1>4, <1>5, <1>6, <1>8

\* What goes out is well formed and the sender's own.
LEMMA Sent ==
    ASSUME Shape, NEW d \in Device
    PROVE  /\ \A since : /\ Packets(d, since) \subseteq Packet
                         /\ Origins => \A p \in Packets(d, since) : p.m \in recorded[d]
           /\ \A ids : /\ Requested(d, ids) \subseteq Packet
                       /\ Origins => \A p \in Requested(d, ids) : p.m \in recorded[d]
<1>1. ASSUME NEW l \in Exportable(d)
      PROVE  /\ l \in Lesson /\ row[d][l] # NoRow /\ row[d][l] \in Row /\ row[d][l].from = d
             /\ [m |-> l, ev |-> row[d][l].ev, at |-> row[d][l].at] \in Packet
  <2>1. l \in Lesson /\ row[d][l] # NoRow /\ row[d][l].from = d
    BY DEF Exportable, Hot
  <2>2. row[d][l] \in Row
    BY <2>1 DEF Shape
  <2> QED BY <2>1, <2>2 DEF Row, Packet
<1>2. ASSUME NEW since
      PROVE  /\ Packets(d, since) \subseteq Packet
             /\ Origins => \A p \in Packets(d, since) : p.m \in recorded[d]
  <2>1. ASSUME NEW p \in Packets(d, since)
        PROVE  \E l \in Exportable(d) : p = [m |-> l, ev |-> row[d][l].ev, at |-> row[d][l].at]
    BY DEF Packets
  <2> QED BY <1>1, <2>1 DEF Origins
<1>3. \A ids : Requested(d, ids) \subseteq Packets(d, 0)
  BY DEF Requested
<1> QED BY <1>2, <1>3

-----------------------------------------------------------------------------
(* What each step does *)

\* A command reads a row.
LEMMA BeginFrame ==
    ASSUME Shape, Forms, NEW d \in Device, NEW m \in Lesson,
           GetMemory(d, m) \/ RunGC(d, m)
    PROVE  /\ task' \in [Device -> Order \cup {NoTask}] /\ left' \in [Device -> Nat]
           /\ \A x \in Device : x # d => task'[x] = task[x]
           /\ task[d] = NoTask /\ task'[d] \in Order
           /\ task'[d].m = m /\ task'[d].saw = row[d][m]
           /\ task'[d].what = "validate" => row[d][m] # NoRow
           /\ UNCHANGED <<scene, stores, sync, serve, cursor, circle, clock, history>>
<1>1. \E what \in {"record", "validate", "collect"} :
         Begin(d, m, what) /\ (what = "validate" => row[d][m] # NoRow)
  BY DEF GetMemory, RunGC
<1>2. PICK what \in {"record", "validate", "collect"} :
         Begin(d, m, what) /\ (what = "validate" => row[d][m] # NoRow)
  BY <1>1
<1>3. [what |-> what, m |-> m, saw |-> row[d][m]] \in Order
  BY DEF Order, Shape
<1>4. /\ task[d] = NoTask /\ left[d] > 0
      /\ task' = [task EXCEPT ![d] = [what |-> what, m |-> m, saw |-> row[d][m]]]
      /\ left' = [left EXCEPT ![d] = left[d] - 1]
      /\ UNCHANGED <<scene, stores, sync, serve, cursor, circle, clock, history>>
  BY <1>2 DEF Begin
<1>5. left' \in [Device -> Nat]
  BY <1>4 DEF Forms
<1> QED BY <1>2, <1>3, <1>4, <1>5 DEF Forms

\* A command ends with one row written: its user's lesson, or what was already somebody's.
LEMMA CommandFrame ==
    ASSUME Shape, Forms, Origins, NEW d \in Device,
           RecordMemory(d) \/ ValidateMemory(d) \/ DeleteMemory(d)
    PROVE  /\ task[d] \in Order /\ task' = [task EXCEPT ![d] = NoTask]
           /\ touched' = [touched EXCEPT ![d] = touched[d] \cup {task[d].m}]
           /\ recorded' \in [Device -> SUBSET Lesson]
           /\ \A x \in Device : recorded[x] \subseteq recorded'[x]
           /\ \E r \in Row \cup {NoRow} :
                 /\ Write(d, task[d].m, r)
                 /\ DeleteMemory(d) => r = NoRow
                 /\ r # NoRow =>
                       /\ task[d].m \in recorded'[r.from]
                       /\ r.from = IF row[d][task[d].m] # NoRow THEN row[d][task[d].m].from
                                   ELSE IF task[d].saw = NoRow THEN d ELSE task[d].saw.from
           /\ UNCHANGED <<scene, left, sync, serve, cursor, circle, clock, overlap>>
<1>1. task[d] \in Order
  BY Ongoing DEF RecordMemory, ValidateMemory, DeleteMemory
<1> DEFINE it == task[d].m  saw == task[d].saw  old == row[d][it]
<1>2. /\ it \in Lesson /\ saw \in Row \cup {NoRow} /\ old \in Row \cup {NoRow} /\ clock \in 0..MaxClock
      /\ task[d].what \in {"record", "validate", "collect"}
  BY <1>1 DEF Order, Shape
<1>3. /\ old # NoRow => it \in recorded[old.from]
      /\ saw # NoRow => it \in recorded[saw.from]
  BY <1>1, <1>2, Ongoing DEF Origins
<1>4. \A r \in Row : /\ Persisted(old, r) \in Row
                     /\ Persisted(old, r).from = IF old = NoRow THEN r.from ELSE old.from
  BY <1>2 DEF Persisted, Row
<1>5. task' = [task EXCEPT ![d] = NoTask] /\ touched' = [touched EXCEPT ![d] = touched[d] \cup {it}]
  BY DEF RecordMemory, ValidateMemory, DeleteMemory, Done
<1>6. CASE RecordMemory(d)
  <2>1. PICK say \in scene.says :
           Write(d, it, Persisted(old, Scored(IF saw = NoRow THEN Inserted(d, say) ELSE Merged(saw, say))))
    BY <1>6 DEF RecordMemory
  <2>2. /\ recorded' = [recorded EXCEPT ![d] = recorded[d] \cup {it}]
        /\ UNCHANGED <<scene, left, sync, serve, cursor, circle, clock, overlap>>
    BY <1>6 DEF RecordMemory
  <2>3. PICK r \in Row : /\ r = IF saw = NoRow THEN Inserted(d, say) ELSE Merged(saw, say)
                         /\ r.from = IF saw = NoRow THEN d ELSE saw.from
    BY <1>2, RecordedRows
  <2>4. Scored(r) \in Row /\ Scored(r).from = r.from
    BY Rows
  <2>5. PICK q \in Row : /\ q = Persisted(old, Scored(r))
                         /\ q.from = IF old = NoRow THEN r.from ELSE old.from
    BY <1>4, <2>4
  <2>6. recorded' \in [Device -> SUBSET Lesson] /\ it \in recorded'[d]
        /\ \A x \in Device : recorded[x] \subseteq recorded'[x]
    BY <1>2, <2>2 DEF Forms
  <2>7. it \in recorded'[q.from]
    <3>1. CASE old = NoRow /\ saw = NoRow
      BY <2>3, <2>5, <2>6, <3>1
    <3>2. CASE old = NoRow /\ saw # NoRow
      <4>1. saw.from \in Device
        BY <1>2, <3>2 DEF Row
      <4> QED BY <1>3, <2>3, <2>5, <2>6, <3>2, <4>1
    <3>3. CASE old # NoRow
      <4>1. old.from \in Device
        BY <1>2, <3>3 DEF Row
      <4> QED BY <1>3, <2>5, <2>6, <3>3, <4>1
    <3> QED BY <3>1, <3>2, <3>3
  <2>8. ~DeleteMemory(d)
    BY <1>6 DEF RecordMemory, DeleteMemory
  <2>9. Write(d, it, q)
    BY <2>1, <2>3, <2>5
  <2>10. q.from = IF old # NoRow THEN old.from ELSE IF saw = NoRow THEN d ELSE saw.from
    BY <2>3, <2>5
  <2> QED BY <1>1, <1>5, <2>2, <2>6, <2>7, <2>8, <2>9, <2>10
<1>7. CASE ValidateMemory(d)
  <2>1. saw \in Row /\ saw # NoRow
    BY <1>1, <1>2, <1>7, Ongoing DEF ValidateMemory, Forms
  <2>2. /\ \E s \in {Succeeded(saw), Failed(d, saw, TRUE), Failed(d, saw, FALSE), Contradicted(saw)} :
              Write(d, it, Persisted(old, [Scored(s) EXCEPT !.at = clock]))
        /\ UNCHANGED <<scene, left, sync, serve, cursor, circle, clock, recorded, overlap>>
    BY <1>7 DEF ValidateMemory
  <2>3. PICK s \in {Succeeded(saw), Failed(d, saw, TRUE), Failed(d, saw, FALSE), Contradicted(saw)} :
           Write(d, it, Persisted(old, [Scored(s) EXCEPT !.at = clock]))
    BY <2>2
  <2>4. s \in Row /\ s.from = saw.from
    <3>1. \A low \in BOOLEAN : Failed(d, saw, low) \in Row /\ Failed(d, saw, low).from = saw.from
      BY <2>1, Rows
    <3>2. /\ Failed(d, saw, TRUE) \in Row /\ Failed(d, saw, TRUE).from = saw.from
          /\ Failed(d, saw, FALSE) \in Row /\ Failed(d, saw, FALSE).from = saw.from
      BY <3>1
    <3>3. /\ Succeeded(saw) \in Row /\ Succeeded(saw).from = saw.from
          /\ Contradicted(saw) \in Row /\ Contradicted(saw).from = saw.from
      BY <2>1, Rows
    <3> QED BY <2>3, <3>2, <3>3
  <2>5. Scored(s) \in Row /\ Scored(s).from = saw.from
    BY <2>4, Rows
  <2>6. [Scored(s) EXCEPT !.at = clock] \in Row /\ [Scored(s) EXCEPT !.at = clock].from = saw.from
    BY <1>2, <2>5, Rows
  <2>7. PICK q \in Row : /\ q = Persisted(old, [Scored(s) EXCEPT !.at = clock])
                         /\ q.from = IF old = NoRow THEN saw.from ELSE old.from
    BY <1>4, <2>6
  <2>8. it \in recorded'[q.from]
    BY <1>3, <2>1, <2>2, <2>7
  <2>9. ~DeleteMemory(d)
    BY <1>7 DEF ValidateMemory, DeleteMemory
  <2>10. Write(d, it, q)
    BY <2>3, <2>7
  <2>11. recorded' \in [Device -> SUBSET Lesson] /\ \A x \in Device : recorded[x] \subseteq recorded'[x]
    BY <2>2 DEF Forms
  <2> QED BY <1>1, <1>5, <2>1, <2>2, <2>7, <2>8, <2>9, <2>10, <2>11
<1>8. CASE DeleteMemory(d)
  <2>1. /\ Write(d, it, NoRow)
        /\ UNCHANGED <<scene, left, sync, serve, cursor, circle, clock, recorded, overlap>>
    BY <1>8 DEF DeleteMemory
  <2> QED BY <1>1, <1>5, <2>1 DEF Forms
<1> QED BY <1>6, <1>7, <1>8

\* A session that ends takes one lesson of the own out of the hot index.
LEMMA ConsolidateFrame ==
    ASSUME Shape, NEW d \in Device, NEW m \in Lesson, ConsolidateSession(d, m)
    PROVE  /\ row' \in [Device -> [Lesson -> Row \cup {NoRow}]]
           /\ row[d][m] # NoRow /\ row[d][m].from = d
           /\ \A x \in Device, l \in Lesson : x # d \/ l # m => row'[x][l] = row[x][l]
           /\ row'[d][m] \in Row /\ ~row'[d][m].hot /\ row'[d][m].from = d
           /\ row'[d][m].status = row[d][m].status
           /\ UNCHANGED <<scene, node, heard, task, left, sync, serve, cursor, circle, clock, history>>
<1>1. /\ row[d][m] # NoRow /\ row[d][m].from = d
      /\ row' = [row EXCEPT ![d] = [row[d] EXCEPT ![m] = [row[d][m] EXCEPT !.hot = FALSE]]]
      /\ UNCHANGED <<scene, node, heard, task, left, sync, serve, cursor, circle, clock, history>>
  BY DEF ConsolidateSession
<1>2. row[d][m] \in Row /\ row \in [Device -> [Lesson -> Row \cup {NoRow}]]
  BY <1>1 DEF Shape
<1> DEFINE r == [row[d][m] EXCEPT !.hot = FALSE]
<1>3. r \in Row /\ r.from = row[d][m].from /\ r.status = row[d][m].status
  BY <1>2 DEF Row
<1>4. r.hot = FALSE
  BY <1>2 DEF Row
<1> HIDE DEF r
<1>5. /\ row' \in [Device -> [Lesson -> Row \cup {NoRow}]] /\ row'[d][m] = r
      /\ \A x \in Device, l \in Lesson : x # d \/ l # m => row'[x][l] = row[x][l]
  BY <1>1, <1>2, <1>3 DEF r
<1> QED BY <1>1, <1>2, <1>3, <1>4, <1>5

\* An exchange begins.
LEMMA ExchangeFrame ==
    ASSUME Shape, Forms, NEW d \in Device, NEW ids \in SUBSET Lesson, NEW since \in 0..MaxClock,
           NEW out \in SUBSET Packet, Exchange(d, ids, since, out)
    PROVE  /\ sync' \in [Device -> Session \cup {NoSync}]
           /\ \A x \in Device : x # d => sync'[x] = sync[x]
           /\ sync[d] = NoSync /\ sync'[d] \in Session
           /\ sync'[d].at = "ready" /\ sync'[d].todo = active[d] \ {d} /\ sync'[d].peer = Nobody
           /\ sync'[d].out = out /\ sync'[d].queue = {} /\ sync'[d].saw = {}
           /\ UNCHANGED <<scene, stores, task, left, serve, cursor, circle, clock, history>>
<1> DEFINE s == [at |-> "ready", ids |-> ids, since |-> since, out |-> out,
                 roster |-> active[d], todo |-> active[d] \ {d},
                 peer |-> Nobody, queue |-> {}, saw |-> {}, now |-> 0]
<1>1. /\ sync[d] = NoSync /\ sync' = [sync EXCEPT ![d] = s]
      /\ UNCHANGED <<scene, stores, task, left, serve, cursor, circle, clock, history>>
  BY DEF Exchange
<1>2. active[d] \in SUBSET Device /\ 0 \in 0..MaxClock
  BY MemoriesAssumption DEF Shape
<1>3. s \in Session
  BY <1>2 DEF Session
<1> QED BY <1>1, <1>3 DEF Forms

\* A peer takes the call.
LEMMA DialFrame ==
    ASSUME Shape, Forms, NEW d \in Device, NEW e \in Device, HandleSyncWire(d, e)
    PROVE  /\ sync' \in [Device -> Session \cup {NoSync}]
           /\ serve' \in [Device -> [Device -> Answer \cup {NoServe}]]
           /\ \A x \in Device : x # d => sync'[x] = sync[x]
           /\ sync[d] \in Session /\ sync[d].at = "ready" /\ e \in sync[d].todo
           /\ sync'[d] \in Session /\ sync'[d].at = "asking" /\ sync'[d].peer = e
           /\ sync'[d].todo = sync[d].todo /\ sync'[d].out = sync[d].out
           /\ sync'[d].queue = sync[d].queue /\ sync'[d].saw = sync[d].saw
           /\ serve[e][d] = NoServe /\ d \in active[e]
           /\ \A x, y \in Device : x # e \/ y # d => serve'[x][y] = serve[x][y]
           /\ serve'[e][d] \in Answer /\ serve'[e][d].open
           /\ serve'[e][d].queue = sync[d].out /\ serve'[e][d].saw = {}
           /\ UNCHANGED <<scene, stores, task, left, cursor, circle, clock, history>>
<1> DEFINE a == [at |-> "importing", ids |-> sync[d].ids, since |-> sync[d].since,
                 queue |-> sync[d].out, saw |-> {}, open |-> TRUE]
           s == [sync[d] EXCEPT !.at = "asking", !.peer = e]
<1>1. /\ sync[d].at = "ready" /\ e \in sync[d].todo /\ serve[e][d] = NoServe /\ d \in active[e]
      /\ UNCHANGED <<scene, stores, task, left, cursor, circle, clock, history>>
  BY DEF HandleSyncWire, TakesAnyone
<1>2. sync' = [sync EXCEPT ![d] = s]
  BY DEF HandleSyncWire, TakesAnyone
<1>3. serve' = [serve EXCEPT ![e] = [serve[e] EXCEPT ![d] = a]]
  BY DEF HandleSyncWire, TakesAnyone
<1>4. sync[d] \in Session
  BY <1>1, Ongoing
<1>5. s \in Session /\ s.at = "asking" /\ s.peer = e /\ s.todo = sync[d].todo
      /\ s.out = sync[d].out /\ s.queue = sync[d].queue /\ s.saw = sync[d].saw
  BY <1>4 DEF Session
<1>6. a \in Answer /\ a.open /\ a.queue = sync[d].out /\ a.saw = {}
  BY <1>4 DEF Session, Answer
<1> HIDE DEF s, a
<1>7. sync' \in [Device -> Session \cup {NoSync}] /\ sync'[d] = s /\ \A x \in Device : x # d => sync'[x] = sync[x]
  BY <1>2, <1>5 DEF Forms
<1>8. /\ serve' \in [Device -> [Device -> Answer \cup {NoServe}]] /\ serve'[e][d] = a
      /\ \A x, y \in Device : x # e \/ y # d => serve'[x][y] = serve[x][y]
  BY <1>3, <1>6 DEF Forms
<1> QED BY <1>1, <1>4, <1>5, <1>6, <1>7, <1>8

\* A call ends without an answer.
LEMMA TimeoutFrame ==
    ASSUME Shape, Forms, Calls, NEW d \in Device, NEW e \in Device, PeerTimeout(d, e)
    PROVE  /\ sync' \in [Device -> Session \cup {NoSync}]
           /\ serve' \in [Device -> [Device -> Answer \cup {NoServe}]]
           /\ \A x \in Device : x # d => sync'[x] = sync[x]
           /\ sync[d] \in Session /\ sync'[d] \in Session
           /\ sync'[d].at = "ready" /\ sync'[d].peer = Nobody
           /\ sync'[d].todo = sync[d].todo \ {e} /\ sync'[d].out = sync[d].out
           /\ sync'[d].queue = sync[d].queue /\ sync'[d].saw = sync[d].saw
           /\ \A x, y \in Device : x # e \/ y # d => serve'[x][y] = serve[x][y]
           /\ \/ sync[d].at = "ready" /\ serve' = serve
              \/ /\ sync[d].at = "asking" /\ sync[d].peer = e
                 /\ serve[e][d] \in Answer /\ serve'[e][d] \in Answer /\ ~serve'[e][d].open
                 /\ serve'[e][d].queue = serve[e][d].queue /\ serve'[e][d].saw = serve[e][d].saw
           /\ UNCHANGED <<scene, stores, task, left, cursor, circle, clock, history>>
<1> DEFINE s == [sync[d] EXCEPT !.at = "ready", !.peer = Nobody, !.todo = sync[d].todo \ {e}]
           a == [serve[e][d] EXCEPT !.open = FALSE]
<1>1. /\ \/ sync[d].at = "ready" /\ serve' = serve
         \/ sync[d].at = "asking" /\ sync[d].peer = e /\ serve' = [serve EXCEPT ![e] = [serve[e] EXCEPT ![d] = a]]
      /\ sync' = [sync EXCEPT ![d] = s]
      /\ UNCHANGED <<scene, stores, task, left, cursor, circle, clock, history>>
  BY DEF PeerTimeout
<1>2. sync[d] \in Session
  BY <1>1, Ongoing
<1>3. /\ s \in Session /\ s.at = "ready" /\ s.peer = Nobody /\ s.todo = sync[d].todo \ {e}
      /\ s.out = sync[d].out /\ s.queue = sync[d].queue /\ s.saw = sync[d].saw
  <2>1. PICK todo \in SUBSET Device : todo = sync[d].todo \ {e}
    BY <1>2 DEF Session
  <2> QED BY <1>2, <2>1 DEF Session
<1>4. ASSUME sync[d].at = "asking", sync[d].peer = e
      PROVE  /\ serve[e][d] \in Answer /\ a \in Answer /\ ~a.open
             /\ a.queue = serve[e][d].queue /\ a.saw = serve[e][d].saw
  <2>1. serve[e][d] \in Answer
    BY <1>2, <1>4, Ongoing DEF Calls, CallsOf
  <2> QED BY <2>1 DEF Answer
<1> HIDE DEF s, a
<1>5. sync' \in [Device -> Session \cup {NoSync}] /\ sync'[d] = s /\ \A x \in Device : x # d => sync'[x] = sync[x]
  BY <1>1, <1>3 DEF Forms
<1>6. CASE sync[d].at = "ready" /\ serve' = serve
  BY <1>1, <1>2, <1>3, <1>5, <1>6 DEF Forms
<1>7. CASE sync[d].at = "asking" /\ sync[d].peer = e /\ serve' = [serve EXCEPT ![e] = [serve[e] EXCEPT ![d] = a]]
  <2>1. /\ serve' \in [Device -> [Device -> Answer \cup {NoServe}]] /\ serve'[e][d] = a
        /\ \A x, y \in Device : x # e \/ y # d => serve'[x][y] = serve[x][y]
    BY <1>4, <1>7 DEF Forms
  <2> QED BY <1>1, <1>2, <1>3, <1>4, <1>5, <1>7, <2>1
<1> QED BY <1>1, <1>6, <1>7

\* An import of one packet: loaded or passed over, or written as the row of the peer it came from.
LEMMA ImportFrame ==
    ASSUME Shape, Forms, NEW d \in Device, ImportPeerBatch(d)
    PROVE  /\ sync' \in [Device -> Session \cup {NoSync}]
           /\ \A x \in Device : x # d => sync'[x] = sync[x]
           /\ sync[d] \in Session /\ sync[d].at = "importing" /\ sync'[d] \in Session
           /\ sync'[d].at = "importing" /\ sync'[d].peer = sync[d].peer
           /\ sync'[d].todo = sync[d].todo /\ sync'[d].out = sync[d].out
           /\ sync'[d].queue \cup sync'[d].saw \subseteq sync[d].queue \cup sync[d].saw
           /\ OneSeen(sync'[d])
           /\ \/ sync[d].saw = {} /\ UNCHANGED stores
              \/ \E p \in sync[d].saw :
                    sync'[d].saw = {} /\ Write(d, p.m, PeerUpserted(row[d][p.m], p, sync[d].peer))
           /\ UNCHANGED <<scene, task, left, serve, cursor, circle, clock, history>>
<1>1. /\ sync[d].at = "importing"
      /\ UNCHANGED <<scene, task, left, serve, cursor, circle, clock, history>>
  BY DEF ImportPeerBatch
<1>2. sync[d] \in Session
  BY <1>1, Ongoing
<1>3. ASSUME NEW q2 \in SUBSET Packet, NEW s2 \in SUBSET Packet, q2 \cup s2 \subseteq sync[d].queue \cup sync[d].saw,
             sync' = [sync EXCEPT ![d] = [sync[d] EXCEPT !.saw = s2, !.queue = q2]]
      PROVE  /\ sync' \in [Device -> Session \cup {NoSync}]
             /\ \A x \in Device : x # d => sync'[x] = sync[x]
             /\ sync'[d] \in Session
             /\ sync'[d].at = "importing" /\ sync'[d].peer = sync[d].peer
             /\ sync'[d].todo = sync[d].todo /\ sync'[d].out = sync[d].out
             /\ sync'[d].queue \cup sync'[d].saw \subseteq sync[d].queue \cup sync[d].saw
             /\ sync'[d].saw = s2
  <2> DEFINE s == [sync[d] EXCEPT !.saw = s2, !.queue = q2]
  <2>1. /\ s \in Session /\ s.at = "importing" /\ s.peer = sync[d].peer
        /\ s.todo = sync[d].todo /\ s.out = sync[d].out /\ s.queue = q2 /\ s.saw = s2
    BY <1>1, <1>2 DEF Session
  <2>2. sync' = [sync EXCEPT ![d] = s]
    BY <1>3
  <2> HIDE DEF s
  <2>3. sync' \in [Device -> Session \cup {NoSync}] /\ sync'[d] = s /\ \A x \in Device : x # d => sync'[x] = sync[x]
    BY <2>1, <2>2 DEF Forms
  <2> QED BY <1>3, <2>1, <2>3
<1>4. ASSUME sync[d].saw = {}, NEW p \in sync[d].queue, sync' = [sync EXCEPT ![d] = ImportLoad(d, sync[d], p)]
      PROVE  \E q2, s2 \in SUBSET Packet :
                /\ q2 \cup s2 \subseteq sync[d].queue \cup sync[d].saw /\ \A x, y \in s2 : x = y
                /\ sync' = [sync EXCEPT ![d] = [sync[d] EXCEPT !.saw = s2, !.queue = q2]]
  <2>1. sync[d].queue \in SUBSET Packet /\ sync[d].saw \in SUBSET Packet
    BY <1>2 DEF Session
  <2>2. PICK q2 \in SUBSET Packet : q2 = sync[d].queue \ {p}
    BY <2>1
  <2>3. CASE ShouldUpdate(row[d][p.m], p)
    <3>1. ImportLoad(d, sync[d], p) = [sync[d] EXCEPT !.saw = {p}, !.queue = q2]
      BY <2>2, <2>3 DEF ImportLoad
    <3>2. {p} \in SUBSET Packet /\ q2 \cup {p} \subseteq sync[d].queue \cup sync[d].saw
      BY <1>4, <2>1, <2>2
    <3> QED BY <1>4, <3>1, <3>2
  <2>4. CASE ~ShouldUpdate(row[d][p.m], p)
    <3>1. ImportLoad(d, sync[d], p) = [sync[d] EXCEPT !.queue = q2]
      BY <2>2, <2>4 DEF ImportLoad
    <3>2. [sync[d] EXCEPT !.queue = q2] = [sync[d] EXCEPT !.saw = sync[d].saw, !.queue = q2]
      BY <1>2 DEF Session
    <3>3. q2 \cup sync[d].saw \subseteq sync[d].queue \cup sync[d].saw
      BY <2>2
    <3> QED BY <1>4, <2>1, <3>1, <3>2, <3>3
  <2> QED BY <2>3, <2>4
<1>5. CASE /\ sync[d].saw = {}
           /\ \E p \in sync[d].queue : sync' = [sync EXCEPT ![d] = ImportLoad(d, sync[d], p)]
           /\ UNCHANGED stores
  <2>1. PICK q2 \in SUBSET Packet, s2 \in SUBSET Packet :
                /\ q2 \cup s2 \subseteq sync[d].queue \cup sync[d].saw /\ \A x, y \in s2 : x = y
                /\ sync' = [sync EXCEPT ![d] = [sync[d] EXCEPT !.saw = s2, !.queue = q2]]
    BY <1>4, <1>5
  <2>2. OneSeen(sync'[d])
    <3>1. sync'[d].saw = s2
      BY <1>3, <2>1
    <3> QED BY <2>1, <3>1 DEF OneSeen
  <2> QED BY <1>1, <1>2, <1>3, <1>5, <2>1, <2>2
<1>6. CASE \E p \in sync[d].saw :
              /\ Write(d, p.m, PeerUpserted(row[d][p.m], p, sync[d].peer))
              /\ sync' = [sync EXCEPT ![d] = [sync[d] EXCEPT !.saw = {}]]
  <2>1. PICK p \in sync[d].saw :
              /\ Write(d, p.m, PeerUpserted(row[d][p.m], p, sync[d].peer))
              /\ sync' = [sync EXCEPT ![d] = [sync[d] EXCEPT !.saw = {}]]
    BY <1>6
  <2>2. sync[d].queue \in SUBSET Packet /\ {} \in SUBSET Packet
    BY <1>2 DEF Session
  <2>3. [sync[d] EXCEPT !.saw = {}] = [sync[d] EXCEPT !.saw = {}, !.queue = sync[d].queue]
    BY <1>2 DEF Session
  <2>4. sync[d].queue \cup {} \subseteq sync[d].queue \cup sync[d].saw
    OBVIOUS
  <2>5. OneSeen(sync'[d])
    <3>1. sync'[d].saw = {}
      BY <1>3, <2>1, <2>2, <2>3, <2>4
    <3> QED BY <3>1 DEF OneSeen
  <2> QED BY <1>1, <1>2, <1>3, <2>1, <2>2, <2>3, <2>4, <2>5
<1> QED BY <1>5, <1>6 DEF ImportPeerBatch

\* The same where the listener imports what it was sent.
LEMMA PushedFrame ==
    ASSUME Shape, Forms, NEW e \in Device, NEW d \in Device, ImportPushedPackets(e, d)
    PROVE  /\ serve' \in [Device -> [Device -> Answer \cup {NoServe}]]
           /\ \A x, y \in Device : x # e \/ y # d => serve'[x][y] = serve[x][y]
           /\ serve[e][d] \in Answer /\ serve'[e][d] \in Answer /\ serve'[e][d].open = serve[e][d].open
           /\ serve'[e][d].queue \cup serve'[e][d].saw \subseteq serve[e][d].queue \cup serve[e][d].saw
           /\ OneSeen(serve'[e][d])
           /\ \/ serve[e][d].saw = {} /\ UNCHANGED stores
              \/ \E p \in serve[e][d].saw :
                    serve'[e][d].saw = {} /\ Write(e, p.m, PeerUpserted(row[e][p.m], p, d))
           /\ UNCHANGED <<scene, task, left, sync, cursor, circle, clock, history>>
<1> DEFINE a == serve[e][d]
<1>1. /\ a.at = "importing"
      /\ UNCHANGED <<scene, task, left, sync, cursor, circle, clock, history>>
  BY DEF ImportPushedPackets
<1>2. a \in Answer
  BY <1>1, Ongoing
<1>3. ASSUME NEW q2 \in SUBSET Packet, NEW s2 \in SUBSET Packet, q2 \cup s2 \subseteq a.queue \cup a.saw,
             serve' = [serve EXCEPT ![e] = [serve[e] EXCEPT ![d] = [a EXCEPT !.saw = s2, !.queue = q2]]]
      PROVE  /\ serve' \in [Device -> [Device -> Answer \cup {NoServe}]]
             /\ \A x, y \in Device : x # e \/ y # d => serve'[x][y] = serve[x][y]
             /\ serve'[e][d] \in Answer /\ serve'[e][d].open = a.open
             /\ serve'[e][d].queue \cup serve'[e][d].saw \subseteq a.queue \cup a.saw
             /\ serve'[e][d].saw = s2
  <2> DEFINE s == [a EXCEPT !.saw = s2, !.queue = q2]
  <2>1. s \in Answer /\ s.open = a.open /\ s.queue = q2 /\ s.saw = s2
    BY <1>1, <1>2 DEF Answer
  <2>2. serve' = [serve EXCEPT ![e] = [serve[e] EXCEPT ![d] = s]]
    BY <1>3
  <2> HIDE DEF s, a
  <2>3. /\ serve' \in [Device -> [Device -> Answer \cup {NoServe}]] /\ serve'[e][d] = s
        /\ \A x, y \in Device : x # e \/ y # d => serve'[x][y] = serve[x][y]
    BY <2>1, <2>2 DEF Forms
  <2> QED BY <1>3, <2>1, <2>3
<1>4. ASSUME a.saw = {}, NEW p \in a.queue, serve' = [serve EXCEPT ![e] = [serve[e] EXCEPT ![d] = ImportLoad(e, a, p)]]
      PROVE  \E q2, s2 \in SUBSET Packet :
                /\ q2 \cup s2 \subseteq a.queue \cup a.saw /\ \A x, y \in s2 : x = y
                /\ serve' = [serve EXCEPT ![e] = [serve[e] EXCEPT ![d] = [a EXCEPT !.saw = s2, !.queue = q2]]]
  <2>1. a.queue \in SUBSET Packet /\ a.saw \in SUBSET Packet
    BY <1>2 DEF Answer
  <2>2. PICK q2 \in SUBSET Packet : q2 = a.queue \ {p}
    BY <2>1
  <2>3. CASE ShouldUpdate(row[e][p.m], p)
    <3>1. ImportLoad(e, a, p) = [a EXCEPT !.saw = {p}, !.queue = q2]
      BY <2>2, <2>3 DEF ImportLoad
    <3>2. {p} \in SUBSET Packet /\ q2 \cup {p} \subseteq a.queue \cup a.saw
      BY <1>4, <2>1, <2>2
    <3> QED BY <1>4, <3>1, <3>2
  <2>4. CASE ~ShouldUpdate(row[e][p.m], p)
    <3>1. ImportLoad(e, a, p) = [a EXCEPT !.queue = q2]
      BY <2>2, <2>4 DEF ImportLoad
    <3>2. [a EXCEPT !.queue = q2] = [a EXCEPT !.saw = a.saw, !.queue = q2]
      BY <1>2 DEF Answer
    <3>3. q2 \cup a.saw \subseteq a.queue \cup a.saw
      BY <2>2
    <3> QED BY <1>4, <2>1, <3>1, <3>2, <3>3
  <2> QED BY <2>3, <2>4
<1>5. CASE /\ a.saw = {}
           /\ \E p \in a.queue : serve' = [serve EXCEPT ![e] = [serve[e] EXCEPT ![d] = ImportLoad(e, a, p)]]
           /\ UNCHANGED stores
  <2>1. PICK q2 \in SUBSET Packet, s2 \in SUBSET Packet :
                /\ q2 \cup s2 \subseteq a.queue \cup a.saw /\ \A x, y \in s2 : x = y
                /\ serve' = [serve EXCEPT ![e] = [serve[e] EXCEPT ![d] = [a EXCEPT !.saw = s2, !.queue = q2]]]
    BY <1>4, <1>5
  <2>2. OneSeen(serve'[e][d])
    <3>1. serve'[e][d].saw = s2
      BY <1>3, <2>1
    <3> QED BY <2>1, <3>1 DEF OneSeen
  <2> QED BY <1>1, <1>2, <1>3, <1>5, <2>1, <2>2
<1>6. CASE \E p \in a.saw :
              /\ Write(e, p.m, PeerUpserted(row[e][p.m], p, d))
              /\ serve' = [serve EXCEPT ![e] = [serve[e] EXCEPT ![d] = [a EXCEPT !.saw = {}]]]
  <2>1. PICK p \in a.saw :
              /\ Write(e, p.m, PeerUpserted(row[e][p.m], p, d))
              /\ serve' = [serve EXCEPT ![e] = [serve[e] EXCEPT ![d] = [a EXCEPT !.saw = {}]]]
    BY <1>6
  <2>2. a.queue \in SUBSET Packet /\ {} \in SUBSET Packet
    BY <1>2 DEF Answer
  <2>3. [a EXCEPT !.saw = {}] = [a EXCEPT !.saw = {}, !.queue = a.queue]
    BY <1>2 DEF Answer
  <2>4. a.queue \cup {} \subseteq a.queue \cup a.saw
    OBVIOUS
  <2>5. serve' = [serve EXCEPT ![e] = [serve[e] EXCEPT ![d] = [a EXCEPT !.saw = {}, !.queue = a.queue]]]
    BY <2>1, <2>3
  <2>6. /\ serve' \in [Device -> [Device -> Answer \cup {NoServe}]]
        /\ \A x, y \in Device : x # e \/ y # d => serve'[x][y] = serve[x][y]
        /\ serve'[e][d] \in Answer /\ serve'[e][d].open = a.open
        /\ serve'[e][d].queue \cup serve'[e][d].saw \subseteq a.queue \cup a.saw
        /\ serve'[e][d].saw = {}
    BY <1>3, <2>2, <2>4, <2>5
  <2> QED BY <1>1, <1>2, <2>1, <2>6 DEF OneSeen
<1> QED BY <1>5, <1>6 DEF ImportPushedPackets

\* The answer reaches a caller that still waits for it.
LEMMA AnswerFrame ==
    ASSUME Shape, Forms, Calls, Origins, NEW e \in Device, NEW d \in Device, BuildSyncResponse(e, d)
    PROVE  /\ sync' \in [Device -> Session \cup {NoSync}]
           /\ serve' \in [Device -> [Device -> Answer \cup {NoServe}]]
           /\ \A x \in Device : x # d => sync'[x] = sync[x]
           /\ \A x, y \in Device : x # e \/ y # d => serve'[x][y] = serve[x][y]
           /\ serve[e][d] \in Answer /\ serve'[e][d] = NoServe
           /\ \/ ~serve[e][d].open /\ sync' = sync
              \/ /\ serve[e][d].open /\ sync[d] \in Session /\ sync[d].at = "asking" /\ sync[d].peer = e
                 /\ sync'[d] \in Session /\ sync'[d].at = "importing" /\ sync'[d].peer = e
                 /\ sync'[d].todo = sync[d].todo /\ sync'[d].out = sync[d].out /\ sync'[d].saw = sync[d].saw
                 /\ \A p \in sync'[d].queue : p.m \in recorded[e]
           /\ UNCHANGED <<scene, stores, task, left, cursor, circle, clock, history>>
<1>1. /\ serve[e][d].at = "importing"
      /\ serve' = [serve EXCEPT ![e] = [serve[e] EXCEPT ![d] = NoServe]]
      /\ UNCHANGED <<scene, stores, task, left, cursor, circle, clock, history>>
  BY DEF BuildSyncResponse
<1>2. serve[e][d] \in Answer
  BY <1>1, Ongoing
<1>3. /\ serve' \in [Device -> [Device -> Answer \cup {NoServe}]] /\ serve'[e][d] = NoServe
      /\ \A x, y \in Device : x # e \/ y # d => serve'[x][y] = serve[x][y]
  BY <1>1 DEF Forms
<1>4. CASE ~serve[e][d].open
  <2>1. sync' = sync
    BY <1>4 DEF BuildSyncResponse
  <2> QED BY <1>1, <1>2, <1>3, <1>4, <2>1 DEF Forms
<1>5. CASE serve[e][d].open
  <2>1. PICK q : q = IF serve[e][d].ids # {} THEN Requested(e, serve[e][d].ids)
                     ELSE Packets(e, serve[e][d].since)
    OBVIOUS
  <2>2. sync' = [sync EXCEPT ![d] = [sync[d] EXCEPT !.at = "importing", !.now = clock, !.queue = q]]
    BY <1>5, <2>1 DEF BuildSyncResponse
  <2>3. q \in SUBSET Packet /\ \A p \in q : p.m \in recorded[e]
    BY <2>1, Sent
  <2>4. sync[d] # NoSync /\ sync[d].at = "asking" /\ sync[d].peer = e
    BY <1>2, <1>5, Ongoing DEF Calls, CallsOf
  <2>5. sync[d] \in Session /\ clock \in 0..MaxClock
    BY <2>4, Ongoing DEF Shape
  <2> DEFINE s == [sync[d] EXCEPT !.at = "importing", !.now = clock, !.queue = q]
  <2>6. /\ s \in Session /\ s.at = "importing" /\ s.peer = e /\ s.todo = sync[d].todo
        /\ s.out = sync[d].out /\ s.saw = sync[d].saw /\ s.queue = q
    BY <2>3, <2>4, <2>5 DEF Session
  <2>7. sync' = [sync EXCEPT ![d] = s]
    BY <2>2
  <2> HIDE DEF s
  <2>8. sync' \in [Device -> Session \cup {NoSync}] /\ sync'[d] = s /\ \A x \in Device : x # d => sync'[x] = sync[x]
    BY <2>6, <2>7 DEF Forms
  <2> QED BY <1>1, <1>2, <1>3, <1>5, <2>3, <2>4, <2>5, <2>6, <2>8
<1> QED BY <1>4, <1>5

\* An answer is done with.
LEMMA ApplyFrame ==
    ASSUME Shape, Forms, NEW d \in Device, ApplyPeerSyncResult(d)
    PROVE  /\ sync' \in [Device -> Session \cup {NoSync}] /\ cursor' \in [Device -> 0..MaxClock]
           /\ \A x \in Device : x # d => sync'[x] = sync[x]
           /\ sync[d] \in Session /\ sync[d].at = "importing" /\ sync'[d] \in Session
           /\ sync'[d].at = "ready" /\ sync'[d].peer = Nobody
           /\ sync'[d].todo = sync[d].todo \ {sync[d].peer} /\ sync'[d].out = sync[d].out
           /\ sync'[d].queue = {} /\ sync'[d].saw = {}
           /\ UNCHANGED <<scene, stores, task, left, serve, circle, clock, history>>
<1> DEFINE s == [sync[d] EXCEPT !.at = "ready", !.todo = sync[d].todo \ {sync[d].peer}, !.peer = Nobody]
<1>1. /\ sync[d].at = "importing" /\ sync[d].queue = {} /\ sync[d].saw = {}
      /\ cursor' = [cursor EXCEPT ![d] = IF sync[d].ids = {} THEN sync[d].now ELSE cursor[d]]
      /\ sync' = [sync EXCEPT ![d] = s]
      /\ UNCHANGED <<scene, stores, task, left, serve, circle, clock, history>>
  BY DEF ApplyPeerSyncResult
<1>2. sync[d] \in Session
  BY <1>1, Ongoing
<1>3. /\ s \in Session /\ s.at = "ready" /\ s.peer = Nobody /\ s.todo = sync[d].todo \ {sync[d].peer}
      /\ s.out = sync[d].out /\ s.queue = {} /\ s.saw = {}
  <2>1. PICK todo \in SUBSET Device : todo = sync[d].todo \ {sync[d].peer}
    BY <1>2 DEF Session
  <2> QED BY <1>1, <1>2, <2>1 DEF Session
<1> HIDE DEF s
<1>4. sync' \in [Device -> Session \cup {NoSync}] /\ sync'[d] = s /\ \A x \in Device : x # d => sync'[x] = sync[x]
  BY <1>1, <1>3 DEF Forms
<1>5. sync[d].now \in 0..MaxClock
  BY <1>2 DEF Session
<1>6. cursor' \in [Device -> 0..MaxClock]
  BY <1>1, <1>5 DEF Shape
<1> QED BY <1>1, <1>2, <1>3, <1>4, <1>6

\* An exchange is over, or its process stops.
LEMMA ReportFrame ==
    ASSUME Shape, Forms, NEW d \in Device, RecordShareSyncReport(d) \/ ExchangeStops(d)
    PROVE  /\ sync' \in [Device -> Session \cup {NoSync}]
           /\ \A x \in Device : x # d => sync'[x] = sync[x]
           /\ sync[d] \in Session /\ sync[d].at # "asking" /\ sync'[d] = NoSync
           /\ UNCHANGED <<scene, stores, task, left, serve, cursor, circle, clock, history>>
<1>1. /\ sync[d].at \in {"ready", "importing"} /\ sync' = [sync EXCEPT ![d] = NoSync]
      /\ UNCHANGED <<scene, stores, task, left, serve, cursor, circle, clock, history>>
  BY DEF RecordShareSyncReport, ExchangeStops
<1>2. sync[d] \in Session
  BY <1>1, Ongoing
<1> QED BY <1>1, <1>2 DEF Forms

\* The process that answers d stops: d, if it still waits, goes on to its next peer.
LEMMA BreakFrame ==
    ASSUME Shape, Forms, Calls, NEW e \in Device, NEW d \in Device, ListenerStops(e, d)
    PROVE  /\ sync' \in [Device -> Session \cup {NoSync}]
           /\ serve' \in [Device -> [Device -> Answer \cup {NoServe}]]
           /\ \A x \in Device : x # d => sync'[x] = sync[x]
           /\ \A x, y \in Device : x # e \/ y # d => serve'[x][y] = serve[x][y]
           /\ serve[e][d] \in Answer /\ serve'[e][d] = NoServe
           /\ \/ ~serve[e][d].open /\ sync' = sync
              \/ /\ serve[e][d].open /\ sync[d] \in Session /\ sync[d].at = "asking" /\ sync[d].peer = e
                 /\ sync'[d] \in Session /\ sync'[d].at = "ready" /\ sync'[d].peer = Nobody
                 /\ sync'[d].todo = sync[d].todo \ {e} /\ sync'[d].out = sync[d].out
                 /\ sync'[d].queue = sync[d].queue /\ sync'[d].saw = sync[d].saw
           /\ UNCHANGED <<scene, stores, task, left, cursor, circle, clock, history>>
<1>1. /\ serve[e][d].at = "importing"
      /\ serve' = [serve EXCEPT ![e] = [serve[e] EXCEPT ![d] = NoServe]]
      /\ UNCHANGED <<scene, stores, task, left, cursor, circle, clock, history>>
  BY DEF ListenerStops
<1>2. serve[e][d] \in Answer
  BY <1>1, Ongoing
<1>3. /\ serve' \in [Device -> [Device -> Answer \cup {NoServe}]] /\ serve'[e][d] = NoServe
      /\ \A x, y \in Device : x # e \/ y # d => serve'[x][y] = serve[x][y]
  BY <1>1 DEF Forms
<1>4. CASE ~serve[e][d].open
  <2>1. sync' = sync
    BY <1>4 DEF ListenerStops
  <2> QED BY <1>1, <1>2, <1>3, <1>4, <2>1 DEF Forms
<1>5. CASE serve[e][d].open
  <2>1. sync[d] # NoSync /\ sync[d].at = "asking" /\ sync[d].peer = e
    BY <1>2, <1>5, Ongoing DEF Calls, CallsOf
  <2>2. sync[d] \in Session
    BY <2>1, Ongoing
  <2>3. PICK todo \in SUBSET Device : todo = sync[d].todo \ {e}
    BY <2>2 DEF Session
  <2> DEFINE s == [sync[d] EXCEPT !.at = "ready", !.peer = Nobody, !.todo = todo]
  <2>4. /\ s \in Session /\ s.at = "ready" /\ s.peer = Nobody /\ s.todo = todo
        /\ s.out = sync[d].out /\ s.queue = sync[d].queue /\ s.saw = sync[d].saw
    BY <2>2 DEF Session
  <2>5. sync' = [sync EXCEPT ![d] = s]
    BY <1>5, <2>3 DEF ListenerStops
  <2> HIDE DEF s
  <2>6. sync' \in [Device -> Session \cup {NoSync}] /\ sync'[d] = s /\ \A x \in Device : x # d => sync'[x] = sync[x]
    BY <2>4, <2>5 DEF Forms
  <2> QED BY <1>1, <1>2, <1>3, <1>5, <2>1, <2>2, <2>3, <2>4, <2>6
<1> QED BY <1>4, <1>5

\* A catalog only adds nodes, and says they came with it.
LEMMA CatalogFrame ==
    ASSUME Shape, NEW d \in Device, NEW e \in Device, ImportPeerCatalogs(d, e)
    PROVE  /\ node' \in [Device -> SUBSET Lesson] /\ heard' \in [Device -> SUBSET Lesson]
           /\ \A x \in Device : node'[x] \ heard'[x] = node[x] \ heard[x]
           /\ UNCHANGED <<scene, row, task, left, sync, serve, cursor, circle, clock, history>>
<1>1. PICK tree \in SUBSET Lesson : tree = CatalogGraphExport(e)
  BY DEF CatalogGraphExport
<1>2. /\ node' = [node EXCEPT ![d] = node[d] \cup tree]
      /\ heard' = [heard EXCEPT ![d] = heard[d] \cup (tree \ node[d])]
      /\ UNCHANGED <<scene, row, task, left, sync, serve, cursor, circle, clock, history>>
  BY <1>1 DEF ImportPeerCatalogs, ImportCatalogGraph
<1>3. node \in [Device -> SUBSET Lesson] /\ heard \in [Device -> SUBSET Lesson]
  BY DEF Shape
<1>4. node' \in [Device -> SUBSET Lesson] /\ heard' \in [Device -> SUBSET Lesson]
  BY <1>2, <1>3
<1>5. ASSUME NEW x \in Device PROVE node'[x] \ heard'[x] = node[x] \ heard[x]
  <2>1. CASE x = d
    BY <1>2, <1>3, <2>1
  <2>2. CASE x # d
    BY <1>2, <1>3, <2>2
  <2> QED BY <2>1, <2>2
<1> QED BY <1>2, <1>4, <1>5

\* What a removal retires is what came from the removed device.
LEMMA MarkFrame ==
    ASSUME Shape, NEW d \in Device, NEW e \in Device, MarkPeerRevoked(d, e)
    PROVE  /\ row' \in [Device -> [Lesson -> Row \cup {NoRow}]]
           /\ node' \in [Device -> SUBSET Lesson] /\ heard' \in [Device -> SUBSET Lesson]
           /\ marking' \in [Device -> SUBSET Device]
           /\ \A x \in Device, l \in Lesson : x # d \/ l \notin From(d, e) => row'[x][l] = row[x][l]
           /\ \A l \in From(d, e) : /\ row[d][l] \in Row /\ row'[d][l] \in Row /\ row'[d][l].from = e
                                    /\ row'[d][l].status = "deprecated" /\ ~row'[d][l].hot
           /\ \A x, y \in Device : x # d \/ y # e => (y \in marking'[x] <=> y \in marking[x])
           /\ Follow => Follow'
           /\ UNCHANGED <<scene, task, left, sync, serve, cursor, active, clock, history>>
<1>1. /\ e \in marking[d] /\ marking' = [marking EXCEPT ![d] = marking[d] \ {e}]
      /\ row' = [row EXCEPT ![d] = [m \in Lesson |->
                   IF m \in From(d, e) THEN [row[d][m] EXCEPT !.status = "deprecated", !.hot = FALSE]
                                       ELSE row[d][m]]]
      /\ node' = [node EXCEPT ![d] = node[d] \ From(d, e)]
      /\ heard' = [heard EXCEPT ![d] = heard[d] \ From(d, e)]
      /\ UNCHANGED <<scene, task, left, sync, serve, cursor, active, clock, history>>
  BY DEF MarkPeerRevoked, RetireRows
<1>2. /\ row \in [Device -> [Lesson -> Row \cup {NoRow}]] /\ marking \in [Device -> SUBSET Device]
      /\ node \in [Device -> SUBSET Lesson] /\ heard \in [Device -> SUBSET Lesson]
  BY DEF Shape
<1>3. ASSUME NEW l \in From(d, e)
      PROVE  LET r == [row[d][l] EXCEPT !.status = "deprecated", !.hot = FALSE] IN
             /\ l \in Lesson /\ row[d][l] \in Row /\ r \in Row /\ r.from = e /\ r.status = "deprecated" /\ r.hot = FALSE
  <2>1. l \in Lesson /\ row[d][l] \in Row /\ row[d][l].from = e
    BY <1>2 DEF From
  <2> QED BY <2>1 DEF Row
<1>4. \A l \in From(d, e) : l \in Lesson /\ row'[d][l] = [row[d][l] EXCEPT !.status = "deprecated", !.hot = FALSE]
  BY <1>1, <1>2, <1>3
<1>5. \A x \in Device, l \in Lesson : x # d \/ l \notin From(d, e) => row'[x][l] = row[x][l]
  BY <1>1, <1>2
<1>6. row' \in [Device -> [Lesson -> Row \cup {NoRow}]]
  <2> DEFINE f == [m \in Lesson |->
                   IF m \in From(d, e) THEN [row[d][m] EXCEPT !.status = "deprecated", !.hot = FALSE]
                                       ELSE row[d][m]]
  <2>1. f \in [Lesson -> Row \cup {NoRow}]
    <3>1. ASSUME NEW m \in Lesson
          PROVE  (IF m \in From(d, e) THEN [row[d][m] EXCEPT !.status = "deprecated", !.hot = FALSE]
                                       ELSE row[d][m]) \in Row \cup {NoRow}
      <4>1. CASE m \in From(d, e)
        <5>1. [row[d][m] EXCEPT !.status = "deprecated", !.hot = FALSE] \in Row
          BY <1>3, <4>1
        <5> QED BY <4>1, <5>1
      <4>2. CASE m \notin From(d, e)
        <5>1. row[d][m] \in Row \cup {NoRow}
          BY <1>2
        <5> QED BY <4>2, <5>1
      <4> QED BY <4>1, <4>2
    <3> QED BY <3>1
  <2>2. row' = [row EXCEPT ![d] = f]
    BY <1>1
  <2> HIDE DEF f
  <2> QED BY <1>2, <2>1, <2>2
<1>7. /\ node' \in [Device -> SUBSET Lesson] /\ heard' \in [Device -> SUBSET Lesson]
      /\ marking' \in [Device -> SUBSET Device]
      /\ \A x, y \in Device : x # d \/ y # e => (y \in marking'[x] <=> y \in marking[x])
      /\ node'[d] = node[d] \ From(d, e) /\ heard'[d] = heard[d] \ From(d, e)
      /\ \A x \in Device : x # d => node'[x] = node[x] /\ heard'[x] = heard[x]
  BY <1>1, <1>2
<1>8. ASSUME Follow PROVE Follow'
  <2> SUFFICES ASSUME NEW x \in Device, NEW l \in Lesson
               PROVE  ((row[x][l] # NoRow /\ row[x][l].status = "active") <=> l \in node[x] \ heard[x])'
    BY DEF Follow
  <2>1. (row[x][l] # NoRow /\ row[x][l].status = "active") <=> l \in node[x] \ heard[x]
    BY <1>8 DEF Follow
  <2>2. CASE x # d
    BY <1>5, <1>7, <2>1, <2>2
  <2>3. CASE x = d /\ l \notin From(d, e)
    BY <1>5, <1>7, <2>1, <2>3
  <2>4. CASE x = d /\ l \in From(d, e)
    <3>1. row'[x][l].status # "active"
      BY <1>3, <1>4, <2>4
    <3> QED BY <1>7, <2>4, <3>1
  <2> QED BY <2>2, <2>3, <2>4
<1> QED BY <1>1, <1>3, <1>4, <1>5, <1>6, <1>7, <1>8

\* Who leaves a device's circle, by its hand or by what it learns, leaves nothing else behind.
LEMMA RevokeFrame ==
    ASSUME Shape, Forms, NEW d \in Device, NEW e \in Device, RevokeMember(d, e)
    PROVE  /\ active' \in [Device -> SUBSET Device] /\ marking' \in [Device -> SUBSET Device]
           /\ overlap' \in [Device -> SUBSET Device]
           /\ <<d, e>> \in scene.removes /\ e \in active[d]
           /\ active' = [active EXCEPT ![d] = active[d] \ {e}]
           /\ e \in marking'[d] /\ \A x, y \in Device : x # d \/ y # e => (y \in marking'[x] <=> y \in marking[x])
           /\ Exchanging(d, e) => e \in overlap'[d]
           /\ \A x \in Device : overlap[x] \subseteq overlap'[x]
           /\ UNCHANGED <<scene, stores, task, left, sync, serve, cursor, clock, recorded, touched>>
<1>1. /\ <<d, e>> \in scene.removes /\ e \in active[d]
      /\ active'  = [active EXCEPT ![d] = active[d] \ {e}]
      /\ marking' = [marking EXCEPT ![d] = marking[d] \cup {e}]
      /\ overlap' = [overlap EXCEPT ![d] = IF Exchanging(d, e) THEN overlap[d] \cup {e} ELSE overlap[d]]
      /\ UNCHANGED <<scene, stores, task, left, sync, serve, cursor, clock, recorded, touched>>
  BY DEF RevokeMember
<1>2. active \in [Device -> SUBSET Device] /\ marking \in [Device -> SUBSET Device]
  BY DEF Shape
<1>3. overlap \in [Device -> SUBSET Device]
  BY DEF Forms
<1>4. active' \in [Device -> SUBSET Device] /\ marking' \in [Device -> SUBSET Device]
  BY <1>1, <1>2
<1>5. /\ overlap' \in [Device -> SUBSET Device]
      /\ Exchanging(d, e) => e \in overlap'[d]
      /\ \A x \in Device : overlap[x] \subseteq overlap'[x]
  BY <1>1, <1>3
<1>6. e \in marking'[d] /\ \A x, y \in Device : x # d \/ y # e => (y \in marking'[x] <=> y \in marking[x])
  BY <1>1, <1>2
<1> QED BY <1>1, <1>4, <1>5, <1>6

LEMMA LearnFrame ==
    ASSUME Shape, NEW d \in Device, NEW e \in Device, LearnRemoval(d, e)
    PROVE  /\ active' \in [Device -> SUBSET Device] /\ <<d, e>> \notin scene.removes
           /\ active' = [active EXCEPT ![d] = active[d] \ {e}]
           /\ UNCHANGED <<scene, stores, task, left, sync, serve, cursor, marking, clock, history>>
<1>1. PICK c \in active[d] \ {d} : <<c, e>> \in scene.removes
  BY DEF LearnRemoval
<1>2. \A p, q \in scene.removes : p[1] = q[1]
  BY DEF Shape, IsScene
<1>3. <<d, e>> \notin scene.removes
  BY <1>1, <1>2
<1>4. /\ active' = [active EXCEPT ![d] = active[d] \ {e}]
      /\ UNCHANGED <<scene, stores, task, left, sync, serve, cursor, marking, clock, history>>
  BY DEF LearnRemoval
<1>5. active' \in [Device -> SUBSET Device]
  BY <1>4 DEF Shape
<1> QED BY <1>3, <1>4, <1>5

-----------------------------------------------------------------------------
(* The stores, the exchanges and the circle *)

\* What happens in them: the steps of Memories, and the exchange that a lookup begins.
MemoryStep ==
    \/ \E d \in Device, m \in Lesson : GetMemory(d, m) \/ RunGC(d, m)
    \/ \E d \in Device, m \in Lesson : ConsolidateSession(d, m)
    \/ \E d \in Device : RecordMemory(d) \/ ValidateMemory(d) \/ DeleteMemory(d)
    \/ \E d \in Device : \E ids \in SUBSET Lesson, since \in 0..MaxClock, out \in {{}, Packets(d, 0)} :
          Exchange(d, ids, since, out)
    \/ \E d \in Device : \/ ImportPeerBatch(d) \/ ApplyPeerSyncResult(d)
                         \/ RecordShareSyncReport(d) \/ ExchangeStops(d)
    \/ \E d, e \in Device : \/ HandleSyncWire(d, e) \/ PeerTimeout(d, e)
                            \/ ImportPushedPackets(e, d) \/ BuildSyncResponse(e, d) \/ ListenerStops(e, d)
    \/ \E d, e \in Device : \/ ImportPeerCatalogs(d, e) \/ MarkPeerRevoked(d, e)
                            \/ RevokeMember(d, e) \/ LearnRemoval(d, e)
    \/ Tick

LEMMA NextIsMemoryStep ==
    ASSUME Shape, Next
    PROVE  MemoryStep
<1>1. \A d \in Device : SyncCirclePeers(d) => Exchange(d, {}, cursor[d], Packets(d, 0))
  BY DEF SyncCirclePeers
<1>2. \A d \in Device : FetchMissingPeerPackets(d) => \E ids \in SUBSET Lesson : Exchange(d, ids, 0, {})
  <2> SUFFICES ASSUME NEW d \in Device, FetchMissingPeerPackets(d)
               PROVE  \E ids \in SUBSET Lesson : Exchange(d, ids, 0, {})
    OBVIOUS
  <2>1. Exchange(d, {m \in node[d] : row[d][m] = NoRow}, 0, {})
    BY DEF FetchMissingPeerPackets
  <2>2. {m \in node[d] : row[d][m] = NoRow} \in SUBSET Lesson
    BY DEF Shape
  <2> QED BY <2>1, <2>2
<1>3. \A d \in Device : cursor[d] \in 0..MaxClock /\ 0 \in 0..MaxClock /\ {} \in SUBSET Lesson
  BY MemoriesAssumption DEF Shape
<1>4. ASSUME NEW d \in Device, SyncCirclePeers(d) \/ FetchMissingPeerPackets(d)
      PROVE  MemoryStep
  <2>1. CASE SyncCirclePeers(d)
    BY <1>1, <1>3, <2>1 DEF MemoryStep
  <2>2. CASE FetchMissingPeerPackets(d)
    <3>1. PICK ids \in SUBSET Lesson : Exchange(d, ids, 0, {})
      BY <1>2, <2>2
    <3> QED BY <1>3, <3>1 DEF MemoryStep
  <2> QED BY <1>4, <2>1, <2>2
<1>5. ASSUME NEW d \in Device, NEW m \in Lesson, GetMemory(d, m) \/ RunGC(d, m) \/ ConsolidateSession(d, m)
      PROVE  MemoryStep
  BY <1>5 DEF MemoryStep
<1>6. ASSUME NEW d \in Device,
             \/ RecordMemory(d) \/ ValidateMemory(d) \/ DeleteMemory(d)
             \/ ImportPeerBatch(d) \/ ApplyPeerSyncResult(d) \/ RecordShareSyncReport(d) \/ ExchangeStops(d)
      PROVE  MemoryStep
  BY <1>6 DEF MemoryStep
<1>7. ASSUME NEW d \in Device, NEW e \in Device,
             \/ HandleSyncWire(d, e) \/ PeerTimeout(d, e)
             \/ ImportPushedPackets(e, d) \/ BuildSyncResponse(e, d) \/ ListenerStops(e, d)
             \/ ImportPeerCatalogs(d, e)
             \/ RevokeMember(d, e) \/ MarkPeerRevoked(d, e) \/ LearnRemoval(d, e)
      PROVE  MemoryStep
  BY <1>7 DEF MemoryStep
<1>8. Tick => MemoryStep
  BY DEF MemoryStep
<1> QED BY <1>4, <1>5, <1>6, <1>7, <1>8 DEF Next

\* Every step keeps what is under way well formed.
LEMMA Typing ==
    ASSUME Shape, Forms, Calls, Origins, MemoryStep
    PROVE  Shape' /\ Forms'
<1> USE DEF stores, circle, history
<1>0. \A s \in Session : s.out \cup s.queue \subseteq Packet
  BY DEF Session
<1>1. ASSUME NEW d \in Device, NEW m \in Lesson, GetMemory(d, m) \/ RunGC(d, m)
      PROVE  Shape' /\ Forms'
  <2>1. /\ task' \in [Device -> Order \cup {NoTask}] /\ left' \in [Device -> Nat]
        /\ \A x \in Device : x # d => task'[x] = task[x]
        /\ task'[d].saw = row[d][m]
        /\ task'[d].what = "validate" => row[d][m] # NoRow
        /\ UNCHANGED <<scene, stores, sync, serve, cursor, circle, clock, history>>
    BY <1>1, BeginFrame
  <2>2. Shape'
    BY <2>1 DEF Shape
  <2> QED BY <2>1, <2>2 DEF Forms
<1>2. ASSUME NEW d \in Device, NEW m \in Lesson, ConsolidateSession(d, m)
      PROVE  Shape' /\ Forms'
  <2>1. /\ row' \in [Device -> [Lesson -> Row \cup {NoRow}]]
        /\ UNCHANGED <<scene, node, heard, task, left, sync, serve, cursor, circle, clock, history>>
    BY <1>2, ConsolidateFrame
  <2> QED BY <2>1 DEF Shape, Forms
<1>3. ASSUME NEW d \in Device, RecordMemory(d) \/ ValidateMemory(d) \/ DeleteMemory(d)
      PROVE  Shape' /\ Forms'
  <2>1. /\ task[d] \in Order /\ task' = [task EXCEPT ![d] = NoTask]
        /\ touched' = [touched EXCEPT ![d] = touched[d] \cup {task[d].m}]
        /\ recorded' \in [Device -> SUBSET Lesson]
        /\ \E r \in Row \cup {NoRow} : Write(d, task[d].m, r)
        /\ UNCHANGED <<scene, left, sync, serve, cursor, circle, clock, overlap>>
    BY <1>3, CommandFrame
  <2>2. task[d].m \in Lesson
    BY <2>1 DEF Order
  <2>3. /\ row' \in [Device -> [Lesson -> Row \cup {NoRow}]]
        /\ node' \in [Device -> SUBSET Lesson] /\ heard' \in [Device -> SUBSET Lesson]
    BY <2>1, <2>2, Writes
  <2>4. Shape'
    BY <2>1, <2>3 DEF Shape
  <2>5. task' \in [Device -> Order \cup {NoTask}] /\ touched' \in [Device -> SUBSET Lesson]
    BY <2>1, <2>2 DEF Forms
  <2>6. \A x \in Device : task'[x] = IF x = d THEN NoTask ELSE task[x]
    BY <2>1 DEF Forms
  <2> QED BY <2>1, <2>4, <2>5, <2>6 DEF Forms
<1>4. ASSUME NEW d \in Device, NEW ids \in SUBSET Lesson, NEW since \in 0..MaxClock,
             NEW out \in {{}, Packets(d, 0)}, Exchange(d, ids, since, out)
      PROVE  Shape' /\ Forms'
  <2>1. out \in SUBSET Packet
    BY Sent
  <2>2. /\ sync' \in [Device -> Session \cup {NoSync}]
        /\ UNCHANGED <<scene, stores, task, left, serve, cursor, circle, clock, history>>
    BY <1>4, <2>1, ExchangeFrame
  <2> QED BY <1>0, <2>2 DEF Shape, Forms
<1>5. ASSUME NEW d \in Device, ImportPeerBatch(d)
      PROVE  Shape' /\ Forms'
  <2>1. /\ sync' \in [Device -> Session \cup {NoSync}] /\ sync[d] \in Session /\ sync[d].at = "importing"
        /\ \/ UNCHANGED stores
           \/ \E p \in sync[d].saw : Write(d, p.m, PeerUpserted(row[d][p.m], p, sync[d].peer))
        /\ UNCHANGED <<scene, task, left, serve, cursor, circle, clock, history>>
    BY <1>5, ImportFrame
  <2>2. CASE \E p \in sync[d].saw : Write(d, p.m, PeerUpserted(row[d][p.m], p, sync[d].peer))
    <3>1. PICK p \in sync[d].saw : Write(d, p.m, PeerUpserted(row[d][p.m], p, sync[d].peer))
      BY <2>2
    <3>2. p \in Packet /\ p.m \in Lesson /\ sync[d].peer \in Device
      BY <2>1, Ongoing DEF Session, Packet, Calls, CallsOf
    <3>3. row[d][p.m] \in Row \cup {NoRow}
      BY <3>2 DEF Shape
    <3>4. PeerUpserted(row[d][p.m], p, sync[d].peer) \in Row
      BY <3>2, <3>3, ImportedRows
    <3>5. /\ row' \in [Device -> [Lesson -> Row \cup {NoRow}]]
          /\ node' \in [Device -> SUBSET Lesson] /\ heard' \in [Device -> SUBSET Lesson]
      BY <3>1, <3>2, <3>4, Writes
    <3> QED BY <1>0, <2>1, <3>5 DEF Shape, Forms
  <2>3. CASE UNCHANGED stores
    BY <1>0, <2>1, <2>3 DEF Shape, Forms
  <2> QED BY <2>1, <2>2, <2>3
<1>6. ASSUME NEW d \in Device, ApplyPeerSyncResult(d)
      PROVE  Shape' /\ Forms'
  <2>1. /\ sync' \in [Device -> Session \cup {NoSync}] /\ cursor' \in [Device -> 0..MaxClock]
        /\ UNCHANGED <<scene, stores, task, left, serve, circle, clock, history>>
    BY <1>6, ApplyFrame
  <2> QED BY <1>0, <2>1 DEF Shape, Forms
<1>7. ASSUME NEW d \in Device, RecordShareSyncReport(d) \/ ExchangeStops(d)
      PROVE  Shape' /\ Forms'
  <2>1. /\ sync' \in [Device -> Session \cup {NoSync}]
        /\ UNCHANGED <<scene, stores, task, left, serve, cursor, circle, clock, history>>
    BY <1>7, ReportFrame
  <2> QED BY <1>0, <2>1 DEF Shape, Forms
<1>8. ASSUME NEW d \in Device, NEW e \in Device,
             HandleSyncWire(d, e) \/ PeerTimeout(d, e) \/ BuildSyncResponse(e, d) \/ ListenerStops(e, d)
      PROVE  Shape' /\ Forms'
  <2>1. /\ sync' \in [Device -> Session \cup {NoSync}]
        /\ serve' \in [Device -> [Device -> Answer \cup {NoServe}]]
        /\ UNCHANGED <<scene, stores, task, left, cursor, circle, clock, history>>
    <3>1. CASE HandleSyncWire(d, e)
      BY <3>1, DialFrame
    <3>2. CASE PeerTimeout(d, e)
      BY <3>2, TimeoutFrame
    <3>3. CASE BuildSyncResponse(e, d)
      BY <3>3, AnswerFrame
    <3>4. CASE ListenerStops(e, d)
      BY <3>4, BreakFrame
    <3> QED BY <1>8, <3>1, <3>2, <3>3, <3>4
  <2> QED BY <1>0, <2>1 DEF Shape, Forms
<1>9. ASSUME NEW d \in Device, NEW e \in Device, ImportPushedPackets(e, d)
      PROVE  Shape' /\ Forms'
  <2>1. /\ serve' \in [Device -> [Device -> Answer \cup {NoServe}]] /\ serve[e][d] \in Answer
        /\ \/ UNCHANGED stores
           \/ \E p \in serve[e][d].saw : Write(e, p.m, PeerUpserted(row[e][p.m], p, d))
        /\ UNCHANGED <<scene, task, left, sync, cursor, circle, clock, history>>
    BY <1>9, PushedFrame
  <2>2. CASE \E p \in serve[e][d].saw : Write(e, p.m, PeerUpserted(row[e][p.m], p, d))
    <3>1. PICK p \in serve[e][d].saw : Write(e, p.m, PeerUpserted(row[e][p.m], p, d))
      BY <2>2
    <3>2. p \in Packet /\ p.m \in Lesson
      BY <2>1 DEF Answer, Packet
    <3>3. row[e][p.m] \in Row \cup {NoRow}
      BY <3>2 DEF Shape
    <3>4. PeerUpserted(row[e][p.m], p, d) \in Row
      BY <3>2, <3>3, ImportedRows
    <3>5. /\ row' \in [Device -> [Lesson -> Row \cup {NoRow}]]
          /\ node' \in [Device -> SUBSET Lesson] /\ heard' \in [Device -> SUBSET Lesson]
      BY <3>1, <3>2, <3>4, Writes
    <3> QED BY <2>1, <3>5 DEF Shape, Forms
  <2>3. CASE UNCHANGED stores
    BY <2>1, <2>3 DEF Shape, Forms
  <2> QED BY <2>1, <2>2, <2>3
<1>10. ASSUME NEW d \in Device, NEW e \in Device, ImportPeerCatalogs(d, e)
       PROVE  Shape' /\ Forms'
  <2>1. /\ node' \in [Device -> SUBSET Lesson] /\ heard' \in [Device -> SUBSET Lesson]
        /\ UNCHANGED <<scene, row, task, left, sync, serve, cursor, circle, clock, history>>
    BY <1>10, CatalogFrame
  <2> QED BY <2>1 DEF Shape, Forms
<1>11. ASSUME NEW d \in Device, NEW e \in Device, MarkPeerRevoked(d, e)
       PROVE  Shape' /\ Forms'
  <2>1. /\ row' \in [Device -> [Lesson -> Row \cup {NoRow}]]
        /\ node' \in [Device -> SUBSET Lesson] /\ heard' \in [Device -> SUBSET Lesson]
        /\ marking' \in [Device -> SUBSET Device]
        /\ UNCHANGED <<scene, task, left, sync, serve, cursor, active, clock, history>>
    BY <1>11, MarkFrame
  <2> QED BY <2>1 DEF Shape, Forms
<1>12. ASSUME NEW d \in Device, NEW e \in Device, RevokeMember(d, e)
       PROVE  Shape' /\ Forms'
  <2>1. /\ active' \in [Device -> SUBSET Device] /\ marking' \in [Device -> SUBSET Device]
        /\ overlap' \in [Device -> SUBSET Device]
        /\ UNCHANGED <<scene, stores, task, left, sync, serve, cursor, clock, recorded, touched>>
    BY <1>12, RevokeFrame
  <2> QED BY <2>1 DEF Shape, Forms
<1>13. ASSUME NEW d \in Device, NEW e \in Device, LearnRemoval(d, e)
       PROVE  Shape' /\ Forms'
  <2>1. /\ active' \in [Device -> SUBSET Device]
        /\ UNCHANGED <<scene, stores, task, left, sync, serve, cursor, marking, clock, history>>
    BY <1>13, LearnFrame
  <2> QED BY <2>1 DEF Shape, Forms
<1>14. CASE Tick
  <2>1. /\ clock < scene.seconds /\ clock' = clock + 1
        /\ UNCHANGED <<scene, stores, task, left, sync, serve, cursor, circle, history>>
    BY <1>14 DEF Tick
  <2>2. scene.seconds \in 1..MaxClock /\ clock \in 0..MaxClock
    BY DEF Shape, IsScene
  <2>3. clock' \in 0..MaxClock /\ clock' <= scene.seconds
    BY <2>1, <2>2, MemoriesAssumption
  <2> QED BY <2>1, <2>3 DEF Shape, Forms
<1> QED BY <1>1, <1>2, <1>3, <1>4, <1>5, <1>6, <1>7, <1>8, <1>9, <1>10, <1>11, <1>12, <1>13, <1>14 DEF MemoryStep

\* The graph stays in line with the table.
LEMMA Following ==
    ASSUME Shape, Forms, Follow, Calls, Origins, MemoryStep
    PROVE  Follow'
<1> USE DEF stores, circle, history
<1>0. UNCHANGED stores => Follow'
  BY DEF Follow
<1>1. ASSUME NEW d \in Device, NEW m \in Lesson, GetMemory(d, m) \/ RunGC(d, m)
      PROVE  UNCHANGED stores
  BY <1>1, BeginFrame
<1>2. ASSUME NEW d \in Device, NEW m \in Lesson, ConsolidateSession(d, m)
      PROVE  Follow'
  <2>1. /\ row[d][m] # NoRow
        /\ \A x \in Device, l \in Lesson : x # d \/ l # m => row'[x][l] = row[x][l]
        /\ row'[d][m] \in Row /\ row'[d][m].status = row[d][m].status
        /\ UNCHANGED <<node, heard>>
    BY <1>2, ConsolidateFrame
  <2>2. NoRow \notin Row
    BY RecallAssumption
  <2> SUFFICES ASSUME NEW x \in Device, NEW l \in Lesson
               PROVE  ((row[x][l] # NoRow /\ row[x][l].status = "active") <=> l \in node[x] \ heard[x])'
    BY DEF Follow
  <2>3. (row[x][l] # NoRow /\ row[x][l].status = "active") <=> l \in node[x] \ heard[x]
    BY DEF Follow
  <2>4. CASE x # d \/ l # m
    BY <2>1, <2>3, <2>4
  <2>5. CASE x = d /\ l = m
    BY <2>1, <2>2, <2>3, <2>5
  <2> QED BY <2>4, <2>5
<1>3. ASSUME NEW d \in Device, RecordMemory(d) \/ ValidateMemory(d) \/ DeleteMemory(d)
      PROVE  Follow'
  <2>1. task[d] \in Order /\ \E r \in Row \cup {NoRow} : Write(d, task[d].m, r)
    BY <1>3, CommandFrame
  <2>2. task[d].m \in Lesson
    BY <2>1 DEF Order
  <2> QED BY <2>1, <2>2, Writes
<1>4. ASSUME NEW d \in Device, NEW ids \in SUBSET Lesson, NEW since \in 0..MaxClock,
             NEW out \in {{}, Packets(d, 0)}, Exchange(d, ids, since, out)
      PROVE  UNCHANGED stores
  BY <1>4 DEF Exchange
<1>5. ASSUME NEW d \in Device, ImportPeerBatch(d)
      PROVE  Follow'
  <2>1. /\ sync[d] \in Session /\ sync[d].at = "importing"
        /\ \/ UNCHANGED stores
           \/ \E p \in sync[d].saw : Write(d, p.m, PeerUpserted(row[d][p.m], p, sync[d].peer))
    BY <1>5, ImportFrame
  <2>2. ASSUME NEW p \in sync[d].saw, Write(d, p.m, PeerUpserted(row[d][p.m], p, sync[d].peer))
        PROVE  Follow'
    <3>1. p \in Packet /\ p.m \in Lesson /\ sync[d].peer \in Device
      BY <2>1, Ongoing DEF Session, Packet, Calls, CallsOf
    <3>2. row[d][p.m] \in Row \cup {NoRow}
      BY <3>1 DEF Shape
    <3>3. PeerUpserted(row[d][p.m], p, sync[d].peer) \in Row
      BY <3>1, <3>2, ImportedRows
    <3> QED BY <2>2, <3>1, <3>3, Writes
  <2> QED BY <1>0, <2>1, <2>2
<1>6. ASSUME NEW e \in Device, NEW d \in Device, ImportPushedPackets(e, d)
      PROVE  Follow'
  <2>1. /\ serve[e][d] \in Answer
        /\ \/ UNCHANGED stores
           \/ \E p \in serve[e][d].saw : Write(e, p.m, PeerUpserted(row[e][p.m], p, d))
    BY <1>6, PushedFrame
  <2>2. ASSUME NEW p \in serve[e][d].saw, Write(e, p.m, PeerUpserted(row[e][p.m], p, d))
        PROVE  Follow'
    <3>1. p \in Packet /\ p.m \in Lesson
      BY <2>1 DEF Answer, Packet
    <3>2. row[e][p.m] \in Row \cup {NoRow}
      BY <3>1 DEF Shape
    <3>3. PeerUpserted(row[e][p.m], p, d) \in Row
      BY <3>1, <3>2, ImportedRows
    <3> QED BY <2>2, <3>1, <3>3, Writes
  <2> QED BY <1>0, <2>1, <2>2
<1>7. ASSUME NEW d \in Device, NEW e \in Device, ImportPeerCatalogs(d, e)
      PROVE  Follow'
  <2>1. (\A x \in Device : node'[x] \ heard'[x] = node[x] \ heard[x]) /\ row' = row
    BY <1>7, CatalogFrame
  <2> QED BY <2>1 DEF Follow
<1>8. ASSUME NEW d \in Device, NEW e \in Device, MarkPeerRevoked(d, e)
      PROVE  Follow'
  BY <1>8, MarkFrame
<1>9. ASSUME NEW d \in Device,
             ApplyPeerSyncResult(d) \/ RecordShareSyncReport(d) \/ ExchangeStops(d)
      PROVE  UNCHANGED stores
  BY <1>9 DEF ApplyPeerSyncResult, RecordShareSyncReport, ExchangeStops
<1>10. ASSUME NEW d \in Device, NEW e \in Device,
              \/ HandleSyncWire(d, e) \/ PeerTimeout(d, e) \/ BuildSyncResponse(e, d) \/ ListenerStops(e, d)
              \/ RevokeMember(d, e) \/ LearnRemoval(d, e)
       PROVE  UNCHANGED stores
  BY <1>10 DEF HandleSyncWire, TakesAnyone, PeerTimeout, BuildSyncResponse, ListenerStops, RevokeMember, LearnRemoval
<1>11. Tick => UNCHANGED stores
  BY DEF Tick
<1> QED BY <1>0, <1>1, <1>2, <1>3, <1>4, <1>5, <1>6, <1>7, <1>8, <1>9, <1>10, <1>11 DEF MemoryStep

\* What leaves the exchanges alone.
LEMMA ElsewhereFrame ==
    ASSUME \/ \E d \in Device, m \in Lesson : GetMemory(d, m) \/ RunGC(d, m) \/ ConsolidateSession(d, m)
           \/ \E d \in Device : RecordMemory(d) \/ ValidateMemory(d) \/ DeleteMemory(d)
           \/ \E d, e \in Device : \/ ImportPeerCatalogs(d, e) \/ MarkPeerRevoked(d, e)
                                   \/ RevokeMember(d, e) \/ LearnRemoval(d, e)
           \/ Tick
    PROVE  UNCHANGED <<sync, serve>>
BY DEF GetMemory, RunGC, Begin, ConsolidateSession, RecordMemory, ValidateMemory, DeleteMemory,
       ImportPeerCatalogs, MarkPeerRevoked, RetireRows, RevokeMember, LearnRemoval, Tick

\* A caller and its answer keep track of each other.
LEMMA Calling ==
    ASSUME Shape, Forms, Calls, Origins, MemoryStep
    PROVE  Calls'
<1> USE DEF stores, circle, history
<1>0. Nobody \notin Device
  BY MemoriesAssumption
<1>u. UNCHANGED <<sync, serve>> => Calls'
  BY DEF Calls, CallsOf
<1>1. ASSUME NEW d \in Device, NEW ids \in SUBSET Lesson, NEW since \in 0..MaxClock,
             NEW out \in {{}, Packets(d, 0)}, Exchange(d, ids, since, out)
      PROVE  Calls'
  <2>1. out \in SUBSET Packet
    BY Sent
  <2>2. /\ \A x \in Device : x # d => sync'[x] = sync[x]
        /\ sync[d] = NoSync /\ sync'[d] \in Session
        /\ sync'[d].at = "ready" /\ sync'[d].todo = active[d] \ {d} /\ sync'[d].peer = Nobody
        /\ sync'[d].queue = {} /\ sync'[d].saw = {} /\ serve' = serve
    BY <1>1, <2>1, ExchangeFrame
  <2> SUFFICES ASSUME NEW x \in Device
               PROVE  CallsOf(x)'
    BY DEF Calls, CallsOf
  <2>3. CASE x # d
    BY <2>2, <2>3 DEF Calls, CallsOf
  <2>4. CASE x = d
    BY <1>0, <2>2, <2>4, Blanks DEF Calls, CallsOf
  <2> QED BY <2>3, <2>4
<1>2. ASSUME NEW d \in Device, NEW e \in Device, HandleSyncWire(d, e)
      PROVE  Calls'
  <2>1. /\ \A x \in Device : x # d => sync'[x] = sync[x]
        /\ sync[d] \in Session /\ sync[d].at = "ready" /\ e \in sync[d].todo
        /\ sync'[d] \in Session /\ sync'[d].at = "asking" /\ sync'[d].peer = e
        /\ sync'[d].todo = sync[d].todo
        /\ sync'[d].queue = sync[d].queue /\ sync'[d].saw = sync[d].saw
        /\ \A x, y \in Device : x # e \/ y # d => serve'[x][y] = serve[x][y]
        /\ serve'[e][d] \in Answer /\ serve'[e][d].open
    BY <1>2, DialFrame
  <2> SUFFICES ASSUME NEW x \in Device
               PROVE  CallsOf(x)'
    BY DEF Calls, CallsOf
  <2>2. CASE x # d
    BY <2>1, <2>2 DEF Calls, CallsOf
  <2>3. CASE x = d
    <3>1. sync[d] # NoSync /\ d # e
      BY <2>1, Ongoing DEF Calls, CallsOf
    <3>2. \A y \in Device : (serve'[y][d] # NoServe /\ serve'[y][d].open) <=> y = e
      <4>1. \A y \in Device : ~(serve[y][d] # NoServe /\ serve[y][d].open)
        BY <2>1 DEF Calls, CallsOf
      <4>2. serve'[e][d] # NoServe
        BY <2>1, Blanks
      <4> QED BY <2>1, <4>1, <4>2
    <3>3. serve'[d][d] = NoServe
      BY <2>1, <3>1 DEF Calls, CallsOf
    <3>4. sync'[d] # NoSync
      BY <2>1, Blanks
    <3>5. /\ d \notin sync'[d].todo /\ d # sync'[d].peer /\ sync'[d].peer \in sync'[d].todo
          /\ sync'[d].queue = {} /\ sync'[d].saw = {}
      BY <2>1, <3>1 DEF Calls, CallsOf
    <3> QED BY <2>1, <2>3, <3>2, <3>3, <3>4, <3>5 DEF CallsOf
  <2> QED BY <2>2, <2>3
<1>3. ASSUME NEW d \in Device, NEW e \in Device, PeerTimeout(d, e)
      PROVE  Calls'
  <2>1. /\ \A x \in Device : x # d => sync'[x] = sync[x]
        /\ sync[d] \in Session /\ sync'[d] \in Session
        /\ sync'[d].at = "ready" /\ sync'[d].peer = Nobody
        /\ sync'[d].todo = sync[d].todo \ {e}
        /\ sync'[d].queue = sync[d].queue /\ sync'[d].saw = sync[d].saw
        /\ \A x, y \in Device : x # e \/ y # d => serve'[x][y] = serve[x][y]
        /\ \/ sync[d].at = "ready" /\ serve' = serve
           \/ /\ sync[d].at = "asking" /\ sync[d].peer = e
              /\ serve[e][d] \in Answer /\ ~serve'[e][d].open
    BY <1>3, TimeoutFrame
  <2> SUFFICES ASSUME NEW x \in Device
               PROVE  CallsOf(x)'
    BY DEF Calls, CallsOf
  <2>2. CASE x # d
    BY <2>1, <2>2 DEF Calls, CallsOf
  <2>3. CASE x = d
    <3>1. sync[d] # NoSync /\ sync'[d] # NoSync
      BY <2>1, Blanks
    <3>2. \A y \in Device : ~(serve'[y][d] # NoServe /\ serve'[y][d].open)
      <4>1. \A y \in Device : (serve[y][d] # NoServe /\ serve[y][d].open) => sync[d].at = "asking" /\ sync[d].peer = y
        BY DEF Calls, CallsOf
      <4>2. CASE sync[d].at = "ready"
        BY <2>1, <4>1, <4>2
      <4>3. CASE sync[d].at = "asking"
        BY <2>1, <4>1, <4>3
      <4> QED BY <2>1, <4>2, <4>3
    <3>3. (serve[d][d] = NoServe /\ d # e) \/ sync[d].at = "ready"
      BY <2>1, <3>1 DEF Calls, CallsOf
    <3>4. serve'[d][d] = NoServe
      BY <2>1, <3>3, Blanks DEF Calls, CallsOf
    <3>5. d \notin sync'[d].todo /\ sync'[d].queue = {} /\ sync'[d].saw = {}
      BY <2>1, <3>1 DEF Calls, CallsOf
    <3> QED BY <1>0, <2>1, <2>3, <3>1, <3>2, <3>4, <3>5 DEF CallsOf
  <2> QED BY <2>2, <2>3
<1>4. ASSUME NEW e \in Device, NEW d \in Device, BuildSyncResponse(e, d)
      PROVE  Calls'
  <2>1. /\ \A x \in Device : x # d => sync'[x] = sync[x]
        /\ \A x, y \in Device : x # e \/ y # d => serve'[x][y] = serve[x][y]
        /\ serve[e][d] \in Answer /\ serve'[e][d] = NoServe
        /\ \/ ~serve[e][d].open /\ sync' = sync
           \/ /\ serve[e][d].open /\ sync[d] \in Session /\ sync[d].at = "asking" /\ sync[d].peer = e
              /\ sync'[d] \in Session /\ sync'[d].at = "importing" /\ sync'[d].peer = e
              /\ sync'[d].todo = sync[d].todo
    BY <1>4, AnswerFrame
  <2> SUFFICES ASSUME NEW x \in Device
               PROVE  CallsOf(x)'
    BY DEF Calls, CallsOf
  <2>2. CASE x # d
    BY <2>1, <2>2 DEF Calls, CallsOf
  <2>3. CASE x = d /\ ~serve[e][d].open /\ sync' = sync
    BY <2>1, <2>3 DEF Calls, CallsOf
  <2>4. CASE x = d /\ sync[d].at = "asking" /\ sync[d] \in Session /\ sync'[d] \in Session /\ sync[d].peer = e
             /\ sync'[d].at = "importing" /\ sync'[d].peer = e /\ sync'[d].todo = sync[d].todo
    <3>1. sync[d] # NoSync /\ sync'[d] # NoSync
      BY <2>4, Blanks
    <3>2. \A y \in Device : ~(serve'[y][d] # NoServe /\ serve'[y][d].open)
      BY <2>1, <2>4 DEF Calls, CallsOf
    <3>3. serve'[d][d] = NoServe
      BY <2>1 DEF Calls, CallsOf
    <3>4. d \notin sync'[d].todo /\ d # sync'[d].peer /\ sync'[d].peer \in sync'[d].todo
      BY <2>4, <3>1 DEF Calls, CallsOf
    <3> QED BY <2>4, <3>1, <3>2, <3>3, <3>4 DEF CallsOf
  <2> QED BY <2>1, <2>2, <2>3, <2>4
<1>5. ASSUME NEW d \in Device, ImportPeerBatch(d)
      PROVE  Calls'
  <2>1. /\ \A x \in Device : x # d => sync'[x] = sync[x]
        /\ sync[d] \in Session /\ sync[d].at = "importing" /\ sync'[d] \in Session
        /\ sync'[d].at = "importing" /\ sync'[d].peer = sync[d].peer
        /\ sync'[d].todo = sync[d].todo /\ serve' = serve
    BY <1>5, ImportFrame
  <2>2. sync[d] # NoSync /\ sync'[d] # NoSync
    BY <2>1, Blanks
  <2> QED BY <2>1, <2>2 DEF Calls, CallsOf
<1>6. ASSUME NEW d \in Device, ApplyPeerSyncResult(d)
      PROVE  Calls'
  <2>1. /\ \A x \in Device : x # d => sync'[x] = sync[x]
        /\ sync[d] \in Session /\ sync[d].at = "importing" /\ sync'[d] \in Session
        /\ sync'[d].at = "ready" /\ sync'[d].peer = Nobody
        /\ sync'[d].todo = sync[d].todo \ {sync[d].peer}
        /\ sync'[d].queue = {} /\ sync'[d].saw = {} /\ serve' = serve
    BY <1>6, ApplyFrame
  <2>2. sync[d] # NoSync /\ sync'[d] # NoSync
    BY <2>1, Blanks
  <2> QED BY <1>0, <2>1, <2>2 DEF Calls, CallsOf
<1>7. ASSUME NEW d \in Device, RecordShareSyncReport(d) \/ ExchangeStops(d)
      PROVE  Calls'
  <2>1. /\ \A x \in Device : x # d => sync'[x] = sync[x]
        /\ sync[d] \in Session /\ sync[d].at # "asking" /\ sync'[d] = NoSync /\ serve' = serve
    BY <1>7, ReportFrame
  <2> QED BY <2>1 DEF Calls, CallsOf
<1>8. ASSUME NEW e \in Device, NEW d \in Device, ImportPushedPackets(e, d)
      PROVE  Calls'
  <2>1. /\ \A x, y \in Device : x # e \/ y # d => serve'[x][y] = serve[x][y]
        /\ serve[e][d] \in Answer /\ serve'[e][d] \in Answer /\ serve'[e][d].open = serve[e][d].open
        /\ sync' = sync
    BY <1>8, PushedFrame
  <2>2. serve[e][d] # NoServe /\ serve'[e][d] # NoServe /\ e # d
    BY <2>1, Blanks DEF Calls, CallsOf
  <2>3. \A x, y \in Device : (serve'[x][y] # NoServe /\ serve'[x][y].open) <=> (serve[x][y] # NoServe /\ serve[x][y].open)
    BY <2>1, <2>2
  <2> QED BY <2>1, <2>2, <2>3 DEF Calls, CallsOf
<1>9. ASSUME NEW e \in Device, NEW d \in Device, ListenerStops(e, d)
      PROVE  Calls'
  <2>1. /\ \A x \in Device : x # d => sync'[x] = sync[x]
        /\ \A x, y \in Device : x # e \/ y # d => serve'[x][y] = serve[x][y]
        /\ serve[e][d] \in Answer /\ serve'[e][d] = NoServe
        /\ \/ ~serve[e][d].open /\ sync' = sync
           \/ /\ serve[e][d].open /\ sync[d] \in Session /\ sync[d].at = "asking" /\ sync[d].peer = e
              /\ sync'[d] \in Session /\ sync'[d].at = "ready" /\ sync'[d].peer = Nobody
              /\ sync'[d].todo = sync[d].todo \ {e}
              /\ sync'[d].queue = sync[d].queue /\ sync'[d].saw = sync[d].saw
    BY <1>9, BreakFrame
  <2> SUFFICES ASSUME NEW x \in Device
               PROVE  CallsOf(x)'
    BY DEF Calls, CallsOf
  <2>2. CASE x # d
    BY <2>1, <2>2 DEF Calls, CallsOf
  <2>3. CASE x = d /\ ~serve[e][d].open /\ sync' = sync
    BY <2>1, <2>3 DEF Calls, CallsOf
  <2>4. CASE x = d /\ sync[d].at = "asking" /\ sync[d] \in Session /\ sync'[d] \in Session /\ sync[d].peer = e
             /\ sync'[d].at = "ready" /\ sync'[d].peer = Nobody /\ sync'[d].todo = sync[d].todo \ {e}
             /\ sync'[d].queue = sync[d].queue /\ sync'[d].saw = sync[d].saw
    <3>1. sync[d] # NoSync /\ sync'[d] # NoSync
      BY <2>4, Blanks
    <3>2. \A y \in Device : ~(serve'[y][d] # NoServe /\ serve'[y][d].open)
      BY <2>1, <2>4 DEF Calls, CallsOf
    <3>3. serve'[d][d] = NoServe
      BY <2>1 DEF Calls, CallsOf
    <3>4. d \notin sync'[d].todo /\ sync'[d].queue = {} /\ sync'[d].saw = {}
      BY <2>4, <3>1 DEF Calls, CallsOf
    <3> QED BY <1>0, <2>4, <3>1, <3>2, <3>3, <3>4 DEF CallsOf
  <2> QED BY <2>1, <2>2, <2>3, <2>4
<1> QED BY <1>u, <1>1, <1>2, <1>3, <1>4, <1>5, <1>6, <1>7, <1>8, <1>9, ElsewhereFrame DEF MemoryStep

\* Imports go packet by packet.
LEMMA Importing ==
    ASSUME Shape, Forms, Calls, OneByOne, Origins, MemoryStep
    PROVE  OneByOne'
<1> USE DEF stores, circle, history
<1>a. ASSUME NEW d \in Device, \A x \in Device : x # d => sync'[x] = sync[x], serve' = serve,
             sync'[d] # NoSync => OneSeen(sync'[d])
      PROVE  OneByOne'
  BY <1>a DEF OneByOne
<1>b. ASSUME NEW d \in Device, NEW e \in Device, sync' = sync \/ (sync'[d].saw = sync[d].saw /\ sync[d] # NoSync),
             \A x \in Device : x # d => sync'[x] = sync[x],
             \A x, y \in Device : x # e \/ y # d => serve'[x][y] = serve[x][y],
             serve'[e][d] # NoServe => OneSeen(serve'[e][d])
      PROVE  OneByOne'
  <2>1. \A x \in Device : sync'[x] # NoSync => OneSeen(sync'[x])
    BY <1>b DEF OneByOne, OneSeen
  <2>2. \A x, y \in Device : serve'[x][y] # NoServe => OneSeen(serve'[x][y])
    BY <1>b DEF OneByOne
  <2> QED BY <2>1, <2>2 DEF OneByOne, OneSeen
<1>u. UNCHANGED <<sync, serve>> => OneByOne'
  BY DEF OneByOne, OneSeen
<1>1. ASSUME NEW d \in Device, NEW ids \in SUBSET Lesson, NEW since \in 0..MaxClock,
             NEW out \in {{}, Packets(d, 0)}, Exchange(d, ids, since, out)
      PROVE  OneByOne'
  <2>1. out \in SUBSET Packet
    BY Sent
  <2>2. (\A x \in Device : x # d => sync'[x] = sync[x]) /\ sync'[d].saw = {} /\ serve' = serve
    BY <1>1, <2>1, ExchangeFrame
  <2> QED BY <1>a, <2>2 DEF OneSeen
<1>2. ASSUME NEW d \in Device, NEW e \in Device, HandleSyncWire(d, e)
      PROVE  OneByOne'
  <2>1. /\ \A x \in Device : x # d => sync'[x] = sync[x]
        /\ sync[d] \in Session /\ sync'[d].saw = sync[d].saw
        /\ \A x, y \in Device : x # e \/ y # d => serve'[x][y] = serve[x][y]
        /\ serve'[e][d].saw = {}
    BY <1>2, DialFrame
  <2>2. sync[d] # NoSync
    BY <2>1, Blanks
  <2> QED BY <1>b, <2>1, <2>2 DEF OneSeen
<1>3. ASSUME NEW d \in Device, NEW e \in Device, PeerTimeout(d, e)
      PROVE  OneByOne'
  <2>1. /\ \A x \in Device : x # d => sync'[x] = sync[x]
        /\ sync[d] \in Session /\ sync'[d].saw = sync[d].saw
        /\ \A x, y \in Device : x # e \/ y # d => serve'[x][y] = serve[x][y]
        /\ \/ serve' = serve
           \/ serve[e][d] \in Answer /\ serve'[e][d].saw = serve[e][d].saw
    BY <1>3, TimeoutFrame
  <2>2. sync[d] # NoSync
    BY <2>1, Blanks
  <2>3. serve'[e][d] # NoServe => OneSeen(serve'[e][d])
    BY <2>1, Blanks DEF OneByOne, OneSeen
  <2> QED BY <1>b, <2>1, <2>2, <2>3
<1>4. ASSUME NEW e \in Device, NEW d \in Device, BuildSyncResponse(e, d)
      PROVE  OneByOne'
  <2>1. /\ \A x \in Device : x # d => sync'[x] = sync[x]
        /\ \A x, y \in Device : x # e \/ y # d => serve'[x][y] = serve[x][y]
        /\ serve'[e][d] = NoServe
        /\ sync' = sync \/ (sync[d] \in Session /\ sync'[d].saw = sync[d].saw)
    BY <1>4, AnswerFrame
  <2>2. sync' = sync \/ (sync'[d].saw = sync[d].saw /\ sync[d] # NoSync)
    BY <2>1, Blanks
  <2>3. \A x \in Device : x # d => sync'[x] = sync[x]
    BY <2>1
  <2>4. \A x, y \in Device : x # e \/ y # d => serve'[x][y] = serve[x][y]
    BY <2>1
  <2> QED BY <1>b, <2>1, <2>2, <2>3, <2>4
<1>5. ASSUME NEW d \in Device, ImportPeerBatch(d) PROVE OneByOne'
  <2>1. (\A x \in Device : x # d => sync'[x] = sync[x]) /\ OneSeen(sync'[d]) /\ serve' = serve
    BY <1>5, ImportFrame
  <2> QED BY <1>a, <2>1
<1>6. ASSUME NEW d \in Device, ApplyPeerSyncResult(d) PROVE OneByOne'
  <2>1. (\A x \in Device : x # d => sync'[x] = sync[x]) /\ sync'[d].saw = {} /\ serve' = serve
    BY <1>6, ApplyFrame
  <2> QED BY <1>a, <2>1 DEF OneSeen
<1>7. ASSUME NEW d \in Device, RecordShareSyncReport(d) \/ ExchangeStops(d) PROVE OneByOne'
  <2>1. (\A x \in Device : x # d => sync'[x] = sync[x]) /\ sync'[d] = NoSync /\ serve' = serve
    BY <1>7, ReportFrame
  <2> QED BY <1>a, <2>1
<1>8. ASSUME NEW e \in Device, NEW d \in Device, ImportPushedPackets(e, d) PROVE OneByOne'
  <2>1. /\ \A x, y \in Device : x # e \/ y # d => serve'[x][y] = serve[x][y]
        /\ OneSeen(serve'[e][d]) /\ sync' = sync
    BY <1>8, PushedFrame
  <2> QED BY <1>b, <2>1
<1>9. ASSUME NEW e \in Device, NEW d \in Device, ListenerStops(e, d) PROVE OneByOne'
  <2>1. /\ \A x \in Device : x # d => sync'[x] = sync[x]
        /\ \A x, y \in Device : x # e \/ y # d => serve'[x][y] = serve[x][y]
        /\ serve'[e][d] = NoServe
        /\ sync' = sync \/ (sync[d] \in Session /\ sync'[d].saw = sync[d].saw)
    BY <1>9, BreakFrame
  <2>2. sync' = sync \/ (sync'[d].saw = sync[d].saw /\ sync[d] # NoSync)
    BY <2>1, Blanks
  <2>3. \A x \in Device : x # d => sync'[x] = sync[x]
    BY <2>1
  <2>4. \A x, y \in Device : x # e \/ y # d => serve'[x][y] = serve[x][y]
    BY <2>1
  <2> QED BY <1>b, <2>1, <2>2, <2>3, <2>4
<1> QED BY <1>u, <1>1, <1>2, <1>3, <1>4, <1>5, <1>6, <1>7, <1>8, <1>9, ElsewhereFrame DEF MemoryStep

\* Whose the lessons are does not change on the way.
LEMMA Sourcing ==
    ASSUME Shape, Forms, Calls, Origins, MemoryStep
    PROVE  Origins'
<1> USE DEF stores, circle, history
<1>0. /\ \A x \in Device, m \in Lesson : row[x][m] # NoRow => m \in recorded[row[x][m].from]
      /\ \A x \in Device : task[x] \in Order /\ task[x].saw # NoRow => task[x].m \in recorded[task[x].saw.from]
      /\ \A x \in Device : sync[x] \in Session =>
            /\ \A p \in sync[x].out : p.m \in recorded[x]
            /\ sync[x].at = "importing" =>
                  \A p \in sync[x].queue \cup sync[x].saw : p.m \in recorded[sync[x].peer]
      /\ \A x, y \in Device : serve[y][x] \in Answer =>
              \A p \in serve[y][x].queue \cup serve[y][x].saw : p.m \in recorded[x]
  BY Ongoing DEF Origins
<1>b. /\ \A x \in Device : /\ task'[x] \in Order \cup {NoTask} => (task'[x] # NoTask => task'[x] \in Order)
                           /\ sync'[x] \in Session \cup {NoSync} => (sync'[x] # NoSync => sync'[x] \in Session)
      /\ \A x, y \in Device : serve'[y][x] \in Answer \cup {NoServe} => (serve'[y][x] # NoServe => serve'[y][x] \in Answer)
  OBVIOUS
<1>t. Shape' /\ Forms'
  BY Typing
<1> SUFFICES
      /\ \A x \in Device, m \in Lesson : row'[x][m] # NoRow => m \in recorded'[row'[x][m].from]
      /\ \A x \in Device : task'[x] \in Order /\ task'[x].saw # NoRow => task'[x].m \in recorded'[task'[x].saw.from]
      /\ \A x \in Device : sync'[x] \in Session =>
            /\ \A p \in sync'[x].out : p.m \in recorded'[x]
            /\ sync'[x].at = "importing" =>
                  \A p \in sync'[x].queue \cup sync'[x].saw : p.m \in recorded'[sync'[x].peer]
      /\ \A x, y \in Device : serve'[y][x] \in Answer =>
              \A p \in serve'[y][x].queue \cup serve'[y][x].saw : p.m \in recorded'[x]
  BY <1>b, <1>t DEF Origins, Forms
<1> DEFINE RowsOk == \A x \in Device, m \in Lesson : row'[x][m] # NoRow => m \in recorded'[row'[x][m].from]
           TasksOk == \A x \in Device : task'[x] \in Order /\ task'[x].saw # NoRow => task'[x].m \in recorded'[task'[x].saw.from]
           CallsOk == \A x \in Device : sync'[x] \in Session =>
            /\ \A p \in sync'[x].out : p.m \in recorded'[x]
            /\ sync'[x].at = "importing" =>
                  \A p \in sync'[x].queue \cup sync'[x].saw : p.m \in recorded'[sync'[x].peer]
           AnswersOk == \A x, y \in Device : serve'[y][x] \in Answer =>
              \A p \in serve'[y][x].queue \cup serve'[y][x].saw : p.m \in recorded'[x]
<1>r. row' = row /\ recorded' = recorded => RowsOk
  BY <1>0
<1>k. task' = task /\ recorded' = recorded => TasksOk
  BY <1>0
<1>c. sync' = sync /\ recorded' = recorded => CallsOk
  BY <1>0
<1>a. serve' = serve /\ recorded' = recorded => AnswersOk
  BY <1>0
<1>1. ASSUME NEW d \in Device, NEW m \in Lesson, GetMemory(d, m) \/ RunGC(d, m)
      PROVE  RowsOk /\ TasksOk /\ CallsOk /\ AnswersOk
  <2>1. /\ \A x \in Device : x # d => task'[x] = task[x]
        /\ task'[d].m = m /\ task'[d].saw = row[d][m]
        /\ UNCHANGED <<row, sync, serve, recorded>>
    BY <1>1, BeginFrame
  <2>2. TasksOk
    BY <1>0, <2>1
  <2> QED BY <1>r, <1>c, <1>a, <2>1, <2>2
<1>2. ASSUME NEW d \in Device, NEW m \in Lesson, ConsolidateSession(d, m)
      PROVE  RowsOk /\ TasksOk /\ CallsOk /\ AnswersOk
  <2>1. /\ row[d][m] # NoRow /\ row[d][m].from = d
        /\ \A x \in Device, l \in Lesson : x # d \/ l # m => row'[x][l] = row[x][l]
        /\ row'[d][m].from = d
        /\ UNCHANGED <<task, sync, serve, recorded>>
    BY <1>2, ConsolidateFrame
  <2>2. RowsOk
    BY <1>0, <2>1
  <2> QED BY <1>k, <1>c, <1>a, <2>1, <2>2
<1>3. ASSUME NEW d \in Device, RecordMemory(d) \/ ValidateMemory(d) \/ DeleteMemory(d)
      PROVE  RowsOk /\ TasksOk /\ CallsOk /\ AnswersOk
  <2>1. /\ task[d] \in Order /\ task' = [task EXCEPT ![d] = NoTask]
        /\ \A x \in Device : recorded[x] \subseteq recorded'[x]
        /\ \E r \in Row \cup {NoRow} :
              /\ Write(d, task[d].m, r)
              /\ r # NoRow => task[d].m \in recorded'[r.from]
        /\ UNCHANGED <<sync, serve>>
    BY <1>3, CommandFrame
  <2>2. PICK r \in Row \cup {NoRow} :
              /\ Write(d, task[d].m, r)
              /\ r # NoRow => task[d].m \in recorded'[r.from]
    BY <2>1
  <2>3. task[d].m \in Lesson
    BY <2>1 DEF Order
  <2>4. /\ row'[d][task[d].m] = r
        /\ \A x \in Device, l \in Lesson : x # d \/ l # task[d].m => row'[x][l] = row[x][l]
    BY <2>2, <2>3, Writes
  <2>5. \A x \in Device, m \in Lesson : row[x][m] # NoRow => row[x][m].from \in Device
    BY DEF Shape, Row
  <2>6. \A x \in Device : task[x] \in Order /\ task[x].saw # NoRow => task[x].saw.from \in Device
    BY DEF Order, Row
  <2>7. \A x \in Device : sync[x] \in Session /\ sync[x].at = "importing" => sync[x].peer \in Device
    BY Ongoing DEF Session, Calls, CallsOf
  <2>8. RowsOk
    <3> SUFFICES ASSUME NEW x \in Device, NEW m \in Lesson, row'[x][m] # NoRow
                 PROVE  m \in recorded'[row'[x][m].from]
      OBVIOUS
    <3>1. CASE x = d /\ m = task[d].m
      BY <2>2, <2>4, <3>1
    <3>2. CASE ~(x = d /\ m = task[d].m)
      BY <1>0, <2>1, <2>4, <2>5, <3>2
    <3> QED BY <3>1, <3>2
  <2>9. TasksOk
    <3>1. \A x \in Device : task'[x] = IF x = d THEN NoTask ELSE task[x]
      BY <2>1 DEF Forms
    <3> QED BY <1>0, <2>1, <2>6, <3>1, Blanks
  <2>10. CallsOk
    BY <1>0, <2>1, <2>7
  <2>11. AnswersOk
    BY <1>0, <2>1
  <2> QED BY <2>8, <2>9, <2>10, <2>11
<1>4. ASSUME NEW d \in Device, NEW ids \in SUBSET Lesson, NEW since \in 0..MaxClock,
             NEW out \in {{}, Packets(d, 0)}, Exchange(d, ids, since, out)
      PROVE  RowsOk /\ TasksOk /\ CallsOk /\ AnswersOk
  <2>1. out \in SUBSET Packet /\ \A p \in out : p.m \in recorded[d]
    BY Sent
  <2>a. PICK sent \in SUBSET Packet : sent = out
    BY <2>1
  <2>b. Exchange(d, ids, since, sent)
    BY <1>4, <2>a
  <2>c. /\ \A x \in Device : x # d => sync'[x] = sync[x]
        /\ sync'[d].at = "ready"
    BY <2>b, ExchangeFrame
  <2>e. sync'[d].out = sent
    BY <2>b DEF Exchange, Forms
  <2>d. UNCHANGED <<row, task, serve, recorded>>
    BY <2>b DEF Exchange
  <2>2. /\ \A x \in Device : x # d => sync'[x] = sync[x]
        /\ sync'[d].at = "ready" /\ sync'[d].out = sent
        /\ UNCHANGED <<row, task, serve, recorded>>
    BY <2>c, <2>d, <2>e
  <2>3. CallsOk
    BY <1>0, <2>1, <2>a, <2>2
  <2> QED BY <1>r, <1>k, <1>a, <2>2, <2>3
<1>5. ASSUME NEW d \in Device, NEW e \in Device, HandleSyncWire(d, e)
      PROVE  RowsOk /\ TasksOk /\ CallsOk /\ AnswersOk
  <2>1. /\ \A x \in Device : x # d => sync'[x] = sync[x]
        /\ sync[d] \in Session /\ sync'[d].at = "asking" /\ sync'[d].out = sync[d].out
        /\ \A x, y \in Device : x # e \/ y # d => serve'[x][y] = serve[x][y]
        /\ serve'[e][d].queue = sync[d].out /\ serve'[e][d].saw = {}
        /\ UNCHANGED <<row, task, recorded>>
    BY <1>5, DialFrame
  <2>2. CallsOk
    BY <1>0, <2>1
  <2>3. AnswersOk
    BY <1>0, <2>1
  <2> QED BY <1>r, <1>k, <2>1, <2>2, <2>3
<1>6. ASSUME NEW d \in Device, NEW e \in Device, PeerTimeout(d, e)
      PROVE  RowsOk /\ TasksOk /\ CallsOk /\ AnswersOk
  <2>1. /\ \A x \in Device : x # d => sync'[x] = sync[x]
        /\ sync[d] \in Session /\ sync'[d].at = "ready" /\ sync'[d].out = sync[d].out
        /\ \A x, y \in Device : x # e \/ y # d => serve'[x][y] = serve[x][y]
        /\ \/ serve' = serve
           \/ /\ serve[e][d] \in Answer
              /\ serve'[e][d].queue = serve[e][d].queue /\ serve'[e][d].saw = serve[e][d].saw
        /\ UNCHANGED <<row, task, recorded>>
    BY <1>6, TimeoutFrame
  <2>2. CallsOk
    BY <1>0, <2>1
  <2>3. AnswersOk
    BY <1>0, <2>1
  <2> QED BY <1>r, <1>k, <2>1, <2>2, <2>3
<1>7. ASSUME NEW e \in Device, NEW d \in Device, BuildSyncResponse(e, d)
      PROVE  RowsOk /\ TasksOk /\ CallsOk /\ AnswersOk
  <2>1. /\ \A x \in Device : x # d => sync'[x] = sync[x]
        /\ \A x, y \in Device : x # e \/ y # d => serve'[x][y] = serve[x][y]
        /\ serve'[e][d] = NoServe
        /\ \/ sync' = sync
           \/ /\ sync[d] \in Session /\ sync[d].at = "asking"
              /\ sync'[d].peer = e /\ sync'[d].out = sync[d].out /\ sync'[d].saw = sync[d].saw
              /\ \A p \in sync'[d].queue : p.m \in recorded[e]
        /\ UNCHANGED <<row, task, recorded>>
    BY <1>7, AnswerFrame
  <2>2. CallsOk
    <3>1. CASE sync' = sync
      BY <1>c, <2>1, <3>1
    <3>2. CASE /\ sync[d] \in Session /\ sync[d].at = "asking"
               /\ sync'[d].peer = e /\ sync'[d].out = sync[d].out /\ sync'[d].saw = sync[d].saw
               /\ \A p \in sync'[d].queue : p.m \in recorded[e]
      <4>1. sync[d].saw = {}
        BY <3>2, Blanks DEF Calls, CallsOf
      <4> QED BY <1>0, <2>1, <3>2, <4>1
    <3> QED BY <2>1, <3>1, <3>2
  <2>3. AnswersOk
    BY <1>0, <2>1, Blanks
  <2> QED BY <1>r, <1>k, <2>1, <2>2, <2>3
<1>8. ASSUME NEW d \in Device, ImportPeerBatch(d)
      PROVE  RowsOk /\ TasksOk /\ CallsOk /\ AnswersOk
  <2>1. /\ \A x \in Device : x # d => sync'[x] = sync[x]
        /\ sync[d] \in Session /\ sync[d].at = "importing"
        /\ sync'[d].peer = sync[d].peer /\ sync'[d].out = sync[d].out
        /\ sync'[d].queue \cup sync'[d].saw \subseteq sync[d].queue \cup sync[d].saw
        /\ \/ UNCHANGED stores
           \/ \E p \in sync[d].saw : Write(d, p.m, PeerUpserted(row[d][p.m], p, sync[d].peer))
        /\ UNCHANGED <<task, serve, recorded>>
    BY <1>8, ImportFrame
  <2>2. CallsOk
    <3>1. \A p \in sync'[d].queue \cup sync'[d].saw : p.m \in recorded[sync[d].peer]
      BY <1>0, <2>1
    <3> QED BY <1>0, <2>1, <3>1
  <2>3. ASSUME NEW p \in sync[d].saw, Write(d, p.m, PeerUpserted(row[d][p.m], p, sync[d].peer))
        PROVE  RowsOk
    <3>1. p \in Packet /\ p.m \in Lesson /\ sync[d].peer \in Device /\ p.m \in recorded[sync[d].peer]
      BY <1>0, <2>1, Ongoing DEF Session, Packet, Calls, CallsOf
    <3>2. row[d][p.m] \in Row \cup {NoRow}
      BY <3>1 DEF Shape
    <3>3. /\ PeerUpserted(row[d][p.m], p, sync[d].peer) \in Row
          /\ PeerUpserted(row[d][p.m], p, sync[d].peer).from
               = IF row[d][p.m] = NoRow THEN sync[d].peer ELSE row[d][p.m].from
      <4>1. PICK old \in Row \cup {NoRow} : old = row[d][p.m]
        BY <3>2
      <4>2. PICK peer \in Device : peer = sync[d].peer
        BY <3>1
      <4> QED BY <3>1, <4>1, <4>2, ImportedRows
    <3>4. /\ row'[d][p.m] = PeerUpserted(row[d][p.m], p, sync[d].peer)
          /\ \A x \in Device, l \in Lesson : x # d \/ l # p.m => row'[x][l] = row[x][l]
      BY <2>3, <3>1, <3>3, Writes
    <3>5. p.m \in recorded'[row'[d][p.m].from]
      BY <1>0, <2>1, <3>1, <3>3, <3>4
    <3> QED BY <1>0, <2>1, <3>4, <3>5
  <2>4. RowsOk
    BY <1>r, <2>1, <2>3
  <2> QED BY <1>k, <1>a, <2>1, <2>2, <2>4
<1>9. ASSUME NEW e \in Device, NEW d \in Device, ImportPushedPackets(e, d)
      PROVE  RowsOk /\ TasksOk /\ CallsOk /\ AnswersOk
  <2>1. /\ \A x, y \in Device : x # e \/ y # d => serve'[x][y] = serve[x][y]
        /\ serve[e][d] \in Answer
        /\ serve'[e][d].queue \cup serve'[e][d].saw \subseteq serve[e][d].queue \cup serve[e][d].saw
        /\ \/ UNCHANGED stores
           \/ \E p \in serve[e][d].saw : Write(e, p.m, PeerUpserted(row[e][p.m], p, d))
        /\ UNCHANGED <<task, sync, recorded>>
    BY <1>9, PushedFrame
  <2>2. AnswersOk
    <3>1. \A p \in serve'[e][d].queue \cup serve'[e][d].saw : p.m \in recorded[d]
      BY <1>0, <2>1
    <3> QED BY <1>0, <2>1, <3>1
  <2>3. ASSUME NEW p \in serve[e][d].saw, Write(e, p.m, PeerUpserted(row[e][p.m], p, d))
        PROVE  RowsOk
    <3>1. p \in Packet /\ p.m \in Lesson /\ p.m \in recorded[d]
      BY <1>0, <2>1 DEF Answer, Packet
    <3>2. row[e][p.m] \in Row \cup {NoRow}
      BY <3>1 DEF Shape
    <3>3. /\ PeerUpserted(row[e][p.m], p, d) \in Row
          /\ PeerUpserted(row[e][p.m], p, d).from = IF row[e][p.m] = NoRow THEN d ELSE row[e][p.m].from
      BY <3>1, <3>2, ImportedRows
    <3>4. /\ row'[e][p.m] = PeerUpserted(row[e][p.m], p, d)
          /\ \A x \in Device, l \in Lesson : x # e \/ l # p.m => row'[x][l] = row[x][l]
      BY <2>3, <3>1, <3>3, Writes
    <3>5. p.m \in recorded'[row'[e][p.m].from]
      BY <1>0, <2>1, <3>1, <3>3, <3>4
    <3> QED BY <1>0, <2>1, <3>4, <3>5
  <2>4. RowsOk
    BY <1>r, <2>1, <2>3
  <2> QED BY <1>k, <1>c, <2>1, <2>2, <2>4
<1>10. ASSUME NEW d \in Device, ApplyPeerSyncResult(d)
       PROVE  RowsOk /\ TasksOk /\ CallsOk /\ AnswersOk
  <2>1. /\ \A x \in Device : x # d => sync'[x] = sync[x]
        /\ sync[d] \in Session /\ sync'[d].at = "ready" /\ sync'[d].out = sync[d].out
        /\ UNCHANGED <<row, task, serve, recorded>>
    BY <1>10, ApplyFrame
  <2>2. CallsOk
    BY <1>0, <2>1
  <2> QED BY <1>r, <1>k, <1>a, <2>1, <2>2
<1>11. ASSUME NEW d \in Device, RecordShareSyncReport(d) \/ ExchangeStops(d)
       PROVE  RowsOk /\ TasksOk /\ CallsOk /\ AnswersOk
  <2>1. /\ \A x \in Device : x # d => sync'[x] = sync[x]
        /\ sync'[d] = NoSync
        /\ UNCHANGED <<row, task, serve, recorded>>
    BY <1>11, ReportFrame
  <2>2. CallsOk
    BY <1>0, <2>1, Blanks
  <2> QED BY <1>r, <1>k, <1>a, <2>1, <2>2
<1>12. ASSUME NEW d \in Device, NEW e \in Device, MarkPeerRevoked(d, e)
       PROVE  RowsOk /\ TasksOk /\ CallsOk /\ AnswersOk
  <2>1. /\ \A x \in Device, l \in Lesson : x # d \/ l \notin From(d, e) => row'[x][l] = row[x][l]
        /\ \A l \in From(d, e) : row'[d][l].from = e
        /\ UNCHANGED <<task, sync, serve, recorded>>
    BY <1>12, MarkFrame
  <2>2. \A l \in From(d, e) : row[d][l] # NoRow /\ row[d][l].from = e
    BY DEF From
  <2>3. RowsOk
    BY <1>0, <2>1, <2>2
  <2> QED BY <1>k, <1>c, <1>a, <2>1, <2>3
<1>13. ASSUME NEW d \in Device, NEW e \in Device,
              ImportPeerCatalogs(d, e) \/ RevokeMember(d, e) \/ LearnRemoval(d, e)
       PROVE  UNCHANGED <<row, task, sync, serve, recorded>>
  BY <1>13 DEF ImportPeerCatalogs, RevokeMember, LearnRemoval
<1>14. Tick => UNCHANGED <<row, task, sync, serve, recorded>>
  BY DEF Tick
<1>15. UNCHANGED <<row, task, sync, serve, recorded>> => RowsOk /\ TasksOk /\ CallsOk /\ AnswersOk
  BY <1>r, <1>k, <1>c, <1>a
<1>17. ASSUME NEW e \in Device, NEW d \in Device, ListenerStops(e, d)
       PROVE  RowsOk /\ TasksOk /\ CallsOk /\ AnswersOk
  <2>1. /\ \A x \in Device : x # d => sync'[x] = sync[x]
        /\ \A x, y \in Device : x # e \/ y # d => serve'[x][y] = serve[x][y]
        /\ serve'[e][d] = NoServe
        /\ \/ sync' = sync
           \/ sync[d] \in Session /\ sync'[d].at = "ready" /\ sync'[d].out = sync[d].out
        /\ UNCHANGED <<row, task, recorded>>
    BY <1>17, BreakFrame
  <2>2. CallsOk
    BY <1>0, <1>c, <2>1
  <2>3. AnswersOk
    BY <1>0, <2>1, Blanks
  <2> QED BY <1>r, <1>k, <2>1, <2>2, <2>3
<1> HIDE DEF RowsOk, TasksOk, CallsOk, AnswersOk
<1>16. RowsOk /\ TasksOk /\ CallsOk /\ AnswersOk
  BY <1>1, <1>2, <1>3, <1>4, <1>5, <1>6, <1>7, <1>8, <1>9, <1>10, <1>11, <1>12, <1>13, <1>14, <1>15, <1>17
  DEF MemoryStep
<1> QED BY <1>16 DEF RowsOk, TasksOk, CallsOk, AnswersOk

\* What no step takes back, and which steps take a device out of a circle or retire its rows.
LEMMA Ratchets ==
    ASSUME Shape, Forms, Calls, Origins, MemoryStep
    PROVE  /\ scene' = scene
           /\ \A x \in Device : /\ active'[x] \subseteq active[x] /\ overlap[x] \subseteq overlap'[x]
                                /\ touched[x] \subseteq touched'[x] /\ recorded[x] \subseteq recorded'[x]
           /\ \A x, y \in Device : y \in active[x] \ active'[x] => RevokeMember(x, y) \/ LearnRemoval(x, y)
           /\ \A x, y \in Device : y \in marking[x] \ marking'[x] => MarkPeerRevoked(x, y)
<1> USE DEF stores, circle, history
<1> DEFINE Holds ==
           /\ scene' = scene
           /\ \A x \in Device : /\ active'[x] \subseteq active[x] /\ overlap[x] \subseteq overlap'[x]
                                /\ touched[x] \subseteq touched'[x] /\ recorded[x] \subseteq recorded'[x]
           /\ \A x, y \in Device : y \in active[x] \ active'[x] => RevokeMember(x, y) \/ LearnRemoval(x, y)
           /\ \A x, y \in Device : y \in marking[x] \ marking'[x] => MarkPeerRevoked(x, y)
<1>0. UNCHANGED <<scene, active, marking, overlap, touched, recorded>> => Holds
  OBVIOUS
<1>1. ASSUME NEW d \in Device, RecordMemory(d) \/ ValidateMemory(d) \/ DeleteMemory(d)
      PROVE  Holds
  <2>1. /\ touched' = [touched EXCEPT ![d] = touched[d] \cup {task[d].m}]
        /\ \A x \in Device : recorded[x] \subseteq recorded'[x]
        /\ UNCHANGED <<scene, left, sync, serve, cursor, circle, clock, overlap>>
    BY <1>1, CommandFrame
  <2>2. \A x \in Device : touched[x] \subseteq touched'[x]
    BY <2>1 DEF Forms
  <2> QED BY <2>1, <2>2
<1>2. ASSUME NEW d \in Device, NEW e \in Device, MarkPeerRevoked(d, e)
      PROVE  Holds
  <2>1. /\ \A x, y \in Device : x # d \/ y # e => (y \in marking'[x] <=> y \in marking[x])
        /\ UNCHANGED <<scene, task, left, sync, serve, cursor, active, clock, history>>
    BY <1>2, MarkFrame
  <2> QED BY <1>2, <2>1
<1>3. ASSUME NEW d \in Device, NEW e \in Device, RevokeMember(d, e)
      PROVE  Holds
  <2>1. /\ active' = [active EXCEPT ![d] = active[d] \ {e}]
        /\ e \in marking'[d] /\ \A x, y \in Device : x # d \/ y # e => (y \in marking'[x] <=> y \in marking[x])
        /\ \A x \in Device : overlap[x] \subseteq overlap'[x]
        /\ UNCHANGED <<scene, stores, task, left, sync, serve, cursor, clock, recorded, touched>>
    BY <1>3, RevokeFrame
  <2>2. \A x \in Device : active'[x] = IF x = d THEN active[d] \ {e} ELSE active[x]
    BY <2>1 DEF Shape
  <2> QED BY <1>3, <2>1, <2>2
<1>4. ASSUME NEW d \in Device, NEW e \in Device, LearnRemoval(d, e)
      PROVE  Holds
  <2>1. /\ active' = [active EXCEPT ![d] = active[d] \ {e}]
        /\ UNCHANGED <<scene, stores, task, left, sync, serve, cursor, marking, clock, history>>
    BY <1>4, LearnFrame
  <2>2. \A x \in Device : active'[x] = IF x = d THEN active[d] \ {e} ELSE active[x]
    BY <2>1 DEF Shape
  <2> QED BY <1>4, <2>1, <2>2
<1>5. ASSUME NEW d \in Device, NEW m \in Lesson, GetMemory(d, m) \/ RunGC(d, m) \/ ConsolidateSession(d, m)
      PROVE  UNCHANGED <<scene, active, marking, overlap, touched, recorded>>
  BY <1>5 DEF GetMemory, RunGC, Begin, ConsolidateSession
<1>6. ASSUME NEW d \in Device,
             ImportPeerBatch(d) \/ ApplyPeerSyncResult(d) \/ RecordShareSyncReport(d) \/ ExchangeStops(d)
      PROVE  UNCHANGED <<scene, active, marking, overlap, touched, recorded>>
  BY <1>6 DEF ImportPeerBatch, ApplyPeerSyncResult, RecordShareSyncReport, ExchangeStops
<1>7. ASSUME NEW d \in Device, NEW e \in Device,
             \/ HandleSyncWire(d, e) \/ PeerTimeout(d, e)
             \/ ImportPushedPackets(e, d) \/ BuildSyncResponse(e, d) \/ ListenerStops(e, d)
             \/ ImportPeerCatalogs(d, e)
      PROVE  UNCHANGED <<scene, active, marking, overlap, touched, recorded>>
  BY <1>7 DEF HandleSyncWire, TakesAnyone, PeerTimeout, ImportPushedPackets, BuildSyncResponse, ListenerStops,
              ImportPeerCatalogs
<1>8. ASSUME NEW d \in Device, NEW ids \in SUBSET Lesson, NEW since \in 0..MaxClock,
             NEW out \in {{}, Packets(d, 0)}, Exchange(d, ids, since, out)
      PROVE  UNCHANGED <<scene, active, marking, overlap, touched, recorded>>
  BY <1>8 DEF Exchange
<1>9. Tick => UNCHANGED <<scene, active, marking, overlap, touched, recorded>>
  BY DEF Tick
<1> HIDE DEF Holds
<1>10. Holds
  BY <1>0, <1>1, <1>2, <1>3, <1>4, <1>5, <1>6, <1>7, <1>8, <1>9 DEF MemoryStep
<1> QED BY <1>10 DEF Holds

\* Who starts to exchange with a device has it in its circle.
LEMMA Contacts ==
    ASSUME Shape, Forms, Calls, Origins, MemoryStep,
           NEW x \in Device, NEW y \in Device, Exchanging(x, y)'
    PROVE  Exchanging(x, y) \/ y \in active[x]
<1> USE DEF stores, circle, history
<1>0. /\ sync'[x].at # "idle" /\ (y = sync'[x].peer \/ y \in sync'[x].todo)
      \/ serve'[x][y].at # "idle"
  BY DEF Exchanging
<1>u. UNCHANGED <<sync, serve>> => Exchanging(x, y)
  BY <1>0 DEF Exchanging
<1>n. Nobody \notin Device
  BY MemoriesAssumption
<1>1. ASSUME NEW d \in Device, NEW ids \in SUBSET Lesson, NEW since \in 0..MaxClock,
             NEW out \in {{}, Packets(d, 0)}, Exchange(d, ids, since, out)
      PROVE  Exchanging(x, y) \/ y \in active[x]
  <2>1. out \in SUBSET Packet
    BY Sent
  <2>2. /\ \A z \in Device : z # d => sync'[z] = sync[z]
        /\ sync'[d].todo = active[d] \ {d} /\ sync'[d].peer = Nobody /\ serve' = serve
    BY <1>1, <2>1, ExchangeFrame
  <2> QED BY <1>0, <1>n, <2>2 DEF Exchanging
<1>2. ASSUME NEW d \in Device, NEW e \in Device, HandleSyncWire(d, e)
      PROVE  Exchanging(x, y) \/ y \in active[x]
  <2>1. /\ \A z \in Device : z # d => sync'[z] = sync[z]
        /\ sync[d] \in Session /\ e \in sync[d].todo
        /\ sync'[d].peer = e /\ sync'[d].todo = sync[d].todo /\ d \in active[e]
        /\ \A z, w \in Device : z # e \/ w # d => serve'[z][w] = serve[z][w]
    BY <1>2, DialFrame
  <2>2. sync[d].at # "idle"
    BY <2>1, Ongoing
  <2> QED BY <1>0, <2>1, <2>2 DEF Exchanging
<1>3. ASSUME NEW d \in Device, NEW e \in Device, PeerTimeout(d, e)
      PROVE  Exchanging(x, y)
  <2>1. /\ \A z \in Device : z # d => sync'[z] = sync[z]
        /\ sync[d] \in Session /\ sync'[d].peer = Nobody /\ sync'[d].todo = sync[d].todo \ {e}
        /\ \A z, w \in Device : z # e \/ w # d => serve'[z][w] = serve[z][w]
        /\ serve' = serve \/ serve[e][d] \in Answer
    BY <1>3, TimeoutFrame
  <2>2. sync[d].at # "idle" /\ (serve' = serve \/ serve[e][d].at # "idle")
    BY <2>1, Ongoing
  <2> QED BY <1>0, <1>n, <2>1, <2>2 DEF Exchanging
<1>4. ASSUME NEW e \in Device, NEW d \in Device, ImportPushedPackets(e, d)
      PROVE  Exchanging(x, y)
  <2>1. /\ \A z, w \in Device : z # e \/ w # d => serve'[z][w] = serve[z][w]
        /\ serve[e][d] \in Answer /\ sync' = sync
    BY <1>4, PushedFrame
  <2>2. serve[e][d].at # "idle"
    BY <2>1, Ongoing
  <2> QED BY <1>0, <2>1, <2>2 DEF Exchanging
<1>5. ASSUME NEW e \in Device, NEW d \in Device, BuildSyncResponse(e, d)
      PROVE  Exchanging(x, y)
  <2>1. /\ \A z \in Device : z # d => sync'[z] = sync[z]
        /\ \A z, w \in Device : z # e \/ w # d => serve'[z][w] = serve[z][w]
        /\ serve'[e][d] = NoServe
        /\ \/ sync' = sync
           \/ /\ sync[d] \in Session /\ sync[d].peer = e
              /\ sync'[d].peer = e /\ sync'[d].todo = sync[d].todo
    BY <1>5, AnswerFrame
  <2>2. sync' = sync \/ sync[d].at # "idle"
    BY <2>1, Ongoing
  <2> QED BY <1>0, <2>1, <2>2, Blanks DEF Exchanging
<1>6. ASSUME NEW d \in Device, ImportPeerBatch(d)
      PROVE  Exchanging(x, y)
  <2>1. /\ \A z \in Device : z # d => sync'[z] = sync[z]
        /\ sync[d] \in Session /\ sync'[d].peer = sync[d].peer /\ sync'[d].todo = sync[d].todo
        /\ serve' = serve
    BY <1>6, ImportFrame
  <2>2. sync[d].at # "idle"
    BY <2>1, Ongoing
  <2> QED BY <1>0, <2>1, <2>2 DEF Exchanging
<1>7. ASSUME NEW d \in Device, ApplyPeerSyncResult(d)
      PROVE  Exchanging(x, y)
  <2>1. /\ \A z \in Device : z # d => sync'[z] = sync[z]
        /\ sync[d] \in Session /\ sync'[d].peer = Nobody /\ sync'[d].todo = sync[d].todo \ {sync[d].peer}
        /\ serve' = serve
    BY <1>7, ApplyFrame
  <2>2. sync[d].at # "idle"
    BY <2>1, Ongoing
  <2> QED BY <1>0, <1>n, <2>1, <2>2 DEF Exchanging
<1>8. ASSUME NEW d \in Device, RecordShareSyncReport(d) \/ ExchangeStops(d)
      PROVE  Exchanging(x, y)
  <2>1. /\ \A z \in Device : z # d => sync'[z] = sync[z]
        /\ sync'[d] = NoSync /\ serve' = serve
    BY <1>8, ReportFrame
  <2> QED BY <1>0, <2>1, Blanks DEF Exchanging
<1>9. ASSUME NEW e \in Device, NEW d \in Device, ListenerStops(e, d)
      PROVE  Exchanging(x, y)
  <2>1. /\ \A z \in Device : z # d => sync'[z] = sync[z]
        /\ \A z, w \in Device : z # e \/ w # d => serve'[z][w] = serve[z][w]
        /\ serve'[e][d] = NoServe
        /\ \/ sync' = sync
           \/ sync[d] \in Session /\ sync'[d].peer = Nobody /\ sync'[d].todo = sync[d].todo \ {e}
    BY <1>9, BreakFrame
  <2>2. sync' = sync \/ sync[d].at # "idle"
    BY <2>1, Ongoing
  <2> QED BY <1>0, <1>n, <2>1, <2>2, Blanks DEF Exchanging
<1> QED BY <1>u, <1>1, <1>2, <1>3, <1>4, <1>5, <1>6, <1>7, <1>8, <1>9, ElsewhereFrame DEF MemoryStep

\* So nobody starts to exchange with a device it has removed.
LEMMA Parting ==
    ASSUME Shape, Forms, Calls, Origins, Parted, MemoryStep
    PROVE  Parted'
<1> SUFFICES ASSUME NEW x \in Device, NEW y \in Device, <<x, y>> \in scene'.removes,
                    y \notin active'[x] \cup overlap'[x], Exchanging(x, y)'
             PROVE  FALSE
  BY DEF Parted
<1>1. Exchanging(x, y) \/ y \in active[x]
  BY Contacts
<1>2. /\ scene' = scene /\ overlap[x] \subseteq overlap'[x]
      /\ y \in active[x] \ active'[x] => RevokeMember(x, y) \/ LearnRemoval(x, y)
  BY Ratchets
<1>3. CASE y \notin active[x]
  BY <1>1, <1>2, <1>3 DEF Parted
<1>4. CASE y \in active[x]
  <2>1. ~LearnRemoval(x, y)
    BY <1>2, LearnFrame
  <2>2. RevokeMember(x, y)
    BY <1>2, <1>4, <2>1
  <2>3. UNCHANGED <<sync, serve>> /\ (Exchanging(x, y) => y \in overlap'[x])
    BY <2>2, RevokeFrame
  <2>4. Exchanging(x, y)
    BY <2>3 DEF Exchanging
  <2> QED BY <2>3, <2>4
<1> QED BY <1>3, <1>4

\* How a row may change.
LEMMA RowSteps ==
    ASSUME Shape, Forms, Calls, Origins, MemoryStep, NEW x \in Device, NEW l \in Lesson
    PROVE  \/ row'[x][l] = row[x][l] \/ row'[x][l] = NoRow
           \/ l \in touched'[x]
           \/ row'[x][l].from = x
           \/ \E y \in Device : MarkPeerRevoked(x, y) /\ l \in From(x, y)
           \/ \E y \in Device \ {x} : /\ Exchanging(x, y) /\ l \in recorded[y]
                                       /\ row'[x][l].from = IF row[x][l] = NoRow THEN y ELSE row[x][l].from
<1> USE DEF stores, circle, history
<1> DEFINE Holds ==
           \/ row'[x][l] = row[x][l] \/ row'[x][l] = NoRow
           \/ l \in touched'[x]
           \/ row'[x][l].from = x
           \/ \E y \in Device : MarkPeerRevoked(x, y) /\ l \in From(x, y)
           \/ \E y \in Device \ {x} : /\ Exchanging(x, y) /\ l \in recorded[y]
                                       /\ row'[x][l].from = IF row[x][l] = NoRow THEN y ELSE row[x][l].from
<1>1. ASSUME NEW d \in Device, NEW m \in Lesson, ConsolidateSession(d, m)
      PROVE  Holds
  <2>1. /\ \A z \in Device, k \in Lesson : z # d \/ k # m => row'[z][k] = row[z][k]
        /\ row'[d][m].from = d
    BY <1>1, ConsolidateFrame
  <2> QED BY <2>1
<1>2. ASSUME NEW d \in Device, RecordMemory(d) \/ ValidateMemory(d) \/ DeleteMemory(d)
      PROVE  Holds
  <2>1. /\ task[d] \in Order /\ touched' = [touched EXCEPT ![d] = touched[d] \cup {task[d].m}]
        /\ \E r \in Row \cup {NoRow} : Write(d, task[d].m, r)
    BY <1>2, CommandFrame
  <2>2. task[d].m \in Lesson
    BY <2>1 DEF Order
  <2>3. \A z \in Device, k \in Lesson : z # d \/ k # task[d].m => row'[z][k] = row[z][k]
    BY <2>1, <2>2, Writes
  <2>4. task[d].m \in touched'[d]
    BY <2>1 DEF Forms
  <2> QED BY <2>3, <2>4
<1>3. ASSUME NEW d \in Device, ImportPeerBatch(d)
      PROVE  Holds
  <2>1. /\ sync[d] \in Session /\ sync[d].at = "importing"
        /\ \/ UNCHANGED stores
           \/ \E p \in sync[d].saw : Write(d, p.m, PeerUpserted(row[d][p.m], p, sync[d].peer))
    BY <1>3, ImportFrame
  <2>2. ASSUME NEW p \in sync[d].saw, Write(d, p.m, PeerUpserted(row[d][p.m], p, sync[d].peer))
        PROVE  Holds
    <3>1. /\ p \in Packet /\ p.m \in Lesson /\ sync[d].peer \in Device \ {d}
          /\ p.m \in recorded[sync[d].peer]
      BY <2>1, Ongoing DEF Session, Packet, Calls, CallsOf, Origins
    <3>2. PICK old \in Row \cup {NoRow} : old = row[d][p.m]
      BY <3>1 DEF Shape
    <3>3. PICK peer \in Device : peer = sync[d].peer
      BY <3>1
    <3>4. /\ PeerUpserted(old, p, peer) \in Row
          /\ PeerUpserted(old, p, peer).from = IF old = NoRow THEN peer ELSE old.from
      BY <3>1, ImportedRows
    <3>5. /\ row'[d][p.m] = PeerUpserted(old, p, peer)
          /\ \A z \in Device, k \in Lesson : z # d \/ k # p.m => row'[z][k] = row[z][k]
      BY <2>2, <3>1, <3>2, <3>3, <3>4, Writes
    <3>6. Exchanging(d, peer)
      BY <2>1, <3>3 DEF Exchanging
    <3>7. CASE x = d /\ l = p.m
      BY <3>1, <3>2, <3>3, <3>4, <3>5, <3>6, <3>7
    <3>8. CASE x # d \/ l # p.m
      BY <3>5, <3>8
    <3> QED BY <3>7, <3>8
  <2>3. UNCHANGED stores => Holds
    OBVIOUS
  <2> HIDE DEF Holds
  <2> QED BY <2>1, <2>2, <2>3
<1>4. ASSUME NEW e \in Device, NEW d \in Device, ImportPushedPackets(e, d)
      PROVE  Holds
  <2>1. /\ serve[e][d] \in Answer
        /\ \/ UNCHANGED stores
           \/ \E p \in serve[e][d].saw : Write(e, p.m, PeerUpserted(row[e][p.m], p, d))
    BY <1>4, PushedFrame
  <2>2. ASSUME NEW p \in serve[e][d].saw, Write(e, p.m, PeerUpserted(row[e][p.m], p, d))
        PROVE  Holds
    <3>1. p \in Packet /\ p.m \in Lesson /\ p.m \in recorded[d] /\ d # e
      BY <2>1, Ongoing DEF Answer, Packet, Calls, CallsOf, Origins
    <3>2. PICK old \in Row \cup {NoRow} : old = row[e][p.m]
      BY <3>1 DEF Shape
    <3>4. /\ PeerUpserted(old, p, d) \in Row
          /\ PeerUpserted(old, p, d).from = IF old = NoRow THEN d ELSE old.from
      BY <3>1, ImportedRows
    <3>5. /\ row'[e][p.m] = PeerUpserted(old, p, d)
          /\ \A z \in Device, k \in Lesson : z # e \/ k # p.m => row'[z][k] = row[z][k]
      BY <2>2, <3>1, <3>2, <3>4, Writes
    <3>6. Exchanging(e, d)
      BY <2>1, Ongoing DEF Exchanging
    <3>7. CASE x = e /\ l = p.m
      BY <3>1, <3>2, <3>4, <3>5, <3>6, <3>7
    <3>8. CASE x # e \/ l # p.m
      BY <3>5, <3>8
    <3> QED BY <3>7, <3>8
  <2>3. UNCHANGED stores => Holds
    OBVIOUS
  <2> HIDE DEF Holds
  <2> QED BY <2>1, <2>2, <2>3
<1>5. ASSUME NEW d \in Device, NEW e \in Device, MarkPeerRevoked(d, e)
      PROVE  Holds
  <2>1. \A z \in Device, k \in Lesson : z # d \/ k \notin From(d, e) => row'[z][k] = row[z][k]
    BY <1>5, MarkFrame
  <2> QED BY <1>5, <2>1
<1>6. ASSUME NEW d \in Device, NEW m \in Lesson, GetMemory(d, m) \/ RunGC(d, m)
      PROVE  row' = row
  BY <1>6 DEF GetMemory, RunGC, Begin
<1>7. ASSUME NEW d \in Device, ApplyPeerSyncResult(d) \/ RecordShareSyncReport(d) \/ ExchangeStops(d)
      PROVE  row' = row
  BY <1>7 DEF ApplyPeerSyncResult, RecordShareSyncReport, ExchangeStops
<1>8. ASSUME NEW d \in Device, NEW e \in Device,
             \/ HandleSyncWire(d, e) \/ PeerTimeout(d, e) \/ BuildSyncResponse(e, d) \/ ListenerStops(e, d)
             \/ ImportPeerCatalogs(d, e) \/ RevokeMember(d, e) \/ LearnRemoval(d, e)
      PROVE  row' = row
  BY <1>8 DEF HandleSyncWire, TakesAnyone, PeerTimeout, BuildSyncResponse, ListenerStops, ImportPeerCatalogs,
              RevokeMember, LearnRemoval
<1>9. ASSUME NEW d \in Device, NEW ids \in SUBSET Lesson, NEW since \in 0..MaxClock,
             NEW out \in {{}, Packets(d, 0)}, Exchange(d, ids, since, out)
      PROVE  row' = row
  BY <1>9 DEF Exchange
<1>10. Tick => row' = row
  BY DEF Tick
<1>11. row' = row => Holds
  OBVIOUS
<1> HIDE DEF Holds
<1>12. Holds
  BY <1>1, <1>2, <1>3, <1>4, <1>5, <1>6, <1>7, <1>8, <1>9, <1>10, <1>11 DEF MemoryStep
<1> QED BY <1>12 DEF Holds

\* What was retired stays so, but for what the property allows.
LEMMA Silencing ==
    ASSUME Shape, Forms, Calls, Origins, Parted, RemovedStayQuiet, MemoryStep
    PROVE  RemovedStayQuiet'
<1> SUFFICES ASSUME NEW d \in Device, NEW e \in Device, NEW m \in From(d, e)',
                    <<d, e>> \in scene'.removes, e \notin active'[d] \cup marking'[d] \cup overlap'[d]
             PROVE  \/ row'[d][m].status # "active"
                    \/ m \in touched'[d]
                    \/ \E x \in Device \ {d, e} : m \in recorded'[x]
  BY DEF RemovedStayQuiet
<1>0. m \in Lesson /\ row'[d][m] # NoRow /\ row'[d][m].from = e /\ e # d
  BY DEF From
<1>1. /\ scene' = scene /\ overlap[d] \subseteq overlap'[d] /\ touched[d] \subseteq touched'[d]
      /\ \A x \in Device : recorded[x] \subseteq recorded'[x]
      /\ e \in active[d] \ active'[d] => RevokeMember(d, e) \/ LearnRemoval(d, e)
      /\ e \in marking[d] \ marking'[d] => MarkPeerRevoked(d, e)
  BY Ratchets
<1>2. e \notin active[d]
  <2>1. ~LearnRemoval(d, e)
    BY <1>1, LearnFrame
  <2>2. ~RevokeMember(d, e)
    BY RevokeFrame
  <2> QED BY <1>1, <2>1, <2>2
<1>3. ~Exchanging(d, e)
  BY <1>1, <1>2 DEF Parted
<1>4. CASE MarkPeerRevoked(d, e)
  <2>1. /\ m \notin From(d, e) => row'[d][m] = row[d][m]
        /\ m \in From(d, e) => row'[d][m].status = "deprecated"
    BY <1>0, <1>4, MarkFrame
  <2>2. m \in From(d, e)
    BY <1>0, <2>1 DEF From
  <2> QED BY <2>1, <2>2
<1>5. CASE ~MarkPeerRevoked(d, e)
  <2>1. e \notin marking[d]
    BY <1>1, <1>5
  <2>2. ASSUME m \in From(d, e), row'[d][m] = row[d][m]
        PROVE  \/ row'[d][m].status # "active"
               \/ m \in touched'[d]
               \/ \E x \in Device \ {d, e} : m \in recorded'[x]
    BY <1>1, <1>2, <2>1, <2>2 DEF RemovedStayQuiet
  <2>3. CASE row'[d][m] = row[d][m]
    <3>1. m \in From(d, e)
      BY <1>0, <2>3 DEF From
    <3> QED BY <2>2, <2>3, <3>1
  <2>4. ASSUME NEW y \in Device, MarkPeerRevoked(d, y), m \in From(d, y)
        PROVE  FALSE
    <3>1. row'[d][m].from = y
      BY <2>4, MarkFrame
    <3> QED BY <1>0, <1>5, <2>4, <3>1
  <2>5. ASSUME NEW y \in Device \ {d}, Exchanging(d, y), m \in recorded[y]
        PROVE  \E x \in Device \ {d, e} : m \in recorded'[x]
    BY <1>1, <1>3, <2>5
  <2> QED BY <1>0, <2>3, <2>4, <2>5, RowSteps
<1> QED BY <1>4, <1>5

LEMMA InitMemory == RecallInit => Memory /\ IsSearch(search) /\ scene = search.scene
<1> SUFFICES ASSUME RecallInit PROVE Memory /\ IsSearch(search) /\ scene = search.scene
  OBVIOUS
<1> USE DEF RecallInit, Init
<1>1. IsSearch(search) /\ scene = search.scene
  BY RecallAssumption
<1>2. scene \in Scene
  BY <1>1 DEF IsSearch
<1>3. IsScene(scene)
  BY <1>2, MemoriesAssumption
<1>4. 0 \in 0..MaxClock /\ 1 \in 0..MaxClock /\ 1 <= scene.seconds
  BY <1>3, MemoriesAssumption DEF IsScene
<1>5. /\ active = [d \in Device |-> IF d \in scene.members THEN scene.members ELSE {}]
      /\ scene.members \in SUBSET Device
  BY <1>3 DEF IsScene
<1>6. active \in [Device -> SUBSET Device]
  BY <1>5
<1>7. \A d \in Device : sync[d] = NoSync /\ task[d] = NoTask
  OBVIOUS
<1>8. \A d, e \in Device : serve[d][e] = NoServe
  OBVIOUS
<1>9. Shape
  BY <1>3, <1>4, <1>6, <1>7 DEF Shape
<1>10. Forms
  <2>1. left \in [Device -> Nat]
    BY <1>3 DEF IsScene
  <2> QED BY <1>4, <1>7, <2>1 DEF Forms
<1>11. Follow
  BY DEF Follow
<1>12. Calls
  BY <1>7, <1>8 DEF Calls, CallsOf
<1>16. OneByOne
  BY <1>7, <1>8 DEF OneByOne
<1>13. Origins
  BY <1>7, <1>8 DEF Origins
<1>14. Parted
  BY <1>7, <1>8, Blanks DEF Parted, Exchanging
<1>15. RemovedStayQuiet
  BY DEF RemovedStayQuiet, From
<1> QED BY <1>1, <1>9, <1>10, <1>11, <1>12, <1>13, <1>14, <1>15, <1>16 DEF Memory

LEMMA NextMemory == Memory /\ (MemoryStep \/ UNCHANGED vars) => Memory'
<1>1. ASSUME Memory, MemoryStep PROVE Memory'
  BY <1>1, Typing, Following, Calling, Importing, Sourcing, Parting, Silencing DEF Memory
<1>2. ASSUME Memory, UNCHANGED vars PROVE Memory'
  BY <1>2 DEF vars, Memory, Shape, Forms, Follow, Calls, CallsOf, OneByOne, OneSeen, Origins, Parted, Exchanging, RemovedStayQuiet, From
<1> QED BY <1>1, <1>2

-----------------------------------------------------------------------------
(* Lookups *)

LEMMA Noticing ==
    ASSUME Looks, NEW d \in Device
    PROVE  /\ look[d].at = "idle" <=> look[d] = NoLook
           /\ look[d].at = "listed" => Listing(look[d])
           /\ look[d].at \in {"hits", "missing", "fetching", "answered"} => look[d] \in Finding
<1>1. \A l \in Finding : l.at \in {"hits", "missing", "fetching", "answered"}
  BY DEF Finding
<1>2. Listing(look[d]) => look[d].at = "listed"
  BY DEF Listing
<1> QED BY <1>1, <1>2, Blanks DEF Looks

\* What happens in the stores while lookups go on.
LEMMA RecallIsMemoryStep ==
    ASSUME Memory, Looks, RecallNext
    PROVE  MemoryStep \/ UNCHANGED vars
<1>1. ASSUME MemoriesMove PROVE MemoryStep
  <2> SUFFICES Next
    BY NextIsMemoryStep DEF Memory
  <2>1. ASSUME NEW d \in Device, Begins(d) PROVE Next
    BY <2>1 DEF Begins, Next
  <2>2. ASSUME NEW d \in Device, CommandWrites(d) \/ CommandDeletes(d) \/ Imports(d) PROVE Next
    BY <2>2 DEF CommandWrites, CommandDeletes, Imports, Next
  <2>3. ASSUME NEW d \in Device, NEW e \in Device, Takes(e, d) \/ Retires(d, e) PROVE Next
    BY <2>3 DEF Takes, Retires, Next
  <2>4. ASSUME NEW d \in Device,
               \/ SyncCirclePeers(d) \/ RecordShareSyncReport(d) \/ ApplyPeerSyncResult(d)
               \/ FetchMissingPeerPackets(d) \/ \E m \in Lesson : ConsolidateSession(d, m)
        PROVE  Next
    BY <2>4 DEF Next
  <2>5. ASSUME NEW d \in Device, NEW e \in Device,
               \/ HandleSyncWire(d, e) \/ BuildSyncResponse(e, d) \/ PeerTimeout(d, e) \/ ImportPeerCatalogs(d, e)
               \/ RevokeMember(d, e) \/ LearnRemoval(d, e)
        PROVE  Next
    BY <2>5 DEF Next
  <2>6. Tick => Next
    BY DEF Next
  <2> QED BY <1>1, <2>1, <2>2, <2>3, <2>4, <2>5, <2>6 DEF MemoriesMove
<1>2. ASSUME NEW d \in Device, FetchMissing(d) PROVE MemoryStep
  <2>1. look[d].at = "missing" /\ Exchange(d, look[d].missing, 0, {})
    BY <1>2 DEF FetchMissing
  <2>2. look[d] \in Finding
    BY <2>1, Noticing
  <2>3. look[d].missing \in SUBSET Lesson /\ 0 \in 0..MaxClock
    BY <2>2, MemoriesAssumption DEF Finding
  <2> QED BY <2>1, <2>3 DEF MemoryStep
<1>3. ASSUME NEW d \in Device, RecallEnds(d) PROVE MemoryStep
  BY <1>3 DEF RecallEnds, MemoryStep
<1>4. ASSUME NEW d \in Device, ListActiveMemories(d) \/ BuildRecallResults(d) \/ ExpandGraph(d)
      PROVE  UNCHANGED vars
  BY <1>4 DEF ListActiveMemories, BuildRecallResults, ExpandGraph
<1>5. AgentWrites => UNCHANGED vars
  BY DEF AgentWrites
<1>6. ASSUME NEW p \in Starter,
             StatTranscript(p) \/ ReadTail(p) \/ InsertSpan(p) \/ ScanFails(p) \/ SetWatermark(p)
      PROVE  UNCHANGED vars
  BY <1>6 DEF StatTranscript, ReadTail, InsertSpan, ScanFails, SetWatermark
<1>7. ASSUME NEW d \in Device, NEW w \in Worker, SyncIndex(d, w) \/ Close(d, w) PROVE UNCHANGED vars
  BY <1>7 DEF SyncIndex, Close
<1>8. ASSUME NEW d \in Device, NEW w \in Worker, StopsUnwritten(d, w) PROVE MemoryStep \/ UNCHANGED vars
  BY <1>8 DEF StopsUnwritten, MemoryStep
<1>9. ASSUME NEW d \in Device, Visit(d) PROVE UNCHANGED vars
  BY <1>9 DEF Visit
<1> QED BY <1>1, <1>2, <1>3, <1>4, <1>5, <1>6, <1>7, <1>8, <1>9 DEF RecallNext

\* What a device reads from its table now is its own or a member's.
LEMMA Neighbors ==
    ASSUME Shape, NEW d \in Device, NEW ids
    PROVE  \A h \in LoadGraphNeighborMemories(d, ids) :
              h \in Lesson \X Device /\ (h[2] = d \/ h[2] \in active[d])
<1> SUFFICES ASSUME NEW h \in LoadGraphNeighborMemories(d, ids)
             PROVE  h \in Lesson \X Device /\ (h[2] = d \/ h[2] \in active[d])
  OBVIOUS
<1>1. PICK l \in ids \cap Hot(d) : /\ h = <<l, row[d][l].from>>
                                   /\ row[d][l].from = d \/ PeerEligible(d, row[d][l])
  BY DEF LoadGraphNeighborMemories
<1>2. l \in Lesson /\ row[d][l] \in Row
  BY <1>1 DEF Hot, Shape
<1> QED BY <1>1, <1>2 DEF PeerEligible, Row

\* One device looks something up; the others' lookups stay.
LEMMA Looking ==
    ASSUME Looks, NEW d \in Device, NEW l, look' = [look EXCEPT ![d] = l], active' = active,
           Listing(l) \/ l \in Finding, l.barred \cap active[d] = {},
           l \in Finding => \A h \in l.shown : h[2] \notin l.barred \ {d}
    PROVE  Looks'
<1>1. /\ look'[d] = l /\ \A x \in Device : x # d => look'[x] = look[x]
      /\ look' = [x \in Device |-> look'[x]]
  BY DEF Looks
<1>2. Listing(l) => l.at = "listed"
  BY DEF Listing
<1>3. \A x \in Device : look'[x] = NoLook \/ Listing(look'[x]) \/ look'[x] \in Finding
  BY <1>1 DEF Looks
<1>4. \A x \in Device : look'[x] # NoLook => look'[x].barred \cap active'[x] = {}
  BY <1>1 DEF Looks
<1>5. RemovedNotRecalled'
  <2> SUFFICES ASSUME NEW x \in Device, look'[x].at \in {"hits", "missing", "fetching", "answered"}
               PROVE  \A h \in look'[x].shown : h[2] \notin look'[x].barred \ {x}
    BY DEF RemovedNotRecalled
  <2>1. CASE x # d
    BY <1>1, <2>1 DEF Looks, RemovedNotRecalled
  <2>2. CASE x = d
    BY <1>1, <1>2, <2>2
  <2> QED BY <2>1, <2>2
<1>6. \A x : Listing(x)' <=> Listing(x)
  BY DEF Listing
<1> QED BY <1>1, <1>3, <1>4, <1>5 DEF Looks, Listing, Finding

LEMMA NextLooks == Memory /\ Looks /\ RecallNext => Looks'
<1> SUFFICES ASSUME Memory, Looks, RecallNext PROVE Looks'
  OBVIOUS
<1> USE DEF Memory
<1>1. ASSUME look' = look PROVE Looks'
  <2>1. \A x \in Device : active'[x] \subseteq active[x]
    <3>1. MemoryStep => \A x \in Device : active'[x] \subseteq active[x]
      BY Ratchets
    <3>2. UNCHANGED vars => active' = active
      BY DEF vars, circle
    <3> QED BY <3>1, <3>2, RecallIsMemoryStep
  <2>2. \A x \in Device : look'[x] # NoLook => look'[x].barred \cap active'[x] = {}
    BY <1>1, <2>1 DEF Looks
  <2> QED BY <1>1, <2>2 DEF Looks, RemovedNotRecalled
<1>2. MemoriesMove => look' = look
  BY DEF MemoriesMove, lookup
<1>3. AgentWrites => look' = look
  BY DEF AgentWrites, lookup
<1>4. ASSUME NEW p \in Starter,
             StatTranscript(p) \/ ReadTail(p) \/ InsertSpan(p) \/ ScanFails(p) \/ SetWatermark(p)
      PROVE  look' = look
  BY <1>4 DEF StatTranscript, ReadTail, InsertSpan, ScanFails, SetWatermark, lookup
<1>5. ASSUME NEW d \in Device, ListActiveMemories(d) PROVE Looks'
  <2> DEFINE l == [at |-> "listed", rows |-> [m \in Hot(d) |-> row[d][m]], barred |-> Device \ active[d]]
  <2>1. look' = [look EXCEPT ![d] = l] /\ active' = active
    BY <1>5 DEF ListActiveMemories, vars, circle
  <2>2. Hot(d) \in SUBSET Lesson /\ [m \in Hot(d) |-> row[d][m]] \in [Hot(d) -> Row]
    BY DEF Hot, Shape
  <2>3. l \in [at : {"listed"}, rows : [Hot(d) -> Row], barred : SUBSET Device]
    BY <2>2
  <2>4. Listing(l)
    BY <2>2, <2>3 DEF Listing
  <2>5. l.barred \cap active[d] = {} /\ l \notin Finding
    BY DEF Finding
  <2> HIDE DEF l
  <2> QED BY <2>1, <2>4, <2>5, Looking
<1>6. ASSUME NEW d \in Device, BuildRecallResults(d) PROVE Looks'
  <2>1. look[d].at = "listed" /\ Listing(look[d]) /\ look[d] # NoLook /\ active' = active
    BY <1>6, Noticing, Blanks DEF BuildRecallResults, vars, circle
  <2>2. PICK s \in SUBSET Lesson : look[d] \in [at : {"listed"}, rows : [s -> Row], barred : SUBSET Device]
    BY <2>1 DEF Listing
  <2>3. PICK found, indexed, vectors :
           look' = [look EXCEPT ![d] = RecallResults(d, RecallHits(d, found, indexed, vectors))]
    BY <1>6 DEF BuildRecallResults
  <2> DEFINE hits == RecallHits(d, found, indexed, vectors)
             shown == {<<m, look[d].rows[m].from>> : m \in hits}
             l == [at |-> "hits", shown |-> shown, missing |-> {}, barred |-> look[d].barred]
  <2>4. \A m \in hits : /\ m \in Lesson /\ look[d].rows[m].from \in Device
                        /\ look[d].rows[m].from = d \/ look[d].rows[m].from \in active[d]
    <3>1. DOMAIN look[d].rows = s /\ \A m \in s : look[d].rows[m] \in Row
      BY <2>2
    <3>2. \A m \in hits : /\ m \in s
                          /\ look[d].rows[m].from = d \/ look[d].rows[m].from \in active[d]
      BY <3>1 DEF RecallHits, BuildLocalRecallResults, BuildPeerRecallResults, Own, OfPeers, PeerEligible
    <3> QED BY <3>1, <3>2 DEF Row
  <2> HIDE DEF hits
  <2>5. shown \in SUBSET (Lesson \X Device) /\ \A h \in shown : h[2] = d \/ h[2] \in active[d]
    BY <2>4
  <2>6. look' = [look EXCEPT ![d] = l]
    <3>1. look' = [look EXCEPT ![d] = RecallResults(d, hits)]
      BY <2>3 DEF hits
    <3>2. RecallResults(d, hits) = l
      BY DEF RecallResults
    <3> QED BY <3>1, <3>2
  <2>7. look[d].barred \cap active[d] = {} /\ look[d].barred \in SUBSET Device
    BY <2>1, <2>2 DEF Looks
  <2> HIDE DEF shown
  <2>8. l \in Finding /\ l.shown = shown /\ l.barred = look[d].barred
    BY <2>5, <2>7 DEF Finding
  <2> HIDE DEF l
  <2> QED BY <2>1, <2>5, <2>6, <2>7, <2>8, Looking
<1>7. ASSUME NEW d \in Device, NEW at \in {"answered", "missing", "fetching"}, NEW ids,
             NEW missing \in SUBSET Lesson, look[d] \in Finding, active' = active,
             look' = [look EXCEPT ![d] = [look[d] EXCEPT !.at = at,
                                          !.shown = look[d].shown \cup LoadGraphNeighborMemories(d, ids),
                                          !.missing = missing]]
      PROVE  Looks'
  <2>1. PICK shown \in SUBSET (Lesson \X Device) : shown = look[d].shown \cup LoadGraphNeighborMemories(d, ids)
    BY <1>7, Neighbors DEF Finding
  <2> DEFINE l == [look[d] EXCEPT !.at = at, !.shown = shown, !.missing = missing]
  <2>2. look' = [look EXCEPT ![d] = l]
    BY <1>7, <2>1
  <2>3. l \in Finding /\ l.shown = shown /\ l.barred = look[d].barred
    BY <1>7 DEF Finding
  <2>4. look[d].at \in {"hits", "missing", "fetching", "answered"} /\ look[d] # NoLook
    BY <1>7, Blanks DEF Finding
  <2>5. \A h \in look[d].shown : h[2] \notin look[d].barred \ {d}
    BY <2>4 DEF Looks, RemovedNotRecalled
  <2>6. look[d].barred \cap active[d] = {}
    BY <2>4 DEF Looks
  <2>7. \A h \in shown : h[2] \notin look[d].barred \ {d}
    BY <2>1, <2>5, <2>6, Neighbors
  <2> HIDE DEF l
  <2> QED BY <1>7, <2>2, <2>3, <2>6, <2>7, Looking
<1>8. ASSUME NEW d \in Device, ExpandGraph(d) PROVE Looks'
  <2>1. look[d] \in Finding /\ active' = active
    BY <1>8, Noticing DEF ExpandGraph, vars, circle
  <2>2. PICK missing \in SUBSET Lesson : missing = UnresolvedPageIndexIDs(d)
    BY DEF UnresolvedPageIndexIDs, PageIndexBranch, Shape
  <2>3. PICK at \in {"answered", "missing", "fetching"} : at = IF missing = {} THEN "answered" ELSE "missing"
    OBVIOUS
  <2>4. look' = [look EXCEPT ![d] = [look[d] EXCEPT !.at = at,
                    !.shown = look[d].shown \cup LoadGraphNeighborMemories(d, GraphNeighborIDs(d)),
                    !.missing = missing]]
    BY <1>8, <2>2, <2>3 DEF ExpandGraph
  <2> QED BY <1>7, <2>1, <2>4
<1>9. ASSUME NEW d \in Device, FetchMissing(d) PROVE Looks'
  <2>1. look[d] \in Finding /\ active' = active
    BY <1>9, Noticing DEF FetchMissing, Exchange, circle
  <2>2. look' = [look EXCEPT ![d] = [look[d] EXCEPT !.at = "fetching"]]
    BY <1>9 DEF FetchMissing
  <2>3. LoadGraphNeighborMemories(d, {}) = {}
    BY DEF LoadGraphNeighborMemories
  <2>4. look[d].missing \in SUBSET Lesson
    BY <2>1 DEF Finding
  <2>5. [look[d] EXCEPT !.at = "fetching"]
        = [look[d] EXCEPT !.at = "fetching", !.shown = look[d].shown \cup {}, !.missing = look[d].missing]
    BY <2>1 DEF Finding
  <2>6. look' = [look EXCEPT ![d] = [look[d] EXCEPT !.at = "fetching",
                    !.shown = look[d].shown \cup LoadGraphNeighborMemories(d, {}),
                    !.missing = look[d].missing]]
    BY <2>2, <2>3, <2>5
  <2> QED BY <1>7, <2>1, <2>4, <2>6
<1>10. ASSUME NEW d \in Device, RecallEnds(d) PROVE Looks'
  <2>1. look[d] \in Finding /\ active' = active
    BY <1>10, Noticing DEF RecallEnds, RecordShareSyncReport, circle
  <2>2. look[d].missing \in SUBSET Lesson
    BY <2>1 DEF Finding
  <2>3. PICK shown \in SUBSET (Lesson \X Device) :
           shown = look[d].shown \cup LoadGraphNeighborMemories(d, look[d].missing)
    BY <2>1, Neighbors DEF Finding
  <2>4. look' = [look EXCEPT ![d] = [look[d] EXCEPT !.at = "answered", !.shown = shown]]
    BY <1>10, <2>3 DEF RecallEnds
  <2>5. [look[d] EXCEPT !.at = "answered", !.shown = shown]
        = [look[d] EXCEPT !.at = "answered", !.shown = shown, !.missing = look[d].missing]
    BY <2>1 DEF Finding
  <2> QED BY <1>7, <2>1, <2>2, <2>3, <2>4, <2>5
<1>11. ASSUME NEW d \in Device, NEW w \in Worker, SyncIndex(d, w) \/ StopsUnwritten(d, w) \/ Close(d, w)
       PROVE  look' = look
  BY <1>11 DEF SyncIndex, StopsUnwritten, Close, lookup
<1>12. ASSUME NEW d \in Device, Visit(d) PROVE look' = look
  BY <1>12 DEF Visit, lookup
<1> QED BY <1>1, <1>2, <1>3, <1>4, <1>5, <1>6, <1>8, <1>9, <1>10, <1>11, <1>12 DEF RecallNext

-----------------------------------------------------------------------------
(* The index of peers' vectors *)

LEMMA Workers ==
    /\ "task" \in Worker /\ "look" \in Worker /\ "sync" \in Worker /\ "visit" \in Worker
    /\ \A e \in Device : e \in Worker /\ e # "task" /\ e # "look" /\ e # "sync" /\ e # "visit"
    /\ \A s \in SUBSET Lesson : s # Shut
    /\ {} # Shut
<1>1. \A e \in Device : e # "task" /\ e # "look" /\ e # "sync" /\ e # "visit"
  BY RecallAssumption
<1>2. \A s \in SUBSET Lesson : s # Shut
  BY RecallAssumption DEF Shut
<1> QED BY <1>1, <1>2 DEF Worker

\* Whoever opens a copy has what the file holds, and had nothing to write.
LEMMA OpensFrame ==
    ASSUME CopyForms, NEW d \in Device, NEW w \in Worker, Opens(d, w)
    PROVE  /\ CopyForms' /\ copy[d][w] = Shut /\ UNCHANGED <<file, due, astray>>
           /\ \A x \in Device : x # d => copy'[x] = copy[x]
           /\ Follows(d) => /\ copy'[d][w] = file[d] /\ Opened(d, w)'
                            /\ \A v \in Worker : v # w => copy'[d][v] = copy[d][v]
           /\ Unwritten(d, w) = {} /\ \A v : Unwritten(d, v)' = Unwritten(d, v)
           /\ Loose(d) \subseteq Loose(d)'
<1>0. copy[d][w] = Shut /\ UNCHANGED <<file, due, astray>>
  BY DEF Opens, OpenTurboVec
<1>1. \A x, v : Unwritten(x, v)' = Unwritten(x, v)
  BY <1>0 DEF Unwritten
<1>2. Unwritten(d, w) = {}
  BY <1>0 DEF CopyForms, Opened
<1>3. CASE Follows(d)
  <2>1. copy' = [copy EXCEPT ![d] = [copy[d] EXCEPT ![w] = file[d]]]
    BY <1>3 DEF Opens, OpenTurboVec
  <2>2. file[d] \in SUBSET Lesson /\ file[d] # Shut
    BY Workers DEF CopyForms
  <2>3. /\ copy' \in [Device -> [Worker -> (SUBSET Lesson) \cup {Shut}]] /\ copy'[d][w] = file[d]
        /\ \A x \in Device : x # d => copy'[x] = copy[x]
        /\ \A v \in Worker : v # w => copy'[d][v] = copy[d][v]
    BY <2>1, <2>2 DEF CopyForms
  <2>4. \A x \in Device, v \in Worker : Opened(x, v) => Opened(x, v)'
    BY <2>2, <2>3 DEF Opened
  <2>5. Opened(d, w)'
    BY <2>2, <2>3 DEF Opened
  <2>6. CopyForms'
    BY <1>0, <1>1, <2>3, <2>4 DEF CopyForms
  <2>7. \A v \in Worker : Fresh(d, v) \subseteq Fresh(d, v)'
    BY <1>1, <1>2, <2>3 DEF Fresh
  <2>8. Loose(d) \subseteq Loose(d)'
    BY <1>0, <2>7 DEF Loose
  <2> QED BY <1>0, <1>1, <1>2, <2>3, <2>5, <2>6, <2>8
<1>4. CASE ~Follows(d)
  <2>1. copy' = copy
    BY <1>4 DEF Opens, OpenTurboVec
  <2>2. CopyForms'
    BY <1>0, <1>1, <2>1 DEF CopyForms, Opened
  <2>3. Loose(d) \subseteq Loose(d)'
    BY <1>0, <1>1, <2>1 DEF Loose, Fresh
  <2> QED BY <1>0, <1>1, <1>2, <1>4, <2>1, <2>2, <2>3
<1> QED BY <1>3, <1>4

\* Whoever closes its copy writes it, and has nothing else to write.
LEMMA ClosesFrame ==
    ASSUME CopyForms, NEW d \in Device, NEW w \in Worker, Close(d, w)
    PROVE  /\ CopyForms' /\ Opened(d, w) /\ UNCHANGED <<due, astray>>
           /\ \A x \in Device : x # d => copy'[x] = copy[x] /\ file'[x] = file[x]
           /\ copy'[d][w] = Shut /\ file'[d] = copy[d][w]
           /\ \A v \in Worker : v # w => copy'[d][v] = copy[d][v]
           /\ \A v : Unwritten(d, v)' = Unwritten(d, v)
           /\ Loose(d) \subseteq Loose(d)'
<1>1. /\ copy' = [copy EXCEPT ![d] = [copy[d] EXCEPT ![w] = Shut]]
      /\ file' = [file EXCEPT ![d] = copy[d][w]]
      /\ copy[d][w] # Shut /\ Unwritten(d, w) = {} /\ UNCHANGED <<due, astray>>
  BY DEF Close
<1>2. copy[d][w] \in SUBSET Lesson /\ Opened(d, w)
  BY <1>1 DEF CopyForms, Opened
<1>3. /\ copy' \in [Device -> [Worker -> (SUBSET Lesson) \cup {Shut}]] /\ copy'[d][w] = Shut
      /\ \A x \in Device : x # d => copy'[x] = copy[x]
      /\ \A v \in Worker : v # w => copy'[d][v] = copy[d][v]
  BY <1>1 DEF CopyForms
<1>4. /\ file' \in [Device -> SUBSET Lesson] /\ file'[d] = copy[d][w]
      /\ \A x \in Device : x # d => file'[x] = file[x]
  BY <1>1, <1>2 DEF CopyForms
<1>5. \A x, v : Unwritten(x, v)' = Unwritten(x, v)
  BY <1>1 DEF Unwritten
<1>6. \A x \in Device, v \in Worker : x # d \/ v # w => (Opened(x, v) => Opened(x, v)')
  BY <1>3 DEF Opened
<1>7. CopyForms'
  BY <1>1, <1>3, <1>4, <1>5, <1>6 DEF CopyForms
<1>8. \A v \in Worker : Fresh(d, v) \subseteq Fresh(d, v)'
  BY <1>1, <1>3, <1>5 DEF Fresh
<1>9. Loose(d) \subseteq Loose(d)'
  BY <1>1, <1>8 DEF Loose
<1> QED BY <1>1, <1>2, <1>3, <1>4, <1>5, <1>7, <1>9

\* Who has nothing to write changes its copy: what it adds is loose until it is written.
LEMMA ChangesFrame ==
    ASSUME CopyForms, NEW d \in Device, NEW w \in Worker, w # "look", NEW new \in SUBSET Lesson, NEW s \in SUBSET Lesson,
           Changes(d, w, new, s), Unwritten(d, w) = {}, Follows(d) => Opened(d, w)
    PROVE  /\ CopyForms' /\ UNCHANGED <<file, astray>>
           /\ \A x \in Device : x # d => copy'[x] = copy[x] /\ due'[x] = due[x]
           /\ Follows(d) => /\ copy'[d][w] = new /\ Opened(d, w)'
                            /\ \A v \in Worker : v # w => /\ copy'[d][v] = copy[d][v]
                                                          /\ Unwritten(d, v)' = Unwritten(d, v)
           /\ Follows(d) => Loose(d) \subseteq Loose(d)' /\ s \cap new \subseteq Loose(d)'
<1>0. UNCHANGED <<file, astray>>
  BY DEF Changes
<1>1. CASE ~Follows(d)
  <2>1. UNCHANGED <<copy, due>>
    BY <1>1 DEF Changes
  <2>2. CopyForms'
    BY <1>0, <2>1 DEF CopyForms, Unwritten, Opened
  <2> QED BY <1>0, <1>1, <2>1, <2>2
<1>2. CASE Follows(d)
  <2>1. /\ copy' = [copy EXCEPT ![d] = [copy[d] EXCEPT ![w] = new]]
        /\ due' = [due EXCEPT ![d] = due[d] \cup ({w} \X s)]
    BY <1>2 DEF Changes
  <2>2. /\ copy' \in [Device -> [Worker -> (SUBSET Lesson) \cup {Shut}]] /\ copy'[d][w] = new
        /\ \A x \in Device : x # d => copy'[x] = copy[x]
        /\ \A v \in Worker : v # w => copy'[d][v] = copy[d][v]
    BY <2>1 DEF CopyForms
  <2>3. due[d] \cup ({w} \X s) \in SUBSET (Worker \X Lesson)
    BY DEF CopyForms
  <2>4. /\ due' \in [Device -> SUBSET (Worker \X Lesson)] /\ due'[d] = due[d] \cup ({w} \X s)
        /\ \A x \in Device : x # d => due'[x] = due[x]
    BY <2>1, <2>3 DEF CopyForms
  <2>5. Opened(d, w)'
    BY <2>2, Workers DEF Opened
  <2>6. \A m \in Lesson : <<w, m>> \in due'[d] <=> <<w, m>> \in due[d] \/ m \in s
    BY <2>4
  <2>7. \A v, m : v # w => (<<v, m>> \in due'[d] <=> <<v, m>> \in due[d])
    BY <2>4
  <2>8. Unwritten(d, w)' = s
    BY <2>6 DEF Unwritten
  <2>9. \A v : v # w => Unwritten(d, v)' = Unwritten(d, v)
    BY <2>7 DEF Unwritten
  <2>10. \A x \in Device : x # d => \A v : Unwritten(x, v)' = Unwritten(x, v)
    BY <2>4 DEF Unwritten
  <2>11. \A x \in Device, v \in Worker : x # d \/ v # w => (Opened(x, v) => Opened(x, v)')
    BY <2>2 DEF Opened
  <2>12. CopyForms'
    <3>1. \A x \in Device : Unwritten(x, "look")' = {}
      BY <2>9, <2>10 DEF CopyForms
    <3>2. \A x \in Device, v \in Worker : Unwritten(x, v)' # {} => Opened(x, v)'
      BY <2>5, <2>9, <2>10, <2>11 DEF CopyForms
    <3>3. /\ file' \in [Device -> SUBSET Lesson] /\ astray' \in [Device -> SUBSET Lesson]
          /\ copy' \in [Device -> [Worker -> (SUBSET Lesson) \cup {Shut}]]
          /\ due' \in [Device -> SUBSET (Worker \X Lesson)]
      BY <1>0, <2>2, <2>4 DEF CopyForms
    <3> QED BY <3>1, <3>2, <3>3 DEF CopyForms
  <2>13. Fresh(d, w)' = s \cap new /\ Fresh(d, w) = {}
    BY <2>2, <2>8 DEF Fresh
  <2>14. \A v \in Worker : v # w => Fresh(d, v)' = Fresh(d, v)
    BY <2>2, <2>9 DEF Fresh
  <2>15. Loose(d) \subseteq Loose(d)'
    BY <1>0, <2>13, <2>14 DEF Loose
  <2>16. s \cap new \subseteq Loose(d)'
    BY <2>13 DEF Loose
  <2> QED BY <1>0, <1>2, <2>2, <2>4, <2>5, <2>9, <2>12, <2>15, <2>16
<1> QED BY <1>1, <1>2

\* What is no longer to be written by w.
LEMMA Clears ==
    ASSUME CopyForms, NEW d \in Device, NEW w \in Worker, due' = [due EXCEPT ![d] = {p \in due[d] : p[1] # w}]
    PROVE  /\ due' \in [Device -> SUBSET (Worker \X Lesson)]
           /\ \A x \in Device : x # d => due'[x] = due[x] /\ \A v : Unwritten(x, v)' = Unwritten(x, v)
           /\ Unwritten(d, w)' = {}
           /\ \A v : v # w => Unwritten(d, v)' = Unwritten(d, v)
<1>1. {p \in due[d] : p[1] # w} \in SUBSET (Worker \X Lesson)
  BY DEF CopyForms
<1>2. /\ due' \in [Device -> SUBSET (Worker \X Lesson)]
      /\ due'[d] = {p \in due[d] : p[1] # w}
      /\ \A x \in Device : x # d => due'[x] = due[x]
  BY <1>1 DEF CopyForms
<1>3. \A m : <<w, m>> \notin due'[d]
  BY <1>2
<1>4. \A v, m : v # w => (<<v, m>> \in due'[d] <=> <<v, m>> \in due[d])
  BY <1>2
<1>5. Unwritten(d, w)' = {}
  BY <1>3 DEF Unwritten
<1>6. \A v : v # w => Unwritten(d, v)' = Unwritten(d, v)
  BY <1>4 DEF Unwritten
<1> QED BY <1>2, <1>5, <1>6 DEF Unwritten

\* Who writes its copy leaves nothing loose if no other copy is open.
LEMMA SyncsFrame ==
    ASSUME CopyForms, NEW d \in Device, NEW w \in Worker, SyncIndex(d, w)
    PROVE  /\ CopyForms' /\ Opened(d, w) /\ copy' = copy /\ file'[d] = copy[d][w]
           /\ \A x \in Device : x # d => file'[x] = file[x] /\ due'[x] = due[x] /\ astray'[x] = astray[x]
           /\ \A v : Unwritten(d, v) = {} => Unwritten(d, v)' = {}
           /\ Open(d) # {w} => Loose(d) \subseteq Loose(d)'
           /\ \A m \in Loose(d) \ Loose(d)' : m \in copy[d][w]
           /\ Unwritten(d, w) # {}
<1>1. /\ Unwritten(d, w) # {} /\ copy' = copy
      /\ file' = [file EXCEPT ![d] = copy[d][w]]
      /\ due'  = [due EXCEPT ![d] = {p \in due[d] : p[1] # w}]
      /\ astray' = [astray EXCEPT ![d] = IF Open(d) = {w} THEN astray[d] \ Fresh(d, w) ELSE astray[d] \cup Fresh(d, w)]
  BY DEF SyncIndex
<1>2. Opened(d, w) /\ copy[d][w] \in SUBSET Lesson
  BY <1>1 DEF CopyForms, Opened
<1>3. /\ due' \in [Device -> SUBSET (Worker \X Lesson)]
      /\ \A x \in Device : x # d => due'[x] = due[x] /\ \A v : Unwritten(x, v)' = Unwritten(x, v)
      /\ Unwritten(d, w)' = {}
      /\ \A v : v # w => Unwritten(d, v)' = Unwritten(d, v)
  BY <1>1, Clears
<1>4. /\ file' \in [Device -> SUBSET Lesson] /\ file'[d] = copy[d][w]
      /\ \A x \in Device : x # d => file'[x] = file[x]
  BY <1>1, <1>2 DEF CopyForms
<1>5. Fresh(d, w) \subseteq Lesson
  BY DEF Fresh, Unwritten
<1>6. PICK a \in SUBSET Lesson :
         a = IF Open(d) = {w} THEN astray[d] \ Fresh(d, w) ELSE astray[d] \cup Fresh(d, w)
  BY <1>5 DEF CopyForms
<1>7. /\ astray' \in [Device -> SUBSET Lesson] /\ astray'[d] = a
      /\ \A x \in Device : x # d => astray'[x] = astray[x]
  BY <1>1, <1>6 DEF CopyForms
<1>8. \A x \in Device, v \in Worker : Opened(x, v)' <=> Opened(x, v)
  BY <1>1 DEF Opened
<1>9. CopyForms'
  <2>1. \A x \in Device : Unwritten(x, "look")' = {}
    BY <1>3 DEF CopyForms
  <2>2. \A x \in Device, v \in Worker : Unwritten(x, v)' # {} => Opened(x, v)'
    BY <1>3, <1>8 DEF CopyForms
  <2> QED BY <1>1, <1>3, <1>4, <1>7, <2>1, <2>2 DEF CopyForms
<1>10. \A v \in Worker : v # w => Fresh(d, v)' = Fresh(d, v)
  BY <1>1, <1>3 DEF Fresh
<1>11. Loose(d) \subseteq Loose(d)' \cup Fresh(d, w)
  BY <1>6, <1>7, <1>10 DEF Loose
<1>12. Open(d) # {w} => Loose(d) \subseteq Loose(d)'
  BY <1>6, <1>7, <1>10 DEF Loose
<1>13. \A m \in Loose(d) \ Loose(d)' : m \in copy[d][w]
  BY <1>11 DEF Fresh
<1> QED BY <1>1, <1>2, <1>3, <1>4, <1>7, <1>9, <1>12, <1>13

\* Who stops before it writes leaves what it had to write loose.
LEMMA StopsFrame ==
    ASSUME CopyForms, NEW d \in Device, NEW w \in Worker, StopsUnwritten(d, w)
    PROVE  /\ CopyForms' /\ file' = file /\ copy'[d][w] = Shut
           /\ \A v \in Worker : v # w => copy'[d][v] = copy[d][v]
           /\ \A x \in Device : x # d => copy'[x] = copy[x] /\ due'[x] = due[x] /\ astray'[x] = astray[x]
           /\ \A v : Unwritten(d, v) = {} => Unwritten(d, v)' = {}
           /\ Loose(d) \subseteq Loose(d)'
           /\ Unwritten(d, w) # {}
<1>1. /\ Unwritten(d, w) # {} /\ file' = file
      /\ copy' = [copy EXCEPT ![d] = [copy[d] EXCEPT ![w] = Shut]]
      /\ due'  = [due EXCEPT ![d] = {p \in due[d] : p[1] # w}]
      /\ astray' = [astray EXCEPT ![d] = astray[d] \cup Fresh(d, w)]
  BY DEF StopsUnwritten
<1>2. /\ due' \in [Device -> SUBSET (Worker \X Lesson)]
      /\ \A x \in Device : x # d => due'[x] = due[x] /\ \A v : Unwritten(x, v)' = Unwritten(x, v)
      /\ Unwritten(d, w)' = {}
      /\ \A v : v # w => Unwritten(d, v)' = Unwritten(d, v)
  BY <1>1, Clears
<1>3. /\ copy' \in [Device -> [Worker -> (SUBSET Lesson) \cup {Shut}]] /\ copy'[d][w] = Shut
      /\ \A x \in Device : x # d => copy'[x] = copy[x]
      /\ \A v \in Worker : v # w => copy'[d][v] = copy[d][v]
  BY <1>1 DEF CopyForms
<1>4. Fresh(d, w) \subseteq Lesson
  BY DEF Fresh, Unwritten
<1>5. /\ astray' \in [Device -> SUBSET Lesson] /\ astray'[d] = astray[d] \cup Fresh(d, w)
      /\ \A x \in Device : x # d => astray'[x] = astray[x]
  BY <1>1, <1>4 DEF CopyForms
<1>6. \A x \in Device, v \in Worker : x # d \/ v # w => (Opened(x, v) => Opened(x, v)')
  BY <1>3 DEF Opened
<1>7. CopyForms'
  <2>1. \A x \in Device : Unwritten(x, "look")' = {}
    BY <1>2 DEF CopyForms
  <2>2. \A x \in Device, v \in Worker : Unwritten(x, v)' # {} => Opened(x, v)'
    BY <1>2, <1>6 DEF CopyForms
  <2>3. file' \in [Device -> SUBSET Lesson]
    BY <1>1 DEF CopyForms
  <2> QED BY <1>2, <1>3, <1>5, <2>1, <2>2, <2>3 DEF CopyForms
<1>8. \A v \in Worker : v # w => Fresh(d, v)' = Fresh(d, v)
  BY <1>2, <1>3 DEF Fresh
<1>9. Loose(d) \subseteq Loose(d)'
  BY <1>5, <1>8 DEF Loose
<1> QED BY <1>1, <1>2, <1>3, <1>5, <1>7, <1>9

\* The file and the copies change hands; the rows stay.
LEMMA HeldMoves ==
    ASSUME NEW d \in Device, Held(d), row'[d] = row[d], Loose(d) \subseteq Loose(d)',
           file'[d] = file[d] \/ \E u \in Worker : copy[d][u] # Shut /\ file'[d] = copy[d][u],
           \A v \in Worker : \/ copy'[d][v] = Shut \/ copy'[d][v] = file[d]
                             \/ \E u \in Worker : copy[d][u] # Shut /\ copy'[d][v] = copy[d][u]
    PROVE  Held(d)'
<1> SUFFICES ASSUME NEW l \in Hot(d)', l \notin Loose(d)', row'[d][l].from # d
             PROVE  l \in file'[d] /\ \A v \in Worker : copy'[d][v] # Shut => l \in copy'[d][v]
  BY DEF Held
<1>1. l \in Hot(d) \ Loose(d) /\ row[d][l].from # d
  BY DEF Hot
<1>2. l \in file[d] /\ \A v \in Worker : copy[d][v] # Shut => l \in copy[d][v]
  BY <1>1 DEF Held
<1> QED BY <1>2

\* Rows are written, and one copy changed.
LEMMA HeldWrites ==
    ASSUME NEW d \in Device, Held(d), NEW w \in Worker, Opened(d, w), NEW new, copy'[d][w] = new,
           \A v \in Worker : v # w => copy'[d][v] = copy[d][v],
           file' = file, Loose(d) \subseteq Loose(d)',
           \A l \in Hot(d)' : row'[d][l].from # d => \/ l \in Loose(d)'
                                                     \/ row'[d][l] = row[d][l] /\ (l \in copy[d][w] => l \in new)
    PROVE  Held(d)'
<1> SUFFICES ASSUME NEW l \in Hot(d)', l \notin Loose(d)', row'[d][l].from # d
             PROVE  l \in file'[d] /\ \A v \in Worker : copy'[d][v] # Shut => l \in copy'[d][v]
  BY DEF Held
<1>0. row'[d][l] = row[d][l] /\ (l \in copy[d][w] => l \in new)
  OBVIOUS
<1>1. l \in Hot(d) \ Loose(d) /\ row[d][l].from # d
  BY <1>0 DEF Hot
<1>2. l \in file[d] /\ \A v \in Worker : copy[d][v] # Shut => l \in copy[d][v]
  BY <1>1 DEF Held
<1> QED BY <1>0, <1>2 DEF Opened

\* A command in hand while others write.
LEMMA InHandKept ==
    ASSUME NEW d \in Device, InHand(d), task'[d] = task[d], task[d] # NoTask => task[d].m \in Lesson,
           Loose(d) \subseteq Loose(d)',
           \A l \in Lesson : /\ row[d][l] # NoRow => row'[d][l] # NoRow /\ row'[d][l].from = row[d][l].from
                             /\ row[d][l] = NoRow /\ row'[d][l] # NoRow /\ row'[d][l].from # d => l \in Loose(d)'
    PROVE  InHand(d)'
<1> SUFFICES ASSUME task[d] # NoTask
             PROVE  LET n == row'[d][task[d].m]  saw == task[d].saw IN
                    /\ saw = NoRow /\ n # NoRow /\ n.from # d => task[d].m \in Loose(d)'
                    /\ saw # NoRow => n # NoRow /\ n.from = saw.from
  BY DEF InHand
<1>1. /\ task[d].saw = NoRow /\ row[d][task[d].m] # NoRow /\ row[d][task[d].m].from # d
         => task[d].m \in Loose(d)
      /\ task[d].saw # NoRow => row[d][task[d].m] # NoRow /\ row[d][task[d].m].from = task[d].saw.from
  BY DEF InHand
<1> QED BY <1>1

\* What leaves a device's index alone, and brings no peer's row up.
LEMMA IndexStays ==
    ASSUME NEW x \in Device, IndexOf(x),
           \A l \in Lesson : \/ row'[x][l] = row[x][l]
                             \/ /\ row[x][l] # NoRow /\ row'[x][l] # NoRow
                                /\ row'[x][l].from = row[x][l].from /\ ~row'[x][l].hot,
           task'[x] = task[x], task[x] # NoTask => task[x].m \in Lesson,
           sync'[x] # NoSync => sync[x] # NoSync,
           look'[x].at \in {"listed", "hits", "missing"} => look[x].at \in {"listed", "hits", "missing"},
           \A e \in Device : serve'[x][e] # NoServe => serve[x][e] # NoServe,
           file'[x] = file[x], copy'[x] = copy[x], due'[x] = due[x], astray'[x] = astray[x]
    PROVE  IndexOf(x)'
<1>0. (\A w : Unwritten(x, w)' = Unwritten(x, w)) /\ Loose(x)' = Loose(x)
  BY DEF Unwritten, Loose, Fresh
<1>1. HasCopies(x)'
  BY <1>0 DEF IndexOf, HasCopies, Opened
<1>2. Held(x)'
  <2>1. \A l \in Hot(x)' : l \in Hot(x) /\ row'[x][l].from = row[x][l].from
    BY DEF Hot
  <2> QED BY <1>0, <2>1 DEF IndexOf, Held
<1>3. InHand(x)'
  BY <1>0 DEF IndexOf, InHand
<1> QED BY <1>1, <1>2, <1>3 DEF IndexOf

LEMMA InitIndex == RecallInit => Index
<1> SUFFICES ASSUME RecallInit PROVE Index
  OBVIOUS
<1> USE DEF RecallInit, Init
<1>1. CopyForms
  <2>1. \A d \in Device : \A w : Unwritten(d, w) = {}
    BY DEF Unwritten
  <2> QED BY <2>1 DEF CopyForms
<1>2. \A d \in Device : /\ task[d] = NoTask /\ sync[d] = NoSync /\ look[d] = NoLook
                        /\ \A e \in Device : serve[d][e] = NoServe
  OBVIOUS
<1>3. ASSUME NEW d \in Device PROVE IndexOf(d)
  BY <1>2, Blanks DEF IndexOf, HasCopies, Held, Hot, InHand
<1>4. search.indexed \subseteq Device
  BY RecallAssumption DEF IsSearch
<1> QED BY <1>1, <1>3, <1>4 DEF Index

\* One device's index changes.
LEMMA IndexElsewhere ==
    ASSUME Forms, Index, IsSearch(search), search' = search, CopyForms', NEW a \in Device,
           \A x \in Device : x # a =>
              /\ \A l \in Lesson : row'[x][l] = row[x][l]
              /\ task'[x] = task[x] /\ (sync'[x] # NoSync => sync[x] # NoSync) /\ look'[x] = look[x]
              /\ \A e \in Device : serve'[x][e] # NoServe => serve[x][e] # NoServe
              /\ file'[x] = file[x] /\ copy'[x] = copy[x] /\ due'[x] = due[x] /\ astray'[x] = astray[x],
           a \in search.indexed => IndexOf(a)'
    PROVE  Index'
<1> SUFFICES ASSUME NEW x \in search.indexed PROVE IndexOf(x)'
  BY DEF Index
<1>1. x \in Device /\ IndexOf(x)
  BY DEF IsSearch, Index
<1>2. task[x] # NoTask => task[x].m \in Lesson
  BY <1>1 DEF Forms, Order
<1>3. CASE x # a
  BY <1>1, <1>2, <1>3, IndexStays
<1> QED BY <1>3

\* No index changes.
LEMMA IndexUntouched ==
    ASSUME Forms, Index, IsSearch(search), search' = search, UNCHANGED index,
           \A x \in Device :
              /\ \A l \in Lesson : \/ row'[x][l] = row[x][l]
                                   \/ /\ row[x][l] # NoRow /\ row'[x][l] # NoRow
                                      /\ row'[x][l].from = row[x][l].from /\ ~row'[x][l].hot
              /\ task'[x] = task[x]
              /\ sync'[x] # NoSync /\ x \in search.indexed => sync[x] # NoSync
              /\ look'[x].at \in {"listed", "hits", "missing"} => look[x].at \in {"listed", "hits", "missing"}
              /\ \A e \in Device : serve'[x][e] # NoServe => serve[x][e] # NoServe
    PROVE  Index'
<1>1. UNCHANGED <<file, copy, due, astray>>
  BY DEF index
<1>2. CopyForms'
  BY <1>1 DEF Index, CopyForms, Opened, Unwritten
<1> SUFFICES ASSUME NEW x \in search.indexed PROVE IndexOf(x)'
  BY <1>2 DEF Index
<1>3. x \in Device /\ IndexOf(x)
  BY DEF IsSearch, Index
<1>4. task[x] # NoTask => task[x].m \in Lesson
  BY <1>3 DEF Forms, Order
<1> QED BY <1>1, <1>3, <1>4, IndexStays

\* A peer's packet goes into the copy with its row.
LEMMA IndexedImport ==
    ASSUME Shape, Forms, CopyForms, NEW d \in Device, IndexOf(d), Follows(d), NEW w \in Worker,
           w # "look", Unwritten(d, w) = {}, Opened(d, w),
           NEW p \in Packet, NEW peer \in Device, peer # d,
           Write(d, p.m, PeerUpserted(row[d][p.m], p, peer)), Indexes(d, w, p.m, peer), task' = task
    PROVE  Held(d)' /\ InHand(d)'
<1>1. PICK m \in Lesson, old \in Row \cup {NoRow} : m = p.m /\ old = row[d][m]
  BY DEF Packet, Shape
<1>2. PICK r : r = PeerUpserted(old, p, peer)
  OBVIOUS
<1>3. r \in Row /\ r.status = "active" /\ r.hot /\ r.from = IF old = NoRow THEN peer ELSE old.from
  BY <1>2, ImportedRows
<1>4. row'[d][m] = r /\ \A l \in Lesson : l # m => row'[d][l] = row[d][l]
  BY <1>1, <1>2, <1>3, Writes
<1>5. Changes(d, w, copy[d][w] \cup {m}, {m})
  BY <1>1, <1>3, <1>4 DEF Indexes
<1>6. PICK new \in SUBSET Lesson : new = copy[d][w] \cup {m}
  BY DEF Opened
<1>7. /\ file' = file /\ copy'[d][w] = new /\ \A v \in Worker : v # w => copy'[d][v] = copy[d][v]
      /\ Loose(d) \subseteq Loose(d)' /\ {m} \cap new \subseteq Loose(d)'
  <2>1. {m} \in SUBSET Lesson /\ Changes(d, w, new, {m})
    BY <1>5, <1>6
  <2> QED BY <2>1, ChangesFrame
<1>8. m \in Loose(d)'
  BY <1>6, <1>7
<1>9. Held(d)'
  <2>1. \A l \in Hot(d)' : row'[d][l].from # d => \/ l \in Loose(d)'
                                                  \/ row'[d][l] = row[d][l] /\ (l \in copy[d][w] => l \in new)
    BY <1>4, <1>6, <1>8 DEF Hot
  <2>2. Held(d)
    BY DEF IndexOf
  <2> QED BY <1>7, <2>1, <2>2, HeldWrites
<1>10. InHand(d)'
  <2>1. \A l \in Lesson : /\ row[d][l] # NoRow => row'[d][l] # NoRow /\ row'[d][l].from = row[d][l].from
                          /\ row[d][l] = NoRow /\ row'[d][l] # NoRow /\ row'[d][l].from # d => l \in Loose(d)'
    BY <1>1, <1>3, <1>4, <1>8, RecallAssumption
  <2>2. task[d] # NoTask => task[d].m \in Lesson
    BY DEF Forms, Order
  <2>3. InHand(d) /\ task'[d] = task[d]
    BY DEF IndexOf
  <2> QED BY <1>7, <2>1, <2>2, <2>3, InHandKept
<1> QED BY <1>9, <1>10

\* Who works on what: each step keeps the copies, and what the file and they hold.
LEMMA NextIndex ==
    ASSUME Memory, Looks, Index, IsSearch(search), RecallNext
    PROVE  Index'
<1> USE DEF Memory, stores, circle, history, Follows
<1>0. /\ CopyForms
      /\ \A d \in search.indexed : HasCopies(d) /\ Held(d) /\ InHand(d) /\ IndexOf(d)
      /\ search' = search /\ search.indexed \subseteq Device
  <2>1. search' = search
    BY DEF RecallNext, MemoriesMove, ListActiveMemories, BuildRecallResults, ExpandGraph, FetchMissing, RecallEnds,
           SyncIndex, StopsUnwritten, Close, Visit,
           AgentWrites, StatTranscript, ReadTail, InsertSpan, ScanFails, SetWatermark
  <2> QED BY <2>1 DEF Index, IndexOf, IsSearch
<1>m. MemoriesMove => look' = look
  BY DEF MemoriesMove, lookup
<1>t. \A d \in Device : task[d] # NoTask => task[d].m \in Lesson
  BY DEF Forms, Order
<1>q. ASSUME UNCHANGED index, UNCHANGED vars,
             \A x \in Device : look'[x].at \in {"listed", "hits", "missing"}
                               => look[x].at \in {"listed", "hits", "missing"}
      PROVE  Index'
  <2>1. UNCHANGED <<row, task, sync, serve>>
    BY <1>q DEF vars
  <2> QED BY <1>0, <1>q, <2>1, IndexUntouched
<1>r. ASSUME NEW d \in Device, d \in search.indexed, row'[d] = row[d], task'[d] = task[d], Loose(d) \subseteq Loose(d)'
      PROVE  InHand(d)'
  <2>1. InHand(d) /\ (task[d] # NoTask => task[d].m \in Lesson)
    BY <1>0, <1>r, <1>t
  <2>2. \A l \in Lesson : /\ row[d][l] # NoRow => row'[d][l] # NoRow /\ row'[d][l].from = row[d][l].from
                          /\ row[d][l] = NoRow /\ row'[d][l] # NoRow /\ row'[d][l].from # d => l \in Loose(d)'
    BY <1>r
  <2> QED BY <1>r, <2>1, <2>2, InHandKept
<1>o. ASSUME NEW d \in Device, d \in search.indexed, NEW w \in Worker, Opens(d, w), row'[d] = row[d]
      PROVE  Held(d)'
  <2>1. /\ file' = file /\ copy'[d][w] = file[d] /\ Loose(d) \subseteq Loose(d)'
        /\ \A v \in Worker : v # w => copy'[d][v] = copy[d][v]
    BY <1>0, <1>o, OpensFrame
  <2>2. \A v \in Worker : \/ copy'[d][v] = Shut \/ copy'[d][v] = file[d]
                          \/ \E u \in Worker : copy[d][u] # Shut /\ copy'[d][v] = copy[d][u]
    BY <2>1
  <2>3. Held(d)
    BY <1>0, <1>o
  <2> QED BY <1>o, <2>1, <2>2, <2>3, HeldMoves
<1>1. ASSUME NEW d \in Device, Begins(d), Opens(d, "task"), look' = look
      PROVE  Index'
  <2>1. PICK m \in Lesson : GetMemory(d, m) \/ RunGC(d, m)
    BY <1>1 DEF Begins
  <2>2. /\ \A x \in Device : x # d => task'[x] = task[x]
        /\ task'[d].m = m /\ task'[d].saw = row[d][m]
        /\ UNCHANGED <<stores, sync, serve>>
    BY <2>1, BeginFrame
  <2>3. /\ CopyForms' /\ \A x \in Device : x # d => copy'[x] = copy[x]
        /\ UNCHANGED <<file, due, astray>>
        /\ Unwritten(d, "task")' = {}
        /\ d \in search.indexed => /\ copy'[d]["task"] = file[d] /\ Opened(d, "task")'
                                /\ \A v \in Worker : v # "task" => copy'[d][v] = copy[d][v]
    BY <1>0, <1>1, Workers, OpensFrame
  <2>4. ASSUME d \in search.indexed PROVE IndexOf(d)'
    <3>1. Held(d)'
      BY <1>1, <1>o, <2>2, <2>4, Workers
    <3>2. InHand(d)'
      BY <2>2 DEF InHand
    <3>3. HasCopies(d)'
      BY <1>0, <1>1, <2>2, <2>3, <2>4, Workers DEF HasCopies, Opened
    <3> QED BY <3>1, <3>2, <3>3 DEF IndexOf
  <2> QED BY <1>0, <1>1, <2>2, <2>3, <2>4, IndexElsewhere
<1>2. ASSUME NEW d \in Device, CommandWrites(d), look' = look PROVE Index'
  <2>1. PICK m, from : /\ m \in Lesson /\ m = task[d].m
                       /\ from = IF task[d].saw = NoRow THEN d ELSE task[d].saw.from
    <3>1. task[d] \in Order
      BY <1>2, CommandFrame DEF CommandWrites
    <3> QED BY <3>1 DEF Order
  <2>2. Indexes(d, "task", m, from)
    BY <1>2, <2>1 DEF CommandWrites
  <2>3. /\ task[d] \in Order /\ task' = [task EXCEPT ![d] = NoTask] /\ UNCHANGED <<sync, serve>>
    BY <1>2, CommandFrame DEF CommandWrites
  <2>4. PICK r \in Row \cup {NoRow} :
           /\ Write(d, m, r)
           /\ r # NoRow => r.from = IF row[d][m] # NoRow THEN row[d][m].from ELSE from
    <3>1. RecordMemory(d) \/ ValidateMemory(d)
      BY <1>2 DEF CommandWrites
    <3>2. \E r \in Row \cup {NoRow} :
           /\ Write(d, task[d].m, r)
           /\ r # NoRow => r.from = IF row[d][task[d].m] # NoRow THEN row[d][task[d].m].from
                                    ELSE IF task[d].saw = NoRow THEN d ELSE task[d].saw.from
      BY <3>1, CommandFrame
    <3> QED BY <2>1, <3>2
  <2>5. row'[d][m] = r /\ \A x \in Device, l \in Lesson : x # d \/ l # m => row'[x][l] = row[x][l]
    BY <2>1, <2>4, Writes
  <2>6. task[d] # NoTask /\ task'[d] = NoTask /\ \A x \in Device : x # d => task'[x] = task[x]
    BY <2>3, Blanks DEF Forms
  <2>7. d \in search.indexed => Opened(d, "task") /\ Unwritten(d, "task") = {}
    BY <1>0, <2>6 DEF HasCopies
  <2>8. CASE d \in search.indexed
    <3>0. PICK adds \in SUBSET Lesson :
             adds = IF from # d /\ row'[d][m].status = "active" /\ row'[d][m].hot THEN {m} ELSE {}
      BY <2>1
    <3>1. PICK new \in SUBSET Lesson : new = copy[d]["task"] \cup adds
      BY <2>7, <2>8 DEF Opened
    <3>2. Changes(d, "task", new, adds)
      BY <2>2, <3>0, <3>1 DEF Indexes
    <3>3. /\ CopyForms' /\ UNCHANGED <<file, astray>>
          /\ \A x \in Device : x # d => copy'[x] = copy[x] /\ due'[x] = due[x]
          /\ copy'[d]["task"] = new
          /\ \A v \in Worker : v # "task" => copy'[d][v] = copy[d][v]
          /\ Loose(d) \subseteq Loose(d)' /\ adds \cap new \subseteq Loose(d)'
      BY <1>0, <2>7, <2>8, <3>2, Workers, ChangesFrame
    <3>4. m \in Hot(d)' /\ row'[d][m].from # d => m \in Loose(d)'
      <4> SUFFICES ASSUME m \in Hot(d)', row'[d][m].from # d PROVE m \in Loose(d)'
        OBVIOUS
      <4>1. r # NoRow /\ r.status = "active" /\ r.hot /\ r.from # d
        BY <2>5 DEF Hot
      <4>2. CASE from # d
        <5>1. m \in adds \cap new
          BY <2>5, <3>0, <3>1, <4>1, <4>2
        <5> QED BY <3>3, <5>1
      <4>3. CASE from = d
        <5>1. row[d][m] # NoRow /\ row[d][m].from # d
          BY <2>4, <4>1, <4>3
        <5>2. task[d].saw = NoRow
          BY <1>0, <2>1, <2>6, <2>8, <4>3, <5>1 DEF InHand
        <5>3. m \in Loose(d)
          BY <1>0, <2>1, <2>6, <2>8, <5>1, <5>2 DEF InHand
        <5> QED BY <3>3, <5>3
      <4> QED BY <4>2, <4>3
    <3>5. Held(d)'
      <4>1. \A l \in Hot(d)' : row'[d][l].from # d =>
               \/ l \in Loose(d)'
               \/ row'[d][l] = row[d][l] /\ (l \in copy[d]["task"] => l \in new)
        BY <2>5, <3>1, <3>4 DEF Hot
      <4> QED BY <1>0, <2>7, <2>8, <3>3, <4>1, Workers, HeldWrites
    <3>6. InHand(d)'
      BY <2>6 DEF InHand
    <3>7. HasCopies(d)'
      BY <1>0, <1>2, <2>3, <2>6, <2>8, <3>3, Workers DEF HasCopies, Opened
    <3>8. IndexOf(d)'
      BY <3>5, <3>6, <3>7 DEF IndexOf
    <3> QED BY <1>0, <1>2, <2>3, <2>5, <2>6, <3>3, <3>8, IndexElsewhere
  <2>9. CASE d \notin search.indexed
    <3>1. UNCHANGED <<file, copy, due, astray>>
      BY <2>2, <2>9 DEF Indexes, Changes
    <3>2. CopyForms'
      BY <1>0, <3>1 DEF CopyForms, Opened, Unwritten
    <3> QED BY <1>0, <1>2, <2>3, <2>5, <2>6, <2>9, <3>1, <3>2, IndexElsewhere
  <2> QED BY <2>8, <2>9
<1>3. ASSUME NEW d \in Device, CommandDeletes(d), look' = look PROVE Index'
  <2>1. PICK m \in Lesson : m = task[d].m
    <3>1. task[d] \in Order
      BY <1>3, CommandFrame DEF CommandDeletes
    <3> QED BY <3>1 DEF Order
  <2>2. /\ task[d] \in Order /\ task' = [task EXCEPT ![d] = NoTask] /\ UNCHANGED <<sync, serve>>
    BY <1>3, CommandFrame DEF CommandDeletes
  <2>3. Write(d, m, NoRow)
    BY <1>3, <2>1 DEF CommandDeletes, DeleteMemory
  <2>4. row'[d][m] = NoRow /\ \A x \in Device, l \in Lesson : x # d \/ l # m => row'[x][l] = row[x][l]
    BY <2>3, Writes
  <2>5. task[d] # NoTask /\ task'[d] = NoTask /\ \A x \in Device : x # d => task'[x] = task[x]
    BY <2>2, Blanks DEF Forms
  <2>6. d \in search.indexed => Opened(d, "task") /\ Unwritten(d, "task") = {}
    BY <1>0, <2>5 DEF HasCopies
  <2>7. PICK gone \in SUBSET Lesson :
           gone \subseteq {m} /\ gone = IF row[d][m] # NoRow /\ row[d][m].from # d THEN {m} ELSE {}
    OBVIOUS
  <2>8. Changes(d, "task", copy[d]["task"] \ gone, gone)
    BY <1>3, <2>1, <2>7 DEF CommandDeletes, Removes
  <2>9. CASE d \in search.indexed
    <3>1. PICK new \in SUBSET Lesson : new = copy[d]["task"] \ gone
      BY <2>6, <2>9 DEF Opened
    <3>2. Changes(d, "task", new, gone)
      BY <2>8, <3>1
    <3>3. /\ CopyForms' /\ UNCHANGED <<file, astray>>
          /\ \A x \in Device : x # d => copy'[x] = copy[x] /\ due'[x] = due[x]
          /\ copy'[d]["task"] = new
          /\ \A v \in Worker : v # "task" => copy'[d][v] = copy[d][v]
          /\ Loose(d) \subseteq Loose(d)'
      BY <1>0, <2>6, <2>9, <3>2, Workers, ChangesFrame
    <3>4. \A l \in Hot(d)' : row'[d][l].from # d =>
             \/ l \in Loose(d)'
             \/ row'[d][l] = row[d][l] /\ (l \in copy[d]["task"] => l \in new)
      BY <2>4, <2>7, <3>1 DEF Hot
    <3>5. Held(d)'
      BY <1>0, <2>6, <2>9, <3>3, <3>4, Workers, HeldWrites
    <3>6. InHand(d)'
      BY <2>5 DEF InHand
    <3>7. HasCopies(d)'
      BY <1>0, <1>3, <2>2, <2>5, <2>9, <3>3, Workers DEF HasCopies, Opened
    <3>8. IndexOf(d)'
      BY <3>5, <3>6, <3>7 DEF IndexOf
    <3> QED BY <1>0, <1>3, <2>2, <2>4, <2>5, <3>3, <3>8, IndexElsewhere
  <2>10. CASE d \notin search.indexed
    <3>1. UNCHANGED <<file, copy, due, astray>>
      BY <2>8, <2>10 DEF Changes
    <3>2. CopyForms'
      BY <1>0, <3>1 DEF CopyForms, Opened, Unwritten
    <3> QED BY <1>0, <1>3, <2>2, <2>4, <2>5, <2>10, <3>1, <3>2, IndexElsewhere
  <2> QED BY <2>9, <2>10
<1>4. ASSUME NEW d \in Device, Imports(d), look' = look PROVE Index'
  <2>1. /\ \A x \in Device : x # d => sync'[x] = sync[x]
        /\ sync[d] \in Session /\ sync[d].at = "importing"
        /\ UNCHANGED <<task, serve>> /\ Unwritten(d, "sync") = {}
    BY <1>4, ImportFrame DEF Imports
  <2>2. sync[d] # NoSync /\ sync[d].peer \in Device /\ sync[d].peer # d
    <3>1. sync[d] # NoSync
      BY <2>1, Blanks
    <3>2. sync[d].peer \in sync[d].todo /\ d \notin sync[d].todo
      BY <2>1, <3>1 DEF Calls, CallsOf
    <3> QED BY <2>1, <3>1, <3>2 DEF Session
  <2>3. CASE sync[d].saw = {}
    <3>1. UNCHANGED index
      BY <1>4, <2>3 DEF Imports
    <3>2. UNCHANGED row
      BY <1>4, <2>3 DEF Imports, ImportPeerBatch
    <3> QED BY <1>0, <1>4, <2>1, <2>2, <3>1, <3>2, IndexUntouched
  <2>4. CASE sync[d].saw # {}
    <3>1. PICK p \in sync[d].saw : Indexes(d, "sync", p.m, sync[d].peer)
      BY <1>4, <2>4 DEF Imports
    <3>2. PICK q \in sync[d].saw : Write(d, q.m, PeerUpserted(row[d][q.m], q, sync[d].peer))
      BY <1>4, <2>4 DEF Imports, ImportPeerBatch
    <3>3. p = q
      BY <2>2 DEF OneByOne, OneSeen
    <3>4. PICK peer \in Device : peer = sync[d].peer /\ peer # d
      BY <2>2
    <3>5. p \in Packet /\ p.m \in Lesson
      BY <2>1 DEF Session, Packet
    <3>6. Write(d, p.m, PeerUpserted(row[d][p.m], p, peer)) /\ Indexes(d, "sync", p.m, peer)
      BY <3>1, <3>2, <3>3, <3>4
    <3>7. d \in search.indexed => Opened(d, "sync")
      BY <1>0, <2>2 DEF HasCopies
    <3>8. /\ CopyForms' /\ UNCHANGED <<file, astray>>
          /\ \A x \in Device : x # d => copy'[x] = copy[x] /\ due'[x] = due[x]
          /\ d \in search.indexed => /\ Opened(d, "sync")'
                                  /\ \A v \in Worker : v # "sync" => /\ copy'[d][v] = copy[d][v]
                                                                     /\ Unwritten(d, v)' = Unwritten(d, v)
      <4>1. CASE d \in search.indexed
        <5>0. PICK adds \in SUBSET Lesson :
                 adds = IF peer # d /\ row'[d][p.m].status = "active" /\ row'[d][p.m].hot THEN {p.m} ELSE {}
          BY <3>5
        <5>1. PICK new \in SUBSET Lesson : new = copy[d]["sync"] \cup adds
          BY <3>7, <4>1 DEF Opened
        <5>2. Changes(d, "sync", new, adds)
          BY <3>6, <5>0, <5>1 DEF Indexes
        <5> QED BY <1>0, <2>1, <3>7, <4>1, <5>2, Workers, ChangesFrame
      <4>2. CASE d \notin search.indexed
        <5>1. UNCHANGED <<file, copy, due, astray>>
          BY <3>6, <4>2 DEF Indexes, Changes
        <5>2. CopyForms'
          BY <1>0, <5>1 DEF CopyForms, Opened, Unwritten
        <5> QED BY <4>2, <5>1, <5>2
      <4> QED BY <4>1, <4>2
    <3>9. \A x \in Device, l \in Lesson : x # d => row'[x][l] = row[x][l]
      <4>1. PeerUpserted(row[d][p.m], p, peer) \in Row
        <5>1. PICK old \in Row \cup {NoRow} : old = row[d][p.m]
          BY <3>5 DEF Shape
        <5> QED BY <3>5, <5>1, ImportedRows
      <4> QED BY <3>5, <3>6, <4>1, Writes
    <3>10. ASSUME d \in search.indexed PROVE IndexOf(d)'
      <4>1. Held(d)' /\ InHand(d)'
        BY <1>0, <2>1, <3>4, <3>5, <3>6, <3>7, <3>10, Workers, IndexedImport
      <4>2. HasCopies(d)'
        BY <1>0, <1>4, <2>1, <2>2, <3>8, <3>10, Workers DEF HasCopies, Opened
      <4> QED BY <4>1, <4>2 DEF IndexOf
    <3>11. \A x \in Device : x # d =>
             /\ \A l \in Lesson : row'[x][l] = row[x][l]
             /\ task'[x] = task[x] /\ sync'[x] = sync[x] /\ look'[x] = look[x] /\ serve'[x] = serve[x]
             /\ file'[x] = file[x] /\ copy'[x] = copy[x] /\ due'[x] = due[x] /\ astray'[x] = astray[x]
      BY <1>4, <2>1, <3>8, <3>9
    <3> QED BY <1>0, <3>8, <3>10, <3>11, IndexElsewhere
  <2> QED BY <2>3, <2>4
<1>5. ASSUME NEW e \in Device, NEW d \in Device, Takes(e, d), look' = look PROVE Index'
  <2>1. /\ \A x, y \in Device : x # e \/ y # d => serve'[x][y] = serve[x][y]
        /\ serve[e][d] \in Answer /\ UNCHANGED <<task, sync>> /\ Unwritten(e, d) = {}
    BY <1>5, PushedFrame DEF Takes
  <2>2. serve[e][d] # NoServe /\ d # e
    BY <2>1, Blanks DEF Calls, CallsOf
  <2>3. CASE serve[e][d].saw = {}
    <3>1. UNCHANGED index
      BY <1>5, <2>3 DEF Takes
    <3>2. UNCHANGED row
      BY <1>5, <2>3 DEF Takes, ImportPushedPackets
    <3>3. \A x, y \in Device : serve'[x][y] # NoServe => serve[x][y] # NoServe
      BY <2>1, <2>2
    <3> QED BY <1>0, <1>5, <2>1, <3>1, <3>2, <3>3, IndexUntouched
  <2>4. CASE serve[e][d].saw # {}
    <3>1. PICK p \in serve[e][d].saw : Indexes(e, d, p.m, d)
      BY <1>5, <2>4 DEF Takes
    <3>2. PICK q \in serve[e][d].saw : Write(e, q.m, PeerUpserted(row[e][q.m], q, d))
      BY <1>5, <2>4 DEF Takes, ImportPushedPackets
    <3>3. p = q
      BY <2>2 DEF OneByOne, OneSeen
    <3>5. p \in Packet /\ p.m \in Lesson
      BY <2>1 DEF Answer, Packet
    <3>6. Write(e, p.m, PeerUpserted(row[e][p.m], p, d))
      BY <3>2, <3>3
    <3>7. e \in search.indexed => Opened(e, d)
      BY <1>0, <2>2 DEF HasCopies
    <3>w. d \in Worker /\ d # "look" /\ d # "task"
      BY Workers
    <3>8. /\ CopyForms' /\ UNCHANGED <<file, astray>>
          /\ \A x \in Device : x # e => copy'[x] = copy[x] /\ due'[x] = due[x]
          /\ e \in search.indexed => /\ Opened(e, d)'
                                  /\ \A v \in Worker : v # d => /\ copy'[e][v] = copy[e][v]
                                                                /\ Unwritten(e, v)' = Unwritten(e, v)
      <4>1. CASE e \in search.indexed
        <5>0. PICK adds \in SUBSET Lesson :
                 adds = IF d # e /\ row'[e][p.m].status = "active" /\ row'[e][p.m].hot THEN {p.m} ELSE {}
          BY <3>5
        <5>1. PICK new \in SUBSET Lesson : new = copy[e][d] \cup adds
          BY <3>7, <4>1 DEF Opened
        <5>2. Changes(e, d, new, adds)
          BY <3>1, <5>0, <5>1 DEF Indexes
        <5> QED BY <1>0, <2>1, <3>7, <3>w, <4>1, <5>2, ChangesFrame
      <4>2. CASE e \notin search.indexed
        <5>1. UNCHANGED <<file, copy, due, astray>>
          BY <3>1, <4>2 DEF Indexes, Changes
        <5>2. CopyForms'
          BY <1>0, <5>1 DEF CopyForms, Opened, Unwritten
        <5> QED BY <4>2, <5>1, <5>2
      <4> QED BY <4>1, <4>2
    <3>9. \A x \in Device, l \in Lesson : x # e => row'[x][l] = row[x][l]
      <4>1. PeerUpserted(row[e][p.m], p, d) \in Row
        <5>1. PICK old \in Row \cup {NoRow} : old = row[e][p.m]
          BY <3>5 DEF Shape
        <5> QED BY <3>5, <5>1, ImportedRows
      <4> QED BY <3>5, <3>6, <4>1, Writes
    <3>10. ASSUME e \in search.indexed PROVE IndexOf(e)'
      <4>1. Held(e)' /\ InHand(e)'
        BY <1>0, <2>1, <2>2, <3>1, <3>5, <3>6, <3>7, <3>10, <3>w, IndexedImport
      <4>2. \A y \in Device : serve'[e][y] # NoServe => serve[e][y] # NoServe
        BY <2>1, <2>2
      <4>4. HasCopies(e)'
        BY <1>0, <1>5, <2>1, <3>8, <3>10, <3>w, <4>2, Workers DEF HasCopies, Opened
      <4> QED BY <4>1, <4>4 DEF IndexOf
    <3>11. \A x \in Device : x # e =>
             /\ \A l \in Lesson : row'[x][l] = row[x][l]
             /\ task'[x] = task[x] /\ sync'[x] = sync[x] /\ look'[x] = look[x]
             /\ \A y \in Device : serve'[x][y] = serve[x][y]
             /\ file'[x] = file[x] /\ copy'[x] = copy[x] /\ due'[x] = due[x] /\ astray'[x] = astray[x]
      BY <1>5, <2>1, <3>8, <3>9
    <3> QED BY <1>0, <3>8, <3>10, <3>11, IndexElsewhere
  <2> QED BY <2>3, <2>4
<1>6. ASSUME NEW d \in Device, SyncCirclePeers(d), Opens(d, "sync"), look' = look
      PROVE  Index'
  <2>1. Exchange(d, {}, cursor[d], Packets(d, 0))
    BY <1>6 DEF SyncCirclePeers
  <2>2. cursor[d] \in 0..MaxClock /\ Packets(d, 0) \in SUBSET Packet /\ {} \in SUBSET Lesson
    BY Sent DEF Shape
  <2>3. (\A x \in Device : x # d => sync'[x] = sync[x]) /\ UNCHANGED <<stores, task, serve>>
    BY <2>1, <2>2, ExchangeFrame
  <2>4. /\ CopyForms' /\ \A x \in Device : x # d => copy'[x] = copy[x]
        /\ UNCHANGED <<file, due, astray>> /\ Loose(d) \subseteq Loose(d)'
        /\ Unwritten(d, "task")' = Unwritten(d, "task")
        /\ d \in search.indexed => /\ copy'[d]["sync"] = file[d] /\ Opened(d, "sync")'
                                /\ \A v \in Worker : v # "sync" => copy'[d][v] = copy[d][v]
    BY <1>0, <1>6, Workers, OpensFrame
  <2>5. ASSUME d \in search.indexed PROVE IndexOf(d)'
    <3>1. Held(d)'
      BY <1>6, <1>o, <2>3, <2>5, Workers
    <3>2. InHand(d)'
      BY <1>r, <2>3, <2>4, <2>5
    <3>3. HasCopies(d)'
      BY <1>0, <1>6, <2>3, <2>4, <2>5, Workers DEF HasCopies, Opened
    <3> QED BY <3>1, <3>2, <3>3 DEF IndexOf
  <2> QED BY <1>0, <1>6, <2>3, <2>4, <2>5, IndexElsewhere
<1>7. ASSUME NEW d \in Device, UNCHANGED index, \A x \in Device : x # d => look'[x] = look[x],
             look'[d].at \in {"listed", "hits", "missing"} => look[d].at \in {"listed", "hits", "missing"},
             \/ ApplyPeerSyncResult(d)
             \/ Unasked(d) /\ FetchMissingPeerPackets(d)
             \/ RecordShareSyncReport(d)
      PROVE  Index'
  <2>1. (\A x \in Device : x # d => sync'[x] = sync[x]) /\ UNCHANGED <<stores, task, serve>>
    <3>1. CASE ApplyPeerSyncResult(d)
      BY <3>1, ApplyFrame
    <3>2. CASE FetchMissingPeerPackets(d)
      <4>1. PICK ids \in SUBSET Lesson : ids = {m \in node[d] : row[d][m] = NoRow}
        BY DEF Shape
      <4>2. Exchange(d, ids, 0, {}) /\ 0 \in 0..MaxClock /\ {} \in SUBSET Packet
        BY <3>2, <4>1, MemoriesAssumption DEF FetchMissingPeerPackets
      <4> QED BY <4>2, ExchangeFrame
    <3>3. CASE RecordShareSyncReport(d)
      BY <3>3, ReportFrame
    <3> QED BY <1>7, <3>1, <3>2, <3>3
  <2>2. \A x \in Device : sync'[x] # NoSync /\ x \in search.indexed => sync[x] # NoSync
    <3>1. ApplyPeerSyncResult(d) => sync[d] # NoSync
      BY ApplyFrame, Blanks
    <3>2. RecordShareSyncReport(d) => sync[d] # NoSync
      BY ReportFrame, Blanks
    <3> QED BY <1>7, <2>1, <3>1, <3>2 DEF Unasked
  <2> QED BY <1>0, <1>7, <2>1, <2>2, IndexUntouched
<1>8. ASSUME NEW d \in Device, NEW e \in Device, HandleSyncWire(d, e), Opens(e, d), look' = look
      PROVE  Index'
  <2>1. /\ \A x \in Device : x # d => sync'[x] = sync[x]
        /\ sync[d] \in Session /\ sync'[d] \in Session
        /\ \A x, y \in Device : x # e \/ y # d => serve'[x][y] = serve[x][y]
        /\ UNCHANGED <<stores, task>>
    BY <1>8, DialFrame
  <2>2. \A x \in Device : sync'[x] # NoSync => sync[x] # NoSync
    BY <2>1, Blanks
  <2>3. /\ CopyForms' /\ \A x \in Device : x # e => copy'[x] = copy[x]
        /\ UNCHANGED <<file, due, astray>> /\ Loose(e) \subseteq Loose(e)'
        /\ Unwritten(e, "task")' = Unwritten(e, "task")
        /\ e \in search.indexed => /\ copy'[e][d] = file[e] /\ Opened(e, d)'
                                /\ \A v \in Worker : v # d => copy'[e][v] = copy[e][v]
    BY <1>0, <1>8, Workers, OpensFrame
  <2>4. ASSUME e \in search.indexed PROVE IndexOf(e)'
    <3>1. Held(e)'
      BY <1>8, <1>o, <2>1, <2>4, Workers
    <3>2. InHand(e)'
      BY <1>r, <2>1, <2>3, <2>4
    <3>3. HasCopies(e)'
      BY <1>0, <1>8, <2>1, <2>2, <2>3, <2>4, Workers DEF HasCopies, Opened
    <3> QED BY <3>1, <3>2, <3>3 DEF IndexOf
  <2>5. \A x \in Device : x # e => \A y \in Device : serve'[x][y] = serve[x][y]
    BY <2>1
  <2> QED BY <1>0, <1>8, <2>1, <2>2, <2>3, <2>4, <2>5, IndexElsewhere
<1>9. ASSUME NEW e \in Device, NEW d \in Device, BuildSyncResponse(e, d), UNCHANGED index, look' = look
      PROVE  Index'
  <2>1. /\ \A x \in Device : x # d => sync'[x] = sync[x]
        /\ sync' = sync \/ sync[d] \in Session
        /\ \A x, y \in Device : x # e \/ y # d => serve'[x][y] = serve[x][y]
        /\ serve[e][d] \in Answer /\ serve'[e][d] = NoServe
        /\ UNCHANGED <<stores, task>>
    BY <1>9, AnswerFrame
  <2>2. /\ \A x \in Device : sync'[x] # NoSync => sync[x] # NoSync
        /\ \A x, y \in Device : serve'[x][y] # NoServe => serve[x][y] # NoServe
    BY <2>1, Blanks
  <2> QED BY <1>0, <1>9, <2>1, <2>2, IndexUntouched
<1>10. ASSUME NEW d \in Device, NEW e \in Device, Retires(d, e), look' = look PROVE Index'
  <2>1. /\ \A x \in Device, l \in Lesson : x # d \/ l \notin From(d, e) => row'[x][l] = row[x][l]
        /\ \A l \in From(d, e) : /\ row[d][l] \in Row /\ row'[d][l] \in Row /\ row'[d][l].from = e
                                 /\ ~row'[d][l].hot
        /\ UNCHANGED <<task, sync, serve>>
    BY <1>10, MarkFrame DEF Retires
  <2>2. PICK gone \in SUBSET Lesson : gone = From(d, e)
    BY DEF From
  <2>3. /\ Changes(d, "visit", copy[d]["visit"] \ gone, gone) /\ Unwritten(d, "visit") = {}
        /\ d \in search.indexed => copy[d]["visit"] # Shut
    BY <1>10, <2>2 DEF Retires, Removes, Visited
  <2>4. \A l \in gone : row[d][l] # NoRow /\ row[d][l].from = e /\ row'[d][l] # NoRow
    BY <2>1, <2>2, RecallAssumption DEF From
  <2>5. CASE d \in search.indexed
    <3>0. Opened(d, "visit")
      BY <1>0, <2>3, <2>5, Workers DEF CopyForms, Opened
    <3>1. PICK new \in SUBSET Lesson : new = copy[d]["visit"] \ gone
      BY <3>0 DEF Opened
    <3>2. Changes(d, "visit", new, gone)
      BY <2>3, <3>1
    <3>3. /\ CopyForms' /\ UNCHANGED <<file, astray>>
          /\ \A x \in Device : x # d => copy'[x] = copy[x] /\ due'[x] = due[x]
          /\ copy'[d]["visit"] = new
          /\ \A v \in Worker : v # "visit" => copy'[d][v] = copy[d][v] /\ Unwritten(d, v)' = Unwritten(d, v)
          /\ Loose(d) \subseteq Loose(d)'
      BY <1>0, <2>3, <2>5, <3>0, <3>2, Workers, ChangesFrame
    <3>4. \A l \in Hot(d)' : row'[d][l].from # d =>
             \/ l \in Loose(d)'
             \/ row'[d][l] = row[d][l] /\ (l \in copy[d]["visit"] => l \in new)
      BY <2>1, <2>2, <3>1 DEF Hot
    <3>5. Held(d)'
      BY <1>0, <2>5, <3>0, <3>3, <3>4, Workers, HeldWrites
    <3>6. InHand(d)'
      <4>1. \A l \in Lesson : /\ row[d][l] # NoRow => row'[d][l] # NoRow /\ row'[d][l].from = row[d][l].from
                              /\ row[d][l] = NoRow /\ row'[d][l] # NoRow /\ row'[d][l].from # d => l \in Loose(d)'
        BY <2>1, <2>2, <2>4
      <4> QED BY <1>0, <1>t, <2>1, <2>5, <3>3, <4>1, InHandKept
    <3>7. HasCopies(d)'
      BY <1>0, <1>10, <2>1, <2>5, <3>3, Workers DEF HasCopies, Opened
    <3>8. IndexOf(d)'
      BY <3>5, <3>6, <3>7 DEF IndexOf
    <3> QED BY <1>0, <1>10, <2>1, <3>3, <3>8, IndexElsewhere
  <2>6. CASE d \notin search.indexed
    <3>1. UNCHANGED <<file, copy, due, astray>>
      BY <2>3, <2>6 DEF Changes
    <3>2. CopyForms'
      BY <1>0, <3>1 DEF CopyForms, Opened, Unwritten
    <3> QED BY <1>0, <1>10, <2>1, <2>6, <3>1, <3>2, IndexElsewhere
  <2> QED BY <2>5, <2>6
<1>11. ASSUME NEW d \in Device, NEW m \in Lesson, ConsolidateSession(d, m), UNCHANGED index, look' = look
       PROVE  Index'
  <2>1. /\ row[d][m] # NoRow /\ row[d][m].from = d
        /\ \A x \in Device, l \in Lesson : x # d \/ l # m => row'[x][l] = row[x][l]
        /\ row'[d][m] \in Row /\ ~row'[d][m].hot /\ row'[d][m].from = d
        /\ UNCHANGED <<task, sync, serve>>
    BY <1>11, ConsolidateFrame
  <2>2. \A x \in Device, l \in Lesson : \/ row'[x][l] = row[x][l]
                                        \/ /\ row[x][l] # NoRow /\ row'[x][l] # NoRow
                                           /\ row'[x][l].from = row[x][l].from /\ ~row'[x][l].hot
    BY <2>1, RecallAssumption
  <2> QED BY <1>0, <1>11, <2>1, <2>2, IndexUntouched
<1>12. ASSUME NEW d \in Device, NEW e \in Device, UNCHANGED index, look' = look,
              PeerTimeout(d, e) \/ ImportPeerCatalogs(d, e) \/ RevokeMember(d, e) \/ LearnRemoval(d, e)
       PROVE  Index'
  <2>1. CASE PeerTimeout(d, e)
    <3>1. /\ \A x \in Device : x # d => sync'[x] = sync[x]
          /\ sync[d] \in Session
          /\ \A x, y \in Device : x # e \/ y # d => serve'[x][y] = serve[x][y]
          /\ serve' = serve \/ serve[e][d] \in Answer
          /\ UNCHANGED <<stores, task>>
      BY <2>1, TimeoutFrame
    <3>2. /\ \A x \in Device : sync'[x] # NoSync => sync[x] # NoSync
          /\ \A x, y \in Device : serve'[x][y] # NoServe => serve[x][y] # NoServe
      BY <3>1, Blanks
    <3> QED BY <1>0, <1>12, <3>1, <3>2, IndexUntouched
  <2>2. CASE ImportPeerCatalogs(d, e) \/ RevokeMember(d, e) \/ LearnRemoval(d, e)
    <3>1. UNCHANGED <<row, task, sync, serve>>
      BY <2>2 DEF ImportPeerCatalogs, RevokeMember, LearnRemoval
    <3> QED BY <1>0, <1>12, <3>1, IndexUntouched
  <2> QED BY <1>12, <2>1, <2>2
<1>13. ASSUME Tick, UNCHANGED index, look' = look PROVE Index'
  <2>1. UNCHANGED <<row, task, sync, serve>>
    BY <1>13 DEF Tick
  <2> QED BY <1>0, <1>13, <2>1, IndexUntouched
<1>14. ASSUME MemoriesMove PROVE Index'
  <2>1. ASSUME NEW d \in Device,
               \/ RecordShareSyncReport(d) /\ UNCHANGED index
               \/ ApplyPeerSyncResult(d) /\ UNCHANGED index
               \/ Unasked(d) /\ FetchMissingPeerPackets(d) /\ UNCHANGED index
        PROVE  Index'
    BY <1>7, <1>14, <1>m, <2>1
  <2> QED BY <1>1, <1>2, <1>3, <1>4, <1>5, <1>6, <1>8, <1>9, <1>10, <1>11, <1>12, <1>13, <1>14, <1>m, <2>1
          DEF MemoriesMove
<1>15. ASSUME NEW d \in Device, ListActiveMemories(d) PROVE Index'
  <2>1. /\ \A x \in Device : x # d => look'[x] = look[x]
        /\ Opens(d, "look") /\ UNCHANGED <<stores, task, sync, serve>>
    BY <1>15 DEF ListActiveMemories, vars, Looks
  <2>2. /\ CopyForms' /\ \A x \in Device : x # d => copy'[x] = copy[x]
        /\ UNCHANGED <<file, due, astray>> /\ Loose(d) \subseteq Loose(d)'
        /\ Unwritten(d, "task")' = Unwritten(d, "task")
        /\ d \in search.indexed => /\ copy'[d]["look"] = file[d] /\ Opened(d, "look")'
                                /\ \A v \in Worker : v # "look" => copy'[d][v] = copy[d][v]
    BY <1>0, <2>1, Workers, OpensFrame
  <2>3. ASSUME d \in search.indexed PROVE IndexOf(d)'
    <3>1. Held(d)'
      BY <1>o, <2>1, <2>3, Workers
    <3>2. InHand(d)'
      BY <1>r, <2>1, <2>2, <2>3
    <3>3. HasCopies(d)'
      BY <1>0, <2>1, <2>2, <2>3, Workers DEF HasCopies, Opened
    <3> QED BY <3>1, <3>2, <3>3 DEF IndexOf
  <2> QED BY <1>0, <2>1, <2>2, <2>3, IndexElsewhere
<1>16. ASSUME NEW d \in Device, BuildRecallResults(d) \/ ExpandGraph(d) PROVE Index'
  <2>1. /\ look[d].at \in {"listed", "hits"} /\ \A x \in Device : x # d => look'[x] = look[x]
        /\ UNCHANGED index /\ UNCHANGED vars
    BY <1>16 DEF BuildRecallResults, ExpandGraph, Looks
  <2> QED BY <1>q, <2>1
<1>17. ASSUME NEW d \in Device, Visit(d) PROVE Index'
  <2>1. Opens(d, "visit") /\ look' = look /\ UNCHANGED <<stores, task, sync, serve>>
    BY <1>17 DEF Visit, vars, lookup
  <2>2. /\ CopyForms' /\ \A x \in Device : x # d => copy'[x] = copy[x]
        /\ UNCHANGED <<file, due, astray>> /\ Loose(d) \subseteq Loose(d)'
        /\ Unwritten(d, "task")' = Unwritten(d, "task")
        /\ d \in search.indexed => \A v \in Worker : v # "visit" => copy'[d][v] = copy[d][v]
    BY <1>0, <2>1, Workers, OpensFrame
  <2>3. ASSUME d \in search.indexed PROVE IndexOf(d)'
    <3>1. Held(d)'
      BY <1>o, <2>1, <2>3, Workers
    <3>2. InHand(d)'
      BY <1>r, <2>1, <2>2, <2>3
    <3>3. HasCopies(d)'
      BY <1>0, <2>1, <2>2, <2>3, Workers DEF HasCopies, Opened
    <3> QED BY <3>1, <3>2, <3>3 DEF IndexOf
  <2> QED BY <1>0, <2>1, <2>2, <2>3, IndexElsewhere
<1>18. ASSUME NEW d \in Device, FetchMissing(d) PROVE Index'
  <2>1. /\ look[d].at = "missing" /\ Exchange(d, look[d].missing, 0, {}) /\ copy[d]["sync"] = Shut
        /\ copy' = [copy EXCEPT ![d] = [copy[d] EXCEPT !["sync"] = copy[d]["look"], !["look"] = Shut]]
        /\ UNCHANGED <<file, due, astray>>
    BY <1>18 DEF FetchMissing
  <2>2. look[d] \in Finding
    BY <2>1, Noticing
  <2>3. look'[d].at = "fetching" /\ \A x \in Device : x # d => look'[x] = look[x]
    BY <1>18, <2>2 DEF FetchMissing, Looks, Finding
  <2>4. look[d].missing \in SUBSET Lesson /\ 0 \in 0..MaxClock /\ {} \in SUBSET Packet
    BY <2>2, MemoriesAssumption DEF Finding
  <2>5. (\A x \in Device : x # d => sync'[x] = sync[x]) /\ UNCHANGED <<stores, task, serve>>
    BY <2>1, <2>4, ExchangeFrame
  <2>6. PICK c \in (SUBSET Lesson) \cup {Shut} : c = copy[d]["look"]
    BY <1>0, Workers DEF CopyForms
  <2>7. /\ copy' \in [Device -> [Worker -> (SUBSET Lesson) \cup {Shut}]]
        /\ copy'[d]["sync"] = c /\ copy'[d]["look"] = Shut
        /\ \A v \in Worker : v # "sync" /\ v # "look" => copy'[d][v] = copy[d][v]
        /\ \A x \in Device : x # d => copy'[x] = copy[x]
    BY <1>0, <2>1, <2>6, Workers DEF CopyForms
  <2>8. \A x, v : Unwritten(x, v)' = Unwritten(x, v)
    BY <2>1 DEF Unwritten
  <2>9. Unwritten(d, "sync") = {} /\ Unwritten(d, "look") = {}
    BY <1>0, <2>1, Workers DEF CopyForms, Opened
  <2>10. CopyForms'
    <3>1. \A x \in Device : Unwritten(x, "look")' = {}
      BY <1>0, <2>8 DEF CopyForms
    <3>2. \A x \in Device, v \in Worker : Unwritten(x, v)' # {} => Opened(x, v)'
      <4>1. \A x \in Device, v \in Worker : Unwritten(x, v)' # {} =>
               Opened(x, v) /\ (x # d \/ (v # "sync" /\ v # "look"))
        BY <1>0, <2>8, <2>9 DEF CopyForms
      <4> QED BY <2>7, <4>1 DEF Opened
    <3> QED BY <1>0, <2>1, <2>7, <3>1, <3>2 DEF CopyForms
  <2>11. Loose(d) \subseteq Loose(d)'
    <3>1. \A v \in Worker : Fresh(d, v) \subseteq Fresh(d, v)'
      BY <2>7, <2>8, <2>9 DEF Fresh
    <3> QED BY <2>1, <3>1 DEF Loose
  <2>12. ASSUME d \in search.indexed PROVE IndexOf(d)'
    <3>1. c \in SUBSET Lesson /\ c # Shut
      BY <1>0, <2>1, <2>6, <2>12 DEF HasCopies, Opened
    <3>2. Held(d)'
      <4>1. \A v \in Worker : \/ copy'[d][v] = Shut \/ copy'[d][v] = file[d]
                              \/ \E u \in Worker : copy[d][u] # Shut /\ copy'[d][v] = copy[d][u]
        BY <2>6, <2>7, <3>1, Workers
      <4> QED BY <1>0, <2>1, <2>5, <2>11, <2>12, <4>1, HeldMoves
    <3>3. InHand(d)'
      BY <1>r, <2>5, <2>11, <2>12
    <3>4. HasCopies(d)'
      BY <1>0, <2>3, <2>5, <2>7, <2>8, <2>12, <3>1, Workers DEF HasCopies, Opened
    <3> QED BY <3>2, <3>3, <3>4 DEF IndexOf
  <2> QED BY <1>0, <2>1, <2>3, <2>5, <2>7, <2>10, <2>12, IndexElsewhere
<1>19. ASSUME NEW d \in Device, RecallEnds(d) PROVE Index'
  <2>1. RecordShareSyncReport(d) /\ UNCHANGED index /\ look[d].at = "fetching"
    BY <1>19 DEF RecallEnds
  <2>2. look'[d].at = "answered" /\ \A x \in Device : x # d => look'[x] = look[x]
    <3>1. look[d] \in Finding
      BY <2>1, Noticing
    <3>2. look' = [look EXCEPT ![d] = [look[d] EXCEPT !.at = "answered",
                     !.shown = look[d].shown \cup LoadGraphNeighborMemories(d, look[d].missing)]]
      BY <1>19 DEF RecallEnds
    <3> QED BY <3>1, <3>2 DEF Looks, Finding
  <2> QED BY <1>7, <2>1, <2>2
<1>20. ASSUME AgentWrites \/ \E p \in Starter : StatTranscript(p) \/ ReadTail(p) \/ InsertSpan(p) \/ ScanFails(p)
                                               \/ SetWatermark(p)
       PROVE  Index'
  <2>1. UNCHANGED vars /\ UNCHANGED index /\ look' = look
    BY <1>20 DEF AgentWrites, StatTranscript, ReadTail, InsertSpan, ScanFails, SetWatermark, lookup
  <2> QED BY <1>q, <2>1
<1>21. ASSUME NEW d \in Device, NEW w \in Worker, SyncIndex(d, w) PROVE Index'
  <2>1. UNCHANGED <<stores, task, sync, serve>> /\ look' = look
    BY <1>21 DEF SyncIndex, vars, lookup
  <2>2. /\ CopyForms' /\ Opened(d, w) /\ copy' = copy /\ file'[d] = copy[d][w]
        /\ \A x \in Device : x # d => file'[x] = file[x] /\ due'[x] = due[x] /\ astray'[x] = astray[x]
        /\ \A v : Unwritten(d, v) = {} => Unwritten(d, v)' = {}
        /\ Open(d) # {w} => Loose(d) \subseteq Loose(d)'
        /\ \A m \in Loose(d) \ Loose(d)' : m \in copy[d][w]
        /\ Unwritten(d, w) # {}
    BY <1>0, <1>21, SyncsFrame
  <2>3. ASSUME d \in search.indexed PROVE IndexOf(d)'
    <3>1. Held(d)'
      <4>1. CASE Open(d) # {w}
        <5>1. \A v \in Worker : copy'[d][v] = Shut \/ \E u \in Worker : copy[d][u] # Shut /\ copy'[d][v] = copy[d][u]
          BY <2>2
        <5> QED BY <1>0, <2>1, <2>2, <2>3, <4>1, <5>1, HeldMoves DEF Opened
      <4>2. CASE Open(d) = {w}
        <5> SUFFICES ASSUME NEW l \in Hot(d)', l \notin Loose(d)', row'[d][l].from # d
                     PROVE  l \in file'[d] /\ \A v \in Worker : copy'[d][v] # Shut => l \in copy'[d][v]
          BY DEF Held
        <5>1. l \in Hot(d) /\ row[d][l].from # d
          BY <2>1 DEF Hot
        <5>2. l \in copy[d][w]
          BY <1>0, <2>2, <2>3, <5>1 DEF Held, Opened
        <5>3. \A v \in Worker : copy[d][v] # Shut => v = w
          BY <4>2 DEF Open
        <5> QED BY <2>2, <5>2, <5>3
      <4> QED BY <4>1, <4>2
    <3>2. InHand(d)'
      <4>1. CASE task[d] = NoTask
        BY <2>1, <4>1 DEF InHand
      <4>2. CASE task[d] # NoTask
        <5>1. Opened(d, "task") /\ "task" # w
          BY <1>0, <2>2, <2>3, <4>2 DEF HasCopies
        <5>2. Open(d) # {w}
          BY <5>1, Workers DEF Open, Opened
        <5> QED BY <1>r, <2>1, <2>2, <2>3, <5>2
      <4> QED BY <4>1, <4>2
    <3>3. HasCopies(d)'
      BY <1>0, <2>1, <2>2, <2>3 DEF HasCopies, Opened
    <3> QED BY <3>1, <3>2, <3>3 DEF IndexOf
  <2> QED BY <1>0, <2>1, <2>2, <2>3, IndexElsewhere
<1>22. ASSUME NEW d \in Device, NEW w \in Worker, Close(d, w) PROVE Index'
  <2>1. UNCHANGED <<stores, task, sync, serve>> /\ look' = look
    BY <1>22 DEF Close, vars, lookup
  <2>2. /\ CopyForms' /\ Opened(d, w) /\ UNCHANGED <<due, astray>>
        /\ \A x \in Device : x # d => copy'[x] = copy[x] /\ file'[x] = file[x]
        /\ copy'[d][w] = Shut /\ file'[d] = copy[d][w]
        /\ \A v \in Worker : v # w => copy'[d][v] = copy[d][v]
        /\ \A v : Unwritten(d, v)' = Unwritten(d, v)
        /\ Loose(d) \subseteq Loose(d)'
    BY <1>0, <1>22, ClosesFrame
  <2>3. /\ w = "task" => task[d] = NoTask
        /\ w = "sync" => sync[d] = NoSync
        /\ w = "look" => look[d].at \notin {"listed", "hits", "missing"}
        /\ w \in Device => serve[d][w] = NoServe
    BY <1>22, Workers DEF Close, Busy
  <2>4. ASSUME d \in search.indexed PROVE IndexOf(d)'
    <3>1. Held(d)'
      <4>1. \A v \in Worker : copy'[d][v] = Shut \/ \E u \in Worker : copy[d][u] # Shut /\ copy'[d][v] = copy[d][u]
        BY <2>2
      <4> QED BY <1>0, <2>1, <2>2, <2>4, <4>1, HeldMoves DEF Opened
    <3>2. InHand(d)'
      BY <1>r, <2>1, <2>2, <2>4
    <3>3. HasCopies(d)'
      BY <1>0, <2>1, <2>2, <2>3, <2>4, Workers DEF HasCopies, Opened
    <3> QED BY <3>1, <3>2, <3>3 DEF IndexOf
  <2> QED BY <1>0, <2>1, <2>2, <2>4, IndexElsewhere
<1>23. ASSUME NEW d \in Device, NEW w \in Worker, StopsUnwritten(d, w) PROVE Index'
  <2>1. /\ CopyForms' /\ file' = file /\ copy'[d][w] = Shut
        /\ \A v \in Worker : v # w => copy'[d][v] = copy[d][v]
        /\ \A x \in Device : x # d => copy'[x] = copy[x] /\ due'[x] = due[x] /\ astray'[x] = astray[x]
        /\ \A v : Unwritten(d, v) = {} => Unwritten(d, v)' = {}
        /\ Loose(d) \subseteq Loose(d)' /\ Unwritten(d, w) # {}
    BY <1>0, <1>23, StopsFrame
  <2>2. look' = look
    BY <1>23 DEF StopsUnwritten, lookup
  <2>3. /\ UNCHANGED <<row, task>>
        /\ \A x \in Device : sync'[x] # NoSync => sync[x] # NoSync
        /\ \A x, y \in Device : serve'[x][y] # NoServe => serve[x][y] # NoServe
        /\ w = "sync" => sync'[d] = NoSync
        /\ w \in Device => serve'[d][w] = NoServe
    <3>1. CASE w \in {"task", "visit"} /\ UNCHANGED vars
      BY <3>1, Workers DEF vars
    <3>2. CASE w = "sync" /\ ExchangeStops(d)
      BY <3>2, ReportFrame, Workers
    <3>3. CASE w \in Device /\ ListenerStops(d, w)
      <4>1. PICK e \in Device : e = w
        BY <3>3
      <4>2. /\ \A x \in Device : x # e => sync'[x] = sync[x]
            /\ \A x, y \in Device : x # d \/ y # e => serve'[x][y] = serve[x][y]
            /\ serve[d][e] \in Answer /\ serve'[d][e] = NoServe
            /\ sync' = sync \/ sync[e] \in Session
            /\ UNCHANGED <<row, task>>
        BY <3>3, <4>1, BreakFrame
      <4> QED BY <3>3, <4>1, <4>2, Blanks, Workers
    <3> QED BY <1>23, <3>1, <3>2, <3>3 DEF StopsUnwritten
  <2>4. ASSUME d \in search.indexed PROVE IndexOf(d)'
    <3>1. Held(d)'
      <4>1. \A v \in Worker : copy'[d][v] = Shut \/ \E u \in Worker : copy[d][u] # Shut /\ copy'[d][v] = copy[d][u]
        BY <2>1
      <4> QED BY <1>0, <2>1, <2>3, <2>4, <4>1, HeldMoves
    <3>2. InHand(d)'
      BY <1>r, <2>1, <2>3, <2>4
    <3>3. HasCopies(d)'
      <4>1. w # "look" /\ (task[d] # NoTask => w # "task")
        BY <1>0, <2>1, <2>4 DEF CopyForms, HasCopies
      <4> QED BY <1>0, <2>1, <2>2, <2>3, <2>4, <4>1, Workers DEF HasCopies, Opened
    <3> QED BY <3>1, <3>2, <3>3 DEF IndexOf
  <2> QED BY <1>0, <2>1, <2>2, <2>3, <2>4, IndexElsewhere
<1> QED BY <1>14, <1>15, <1>16, <1>17, <1>18, <1>19, <1>20, <1>21, <1>22, <1>23 DEF RecallNext

-----------------------------------------------------------------------------
(* Transcripts *)

LEMMA Halves ==
    ASSUME NEW k \in Nat, k >= 1
    PROVE  LineOf(2 * k) = k /\ LineOf(2 * k - 1) = k /\ LineOf(2 * k + 1) = k + 1 /\ LineOf(2 * k - 2) = k - 1
BY DEF LineOf

LEMMA Lines == \A k \in DOMAIN Line : k \in Nat /\ k >= 1
BY RecallAssumption

LEMMA Scans ==
    ASSUME Transcript, NEW p \in Starter
    PROVE  /\ scan[p].at = "idle" <=> scan[p] = NoScan
           /\ scan[p].at = "sized" <=> scan[p] \in Sized
           /\ scan[p].at = "read" <=> scan[p] \in Reading
<1>1. NoScan.at = "idle"
  BY DEF NoScan
<1>2. (\A s \in Sized : s.at = "sized") /\ (\A s \in Reading : s.at = "read")
  BY DEF Sized, Reading
<1>3. scan[p] \in {NoScan} \cup Sized \cup Reading
  BY DEF Transcript
<1> QED BY <1>1, <1>2, <1>3

\* What has been told stays told.
LEMMA ToldStays ==
    ASSUME NEW sp \in SUBSET (Nat \X Nat), NEW sp2, NEW u, log \in Nat, log' \in Nat, log <= log',
           sp \subseteq sp2, cut \subseteq cut', Told(sp, u)
    PROVE  Told(sp2, u)'
<1>1. \A from, to : Cut(sp, from, to) => Cut(sp2, from, to)'
  <2> SUFFICES ASSUME NEW from, NEW to, Cut(sp, from, to) PROVE Cut(sp2, from, to)'
    OBVIOUS
  <2>1. PICK s \in sp : SpanBoundsOK(s) /\ s[1] <= from /\ to <= s[2]
    BY DEF Cut
  <2>2. s \in sp2 /\ s[1] \in Nat /\ s[2] \in Nat
    OBVIOUS
  <2>3. SpanBoundsOK(s)'
    BY <2>1, <2>2 DEF SpanBoundsOK
  <2> QED BY <2>1, <2>2, <2>3 DEF Cut
<1> QED BY <1>1 DEF Told

\* The tail tells what is between the watermark and its end, but for a line it begins in the midst of.
LEMMA TailTells ==
    ASSUME NEW sp \in SUBSET (Nat \X Nat), NEW old \in Nat, NEW size \in Nat, log \in Nat, size <= log,
           Told(sp, old), log' = log, cut \subseteq cut', old % 2 = 1 => LineOf(old) \in cut'
    PROVE  Told(sp \cup SpansFromTail(old, size), size)'
<1> DEFINE tail == SpansFromTail(old, size)
<1>1. PICK all2 : all2 = sp \cup tail
  OBVIOUS
<1>2. Told(all2, old)'
  BY <1>1, ToldStays
<1>3. ASSUME NEW k \in DOMAIN Line, NEW t \in Nat, old < 2 * k - 1, 2 * k - 1 <= t, t <= 2 * k, t <= size,
             t = size \/ t = 2 * k, DecisionShaped(k, 2 * k - 1, t)
      PROVE  Cut(all2, 2 * k - 1, t)'
  <2>1. k \in Nat /\ k >= 1
    BY Lines
  <2>2. LineOf(2 * k - 1) = k /\ LineOf(t) = k
    <3>1. t = 2 * k - 1 \/ t = 2 * k
      BY <1>3, <2>1
    <3> QED BY <2>1, <3>1, Halves
  <2>3. LineOf((2 * k - 1) - 1) # k /\ (t = size \/ LineOf(t + 1) # k)
    BY <1>3, <2>1, Halves
  <2>4. 2 * k - 1 \in old + 1 .. size /\ t \in old + 1 .. size
    BY <1>3, <2>1
  <2>5. <<2 * k - 1, t>> \in tail
    BY <1>3, <2>2, <2>3, <2>4 DEF SpansFromTail
  <2>6. SpanBoundsOK(<<2 * k - 1, t>>)'
    BY <1>3, <2>1 DEF SpanBoundsOK
  <2> QED BY <1>1, <1>3, <2>1, <2>5, <2>6 DEF Cut
<1>4. ASSUME NEW k \in DOMAIN Line, Line[k] = "early", 2 * k - 1 <= size
      PROVE  Cut(all2, 2 * k - 1, 2 * k - 1)'
  <2>1. k \in Nat /\ k >= 1
    BY Lines
  <2>2. CASE 2 * k - 1 <= old
    BY <1>2, <1>4, <2>2 DEF Told
  <2>3. CASE old < 2 * k - 1
    <3>1. PICK t \in Nat : t = IF size = 2 * k - 1 THEN size ELSE 2 * k
      BY <2>1
    <3>2. 2 * k - 1 <= t /\ t <= 2 * k /\ t <= size /\ (t = size \/ t = 2 * k)
      BY <1>4, <2>1, <3>1
    <3>3. DecisionShaped(k, 2 * k - 1, t)
      BY <1>4, <2>1, <3>2 DEF DecisionShaped
    <3>4. Cut(all2, 2 * k - 1, t)'
      BY <1>3, <2>3, <3>2, <3>3
    <3>5. PICK s \in all2 : SpanBoundsOK(s)' /\ s[1] <= 2 * k - 1 /\ t <= s[2]
      BY <3>4 DEF Cut
    <3>6. s[2] \in Nat
      BY <1>1 DEF SpansFromTail
    <3> QED BY <2>1, <3>2, <3>5, <3>6 DEF Cut
  <2> QED BY <2>1, <2>2, <2>3
<1>5. ASSUME NEW k \in DOMAIN Line, Line[k] = "across", 2 * k <= size
      PROVE  Cut(all2, 2 * k - 1, 2 * k)' \/ k \in cut'
  <2>1. k \in Nat /\ k >= 1
    BY Lines
  <2>2. CASE 2 * k <= old
    BY <1>2, <1>5, <2>2 DEF Told
  <2>3. CASE old = 2 * k - 1
    <3>1. old % 2 = 1 /\ LineOf(old) = k
      BY <2>1, <2>3, Halves
    <3> QED BY <3>1
  <2>4. CASE old < 2 * k - 1
    <3>1. DecisionShaped(k, 2 * k - 1, 2 * k)
      BY <1>5, <2>1 DEF DecisionShaped
    <3>2. 2 * k \in Nat /\ 2 * k - 1 <= 2 * k /\ 2 * k <= 2 * k
      BY <2>1
    <3> QED BY <1>3, <1>5, <2>4, <3>1, <3>2
  <2> QED BY <2>1, <2>2, <2>3, <2>4
<1>6. Told(all2, size)'
  BY <1>4, <1>5 DEF Told
<1> QED BY <1>1, <1>6 DEF Told

LEMMA InitTranscript == RecallInit => Transcript
<1> SUFFICES ASSUME RecallInit PROVE Transcript
  OBVIOUS
<1>1. log = 0 /\ mark = 0 /\ spans = {} /\ cut = {} /\ scan = [p \in Starter |-> NoScan]
  BY DEF RecallInit
<1>2. Marked
  BY <1>1, Lines DEF Marked, Told
<1> QED BY <1>1, <1>2 DEF Transcript, ScanOK

LEMMA NextTranscript ==
    ASSUME Transcript, RecallNext
    PROVE  Transcript'
<1>1. /\ log \in Nat /\ mark \in Nat /\ mark <= log
      /\ spans \subseteq (1..log) \X (1..log) /\ spans \in SUBSET (Nat \X Nat)
      /\ Told(spans, mark)
  <2>1. log \in Nat /\ mark \in 0..log /\ spans \subseteq (1..log) \X (1..log) /\ Told(spans, mark)
    BY DEF Transcript, Marked, Marked
  <2> QED BY <2>1
<1>2. \A p \in Starter : scan[p] \in {NoScan} \cup Sized \cup Reading
  BY DEF Transcript
<1>u. UNCHANGED transcript => Transcript'
  BY DEF transcript, Transcript, Marked, ScanOK, Told, Cut, SpanBoundsOK
<1>s. ASSUME NEW s, s \in {NoScan} \cup Sized \cup Reading, ScanOK(s),
             log' = log, spans \subseteq spans', cut \subseteq cut'
      PROVE  ScanOK(s)'
  <2> SUFFICES ASSUME s # NoScan, s.at = "read"
               PROVE  Told(spans \cup s.todo, s.size)'
    BY <1>s DEF ScanOK
  <2>1. s.todo \subseteq (1..log) \X (1..log) /\ Told(spans \cup s.todo, s.size)
    BY <1>s DEF ScanOK
  <2>2. PICK sp, sp2, u : /\ sp \in SUBSET (Nat \X Nat) /\ sp = spans \cup s.todo
                          /\ sp2 = spans' \cup s.todo /\ u = s.size
    <3>1. spans \cup s.todo \in SUBSET (Nat \X Nat)
      BY <1>1, <2>1
    <3> QED BY <3>1
  <2>3. Told(sp2, u)'
    BY <1>1, <1>s, <2>1, <2>2, ToldStays
  <2> QED BY <2>2, <2>3
<1>a. ASSUME NEW p \in Starter, NEW s, s \in {NoScan} \cup Sized \cup Reading, scan' = [scan EXCEPT ![p] = s],
             log' = log, mark' \in 0..log, Marked', cut \subseteq cut',
             spans \subseteq spans', spans' \subseteq (1..log) \X (1..log), ScanOK(s)'
      PROVE  Transcript'
  <2>1. /\ scan' \in [Starter -> {NoScan} \cup Sized \cup Reading]
        /\ scan'[p] = s /\ \A q \in Starter : q # p => scan'[q] = scan[q]
    BY <1>a DEF Transcript
  <2>2. ASSUME NEW q \in Starter PROVE ScanOK(scan[q])'
    <3>1. CASE q = p
      BY <1>a, <2>1, <3>1 DEF ScanOK
    <3>2. CASE q # p
      <4>1. PICK r : r = scan[q]
        OBVIOUS
      <4>2. ScanOK(r)'
        BY <1>2, <1>a, <1>s, <4>1 DEF Transcript
      <4> QED BY <2>1, <3>2, <4>1, <4>2 DEF ScanOK
    <3> QED BY <3>1, <3>2
  <2>3. log' \in Nat /\ mark' \in 0..log' /\ spans' \subseteq (1..log') \X (1..log')
    BY <1>1, <1>a
  <2> QED BY <1>a, <2>1, <2>2, <2>3 DEF Transcript
<1>b. ASSUME NEW sp2, sp2 = spans', NEW u, Told(spans, u), log' = log, spans \subseteq spans', cut \subseteq cut'
      PROVE  Told(sp2, u)'
  <2>1. PICK sp \in SUBSET (Nat \X Nat) : sp = spans
    BY <1>1
  <2> QED BY <1>1, <1>b, <2>1, ToldStays
<1>c. ASSUME log' = log, UNCHANGED <<spans, mark>>, cut \subseteq cut' PROVE Marked'
  <2>1. PICK sp2, u : sp2 = spans' /\ u = mark
    OBVIOUS
  <2>2. Told(sp2, u)'
    BY <1>1, <1>b, <1>c, <2>1
  <2> QED BY <1>c, <2>1, <2>2 DEF Marked
<1>3. ASSUME AgentWrites PROVE Transcript'
  <2>1. log' = log + 1 /\ UNCHANGED <<spans, mark, scan, cut>>
    BY <1>3 DEF AgentWrites
  <2>2. ASSUME NEW sp \in SUBSET (Nat \X Nat), NEW u, Told(sp, u) PROVE Told(sp, u)'
    BY <1>1, <2>1, <2>2, ToldStays
  <2>3. Marked'
    <3>1. PICK sp, u : sp \in SUBSET (Nat \X Nat) /\ sp = spans /\ u = mark
      BY <1>1
    <3>2. Told(sp, u)'
      BY <1>1, <2>2, <3>1
    <3> QED BY <2>1, <3>1, <3>2 DEF Marked
  <2>4. ASSUME NEW p \in Starter PROVE ScanOK(scan[p])'
    <3>1. PICK s : s = scan[p] /\ s \in {NoScan} \cup Sized \cup Reading /\ ScanOK(s)
      BY <1>2 DEF Transcript
    <3>2. ASSUME s # NoScan PROVE s.size <= log'
      BY <1>1, <2>1, <3>1, <3>2 DEF ScanOK, Sized, Reading
    <3>3. ASSUME s # NoScan, s.at = "read"
          PROVE  s.todo \subseteq (1..log') \X (1..log') /\ Told(spans \cup s.todo, s.size)'
      <4>1. s.todo \subseteq (1..log) \X (1..log) /\ Told(spans \cup s.todo, s.size)
        BY <3>1, <3>3 DEF ScanOK
      <4>2. PICK sp, u : sp \in SUBSET (Nat \X Nat) /\ sp = spans \cup s.todo /\ u = s.size
        <5>1. spans \cup s.todo \in SUBSET (Nat \X Nat)
          BY <1>1, <4>1
        <5> QED BY <5>1
      <4>3. Told(sp, u)'
        BY <2>2, <4>1, <4>2
      <4> QED BY <1>1, <2>1, <4>1, <4>2, <4>3
    <3>4. ScanOK(s)'
      BY <3>2, <3>3 DEF ScanOK
    <3> QED BY <2>1, <3>1, <3>4 DEF ScanOK
  <2>5. log' \in Nat /\ mark' \in 0..log' /\ spans' \subseteq (1..log') \X (1..log')
    BY <1>1, <2>1
  <2>6. scan' \in [Starter -> {NoScan} \cup Sized \cup Reading]
    BY <2>1 DEF Transcript
  <2> QED BY <2>3, <2>4, <2>5, <2>6 DEF Transcript
<1>4. ASSUME NEW p \in Starter, StatTranscript(p) PROVE Transcript'
  <2>0. PICK s : s = [at |-> "sized", size |-> log]
    OBVIOUS
  <2>1. scan' = [scan EXCEPT ![p] = s] /\ UNCHANGED <<log, spans, mark, cut>>
    BY <1>4, <2>0 DEF StatTranscript
  <2>2. s \in Sized /\ s.size = log /\ s.at # "read"
    BY <1>1, <2>0 DEF Sized
  <2>3. Marked'
    BY <1>c, <2>1
  <2>4. ScanOK(s)'
    BY <1>1, <2>1, <2>2 DEF ScanOK
  <2>5. /\ s \in {NoScan} \cup Sized \cup Reading /\ log' = log /\ mark' \in 0..log
        /\ spans \subseteq spans' /\ spans' \subseteq (1..log) \X (1..log) /\ cut \subseteq cut'
    BY <1>1, <2>1, <2>2
  <2> QED BY <1>a, <2>1, <2>3, <2>4, <2>5
<1>5. ASSUME NEW p \in Starter, ReadTail(p) PROVE Transcript'
  <2>1. scan[p].at = "sized" /\ UNCHANGED <<log, spans, mark>>
    BY <1>5 DEF ReadTail
  <2>2. scan[p] \in Sized /\ scan[p] # NoScan
    BY <2>1, Scans DEF NoScan
  <2>3. PICK size \in Nat : size = scan[p].size
    BY <2>2 DEF Sized
  <2>4. size <= log
    BY <2>2, <2>3 DEF Transcript, ScanOK
  <2>5. CASE size <= mark
    <3>1. scan' = [scan EXCEPT ![p] = NoScan] /\ cut' = cut
      BY <1>5, <2>3, <2>5 DEF ReadTail
    <3>2. Marked'
      BY <1>c, <2>1, <3>1
    <3>3. PICK s : s = NoScan
      OBVIOUS
    <3>4. ScanOK(s)'
      BY <3>3 DEF ScanOK
    <3>5. /\ s \in {NoScan} \cup Sized \cup Reading /\ log' = log /\ mark' \in 0..log
          /\ spans \subseteq spans' /\ spans' \subseteq (1..log) \X (1..log) /\ cut \subseteq cut'
      BY <1>1, <2>1, <3>1, <3>3
    <3> QED BY <1>a, <3>1, <3>2, <3>3, <3>4, <3>5
  <2>6. CASE mark < size
    <3>1. PICK todo : todo = SpansFromTail(mark, size)
      OBVIOUS
    <3>0. PICK s : s = [at |-> "read", size |-> size, todo |-> todo]
      OBVIOUS
    <3>2. /\ scan' = [scan EXCEPT ![p] = s]
          /\ cut' = cut \cup {LineOf(h) : h \in {k \in {mark, size} : k % 2 = 1}}
      BY <1>1, <1>5, <2>3, <2>6, <3>0, <3>1 DEF ReadTail
    <3>3. todo \subseteq (1..log) \X (1..log)
      BY <1>1, <2>4, <3>1 DEF SpansFromTail
    <3>4. s \in Reading /\ s.size = size /\ s.todo = todo
      BY <1>1, <3>0, <3>3 DEF Reading
    <3>5. mark % 2 = 1 => LineOf(mark) \in cut'
      BY <3>2
    <3>6. PICK sp, old : sp \in SUBSET (Nat \X Nat) /\ old \in Nat /\ sp = spans /\ old = mark
      BY <1>1
    <3>7. Told(sp \cup SpansFromTail(old, size), size)'
      <4>1. Told(sp, old) /\ (old % 2 = 1 => LineOf(old) \in cut')
        BY <1>1, <3>5, <3>6
      <4> QED BY <1>1, <2>1, <2>4, <3>2, <3>6, <4>1, TailTells
    <3>8. PICK both : both = sp \cup todo
      OBVIOUS
    <3>9. Told(both, size)'
      BY <3>1, <3>6, <3>7, <3>8
    <3>10. Told(spans \cup todo, size)'
      BY <2>1, <3>6, <3>8, <3>9
    <3>11. Marked'
      BY <1>c, <2>1, <3>2
    <3>12. ScanOK(s)'
      BY <2>1, <2>4, <3>3, <3>4, <3>10 DEF ScanOK
    <3>13. /\ s \in {NoScan} \cup Sized \cup Reading /\ log' = log /\ mark' \in 0..log
           /\ spans \subseteq spans' /\ spans' \subseteq (1..log) \X (1..log) /\ cut \subseteq cut'
      BY <1>1, <2>1, <3>2, <3>4
    <3> QED BY <1>a, <3>2, <3>11, <3>12, <3>13
  <2> QED BY <1>1, <2>3, <2>5, <2>6
<1>6. ASSUME NEW p \in Starter, InsertSpan(p) PROVE Transcript'
  <2>1. scan[p].at = "read" /\ UNCHANGED <<log, mark, cut>>
    BY <1>6 DEF InsertSpan
  <2>2. scan[p] \in Reading /\ scan[p] # NoScan
    BY <2>1, Scans DEF NoScan
  <2>3. PICK h \in scan[p].todo : /\ spans' = spans \cup {h}
                                 /\ scan' = [scan EXCEPT ![p] = [scan[p] EXCEPT !.todo = scan[p].todo \ {h}]]
    BY <1>6 DEF InsertSpan
  <2>4. /\ scan[p].size <= log /\ scan[p].todo \subseteq (1..log) \X (1..log)
        /\ Told(spans \cup scan[p].todo, scan[p].size)
    BY <2>1, <2>2 DEF Transcript, ScanOK
  <2>5. PICK todo, size : todo \in SUBSET (Nat \X Nat) /\ todo = scan[p].todo \ {h} /\ size = scan[p].size
    <3>1. scan[p].todo \ {h} \in SUBSET (Nat \X Nat)
      BY <1>1, <2>4
    <3> QED BY <3>1
  <2>a. PICK s : s = [scan[p] EXCEPT !.todo = todo]
    OBVIOUS
  <2>6. scan' = [scan EXCEPT ![p] = s]
    BY <2>3, <2>5, <2>a
  <2>7. s \in Reading /\ s.size = size /\ s.todo = todo
    BY <2>2, <2>5, <2>a DEF Reading
  <2>8. Told(spans \cup todo, size)'
    <3>0. spans \cup scan[p].todo \in SUBSET (Nat \X Nat)
      BY <1>1, <2>4
    <3>1. PICK sp, sp2 : sp \in SUBSET (Nat \X Nat) /\ sp = spans \cup scan[p].todo /\ sp2 = spans' \cup todo
      BY <3>0
    <3>2. sp \subseteq sp2
      BY <2>3, <2>5, <3>1
    <3>3. Told(sp2, size)'
      BY <1>1, <2>1, <2>4, <2>5, <3>1, <3>2, ToldStays
    <3> QED BY <3>1, <3>3
  <2>9. Marked'
    <3>1. PICK sp2, u : sp2 = spans' /\ u = mark
      OBVIOUS
    <3>2. Told(sp2, u)'
      BY <1>1, <1>b, <2>1, <2>3, <3>1
    <3> QED BY <2>1, <3>1, <3>2 DEF Marked
  <2>10. spans' \subseteq (1..log) \X (1..log) /\ todo \subseteq (1..log) \X (1..log)
    BY <1>1, <2>3, <2>4, <2>5
  <2>11. ScanOK(s)'
    BY <2>1, <2>4, <2>5, <2>7, <2>8, <2>10 DEF ScanOK
  <2>12. /\ s \in {NoScan} \cup Sized \cup Reading /\ log' = log /\ mark' \in 0..log
         /\ spans \subseteq spans' /\ spans' \subseteq (1..log) \X (1..log) /\ cut \subseteq cut'
    BY <1>1, <2>1, <2>3, <2>7, <2>10
  <2> QED BY <1>a, <2>6, <2>9, <2>11, <2>12
<1>7. ASSUME NEW p \in Starter, ScanFails(p) PROVE Transcript'
  <2>1. scan' = [scan EXCEPT ![p] = NoScan] /\ UNCHANGED <<log, spans, mark, cut>>
    BY <1>7 DEF ScanFails
  <2>2. Marked'
    BY <1>c, <2>1
  <2>3. PICK s : s = NoScan
    OBVIOUS
  <2>4. ScanOK(s)'
    BY <2>3 DEF ScanOK
  <2>5. /\ s \in {NoScan} \cup Sized \cup Reading /\ log' = log /\ mark' \in 0..log
        /\ spans \subseteq spans' /\ spans' \subseteq (1..log) \X (1..log) /\ cut \subseteq cut'
    BY <1>1, <2>1, <2>3
  <2> QED BY <1>a, <2>1, <2>2, <2>3, <2>4, <2>5
<1>8. ASSUME NEW p \in Starter, SetWatermark(p) PROVE Transcript'
  <2>1. /\ scan[p].at = "read" /\ scan[p].todo = {} /\ mark' = scan[p].size
        /\ scan' = [scan EXCEPT ![p] = NoScan] /\ UNCHANGED <<log, spans, cut>>
    BY <1>8 DEF SetWatermark
  <2>2. scan[p] \in Reading /\ scan[p] # NoScan
    BY <2>1, Scans DEF NoScan
  <2>3. scan[p].size <= log /\ Told(spans \cup scan[p].todo, scan[p].size) /\ scan[p].size \in Nat
    BY <2>1, <2>2 DEF Transcript, ScanOK, Reading
  <2>4. PICK u : u = scan[p].size
    OBVIOUS
  <2>5. Told(spans, u)
    <3>1. spans \cup scan[p].todo = spans
      BY <2>1
    <3> QED BY <2>3, <2>4, <3>1
  <2>6. Marked'
    <3>1. PICK sp2 : sp2 = spans'
      OBVIOUS
    <3>2. Told(sp2, u)'
      BY <1>1, <1>b, <2>1, <2>5, <3>1
    <3> QED BY <2>1, <2>4, <3>1, <3>2 DEF Marked
  <2>7. PICK s : s = NoScan
    OBVIOUS
  <2>8. ScanOK(s)'
    BY <2>7 DEF ScanOK
  <2>9. /\ s \in {NoScan} \cup Sized \cup Reading /\ log' = log /\ mark' \in 0..log
        /\ spans \subseteq spans' /\ spans' \subseteq (1..log) \X (1..log) /\ cut \subseteq cut'
    BY <1>1, <2>1, <2>3, <2>7
  <2> QED BY <1>a, <2>1, <2>6, <2>7, <2>8, <2>9
<1>9. MemoriesMove => UNCHANGED transcript
  BY DEF MemoriesMove
<1>10. ASSUME NEW d \in Device,
              \/ ListActiveMemories(d) \/ BuildRecallResults(d) \/ ExpandGraph(d) \/ FetchMissing(d)
              \/ RecallEnds(d) \/ Visit(d)
       PROVE  UNCHANGED transcript
  BY <1>10 DEF ListActiveMemories, BuildRecallResults, ExpandGraph, FetchMissing, RecallEnds, Visit
<1>11. ASSUME NEW d \in Device, NEW w \in Worker, SyncIndex(d, w) \/ StopsUnwritten(d, w) \/ Close(d, w)
       PROVE  UNCHANGED transcript
  BY <1>11 DEF SyncIndex, StopsUnwritten, Close
<1> QED BY <1>u, <1>3, <1>4, <1>5, <1>6, <1>7, <1>8, <1>9, <1>10, <1>11 DEF RecallNext

-----------------------------------------------------------------------------
(* The invariant of the specification, and what it shows *)

LEMMA InitEverything == RecallInit => Everything
<1>1. RecallInit => RemovedNotRecalled /\ Looks
  <2> SUFFICES ASSUME RecallInit PROVE RemovedNotRecalled /\ Looks
    OBVIOUS
  <2>1. look = [d \in Device |-> NoLook]
    BY DEF RecallInit
  <2>2. RemovedNotRecalled
    BY <2>1, Blanks DEF RemovedNotRecalled
  <2> QED BY <2>1, <2>2 DEF Looks
<1> QED BY <1>1, InitMemory, InitIndex, InitTranscript DEF Everything

LEMMA NextEverything == Everything /\ [RecallNext]_all => Everything'
<1>1. ASSUME Everything, RecallNext PROVE Everything'
  <2>1. Memory /\ IsSearch(search) /\ scene = search.scene /\ Looks /\ Index /\ Transcript
    BY <1>1 DEF Everything
  <2>2. search' = search
    BY <1>1 DEF RecallNext, MemoriesMove, ListActiveMemories, BuildRecallResults, ExpandGraph, FetchMissing, RecallEnds,
           SyncIndex, StopsUnwritten, Close, Visit,
           AgentWrites, StatTranscript, ReadTail, InsertSpan, ScanFails, SetWatermark
  <2>3. MemoryStep \/ UNCHANGED vars
    BY <1>1, <2>1, RecallIsMemoryStep
  <2>4. scene' = scene
    <3>1. MemoryStep => scene' = scene
      BY <2>1, Ratchets DEF Memory
    <3> QED BY <2>3, <3>1 DEF vars
  <2>5. IsSearch(search)'
    BY <2>1, <2>2 DEF IsSearch
  <2>6. Memory'
    BY <2>1, <2>3, NextMemory
  <2>7. Looks'
    BY <1>1, <2>1, NextLooks
  <2>8. Index'
    BY <1>1, <2>1, NextIndex
  <2>9. Transcript'
    BY <1>1, <2>1, NextTranscript
  <2> QED BY <2>1, <2>2, <2>4, <2>5, <2>6, <2>7, <2>8, <2>9 DEF Everything
<1>2. ASSUME Everything, UNCHANGED all PROVE Everything'
  <2>1. /\ UNCHANGED vars /\ UNCHANGED <<search, file, copy, due, astray, look>> /\ UNCHANGED transcript
    BY <1>2 DEF all, index, lookup
  <2>2. Memory'
    BY <1>2, <2>1, NextMemory DEF Everything
  <2>3. IsSearch(search)' /\ scene' = search'.scene
    BY <1>2, <2>1 DEF Everything, IsSearch, vars
  <2>4. Looks'
    <3>1. active' = active
      BY <2>1 DEF vars
    <3> QED BY <1>2, <2>1, <3>1 DEF Everything, Looks, RemovedNotRecalled, Listing
  <2>5. Index'
    <3>1. UNCHANGED <<row, task, sync, serve>> /\ UNCHANGED index
      BY <2>1 DEF vars, index
    <3> QED BY <1>2, <2>1, <3>1, IndexUntouched DEF Everything, Memory
  <2>6. Transcript'
    BY <1>2, <2>1 DEF Everything, transcript, Transcript, Marked, ScanOK, Told, Cut, SpanBoundsOK
  <2> QED BY <2>2, <2>3, <2>4, <2>5, <2>6 DEF Everything
<1> QED BY <1>1, <1>2

LEMMA Invariant == RecallSpec => []Everything
BY InitEverything, NextEverything, PTL DEF RecallSpec

\* Every variable keeps its type, and each graph follows its table: an active lesson has its node, and
\* a node without an active lesson came with a catalog (db.go, graph.go, turbovec.go, span_index.go).
THEOREM RecallTypeCorrect == RecallSpec => []RecallTypeOK
<1>1. Everything => RecallTypeOK
  <2> SUFFICES ASSUME Everything PROVE RecallTypeOK
    OBVIOUS
  <2>1. TypeOK /\ IsSearch(search)
    BY DEF Everything, Memory, TypeOK, Follow
  <2>2. CopyForms
    BY DEF Everything, Index
  <2>3. mark \in 0..log /\ spans \subseteq (1..log) \X (1..log)
    BY DEF Everything, Transcript
  <2> QED BY <2>1, <2>2, <2>3 DEF RecallTypeOK, CopyForms
<1> QED BY <1>1, Invariant, PTL

\* A device passes on only what its own user has recorded: for any circle, any number of devices and
\* lessons, and whatever exchanges, commands and removals overlap (share_sync.go, sync_logic.go).
THEOREM NothingSecondHand == RecallSpec => []NoSecondHand
<1>1. Everything => NoSecondHand
  BY DEF Everything, Memory, Origins, NoSecondHand
<1> QED BY <1>1, Invariant, PTL

\* A device that was removed falls silent: what it shared stays retired where it was retired, and no
\* lookup begun once it is out shows it (circle_manage.go, db.go, recall_logic.go).
THEOREM RemovedStaySilent == RecallSpec => []RemovedFallSilent
<1>1. Everything => RemovedFallSilent
  BY DEF Everything, Memory, Looks, RemovedFallSilent
<1> QED BY <1>1, Invariant, PTL

\* What is there can be found: every peer's lesson a device may show is in its index of peers' vectors,
\* unless who committed it is about to write it, stopped before it had, or wrote it beside another open
\* copy; and every decision up to the watermark has its span (turbovec.go, db.go, span_index.go).
THEOREM AllCanBeFound == RecallSpec => []CanBeFound
<1>1. Everything => PeersCanBeFound
  <2> SUFFICES ASSUME Everything, NEW d \in search.indexed, NEW m \in Hot(d), row[d][m].from # d
               PROVE  m \in file[d] \cup astray[d] \/ \E w \in Worker : m \in Fresh(d, w)
    BY DEF PeersCanBeFound
  <2>1. Held(d)
    BY DEF Everything, Index, IndexOf
  <2> QED BY <2>1 DEF Held, Loose
<1>2. Everything => NothingOverlooked
  <2> SUFFICES ASSUME Everything, NEW k \in DOMAIN Line, 2 * k <= mark, Line[k] # "nowhere"
               PROVE  \/ \E s \in MatchingSpanHints : DecisionShaped(k, s[1], s[2])
                      \/ Line[k] = "across" /\ k \in cut
    BY DEF NothingOverlooked
  <2>1. /\ Told(spans, mark) /\ mark \in Nat /\ k \in Nat
        /\ \A s \in spans : s[1] \in Nat /\ s[2] \in Nat
    BY Lines DEF Everything, Transcript, Marked
  <2>2. Line[k] \in {"early", "across"}
    BY RecallAssumption
  <2>3. CASE Line[k] = "early"
    <3>1. Cut(spans, 2 * k - 1, 2 * k - 1)
      BY <2>1, <2>3 DEF Told
    <3>2. PICK s \in spans : SpanBoundsOK(s) /\ s[1] <= 2 * k - 1 /\ 2 * k - 1 <= s[2]
      BY <3>1 DEF Cut
    <3>3. s \in MatchingSpanHints
      BY <3>2 DEF MatchingSpanHints
    <3>4. DecisionShaped(k, s[1], s[2])
      BY <2>1, <2>3, <3>2 DEF DecisionShaped
    <3> QED BY <3>3, <3>4
  <2>4. CASE Line[k] = "across" /\ k \notin cut
    <3>1. Cut(spans, 2 * k - 1, 2 * k)
      BY <2>1, <2>4 DEF Told
    <3>2. PICK s \in spans : SpanBoundsOK(s) /\ s[1] <= 2 * k - 1 /\ 2 * k <= s[2]
      BY <3>1 DEF Cut
    <3>3. s \in MatchingSpanHints
      BY <3>2 DEF MatchingSpanHints
    <3>4. DecisionShaped(k, s[1], s[2])
      BY <2>1, <2>4, <3>2 DEF DecisionShaped
    <3> QED BY <3>3, <3>4
  <2> QED BY <2>2, <2>3, <2>4
<1> QED BY <1>1, <1>2, Invariant, PTL DEF CanBeFound
=============================================================================
