------------------------------ MODULE MCRecall ------------------------------
(* Instances of Recall, and with it of Memories, for TLC. *)
EXTENDS Recall, TLC
CONSTANTS a, b, m, n, first, second

Acts(what) == [what : what, m : {m}]

Plainly == {[words |-> FALSE, positive |-> TRUE]}

Idle == [acts |-> [d \in Device |-> {}], many |-> [d \in Device |-> 0], says |-> Plainly,
         members |-> {a, b}, seconds |-> 1, syncs |-> {}, dials |-> {<<a, b>>, <<b, a>>}, removes |-> {}, recalls |-> {}]

\* a records and checks a lesson, with evidence or not, and pushes it; b checks it as well.
Pushing == [Idle EXCEPT !.acts[a] = Acts({"record", "validate"}), !.many[a] = 2, !.says = [words : BOOLEAN, positive : {TRUE}],
                        !.acts[b] = Acts({"validate"}), !.many[b] = 1, !.syncs = {a}]
\* Both record the same lesson and exchange it.
Crossing == [Idle EXCEPT !.acts[a] = Acts({"record"}), !.many[a] = 1,
                         !.acts[b] = Acts({"record"}), !.many[b] = 1, !.syncs = {a, b}]
\* b only asks: it syncs, takes a's catalog and fetches what its graph names.
Pulling == [Idle EXCEPT !.acts[a] = Acts({"record"}), !.many[a] = 2, !.syncs = {b}, !.recalls = {b}, !.seconds = 2, !.dials = {<<b, a>>}]
\* a removes b while they exchange, and may write the lesson itself.
Removing == [Idle EXCEPT !.acts[b] = Acts({"record"}), !.many[b] = 1, !.acts[a] = Acts({"validate"}), !.many[a] = 1,
                         !.syncs = {a, b}, !.removes = {<<a, b>>}]
\* What was contradicted is collected, or recorded again, while it is sent.
Collecting == [Idle EXCEPT !.acts[a] = Acts({"record", "validate", "collect"}), !.many[a] = 3, !.syncs = {a}, !.seconds = 2]

\* a looks up what it and b have recorded: it takes b's catalog and asks for what that names, or b is removed.
Asking == [Idle EXCEPT !.acts[a] = [what : {"record"}, m : {n}], !.many[a] = 1, !.acts[b] = Acts({"record"}), !.many[b] = 1,
                       !.syncs = {b}, !.recalls = {a}]
Leaving == [Asking EXCEPT !.recalls = {}, !.removes = {<<a, b>>}]
\* What b has shared with a is checked, retired, collected and sent again.
Checking == [Idle EXCEPT !.acts[b] = Acts({"record"}), !.many[b] = 1, !.acts[a] = Acts({"validate", "collect"}), !.many[a] = 2,
                         !.syncs = {b}, !.seconds = 2]
\* b shares, and a removes it.
Parting == [Leaving EXCEPT !.acts[a] = {}, !.many[a] = 0]

Scenes == {Pushing, Crossing, Pulling, Removing, Collecting, Asking, Leaving, Checking, Parting, Idle}

Traits == m :> [words |-> FALSE, near |-> TRUE, titled |-> TRUE, critical |-> FALSE]
          @@ n :> [words |-> TRUE, near |-> FALSE, titled |-> TRUE, critical |-> FALSE]

Quiet(s)  == [asks |-> {}, many |-> 0, indexed |-> {}, visits |-> {}, scans |-> {}, scene |-> s]
Asked     == [Quiet(Asking) EXCEPT !.asks = {a}, !.many = 1, !.indexed = {a}]
Left      == [Quiet(Leaving) EXCEPT !.asks = {a}, !.many = 1]
Indexed   == [Quiet(Checking) EXCEPT !.indexed = {a}]
Visiting  == [Quiet(Parting) EXCEPT !.indexed = {a}, !.visits = {a}]
Scans     == [Quiet(Idle) EXCEPT !.scans = Starter]
Searches  == {Quiet(s) : s \in {Pushing, Crossing, Pulling, Removing, Collecting}}
             \cup {Asked, Left, Indexed, Visiting, Scans}

AlikeDef   == {<<n, m>>}
Folders    == m :> "backend" @@ n :> "backend"
Transcript == <<"across", "early">>
=============================================================================
