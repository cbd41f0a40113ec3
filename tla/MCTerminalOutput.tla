-------------------------- MODULE MCTerminalOutput --------------------------
(* Instances of TerminalOutput. *)
EXTENDS TerminalOutput, TLC

CONSTANTS o, v, w, t1, t2, win

\* The requests of one Core; everything.
Leases(ops, n) == [ops |-> ops, rows |-> n, chunks |-> 0, inputs |-> 0, pauses |-> 0, windows |-> {}]

\* Typing while control and private mode change.
Typing == [ops |-> {"grant", "private"}, rows |-> 3, chunks |-> 0, inputs |-> 1, pauses |-> 0,
           windows |-> {}]

\* Recording while the event of a lease, or of private mode, takes a number.
Numbering == [ops |-> {"grant", "private"}, rows |-> 2, chunks |-> 1, inputs |-> 0, pauses |-> 0,
              windows |-> {}]

\* A window that watches.
Watching == [ops |-> {}, rows |-> 1, chunks |-> 4, inputs |-> 0, pauses |-> 1, windows |-> {win}]

Scenes == {Leases(ManagerOps, 4), Leases(Operation, 3), Typing, Numbering, Watching}

BothSettings == {s.ops : s \in Scenes}

Alike == Permutations({t1, t2}) \cup Permutations({v, w})
=============================================================================
