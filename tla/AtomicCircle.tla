--------------------------- MODULE AtomicCircle ---------------------------
(***************************************************************************)
(* What the callers of updateCircle rely on: a circle file is a growing    *)
(* record of changes, each made in one step to the latest copy.            *)
(***************************************************************************)
CONSTANT Change

VARIABLES exists, file

Init == exists \in BOOLEAN /\ file = {}

\* A change to a circle this device belongs to.
Record(c) == exists /\ file' = file \cup {c} /\ UNCHANGED exists

\* The copy a device receives when it joins.
Receive(c) == ~exists /\ exists' = TRUE /\ file' = {c}

Next == \E c \in Change : Record(c) \/ Receive(c)

Spec == Init /\ [][Next]_<<exists, file>>
=============================================================================
