----------------------------- MODULE MCInvites -----------------------------
(* Instances of Invites for TLC. *)
EXTENDS Invites, TLC
CONSTANTS first, next, k1, r1, r2, r3, j1, d1, d2, x

\* A later Core gets the second device's request, or the first device's again.
Homes == [t \in {k1, r1, r2, j1} |-> first] @@ r3 :> next
OneCode == [t \in {r1, r2, r3} |-> x]
Asking == r1 :> d1 @@ r2 :> d2 @@ r3 :> d1
=============================================================================
