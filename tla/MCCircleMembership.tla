------------------------ MODULE MCCircleMembership ------------------------
(* Instances of CircleMembership for TLC: a creator c and members a, b, j. *)
EXTENDS CircleMembership
CONSTANTS c, a, b, j

Circle(founder, vouched, unheard, joiner, removable, link, epochs, inFlight) ==
    [founder |-> founder, vouched |-> vouched, unheard |-> unheard, joiner |-> joiner,
     removable |-> removable, link |-> link, epochs |-> epochs,
     inFlight |-> inFlight]

\* Who can dial whom: everyone; everyone the creator; b and its creator.
Mesh    == Device \X Device
Star    == Device \X {c}
Pair    == {<<b, c>>, <<c, b>>}

\* The creator starts alone: two devices join, through anyone; one of them may be removed.
Created == Circle({c}, TRUE, {}, {a, b}, {a}, Mesh, 0, 1)
\* A device joins, is removed and the key rotated twice, with late answers and welcomes.
Late    == Circle({c}, TRUE, {}, {a}, {a}, Mesh, 2, 2)
\* A settled circle of three: a removal and a rotation, with late answers.
Settled == Circle({c, a, b}, TRUE, {}, {}, {a}, Mesh, 1, 2)
\* From before signed admissions, with a device only the creator has heard of: the creator may
\* remove it before anyone vouches for it, and another member let it in again.
Legacy  == Circle({c, a, b}, FALSE, {b}, {b}, {b}, Star, 0, 1)

\* Liveness: a removal and a rotation in a settled circle; two rotations while the creator has not
\* seen the member's key-agreement key.
Removing  == Circle({c, a, b}, TRUE, {}, {}, {a}, Pair, 1, 1)
Upgrading == Circle({c, b}, FALSE, {}, {}, {}, Pair, 2, 1)

SafetyScenarios  == {Created, Late, Settled, Legacy}
LiveScenarios    == {Removing, Upgrading}
=============================================================================
