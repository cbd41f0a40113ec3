--------------------------- MODULE MCReachability ---------------------------
(* Instances of Reachability: c created the circle. *)
EXTENDS Reachability, TLC

CONSTANTS a, b, c, home, cafe, i1, i2, i3

Three == <<a, b, c>>
All   == {{d, e} : d, e \in Device}
Base  == [up |-> Device, reach |-> All, restless |-> {}, frail |-> {}, watchers |-> {}, events |-> 2]

\* The creator stops and starts, or pauses; so does the next in the order; the network between two devices
\* fails and comes back; a device sees who announces a chat.
Restarts == [Base EXCEPT !.restless = {c}]
Leaves   == [Base EXCEPT !.restless = {a}, !.up = {a, b}]
Cuts     == [Base EXCEPT !.frail = {{b, c}, {a, b}}]
Watches  == [Base EXCEPT !.watchers = {b}, !.frail = {{b, c}}]
Still(s) == [Base EXCEPT !.up = s, !.events = 0]
Scenes   == {Restarts, Leaves, Cuts, Watches, Still({a, c}), Still({a, b, c})}

\* b and c are on one computer.
Computers == a :> home @@ b :> cafe @@ c :> cafe
Ports     == a :> 1 @@ b :> 2 @@ c :> 1

Mesh  == [members |-> Device, shared |-> TRUE, lan |-> Device, restless |-> {}, moves |-> 0, nearby |-> {},
          dashboards |-> {}, mesh |-> TRUE]
Quiet == [Mesh EXCEPT !.dashboards = {c}, !.mesh = FALSE]

\* Two devices whose addresses change; one that allows the network late; a neighbour that is dismissed;
\* three devices, two of them on one computer.
Moving   == [Quiet EXCEPT !.members = {a, c}, !.lan = {a, c}, !.moves = 2]
Opening  == [Quiet EXCEPT !.members = {a, c}, !.lan = {a}, !.restless = {c}, !.moves = 2]
Browsing == [Quiet EXCEPT !.members = {a, c}, !.lan = {a, c}, !.nearby = {a}, !.dashboards = {}, !.moves = 1]
Sharing  == [Quiet EXCEPT !.lan = {a, c}, !.moves = 0]
Nets     == {Mesh, Moving, Opening, Browsing, Sharing}
=============================================================================
