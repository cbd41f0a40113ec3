------------------------------- MODULE MCChat -------------------------------
(* Instances of Chat for TLC: a hosts the broker and rotates the key. *)
EXTENDS Chat, TLC
CONSTANTS a, b, c, trio, pair, all

\* 1 by a to all; 2 by b and 3 by a in a group; 4 by a to b alone.
MCSender  == <<a, b, a, a>>
MCConv    == <<all, trio, trio, pair>>
\* The first of them alone.
FirstSender == <<a>>
FirstConv   == <<all>>

MCParties == [x \in {pair} |-> {a, b}]
MCChosen  == [g \in {trio} |-> {a, b}]
MCFounder == [g \in {trio} |-> b]

Quiet == [d \in Device |-> 0]
Calm  == [present |-> {a, b}, shaky |-> {b}, posts |-> {1}, active |-> [d \in Device |-> Device], unheard |-> {},
          rotations |-> Quiet, stops |-> Quiet, readers |-> {}]

\* A group of a and b in a circle with c; a learns late that b is in the circle.
Grouping == [Calm EXCEPT !.present = Device, !.shaky = {c}, !.posts = {2, 3}, !.active[a] = {a, c}, !.unheard = {<<a, b>>}]
\* The creator posts while it rotates the key twice; a member while it adopts a key.
Rotating == [Calm EXCEPT !.rotations[a] = 2]
Adopting == [Calm EXCEPT !.posts = {2}, !.rotations = (a :> 1 @@ b :> 1 @@ c :> 0)]
\* The Core stops once beside a rotation.
Stopping == [Calm EXCEPT !.rotations[a] = 1, !.stops[a] = 1, !.shaky = {a, b}]
\* Two messages in one outbox; a conversation is read while its message arrives.
Reading  == [Calm EXCEPT !.posts = {1, 4}, !.readers = {b}]

Scenes     == {Grouping, Rotating, Adopting, Stopping, Reading}
LiveScenes == {Stopping}
=============================================================================
