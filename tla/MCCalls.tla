------------------------------ MODULE MCCalls ------------------------------
(* Three devices: one can leave a call and two still have to agree.
   Who starts matters only by the order of the two it invites.              *)
EXTENDS Calls
Devices == 1..3
Callers == {3}
=============================================================================
