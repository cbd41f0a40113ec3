------------------------ MODULE TerminalOutputProofs ------------------------
(***************************************************************************)
(* Control leases, alone and in a session.  For any number of devices,     *)
(* requests and lease rows: at most one viewer controls a session,         *)
(* whichever stores the requests use; and through one store, one lease is  *)
(* in force, epochs rise, and a removal takes the removed device's lease.  *)
(* A session does with its lease what TerminalLease allows, so this holds  *)
(* beside output, windows and input; no input under a lease that was       *)
(* revoked before it was sent is typed; and a window, however slow its     *)
(* queue, can tell that it missed output.                                  *)
(***************************************************************************)
EXTENDS TerminalOutput, FiniteSetTheorems, SequenceTheorems, WellFoundedInduction, TLAPS

-----------------------------------------------------------------------------
(* Leases: one viewer at a time.                                            *)

InCAS(t) == op[t].at \in {"agreed", "cleared"}

\* What a request carries goes with its kind.
RequestsGood == \A t \in Thread :
    /\ op[t].at # "idle" => op[t].kind \in enabled
    /\ op[t].at \in {"ready", "agreed", "cleared"} => op[t].kind \notin {"private", "stop"}
    /\ op[t].at = "entering" => op[t].kind = "private"
    /\ op[t].to # Owner => op[t].kind = "grant"
    /\ op[t].at = "asked" /\ op[t].kind = "release" => op[t].seen # 0

\* The manager's mutex admits one request.
OneInManager == \A t, u \in Thread :
    InCAS(t) /\ InCAS(u) /\ op[t].kind \in ManagerOps /\ op[u].kind \in ManagerOps => t = u

\* About to give control to a viewer, no viewer has any.
ViewersCleared == \A t \in Thread :
    op[t].at = "cleared" /\ op[t].to # Owner => \A i \in Active : lease[i].holder = Owner

IInv == TypeOK /\ RequestsGood /\ OneInManager /\ ViewersCleared /\ OneViewerControls

-----------------------------------------------------------------------------
(* Helpers.                                                                 *)

LEMMA IdleIsRequest == Idle \in Request
BY OwnerAssumption DEF Idle, Request, Operation, ManagerOps

LEMMA CurrentRows ==
    ASSUME lease \in Seq(Row), NEW i \in Current
    PROVE  /\ i \in Nat /\ EpochOf(i) \in Nat
           /\ i = 0 => Active = {}
           /\ i # 0 => i \in Active /\ lease[i] \in Row
<1>1. \A k \in Active : k \in Nat \ {0} /\ lease[k] \in Row
    BY DEF Active
<1>2. CASE Active = {}
    BY <1>2 DEF Current, EpochOf
<1>3. CASE Active # {}
    <2>1. i \in Active
        BY <1>3 DEF Current
    <2> QED
        BY <1>1, <2>1 DEF EpochOf, Row
<1> QED
    BY <1>2, <1>3

LEMMA RevokedRows ==
    ASSUME lease \in Seq(Row)
    PROVE  /\ AllRevoked \in Seq(Row) /\ Len(AllRevoked) = Len(lease)
           /\ DOMAIN AllRevoked = DOMAIN lease
           /\ \A i \in DOMAIN lease : /\ AllRevoked[i].revoked
                                      /\ AllRevoked[i].holder = lease[i].holder
                                      /\ AllRevoked[i].epoch = lease[i].epoch
<1>1. \A i \in 1..Len(lease) : lease[i] \in Row
    OBVIOUS
<1>2. \A i \in 1..Len(lease) : [lease[i] EXCEPT !.revoked = TRUE] \in Row
    BY <1>1 DEF Row
<1>3. AllRevoked = [i \in 1..Len(lease) |-> [lease[i] EXCEPT !.revoked = TRUE]]
    BY DEF AllRevoked
<1>4. AllRevoked \in [1..Len(lease) -> Row] /\ Len(lease) \in Nat
    BY <1>2, <1>3
<1>5. AllRevoked \in Seq(Row) /\ Len(AllRevoked) = Len(lease)
    BY <1>4
<1> QED
    BY <1>1, <1>3, <1>5 DEF Row

LEMMA InsertedRows ==
    ASSUME lease \in Seq(Row), NEW t \in Thread, op[t] \in Request, InsertRow(t)
    PROVE  /\ lease' \in Seq(Row) /\ Len(lease') = Len(lease) + 1
           /\ DOMAIN lease' = 1..Len(lease) + 1
           /\ \A i \in 1..Len(lease) : lease'[i] = lease[i]
           /\ lease'[Len(lease) + 1].holder = op[t].to
           /\ lease'[Len(lease) + 1].epoch = op[t].epoch + 1
           /\ ~lease'[Len(lease) + 1].revoked
<1> DEFINE row == [holder |-> op[t].to, epoch |-> op[t].epoch + 1, revoked |-> FALSE]
<1>1. row \in Row
    BY DEF Request, Row
<1>2. lease' = Append(lease, row)
    BY DEF InsertRow
<1> QED
    BY <1>1, <1>2 DEF Row

-----------------------------------------------------------------------------
LEMMA InitInvariant == Init => IInv
<1> SUFFICES ASSUME Init PROVE IInv
    OBVIOUS
<1>1. lease \in Seq(Row) /\ DOMAIN lease = {1} /\ lease[1].holder = Owner
    BY OwnerAssumption DEF Init, Row
<1>2. TypeOK
    BY <1>1, IdleIsRequest DEF Init, TypeOK
<1> QED
    BY <1>1, <1>2 DEF Init, IInv, RequestsGood, OneInManager, ViewersCleared,
                      OneViewerControls, InCAS, Idle, Active

\* A step that leaves the rows alone and changes one request, or none.
Quiet(t) == /\ UNCHANGED <<enabled, lease>>
            /\ privateMode' \in BOOLEAN
            /\ op' \in [Thread -> Request]
            /\ gone' \in [Device -> Nat]
            /\ \A u \in Thread \ {t} : op'[u] = op[u]

LEMMA QuietKeepsInvariant ==
    ASSUME IInv, NEW t \in Thread, Quiet(t),
           ~InCAS(t)',
           /\ op'[t].at # "idle" => op'[t].kind \in enabled
           /\ op'[t].at \in {"ready", "agreed", "cleared"} => op'[t].kind \notin {"private", "stop"}
           /\ op'[t].at = "entering" => op'[t].kind = "private"
           /\ op'[t].to # Owner => op'[t].kind = "grant"
           /\ op'[t].at = "asked" /\ op'[t].kind = "release" => op'[t].seen # 0
    PROVE  IInv'
<1>1. TypeOK'
    BY DEF IInv, TypeOK, Quiet
<1>2. RequestsGood'
    BY DEF IInv, RequestsGood, Quiet
<1>3. OneInManager'
    BY DEF IInv, OneInManager, Quiet, InCAS
<1>4. ViewersCleared' /\ OneViewerControls'
    BY DEF IInv, ViewersCleared, OneViewerControls, Quiet, InCAS, Active
<1> QED
    BY <1>1, <1>2, <1>3, <1>4 DEF IInv

LEMMA NextInvariant == IInv /\ [Next]_vars => IInv'
<1> SUFFICES ASSUME IInv, [Next]_vars PROVE IInv'
    OBVIOUS
<1>0. /\ enabled \in Setting /\ lease \in Seq(Row) /\ privateMode \in BOOLEAN
      /\ op \in [Thread -> Request] /\ gone \in [Device -> Nat]
    BY DEF IInv, TypeOK
<1> USE OwnerAssumption
<1>1. ASSUME NEW t \in Thread, NEW d \in Device, AskGrant(t, d) PROVE IInv'
    <2> PICK i \in Current : op' = [op EXCEPT ![t] =
                             [Idle EXCEPT !.at = "asked", !.to = d, !.epoch = EpochOf(i)]]
        BY <1>1 DEF AskGrant, Moves
    <2>1. Quiet(t)
        BY <1>0, <1>1, CurrentRows DEF AskGrant, Quiet, Idle, Request, Operation, ManagerOps
    <2> QED
        BY <1>0, <1>1, <2>1, QuietKeepsInvariant DEF AskGrant, Moves, Begins, Idle, InCAS
<1>2. ASSUME NEW t \in Thread, GrantControl(t) PROVE IInv'
    <2>1. Quiet(t)
        BY <1>0, <1>2, IdleIsRequest DEF GrantControl, Moves, Quiet, Request
    <2> QED
        BY <1>0, <1>2, <2>1, QuietKeepsInvariant
        DEF GrantControl, Moves, Idle, InCAS, IInv, RequestsGood, Request
<1>3. ASSUME NEW t \in Thread, AskRelease(t) PROVE IInv'
    <2> PICK i \in Current : op' = [op EXCEPT ![t] =
                             [Idle EXCEPT !.at = "asked", !.kind = "release", !.seen = i]]
        BY <1>3 DEF AskRelease, Moves
    <2>1. Quiet(t)
        BY <1>0, <1>3, CurrentRows DEF AskRelease, Quiet, Idle, Request, Operation, ManagerOps
    <2> QED
        BY <1>0, <1>3, <2>1, QuietKeepsInvariant DEF AskRelease, Moves, Begins, Idle, InCAS
<1>4. ASSUME NEW t \in Thread, ReleaseControl(t) PROVE IInv'
    <2> PICK i \in Current : Moves(t, IF i # op[t].seen THEN Idle
                   ELSE [op[t] EXCEPT !.at = "ready", !.epoch = lease[i].epoch])
        BY <1>4 DEF ReleaseControl
    <2>1. CASE i # op[t].seen
        <3>1. Quiet(t)
            BY <1>0, <1>4, <2>1, IdleIsRequest DEF ReleaseControl, Moves, Quiet
        <3> QED
            BY <1>0, <2>1, <3>1, QuietKeepsInvariant DEF Moves, Idle, InCAS
    <2>2. CASE i = op[t].seen
        <3>1. lease[i].epoch \in Nat
            BY <1>0, <1>4, <2>2, CurrentRows DEF ReleaseControl, IInv, RequestsGood, Row
        <3>2. op' = [op EXCEPT ![t] = [op[t] EXCEPT !.at = "ready", !.epoch = lease[i].epoch]]
            BY <2>2 DEF Moves
        <3>3. Quiet(t)
            BY <1>0, <1>4, <3>1, <3>2 DEF ReleaseControl, Quiet, Request
        <3> QED
            BY <1>0, <1>4, <3>2, <3>3, QuietKeepsInvariant
            DEF ReleaseControl, InCAS, IInv, RequestsGood, Request
    <2> QED
        BY <2>1, <2>2
<1>5. ASSUME NEW t \in Thread, NEW d \in Device \cup {None}, RevokeControl(t, d) PROVE IInv'
    <2> PICK i \in Current : op' = [op EXCEPT ![t] =
                             [Idle EXCEPT !.at = "ready", !.kind = "revoke", !.epoch = EpochOf(i)]]
        BY <1>5 DEF RevokeControl, Moves
    <2>1. Quiet(t)
        BY <1>0, <1>5, CurrentRows DEF RevokeControl, Quiet, Idle, Request, Operation, ManagerOps
    <2> QED
        BY <1>0, <1>5, <2>1, QuietKeepsInvariant DEF RevokeControl, Moves, Begins, Idle, InCAS
<1>6. ASSUME NEW t \in Thread, NEW d \in Device, NEW kind \in {"removeParticipant", "removeMember"},
             RemoveAccess(t, d, kind)
      PROVE IInv'
    <2>1. Len(lease) \in Nat
        BY <1>0
    <2> PICK i \in Current :
          IF i # 0 /\ lease[i].holder = d
          THEN /\ Room
               /\ Moves(t, [Idle EXCEPT !.at = "ready", !.kind = kind, !.epoch = EpochOf(i),
                                        !.removing = d, !.mark = Len(lease)])
               /\ UNCHANGED gone
          ELSE /\ gone' = [gone EXCEPT ![d] = Len(lease)]
               /\ UNCHANGED op
        BY <1>6 DEF RemoveAccess
    <2>2. CASE i # 0 /\ lease[i].holder = d
        <3>1. op' = [op EXCEPT ![t] = [Idle EXCEPT !.at = "ready", !.kind = kind, !.epoch = EpochOf(i),
                                        !.removing = d, !.mark = Len(lease)]]
            BY <2>2 DEF Moves
        <3>2. Quiet(t)
            BY <1>0, <1>6, <2>1, <2>2, <3>1, CurrentRows
            DEF RemoveAccess, Quiet, Idle, Request, Operation, ManagerOps
        <3> QED
            BY <1>0, <1>6, <3>1, <3>2, QuietKeepsInvariant DEF RemoveAccess, Begins, Idle, InCAS
    <2>3. CASE ~(i # 0 /\ lease[i].holder = d)
        <3>1. Quiet(t) /\ op' = op
            BY <1>0, <1>6, <2>1, <2>3 DEF RemoveAccess, Quiet
        <3> QED
            BY <1>0, <1>6, <3>1, QuietKeepsInvariant
            DEF RemoveAccess, Begins, InCAS, IInv, RequestsGood
    <2> QED
        BY <2>2, <2>3
<1>7. ASSUME NEW t \in Thread, Compare(t) PROVE IInv'
    <2> PICK i \in Current :
          IF EpochOf(i) = op[t].epoch
          THEN Moves(t, [op[t] EXCEPT !.at = "agreed"]) /\ UNCHANGED gone
          ELSE Ends(t)
        BY <1>7 DEF Compare
    <2>1. CASE EpochOf(i) # op[t].epoch
        <3>1. Quiet(t) /\ op'[t] = Idle
            BY <1>0, <1>7, <2>1, IdleIsRequest DEF Compare, Ends, Moves, Quiet, Request
        <3> QED
            BY <1>0, <3>1, QuietKeepsInvariant DEF Idle, InCAS
    <2>2. CASE EpochOf(i) = op[t].epoch
        <3>1. op' = [op EXCEPT ![t] = [op[t] EXCEPT !.at = "agreed"]]
            BY <2>2 DEF Moves
        <3>2. TypeOK'
            BY <1>0, <1>7, <2>2, <3>1 DEF Compare, TypeOK, Request
        <3>3. RequestsGood'
            BY <1>0, <1>7, <3>1 DEF Compare, IInv, RequestsGood, Request
        <3>4. \A u \in Thread \ {t} : InCAS(u) => op[u].kind \notin ManagerOps \/ op[t].kind \notin ManagerOps
            BY <1>7 DEF Compare, Unlocked, Holds, StoreOf, InCAS
        <3>5. OneInManager'
            BY <1>0, <3>1, <3>4 DEF IInv, OneInManager, InCAS, Request
        <3>6. ViewersCleared' /\ OneViewerControls'
            BY <1>0, <1>7, <3>1 DEF Compare, IInv, ViewersCleared, OneViewerControls, Active, Request
        <3> QED
            BY <3>2, <3>3, <3>5, <3>6 DEF IInv
    <2> QED
        BY <2>1, <2>2
<1>8. ASSUME NEW t \in Thread, RevokeRows(t) PROVE IInv'
    <2>1. op' = [op EXCEPT ![t] = [op[t] EXCEPT !.at = "cleared"]] /\ lease' = AllRevoked
        BY <1>8 DEF RevokeRows, Moves
    <2>2. TypeOK'
        BY <1>0, <1>8, <2>1, RevokedRows DEF RevokeRows, TypeOK, Request
    <2>3. RequestsGood'
        BY <1>0, <1>8, <2>1 DEF RevokeRows, IInv, RequestsGood, Request
    <2>4. OneInManager'
        BY <1>0, <1>8, <2>1 DEF RevokeRows, IInv, OneInManager, InCAS, Request
    <2>5. Active' = {}
        BY <1>0, <2>1, RevokedRows DEF Active
    <2> QED
        BY <2>2, <2>3, <2>4, <2>5 DEF IInv, ViewersCleared, OneViewerControls
<1>9. ASSUME NEW t \in Thread, InsertRow(t) PROVE IInv'
    <2>1. op[t] \in Request /\ op[t].at = "cleared"
        BY <1>0, <1>9 DEF InsertRow
    <2>2. op' = [op EXCEPT ![t] = Idle]
        BY <1>9 DEF InsertRow, Ends, Moves
    <2>3. TypeOK'
        BY <1>0, <1>9, <2>1, <2>2, InsertedRows, IdleIsRequest
        DEF InsertRow, Ends, TypeOK, Request
    <2>4. RequestsGood'
        BY <1>0, <1>9, <2>2 DEF InsertRow, IInv, RequestsGood, Idle
    <2>5. OneInManager'
        BY <1>0, <2>2 DEF IInv, OneInManager, InCAS, Idle
    <2>6. Active' = Active \cup {Len(lease) + 1}
        BY <1>0, <1>9, <2>1, InsertedRows DEF Active
    <2>7. \A i \in Active : lease'[i] = lease[i] /\ i # Len(lease) + 1
        BY <1>0, <1>9, <2>1, InsertedRows DEF Active
    <2>8. lease'[Len(lease) + 1].holder = op[t].to
        BY <1>0, <1>9, <2>1, InsertedRows
    <2>9. CASE op[t].to = Owner
        <3>1. OneViewerControls'
            BY <2>6, <2>7, <2>8, <2>9 DEF IInv, OneViewerControls
        <3>2. ViewersCleared'
            BY <1>0, <2>2, <2>6, <2>7, <2>8, <2>9 DEF IInv, ViewersCleared, Idle
        <3> QED
            BY <2>3, <2>4, <2>5, <3>1, <3>2 DEF IInv
    <2>10. CASE op[t].to # Owner
        <3>1. \A i \in Active : lease[i].holder = Owner
            BY <2>1, <2>10 DEF IInv, ViewersCleared
        <3>2. OneViewerControls'
            BY <2>6, <2>7, <2>8, <3>1 DEF OneViewerControls
        <3>3. op[t].kind \in ManagerOps
            BY <2>10 DEF IInv, RequestsGood, ManagerOps
        <3>4. ASSUME NEW u \in Thread, op'[u].at = "cleared", op'[u].to # Owner PROVE FALSE
            <4>1. u # t /\ op[u].at = "cleared" /\ op[u].to # Owner
                BY <1>0, <2>2, <3>4 DEF Idle
            <4>2. op[u].kind \in ManagerOps
                BY <4>1 DEF IInv, RequestsGood, ManagerOps
            <4> QED
                BY <2>1, <3>3, <4>1, <4>2 DEF IInv, OneInManager, InCAS
        <3> QED
            BY <2>3, <2>4, <2>5, <3>2, <3>4 DEF IInv, ViewersCleared
    <2> QED
        BY <2>9, <2>10
<1>10. ASSUME NEW t \in Thread, EnterPrivateMode(t) PROVE IInv'
    <2>1. Quiet(t)
        BY <1>0, <1>10 DEF EnterPrivateMode, Moves, Quiet, Idle, Request, Operation, ManagerOps
    <2> QED
        BY <1>0, <1>10, <2>1, QuietKeepsInvariant DEF EnterPrivateMode, Moves, Begins, Idle, InCAS
<1>11. ASSUME NEW t \in Thread, RevokeForPrivateMode(t) PROVE IInv'
    <2>1. op' = [op EXCEPT ![t] = Idle] /\ lease' = AllRevoked
        BY <1>11 DEF RevokeForPrivateMode, Moves
    <2>2. TypeOK'
        BY <1>0, <1>11, <2>1, RevokedRows, IdleIsRequest DEF RevokeForPrivateMode, TypeOK
    <2>3. RequestsGood' /\ OneInManager'
        BY <1>0, <1>11, <2>1 DEF RevokeForPrivateMode, IInv, RequestsGood, OneInManager, InCAS, Idle
    <2>4. Active' = {}
        BY <1>0, <2>1, RevokedRows DEF Active
    <2> QED
        BY <2>2, <2>3, <2>4 DEF IInv, ViewersCleared, OneViewerControls
<1>12. ASSUME NEW t \in Thread, Stop(t) PROVE IInv'
    <2>1. \A u \in Thread : op'[u] = op[u] \/ op'[u] = Idle
        BY <1>12 DEF Stop
    <2>2. op' \in [Thread -> Request]
        BY <1>0, <1>12, IdleIsRequest DEF Stop
    <2>3. TypeOK'
        BY <1>0, <1>12, <2>2 DEF Stop, TypeOK
    <2>4. RequestsGood' /\ OneInManager'
        BY <1>12, <2>1 DEF Stop, IInv, RequestsGood, OneInManager, InCAS, Idle
    <2>5. ViewersCleared' /\ OneViewerControls'
        BY <1>12, <2>1 DEF Stop, IInv, ViewersCleared, OneViewerControls, Active, Idle
    <2> QED
        BY <2>3, <2>4, <2>5 DEF IInv
<1>13. CASE LeavePrivateMode
    BY <1>0, <1>13 DEF LeavePrivateMode, IInv, TypeOK, RequestsGood, OneInManager, InCAS,
                       ViewersCleared, OneViewerControls, Active
<1>14. CASE UNCHANGED vars
    BY <1>14 DEF vars, IInv, TypeOK, RequestsGood, OneInManager, InCAS,
                 ViewersCleared, OneViewerControls, Active
<1> QED
    BY <1>1, <1>2, <1>3, <1>4, <1>5, <1>6, <1>7, <1>8, <1>9, <1>10, <1>11, <1>12, <1>13, <1>14 DEF Next

\* Every reachable state is of the declared types.
THEOREM TypeCorrect == Spec => []TypeOK
<1>1. IInv => TypeOK
    BY DEF IInv
<1> QED
    BY <1>1, InitInvariant, NextInvariant, PTL DEF Spec

\* However many stores serve a session, and wherever one stops, at most one viewer
\* holds control of it.
THEOREM ViewersTakeTurns == Spec => []OneViewerControls
<1>1. IInv => OneViewerControls
    BY DEF IInv
<1> QED
    BY <1>1, InitInvariant, NextInvariant, PTL DEF Spec

-----------------------------------------------------------------------------
(* Through one store.                                                       *)

\* The epoch of a row is its place, and only the last row may be in force.
RowsInOrder ==
    /\ Len(lease) >= 1
    /\ \A i \in DOMAIN lease : lease[i].epoch = i
    /\ \A i \in Active : i = Len(lease)

\* A request in the compare-and-set has the epoch of the last row; only one that
\* has revoked the rows may leave none in force.
CASGood ==
    /\ \A t \in Thread : InCAS(t) => op[t].epoch = Len(lease)
    /\ \A t \in Thread : op[t].at = "cleared" => Active = {}
    /\ Active = {} => \E t \in Thread : op[t].at = "cleared"

\* A removal on its way expects the lease that was in force when it looked.
RemovalsGood ==
    /\ \A t \in Thread : op[t].removing # None =>
          /\ op[t].at # "asked"
          /\ op[t].mark <= Len(lease)
          /\ op[t].at = "ready" => op[t].epoch = op[t].mark
    /\ \A d \in Device : gone[d] <= Len(lease)

Taken == \A d \in Device, i \in DOMAIN lease :
            i <= gone[d] /\ lease[i].holder = d => lease[i].revoked

SInv == OneStore => RowsInOrder /\ CASGood /\ RemovalsGood /\ Taken

LEMMA InitOneStore == Init => SInv
<1> SUFFICES ASSUME Init PROVE RowsInOrder /\ CASGood /\ RemovalsGood /\ Taken
    BY DEF SInv
<1>1. /\ lease \in Seq(Row) /\ Len(lease) = 1 /\ DOMAIN lease = {1}
      /\ lease[1].epoch = 1 /\ ~lease[1].revoked
    BY OwnerAssumption DEF Init, Row
<1>2. Active = {1}
    BY <1>1 DEF Active
<1> QED
    BY <1>1, <1>2 DEF Init, RowsInOrder, CASGood, RemovalsGood, Taken, InCAS, Idle

\* Under the manager's mutex nobody else is in the compare-and-set.
LEMMA AloneInCAS ==
    ASSUME IInv, OneStore, NEW t \in Thread, InCAS(t), NEW u \in Thread, InCAS(u)
    PROVE  t = u
BY DEF IInv, RequestsGood, OneInManager, OneStore, InCAS

\* A request that leaves the rows alone, and is not in the compare-and-set before or after.
LEMMA QuietKeepsOneStore ==
    ASSUME IInv, SInv, OneStore, NEW t \in Thread, Quiet(t), ~InCAS(t), ~InCAS(t)',
           op'[t].removing # None =>
              /\ op'[t].at # "asked"
              /\ op'[t].mark <= Len(lease)
              /\ op'[t].at = "ready" => op'[t].epoch = op'[t].mark,
           \A d \in Device : gone'[d] <= Len(lease),
           \A d \in Device, i \in Active : i <= gone'[d] => lease[i].holder # d
    PROVE  SInv'
<1>1. RowsInOrder /\ CASGood /\ RemovalsGood /\ lease \in Seq(Row)
    BY DEF SInv, IInv, TypeOK
<1>2. lease' = lease /\ Active' = Active
    BY DEF Quiet, Active
<1>3. RowsInOrder'
    BY <1>1, <1>2 DEF RowsInOrder
<1>4. \A u \in Thread : InCAS(u)' => u # t /\ op'[u] = op[u]
    BY DEF Quiet
<1>5. \A u \in Thread : op[u].at = "cleared" => op'[u].at = "cleared"
    BY DEF Quiet, InCAS
<1>6. CASGood'
    BY <1>1, <1>2, <1>4, <1>5 DEF CASGood, InCAS
<1>7. RemovalsGood'
    BY <1>1, <1>2 DEF RemovalsGood, Quiet
<1>8. Taken'
    BY <1>2 DEF Taken, Active
<1> QED
    BY <1>3, <1>6, <1>7, <1>8 DEF SInv

LEMMA NextOneStore == IInv /\ SInv /\ [Next]_vars => SInv'
<1> SUFFICES ASSUME IInv, SInv, [Next]_vars, OneStore' PROVE SInv'
    BY DEF SInv
<1>0. /\ lease \in Seq(Row) /\ op \in [Thread -> Request] /\ gone \in [Device -> Nat]
      /\ privateMode \in BOOLEAN /\ Len(lease) \in Nat
    BY DEF IInv, TypeOK
<1>a. enabled' = enabled
    BY DEF Next, vars, AskGrant, GrantControl, AskRelease, ReleaseControl, RevokeControl, RemoveAccess,
           Compare, RevokeRows, InsertRow, EnterPrivateMode, RevokeForPrivateMode, Stop, LeavePrivateMode
<1>b. OneStore
    BY <1>a DEF OneStore
<1>c. RowsInOrder /\ CASGood /\ RemovalsGood /\ Taken
    BY <1>b DEF SInv
<1>d. \A d \in Device, i \in Active : i <= gone[d] => lease[i].holder # d
    BY <1>c DEF Taken, Active
<1>e. \A i \in Current : i # 0 => i = Len(lease) /\ EpochOf(i) = i /\ lease[i].epoch = i
    BY <1>0, <1>c, CurrentRows DEF RowsInOrder, EpochOf, Active
<1> USE OwnerAssumption
<1>1. ASSUME NEW t \in Thread, NEW d \in Device, AskGrant(t, d) PROVE SInv'
    <2> PICK i \in Current : op' = [op EXCEPT ![t] =
                             [Idle EXCEPT !.at = "asked", !.to = d, !.epoch = EpochOf(i)]]
        BY <1>1 DEF AskGrant, Moves
    <2>1. Quiet(t)
        BY <1>0, <1>1, CurrentRows DEF AskGrant, Quiet, Idle, Request, Operation, ManagerOps
    <2> QED
        BY <1>0, <1>1, <1>b, <1>c, <1>d, <2>1, QuietKeepsOneStore
        DEF AskGrant, Begins, Idle, InCAS, RemovalsGood
<1>2. ASSUME NEW t \in Thread, GrantControl(t) PROVE SInv'
    <2>1. Quiet(t)
        BY <1>0, <1>2, IdleIsRequest DEF GrantControl, Moves, Quiet, Request
    <2> QED
        BY <1>0, <1>2, <1>b, <1>c, <1>d, <2>1, QuietKeepsOneStore
        DEF GrantControl, Moves, Idle, InCAS, RemovalsGood, Request
<1>3. ASSUME NEW t \in Thread, AskRelease(t) PROVE SInv'
    <2> PICK i \in Current : op' = [op EXCEPT ![t] =
                             [Idle EXCEPT !.at = "asked", !.kind = "release", !.seen = i]]
        BY <1>3 DEF AskRelease, Moves
    <2>1. Quiet(t)
        BY <1>0, <1>3, CurrentRows DEF AskRelease, Quiet, Idle, Request, Operation, ManagerOps
    <2> QED
        BY <1>0, <1>3, <1>b, <1>c, <1>d, <2>1, QuietKeepsOneStore
        DEF AskRelease, Begins, Idle, InCAS, RemovalsGood
<1>5. ASSUME NEW t \in Thread, NEW d \in Device \cup {None}, RevokeControl(t, d) PROVE SInv'
    <2> PICK i \in Current : op' = [op EXCEPT ![t] =
                             [Idle EXCEPT !.at = "ready", !.kind = "revoke", !.epoch = EpochOf(i)]]
        BY <1>5 DEF RevokeControl, Moves
    <2>1. Quiet(t)
        BY <1>0, <1>5, CurrentRows DEF RevokeControl, Quiet, Idle, Request, Operation, ManagerOps
    <2> QED
        BY <1>0, <1>5, <1>b, <1>c, <1>d, <2>1, QuietKeepsOneStore
        DEF RevokeControl, Begins, Idle, InCAS, RemovalsGood
<1>4. ASSUME NEW t \in Thread, ReleaseControl(t) PROVE SInv'
    <2> PICK i \in Current : Moves(t, IF i # op[t].seen THEN Idle
                   ELSE [op[t] EXCEPT !.at = "ready", !.epoch = lease[i].epoch])
        BY <1>4 DEF ReleaseControl
    <2>1. op[t].removing = None /\ IInv'
        BY <1>4, <1>c, NextInvariant DEF ReleaseControl, RemovalsGood
    <2>2. CASE i # op[t].seen
        <3>1. Quiet(t) /\ op'[t] = Idle
            BY <1>0, <1>4, <2>2, IdleIsRequest DEF ReleaseControl, Moves, Quiet
        <3> QED
            BY <1>0, <1>4, <1>b, <1>c, <1>d, <3>1, QuietKeepsOneStore
            DEF ReleaseControl, Idle, InCAS, RemovalsGood
    <2>3. CASE i = op[t].seen
        <3>1. op' = [op EXCEPT ![t] = [op[t] EXCEPT !.at = "ready", !.epoch = lease[i].epoch]]
            BY <2>3 DEF Moves
        <3>2. Quiet(t)
            BY <1>0, <1>4, <2>1, <3>1 DEF ReleaseControl, Quiet, IInv, TypeOK
        <3>3. op'[t].removing = None /\ op'[t].at = "ready"
            BY <1>0, <2>1, <3>1 DEF Request
        <3> QED
            BY <1>0, <1>4, <1>b, <1>c, <1>d, <3>2, <3>3, QuietKeepsOneStore
            DEF ReleaseControl, InCAS, RemovalsGood
    <2> QED
        BY <2>2, <2>3
<1>6. ASSUME NEW t \in Thread, NEW d \in Device, NEW kind \in {"removeParticipant", "removeMember"},
             RemoveAccess(t, d, kind)
      PROVE SInv'
    <2> PICK i \in Current :
          IF i # 0 /\ lease[i].holder = d
          THEN /\ Room
               /\ Moves(t, [Idle EXCEPT !.at = "ready", !.kind = kind, !.epoch = EpochOf(i),
                                        !.removing = d, !.mark = Len(lease)])
               /\ UNCHANGED gone
          ELSE /\ gone' = [gone EXCEPT ![d] = Len(lease)]
               /\ UNCHANGED op
        BY <1>6 DEF RemoveAccess
    <2>1. op[t].at = "idle" /\ UNCHANGED <<enabled, lease, privateMode>>
        BY <1>6 DEF RemoveAccess, Begins
    <2>2. CASE i # 0 /\ lease[i].holder = d
        <3>1. op' = [op EXCEPT ![t] = [Idle EXCEPT !.at = "ready", !.kind = kind, !.epoch = EpochOf(i),
                                        !.removing = d, !.mark = Len(lease)]] /\ gone' = gone
            BY <2>2 DEF Moves
        <3>2. Quiet(t)
            BY <1>0, <2>1, <2>2, <3>1, CurrentRows
            DEF Quiet, Idle, Request, Operation, ManagerOps
        <3>3. EpochOf(i) = Len(lease)
            BY <1>e, <2>2
        <3>4. /\ op'[t].at = "ready" /\ op'[t].epoch = Len(lease) /\ op'[t].mark = Len(lease)
            BY <1>0, <3>1, <3>3 DEF Idle
        <3> QED
            BY <1>0, <1>b, <1>c, <1>d, <2>1, <3>1, <3>2, <3>4, QuietKeepsOneStore DEF InCAS, RemovalsGood
    <2>3. CASE ~(i # 0 /\ lease[i].holder = d)
        <3>1. Quiet(t) /\ op' = op /\ gone' = [gone EXCEPT ![d] = Len(lease)]
            BY <1>0, <2>1, <2>3 DEF Quiet
        <3>2. \A k \in Active : k = i
            BY <1>0, <1>c, <1>e, CurrentRows DEF RowsInOrder
        <3>3. \A e \in Device, k \in Active : k <= gone'[e] => lease[k].holder # e
            <4> SUFFICES ASSUME NEW e \in Device, NEW k \in Active, k <= gone'[e], lease[k].holder = e
                         PROVE FALSE
                OBVIOUS
            <4>1. k = i /\ i # 0
                BY <1>0, <3>2, CurrentRows
            <4>2. e # d
                BY <2>3, <4>1
            <4> QED
                BY <1>0, <1>d, <3>1, <4>2
        <3>4. \A e \in Device : gone'[e] <= Len(lease)
            BY <1>0, <1>c, <3>1 DEF RemovalsGood
        <3> QED
            BY <1>b, <1>c, <2>1, <3>1, <3>3, <3>4, QuietKeepsOneStore DEF InCAS, RemovalsGood
    <2> QED
        BY <2>2, <2>3
<1>7. ASSUME NEW t \in Thread, Compare(t) PROVE SInv'
    <2> PICK i \in Current :
          IF EpochOf(i) = op[t].epoch
          THEN Moves(t, [op[t] EXCEPT !.at = "agreed"]) /\ UNCHANGED gone
          ELSE Ends(t)
        BY <1>7 DEF Compare
    <2>1. op[t].at = "ready" /\ op[t].kind \in ManagerOps /\ UNCHANGED <<enabled, lease, privateMode>>
        BY <1>7, <1>b DEF Compare, IInv, RequestsGood, OneStore
    <2>2. \A u \in Thread : ~InCAS(u)
        <3> SUFFICES ASSUME NEW u \in Thread, InCAS(u) PROVE FALSE
            OBVIOUS
        <3>1. u # t /\ op[u].kind \in ManagerOps
            BY <1>b, <2>1 DEF InCAS, IInv, RequestsGood, OneStore
        <3> QED
            BY <1>7, <2>1, <3>1 DEF Compare, Unlocked, Holds, StoreOf, InCAS
    <2>3. i = Len(lease) /\ EpochOf(i) = i /\ i # 0
        BY <1>0, <1>c, <1>e, <2>2, CurrentRows DEF CASGood, InCAS
    <2>4. CASE EpochOf(i) # op[t].epoch
        <3>1. Quiet(t) /\ op'[t] = Idle
            BY <1>0, <2>1, <2>4, IdleIsRequest DEF Ends, Moves, Quiet, Request
        <3>2. CASE op[t].removing = None
            <4>1. gone' = gone
                BY <2>4, <3>2 DEF Ends
            <4> QED
                BY <1>0, <1>b, <1>c, <1>d, <2>1, <3>1, <4>1, QuietKeepsOneStore DEF Idle, InCAS, RemovalsGood
        <3>3. CASE op[t].removing # None
            <4>1. op[t].removing \in Device /\ op[t].mark \in Nat
                BY <1>0, <3>3 DEF Request
            <4>2. gone' = [gone EXCEPT ![op[t].removing] = op[t].mark]
                BY <2>4, <3>3 DEF Ends
            <4>3. op[t].mark < Len(lease)
                BY <1>0, <1>c, <2>1, <2>3, <2>4, <3>3, <4>1 DEF RemovalsGood
            <4>4. \A k \in Active : k = Len(lease)
                BY <1>c DEF RowsInOrder
            <4>5. \A e \in Device : gone'[e] <= Len(lease)
                BY <1>0, <1>c, <4>1, <4>2, <4>3 DEF RemovalsGood
            <4>6. \A e \in Device, k \in Active : k <= gone'[e] => lease[k].holder # e
                BY <1>0, <1>d, <4>1, <4>2, <4>3, <4>4
            <4> QED
                BY <1>b, <2>1, <3>1, <4>5, <4>6, QuietKeepsOneStore DEF Idle, InCAS
        <3> QED
            BY <3>2, <3>3
    <2>5. CASE EpochOf(i) = op[t].epoch
        <3>1. op' = [op EXCEPT ![t] = [op[t] EXCEPT !.at = "agreed"]] /\ gone' = gone
            BY <2>5 DEF Moves
        <3>2. lease' = lease /\ Active' = Active
            BY <2>1 DEF Active
        <3>3. op'[t].at = "agreed" /\ op'[t].epoch = Len(lease)
            BY <1>0, <2>3, <2>5, <3>1 DEF Request
        <3>4. \A u \in Thread \ {t} : op'[u] = op[u]
            BY <1>0, <3>1
        <3>5. RowsInOrder' /\ Taken'
            BY <1>c, <3>1, <3>2 DEF RowsInOrder, Taken
        <3>6. Active # {}
            BY <1>c, <2>2 DEF CASGood, InCAS
        <3>7. CASGood'
            BY <2>2, <3>2, <3>3, <3>4, <3>6 DEF CASGood, InCAS
        <3>8. RemovalsGood'
            BY <1>0, <1>c, <3>1, <3>2 DEF RemovalsGood, Request
        <3> QED
            BY <3>5, <3>7, <3>8 DEF SInv
    <2> QED
        BY <2>4, <2>5
<1>8. ASSUME NEW t \in Thread, RevokeRows(t) PROVE SInv'
    <2>1. /\ op' = [op EXCEPT ![t] = [op[t] EXCEPT !.at = "cleared"]] /\ lease' = AllRevoked
          /\ gone' = gone /\ op[t].at = "agreed"
        BY <1>8 DEF RevokeRows, Moves
    <2>2. /\ Len(lease') = Len(lease) /\ DOMAIN lease' = DOMAIN lease /\ Active' = {}
          /\ \A k \in DOMAIN lease : lease'[k].revoked /\ lease'[k].epoch = lease[k].epoch
        BY <1>0, <2>1, RevokedRows DEF Active
    <2>3. op'[t].at = "cleared" /\ op'[t].epoch = op[t].epoch /\ op[t].epoch = Len(lease)
        BY <1>0, <1>c, <2>1 DEF CASGood, InCAS, Request
    <2>4. \A u \in Thread \ {t} : op'[u] = op[u]
        BY <1>0, <2>1
    <2>5. RowsInOrder' /\ Taken'
        BY <1>c, <2>2 DEF RowsInOrder, Taken
    <2>6. CASGood'
        BY <1>c, <2>2, <2>3, <2>4 DEF CASGood, InCAS
    <2>7. RemovalsGood'
        BY <1>0, <1>c, <2>1, <2>2 DEF RemovalsGood, Request
    <2> QED
        BY <2>5, <2>6, <2>7 DEF SInv
<1>9. ASSUME NEW t \in Thread, InsertRow(t) PROVE SInv'
    <2>1. op[t] \in Request /\ op[t].at = "cleared" /\ InCAS(t) /\ op' = [op EXCEPT ![t] = Idle]
        BY <1>0, <1>9 DEF InsertRow, InCAS, Ends, Moves
    <2>2. Active = {} /\ op[t].epoch = Len(lease)
        BY <1>c, <2>1 DEF CASGood
    <2>3. /\ DOMAIN lease = 1..Len(lease) /\ DOMAIN lease' = 1..Len(lease) + 1
          /\ Len(lease') = Len(lease) + 1 /\ \A k \in 1..Len(lease) : lease'[k] = lease[k]
          /\ lease'[Len(lease) + 1].epoch = Len(lease) + 1 /\ ~lease'[Len(lease) + 1].revoked
        BY <1>0, <1>9, <2>1, <2>2, InsertedRows
    <2>4. \A k \in 1..Len(lease) : lease[k].revoked /\ lease[k].epoch = k
        BY <1>c, <2>2, <2>3 DEF Active, RowsInOrder
    <2>5. Active' = {Len(lease) + 1}
        BY <1>0, <2>3, <2>4 DEF Active
    <2>6. RowsInOrder'
        BY <1>0, <2>3, <2>4, <2>5 DEF RowsInOrder
    <2>7. \A u \in Thread : op'[u] = Idle \/ (~InCAS(u) /\ op'[u] = op[u])
        <3>1. \A u \in Thread : InCAS(u) => t = u
            BY <1>b, <2>1, AloneInCAS
        <3> QED
            BY <1>0, <2>1, <3>1
    <2>8. CASGood'
        <3>1. \A u \in Thread : op'[u].at \notin {"agreed", "cleared"}
            BY <2>7 DEF InCAS, Idle
        <3>2. Active' # {}
            BY <2>5
        <3> QED
            BY <3>1, <3>2 DEF CASGood, InCAS
    <2>9. \A d \in Device : gone'[d] \in Nat /\ gone'[d] <= Len(lease)
        <3>1. CASE op[t].removing = None
            BY <1>0, <1>9, <1>c, <3>1 DEF InsertRow, Ends, RemovalsGood
        <3>2. CASE op[t].removing # None
            <4>1. gone' = [gone EXCEPT ![op[t].removing] = op[t].mark]
                BY <1>9, <3>2 DEF InsertRow, Ends
            <4>2. op[t].mark \in Nat /\ op[t].mark <= Len(lease)
                BY <1>c, <2>1, <3>2 DEF RemovalsGood, Request
            <4> QED
                BY <1>0, <1>c, <4>1, <4>2 DEF RemovalsGood
        <3> QED
            BY <3>1, <3>2
    <2>10. \A u \in Thread : op'[u].removing # None => op'[u] = op[u] /\ op[u].mark \in Nat
        BY <1>0, <2>7 DEF Idle, Request
    <2>11. RemovalsGood'
        BY <1>0, <1>c, <2>3, <2>9, <2>10 DEF RemovalsGood
    <2>12. Taken'
        BY <1>0, <2>3, <2>4, <2>9 DEF Taken
    <2> QED
        BY <2>6, <2>8, <2>11, <2>12 DEF SInv
<1>10. ASSUME NEW t \in Thread, EnterPrivateMode(t) \/ RevokeForPrivateMode(t) \/ Stop(t) PROVE FALSE
    <2>1. "private" \notin enabled /\ "stop" \notin enabled
        BY <1>b DEF OneStore, ManagerOps
    <2> QED
        BY <1>10, <2>1 DEF EnterPrivateMode, Begins, RevokeForPrivateMode, Stop, IInv, RequestsGood
<1>11. CASE LeavePrivateMode
    BY <1>11, <1>c DEF LeavePrivateMode, SInv, OneStore, RowsInOrder, CASGood, RemovalsGood, Taken, InCAS, Active
<1>12. CASE UNCHANGED vars
    BY <1>12, <1>c DEF vars, SInv, OneStore, RowsInOrder, CASGood, RemovalsGood, Taken, InCAS, Active
<1> QED
    BY <1>1, <1>2, <1>3, <1>4, <1>5, <1>6, <1>7, <1>8, <1>9, <1>10, <1>11, <1>12 DEF Next

LEMMA OneStoreAlways == Spec => [](IInv /\ SInv)
BY InitInvariant, InitOneStore, NextInvariant, NextOneStore, PTL DEF Spec

\* Through one store, one lease is in force at a time.
THEOREM OneLeaseAtATime == Spec => []OneActiveLease
<1>1. IInv /\ SInv => OneActiveLease
    BY DEF SInv, OneActiveLease, RowsInOrder
<1> QED
    BY <1>1, OneStoreAlways, PTL

\* Through one store, every lease has a higher epoch than those before it.
THEOREM EpochsGrow == Spec => []EpochsRise
<1>1. IInv /\ SInv => EpochsRise
    BY DEF SInv, EpochsRise, RowsInOrder, IInv, TypeOK
<1> QED
    BY <1>1, OneStoreAlways, PTL

\* Through one store, a removed device keeps no lease from before its removal,
\* although a compare-and-set that fails is not tried again.
THEOREM RemovalTakesTheLease == Spec => []RemovedLosesLease
<1>1. IInv /\ SInv => RemovedLosesLease
    BY DEF SInv, RemovedLosesLease, Taken
<1> QED
    BY <1>1, OneStoreAlways, PTL

\* The four together: control is one viewer's at a time, and through one store leases follow
\* one another (grantLeaseCAS, revokeTerminalSessionAccess).
THEOREM LeasesStaySound == Spec => []LeasesSound
<1>1. OneViewerControls /\ OneActiveLease /\ EpochsRise /\ RemovedLosesLease => LeasesSound
    BY DEF LeasesSound
<1> QED
    BY <1>1, ViewersTakeTurns, OneLeaseAtATime, EpochsGrow, RemovalTakesTheLease, PTL

-----------------------------------------------------------------------------
(* Leases in a session.                                                     *)

\* Steps that leave the lease alone.
OutputStep ==
    \/ \E t \in Thread : \/ SelectSequence(t) \/ UpdateSequence(t) \/ InsertEvent(t)
                         \/ \E d \in Device : SendInput(t, d)
                         \/ HandleViewerFrame(t) \/ ValidateLease(t) \/ CheckPrivateMode(t) \/ WriteInput(t)
    \/ ServeTerminalRecording
    \/ ReadPTY \/ NextSequence \/ SequenceIsBusy \/ RecordOutput \/ AppendEvent \/ BroadcastOutput
    \/ \E w \in Window : Attach(w) \/ Replay(w) \/ Join(w) \/ Show(w) \/ Close(w)

LEMMA OutputKeepsLease == OutputStep => UNCHANGED vars
BY DEF OutputStep, SelectSequence, UpdateSequence, InsertEvent, SendInput, HandleViewerFrame, ValidateLease,
       Checks, CheckPrivateMode, WriteInput, ServeTerminalRecording, ReadPTY, NextSequence, SequenceIsBusy,
       RecordOutput, AppendEvent, BroadcastOutput, Attach, Replay, Join, Show, Close

LEMMA StepsSplit == SessionNext => LeaseMoves \/ OutputStep
BY DEF SessionNext, OutputStep

LEMMA SessionStepsAreLeaseSteps == [SessionNext]_session => [Next]_vars
<1>1. LeaseMoves => Next
    BY DEF LeaseMoves
<1>2. UNCHANGED session => UNCHANGED vars
    BY DEF session
<1> QED
    BY <1>1, <1>2, StepsSplit, OutputKeepsLease

\* Whatever the host, the windows and the viewers' input do, the lease of a session behaves as one
\* does alone (grantLeaseCAS and its callers).
THEOREM SessionImplementsLease == SessionSpec => Spec
<1>1. SessionInit => Init
    BY DEF SessionInit
<1> QED
    BY <1>1, SessionStepsAreLeaseSteps, PTL DEF SessionSpec, Spec

\* Control in a session is one viewer's at a time, and through one store leases follow one another
\* (grantLeaseCAS, revokeTerminalSessionAccess).
THEOREM SessionLeasesStaySound == SessionSpec => []LeasesSound
BY SessionImplementsLease, LeasesStaySound, PTL

-----------------------------------------------------------------------------
(* Stale controllers.                                                       *)

Carried == [at: {"none", "sent", "forwarded", "valid", "typing"}, from: Device \cup {None}, row: Nat,
            late: BOOLEAN]

\* An input under a lease that was revoked before it was sent has not passed the Core's check, and the
\* lease is still revoked.
LateIsHeld ==
    \A t \in Thread : input[t].late =>
        /\ input[t].at = "sent"
        /\ input[t].row \in DOMAIN lease /\ lease[input[t].row].revoked

InputInv == input \in [Thread -> Carried] /\ LateIsHeld /\ StaleControllersRejected

LEMMA NothingCarried == NoInput \in Carried /\ ~NoInput.late
BY DEF NoInput, Carried

\* No statement takes a revocation back.
LEMMA RevokedStays ==
    ASSUME lease \in Seq(Row), [Next]_vars, NEW i \in DOMAIN lease, lease[i].revoked
    PROVE  i \in DOMAIN lease' /\ lease'[i].revoked
<1>1. CASE lease' = lease
    BY <1>1
<1>2. CASE lease' = AllRevoked
    BY <1>2, RevokedRows
<1>3. CASE \E row : lease' = Append(lease, row)
    BY <1>3
<1> QED
    BY <1>1, <1>2, <1>3
    DEF Next, vars, AskGrant, GrantControl, AskRelease, ReleaseControl, RevokeControl, RemoveAccess,
        Compare, RevokeRows, InsertRow, EnterPrivateMode, RevokeForPrivateMode, LeavePrivateMode, Stop

LEMMA LateKept ==
    ASSUME TypeOK, InputInv, [Next]_vars, UNCHANGED <<input, typed>> PROVE InputInv'
<1>1. lease \in Seq(Row)
    BY DEF TypeOK
<1>2. \A t \in Thread : input[t].late => /\ input[t].row \in DOMAIN lease'
                                         /\ lease'[input[t].row].revoked
    BY <1>1, RevokedStays DEF InputInv, LateIsHeld
<1> QED
    BY <1>2 DEF InputInv, LateIsHeld, StaleControllersRejected

\* What ValidateWrite lets through quotes a lease that is in force.
LEMMA ValidIsInForce ==
    ASSUME NEW from, NEW row \in DOMAIN lease, lease \in Seq(Row), ValidateWrite(from, row)
    PROVE  ~lease[row].revoked
<1>1. row \in Current /\ row # 0
    BY DEF ValidateWrite
<1> QED
    BY <1>1, CurrentRows DEF Active

LEMMA CheckKeeps ==
    ASSUME TypeOK, InputInv, NEW t \in Thread, NEW from, NEW to \in {"forwarded", "valid"}, Checks(t, from, to)
    PROVE  InputInv'
<1> DEFINE passes == ValidateWrite(input[t].from, input[t].row)
           next   == IF passes THEN [input[t] EXCEPT !.at = to] ELSE NoInput
<1>1. input' = [input EXCEPT ![t] = next] /\ UNCHANGED <<lease, typed>>
    BY DEF Checks, InputMoves, vars
<1>2. input[t] \in Carried
    BY DEF InputInv
<1>3. next \in Carried
    BY <1>2, NothingCarried DEF Carried
<1>4. ~next.late
    <2>1. CASE passes
        <3>1. lease \in Seq(Row)
            BY DEF TypeOK
        <3>2. ~input[t].late
            BY <2>1, <3>1, ValidIsInForce DEF InputInv, LateIsHeld
        <3> QED
            BY <1>2, <2>1, <3>2 DEF Carried
    <2>2. CASE ~passes
        BY <2>2, NothingCarried
    <2> QED
        BY <2>1, <2>2
<1> HIDE DEF next, passes
<1> QED
    BY <1>1, <1>3, <1>4 DEF InputInv, LateIsHeld, StaleControllersRejected

LEMMA InputKept ==
    ASSUME TypeOK, InputInv, SessionNext \/ UNCHANGED session PROVE InputInv'
<1>1. CASE UNCHANGED <<input, typed>>
    <2>1. [Next]_vars
        BY SessionStepsAreLeaseSteps
    <2> QED
        BY <1>1, <2>1, LateKept
<1>2. ASSUME NEW t \in Thread, NEW d \in Device, SendInput(t, d) PROVE InputInv'
    <2>1. PICK i \in DOMAIN lease :
              input' = [input EXCEPT ![t] = [at |-> "sent", from |-> d, row |-> i, late |-> lease[i].revoked]]
        BY <1>2 DEF SendInput
    <2>2. lease[i].revoked \in BOOLEAN /\ i \in Nat
        <3>1. lease \in Seq(Row)
            BY DEF TypeOK
        <3>2. lease[i] \in Row /\ i \in Nat
            BY <3>1
        <3> QED
            BY <3>2 DEF Row
    <2>3. UNCHANGED <<lease, typed>>
        BY <1>2 DEF SendInput, vars
    <2> QED
        BY <2>1, <2>2, <2>3 DEF InputInv, Carried, LateIsHeld, StaleControllersRejected
<1>3. ASSUME NEW t \in Thread, HandleViewerFrame(t) \/ ValidateLease(t) PROVE InputInv'
    BY <1>3, CheckKeeps DEF HandleViewerFrame, ValidateLease
<1>4. ASSUME NEW t \in Thread, CheckPrivateMode(t) PROVE InputInv'
    <2>1. ~input[t].late /\ input[t] \in Carried
        BY <1>4 DEF CheckPrivateMode, InputInv, LateIsHeld
    <2>2. UNCHANGED <<lease, typed>>
        BY <1>4 DEF CheckPrivateMode, vars
    <2>3. PICK next \in {NoInput, [input[t] EXCEPT !.at = "typing"]} : input' = [input EXCEPT ![t] = next]
        BY <1>4 DEF CheckPrivateMode, InputMoves
    <2>4. next \in Carried /\ ~next.late
        BY <2>1, <2>3, NothingCarried DEF Carried
    <2> QED
        BY <2>2, <2>3, <2>4 DEF InputInv, LateIsHeld, StaleControllersRejected
<1>5. ASSUME NEW t \in Thread, WriteInput(t) PROVE InputInv'
    <2>1. ~input[t].late
        BY <1>5 DEF WriteInput, InputInv, LateIsHeld
    <2>2. /\ input' = [input EXCEPT ![t] = NoInput] /\ UNCHANGED lease
          /\ typed' = typed \cup {[from |-> input[t].from, row |-> input[t].row, late |-> input[t].late]}
        BY <1>5 DEF WriteInput, InputMoves, vars
    <2> QED
        BY <2>1, <2>2, NothingCarried DEF InputInv, LateIsHeld, StaleControllersRejected
<1> QED
    BY <1>1, <1>2, <1>3, <1>4, <1>5
    DEF SessionNext, session, out, LeaseMoves, SelectSequence, UpdateSequence, InsertEvent, ServeTerminalRecording,
        ReadPTY, NextSequence, SequenceIsBusy, RecordOutput, AppendEvent, BroadcastOutput, Attach, Replay,
        Join, Show, Close

LEMMA InputInvariant == SessionSpec => []InputInv
<1>1. SessionInit => InputInv
    BY NothingCarried DEF SessionInit, InputInv, LateIsHeld, StaleControllersRejected
<1>2. TypeOK /\ InputInv /\ [SessionNext]_session => InputInv'
    BY InputKept
<1>3. SessionSpec => []TypeOK
    BY SessionImplementsLease, TypeCorrect, PTL
<1> QED
    BY <1>1, <1>2, <1>3, PTL DEF SessionSpec

\* An input under a lease that was revoked before it was sent never reaches the shell, whatever grants,
\* releases and private modes come between the checks of Core and host (ValidateWrite, ipcInput).
THEOREM StaleControllersStayOut == SessionSpec => []StaleControllersRejected
<1>1. InputInv => StaleControllersRejected
    BY DEF InputInv
<1> QED
    BY <1>1, InputInvariant, PTL

-----------------------------------------------------------------------------
(* The record in order.                                                     *)

LEMMA Least ==
    ASSUME NEW T \in SUBSET Nat, T # {} PROVE \E x \in T : \A y \in T : x <= y
<1>1. IsWellFoundedOn(OpToRel(<, Nat), Nat)
    BY NatLessThanWellFounded
<1>2. PICK x \in T : \A y \in T : ~(<<y, x>> \in OpToRel(<, Nat))
    BY <1>1, WFMin
<1>3. \A y \in T : ~(y < x)
    BY <1>2 DEF OpToRel
<1> QED
    BY <1>3

InOrder(s, n) == \A i, j \in 1..n : i < j => s[i].seq < s[j].seq

Orderable(S) == \E s \in [1..Cardinality(S) -> S] : InOrder(s, Cardinality(S))

\* One more event before all others.
LEMMA Precedes ==
    ASSUME NEW S, NEW n \in Nat, NEW e \in S, NEW s \in [1..n -> S \ {e}], InOrder(s, n),
           \A f \in S : f.seq \in Nat, \A f \in S \ {e} : e.seq < f.seq
    PROVE  \E r \in [1..(n + 1) -> S] : InOrder(r, n + 1)
<1> DEFINE r == [i \in 1..(n + 1) |-> IF i = 1 THEN e ELSE s[i - 1]]
<1>1. ASSUME NEW i \in 1..(n + 1), i # 1 PROVE i - 1 \in 1..n /\ r[i] = s[i - 1] /\ s[i - 1] \in S \ {e}
    <2>1. i - 1 \in 1..n
        BY <1>1
    <2> QED
        BY <1>1, <2>1
<1>2. r[1] = e
    OBVIOUS
<1>3. r \in [1..(n + 1) -> S]
    BY <1>1, <1>2
<1>4. ASSUME NEW i \in 1..(n + 1), NEW j \in 1..(n + 1), i < j PROVE r[i].seq < r[j].seq
    <2>1. j # 1
        BY <1>4
    <2>2. CASE i = 1
        BY <1>1, <1>2, <2>1, <2>2
    <2>3. CASE i # 1
        <3>1. i - 1 < j - 1
            BY <1>4
        <3> QED
            BY <1>1, <2>1, <2>3, <3>1 DEF InOrder
    <2> QED
        BY <2>2, <2>3
<1> HIDE DEF r
<1> QED
    BY <1>3, <1>4 DEF InOrder

\* Events with numbers of their own can be put in order: a smallest set of them that cannot would have
\* a first event, and without it be one that can.
LEMMA Orders ==
    ASSUME NEW S, IsFiniteSet(S), \A e \in S : e.seq \in Nat, \A e, f \in S : e.seq = f.seq => e = f
    PROVE  Orderable(S)
<1> SUFFICES ASSUME ~Orderable(S) PROVE FALSE
    OBVIOUS
<1> DEFINE Stuck == {n \in Nat : \E T \in SUBSET S : Cardinality(T) = n /\ ~Orderable(T)}
<1>1. Cardinality(S) \in Nat
    BY FS_CardinalityType
<1>2. Stuck # {} /\ Stuck \in SUBSET Nat
    BY <1>1
<1>3. PICK n \in Stuck : \A k \in Stuck : n <= k
    BY <1>2, Least
<1>4. PICK T \in SUBSET S : Cardinality(T) = n /\ ~Orderable(T)
    BY <1>3
<1>5. IsFiniteSet(T) /\ n \in Nat
    BY <1>3, FS_Subset
<1>6. T # {}
    <2>1. SUFFICES ASSUME T = {} PROVE FALSE
        OBVIOUS
    <2>2. Cardinality(T) = 0
        BY <2>1, FS_EmptySet
    <2>3. [i \in 1..0 |-> i] \in [1..0 -> T]
        OBVIOUS
    <2>4. InOrder([i \in 1..0 |-> i], 0)
        BY DEF InOrder
    <2> QED
        BY <1>4, <2>2, <2>3, <2>4 DEF Orderable
<1>7. {e.seq : e \in T} \in SUBSET Nat /\ {e.seq : e \in T} # {}
    BY <1>6
<1>8. PICK x \in {e.seq : e \in T} : \A y \in {e.seq : e \in T} : x <= y
    BY <1>7, Least
<1>9. PICK e \in T : x = e.seq
    BY <1>8
<1>10. \A f \in T \ {e} : e.seq < f.seq
    BY <1>8, <1>9
<1>11. IsFiniteSet(T \ {e}) /\ Cardinality(T \ {e}) = n - 1
    BY <1>4, <1>5, <1>9, FS_RemoveElement
<1>12. n - 1 \in Nat
    BY <1>11, FS_CardinalityType
<1>13. Orderable(T \ {e})
    <2>1. n - 1 \notin Stuck
        BY <1>3, <1>5, <1>12
    <2>2. T \ {e} \in SUBSET S
        OBVIOUS
    <2> QED
        BY <1>11, <1>12, <2>1, <2>2
<1>14. PICK s \in [1..(n - 1) -> T \ {e}] : InOrder(s, n - 1)
    BY <1>11, <1>13 DEF Orderable
<1>15. \E r \in [1..(n - 1 + 1) -> T] : InOrder(r, n - 1 + 1)
    BY <1>9, <1>10, <1>12, <1>14, Precedes
<1>16. n - 1 + 1 = n
    BY <1>5
<1> QED
    BY <1>4, <1>15, <1>16 DEF Orderable

-----------------------------------------------------------------------------
(* Types of a session.                                                      *)

Event == [seq: Nat, what: {"lease", "private", "output", "snapshot", "input"}, chunk: Nat]
Log   == [at: {"none", "select", "update", "insert"}, seq: Nat, store: {"manager", "host"} \cup Thread]
Pump  == [at: {"idle", "read", "numbered", "append", "tell"}, chunk: Nat, seq: Nat]
View  == [at: {"closed", "opened", "replayed", "live"}, frames: Nat, queue: Seq(Frame), shown: Seq(Frame)]

\* No two events share a number.
RecordGood(s) ==
    /\ s \in [last: Nat, paused: BOOLEAN, events: SUBSET Event]
    /\ IsFiniteSet(s.events)
    /\ \A e, f \in s.events : e.seq = f.seq => e = f

HostGood ==
    /\ play \in Play
    /\ RecordGood(stored)
    /\ log \in [Thread -> Log]
    /\ pump \in Pump /\ pump.chunk <= play.chunks

ViewGood(v) == v \in View /\ Len(v.queue) <= QueueMax

WindowsGood == window = [w \in Window |-> window[w]] /\ \A w \in Window : ViewGood(window[w])

LEMMA Plays == ASSUME HostGood PROVE play.chunks \in Nat /\ pump.chunk \in 0..play.chunks
<1>1. play.chunks \in Nat
    BY SessionAssumption DEF HostGood
<1> QED
    BY <1>1 DEF HostGood, Pump

\* Whatever changes of the record are one insert, a new last number and a new pause.
LEMMA Inserts ==
    ASSUME RecordGood(stored), NEW n \in Nat, NEW what \in {"lease", "private", "output", "snapshot", "input"},
           NEW chunk \in Nat
    PROVE  /\ Insert(n, what, chunk) \in SUBSET Event /\ IsFiniteSet(Insert(n, what, chunk))
           /\ \A e, f \in Insert(n, what, chunk) : e.seq = f.seq => e = f
<1> DEFINE e == [seq |-> n, what |-> what, chunk |-> chunk]
<1>1. e \in Event /\ e.seq = n
    BY DEF Event
<1>2. IsFiniteSet(stored.events \cup {e})
    BY FS_AddElement DEF RecordGood
<1>3. CASE Used(n)
    BY <1>3 DEF Insert, RecordGood
<1>4. CASE ~Used(n)
    <2>1. Insert(n, what, chunk) = stored.events \cup {e} /\ \A f \in stored.events : f.seq # n
        BY <1>4 DEF Insert, Used
    <2> HIDE DEF e
    <2> QED
        BY <1>1, <1>2, <2>1 DEF RecordGood
<1> QED
    BY <1>3, <1>4

LEMMA RecordMoves ==
    ASSUME RecordGood(stored), NEW n \in Nat, NEW b \in BOOLEAN, NEW ev,
           ev \in SUBSET Event, IsFiniteSet(ev), \A e, f \in ev : e.seq = f.seq => e = f
    PROVE  RecordGood([stored EXCEPT !.last = n, !.paused = b, !.events = ev])
<1> DEFINE s == [stored EXCEPT !.last = n, !.paused = b, !.events = ev]
<1>1. s.events = ev /\ s \in [last: Nat, paused: BOOLEAN, events: SUBSET Event]
    BY DEF RecordGood
<1> HIDE DEF s
<1> QED
    BY <1>1 DEF RecordGood

LEMMA LogsTyped == Idle.at = "idle" /\ NoLog \in Log
BY DEF Idle, NoLog, Log

LEMMA InitHost == SessionInit => HostGood
<1> SUFFICES ASSUME SessionInit PROVE HostGood
    OBVIOUS
<1>1. play \in Play /\ play.chunks \in Nat
    BY SessionAssumption DEF SessionInit
<1>2. RecordGood(stored)
    <2>1. stored = [last |-> 0, paused |-> FALSE, events |-> {}]
        BY DEF SessionInit
    <2> QED
        BY <2>1, FS_EmptySet DEF RecordGood
<1>3. log \in [Thread -> Log]
    BY LogsTyped DEF SessionInit
<1>4. pump \in Pump /\ pump.chunk <= play.chunks
    BY <1>1 DEF SessionInit, Pump
<1> QED
    BY <1>1, <1>2, <1>3, <1>4 DEF HostGood

\* A change of the lease or of the mode.
LEMMA LeaseKeepsHost ==
    ASSUME HostGood, TypeOK', LeaseMoves PROVE HostGood'
<1>1. play' = play /\ pump' = pump /\ stored' = ModeSet /\ log' = LoggedLease
    BY DEF LeaseMoves
<1>2. RecordGood(stored) /\ log \in [Thread -> Log]
    BY DEF HostGood
<1>3. RecordGood(stored')
    <2>1. /\ stored.last \in Nat /\ stored.last + 1 \in Nat /\ stored.events \in SUBSET Event
          /\ IsFiniteSet(stored.events) /\ \A e, f \in stored.events : e.seq = f.seq => e = f
        BY <1>2 DEF RecordGood
    <2>6. privateMode' \in BOOLEAN
        BY DEF TypeOK
    <2>2. [stored EXCEPT !.paused = privateMode'] =
              [stored EXCEPT !.last = stored.last, !.paused = privateMode', !.events = stored.events]
        BY <1>2 DEF RecordGood
    <2>3. RecordGood([stored EXCEPT !.paused = privateMode'])
        BY <1>2, <2>1, <2>2, <2>6, RecordMoves
    <2>4. RecordGood([stored EXCEPT !.last = stored.last + 1, !.paused = FALSE,
                                    !.events = Insert(stored.last + 1, "private", 0)])
        BY <1>2, <2>1, RecordMoves, Inserts
    <2>5. [stored EXCEPT !.last = stored.last + 1, !.paused = FALSE, !.events = Insert(stored.last + 1, "private", 0)]
          = [stored EXCEPT !.paused = FALSE, !.last = stored.last + 1, !.events = Insert(stored.last + 1, "private", 0)]
        OBVIOUS
    <2> QED
        BY <1>1, <1>2, <2>3, <2>4, <2>5 DEF ModeSet
<1>4. log' \in [Thread -> Log]
    <2>1. ASSUME NEW t \in Thread PROVE [at |-> "select", seq |-> 0, store |-> StoreOf(t)'] \in Log
        BY DEF Log, StoreOf
    <2> QED
        BY <1>1, <1>2, <2>1 DEF LoggedLease
<1> QED
    BY <1>1, <1>3, <1>4 DEF HostGood

LEMMA NumbersKeepHost ==
    ASSUME HostGood, NEW t \in Thread, SelectSequence(t) \/ UpdateSequence(t) \/ InsertEvent(t) PROVE HostGood'
<1>1. play' = play /\ pump' = pump
    BY DEF SelectSequence, UpdateSequence, InsertEvent
<1>2. RecordGood(stored) /\ log \in [Thread -> Log] /\ log[t] \in Log /\ log[t].seq \in Nat
    BY DEF HostGood, Log
<1>3. stored.last \in Nat /\ stored.last + 1 \in Nat
    BY <1>2 DEF RecordGood
<1>4. CASE SelectSequence(t)
    <2>1. log' = [log EXCEPT ![t] = [log[t] EXCEPT !.at = "update", !.seq = stored.last + 1]] /\ stored' = stored
        BY <1>2, <1>4 DEF SelectSequence
    <2>2. [log[t] EXCEPT !.at = "update", !.seq = stored.last + 1] \in Log
        BY <1>2, <1>3 DEF Log
    <2> QED
        BY <1>1, <1>2, <2>1, <2>2 DEF HostGood
<1>5. CASE UpdateSequence(t)
    <2>1. log' = [log EXCEPT ![t] = [log[t] EXCEPT !.at = "insert"]] /\ stored' = [stored EXCEPT !.last = log[t].seq]
        BY <1>2, <1>5 DEF UpdateSequence
    <2>2. [log[t] EXCEPT !.at = "insert"] \in Log
        BY <1>2 DEF Log
    <2>3. RecordGood(stored')
        BY <1>2, <2>1 DEF RecordGood
    <2> QED
        BY <1>1, <1>2, <2>1, <2>2, <2>3 DEF HostGood
<1>6. CASE InsertEvent(t)
    <2>1. log' = [log EXCEPT ![t] = NoLog] /\ stored' = [stored EXCEPT !.events = Insert(log[t].seq, "lease", 0)]
        BY <1>6 DEF InsertEvent
    <2>2. /\ Insert(log[t].seq, "lease", 0) \in SUBSET Event /\ IsFiniteSet(Insert(log[t].seq, "lease", 0))
          /\ \A e, f \in Insert(log[t].seq, "lease", 0) : e.seq = f.seq => e = f
        BY <1>2, Inserts
    <2>3. RecordGood(stored')
        BY <1>2, <2>1, <2>2 DEF RecordGood
    <2> QED
        BY <1>1, <1>2, <2>1, <2>3, LogsTyped DEF HostGood
<1> QED
    BY <1>4, <1>5, <1>6

LEMMA PumpKeepsHost ==
    ASSUME HostGood, ReadPTY \/ NextSequence \/ SequenceIsBusy \/ RecordOutput \/ AppendEvent \/ BroadcastOutput
    PROVE  HostGood'
<1>1. play' = play /\ log' = log
    BY DEF ReadPTY, NextSequence, SequenceIsBusy, RecordOutput, AppendEvent, BroadcastOutput
<1>2. /\ RecordGood(stored) /\ log \in [Thread -> Log] /\ play \in Play
      /\ pump \in Pump /\ pump.chunk <= play.chunks /\ pump.chunk \in Nat /\ pump.seq \in Nat /\ play.chunks \in Nat
    BY Plays DEF HostGood, Pump
<1>3. stored.last \in Nat /\ stored.last + 1 \in Nat
    BY <1>2 DEF RecordGood
<1>4. RecordGood(stored')
    <2>1. /\ Insert(pump.seq, "output", pump.chunk) \in SUBSET Event
          /\ IsFiniteSet(Insert(pump.seq, "output", pump.chunk))
          /\ \A e, f \in Insert(pump.seq, "output", pump.chunk) : e.seq = f.seq => e = f
        BY <1>2, Inserts
    <2>2. CASE stored' = stored
        BY <1>2, <2>2
    <2>3. CASE stored' = [stored EXCEPT !.last = stored.last + 1]
        BY <1>2, <1>3, <2>3 DEF RecordGood
    <2>4. CASE stored' = [stored EXCEPT !.events = Insert(pump.seq, "output", pump.chunk)]
        BY <1>2, <2>1, <2>4 DEF RecordGood
    <2> QED
        BY <2>2, <2>3, <2>4 DEF ReadPTY, NextSequence, SequenceIsBusy, RecordOutput, AppendEvent, BroadcastOutput
<1>5. pump' \in Pump /\ pump'.chunk <= play.chunks
    <2>1. CASE ReadPTY
        <3>1. pump' = [pump EXCEPT !.at = "read", !.chunk = pump.chunk + 1] /\ pump.chunk < play.chunks
            BY <2>1 DEF ReadPTY
        <3>2. PICK n \in Nat : n = pump.chunk + 1 /\ n <= play.chunks
            BY <1>2, <3>1
        <3>3. pump' = [pump EXCEPT !.at = "read", !.chunk = n]
            BY <3>1, <3>2
        <3> QED
            BY <1>2, <3>2, <3>3 DEF Pump
    <2>2. CASE NextSequence
        BY <1>2, <1>3, <2>2 DEF NextSequence, Pump
    <2>3. CASE SequenceIsBusy \/ RecordOutput \/ AppendEvent \/ BroadcastOutput
        BY <1>2, <2>3 DEF SequenceIsBusy, RecordOutput, AppendEvent, BroadcastOutput, Pump
    <2> QED
        BY <2>1, <2>2, <2>3
<1> QED
    BY <1>1, <1>2, <1>4, <1>5 DEF HostGood

LEMMA WindowsKeepHost ==
    ASSUME HostGood,
           \/ ServeTerminalRecording
           \/ \E t \in Thread : \/ \E d \in Device : SendInput(t, d)
                                \/ HandleViewerFrame(t) \/ ValidateLease(t) \/ CheckPrivateMode(t) \/ WriteInput(t)
           \/ \E w \in Window : Attach(w) \/ Replay(w) \/ Join(w) \/ Show(w) \/ Close(w)
    PROVE  HostGood'
<1>1. play' = play /\ log' = log /\ pump' = pump
    BY DEF ServeTerminalRecording, SendInput, HandleViewerFrame, ValidateLease, Checks, CheckPrivateMode, WriteInput,
           Attach, Replay, Join, Show, Close
<1>2. RecordGood(stored) /\ stored.last \in Nat /\ stored.last + 1 \in Nat
    BY DEF HostGood, RecordGood
<1>3. RecordGood(stored')
    <2>1. \A what \in {"input", "snapshot"} :
              /\ Insert(stored.last + 1, what, 0) \in SUBSET Event
              /\ IsFiniteSet(Insert(stored.last + 1, what, 0))
              /\ \A e, f \in Insert(stored.last + 1, what, 0) : e.seq = f.seq => e = f
        BY <1>2, Inserts
    <2>2. CASE stored' = stored
        BY <1>2, <2>2
    <2>3. ASSUME NEW what \in {"input", "snapshot"},
                 stored' = [stored EXCEPT !.last = stored.last + 1, !.events = Insert(stored.last + 1, what, 0)]
          PROVE  RecordGood(stored')
        BY <1>2, <2>1, <2>3 DEF RecordGood
    <2>4. ASSUME NEW b \in BOOLEAN, stored' = [stored EXCEPT !.paused = b] PROVE RecordGood(stored')
        BY <1>2, <2>4 DEF RecordGood
    <2>5. CASE ServeTerminalRecording
        BY <2>4, <2>5 DEF ServeTerminalRecording, PauseRecording, ResumeRecording
    <2> QED
        BY <2>2, <2>3, <2>5
        DEF SendInput, HandleViewerFrame, ValidateLease, Checks, CheckPrivateMode, WriteInput, Attach, SaveSnapshot,
            Replay, Join, Show, Close
<1> QED
    BY <1>1, <1>3 DEF HostGood

LEMMA NextHost == ASSUME HostGood, TypeOK', SessionNext \/ UNCHANGED session PROVE HostGood'
<1>1. CASE UNCHANGED session
    BY <1>1 DEF session, out, HostGood, RecordGood
<1> QED
    BY <1>1, LeaseKeepsHost, NumbersKeepHost, PumpKeepsHost, WindowsKeepHost DEF SessionNext

-----------------------------------------------------------------------------
(* Windows.                                                                 *)

\* What a window has been given and has not lost, shown or about to be.
Got(v) == v.shown \o v.queue

Told == IF pump.at = "idle" THEN pump.chunk ELSE pump.chunk - 1

Given(g, frames, live, told) ==
    /\ g \in Seq(Frame)
    /\ \A i \in 1..Len(g) : g[i].n <= frames /\ (~live => ~g[i].live)
    /\ Len(g) > 0 /\ g[Len(g)].live /\ g[Len(g)].n = frames => g[Len(g)].chunk = told
    /\ \A i \in 1..(Len(g) - 1) : g[i].live /\ g[i + 1].n = g[i].n + 1 => g[i + 1].chunk = g[i].chunk + 1

\* The last live frame, if none was dropped after it, has what the pump told last.
FramesGood(v, told) ==
    /\ v.at \in {"closed", "opened"} => v.frames = 0 /\ v.queue = <<>> /\ v.shown = <<>>
    /\ Given(Got(v), v.frames, v.at = "live", told)

GapsKnown == \A w \in Window : FramesGood(window[w], Told)

LEMMA EmptyWindow ==
    ASSUME NEW told, NEW at \in {"closed", "opened"}, QueueMax \in Nat
    PROVE  LET v == [Closed EXCEPT !.at = at] IN ViewGood(v) /\ FramesGood(v, told)
<1> DEFINE v == [Closed EXCEPT !.at = at]
<1>0. <<>> \in Seq(Frame) /\ Len(<<>>) = 0
    OBVIOUS
<1>1. v.at = at /\ v.frames = 0 /\ v.queue = <<>> /\ v.shown = <<>> /\ v \in View
    BY <1>0 DEF Closed, View
<1>2. Got(v) = <<>>
    BY <1>1 DEF Got
<1> HIDE DEF v
<1>3. ViewGood(v)
    BY <1>0, <1>1 DEF ViewGood
<1>4. Given(Got(v), v.frames, v.at = "live", told)
    BY <1>0, <1>1, <1>2 DEF Given
<1>5. FramesGood(v, told)
    BY <1>1, <1>4 DEF FramesGood
<1> QED
    BY <1>3, <1>5 DEF v

LEMMA InitWindows == SessionInit => WindowsGood /\ GapsKnown
<1> SUFFICES ASSUME SessionInit PROVE WindowsGood /\ GapsKnown
    OBVIOUS
<1>1. window = [w \in Window |-> Closed]
    BY DEF SessionInit
<1>2. Closed = [Closed EXCEPT !.at = "closed"]
    BY DEF Closed
<1>3. ViewGood(Closed) /\ FramesGood(Closed, Told)
    BY <1>2, EmptyWindow, SessionAssumption
<1> QED
    BY <1>1, <1>3 DEF WindowsGood, GapsKnown

\* The record as a window is given it.
LEMMA Recordings ==
    ASSUME HostGood
    PROVE  Recorded \in Seq(Event)
<1>1. /\ stored.events \in SUBSET Event /\ IsFiniteSet(stored.events)
      /\ \A e, f \in stored.events : e.seq = f.seq => e = f
    BY DEF HostGood, RecordGood
<1>2. Outputs \in SUBSET stored.events
    BY DEF Outputs
<1>3. IsFiniteSet(Outputs) /\ Cardinality(Outputs) \in Nat
    BY <1>1, <1>2, FS_Subset, FS_CardinalityType
<1>4. \A e \in Outputs : e.seq \in Nat
    BY <1>1, <1>2 DEF Event
<1>5. Orderable(Outputs)
    BY <1>1, <1>2, <1>3, <1>4, Orders
<1>6. \E s \in [1..Cardinality(Outputs) -> Outputs] : \A i, j \in DOMAIN s : i < j => s[i].seq < s[j].seq
    BY <1>5 DEF Orderable, InOrder
<1>7. Recorded \in [1..Cardinality(Outputs) -> Outputs]
    BY <1>6 DEF Recorded
<1> QED
    BY <1>1, <1>2, <1>3, <1>7

LEMMA ReplayGood ==
    ASSUME HostGood, NEW w \in Window, ViewGood(window[w]), FramesGood(window[w], Told), Replay(w),
           window = [x \in Window |-> window[x]]
    PROVE  ViewGood(window'[w]) /\ FramesGood(window'[w], Told)
<1> DEFINE n == Len(Recorded)
           taken == IF n < QueueMax THEN n ELSE QueueMax
           q == [i \in 1..taken |-> [n |-> i, chunk |-> Recorded[i].chunk, live |-> FALSE]]
           v == [window[w] EXCEPT !.at = "replayed", !.frames = n, !.queue = q]
<1>1. Recorded \in Seq(Event) /\ n \in Nat /\ taken \in Nat /\ taken <= n /\ taken <= QueueMax
    BY Recordings, SessionAssumption
<1>2. ASSUME NEW i \in 1..taken PROVE [n |-> i, chunk |-> Recorded[i].chunk, live |-> FALSE] \in Frame
    <2>1. i \in 1..Len(Recorded)
        BY <1>1
    <2>2. Recorded[i] \in Event
        BY <1>1, <2>1
    <2> QED
        BY <2>2 DEF Event, Frame
<1>3. q \in Seq(Frame) /\ Len(q) = taken
    <2>1. q \in [1..taken -> Frame]
        BY <1>2
    <2> QED
        BY <1>1, <2>1
<1>4. window' = [window EXCEPT ![w] = v]
    BY DEF Replay
<1>5. window'[w] = v
    BY <1>4
<1>6. window[w] \in View /\ window[w].shown = <<>>
    BY DEF Replay, ViewGood, FramesGood
<1>7. v \in View /\ v.at = "replayed" /\ v.frames = n /\ v.queue = q /\ v.shown = <<>>
    BY <1>1, <1>3, <1>6 DEF View
<1>8. \A i \in 1..taken : q[i].n <= n /\ ~q[i].live
    BY <1>1
<1> HIDE DEF q, v
<1>9. Got(v) = q
    BY <1>3, <1>7 DEF Got
<1>10. Given(Got(v), v.frames, v.at = "live", Told)
    BY <1>1, <1>3, <1>7, <1>8, <1>9 DEF Given
<1> QED
    BY <1>1, <1>3, <1>5, <1>7, <1>10 DEF ViewGood, FramesGood

\* Showing a frame changes nothing of what was given.
LEMMA Shows ==
    ASSUME NEW v, v \in View, v.queue # <<>>
    PROVE  LET x == [v EXCEPT !.queue = Tail(@), !.shown = Append(@, Head(v.queue))]
           IN  Got(x) = Got(v) /\ x \in View /\ x.at = v.at /\ x.frames = v.frames /\ Len(x.queue) <= Len(v.queue)
<1> DEFINE x == [v EXCEPT !.queue = Tail(@), !.shown = Append(@, Head(v.queue))]
<1>1. v.queue \in Seq(Frame) /\ v.shown \in Seq(Frame) /\ Len(v.queue) > 0
    BY DEF View
<1>2. Head(v.queue) \in Frame /\ Head(v.queue) = v.queue[1] /\ Tail(v.queue) \in Seq(Frame)
      /\ Len(Tail(v.queue)) = Len(v.queue) - 1 /\ \A i \in 1..(Len(v.queue) - 1) : Tail(v.queue)[i] = v.queue[i + 1]
    BY <1>1
<1>3. x.at = v.at /\ x.frames = v.frames /\ x.queue = Tail(v.queue) /\ x.shown = Append(v.shown, Head(v.queue)) /\ x \in View
    <2>1. PICK q \in Seq(Frame), s \in Seq(Frame) : q = Tail(v.queue) /\ s = Append(v.shown, Head(v.queue))
        BY <1>1, <1>2, AppendProperties
    <2>2. x = [v EXCEPT !.queue = q, !.shown = s]
        BY <2>1
    <2> QED
        BY <2>1, <2>2 DEF View
<1> HIDE DEF x
<1>4. ASSUME NEW s \in Seq(Frame), NEW q \in Seq(Frame), Len(q) > 0
      PROVE  Append(s, Head(q)) \o Tail(q) = s \o q
    <2>4. PICK h \in Frame, t \in Seq(Frame) :
              /\ h = Head(q) /\ t = Tail(q) /\ Len(t) = Len(q) - 1 /\ h = q[1]
              /\ \A i \in 1..Len(t) : t[i] = q[i + 1]
        <3>1. q # <<>>
            BY <1>4
        <3>2. Head(q) = q[1]
            OBVIOUS
        <3>3. /\ Head(q) \in Frame /\ Tail(q) \in Seq(Frame) /\ Len(Tail(q)) = Len(q) - 1
              /\ \A i \in 1..Len(Tail(q)) : Tail(q)[i] = q[i + 1]
            BY <3>1, HeadTailProperties
        <3> QED
            BY <3>2, <3>3
    <2>5. PICK r \in Seq(Frame) : /\ r = Append(s, h) /\ Len(r) = Len(s) + 1 /\ r[Len(s) + 1] = h
                                 /\ \A i \in 1..Len(s) : r[i] = s[i]
        <3>1. /\ Append(s, h) \in Seq(Frame) /\ Len(Append(s, h)) = Len(s) + 1 /\ Append(s, h)[Len(s) + 1] = h
              /\ \A i \in 1..Len(s) : Append(s, h)[i] = s[i]
            BY AppendProperties
        <3> QED
            BY <3>1
    <2>1. Len(r \o t) = Len(s \o q)
        BY <1>4, <2>4, <2>5
    <2>2. \A i \in 1..Len(s \o q) : (r \o t)[i] = (s \o q)[i]
        BY <1>4, <2>4, <2>5
    <2>3. Append(s, Head(q)) \o Tail(q) \in Seq(Frame) /\ s \o q \in Seq(Frame)
        BY <1>4
    <2> QED
        BY <2>1, <2>2, <2>3, <2>4, <2>5
<1>5. Got(x) = Got(v)
    BY <1>1, <1>3, <1>4 DEF Got
<1> QED
    BY <1>1, <1>2, <1>3, <1>5 DEF x

\* The pump tells a live window; the queue takes the frame, or not.
LEMMA Tells ==
    ASSUME NEW v, ViewGood(v), v.at = "live", NEW chunk \in Nat, FramesGood(v, chunk - 1), QueueMax \in Nat
    PROVE  ViewGood(Framed(v, chunk, TRUE)) /\ FramesGood(Framed(v, chunk, TRUE), chunk)
<1> DEFINE f == [n |-> v.frames + 1, chunk |-> chunk, live |-> TRUE]
           q == Push(v.queue, f)
           x == [v EXCEPT !.frames = v.frames + 1, !.queue = q]
<1>1. v \in View /\ Len(v.queue) <= QueueMax /\ v.frames \in Nat /\ v.queue \in Seq(Frame) /\ v.shown \in Seq(Frame)
    BY DEF ViewGood, View
<1>2. f \in Frame /\ f.n = v.frames + 1 /\ f.chunk = chunk /\ f.live
    BY <1>1 DEF Frame
<1> HIDE DEF f
<1>3. q \in Seq(Frame) /\ Len(q) <= QueueMax
    BY <1>1, <1>2, AppendProperties DEF Push
<1> HIDE DEF q
<1>4. x \in View /\ x.at = "live" /\ x.frames = v.frames + 1 /\ x.queue = q /\ x.shown = v.shown
    <2>1. PICK n \in Nat : n = v.frames + 1
        BY <1>1
    <2>2. x = [v EXCEPT !.frames = n, !.queue = q]
        BY <2>1
    <2> QED
        BY <1>1, <1>3, <2>1, <2>2 DEF View
<1>5. Framed(v, chunk, TRUE) = x
    BY DEF Framed, q, f
<1> HIDE DEF x
<1>6. /\ Got(v) \in Seq(Frame)
      /\ \A i \in 1..Len(Got(v)) : Got(v)[i].n <= v.frames /\ Got(v)[i] \in Frame
      /\ Len(Got(v)) > 0 /\ Got(v)[Len(Got(v))].live /\ Got(v)[Len(Got(v))].n = v.frames
         => Got(v)[Len(Got(v))].chunk = chunk - 1
      /\ \A i \in 1..(Len(Got(v)) - 1) :
            Got(v)[i].live /\ Got(v)[i + 1].n = Got(v)[i].n + 1 => Got(v)[i + 1].chunk = Got(v)[i].chunk + 1
    BY DEF FramesGood, Given
<1>7. Given(Got(x), x.frames, TRUE, chunk)
    <2>1. CASE q = v.queue
        <3>1. Got(x) = Got(v)
            BY <1>4, <2>1 DEF Got
        <3>2. \A i \in 1..Len(Got(v)) : Got(v)[i].n < v.frames + 1
            BY <1>1, <1>6 DEF Frame
        <3>3. Len(Got(v)) > 0 => Got(v)[Len(Got(v))].n # v.frames + 1
            <4>1. Len(Got(v)) > 0 => Len(Got(v)) \in 1..Len(Got(v))
                BY <1>6
            <4>2. Len(Got(v)) > 0 => Got(v)[Len(Got(v))].n < v.frames + 1 /\ Got(v)[Len(Got(v))].n \in Nat
                BY <1>6, <3>2, <4>1 DEF Frame
            <4> QED
                BY <1>1, <4>2
        <3>4. \A i \in 1..Len(Got(v)) : Got(v)[i].n <= v.frames + 1
            BY <1>1, <3>2, <1>6 DEF Frame
        <3> QED
            BY <1>4, <1>6, <3>1, <3>3, <3>4 DEF Given
    <2>2. CASE q = Append(v.queue, f)
        <3>1. Got(x) = Append(Got(v), f)
            <4>1. PICK s \in Seq(Frame), u \in Seq(Frame) : s = v.shown /\ u = v.queue
                BY <1>1
            <4>2. s \o Append(u, f) = Append(s \o u, f)
                <5>1. Append(u, f) = u \o <<f>> /\ s \o u \in Seq(Frame) /\ <<f>> \in Seq(Frame)
                    BY <1>2, <4>1, AppendIsConcat, ConcatProperties
                <5>2. Append(s \o u, f) = (s \o u) \o <<f>>
                    BY <1>2, <5>1, AppendIsConcat
                <5> QED
                    BY <5>1, <5>2, ConcatAssociative
            <4> QED
                BY <1>4, <2>2, <4>1, <4>2 DEF Got
        <3>2. PICK g \in Seq(Frame) : g = Got(v)
            BY <1>6
        <3>3. PICK h \in Seq(Frame) : /\ h = Append(g, f) /\ Len(h) = Len(g) + 1 /\ h[Len(g) + 1] = f
                                     /\ \A i \in 1..Len(g) : h[i] = g[i]
            <4>1. /\ Append(g, f) \in Seq(Frame) /\ Len(Append(g, f)) = Len(g) + 1 /\ Append(g, f)[Len(g) + 1] = f
                  /\ \A i \in 1..Len(g) : Append(g, f)[i] = g[i]
                BY <1>2, AppendProperties
            <4> QED
                BY <4>1
        <3>4. \A i \in 1..Len(h) : h[i].n <= v.frames + 1
            <4>1. \A i \in 1..Len(g) : g[i].n <= v.frames + 1
                BY <1>1, <1>6, <3>2 DEF Frame
            <4> QED
                BY <1>1, <1>2, <3>3, <4>1
        <3>5. ASSUME NEW i \in 1..(Len(h) - 1), h[i].live, h[i + 1].n = h[i].n + 1
              PROVE  h[i + 1].chunk = h[i].chunk + 1
            <4>1. CASE i < Len(g)
                <5>1. i \in 1..(Len(g) - 1) /\ i \in 1..Len(g) /\ i + 1 \in 1..Len(g)
                    BY <3>3, <4>1
                <5> QED
                    BY <1>6, <3>2, <3>3, <3>5, <5>1
            <4>2. CASE i = Len(g)
                <5>1. Len(g) > 0 /\ h[i] = g[Len(g)] /\ h[i + 1] = f /\ Len(g) \in 1..Len(g)
                    BY <3>3, <4>2
                <5>3. g[Len(g)] \in Frame /\ g[Len(g)].n \in Nat /\ g[Len(g)].live /\ v.frames + 1 = g[Len(g)].n + 1
                    BY <1>2, <1>6, <3>2, <3>5, <5>1 DEF Frame
                <5>2. g[Len(g)].n = v.frames /\ g[Len(g)].live
                    BY <1>1, <5>3
                <5> QED
                    BY <1>2, <1>6, <3>2, <5>1, <5>2
            <4> QED
                BY <3>3, <4>1, <4>2
        <3>6. Len(h) > 0 /\ h[Len(h)].chunk = chunk
            BY <1>2, <3>3
        <3> QED
            BY <1>4, <3>1, <3>2, <3>3, <3>4, <3>5, <3>6 DEF Given
    <2> QED
        BY <2>1, <2>2 DEF q, Push
<1>8. ViewGood(x)
    BY <1>3, <1>4 DEF ViewGood
<1>9. FramesGood(x, chunk)
    BY <1>4, <1>7 DEF FramesGood
<1> QED
    BY <1>5, <1>8, <1>9

\* While nothing live was given, what the pump told does not matter.
LEMMA Deaf ==
    ASSUME NEW v, ViewGood(v), v.at # "live", NEW a, FramesGood(v, a), NEW b
    PROVE  FramesGood(v, b)
<1>1. Given(Got(v), v.frames, FALSE, a)
    BY DEF FramesGood
<1>2. PICK g \in Seq(Frame) : g = Got(v)
    BY <1>1 DEF Given
<1>3. Len(g) > 0 => Len(g) \in 1..Len(g)
    OBVIOUS
<1>4. Given(g, v.frames, FALSE, b)
    BY <1>1, <1>2, <1>3 DEF Given
<1> QED
    BY <1>2, <1>4 DEF FramesGood

\* One window changes, and the pump does not.
LEMMA OneWindow ==
    ASSUME WindowsGood, GapsKnown, pump' = pump, NEW w \in Window, NEW v,
           window' = [window EXCEPT ![w] = v], ViewGood(v), FramesGood(v, Told)
    PROVE  WindowsGood' /\ GapsKnown'
<1>1. /\ window' = [x \in Window |-> window'[x]]
      /\ \A x \in Window : window'[x] = IF x = w THEN v ELSE window[x]
    BY DEF WindowsGood
<1>2. Told' = Told
    BY DEF Told
<1>3. \A x \in Window : ViewGood(window'[x]) /\ FramesGood(window'[x], Told)
    BY <1>1 DEF WindowsGood, GapsKnown
<1> QED
    BY <1>1, <1>2, <1>3 DEF WindowsGood, GapsKnown

LEMMA BroadcastKeepsWindows ==
    ASSUME HostGood, WindowsGood, GapsKnown, BroadcastOutput PROVE WindowsGood' /\ GapsKnown'
<1>1. pump.at = "tell" /\ pump \in Pump /\ pump' = [pump EXCEPT !.at = "idle"] /\ pump.chunk \in Nat
    BY DEF BroadcastOutput, HostGood, Pump
<1>2. Told = pump.chunk - 1 /\ Told' = pump.chunk
    BY <1>1 DEF Told, Pump
<1>3. /\ window' = [w \in Window |-> window'[w]]
      /\ \A w \in Window : window'[w] = IF window[w].at = "live" THEN Framed(window[w], pump.chunk, TRUE) ELSE window[w]
    BY DEF BroadcastOutput
<1>4. ASSUME NEW w \in Window PROVE ViewGood(window'[w]) /\ FramesGood(window'[w], pump.chunk)
    <2>1. ViewGood(window[w]) /\ FramesGood(window[w], pump.chunk - 1)
        BY <1>2 DEF WindowsGood, GapsKnown
    <2>2. CASE window[w].at = "live"
        BY <1>1, <1>3, <2>1, <2>2, Tells, SessionAssumption
    <2>3. CASE window[w].at # "live"
        BY <1>3, <2>1, <2>3, Deaf
    <2> QED
        BY <2>2, <2>3
<1> QED
    BY <1>2, <1>3, <1>4 DEF WindowsGood, GapsKnown

LEMMA NextWindows ==
    ASSUME HostGood, WindowsGood, GapsKnown, SessionNext \/ UNCHANGED session PROVE WindowsGood' /\ GapsKnown'
<1>1. CASE window' = window /\ Told' = Told
    <2>1. \A w \in Window : FramesGood(window'[w], Told')
        BY <1>1 DEF GapsKnown
    <2> QED
        BY <1>1, <2>1 DEF WindowsGood, GapsKnown
<1>2. CASE UNCHANGED <<window, pump>>
    BY <1>1, <1>2 DEF Told
<1>3. CASE ReadPTY \/ NextSequence \/ SequenceIsBusy \/ RecordOutput \/ AppendEvent
    <2>1. pump \in Pump /\ pump.chunk \in Nat
        BY DEF HostGood, Pump
    <2>2. Told' = Told
        <3>1. CASE ReadPTY
            <4>1. pump.at = "idle" /\ pump' = [pump EXCEPT !.at = "read", !.chunk = pump.chunk + 1]
                BY <3>1 DEF ReadPTY
            <4>2. pump'.at = "read" /\ pump'.chunk = pump.chunk + 1
                BY <2>1, <4>1 DEF Pump
            <4> QED
                BY <2>1, <4>1, <4>2 DEF Told
        <3>2. CASE NextSequence \/ SequenceIsBusy \/ RecordOutput \/ AppendEvent
            <4>1. pump.at # "idle" /\ pump'.at # "idle" /\ pump'.chunk = pump.chunk
                BY <2>1, <3>2 DEF NextSequence, SequenceIsBusy, RecordOutput, AppendEvent, Pump
            <4> QED
                BY <4>1 DEF Told
        <3> QED
            BY <1>3, <3>1, <3>2
    <2>3. window' = window
        BY <1>3 DEF ReadPTY, NextSequence, SequenceIsBusy, RecordOutput, AppendEvent
    <2> QED
        BY <1>1, <2>2, <2>3
<1>4. ASSUME NEW w \in Window, Attach(w) \/ Close(w) PROVE WindowsGood' /\ GapsKnown'
    <2>1. PICK at \in {"closed", "opened"} : window' = [window EXCEPT ![w] = [Closed EXCEPT !.at = at]]
        <3>1. Closed = [Closed EXCEPT !.at = "closed"]
            BY DEF Closed
        <3> QED
            BY <1>4, <3>1 DEF Attach, Close
    <2>2. pump' = pump
        BY <1>4 DEF Attach, Close
    <2>3. ViewGood([Closed EXCEPT !.at = at]) /\ FramesGood([Closed EXCEPT !.at = at], Told)
        BY EmptyWindow, SessionAssumption
    <2> QED
        BY <2>1, <2>2, <2>3, OneWindow
<1>5. ASSUME NEW w \in Window, Replay(w) PROVE WindowsGood' /\ GapsKnown'
    <2>1. ViewGood(window[w]) /\ FramesGood(window[w], Told) /\ window = [x \in Window |-> window[x]]
        BY DEF WindowsGood, GapsKnown
    <2>2. ViewGood(window'[w]) /\ FramesGood(window'[w], Told)
        BY <1>5, <2>1, ReplayGood
    <2>3. window' = [window EXCEPT ![w] = window'[w]] /\ pump' = pump
        BY <1>5, <2>1 DEF Replay
    <2> QED
        BY <2>2, <2>3, OneWindow
<1>6. ASSUME NEW w \in Window, Join(w) PROVE WindowsGood' /\ GapsKnown'
    <2>1. ViewGood(window[w]) /\ FramesGood(window[w], Told)
        BY DEF WindowsGood, GapsKnown
    <2>2. window[w].at = "replayed" /\ pump' = pump
          /\ window' = [window EXCEPT ![w] = [window[w] EXCEPT !.at = "live"]]
        BY <1>6 DEF Join
    <2> DEFINE v == [window[w] EXCEPT !.at = "live"]
    <2>3. /\ v \in View /\ v.at = "live" /\ v.frames = window[w].frames
          /\ v.queue = window[w].queue /\ v.shown = window[w].shown
        BY <2>1 DEF ViewGood, View
    <2> HIDE DEF v
    <2>4. Got(v) = Got(window[w])
        BY <2>3 DEF Got
    <2>5. ViewGood(v) /\ FramesGood(v, Told)
        BY <2>1, <2>3, <2>4 DEF ViewGood, FramesGood, Given
    <2> QED
        BY <2>2, <2>5, OneWindow DEF v
<1>7. ASSUME NEW w \in Window, Show(w) PROVE WindowsGood' /\ GapsKnown'
    <2>1. ViewGood(window[w]) /\ FramesGood(window[w], Told) /\ window[w] \in View /\ window[w].queue # <<>>
        BY <1>7 DEF WindowsGood, GapsKnown, ViewGood, Show
    <2> DEFINE v == [window[w] EXCEPT !.queue = Tail(@), !.shown = Append(@, Head(window[w].queue))]
    <2>2. window' = [window EXCEPT ![w] = v] /\ pump' = pump
        BY <1>7 DEF Show
    <2>3. /\ Got(v) = Got(window[w]) /\ v \in View /\ v.at = window[w].at /\ v.frames = window[w].frames
          /\ Len(v.queue) <= Len(window[w].queue)
        BY <2>1, Shows
    <2> HIDE DEF v
    <2>4. ViewGood(v)
        <3>1. v.queue \in Seq(Frame) /\ window[w].queue \in Seq(Frame)
            BY <2>1, <2>3 DEF View
        <3> QED
            BY <2>1, <2>3, <3>1, SessionAssumption DEF ViewGood
    <2>5. FramesGood(v, Told)
        BY <2>1, <2>3 DEF FramesGood
    <2> QED
        BY <2>2, <2>4, <2>5, OneWindow
<1> QED
    BY <1>2, <1>3, <1>4, <1>5, <1>6, <1>7, BroadcastKeepsWindows
    DEF SessionNext, session, out, LeaseMoves, SelectSequence, UpdateSequence, InsertEvent, SendInput,
        HandleViewerFrame, ValidateLease, Checks, CheckPrivateMode, WriteInput, ServeTerminalRecording

SessionInv == HostGood /\ WindowsGood /\ GapsKnown

LEMMA SessionInvariant == SessionSpec => [](TypeOK /\ SessionInv)
<1>1. SessionInit => SessionInv
    BY InitHost, InitWindows DEF SessionInv
<1>2. SessionInv /\ TypeOK' /\ [SessionNext]_session => SessionInv'
    BY NextHost, NextWindows DEF SessionInv
<1>3. SessionSpec => []TypeOK
    BY SessionImplementsLease, TypeCorrect, PTL
<1> QED
    BY <1>1, <1>2, <1>3, PTL DEF SessionSpec

\* Every reachable state of a session is well typed, no two of its events share a number, and no window
\* queues more than its queue holds (terminal_store.go, terminalStreamHub).
THEOREM SessionTypeCorrect == SessionSpec => []SessionTypeOK
<1>1. TypeOK /\ SessionInv /\ InputInv => SessionTypeOK
    <2> SUFFICES ASSUME TypeOK, SessionInv, InputInv PROVE SessionTypeOK
        OBVIOUS
    <2>1. stored.last \in Nat /\ stored.paused \in BOOLEAN /\ \A e, f \in stored.events : e.seq = f.seq => e = f
        BY DEF SessionInv, HostGood, RecordGood
    <2>2. \A t \in Thread : log[t].at \in {"none", "select", "update", "insert"}
        BY DEF SessionInv, HostGood, Log
    <2>3. pump.at \in {"idle", "read", "numbered", "append", "tell"} /\ pump.chunk \in 0..play.chunks
        BY Plays DEF SessionInv, HostGood, Pump
    <2>4. \A w \in Window : /\ window[w].queue \in Seq(Frame) /\ Len(window[w].queue) <= QueueMax
                            /\ window[w].shown \in Seq(Frame)
        BY DEF SessionInv, WindowsGood, ViewGood, View
    <2>5. \A t \in Thread : input[t].at \in {"none", "sent", "forwarded", "valid", "typing"}
        BY DEF InputInv, Carried
    <2> QED
        BY <2>1, <2>2, <2>3, <2>4, <2>5 DEF SessionTypeOK, SessionInv, HostGood
<1> QED
    BY <1>1, SessionInvariant, InputInvariant, PTL

\* A window learns of output it missed: two live frames with consecutive numbers carry consecutive
\* chunks, for any queue, any number of windows and chunks, and whenever a window joined
\* (terminalFramedWriter, terminalStreamHub.push, replayStreamAttachHistory).
THEOREM GapsAreNeverSilent == SessionSpec => []NoSilentGap
<1>1. SessionInv => NoSilentGap
    <2> SUFFICES ASSUME SessionInv, NEW w \in Window
                 PROVE  LET got == window[w].shown \o window[w].queue
                        IN  \A i \in 1..(Len(got) - 1) :
                               got[i].live /\ got[i + 1].n = got[i].n + 1 => got[i + 1].chunk = got[i].chunk + 1
        BY DEF NoSilentGap
    <2>1. Given(Got(window[w]), window[w].frames, window[w].at = "live", Told)
        BY DEF SessionInv, GapsKnown, FramesGood
    <2> QED
        BY <2>1 DEF Given, Got
<1> QED
    BY <1>1, SessionInvariant, PTL
=============================================================================
