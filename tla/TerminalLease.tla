--------------------------- MODULE TerminalLease ---------------------------
(***************************************************************************)
(* Who may type into one shared terminal session: terminal_control.go and  *)
(* the lease rows of terminal_store.go.                                    *)
(*                                                                         *)
(* A control lease is a row (holder, epoch, revoked) of the session's      *)
(* database.  Every change of holder is a compare-and-set on the epoch     *)
(* (grantLeaseCAS): read the epoch, revoke every row, insert the next one. *)
(* The three are separate SQL statements under the mutex of one            *)
(* TerminalStore value, and the program has several such values on the     *)
(* same database: the manager's, used by the dashboard and the peers, a    *)
(* new one for every removal of a circle member (in the Core or in a       *)
(* command), and the session host process's, which serves private mode.    *)
(* A statement is one step here; statements succeed.                       *)
(***************************************************************************)
EXTENDS Naturals, Sequences

CONSTANTS
    Device,     \* the devices of the circle
    Owner,      \* the device that owns the session and hosts it
    Thread,     \* requests handled at the same time
    None,       \* no device
    Setting,    \* the sets of operations whose interplay is examined
    MaxLease    \* bound on the number of lease rows

ManagerOps == {"grant", "release", "revoke", "removeParticipant"}
Operation  == ManagerOps \cup {"removeMember", "private", "stop"}

ASSUME OwnerAssumption   == Owner \in Device /\ None \notin Device
ASSUME SettingAssumption == Setting \subseteq SUBSET Operation
ASSUME BoundAssumption   == MaxLease \in Nat

VARIABLES
    enabled,        \* the operations in play; never changes
    lease,          \* the rows of terminal_control_leases, in insertion order
    privateMode,    \* terminal_sessions.private_mode
    op,             \* what each request is doing
    gone            \* gone[d]: the rows there were when d's last removal looked

vars == <<enabled, lease, privateMode, op, gone>>

Row == [holder: Device, epoch: Nat \ {0}, revoked: BOOLEAN]

Idle == [at |-> "idle", kind |-> "grant", to |-> Owner, epoch |-> 0,
         seen |-> 0, removing |-> None, mark |-> 0]

Request == [at: {"idle", "asked", "ready", "agreed", "cleared", "entering"},
            kind: Operation, to: Device, epoch: Nat, seen: Nat,
            removing: Device \cup {None}, mark: Nat]

-----------------------------------------------------------------------------
(* The rows.                                                                *)

Active == {i \in DOMAIN lease : ~lease[i].revoked}

\* GetActiveLease: an unrevoked row of the highest epoch, whichever of several;
\* 0 when there is none.
Current == IF Active = {} THEN {0}
           ELSE {i \in Active : \A k \in Active : lease[k].epoch <= lease[i].epoch}

EpochOf(i) == IF i = 0 THEN 0 ELSE lease[i].epoch

\* As AllRevoked, with the UPDATE failing and its error dropped.
NoneRevoked == lease

AllRevoked == [i \in DOMAIN lease |-> [lease[i] EXCEPT !.revoked = TRUE]]

-----------------------------------------------------------------------------
(* The mutexes.  A request that is between its first and its last statement *)
(* holds the mutex of its store.                                            *)

StoreOf(t) == IF op[t].kind \in ManagerOps THEN "manager"
              ELSE IF op[t].kind = "private" THEN "host" ELSE t

Holds(t) == op[t].at \in {"agreed", "cleared", "entering"}

\* As Unlocked, without the mutex.
NeverLocked(t) == TRUE

Unlocked(t) == \A u \in Thread \ {t} : Holds(u) => StoreOf(u) # StoreOf(t)

Begins(t, kind) == op[t].at = "idle" /\ kind \in enabled

\* Bounds the rows: no request that may insert one starts beyond MaxLease.
Room == Len(lease) < MaxLease

Moves(t, request) == op' = [op EXCEPT ![t] = request]

\* The request is over; a removal leaves a note of the rows it had to deal with.
Ends(t) ==
    /\ Moves(t, Idle)
    /\ gone' = IF op[t].removing = None THEN gone
               ELSE [gone EXCEPT ![op[t].removing] = op[t].mark]

-----------------------------------------------------------------------------
(* What comes before the compare-and-set.                                   *)

\* The owner's dashboard asks for d to hold control, with the epoch it shows.
AskGrant(t, d) ==
    /\ Begins(t, "grant") /\ Room
    /\ \E i \in Current :
          Moves(t, [Idle EXCEPT !.at = "asked", !.to = d, !.epoch = EpochOf(i)])
    /\ UNCHANGED <<enabled, lease, privateMode, gone>>

\* GrantControl: refused in private mode.
GrantControl(t) ==
    /\ op[t].at = "asked" /\ op[t].kind = "grant"
    /\ Moves(t, IF privateMode THEN Idle ELSE [op[t] EXCEPT !.at = "ready"])
    /\ UNCHANGED <<enabled, lease, privateMode, gone>>

\* A holder's dashboard asks to give back the lease it shows.
AskRelease(t) ==
    /\ Begins(t, "release") /\ Room
    /\ \E i \in Current \ {0} :
          Moves(t, [Idle EXCEPT !.at = "asked", !.kind = "release", !.seen = i])
    /\ UNCHANGED <<enabled, lease, privateMode, gone>>

\* ReleaseControl, releaseLeaseCAS: only the lease that is current.
ReleaseControl(t) ==
    /\ op[t].at = "asked" /\ op[t].kind = "release"
    /\ \E i \in Current :
          Moves(t, IF i # op[t].seen THEN Idle
                   ELSE [op[t] EXCEPT !.at = "ready", !.epoch = lease[i].epoch])
    /\ UNCHANGED <<enabled, lease, privateMode, gone>>

\* RevokeControl: the owner takes control back, from d if it names one.
RevokeControl(t, d) ==
    /\ Begins(t, "revoke") /\ Room
    /\ \E i \in Current :
          /\ i # 0 /\ d # None => lease[i].holder = d
          /\ Moves(t, [Idle EXCEPT !.at = "ready", !.kind = "revoke", !.epoch = EpochOf(i)])
    /\ UNCHANGED <<enabled, lease, privateMode, gone>>

\* As RemoveAccess, taking the share and the streams but not the lease.
RemoveShareOnly(t, d, kind) ==
    /\ Begins(t, kind)
    /\ gone' = [gone EXCEPT ![d] = Len(lease)]
    /\ UNCHANGED <<enabled, lease, privateMode, op>>

\* revokeTerminalSessionAccess: a lease the removed device holds goes back to the owner.
RemoveAccess(t, d, kind) ==
    /\ Begins(t, kind)
    /\ \E i \in Current :
          IF i # 0 /\ lease[i].holder = d
          THEN /\ Room
               /\ Moves(t, [Idle EXCEPT !.at = "ready", !.kind = kind, !.epoch = EpochOf(i),
                                        !.removing = d, !.mark = Len(lease)])
               /\ UNCHANGED gone
          ELSE /\ gone' = [gone EXCEPT ![d] = Len(lease)]
               /\ UNCHANGED op
    /\ UNCHANGED <<enabled, lease, privateMode>>

-----------------------------------------------------------------------------
(* grantLeaseCAS.                                                           *)

\* Locks the store and reads the epoch.
Compare(t) ==
    /\ op[t].at = "ready"
    /\ Unlocked(t)
    /\ \E i \in Current :
          IF EpochOf(i) = op[t].epoch
          THEN Moves(t, [op[t] EXCEPT !.at = "agreed"]) /\ UNCHANGED gone
          ELSE Ends(t)
    /\ UNCHANGED <<enabled, lease, privateMode>>

RevokeRows(t) ==
    /\ op[t].at = "agreed"
    /\ lease' = AllRevoked
    /\ Moves(t, [op[t] EXCEPT !.at = "cleared"])
    /\ UNCHANGED <<enabled, privateMode, gone>>

\* As InsertRow, with the epoch that was compared instead of the next one.
InsertSameEpoch(t) ==
    /\ op[t].at = "cleared"
    /\ lease' = Append(lease, [holder |-> op[t].to, epoch |-> op[t].epoch, revoked |-> FALSE])
    /\ Ends(t)
    /\ UNCHANGED <<enabled, privateMode>>

InsertRow(t) ==
    /\ op[t].at = "cleared"
    /\ lease' = Append(lease, [holder |-> op[t].to, epoch |-> op[t].epoch + 1,
                               revoked |-> FALSE])
    /\ Ends(t)
    /\ UNCHANGED <<enabled, privateMode>>

-----------------------------------------------------------------------------
(* Private mode, in the session host, and processes that stop.              *)

EnterPrivateMode(t) ==
    /\ Begins(t, "private")
    /\ \A u \in Thread : op[u].at # "entering"
    /\ privateMode' = TRUE
    /\ Moves(t, [Idle EXCEPT !.at = "entering", !.kind = "private"])
    /\ UNCHANGED <<enabled, lease, gone>>

RevokeForPrivateMode(t) ==
    /\ op[t].at = "entering"
    /\ lease' = AllRevoked
    /\ Moves(t, Idle)
    /\ UNCHANGED <<enabled, privateMode, gone>>

LeavePrivateMode ==
    /\ privateMode
    /\ \A u \in Thread : op[u].at # "entering"
    /\ privateMode' = FALSE
    /\ UNCHANGED <<enabled, lease, op, gone>>

\* The process of a store stops: what it was doing is left where it was.
Stop(t) ==
    /\ "stop" \in enabled
    /\ op[t].at # "idle"
    /\ op' = [u \in Thread |-> IF op[u].at # "idle" /\ StoreOf(u) = StoreOf(t)
                               THEN Idle ELSE op[u]]
    /\ UNCHANGED <<enabled, lease, privateMode, gone>>

-----------------------------------------------------------------------------
\* CreateSession gives the owner the first lease.
Init ==
    /\ enabled \in Setting
    /\ lease = << [holder |-> Owner, epoch |-> 1, revoked |-> FALSE] >>
    /\ privateMode = FALSE
    /\ op = [t \in Thread |-> Idle]
    /\ gone = [d \in Device |-> 0]

Next ==
    \/ \E t \in Thread :
          \/ \E d \in Device : AskGrant(t, d)
          \/ GrantControl(t)
          \/ AskRelease(t)
          \/ ReleaseControl(t)
          \/ \E d \in Device \cup {None} : RevokeControl(t, d)
          \/ \E d \in Device \ {Owner} :
                \/ RemoveAccess(t, d, "removeParticipant")
                \/ RemoveAccess(t, d, "removeMember")
          \/ Compare(t)
          \/ RevokeRows(t)
          \/ InsertRow(t)
          \/ EnterPrivateMode(t)
          \/ RevokeForPrivateMode(t)
          \/ Stop(t)
    \/ LeavePrivateMode

Spec == Init /\ [][Next]_vars
-----------------------------------------------------------------------------
(* Properties.                                                              *)

\* Every variable holds a value of its type.
TypeOK ==
    /\ enabled \in Setting
    /\ lease \in Seq(Row)
    /\ privateMode \in BOOLEAN
    /\ op \in [Thread -> Request]
    /\ gone \in [Device -> Nat]

\* At most one device other than the owner holds control, whichever stores the
\* requests go through, and even when one of their processes stops between
\* revoking the rows and inserting the next.
OneViewerControls ==
    \A i, k \in Active : lease[i].holder # Owner /\ lease[k].holder # Owner => i = k

\* The operations that share the manager's store, and so its mutex.
OneStore == enabled \subseteq ManagerOps

\* Through one store, one lease is in force at a time (grantLeaseCAS).
OneActiveLease == OneStore => \A i, k \in Active : i = k

\* Through one store, a later lease has a higher epoch, so that a controller
\* that quotes an older one is rejected.
EpochsRise ==
    OneStore => \A i, k \in DOMAIN lease : i < k => lease[i].epoch < lease[k].epoch

\* Through one store, a removal leaves the device none of the leases there were
\* when it looked, although its compare-and-set may fail and is not retried
\* (revokeTerminalSessionAccess drops the error).
RemovedLosesLease ==
    OneStore => \A d \in Device, i \in DOMAIN lease :
                   i <= gone[d] /\ lease[i].holder = d => lease[i].revoked

\* What the leases of a session keep true, whatever is asked at the same time.
LeasesSound == OneViewerControls /\ OneActiveLease /\ EpochsRise /\ RemovedLosesLease
=============================================================================
