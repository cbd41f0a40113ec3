----------------------------- MODULE CircleFile -----------------------------
(***************************************************************************)
(* The circle file of one device and the threads that rewrite it.          *)
(*                                                                         *)
(* Handlers, loops and commands read the whole file, change the copy and   *)
(* write the whole copy back.  updateCircle does so under a lock that the  *)
(* threads of one process share; a process is the Core, or a command such  *)
(* as `share circle revoke` beside it.  The file of a device that joins is *)
(* written without the lock, after a check that it does not belong to the  *)
(* circle yet.  A write is a rename, so it happens or not.                 *)
(***************************************************************************)
EXTENDS Naturals

CONSTANTS
    Process,
    Updating,  \* threads that run updateCircle
    Joining,   \* threads that run applyPairingWelcome
    Home,      \* Home[t]: the process thread t runs in
    None

Thread == Updating \cup Joining

ASSUME HomeAssumption == Home \in [Thread -> Process]
ASSUME KindAssumption == Updating \cap Joining = {} /\ None \notin Thread

VARIABLES
    exists,  \* this device has the circle's file and is a member in it
    file,    \* the threads whose change the file records
    holder,  \* holder[p]: the thread that holds the lock of process p
    pc,      \* where each thread is
    copy     \* the copy each thread loaded

vars == <<exists, file, holder, pc, copy>>

TypeOK ==
    /\ exists \in BOOLEAN /\ file \in SUBSET Thread
    /\ holder \in [Process -> Updating \cup {None}]
    /\ pc \in [Thread -> {"idle", "locked", "loaded", "checked", "done"}]
    /\ copy \in [Thread -> SUBSET Thread]

\* The creator's device starts with the file createCircle wrote; a joiner's without.
Init ==
    /\ exists \in BOOLEAN /\ file = {}
    /\ holder = [p \in Process |-> None]
    /\ pc = [t \in Thread |-> "idle"]
    /\ copy = [t \in Thread |-> {}]

Unlock(t) == holder' = [holder EXCEPT ![Home[t]] = None] /\ pc' = [pc EXCEPT ![t] = "done"]

LockBusy(t) ==
    /\ t \in Updating /\ pc[t] = "idle"
    /\ holder' = [holder EXCEPT ![Home[t]] = t]
    /\ pc' = [pc EXCEPT ![t] = "locked"]
    /\ UNCHANGED <<exists, file, copy>>

Lock(t) ==
    /\ t \in Updating /\ pc[t] = "idle"
    /\ holder[Home[t]] = None
    /\ holder' = [holder EXCEPT ![Home[t]] = t]
    /\ pc' = [pc EXCEPT ![t] = "locked"]
    /\ UNCHANGED <<exists, file, copy>>

\* loadCircle, or its error when there is no file.
Load(t) ==
    /\ pc[t] = "locked"
    /\ IF exists
       THEN copy' = [copy EXCEPT ![t] = file] /\ pc' = [pc EXCEPT ![t] = "loaded"] /\ UNCHANGED holder
       ELSE Unlock(t) /\ UNCHANGED copy
    /\ UNCHANGED <<exists, file>>

Save(t) ==
    /\ pc[t] = "loaded"
    /\ file' = copy[t] \cup {t}
    /\ Unlock(t)
    /\ UNCHANGED <<exists, copy>>

RefuseKeepingLock(t) ==
    /\ pc[t] = "loaded"
    /\ pc' = [pc EXCEPT ![t] = "done"]
    /\ UNCHANGED <<exists, file, holder, copy>>

\* The change is refused, or the write fails.
Refuse(t) ==
    /\ pc[t] = "loaded"
    /\ Unlock(t)
    /\ UNCHANGED <<exists, file, copy>>

\* A welcome is for a circle this device does not belong to yet...
CheckNotMember(t) ==
    /\ t \in Joining /\ pc[t] = "idle"
    /\ pc' = [pc EXCEPT ![t] = IF exists THEN "done" ELSE "checked"]
    /\ UNCHANGED <<exists, file, holder, copy>>

\* ...and is then written as it came.
PersistJoinedCircle(t) ==
    /\ pc[t] = "checked"
    /\ exists' = TRUE /\ file' = {t}
    /\ pc' = [pc EXCEPT ![t] = "done"]
    /\ UNCHANGED <<holder, copy>>

\* A process ends and takes its threads and its lock along.
Exit(p) ==
    /\ pc' = [t \in Thread |-> IF Home[t] = p THEN "done" ELSE pc[t]]
    /\ holder' = [holder EXCEPT ![p] = None]
    /\ UNCHANGED <<exists, file, copy>>

Step(t) == Lock(t) \/ Load(t) \/ Save(t) \/ Refuse(t) \/ CheckNotMember(t) \/ PersistJoinedCircle(t)

Next == (\E t \in Thread : Step(t)) \/ (\E p \in Process : Exit(p))

Spec == Init /\ [][Next]_vars

-----------------------------------------------------------------------------
(* Properties *)

\* With one process, and one thread that joins, every update takes effect in one step on the
\* latest copy, as updateCircle's callers assume.
Atomic == INSTANCE AtomicCircle WITH Change <- Thread
ImplementsAtomicCircle == Atomic!Spec
=============================================================================
