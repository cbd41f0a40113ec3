--------------------------- MODULE InvitesProofs ---------------------------
(***************************************************************************)
(* The circle file and the invites.  With one process and one joining      *)
(* thread, for any number of updating threads, the file behaves as         *)
(* AtomicCircle says.  With any number of Cores that follow one another,   *)
(* requests, codes and devices, and at most one thread that joins, updates *)
(* of it stay atomic, and a code admits one request unless its file        *)
(* outlived its use.                                                       *)
(***************************************************************************)
EXTENDS Invites, TLAPS

-----------------------------------------------------------------------------
(* The circle file by itself: one process.                                  *)

OneProcess == \A t, u \in Thread : Home[t] = Home[u]
OneJoiner  == \A t, u \in Joining : t = u

\* A thread past Lock holds the lock of its process; a loaded copy is still the file; and a
\* thread about to write the joined file still finds none.
HoldersOnly == \A t \in Thread : pc[t] \in {"locked", "loaded"} => t \in Updating /\ holder[Home[t]] = t
CopyCurrent == \A t \in Thread : pc[t] = "loaded" => exists /\ copy[t] = file
StillAbsent == \A t \in Thread : pc[t] = "checked" => t \in Joining /\ ~exists

IInv == TypeOK /\ HoldersOnly /\ CopyCurrent /\ StillAbsent

LEMMA InitInvariant == Init => IInv
BY DEF Init, IInv, TypeOK, HoldersOnly, CopyCurrent, StillAbsent

LEMMA NextInvariant == ASSUME OneProcess, OneJoiner PROVE IInv /\ [Next]_vars => IInv'
<1> SUFFICES ASSUME IInv, [Next]_vars PROVE IInv'
    OBVIOUS
<1> USE HomeAssumption, KindAssumption DEF Thread, IInv, TypeOK
<1>1. ASSUME NEW t \in Thread, Lock(t) PROVE IInv'
    <2>1. TypeOK'
        BY <1>1 DEF Lock
    <2>2. HoldersOnly'
        BY <1>1 DEF Lock, HoldersOnly, OneProcess
    <2> QED
        BY <1>1, <2>1, <2>2 DEF Lock, CopyCurrent, StillAbsent
<1>2. ASSUME NEW t \in Thread, Load(t) PROVE IInv'
    <2>1. t \in Updating /\ holder[Home[t]] = t
        BY <1>2 DEF Load, HoldersOnly
    <2>2. TypeOK'
        BY <1>2 DEF Load, Unlock
    <2>3. HoldersOnly'
        BY <1>2, <2>1 DEF Load, Unlock, HoldersOnly, OneProcess
    <2>4. CopyCurrent'
        BY <1>2 DEF Load, Unlock, CopyCurrent
    <2>5. StillAbsent'
        BY <1>2 DEF Load, Unlock, StillAbsent
    <2> QED
        BY <2>2, <2>3, <2>4, <2>5
<1>3. ASSUME NEW t \in Thread, Save(t) PROVE IInv'
    <2>1. t \in Updating /\ holder[Home[t]] = t /\ exists
        BY <1>3 DEF Save, HoldersOnly, CopyCurrent
    <2>2. \A u \in Thread : pc[u] = "loaded" => u = t
        BY <1>3, <2>1 DEF Save, HoldersOnly, OneProcess
    <2>3. TypeOK'
        BY <1>3 DEF Save, Unlock
    <2>4. HoldersOnly'
        BY <1>3, <2>1 DEF Save, Unlock, HoldersOnly, OneProcess
    <2>5. CopyCurrent'
        BY <1>3, <2>2 DEF Save, Unlock, CopyCurrent
    <2>6. StillAbsent'
        BY <1>3 DEF Save, Unlock, StillAbsent
    <2> QED
        BY <2>3, <2>4, <2>5, <2>6
<1>4. ASSUME NEW t \in Thread, Refuse(t) PROVE IInv'
    <2>1. TypeOK'
        BY <1>4 DEF Refuse, Unlock
    <2>2. HoldersOnly'
        BY <1>4 DEF Refuse, Unlock, HoldersOnly, OneProcess
    <2> QED
        BY <1>4, <2>1, <2>2 DEF Refuse, Unlock, CopyCurrent, StillAbsent
<1>5. ASSUME NEW t \in Thread, CheckNotMember(t) PROVE IInv'
    BY <1>5 DEF CheckNotMember, HoldersOnly, CopyCurrent, StillAbsent
<1>6. ASSUME NEW t \in Thread, PersistJoinedCircle(t) PROVE IInv'
    <2>1. t \in Joining /\ ~exists
        BY <1>6 DEF PersistJoinedCircle, StillAbsent
    <2>2. \A u \in Thread : pc[u] # "loaded" /\ (pc[u] = "checked" => u = t)
        BY <2>1 DEF CopyCurrent, StillAbsent, OneJoiner
    <2> QED
        BY <1>6, <2>1, <2>2 DEF PersistJoinedCircle, HoldersOnly, CopyCurrent, StillAbsent
<1>7. ASSUME NEW p \in Process, Exit(p) PROVE IInv'
    BY <1>7 DEF Exit, HoldersOnly, CopyCurrent, StillAbsent
<1>8. CASE UNCHANGED vars
    BY <1>8 DEF vars, HoldersOnly, CopyCurrent, StillAbsent
<1> QED
    BY <1>1, <1>2, <1>3, <1>4, <1>5, <1>6, <1>7, <1>8 DEF Next, Step

\* Every step of the threads is one change to the latest copy, or none.
LEMMA NextAtomic ==
    ASSUME IInv, OneProcess, OneJoiner, [Next]_vars
    PROVE  [Atomic!Next]_<<exists, file>>
<1> USE DEF IInv, Atomic!Next, Atomic!Record, Atomic!Receive
<1>1. ASSUME NEW t \in Thread, Save(t) PROVE Atomic!Next
    BY <1>1 DEF Save, CopyCurrent
<1>2. ASSUME NEW t \in Thread, PersistJoinedCircle(t) PROVE Atomic!Next
    BY <1>2 DEF PersistJoinedCircle, StillAbsent
<1>3. ASSUME NEW t \in Thread, Lock(t) \/ Load(t) \/ Refuse(t) \/ CheckNotMember(t)
      PROVE  UNCHANGED <<exists, file>>
    BY <1>3 DEF Lock, Load, Refuse, CheckNotMember
<1>4. ASSUME NEW p \in Process, Exit(p) PROVE UNCHANGED <<exists, file>>
    BY <1>4 DEF Exit
<1> QED
    BY <1>1, <1>2, <1>3, <1>4 DEF Next, Step, vars

\* Threads of one process, at most one of which joins the device to the circle, never lose a
\* change another has saved: the file refines the atomic record (updateCircle, saveCircle).
THEOREM UpdatesAreAtomic ==
    ASSUME OneProcess, OneJoiner
    PROVE  Spec => ImplementsAtomicCircle
<1>1. Init => Atomic!Init
    BY DEF Init, Atomic!Init
<1>2. IInv /\ [Next]_vars => IInv'
    BY NextInvariant
<1>3. IInv /\ [Next]_vars => [Atomic!Next]_<<exists, file>>
    BY NextAtomic
<1> QED
    BY <1>1, <1>2, <1>3, InitInvariant, PTL DEF Spec, ImplementsAtomicCircle, Atomic!Spec

-----------------------------------------------------------------------------
(* The circle file under Cores that follow one another.  Only threads of   *)
(* the Core that runs are on their way, so the lock of one process is      *)
(* enough.                                                                 *)

Running == \A t \in Thread : pc[t] \in {"locked", "loaded", "checked"} => up = Home[t]
NoRecord == ~exists => file = {}

FileInv == TypeOK /\ HoldersOnly /\ CopyCurrent /\ StillAbsent /\ Running /\ NoRecord

(* The invites. *)

\* Past LockUse a request holds inviteUse, in the Core that runs.
UseHeld == /\ \A t \in Redeeming : stage[t] \in {"reading", "admitting", "admitted"} => user = t
           /\ \A t \in Redeeming : stage[t] \in {"sent", "reading", "admitting", "admitted"} => up = Home[t]

\* A request that was admitted has used its code up, is about to, or left its file behind.
Used == \A t \in Redeeming :
            t \in file => stage[t] = "admitted" \/ invite[Asks[t]] = "gone" \/ Asks[t] \in kept

\* A request that is being admitted is the first, or its code had been left behind.
First == \A t, u \in Redeeming :
            t # u /\ Asks[t] = Asks[u] /\ t \in file /\ stage[u] = "admitting" => Asks[t] \in kept

\* A welcome is sent for an admission that was saved.
Answered == \A t \in Redeeming : stage[t] \in {"admitted", "answered"} => t \in file

IInvites == InviteTypeOK /\ FileInv /\ UseHeld /\ Used /\ First /\ Answered /\ InvitesSound

-----------------------------------------------------------------------------
(* Steps on the circle file *)

\* A step of a thread of the running Core.
LEMMA StepKeepsFile ==
    ASSUME FileInv, OneJoiner, NEW t \in Thread, Step(t), up = Home[t], up' = up
    PROVE  FileInv'
<1> USE HomeAssumption, KindAssumption DEF Thread, FileInv, TypeOK
<1>1. CASE Lock(t)
    BY <1>1 DEF Lock, HoldersOnly, CopyCurrent, StillAbsent, Running, NoRecord
<1>2. CASE Load(t)
    <2>1. t \in Updating /\ holder[Home[t]] = t
        BY <1>2 DEF Load, HoldersOnly
    <2>2. \A u \in Thread : u # t => pc[u] \notin {"locked", "loaded"}
        BY <2>1, up = Home[t] DEF HoldersOnly, Running
    <2>3. TypeOK' /\ Running' /\ NoRecord'
        BY <1>2 DEF Load, Unlock, Running, NoRecord
    <2>4. HoldersOnly' /\ CopyCurrent'
        BY <1>2, <2>1, <2>2 DEF Load, Unlock, HoldersOnly, CopyCurrent
    <2>5. StillAbsent'
        BY <1>2 DEF Load, Unlock, StillAbsent
    <2> QED
        BY <2>3, <2>4, <2>5
<1>3. CASE Save(t)
    <2>1. t \in Updating /\ holder[Home[t]] = t /\ exists
        BY <1>3 DEF Save, HoldersOnly, CopyCurrent
    <2>2. \A u \in Thread : u # t => pc[u] \notin {"locked", "loaded"}
        BY <2>1, up = Home[t] DEF HoldersOnly, Running
    <2>3. TypeOK' /\ Running' /\ NoRecord'
        BY <1>3, <2>1 DEF Save, Unlock, Running, NoRecord
    <2>4. HoldersOnly' /\ CopyCurrent'
        BY <1>3, <2>2 DEF Save, Unlock, HoldersOnly, CopyCurrent
    <2>5. StillAbsent'
        BY <1>3 DEF Save, Unlock, StillAbsent
    <2> QED
        BY <2>3, <2>4, <2>5
<1>4. CASE Refuse(t)
    <2>1. \A u \in Thread : u # t => pc[u] \notin {"locked", "loaded"}
        BY <1>4, up = Home[t] DEF Refuse, HoldersOnly, Running
    <2>2. TypeOK' /\ Running' /\ NoRecord' /\ StillAbsent'
        BY <1>4 DEF Refuse, Unlock, Running, NoRecord, StillAbsent
    <2>3. HoldersOnly' /\ CopyCurrent'
        BY <1>4, <2>1 DEF Refuse, Unlock, HoldersOnly, CopyCurrent
    <2> QED
        BY <2>2, <2>3
<1>5. CASE CheckNotMember(t)
    BY <1>5, up = Home[t] DEF CheckNotMember, HoldersOnly, CopyCurrent, StillAbsent, Running, NoRecord
<1>6. CASE PersistJoinedCircle(t)
    <2>1. t \in Joining /\ ~exists
        BY <1>6 DEF PersistJoinedCircle, StillAbsent
    <2>2. \A u \in Thread : pc[u] # "loaded" /\ (pc[u] = "checked" => u = t)
        BY <2>1 DEF CopyCurrent, StillAbsent, OneJoiner
    <2> QED
        BY <1>6, <2>1, <2>2 DEF PersistJoinedCircle, HoldersOnly, CopyCurrent, StillAbsent, Running, NoRecord
<1> QED
    BY <1>1, <1>2, <1>3, <1>4, <1>5, <1>6 DEF Step

\* It makes one change to the latest copy, or none, and takes nothing out of the file.
LEMMA StepIsAtomic ==
    ASSUME FileInv, NEW t \in Thread, Step(t)
    PROVE  /\ [Atomic!Next]_<<exists, file>>
           /\ file \subseteq file' /\ file' \subseteq file \cup {t}
<1> USE DEF FileInv, Atomic!Next, Atomic!Record, Atomic!Receive
<1>1. CASE Save(t)
    BY <1>1 DEF Save, CopyCurrent
<1>2. CASE PersistJoinedCircle(t)
    BY <1>2 DEF PersistJoinedCircle, StillAbsent, NoRecord
<1>3. CASE Lock(t) \/ Load(t) \/ Refuse(t) \/ CheckNotMember(t)
    BY <1>3 DEF Lock, Load, Refuse, CheckNotMember
<1> QED
    BY <1>1, <1>2, <1>3 DEF Step

\* A thread that is turned down only ends.
LEMMA OverKeepsFile ==
    ASSUME FileInv, NEW t \in Thread, pc' = [pc EXCEPT ![t] = "done"], UNCHANGED <<exists, file, holder, copy, up>>
    PROVE  FileInv'
BY HomeAssumption, KindAssumption DEF Thread, FileInv, TypeOK, HoldersOnly, CopyCurrent, StillAbsent, Running, NoRecord

\* A Core that stops leaves no thread on its way.
LEMMA ExitKeepsFile == ASSUME FileInv, up \in Process, Exit(up) PROVE FileInv'
BY HomeAssumption, KindAssumption
   DEF Exit, Thread, FileInv, TypeOK, HoldersOnly, CopyCurrent, StillAbsent, Running, NoRecord

LEMMA StutterKeepsFile == ASSUME FileInv, UNCHANGED vars, up' = up PROVE FileInv'
BY DEF vars, Thread, FileInv, TypeOK, HoldersOnly, CopyCurrent, StillAbsent, Running, NoRecord

-----------------------------------------------------------------------------
(* Steps on the invites *)

LEMMA InitKeepsInvites == InviteInit => IInvites
BY RequestAssumption, CoreAssumption, HomeAssumption, KindAssumption
   DEF InviteInit, Init, IInvites, InviteTypeOK, FileInv, TypeOK, Thread, HoldersOnly, CopyCurrent, StillAbsent,
       Running, NoRecord, UseHeld, Used, First, Answered, InvitesSound

\* What the steps that leave the circle file's contents alone owe.
LEMMA CodesKeep ==
    ASSUME IInvites, NEW c \in Code, CreateInvite(c) \/ Expire(c)
    PROVE  IInvites'
<1> USE RequestAssumption DEF IInvites, InviteTypeOK
<1>1. FileInv' /\ TypeOK'
    BY StutterKeepsFile DEF CreateInvite, Expire, FileInv
<1>2. UNCHANGED <<file, up, user, stage, joined, kept>>
    BY DEF CreateInvite, Expire, vars
<1>3. InviteTypeOK'
    BY <1>1, <1>2 DEF CreateInvite, Expire
<1>4. \A d \in Code : invite[d] = "gone" => invite'[d] = "gone"
    BY DEF CreateInvite, Expire
<1>5. UseHeld' /\ First' /\ Answered' /\ InvitesSound'
    BY <1>2 DEF UseHeld, First, Answered, InvitesSound
<1>6. Used'
    BY <1>2, <1>4 DEF Used
<1> QED
    BY <1>1, <1>3, <1>5, <1>6

LEMMA RegisterKeeps ==
    ASSUME IInvites, NEW t \in Redeeming, RegisterDeviceWithInvite(t)
    PROVE  IInvites'
<1> USE RequestAssumption DEF IInvites, InviteTypeOK, RegisterDeviceWithInvite, Over, Moves
<1>1. t \in Thread
    BY DEF Thread
<1>2. FileInv' /\ TypeOK'
    <2>1. CASE Over(t)
        BY <2>1, <1>1, OverKeepsFile DEF FileInv
    <2>2. CASE UNCHANGED pc
        BY <2>2, StutterKeepsFile DEF FileInv, vars
    <2> QED
        BY <2>1, <2>2
<1>3. InviteTypeOK'
    BY <1>2
<1>4. UseHeld' /\ Used' /\ First' /\ Answered' /\ InvitesSound'
    BY DEF UseHeld, Used, First, Answered, InvitesSound
<1> QED
    BY <1>2, <1>3, <1>4

LEMMA AnswerKeeps ==
    ASSUME IInvites, NEW t \in Redeeming, Answer(t)
    PROVE  IInvites'
<1> USE RequestAssumption DEF IInvites, InviteTypeOK, Answer, ApplyPairingWelcome, LoseReply, Moves
<1>1. FileInv' /\ TypeOK'
    BY StutterKeepsFile DEF FileInv
<1>2. UNCHANGED <<file, up, user, kept, invite>> /\ t \in file
    BY DEF vars, Answered
<1>3. InviteTypeOK'
    BY <1>1
<1>4. UseHeld' /\ Used' /\ First' /\ Answered'
    BY <1>2 DEF UseHeld, Used, First, Answered
<1>5. InvitesSound'
    BY <1>2, KindAssumption DEF InvitesSound, Thread
<1> QED
    BY <1>1, <1>3, <1>4, <1>5

LEMMA LockKeeps ==
    ASSUME IInvites, NEW t \in Redeeming, LockUse(t)
    PROVE  IInvites'
<1> USE RequestAssumption DEF IInvites, InviteTypeOK, LockUse, Moves
<1>1. FileInv' /\ TypeOK'
    BY StutterKeepsFile DEF FileInv
<1>2. UNCHANGED <<file, up, kept, invite, joined>>
    BY DEF vars
<1>3. InviteTypeOK'
    BY <1>1
<1>4. UseHeld'
    BY <1>2, KindAssumption DEF UseHeld, Thread
<1>5. Used' /\ First' /\ Answered' /\ InvitesSound'
    BY <1>2 DEF Used, First, Answered, InvitesSound
<1> QED
    BY <1>1, <1>3, <1>4, <1>5

\* The code is stored, so whoever used it before left its file behind.
LEMMA ReadKeeps ==
    ASSUME IInvites, NEW t \in Redeeming, ReadInvite(t)
    PROVE  IInvites'
<1> USE RequestAssumption DEF IInvites, InviteTypeOK, ReadInvite, Over, Moves
<1>1. t \in Thread /\ user = t
    BY DEF Thread, UseHeld
<1>2. FileInv' /\ TypeOK'
    <2>1. CASE Over(t)
        BY <2>1, <1>1, OverKeepsFile DEF FileInv
    <2>2. CASE UNCHANGED pc
        BY <2>2, StutterKeepsFile DEF FileInv, vars
    <2> QED
        BY <2>1, <2>2
<1>3. InviteTypeOK'
    BY <1>2
<1>4. \A u \in Redeeming : stage[u] \in {"reading", "admitting", "admitted"} => u = t
    BY <1>1 DEF UseHeld
<1>5. UseHeld' /\ Answered' /\ InvitesSound' /\ Used'
    BY <1>4 DEF UseHeld, Used, Answered, InvitesSound
<1>6. First'
    BY <1>4 DEF First, Used
<1> QED
    BY <1>2, <1>3, <1>5, <1>6

LEMMA AdmitKeeps ==
    ASSUME IInvites, OneJoiner, NEW t \in Redeeming, Admit(t)
    PROVE  IInvites'
<1> USE RequestAssumption DEF IInvites, InviteTypeOK
<1>1. t \in Thread /\ user = t /\ up = Home[t] /\ stage[t] = "admitting" /\ up' = up
    BY DEF Thread, UseHeld, Admit
<1>2. Step(t)
    BY DEF Admit, Step
<1>3. FileInv' /\ TypeOK'
    BY <1>1, <1>2, StepKeepsFile DEF FileInv
<1>4. file \subseteq file' /\ file' \subseteq file \cup {t}
    BY <1>1, <1>2, StepIsAtomic
<1>5. \A u \in Redeeming : u # t => stage[u] \notin {"reading", "admitting", "admitted"}
    BY <1>1 DEF UseHeld
<1>6. UNCHANGED <<up, invite, kept, joined>>
    BY DEF Admit
<1>7. CASE Save(t) /\ Moves(t, "admitted") /\ UNCHANGED user
    <2>1. t \in file' /\ stage' = [stage EXCEPT ![t] = "admitted"]
        BY <1>7 DEF Save, Moves
    <2>2. InviteTypeOK'
        BY <1>3, <1>7, <2>1 DEF Admit
    <2>3. UseHeld' /\ Used' /\ First' /\ Answered'
        BY <1>1, <1>4, <1>5, <1>6, <1>7, <2>1 DEF UseHeld, Used, First, Answered
    <2>4. InvitesSound'
        BY <1>1, <1>4, <1>6 DEF InvitesSound, First
    <2> QED
        BY <1>3, <2>2, <2>3, <2>4
<1>8. CASE UNCHANGED file /\ ((Moves(t, "over") /\ user' = None) \/ UNCHANGED <<stage, user>>)
    <2>1. InviteTypeOK'
        BY <1>3, <1>8 DEF Admit, Moves
    <2>2. UseHeld' /\ Used' /\ First' /\ Answered'
        BY <1>5, <1>6, <1>8, <1>1 DEF UseHeld, Used, First, Answered, Moves
    <2>3. InvitesSound'
        BY <1>6, <1>8 DEF InvitesSound
    <2> QED
        BY <1>3, <2>1, <2>2, <2>3
<1> QED
    BY <1>7, <1>8 DEF Admit, Lock, Load, Refuse

LEMMA RemoveKeeps ==
    ASSUME IInvites, NEW t \in Redeeming, RemoveInvite(t)
    PROVE  IInvites'
<1> USE RequestAssumption DEF IInvites, InviteTypeOK, RemoveInvite, Moves
<1>1. FileInv' /\ TypeOK'
    BY StutterKeepsFile DEF FileInv
<1>2. UNCHANGED <<file, up, joined>> /\ kept \subseteq kept'
    BY DEF vars
<1>3. InviteTypeOK'
    BY <1>1
<1>4. \A u \in Redeeming : u # t => stage[u] \notin {"reading", "admitting", "admitted"}
    BY DEF UseHeld
<1>5. UseHeld' /\ Answered'
    BY <1>2, <1>4 DEF UseHeld, Answered
<1>6. Used'
    BY <1>2, <1>4 DEF Used
<1>7. First' /\ InvitesSound'
    BY <1>2, <1>4 DEF First, InvitesSound
<1> QED
    BY <1>1, <1>3, <1>5, <1>6, <1>7

\* The other updates put no request into the file, and take none out.
LEMMA UpdateKeeps ==
    ASSUME IInvites, OneJoiner, NEW t \in Thread, Update(t)
    PROVE  IInvites'
<1> USE RequestAssumption DEF IInvites, InviteTypeOK
<1>1. t \notin Redeeming /\ up = Home[t] /\ Step(t) /\ UNCHANGED invites
    BY DEF Update
<1>2. UNCHANGED <<up, ended, invite, late, user, stage, dropped, joined, kept>>
    BY <1>1 DEF invites
<1>3. FileInv' /\ TypeOK'
    BY <1>1, <1>2, StepKeepsFile DEF FileInv
<1>4. file \subseteq file' /\ file' \subseteq file \cup {t}
    BY <1>1, StepIsAtomic
<1>5. InviteTypeOK'
    BY <1>2, <1>3
<1>6. UseHeld' /\ Used' /\ First' /\ Answered'
    BY <1>1, <1>2, <1>4 DEF UseHeld, Used, First, Answered
<1>7. InvitesSound'
    BY <1>1, <1>2, <1>4 DEF InvitesSound
<1> QED
    BY <1>3, <1>5, <1>6, <1>7

LEMMA DropKeeps ==
    ASSUME IInvites, NEW t \in Rotating, DropCircleInvites(t)
    PROVE  IInvites'
<1> USE RequestAssumption DEF IInvites, InviteTypeOK
<1>1. UNCHANGED <<vars, up, ended, late, user, stage, joined, kept>> /\ file' = file
    BY DEF DropCircleInvites, vars
<1>2. FileInv' /\ TypeOK'
    BY <1>1, StutterKeepsFile DEF FileInv
<1>3. /\ invite' \in [Code -> {"none", "stored", "gone"}] /\ dropped' \in SUBSET Rotating
      /\ \A c \in Code : invite[c] = "gone" => invite'[c] = "gone"
    BY DEF DropCircleInvites
<1>4. InviteTypeOK'
    BY <1>1, <1>2, <1>3
<1>5. UseHeld' /\ First' /\ Answered' /\ InvitesSound'
    BY <1>1 DEF UseHeld, First, Answered, InvitesSound
<1>6. Used'
    BY <1>1, <1>3 DEF Used
<1> QED
    BY <1>2, <1>4, <1>5, <1>6

\* The codes of the requests that were about to remove their file are left behind.
LEMMA StopKeeps == ASSUME IInvites, Stop PROVE IInvites'
<1> USE RequestAssumption DEF IInvites, InviteTypeOK
<1>1. up \in Process /\ Exit(up)
    BY DEF Stop
<1>2. FileInv' /\ TypeOK' /\ file' = file
    BY <1>1, ExitKeepsFile DEF FileInv, Exit
<1>3. /\ UNCHANGED <<invite, late, dropped, joined>> /\ user' = None /\ kept \subseteq kept'
      /\ \A t \in Redeeming : stage[t] = "admitted" => Asks[t] \in kept'
    BY DEF Stop
<1>4. stage' = [t \in Redeeming |-> IF Home[t] = up /\ stage[t] # "answered" THEN "over" ELSE stage[t]]
    BY DEF Stop
<1>5. \A t \in Redeeming : stage'[t] \notin {"sent", "reading", "admitting", "admitted"}
    BY <1>4 DEF UseHeld
<1>6. InviteTypeOK'
    BY <1>2, <1>3, <1>4 DEF Stop
<1>7. UseHeld' /\ Used' /\ First'
    BY <1>2, <1>3, <1>5 DEF UseHeld, Used, First
<1>8. Answered'
    BY <1>2, <1>4, <1>5 DEF Answered
<1>9. InvitesSound'
    BY <1>2, <1>3 DEF InvitesSound
<1> QED
    BY <1>2, <1>6, <1>7, <1>8, <1>9

LEMMA InviteNextInvariant ==
    ASSUME OneJoiner PROVE IInvites /\ [InviteNext]_all => IInvites'
<1> SUFFICES ASSUME IInvites, [InviteNext]_all PROVE IInvites'
    OBVIOUS
<1>1. CASE UNCHANGED all
    <2>1. UNCHANGED <<vars, file, up, ended, invite, late, user, stage, dropped, joined, kept>>
        BY <1>1 DEF all, vars, invites
    <2>2. FileInv' /\ TypeOK'
        BY <2>1, StutterKeepsFile DEF IInvites, FileInv
    <2> QED
        BY <2>1, <2>2 DEF IInvites, InviteTypeOK, UseHeld, Used, First, Answered, InvitesSound
<1>2. CASE \E t \in Redeeming : Redeem(t)
    BY <1>2, RegisterKeeps, LockKeeps, ReadKeeps, AdmitKeeps, RemoveKeeps DEF Redeem
<1> QED
    BY <1>1, <1>2, CodesKeep, AnswerKeeps, UpdateKeeps, DropKeeps, StopKeeps DEF InviteNext

-----------------------------------------------------------------------------
(* Theorems *)

\* A code admits one request, unless its file outlived its use, and who has joined was admitted
\* (memberHandleInvite), for any codes, requests and Cores.
THEOREM InvitesStaySound ==
    ASSUME OneJoiner PROVE InviteSpec => []InvitesSound
<1>1. IInvites => InvitesSound
    BY DEF IInvites
<1> QED
    BY <1>1, InitKeepsInvites, InviteNextInvariant, PTL DEF InviteSpec

\* Each step of a Core's threads is one change to the latest copy of the circle file, or none.
LEMMA InviteNextAtomic ==
    ASSUME IInvites, [InviteNext]_all PROVE [Atomic!Next]_<<exists, file>>
<1> USE RequestAssumption DEF IInvites
<1>1. ASSUME NEW t \in Thread, Update(t) PROVE [Atomic!Next]_<<exists, file>>
    BY <1>1, StepIsAtomic DEF Update
<1>2. ASSUME NEW t \in Redeeming, Admit(t) PROVE [Atomic!Next]_<<exists, file>>
    <2>1. Step(t) /\ t \in Thread
        BY <1>2 DEF Admit, Step, Thread
    <2> QED
        BY <2>1, StepIsAtomic
<1>3. ASSUME NEW t \in Redeeming, RegisterDeviceWithInvite(t) \/ LockUse(t) \/ ReadInvite(t) \/ RemoveInvite(t) \/ Answer(t)
      PROVE  UNCHANGED <<exists, file>>
    BY <1>3 DEF RegisterDeviceWithInvite, LockUse, ReadInvite, RemoveInvite, Answer, ApplyPairingWelcome, LoseReply, vars
<1>4. ASSUME NEW c \in Code, CreateInvite(c) \/ Expire(c) PROVE UNCHANGED <<exists, file>>
    BY <1>4 DEF CreateInvite, Expire, vars
<1>5. ASSUME NEW t \in Rotating, DropCircleInvites(t) PROVE UNCHANGED <<exists, file>>
    BY <1>5 DEF DropCircleInvites, vars
<1>6. ASSUME Stop PROVE UNCHANGED <<exists, file>>
    BY <1>6 DEF Stop, Exit
<1>7. ASSUME UNCHANGED all PROVE UNCHANGED <<exists, file>>
    BY <1>7 DEF all, vars
<1> QED
    BY <1>1, <1>2, <1>3, <1>4, <1>5, <1>6, <1>7 DEF InviteNext, Redeem

\* Whatever Cores follow one another on a device, and wherever they stop, no change to the circle
\* file that was saved is lost (updateCircle, saveCircle).
THEOREM UpdatesStayAtomic ==
    ASSUME OneJoiner PROVE InviteSpec => ImplementsAtomicCircle
<1>1. InviteInit => Atomic!Init
    BY DEF InviteInit, Init, Atomic!Init
<1>2. IInvites /\ [InviteNext]_all => [Atomic!Next]_<<exists, file>>
    BY InviteNextAtomic
<1> QED
    BY <1>1, <1>2, InitKeepsInvites, InviteNextInvariant, PTL DEF InviteSpec, ImplementsAtomicCircle, Atomic!Spec

=============================================================================
