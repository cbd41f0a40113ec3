------------------------------ MODULE Invites ------------------------------
(***************************************************************************)
(* Joining by code: the one-time invites of a member's device.             *)
(*                                                                         *)
(* An invite is a file on the device that issued it.  A device that was    *)
(* given the code asks; the member's Core redeems it under a lock of its   *)
(* own (inviteUse): it reads the file, admits the device in an update of   *)
(* the circle file (CircleFile) and only then removes the invite, whatever *)
(* the removal says.  Beside it other updates run; one that takes a new    *)
(* key drops the circle's invites.  Cores follow one another: when one     *)
(* stops, its requests end wherever they are and the next finds the files. *)
(*                                                                         *)
(* A request that fails the proof of the code changes nothing and is left  *)
(* out, and so is the copy of the invite that the joiner keeps beside its  *)
(* own file.  Invites of version 1, which carry the key, are left out.     *)
(***************************************************************************)
EXTENDS CircleFile

CONSTANTS
    Redeeming,  \* requests to join, each a thread of the Core it reaches
    Rotating,   \* updates that take a new key
    Code,
    Asker,
    By,         \* By[t]: the device that sends request t
    Asks        \* Asks[t]: the code in it

ASSUME RequestAssumption ==
    /\ Redeeming \subseteq Updating /\ Rotating \subseteq Updating \ Redeeming
    /\ By \in [Redeeming -> Asker] /\ Asks \in [Redeeming -> Code]
ASSUME CoreAssumption == None \notin Process

VARIABLES
    up,      \* the Core that runs, or None
    ended,   \* the Cores that have stopped
    invite,  \* invite[c]: "none" before it is issued, "stored", "gone"
    late,    \* the codes that have expired
    user,    \* the request that holds inviteUse, or None
    stage,   \* where each request is
    dropped, \* the rotations that have dropped the invites
    joined,  \* joined[d]: the request whose welcome d has saved, or None
    kept     \* history: the codes whose file outlived their use

invites == <<up, ended, invite, late, user, stage, dropped, joined, kept>>
all == <<vars, invites>>

InviteTypeOK ==
    /\ TypeOK
    /\ up \in Process \cup {None} /\ ended \in SUBSET Process
    /\ invite \in [Code -> {"none", "stored", "gone"}] /\ late \in SUBSET Code
    /\ user \in Redeeming \cup {None}
    /\ stage \in [Redeeming -> {"new", "sent", "reading", "admitting", "admitted", "answered", "over"}]
    /\ dropped \in SUBSET Rotating
    /\ joined \in [Asker -> Redeeming \cup {None}] /\ kept \in SUBSET Code

InviteInit ==
    /\ Init
    /\ up \in Process /\ ended = {}
    /\ invite = [c \in Code |-> "none"] /\ late = {}
    /\ user = None
    /\ stage = [t \in Redeeming |-> "new"]
    /\ dropped = {}
    /\ joined = [d \in Asker |-> None] /\ kept = {}

Moves(t, s) == stage' = [stage EXCEPT ![t] = s]

\* A request that is turned down ends; its thread does no more.
Over(t) == Moves(t, "over") /\ pc' = [pc EXCEPT ![t] = "done"]

-----------------------------------------------------------------------------
(* Codes *)

\* An invite is for a circle this device is in, and never makes one.
CircleForInvite == exists

CreateInvite(c) ==
    /\ invite[c] = "none" /\ CircleForInvite
    /\ invite' = [invite EXCEPT ![c] = "stored"]
    /\ UNCHANGED <<vars, up, ended, late, user, stage, dropped, joined, kept>>

Expire(c) ==
    /\ invite[c] # "none" /\ c \notin late
    /\ late' = late \cup {c}
    /\ UNCHANGED <<vars, up, ended, invite, user, stage, dropped, joined, kept>>

-----------------------------------------------------------------------------
(* The device that joins *)

\* acceptInvite, before the request: the copy of the invite says when it expires.
AcceptInvite(t) == Asks[t] \notin late

\* A device's own checks come first: it does not join twice, and does not send a code that has
\* expired.  The message may not arrive.
RegisterDeviceWithInvite(t) ==
    /\ stage[t] = "new" /\ pc[t] = "idle" /\ up = Home[t]
    /\ invite[Asks[t]] # "none"
    /\ \/ Over(t)
       \/ /\ joined[By[t]] = None /\ AcceptInvite(t)
          /\ Moves(t, "sent") /\ UNCHANGED pc
    /\ UNCHANGED <<exists, file, holder, copy, up, ended, invite, late, user, dropped, joined, kept>>

\* The welcome arrives and is saved, unless another made this device a member meanwhile.
ApplyPairingWelcome(t) ==
    /\ stage[t] = "answered"
    /\ joined' = [joined EXCEPT ![By[t]] = IF @ = None THEN t ELSE @]
    /\ Moves(t, "over")
    /\ UNCHANGED <<vars, up, ended, invite, late, user, dropped, kept>>

LoseReply(t) ==
    /\ stage[t] = "answered"
    /\ Moves(t, "over")
    /\ UNCHANGED <<vars, up, ended, invite, late, user, dropped, joined, kept>>

-----------------------------------------------------------------------------
(* memberHandleInvite *)

\* A slip: requests redeem their codes side by side.
UseUnlocked(t) ==
    /\ stage[t] = "sent"
    /\ Moves(t, "reading")
    /\ UNCHANGED <<vars, up, ended, invite, late, user, dropped, joined, kept>>

LockUse(t) ==
    /\ stage[t] = "sent" /\ user = None
    /\ user' = t /\ Moves(t, "reading")
    /\ UNCHANGED <<vars, up, ended, invite, late, dropped, joined, kept>>

\* loadJoinInvite and joinInviteValid.
ReadInvite(t) ==
    /\ stage[t] = "reading"
    /\ IF invite[Asks[t]] = "stored" /\ Asks[t] \notin late
       THEN Moves(t, "admitting") /\ UNCHANGED <<pc, user>>
       ELSE Over(t) /\ user' = None
    /\ UNCHANGED <<exists, file, holder, copy, up, ended, invite, late, dropped, joined, kept>>

\* admitWithWelcome: an update of the circle file, which may be refused.
Admit(t) ==
    /\ stage[t] = "admitting"
    /\ \/ (Lock(t) \/ (exists /\ Load(t))) /\ UNCHANGED <<stage, user>>
       \/ Save(t) /\ Moves(t, "admitted") /\ UNCHANGED user
       \/ (Refuse(t) \/ (~exists /\ Load(t))) /\ Moves(t, "over") /\ user' = None
    /\ UNCHANGED <<up, ended, invite, late, dropped, joined, kept>>

\* A slip: the lock is kept when the code has been used.
RemoveKeepingUse(t) ==
    /\ stage[t] = "admitted"
    /\ invite' = [invite EXCEPT ![Asks[t]] = "gone"]
    /\ Moves(t, "answered")
    /\ UNCHANGED <<vars, up, ended, late, user, dropped, joined, kept>>

\* The file is removed, or the error is dropped; the reply goes out either way.
RemoveInvite(t) ==
    /\ stage[t] = "admitted"
    /\ \/ invite' = [invite EXCEPT ![Asks[t]] = "gone"] /\ UNCHANGED kept
       \/ kept' = kept \cup {Asks[t]} /\ UNCHANGED invite
    /\ user' = None /\ Moves(t, "answered")
    /\ UNCHANGED <<vars, up, ended, late, dropped, joined>>

-----------------------------------------------------------------------------
(* The other updates, and a Core that stops *)

Update(t) ==
    /\ t \in Thread \ Redeeming /\ up = Home[t]
    /\ Step(t)
    /\ UNCHANGED invites

\* afterKeyRotation: each invite of the circle is removed, or the error dropped.
DropCircleInvites(t) ==
    /\ pc[t] = "done" /\ t \in file \ dropped /\ up = Home[t]
    /\ \E Removed \in SUBSET {c \in Code : invite[c] = "stored"} :
          invite' = [c \in Code |-> IF c \in Removed THEN "gone" ELSE invite[c]]
    /\ dropped' = dropped \cup {t}
    /\ UNCHANGED <<vars, up, ended, late, user, stage, joined, kept>>

\* The Core stops.  A reply that is out may still arrive.
Stop ==
    /\ up # None /\ Exit(up)
    /\ ended' = ended \cup {up}
    /\ up' \in (Process \ ended') \cup {None}
    /\ stage' = [t \in Redeeming |-> IF Home[t] = up /\ stage[t] # "answered" THEN "over" ELSE stage[t]]
    /\ kept' = kept \cup {Asks[t] : t \in {r \in Redeeming : stage[r] = "admitted"}}
    /\ user' = None
    /\ UNCHANGED <<invite, late, dropped, joined>>

Redeem(t) == RegisterDeviceWithInvite(t) \/ LockUse(t) \/ ReadInvite(t) \/ Admit(t) \/ RemoveInvite(t)
Answer(t) == ApplyPairingWelcome(t) \/ LoseReply(t)

InviteNext ==
    \/ \E c \in Code : CreateInvite(c) \/ Expire(c)
    \/ \E t \in Redeeming : Redeem(t) \/ Answer(t)
    \/ \E t \in Thread : Update(t)
    \/ \E t \in Rotating : DropCircleInvites(t)
    \/ Stop

InviteSpec == InviteInit /\ [][InviteNext]_all

\* The Go scheduler runs every thread that can run, and its mutexes admit every waiter in turn.
InviteFairSpec ==
    /\ InviteSpec
    /\ \A t \in Redeeming : WF_all(LockUse(t) \/ ReadInvite(t) \/ Admit(t) \/ RemoveInvite(t))
    /\ \A t \in Thread : WF_all(Update(t))

-----------------------------------------------------------------------------
(* Properties *)

\* A code admits one request, unless its file outlived its use: a Core stopped between the admission and
\* the removal, or the removal failed (memberHandleInvite, "a used invite is dropped").  And what a
\* device has joined with is an admission the member's circle holds.
InvitesSound ==
    /\ \A t, u \in Redeeming : t # u /\ Asks[t] = Asks[u] /\ {t, u} \subseteq file => Asks[t] \in kept
    /\ \A d \in Asker : joined[d] # None => joined[d] \in file /\ By[joined[d]] = d

\* No update waits for a lock for ever while its Core runs, however the others end (updateCircle and
\* memberHandleInvite, which holds a second lock around it).
UpdatesFinish ==
    /\ \A t \in Updating \ Redeeming : (up = Home[t]) ~> (pc[t] = "done" \/ up # Home[t])
    /\ \A t \in Redeeming : (stage[t] = "sent") ~> (stage[t] \in {"answered", "over"})
=============================================================================
