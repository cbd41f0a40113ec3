-------------------------- MODULE CircleMembership --------------------------
(***************************************************************************)
(* Membership and key epochs of one circle, replicated on its devices.     *)
(*                                                                         *)
(* Every device keeps its own copy of the circle in a file and changes it  *)
(* only by merging signed proofs it receives from peers: an admission      *)
(* signed by the member that let a device in, a revocation signed by the   *)
(* circle's creator, and a key update, also signed by the creator, with    *)
(* the new circle key sealed to each remaining member.  There is no        *)
(* coordinator: each device polls the peers it knows, over connections     *)
(* that fail, and answers are applied to a copy that has moved on since    *)
(* the question was asked.                                                 *)
(*                                                                         *)
(* Only the creator mints keys, one epoch after the other, so a key is     *)
(* identified with its epoch.  Names, addresses, timestamps and the bytes  *)
(* of signatures are left out: a proof is the fact it proves.              *)
(***************************************************************************)
EXTENDS Integers, FiniteSets

CONSTANTS
    Device,      \* devices that may belong to the circle
    Creator,     \* the device that created it
    None,        \* "no admission"
    MaxEpoch,    \* bound: number of key rotations
    Scenario     \* the circles to start from, each with what may happen to it

\* A scenario: the devices already in the circle; whether their rosters have signed admissions or
\* date from before them; of such an old circle, the devices only the creator has heard of; and
\* bounds: the devices somebody pairs with or invites, those the creator may decide to remove, who
\* knows an address to dial whom at, the rotations, and the calls outstanding at one time.
IsScenario(s) ==
    s \in [founder : SUBSET Device, vouched : BOOLEAN, unheard : SUBSET Device,
           joiner : SUBSET Device, removable : SUBSET Device,
           link : SUBSET (Device \X Device), epochs : 0..MaxEpoch, inFlight : Nat]

ASSUME CreatorAssumption  == Creator \in Device /\ None \notin Device
ASSUME EpochAssumption    == MaxEpoch \in Nat
ASSUME ScenarioAssumption ==
    \A s \in Scenario : 
        /\ IsScenario(s) /\ Creator \in s.founder
        /\ Creator \notin s.removable \cup s.unheard /\ (s.vouched => s.unheard = {})

VARIABLES
    scenario, \* the scenario chosen; it never changes
    circle,   \* circle[d]: the circle file of device d
    net,      \* calls, replies and welcomes on their way
    removal,  \* the creator's revokeAndRotate in progress: targets left to revoke, if any
    barred    \* barred[k]: devices the creator's roster held revoked when it minted key k (history)

vars == <<scenario, circle, net, removal, barred>>

Epoch == 0..MaxEpoch

\* A CircleKeyUpdate: the devices it holds an entry for.  Epoch 0 stands for "none yet".
Update   == [epoch : Epoch, entry : SUBSET Device]
NoUpdate == [epoch |-> 0, entry |-> {}]

\* What a roster response or a welcome carries: the member list with its revoked flags, who
\* admitted each member, and the devices the creator signed a revocation for.
Roster == [member : SUBSET Device, revoked : SUBSET Device,
           adm : [Device -> Device \cup {None}], proof : SUBSET Device]

\* A circle file.  member = {} stands for "no file": a stored circle has a creator.
File == [roster : Roster,
         epoch  : Epoch,            \* KeyEpoch, standing for GroupKey too
         prev   : SUBSET Epoch,     \* PreviousKey while its grace lasts, or nothing
         kex    : SUBSET Device,    \* KexKeys: devices whose key-agreement key is known
         update : Update]           \* KeyUpdate

NoRoster == [member |-> {}, revoked |-> {}, adm |-> [d \in Device |-> None], proof |-> {}]
NoFile   == [roster |-> NoRoster, epoch |-> 0, prev |-> {}, kex |-> {}, update |-> NoUpdate]

\* Calls hold the snapshot their caller took of its own file before dialling: the keys it can
\* open, and the members it believes active.
RosterCall  == [kind : {"rosterCall"}, from : Device, to : Device, seal : Epoch,
                open : SUBSET Epoch, active : SUBSET Device]
RosterReply == [kind : {"rosterReply"}, from : Device, to : Device, roster : Roster]
KeysCall    == [kind : {"keysCall"}, from : Device, to : Device, active : SUBSET Device,
                update : Update]
KeysReply   == [kind : {"keysReply"}, from : Device, to : Device, kex : SUBSET Device,
                update : Update]
Welcome     == [kind : {"welcome"}, from : Device, to : Device, roster : Roster,
                epoch : Epoch, kex : SUBSET Device]
Message     == RosterCall \cup RosterReply \cup KeysCall \cup KeysReply \cup Welcome

HasFile(d) == circle[d].roster.member # {}
Idle       == [live |-> FALSE, left |-> {}]

-----------------------------------------------------------------------------
(* Rosters: share_roster.go *)

Active(r) == r.member \ r.revoked

\* The devices an incoming roster names with an admission.
Candidate(inc) == {x \in inc.member : inc.adm[x] # None}

\* An admission is trusted when an active member signed it; a self-signed one, only the creator's.
TrustsAdmission(x, inviter, active) == IF inviter = x THEN x = Creator ELSE inviter \in active

\* The members active once T has been admitted into r: a device revoked before it arrives
\* arrives revoked.
ActiveWith(r, T) == Active(r) \cup {x \in T \ r.member : x \notin r.proof}

AdmittedAll(r, inc, T) ==
    \A x \in Candidate(inc) :
        TrustsAdmission(x, inc.adm[x], ActiveWith(r, T)) => x \in T

\* The fixpoint of the admission loop: the least set of candidates closed under trust.
Admitted(r, inc) ==
    {x \in Candidate(inc) : \A T \in SUBSET Candidate(inc) : AdmittedAll(r, inc, T) => x \in T}

\* Slips in the definitions below that the runs must notice.
AdmitUnmarked(r, inc, T) ==
    [r EXCEPT !.member = @ \cup T,
              !.adm    = [x \in Device |-> IF x \in T /\ r.adm[x] = None THEN inc.adm[x] ELSE r.adm[x]]]

AdmitUnlisted(r, inc, T) ==
    [r EXCEPT !.member = @ \cup (T \ r.proof),
              !.adm    = [x \in Device |-> IF x \in T /\ r.adm[x] = None THEN inc.adm[x] ELSE r.adm[x]]]

\* admit: the first admission of a device stays; an unknown device joins the member list,
\* revoked if its revocation came first.
AdmitAll(r, inc, T) ==
    [r EXCEPT !.member  = @ \cup T,
              !.revoked = @ \cup ((T \ r.member) \cap r.proof),
              !.adm     = [x \in Device |->
                              IF x \in T /\ r.adm[x] = None THEN inc.adm[x] ELSE r.adm[x]]]

\* applyRevocation, for every revocation: kept even for a device not on the roster yet, never
\* for the creator.
ApplyRevocations(r, proofs) ==
    IF Creator \notin r.member THEN r
    ELSE [r EXCEPT !.proof   = @ \cup (proofs \ {Creator}),
                   !.revoked = @ \cup (r.member \cap (proofs \ {Creator}))]

IngestMissingAsRevoked(r, inc) ==
    LET s == ApplyRevocations(AdmitAll(r, inc, Admitted(r, inc)), inc.proof) IN
    [s EXCEPT !.revoked = @ \cup (r.member \ (inc.member \cup {Creator}))]

IngestAdmissionsOnly(r, inc) == AdmitAll(r, inc, Admitted(r, inc))

IngestRosterProofs(r, inc) == ApplyRevocations(AdmitAll(r, inc, Admitted(r, inc)), inc.proof)

\* vouchMembers: an active member signs an admission for every active member nobody vouched
\* for yet (its own only if it is the creator); the creator signs missing revocations.
VouchMembers(r, self) ==
    IF self \notin Active(r) THEN r
    ELSE [r EXCEPT
            !.adm   = [x \in Device |->
                         IF x \in Active(r) /\ r.adm[x] = None /\ (x # self \/ self = Creator)
                         THEN self ELSE r.adm[x]],
            !.proof = IF self = Creator THEN @ \cup (r.revoked \ {Creator}) ELSE @]

\* Everyone t brought in, directly or through its invitees.
Invitees(r, t) ==
    {x \in r.member \ {t, Creator} :
        \A S \in SUBSET r.member :
            (t \in S /\ \A y \in r.member \ {Creator} : r.adm[y] \in S => y \in S) => x \in S}

-----------------------------------------------------------------------------
(* Keys: share_rekey.go *)

OpenKeys(f) == {f.epoch} \cup f.prev

IngestKexRecords(f, records) == [f EXCEPT !.kex = @ \cup (records \cap f.roster.member)]

MoveToKey(f, e) == [f EXCEPT !.prev = {f.epoch}, !.epoch = e]

ReachableUnchecked(f) == (f.roster.member \cap f.kex) \ {Creator}

\* The active members other than the creator that a new key can be sealed to.
Reachable(f) == (Active(f.roster) \cap f.kex) \ {Creator}

RekeyCircle(f) ==
    LET e == f.epoch + 1 IN
    [MoveToKey(f, e) EXCEPT !.update = [epoch |-> e, entry |-> Reachable(f)]]

ExtendNothing(f, self) == f

ExtendAsNewEpoch(f, self) ==
    IF self = Creator /\ f.update # NoUpdate /\ f.update.epoch = f.epoch
    THEN [f EXCEPT !.update.entry = @ \cup Reachable(f), !.update.epoch = @ + 1]
    ELSE f

\* On the creator, members whose key-agreement key arrived after the rotation get an entry too.
ExtendKeyUpdate(f, self) ==
    IF self = Creator /\ f.update # NoUpdate /\ f.update.epoch = f.epoch
    THEN [f EXCEPT !.update.entry = @ \cup Reachable(f)]
    ELSE f

AdoptAnyUpdate(f, u, self) ==
    IF u.epoch # f.epoch /\ Creator \in f.roster.member /\ self \in u.entry
    THEN [MoveToKey(f, u.epoch) EXCEPT !.update = u]
    ELSE f

\* A newer key the creator sealed to this device replaces the current one.
AdoptKeyUpdate(f, u, self) ==
    IF u.epoch > f.epoch /\ Creator \in f.roster.member /\ self \in u.entry
    THEN [MoveToKey(f, u.epoch) EXCEPT !.update = u]
    ELSE f

ApplyKeysMaterial(f, records, u, self) ==
    LET g == AdoptKeyUpdate(ExtendKeyUpdate(IngestKexRecords(f, records), self), u, self) IN
    [g EXCEPT !.roster = VouchMembers(@, self)]

-----------------------------------------------------------------------------
(* Initial state: createCircle when the creator is alone; otherwise a circle whose members the  *)
(* creator let in and who have all exchanged keys, or one from before admissions were signed.   *)

FounderRoster(s, d) ==
    [member  |-> IF d = Creator THEN s.founder ELSE s.founder \ (s.unheard \ {d}),
     revoked |-> {}, proof |-> {},
     adm     |-> [x \in Device |-> IF s.vouched /\ x \in s.founder THEN Creator ELSE None]]

FounderFile(s, d) ==
    [NoFile EXCEPT !.roster = FounderRoster(s, d),
                   !.kex    = IF s.vouched /\ s.founder # {Creator} THEN s.founder ELSE {}]

Init ==
    /\ scenario \in Scenario
    /\ circle  = [d \in Device |-> IF d \in scenario.founder THEN FounderFile(scenario, d) ELSE NoFile]
    /\ net     = {}
    /\ removal = Idle
    /\ barred  = [e \in 1..MaxEpoch |-> {}]

Room == Cardinality(net) < scenario.inFlight

-----------------------------------------------------------------------------
(* Joining: admitWithWelcome on the member, applyPairingWelcome on the joiner. *)

\* The member admits the joiner and seals it a copy of its circle: roster, current key,
\* key-agreement keys.
BuildPairingWelcome(f, m, j) ==
    [kind |-> "welcome", from |-> m, to |-> j, epoch |-> f.epoch, kex |-> f.kex,
     roster |-> AdmitAll(f.roster, [adm |-> [x \in Device |-> m]], {j})]

\* What the joiner asks of it: sent by a member active in the circle, which signed its admission.
OpensPairingWelcome(msg) ==
    msg.from \in Active(msg.roster) /\ msg.roster.adm[msg.to] = msg.from

\* Member m lets j in, after a confirmed pairing or for an invite token; both keep the same roster.
AdmitWithWelcome(m, j) ==
    LET w == BuildPairingWelcome(circle[m], m, j) IN
    /\ m # j
    /\ m \in Active(circle[m].roster)
    /\ Room
    /\ circle' = [circle EXCEPT ![m].roster = VouchMembers(w.roster, m)]
    /\ net' = net \cup {w}
    /\ UNCHANGED <<scenario, removal, barred>>

\* The joiner takes the sealed circle as its own unless it already belongs to that circle.
ApplyWelcome(msg) ==
    LET d == msg.to IN
    /\ msg.kind = "welcome"
    /\ net' = net \ {msg}
    /\ IF OpensPairingWelcome(msg) /\ d \notin Active(circle[d].roster)
       THEN circle' = [circle EXCEPT ![d] =
                         [roster |-> VouchMembers(msg.roster, d), epoch |-> msg.epoch,
                          prev |-> {}, kex |-> msg.kex, update |-> NoUpdate]]
       ELSE UNCHANGED circle
    /\ UNCHANGED <<scenario, removal, barred>>

-----------------------------------------------------------------------------
(* The roster exchange: share_roster_exchange.go *)

\* d asks e, a member it believes active, for its roster; the request is sealed with d's key.
AskRoster(d, e) ==
    LET f == circle[d] IN
    /\ d # e /\ <<d, e>> \in scenario.link /\ {d, e} \subseteq Active(f.roster)
    /\ Room
    /\ net' = net \cup {[kind |-> "rosterCall", from |-> d, to |-> e, seal |-> f.epoch,
                         open |-> OpenKeys(f), active |-> Active(f.roster)]}
    /\ UNCHANGED <<scenario, circle, removal, barred>>

RosterRequestAdmitted(msg) ==
    msg.seal \in OpenKeys(circle[msg.to]) /\ msg.from \in Active(circle[msg.to].roster)

\* The peer answers an active member whose request it can open, sealing with its current key.
\* The caller discards an answer its snapshot cannot open, or from a device its snapshot
\* does not hold active, so no reply is put on its way then.
AnswerRoster(msg) ==
    LET f == circle[msg.to] IN
    /\ msg.kind = "rosterCall"
    /\ net' = IF RosterRequestAdmitted(msg) /\ f.epoch \in msg.open /\ msg.to \in msg.active
              THEN (net \ {msg}) \cup {[kind |-> "rosterReply", from |-> msg.to,
                                        to |-> msg.from, roster |-> f.roster]}
              ELSE net \ {msg}
    /\ UNCHANGED <<scenario, circle, removal, barred>>

\* The answer is merged into the file as it is by now.
ApplyPeerRoster(msg) ==
    LET d == msg.to IN
    /\ msg.kind = "rosterReply"
    /\ circle' = [circle EXCEPT ![d].roster =
                    VouchMembers(IngestRosterProofs(@, msg.roster), d)]
    /\ net' = net \ {msg}
    /\ UNCHANGED <<scenario, removal, barred>>

-----------------------------------------------------------------------------
(* The keys exchange: share_keys_exchange.go, sent in the clear *)

AskKeys(d, e) ==
    LET f == circle[d] IN
    /\ d # e /\ <<d, e>> \in scenario.link /\ {d, e} \subseteq Active(f.roster)
    /\ Room
    /\ net' = net \cup {[kind |-> "keysCall", from |-> d, to |-> e,
                         active |-> Active(f.roster), update |-> f.update]}
    /\ UNCHANGED <<scenario, circle, removal, barred>>

\* The peer learns the caller's key-agreement key and its key update before it answers with its own.
AnswerKeys(msg) ==
    LET e == msg.to
        f == ApplyKeysMaterial(circle[e], {msg.from}, msg.update, e)
    IN
    /\ msg.kind = "keysCall"
    /\ IF msg.from \in Active(circle[e].roster)
       THEN /\ circle' = [circle EXCEPT ![e] = f]
            /\ net' = IF e \in msg.active
                      THEN (net \ {msg}) \cup {[kind |-> "keysReply", from |-> e, to |-> msg.from,
                                                kex |-> f.kex \cup {e}, update |-> f.update]}
                      ELSE net \ {msg}
       ELSE net' = net \ {msg} /\ UNCHANGED circle
    /\ UNCHANGED <<scenario, removal, barred>>

ApplyPeerKeys(msg) ==
    /\ msg.kind = "keysReply"
    /\ circle' = [circle EXCEPT ![msg.to] = ApplyKeysMaterial(@, msg.kex, msg.update, msg.to)]
    /\ net' = net \ {msg}
    /\ UNCHANGED <<scenario, removal, barred>>

-----------------------------------------------------------------------------
(* The creator: share_circle.go, share_keys_exchange.go, circle_manage.go *)

\* A member other than the creator, alone or with everyone it brought in.
BeginRemoval(t) ==
    LET r == circle[Creator].roster IN
    /\ ~removal.live
    /\ t \in r.member \cap scenario.removable
    /\ \E withInvitees \in BOOLEAN :
          removal' = [live |-> TRUE,
                      left |-> {t} \cup IF withInvitees THEN Invitees(r, t) ELSE {}]
    /\ UNCHANGED <<scenario, circle, net, barred>>

\* The creator marks t revoked and signs the revocation.
Revoke(r, t) == [r EXCEPT !.revoked = @ \cup {t}, !.proof = @ \cup {t}]

\* revokeMember, one target at a time, each with its own load and save.
RevokeMember(t) ==
    /\ t \in removal.left
    /\ t \in circle[Creator].roster.member
    /\ circle'  = [circle EXCEPT ![Creator].roster = Revoke(@, t)]
    /\ removal' = [removal EXCEPT !.left = @ \ {t}]
    /\ UNCHANGED <<scenario, net, barred>>

Mint ==
    LET f == circle[Creator] IN
    /\ f.epoch < scenario.epochs
    /\ circle' = [circle EXCEPT ![Creator] = RekeyCircle(f)]
    /\ barred' = [barred EXCEPT ![f.epoch + 1] = f.roster.revoked]

\* Once every target is revoked, the key is rotated.
RotateAfterRemoval ==
    /\ removal.live /\ removal.left = {}
    /\ Mint
    /\ removal' = Idle
    /\ UNCHANGED <<scenario, net>>

\* share circle rekey: a rotation on demand.
RotateCircleKey == Mint /\ UNCHANGED <<scenario, net, removal>>

\* A save that fails, or the end of the process, abandons the removal where it stands.
AbortRemoval ==
    /\ removal.live
    /\ removal' = Idle
    /\ UNCHANGED <<scenario, circle, net, barred>>

-----------------------------------------------------------------------------
(* The environment *)

\* previousKeyGrace runs out.
GraceEnds(d) ==
    /\ circle[d].prev # {}
    /\ circle' = [circle EXCEPT ![d].prev = {}]
    /\ UNCHANGED <<scenario, net, removal, barred>>

\* A connection fails, or the process that waited for the answer ends.
Lose(msg) ==
    /\ net' = net \ {msg}
    /\ UNCHANGED <<scenario, circle, removal, barred>>

Next ==
    \/ \E m \in Device, j \in scenario.joiner : AdmitWithWelcome(m, j)
    \/ \E msg \in net : ApplyWelcome(msg)
    \/ \E d, e \in Device : AskRoster(d, e)
    \/ \E msg \in net : AnswerRoster(msg)
    \/ \E msg \in net : ApplyPeerRoster(msg)
    \/ \E d, e \in Device : AskKeys(d, e)
    \/ \E msg \in net : AnswerKeys(msg)
    \/ \E msg \in net : ApplyPeerKeys(msg)
    \/ \E t \in Device : BeginRemoval(t)
    \/ \E t \in Device : RevokeMember(t)
    \/ RotateAfterRemoval
    \/ RotateCircleKey
    \/ AbortRemoval
    \/ \E d \in Device : GraceEnds(d)
    \/ \E msg \in net : Lose(msg)

Spec == Init /\ [][Next]_vars

\* membershipLoop: every minute each device dials each of its peers, so a dial that stays possible
\* is made; a connection ends by its deadline; and one retried for ever is not cut for ever.
Between(from, to, Step(_)) == \E msg \in net : msg.from = from /\ msg.to = to /\ Step(msg)

Reporting == {d \in Device \ {Creator} : \E s \in Scenario : <<d, Creator>> \in s.link}

Reports(d) == <<d, Creator>> \in scenario.link

Fairness ==
    /\ WF_vars(\E msg \in net : Lose(msg))
    /\ \A d \in Reporting :
          /\ SF_vars(AskRoster(d, Creator))
          /\ SF_vars(AskKeys(d, Creator))
          /\ SF_vars(Between(d, Creator, AnswerRoster))
          /\ SF_vars(Between(d, Creator, AnswerKeys))
          /\ SF_vars(Between(Creator, d, ApplyPeerRoster))
          /\ SF_vars(Between(Creator, d, ApplyPeerKeys))

FairSpec == Spec /\ Fairness

-----------------------------------------------------------------------------
(* Properties *)

\* Every file, message and bookkeeping variable has its declared shape.
TypeOK ==
    /\ scenario \in Scenario
    /\ circle \in [Device -> File]
    /\ net \subseteq Message
    /\ removal \in [live : BOOLEAN, left : SUBSET Device]
    /\ barred \in [1..MaxEpoch -> SUBSET Device]

\* Rosters in use: the stored ones and the ones on their way.
RosterInUse == {circle[d].roster : d \in Device} \cup
               {m.roster : m \in {n \in net : n.kind \in {"rosterReply", "welcome"}}}

\* Key updates in use.
UpdateInUse == {circle[d].update : d \in Device} \cup
               {m.update : m \in {n \in net : n.kind \in {"keysCall", "keysReply"}}}

\* Nobody holds a device revoked that the creator has not revoked, in whatever order the proofs
\* travelled, and nobody ever holds the creator revoked (applyRevocation, signRevocationFor).
OnlyCreatorRevokes ==
    \A r \in RosterInUse : /\ r.proof \subseteq circle[Creator].roster.revoked
                           /\ r.revoked \subseteq circle[Creator].roster.revoked
                           /\ Creator \notin r.revoked

\* A device listed as a member is marked revoked exactly when its revocation is on file: one
\* whose revocation arrived before its admission never passes for active (admit, applyRevocation).
RevokedMatchesProof == \A r \in RosterInUse : r.revoked = r.member \cap r.proof

\* Whoever vouched for a member is itself on the same roster, so that circleInvitees can follow
\* every chain of invitations (trustsAdmission, vouchMembers).
AdmissionsGrounded ==
    \A r \in RosterInUse : \A x \in Device : r.adm[x] # None => {x, r.adm[x]} \subseteq r.member

\* A device the creator held revoked when it minted a key gets no entry for that key, neither
\* then nor when the update is extended later (rekeyCircle, extendKeyUpdate).
RemovedGetsNoEntry ==
    \A u \in UpdateInUse : u.epoch > 0 => u.entry \cap barred[u.epoch] = {}

\* No device is ahead of the creator, nor holds an update the creator has not issued: a key is
\* the creator's to mint (rekeyCircle, adoptKeyUpdate).
EpochsFollowCreator ==
    /\ \A d \in Device : circle[d].epoch <= circle[Creator].epoch
    /\ \A u \in UpdateInUse : u.epoch <= circle[Creator].epoch

\* What the signed proofs make of a roster, in whatever order they travelled.
RostersSound == OnlyCreatorRevokes /\ RevokedMatchesProof /\ AdmissionsGrounded

\* Keys are the creator's to give: to nobody it removed, and none before it has it itself.
KeysFollowCreator == RemovedGetsNoEntry /\ EpochsFollowCreator

\* What a device that is active on its own roster has learnt it does not forget, whatever late
\* answer it applies: members, revocations, and the newest key.
Remembers ==
    \A d \in Device :
        d \in Active(circle[d].roster) =>
            /\ circle[d].roster.member  \subseteq circle'[d].roster.member
            /\ circle[d].roster.revoked \subseteq circle'[d].roster.revoked
            /\ circle[d].epoch <= circle'[d].epoch

NothingForgotten == [][Remembers]_vars

\* A removal reaches every member the creator knows and that can dial it, or that member is
\* removed in turn (exchangeMembership, pullCreatorRoster).
RevocationReachesMembers ==
    \A d \in Reporting, r \in Device \ {Creator} :
        (Reports(d) /\ r \in circle[Creator].roster.revoked /\ d \in Active(circle[Creator].roster) /\ HasFile(d))
        ~> (r \in circle[d].roster.proof \/ d \notin Active(circle[Creator].roster))

\* So does a new key, whether its entry was in the update from the start or added later.
KeyReachesMembers ==
    \A d \in Reporting, e \in Epoch :
        (Reports(d) /\ circle[Creator].epoch = e /\ d \in Active(circle[Creator].roster) /\ HasFile(d))
        ~> (circle[d].epoch >= e \/ d \notin Active(circle[Creator].roster))

\* What the creator decides reaches the members it keeps, over connections that fail.
NewsReachesMembers == RevocationReachesMembers /\ KeyReachesMembers
=============================================================================
