----------------------- MODULE CircleMembershipProofs -----------------------
(***************************************************************************)
(* What CircleMembership keeps true for any set of devices, any number of  *)
(* rotations, any addresses and any starting circle.  The lemmas say what  *)
(* the operators on rosters and files preserve; the theorems cite them,    *)
(* action by action.                                                       *)
(***************************************************************************)
EXTENDS CircleMembership, TLAPS

-----------------------------------------------------------------------------
(* The operators return values of the right shape. *)

\* Merging proofs into a roster yields a roster.
LEMMA AdmitAllType ==
    ASSUME NEW r \in Roster, NEW inc, NEW T \in SUBSET Device,
           inc.adm \in [Device -> Device \cup {None}]
    PROVE  AdmitAll(r, inc, T) \in Roster
BY DEF AdmitAll, Roster

LEMMA ApplyRevocationsType ==
    ASSUME NEW r \in Roster, NEW P \in SUBSET Device
    PROVE  ApplyRevocations(r, P) \in Roster
BY DEF ApplyRevocations, Roster

LEMMA AdmittedType ==
    ASSUME NEW r, NEW inc \in Roster
    PROVE  Admitted(r, inc) \in SUBSET Device
BY DEF Admitted, Candidate, Roster

LEMMA IngestRosterProofsType ==
    ASSUME NEW r \in Roster, NEW inc \in Roster
    PROVE  IngestRosterProofs(r, inc) \in Roster
<1>1. AdmitAll(r, inc, Admitted(r, inc)) \in Roster
    BY AdmittedType, AdmitAllType DEF Roster
<1> QED
    BY <1>1, ApplyRevocationsType DEF IngestRosterProofs, Roster

LEMMA VouchMembersType ==
    ASSUME NEW r \in Roster, NEW self \in Device
    PROVE  VouchMembers(r, self) \in Roster
BY DEF VouchMembers, Roster, Active

\* Merging keys material into a file yields a file.
LEMMA MoveToKeyType ==
    ASSUME NEW f \in File, NEW e \in Epoch
    PROVE  MoveToKey(f, e) \in File
BY DEF MoveToKey, File

LEMMA IngestKexRecordsType ==
    ASSUME NEW f \in File, NEW K \in SUBSET Device
    PROVE  IngestKexRecords(f, K) \in File
BY DEF IngestKexRecords, File

LEMMA ReachableType ==
    ASSUME NEW f \in File
    PROVE  Reachable(f) \in SUBSET Device
BY DEF Reachable, Active, File, Roster

LEMMA ExtendKeyUpdateType ==
    ASSUME NEW f \in File, NEW self \in Device
    PROVE  ExtendKeyUpdate(f, self) \in File
BY ReachableType DEF ExtendKeyUpdate, File, Update

LEMMA AdoptKeyUpdateType ==
    ASSUME NEW f \in File, NEW u \in Update, NEW self \in Device
    PROVE  AdoptKeyUpdate(f, u, self) \in File
<1>1. MoveToKey(f, u.epoch) \in File
    BY MoveToKeyType DEF Update
<1> QED
    BY <1>1 DEF AdoptKeyUpdate, File

LEMMA ApplyKeysMaterialType ==
    ASSUME NEW f \in File, NEW K \in SUBSET Device, NEW u \in Update, NEW self \in Device
    PROVE  ApplyKeysMaterial(f, K, u, self) \in File
<1> DEFINE g == AdoptKeyUpdate(ExtendKeyUpdate(IngestKexRecords(f, K), self), u, self)
<1>1. g \in File
    BY IngestKexRecordsType, ExtendKeyUpdateType, AdoptKeyUpdateType
<1>2. VouchMembers(g.roster, self) \in Roster
    BY <1>1, VouchMembersType DEF File
<1> QED
    BY <1>1, <1>2 DEF ApplyKeysMaterial, File

LEMMA RekeyCircleType ==
    ASSUME NEW f \in File, f.epoch + 1 \in Epoch
    PROVE  RekeyCircle(f) \in File
<1>1. MoveToKey(f, f.epoch + 1) \in File
    BY MoveToKeyType
<1>2. [epoch |-> f.epoch + 1, entry |-> Reachable(f)] \in Update
    BY ReachableType DEF Update
<1> QED
    BY <1>1, <1>2 DEF RekeyCircle, File

\* A message of a kind is a message of that kind's shape.
LEMMA MessageKinds ==
    ASSUME NEW m \in Message
    PROVE  /\ m.kind = "rosterCall"  => m \in RosterCall
           /\ m.kind = "rosterReply" => m \in RosterReply
           /\ m.kind = "keysCall"    => m \in KeysCall
           /\ m.kind = "keysReply"   => m \in KeysReply
           /\ m.kind = "welcome"     => m \in Welcome
BY DEF Message, RosterCall, RosterReply, KeysCall, KeysReply, Welcome

-----------------------------------------------------------------------------
(* Type correctness *)

LEMMA InitType == Init => TypeOK
<1> SUFFICES ASSUME Init PROVE TypeOK
    OBVIOUS
<1>1. NoFile \in File
    BY EpochAssumption DEF NoFile, NoRoster, NoUpdate, File, Roster, Update, Epoch
<1>2. scenario \in Scenario /\ scenario.founder \in SUBSET Device
    BY ScenarioAssumption DEF Init, IsScenario
<1>3. ASSUME NEW d \in Device PROVE FounderRoster(scenario, d) \in Roster
    BY <1>2, CreatorAssumption DEF FounderRoster, Roster
<1>4. ASSUME NEW d \in Device PROVE FounderFile(scenario, d) \in File
    BY <1>1, <1>2, <1>3 DEF FounderFile, File
<1>5. circle \in [Device -> File]
    BY <1>1, <1>4 DEF Init
<1> QED
    BY <1>2, <1>5 DEF Init, TypeOK, Idle

LEMMA NextType == TypeOK /\ [Next]_vars => TypeOK'
<1> SUFFICES ASSUME TypeOK, [Next]_vars PROVE TypeOK'
    OBVIOUS
<1> USE DEF TypeOK
<1>1. ASSUME NEW m \in Device, NEW j \in Device, AdmitWithWelcome(m, j) PROVE TypeOK'
    <2> DEFINE inc == [adm |-> [x \in Device |-> m]]
               r   == AdmitAll(circle[m].roster, inc, {j})
               w   == [kind |-> "welcome", from |-> m, to |-> j, roster |-> r,
                       epoch |-> circle[m].epoch, kex |-> circle[m].kex]
    <2>1. circle[m] \in File /\ circle[m].roster \in Roster
        BY DEF File
    <2>2. r \in Roster
        <3>1. inc.adm \in [Device -> Device \cup {None}]
            OBVIOUS
        <3> QED
            BY <2>1, <3>1, AdmitAllType
    <2>3. VouchMembers(r, m) \in Roster
        BY <2>2, VouchMembersType
    <2>4. w \in Message
        BY <2>1, <2>2 DEF Message, Welcome, File
    <2>5. circle' = [circle EXCEPT ![m].roster = VouchMembers(r, m)] /\ net' = net \cup {w}
        BY <1>1 DEF AdmitWithWelcome, BuildPairingWelcome
    <2>6. circle' \in [Device -> File]
        BY <2>1, <2>3, <2>5 DEF File
    <2> QED
        BY <1>1, <2>4, <2>5, <2>6 DEF AdmitWithWelcome
<1>2. ASSUME NEW msg \in net, ApplyWelcome(msg) PROVE TypeOK'
    <2>1. msg \in Welcome
        BY <1>2, MessageKinds DEF ApplyWelcome
    <2>2. VouchMembers(msg.roster, msg.to) \in Roster
        BY <2>1, VouchMembersType DEF Welcome
    <2>3. [roster |-> VouchMembers(msg.roster, msg.to), epoch |-> msg.epoch,
           prev |-> {}, kex |-> msg.kex, update |-> NoUpdate] \in File
        BY <2>1, <2>2, EpochAssumption DEF Welcome, File, NoUpdate, Update, Epoch
    <2> QED
        BY <1>2, <2>3 DEF ApplyWelcome
<1>3. ASSUME NEW d \in Device, NEW e \in Device, AskRoster(d, e) PROVE TypeOK'
    <2>1. circle[d] \in File
        OBVIOUS
    <2>2. [kind |-> "rosterCall", from |-> d, to |-> e, seal |-> circle[d].epoch,
           open |-> OpenKeys(circle[d]), active |-> Active(circle[d].roster)] \in RosterCall
        BY <2>1 DEF RosterCall, OpenKeys, Active, File, Roster
    <2> QED
        BY <1>3, <2>2 DEF AskRoster, Message
<1>4. ASSUME NEW msg \in net, AnswerRoster(msg) PROVE TypeOK'
    <2>1. msg \in RosterCall
        BY <1>4, MessageKinds DEF AnswerRoster
    <2>2. [kind |-> "rosterReply", from |-> msg.to, to |-> msg.from,
           roster |-> circle[msg.to].roster] \in RosterReply
        BY <2>1 DEF RosterCall, RosterReply, File
    <2> QED
        BY <1>4, <2>2 DEF AnswerRoster, Message
<1>5. ASSUME NEW msg \in net, ApplyPeerRoster(msg) PROVE TypeOK'
    <2>1. msg \in RosterReply
        BY <1>5, MessageKinds DEF ApplyPeerRoster
    <2>2. circle[msg.to] \in File /\ circle[msg.to].roster \in Roster
        BY <2>1 DEF RosterReply, File
    <2>3. VouchMembers(IngestRosterProofs(circle[msg.to].roster, msg.roster), msg.to) \in Roster
        BY <2>1, <2>2, IngestRosterProofsType, VouchMembersType DEF RosterReply
    <2>4. circle' \in [Device -> File]
        BY <1>5, <2>2, <2>3 DEF ApplyPeerRoster, File
    <2> QED
        BY <1>5, <2>4 DEF ApplyPeerRoster
<1>6. ASSUME NEW d \in Device, NEW e \in Device, AskKeys(d, e) PROVE TypeOK'
    <2>1. circle[d] \in File
        OBVIOUS
    <2>2. [kind |-> "keysCall", from |-> d, to |-> e, active |-> Active(circle[d].roster),
           update |-> circle[d].update] \in KeysCall
        BY <2>1 DEF KeysCall, Active, File, Roster
    <2> QED
        BY <1>6, <2>2 DEF AskKeys, Message
<1>7. ASSUME NEW msg \in net, AnswerKeys(msg) PROVE TypeOK'
    <2> DEFINE f == ApplyKeysMaterial(circle[msg.to], {msg.from}, msg.update, msg.to)
    <2>1. msg \in KeysCall
        BY <1>7, MessageKinds DEF AnswerKeys
    <2>2. f \in File
        BY <2>1, ApplyKeysMaterialType DEF KeysCall
    <2>3. [kind |-> "keysReply", from |-> msg.to, to |-> msg.from, kex |-> f.kex \cup {msg.to},
           update |-> f.update] \in KeysReply
        BY <2>1, <2>2 DEF KeysCall, KeysReply, File
    <2> HIDE DEF f
    <2>4. circle' = circle \/ circle' = [circle EXCEPT ![msg.to] = f]
        BY <1>7 DEF AnswerKeys, f
    <2>5. net' \subseteq net \cup {[kind |-> "keysReply", from |-> msg.to, to |-> msg.from,
                                   kex |-> f.kex \cup {msg.to}, update |-> f.update]}
        BY <1>7 DEF AnswerKeys, f
    <2>6. circle' \in [Device -> File]
        BY <2>2, <2>4
    <2>7. net' \subseteq Message
        BY <2>3, <2>5 DEF Message
    <2> QED
        BY <1>7, <2>6, <2>7 DEF AnswerKeys
<1>8. ASSUME NEW msg \in net, ApplyPeerKeys(msg) PROVE TypeOK'
    <2>1. msg \in KeysReply
        BY <1>8, MessageKinds DEF ApplyPeerKeys
    <2>2. ApplyKeysMaterial(circle[msg.to], msg.kex, msg.update, msg.to) \in File
        BY <2>1, ApplyKeysMaterialType DEF KeysReply
    <2> QED
        BY <1>8, <2>2 DEF ApplyPeerKeys
<1>9. ASSUME NEW t \in Device, BeginRemoval(t) PROVE TypeOK'
    <2>1. Invitees(circle[Creator].roster, t) \in SUBSET Device
        BY CreatorAssumption DEF Invitees, File, Roster
    <2> QED
        BY <1>9, <2>1 DEF BeginRemoval
<1>10. ASSUME NEW t \in Device, RevokeMember(t) PROVE TypeOK'
    <2>1. circle[Creator] \in File /\ circle[Creator].roster \in Roster
        BY CreatorAssumption DEF File
    <2>2. Revoke(circle[Creator].roster, t) \in Roster
        BY <2>1 DEF Revoke, Roster
    <2>3. circle' \in [Device -> File]
        BY <1>10, <2>1, <2>2, CreatorAssumption DEF RevokeMember, File
    <2> QED
        BY <1>10, <2>3 DEF RevokeMember
<1>11. ASSUME Mint, UNCHANGED <<scenario, net>>, removal' = removal \/ removal' = Idle PROVE TypeOK'
    <2>1. circle[Creator] \in File
        BY CreatorAssumption
    <2>2. circle[Creator].epoch + 1 \in Epoch \ {0}
        BY <1>11, <2>1, ScenarioAssumption, EpochAssumption DEF Mint, File, Epoch, IsScenario
    <2>3. RekeyCircle(circle[Creator]) \in File
        BY <2>1, <2>2, RekeyCircleType
    <2>4. circle' \in [Device -> File]
        BY <1>11, <2>3 DEF Mint
    <2>5. barred' \in [1..MaxEpoch -> SUBSET Device]
        <3>1. circle[Creator].roster.revoked \in SUBSET Device
            BY <2>1 DEF File, Roster
        <3>2. barred' = [barred EXCEPT ![circle[Creator].epoch + 1] = circle[Creator].roster.revoked]
            BY <1>11 DEF Mint
        <3> QED
            BY <3>1, <3>2
    <2>6. removal' \in [live : BOOLEAN, left : SUBSET Device]
        <3>1. Idle \in [live : BOOLEAN, left : SUBSET Device]
            BY DEF Idle
        <3>2. removal' = removal \/ removal' = Idle
            BY <1>11
        <3> QED
            BY <3>1, <3>2
    <2>7. scenario' \in Scenario /\ net' \subseteq Message
        BY <1>11
    <2> QED
        BY <2>4, <2>5, <2>6, <2>7
<1>12. ASSUME AbortRemoval PROVE TypeOK'
    BY <1>12 DEF AbortRemoval, Idle
<1>13. ASSUME NEW d \in Device, GraceEnds(d) PROVE TypeOK'
    <2>1. circle[d] \in File
        OBVIOUS
    <2>2. [circle[d] EXCEPT !.prev = {}] \in File
        BY <2>1 DEF File
    <2> QED
        BY <1>13, <2>2 DEF GraceEnds
<1>14. ASSUME NEW msg \in net, Lose(msg) PROVE TypeOK'
    BY <1>14 DEF Lose
<1>15. CASE UNCHANGED vars
    BY <1>15 DEF vars
<1>16. scenario.joiner \in SUBSET Device
    BY ScenarioAssumption DEF IsScenario
<1> QED
    BY <1>1, <1>2, <1>3, <1>4, <1>5, <1>6, <1>7, <1>8, <1>9, <1>10, <1>11, <1>12, <1>13, <1>14,
       <1>15, <1>16 DEF Next, RotateAfterRemoval, RotateCircleKey

\* Type correctness: every file, message and bookkeeping variable keeps its shape.
THEOREM TypeCorrect == Spec => []TypeOK
<1>1. Init => TypeOK
    BY InitType
<1>2. TypeOK /\ [Next]_vars => TypeOK'
    BY NextType
<1> QED
    BY <1>1, <1>2, PTL DEF Spec

-----------------------------------------------------------------------------
(* The inductive invariant *)

\* R stands for the devices the creator holds revoked, e for its epoch, b for the history barred.

\* A roster knows no revocation but the creator's, marks exactly the members it holds one for,
\* and lists whoever vouched for a member.
GoodRoster(r, R) ==
    /\ r.proof \subseteq R
    /\ r.revoked = r.member \cap r.proof
    /\ \A x \in Device : r.adm[x] # None => {x, r.adm[x]} \subseteq r.member

\* An update is one the creator has issued, with no entry for a device it then held revoked.
GoodUpdate(u, e, b) == u.epoch <= e /\ (u.epoch > 0 => u.entry \cap b[u.epoch] = {})

GoodFile(f, R, e, b) ==
    GoodRoster(f.roster, R) /\ f.epoch <= e /\ GoodUpdate(f.update, e, b)

GoodMessage(m, R, e, b) ==
    /\ m.kind \in {"rosterReply", "welcome"} => GoodRoster(m.roster, R)
    /\ m.kind \in {"keysCall", "keysReply"}  => GoodUpdate(m.update, e, b)
    /\ m.kind = "welcome" => m.epoch <= e

CreatorRevoked == circle[Creator].roster.revoked
CreatorEpoch   == circle[Creator].epoch

CreatorStands ==
    /\ Creator \in circle[Creator].roster.member
    /\ Creator \notin CreatorRevoked
    /\ Creator \notin removal.left

FilesGood    == \A d \in Device : GoodFile(circle[d], CreatorRevoked, CreatorEpoch, barred)
MessagesGood == \A m \in net : GoodMessage(m, CreatorRevoked, CreatorEpoch, barred)
BarredStay   == \A k \in 1..MaxEpoch : barred[k] \subseteq CreatorRevoked

IInv == TypeOK /\ CreatorStands /\ FilesGood /\ MessagesGood /\ BarredStay

-----------------------------------------------------------------------------
(* What the operators preserve *)

\* Whoever admitted an admitted device is a member, or is admitted with it: in the least set
\* closed under trust there is a reason for every admission.
LEMMA AdmittedGrounded ==
    ASSUME NEW r \in Roster, NEW inc \in Roster, NEW x \in Admitted(r, inc)
    PROVE  inc.adm[x] \in r.member \cup Admitted(r, inc)
<1> DEFINE A == Admitted(r, inc)
           B == A \ {x}
<1>1. A \subseteq Candidate(inc) /\ B \subseteq Candidate(inc)
    BY DEF Admitted
<1>2. ASSUME NEW T, NEW U, T \subseteq U PROVE ActiveWith(r, T) \subseteq ActiveWith(r, U)
    BY <1>2 DEF ActiveWith
<1>3. ASSUME NEW T \in SUBSET Candidate(inc), AdmittedAll(r, inc, T) PROVE A \subseteq T
    BY <1>3 DEF Admitted
<1>4. AdmittedAll(r, inc, A)
    <2> SUFFICES ASSUME NEW y \in Candidate(inc),
                        TrustsAdmission(y, inc.adm[y], ActiveWith(r, A))
                 PROVE  y \in A
        BY DEF AdmittedAll
    <2>1. ASSUME NEW T \in SUBSET Candidate(inc), AdmittedAll(r, inc, T) PROVE y \in T
        <3>1. ActiveWith(r, A) \subseteq ActiveWith(r, T)
            BY <1>2, <1>3, <2>1
        <3>2. TrustsAdmission(y, inc.adm[y], ActiveWith(r, T))
            BY <3>1 DEF TrustsAdmission
        <3> QED
            BY <2>1, <3>2 DEF AdmittedAll
    <2> QED
        BY <2>1 DEF Admitted
<1>5. SUFFICES ASSUME inc.adm[x] \notin r.member \cup A PROVE FALSE
    OBVIOUS
<1>6. ActiveWith(r, A) \subseteq r.member \cup A /\ ActiveWith(r, B) \subseteq ActiveWith(r, A)
    BY <1>2 DEF ActiveWith, Active
<1>7. AdmittedAll(r, inc, B)
    <2> SUFFICES ASSUME NEW y \in Candidate(inc),
                        TrustsAdmission(y, inc.adm[y], ActiveWith(r, B))
                 PROVE  y \in B
        BY DEF AdmittedAll
    <2>1. y \in A
        <3>1. TrustsAdmission(y, inc.adm[y], ActiveWith(r, A))
            BY <1>6 DEF TrustsAdmission
        <3> QED
            BY <1>4, <3>1 DEF AdmittedAll
    <2>2. y # x
        BY <1>5, <1>6 DEF TrustsAdmission
    <2> QED
        BY <2>1, <2>2
<1>8. x \in B
    BY <1>1, <1>3, <1>7
<1> QED
    BY <1>8

\* admit keeps a roster good, and takes nothing away from it.
LEMMA AdmitAllGood ==
    ASSUME NEW r \in Roster, NEW R, GoodRoster(r, R), NEW T \in SUBSET Device,
           NEW inc, inc.adm \in [Device -> Device \cup {None}],
           \A x \in T : inc.adm[x] \in r.member \cup T
    PROVE  /\ GoodRoster(AdmitAll(r, inc, T), R)
           /\ r.member \subseteq AdmitAll(r, inc, T).member
           /\ r.revoked \subseteq AdmitAll(r, inc, T).revoked
BY DEF AdmitAll, GoodRoster, Roster

\* So does applying revocations the creator signed.
LEMMA ApplyRevocationsGood ==
    ASSUME NEW r \in Roster, NEW R, GoodRoster(r, R), NEW P \in SUBSET R
    PROVE  /\ GoodRoster(ApplyRevocations(r, P), R)
           /\ r.member \subseteq ApplyRevocations(r, P).member
           /\ r.revoked \subseteq ApplyRevocations(r, P).revoked
BY DEF ApplyRevocations, GoodRoster, Roster

LEMMA IngestRosterProofsGood ==
    ASSUME NEW r \in Roster, NEW inc \in Roster, NEW R, GoodRoster(r, R), GoodRoster(inc, R)
    PROVE  /\ GoodRoster(IngestRosterProofs(r, inc), R)
           /\ r.member \subseteq IngestRosterProofs(r, inc).member
           /\ r.revoked \subseteq IngestRosterProofs(r, inc).revoked
<1> DEFINE s == AdmitAll(r, inc, Admitted(r, inc))
<1>1. Admitted(r, inc) \in SUBSET Device
    BY AdmittedType
<1>2. inc.adm \in [Device -> Device \cup {None}]
    BY DEF Roster
<1>3. \A x \in Admitted(r, inc) : inc.adm[x] \in r.member \cup Admitted(r, inc)
    BY AdmittedGrounded
<1>4. s \in Roster
    BY <1>1, <1>2, AdmitAllType
<1>5. GoodRoster(s, R) /\ r.member \subseteq s.member /\ r.revoked \subseteq s.revoked
    BY <1>1, <1>2, <1>3, AdmitAllGood
<1>6. inc.proof \in SUBSET R
    BY DEF GoodRoster
<1> HIDE DEF s
<1>7. /\ GoodRoster(ApplyRevocations(s, inc.proof), R)
      /\ s.member \subseteq ApplyRevocations(s, inc.proof).member
      /\ s.revoked \subseteq ApplyRevocations(s, inc.proof).revoked
    BY <1>4, <1>5, <1>6, ApplyRevocationsGood
<1> QED
    BY <1>5, <1>7 DEF IngestRosterProofs, s

\* Vouching changes neither the members nor who is revoked: on a good roster every revoked
\* member has its revocation already.
LEMMA VouchMembersGood ==
    ASSUME NEW r \in Roster, NEW self \in Device, NEW R, GoodRoster(r, R)
    PROVE  /\ GoodRoster(VouchMembers(r, self), R)
           /\ VouchMembers(r, self).member = r.member
           /\ VouchMembers(r, self).revoked = r.revoked
BY CreatorAssumption DEF VouchMembers, GoodRoster, Roster, Active

\* Keys material keeps a file good, takes nothing away from it, and leaves the creator at its epoch.
LEMMA ApplyKeysMaterialGood ==
    ASSUME NEW f \in File, NEW K \in SUBSET Device, NEW u \in Update, NEW self \in Device,
           NEW R, NEW e \in Epoch, NEW b,
           GoodFile(f, R, e, b), GoodUpdate(u, e, b),
           \A k \in 1..MaxEpoch : b[k] \subseteq R,
           self = Creator => f.roster.revoked = R /\ f.epoch = e
    PROVE  /\ GoodFile(ApplyKeysMaterial(f, K, u, self), R, e, b)
           /\ f.roster.member \subseteq ApplyKeysMaterial(f, K, u, self).roster.member
           /\ f.roster.revoked \subseteq ApplyKeysMaterial(f, K, u, self).roster.revoked
           /\ f.epoch <= ApplyKeysMaterial(f, K, u, self).epoch
<1> DEFINE g == IngestKexRecords(f, K)
           h == ExtendKeyUpdate(g, self)
           i == AdoptKeyUpdate(h, u, self)
           o == ApplyKeysMaterial(f, K, u, self)
<1>1. g \in File /\ h \in File /\ i \in File
    BY IngestKexRecordsType, ExtendKeyUpdateType, AdoptKeyUpdateType
<1>2. g.roster = f.roster /\ g.epoch = f.epoch /\ g.update = f.update
    BY DEF IngestKexRecords, File
<1> HIDE DEF g
<1>3. h.roster = g.roster /\ h.epoch = g.epoch /\ GoodUpdate(h.update, e, b)
    <2>1. CASE self = Creator /\ g.update # NoUpdate /\ g.update.epoch = g.epoch
        <3>1. h = [g EXCEPT !.update = [g.update EXCEPT !.entry = g.update.entry \cup Reachable(g)]]
            BY <2>1 DEF ExtendKeyUpdate
        <3>2. h.roster = g.roster /\ h.epoch = g.epoch
              /\ h.update.epoch = g.update.epoch /\ h.update.entry = g.update.entry \cup Reachable(g)
            BY <1>1, <3>1 DEF File, Update
        <3>3. Reachable(g) \cap R = {}
            BY <1>2, <2>1 DEF Reachable, Active
        <3>4. g.update.epoch > 0 => Reachable(g) \cap b[g.update.epoch] = {}
            BY <1>1, <3>3 DEF File, Update, Epoch
        <3> QED
            BY <1>2, <3>2, <3>4 DEF GoodFile, GoodUpdate
    <2>2. CASE ~(self = Creator /\ g.update # NoUpdate /\ g.update.epoch = g.epoch)
        BY <1>2, <2>2 DEF ExtendKeyUpdate, GoodFile
    <2> QED
        BY <2>1, <2>2
<1> HIDE DEF h
<1>4. /\ i.roster = h.roster /\ h.epoch <= i.epoch /\ i.epoch <= e /\ GoodUpdate(i.update, e, b)
    <2>1. h.epoch \in Nat /\ h.epoch <= e
        BY <1>1, <1>2, <1>3, EpochAssumption DEF File, Epoch, GoodFile
    <2>2. CASE u.epoch > h.epoch /\ Creator \in h.roster.member /\ self \in u.entry
        <3>1. i = [MoveToKey(h, u.epoch) EXCEPT !.update = u]
            BY <2>2 DEF AdoptKeyUpdate
        <3>2. MoveToKey(h, u.epoch) = [h EXCEPT !.prev = {h.epoch}, !.epoch = u.epoch]
            BY DEF MoveToKey
        <3>3. i.roster = h.roster /\ i.epoch = u.epoch /\ i.update = u
            BY <1>1, <3>1, <3>2 DEF File
        <3> QED
            BY <2>1, <2>2, <3>3, EpochAssumption DEF GoodUpdate, Update, Epoch
    <2>3. CASE ~(u.epoch > h.epoch /\ Creator \in h.roster.member /\ self \in u.entry)
        BY <1>3, <2>1, <2>3 DEF AdoptKeyUpdate
    <2> QED
        BY <2>2, <2>3
<1>5. /\ o.roster = VouchMembers(i.roster, self)
      /\ o.epoch = i.epoch /\ o.update = i.update
    BY <1>1 DEF ApplyKeysMaterial, File, g, h
<1> HIDE DEF i, o
<1>6. GoodRoster(i.roster, R) /\ i.roster \in Roster
    BY <1>1, <1>2, <1>3, <1>4 DEF GoodFile, File
<1>7. /\ GoodRoster(VouchMembers(i.roster, self), R)
      /\ VouchMembers(i.roster, self).member = i.roster.member
      /\ VouchMembers(i.roster, self).revoked = i.roster.revoked
    BY <1>6, VouchMembersGood
<1>8. GoodFile(o, R, e, b)
    BY <1>4, <1>5, <1>7 DEF GoodFile
<1>9. /\ f.roster.member \subseteq o.roster.member /\ f.roster.revoked \subseteq o.roster.revoked
      /\ f.epoch <= o.epoch
    BY <1>2, <1>3, <1>4, <1>5, <1>7
<1> QED
    BY <1>8, <1>9 DEF o

\* What was good stays good as the creator revokes more and mints more.
LEMMA GoodGrows ==
    ASSUME NEW R, NEW S, R \subseteq S, NEW e \in Epoch, NEW k \in Epoch, e <= k,
           NEW b, NEW bb, \A n \in 1..e : bb[n] = b[n]
    PROVE  /\ \A r : GoodRoster(r, R) => GoodRoster(r, S)
           /\ \A u \in Update : GoodUpdate(u, e, b) => GoodUpdate(u, k, bb)
           /\ \A f \in File : GoodFile(f, R, e, b) => GoodFile(f, S, k, bb)
           /\ \A m \in Message : GoodMessage(m, R, e, b) => GoodMessage(m, S, k, bb)
<1>1. \A r : GoodRoster(r, R) => GoodRoster(r, S)
    BY DEF GoodRoster
<1>2. \A u \in Update : GoodUpdate(u, e, b) => GoodUpdate(u, k, bb)
    BY EpochAssumption DEF GoodUpdate, Update, Epoch
<1>3. \A f \in File : GoodFile(f, R, e, b) => GoodFile(f, S, k, bb)
    <2> SUFFICES ASSUME NEW f \in File, GoodFile(f, R, e, b) PROVE GoodFile(f, S, k, bb)
        OBVIOUS
    <2>1. f.update \in Update /\ f.epoch \in Nat
        BY EpochAssumption DEF File, Epoch
    <2>2. f.epoch <= k
        BY <2>1, EpochAssumption DEF GoodFile, Epoch
    <2> QED
        BY <1>1, <1>2, <2>1, <2>2 DEF GoodFile
<1>4. \A m \in Message : GoodMessage(m, R, e, b) => GoodMessage(m, S, k, bb)
    <2> SUFFICES ASSUME NEW m \in Message, GoodMessage(m, R, e, b) PROVE GoodMessage(m, S, k, bb)
        OBVIOUS
    <2>1. m.kind \in {"keysCall", "keysReply"} => m.update \in Update
        BY MessageKinds DEF KeysCall, KeysReply
    <2>2. m.kind = "welcome" => m.epoch \in Nat
        BY MessageKinds, EpochAssumption DEF Welcome, Epoch
    <2>3. m.kind = "welcome" => m.epoch <= k
        BY <2>2, EpochAssumption DEF GoodMessage, Epoch
    <2> QED
        BY <1>1, <1>2, <2>1, <2>3 DEF GoodMessage
<1> QED
    BY <1>1, <1>2, <1>3, <1>4

-----------------------------------------------------------------------------
(* The invariant is inductive *)

LEMMA InitInvariant == Init => IInv
<1> SUFFICES ASSUME Init PROVE IInv
    OBVIOUS
<1>1. TypeOK
    BY InitType
<1>2. /\ scenario \in Scenario /\ Creator \in scenario.founder
      /\ Creator \notin scenario.unheard /\ (scenario.vouched => scenario.unheard = {})
    BY ScenarioAssumption DEF Init
<1>3. /\ NoFile.roster = NoRoster /\ NoFile.epoch = 0 /\ NoFile.update = NoUpdate
      /\ \A d \in Device : /\ FounderFile(scenario, d).roster = FounderRoster(scenario, d)
                           /\ FounderFile(scenario, d).epoch = 0
                           /\ FounderFile(scenario, d).update = NoUpdate
    BY DEF NoFile, FounderFile
<1>4. \A d \in Device : /\ circle[d].roster \in {NoRoster, FounderRoster(scenario, d)}
                        /\ circle[d].epoch = 0 /\ circle[d].update = NoUpdate
    BY <1>3 DEF Init
<1>5. circle[Creator].roster = FounderRoster(scenario, Creator)
    BY <1>2, <1>3, CreatorAssumption DEF Init
<1>6. CreatorStands
    BY <1>2, <1>5 DEF Init, CreatorStands, CreatorRevoked, FounderRoster, Idle
<1>7. ASSUME NEW d \in Device
      PROVE  GoodRoster(NoRoster, {}) /\ GoodRoster(FounderRoster(scenario, d), {})
    <2>1. GoodRoster(NoRoster, {})
        BY DEF NoRoster, GoodRoster
    <2>2. GoodRoster(FounderRoster(scenario, d), {})
        BY <1>2 DEF FounderRoster, GoodRoster
    <2> QED
        BY <2>1, <2>2
<1>8. CreatorRevoked = {} /\ CreatorEpoch = 0
    BY <1>4, <1>5, CreatorAssumption DEF CreatorRevoked, CreatorEpoch, FounderRoster
<1>9. FilesGood
    BY <1>4, <1>7, <1>8 DEF FilesGood, GoodFile, GoodUpdate, NoUpdate
<1> QED
    BY <1>1, <1>6, <1>8, <1>9 DEF Init, IInv, MessagesGood, BarredStay

\* A step that replaces one device's file by a good one, taking nothing away if the device is
\* active on its own roster, as the creator is, and sends only good messages.
LEMMA MergeStep ==
    ASSUME IInv, TypeOK', NEW d \in Device, NEW g \in File,
           circle' = [circle EXCEPT ![d] = g],
           GoodFile(g, CreatorRevoked, CreatorEpoch, barred),
           d \in Active(circle[d].roster) =>
                /\ circle[d].roster.member \subseteq g.roster.member
                /\ circle[d].roster.revoked \subseteq g.roster.revoked
                /\ circle[d].epoch <= g.epoch,
           \A m \in net' : m \in net \/ GoodMessage(m, CreatorRevoked, CreatorEpoch, barred),
           barred' = barred, removal' = removal
    PROVE  IInv' /\ Remembers
<1> USE DEF IInv
<1>1. circle \in [Device -> File] /\ Creator \in Device
    BY CreatorAssumption DEF TypeOK
<1>2. CreatorRevoked' = CreatorRevoked /\ CreatorEpoch' = CreatorEpoch
    <2>1. CASE d = Creator
        <3> d \in Active(circle[d].roster)
            BY <2>1 DEF CreatorStands, CreatorRevoked, Active
        <3>1. circle'[Creator] = g
            BY <1>1, <2>1
        <3>2. g.roster.revoked \subseteq CreatorRevoked /\ CreatorRevoked \subseteq g.roster.revoked
            BY <2>1 DEF GoodFile, GoodRoster, CreatorRevoked
        <3>3. g.epoch \in Nat /\ CreatorEpoch \in Nat
            BY <1>1, EpochAssumption DEF File, Epoch, CreatorEpoch
        <3>4. g.epoch = CreatorEpoch
            BY <2>1, <3>3 DEF GoodFile, CreatorEpoch
        <3> QED
            BY <3>1, <3>2, <3>4 DEF CreatorRevoked, CreatorEpoch
    <2>2. CASE d # Creator
        BY <1>1, <2>2 DEF CreatorRevoked, CreatorEpoch
    <2> QED
        BY <2>1, <2>2
<1>3. Creator \in circle'[Creator].roster.member
    BY <1>1 DEF CreatorStands, CreatorRevoked, Active
<1>4. CreatorStands'
    BY <1>2, <1>3 DEF CreatorStands
<1>5. FilesGood'
    BY <1>1, <1>2 DEF FilesGood
<1>6. MessagesGood'
    BY <1>2 DEF MessagesGood
<1>7. BarredStay'
    BY <1>2 DEF BarredStay
<1>8. Remembers
    <2>1. \A x \in Device : circle[x].epoch <= circle[x].epoch
        BY <1>1, EpochAssumption DEF File, Epoch
    <2> QED
        BY <1>1, <2>1 DEF Remembers
<1> QED
    BY <1>4, <1>5, <1>6, <1>7, <1>8

\* A step of the creator: its revocations and its epoch only grow, and barred with them.
LEMMA CreatorStep ==
    ASSUME IInv, TypeOK', NEW g \in File,
           circle' = [circle EXCEPT ![Creator] = g],
           CreatorRevoked \subseteq g.roster.revoked, Creator \notin g.roster.revoked,
           circle[Creator].roster.member \subseteq g.roster.member, CreatorEpoch <= g.epoch,
           GoodFile(g, g.roster.revoked, g.epoch, barred'),
           \A n \in 1..CreatorEpoch : barred'[n] = barred[n],
           \A n \in 1..MaxEpoch : barred'[n] \subseteq g.roster.revoked,
           net' = net, Creator \notin removal'.left
    PROVE  IInv' /\ Remembers
<1> USE DEF IInv
<1>1. circle \in [Device -> File] /\ Creator \in Device /\ net \subseteq Message
    BY CreatorAssumption DEF TypeOK
<1>2. circle'[Creator] = g /\ CreatorRevoked' = g.roster.revoked /\ CreatorEpoch' = g.epoch
    BY <1>1 DEF CreatorRevoked, CreatorEpoch
<1>3. CreatorEpoch \in Epoch /\ g.epoch \in Epoch
    BY <1>1 DEF CreatorEpoch, File
<1>4. /\ \A f \in File : GoodFile(f, CreatorRevoked, CreatorEpoch, barred)
                         => GoodFile(f, g.roster.revoked, g.epoch, barred')
      /\ \A m \in Message : GoodMessage(m, CreatorRevoked, CreatorEpoch, barred)
                            => GoodMessage(m, g.roster.revoked, g.epoch, barred')
    BY <1>3, GoodGrows
<1>5. FilesGood'
    BY <1>1, <1>2, <1>4 DEF FilesGood
<1>6. MessagesGood'
    BY <1>1, <1>2, <1>4 DEF MessagesGood
<1>7. CreatorStands'
    BY <1>2 DEF CreatorStands
<1>8. BarredStay'
    BY <1>2 DEF BarredStay
<1>9. Remembers
    <2>1. \A x \in Device : circle[x].epoch <= circle[x].epoch
        BY <1>1, EpochAssumption DEF File, Epoch
    <2> QED
        BY <1>1, <1>2, <2>1 DEF Remembers, CreatorRevoked, CreatorEpoch
<1> QED
    BY <1>5, <1>6, <1>7, <1>8, <1>9

\* A step that leaves every file alone and sends only good messages.
LEMMA QuietStep ==
    ASSUME IInv, TypeOK', circle' = circle, barred' = barred, Creator \notin removal'.left,
           \A m \in net' : m \in net \/ GoodMessage(m, CreatorRevoked, CreatorEpoch, barred)
    PROVE  IInv' /\ Remembers
<1>1. \A x \in Device : circle[x].epoch <= circle[x].epoch
    BY EpochAssumption DEF IInv, TypeOK, File, Epoch
<1>2. Remembers
    BY <1>1 DEF Remembers
<1> QED
    BY <1>2 DEF IInv, CreatorStands, FilesGood, MessagesGood, BarredStay, CreatorRevoked, CreatorEpoch

LEMMA NextInvariant == IInv /\ [Next]_vars => IInv' /\ Remembers
<1> SUFFICES ASSUME IInv, [Next]_vars PROVE IInv' /\ Remembers
    OBVIOUS
<1>1. TypeOK /\ TypeOK'
    BY NextType DEF IInv
<1>2. /\ circle \in [Device -> File] /\ Creator \in Device
      /\ \A d \in Device : circle[d].roster \in Roster
    BY <1>1, CreatorAssumption DEF TypeOK, File
<1>3. /\ \A d \in Device : /\ GoodFile(circle[d], CreatorRevoked, CreatorEpoch, barred)
                           /\ GoodRoster(circle[d].roster, CreatorRevoked)
      /\ \A m \in net : m \in Message /\ GoodMessage(m, CreatorRevoked, CreatorEpoch, barred)
      /\ CreatorStands /\ BarredStay /\ CreatorEpoch \in Epoch
    BY <1>1, <1>2 DEF IInv, FilesGood, MessagesGood, GoodFile, CreatorEpoch, File, TypeOK
<1>4. ASSUME NEW d \in Device, NEW r \in Roster, GoodRoster(r, CreatorRevoked)
      PROVE  /\ [circle[d] EXCEPT !.roster = r] \in File
             /\ GoodFile([circle[d] EXCEPT !.roster = r], CreatorRevoked, CreatorEpoch, barred)
    <2>1. [circle[d] EXCEPT !.roster = r] \in File
        BY <1>2 DEF File
    <2> QED
        BY <1>2, <1>3, <1>4, <2>1 DEF GoodFile, File
<1>5. ASSUME NEW m \in Device, NEW j \in Device, AdmitWithWelcome(m, j) PROVE IInv' /\ Remembers
    <2> DEFINE inc == [adm |-> [x \in Device |-> m]]
               r   == AdmitAll(circle[m].roster, inc, {j})
               v   == VouchMembers(r, m)
               w   == [kind |-> "welcome", from |-> m, to |-> j, roster |-> r,
                       epoch |-> circle[m].epoch, kex |-> circle[m].kex]
    <2>1. /\ inc.adm \in [Device -> Device \cup {None}]
          /\ \A x \in {j} : inc.adm[x] \in circle[m].roster.member \cup {j}
        BY <1>5 DEF AdmitWithWelcome, Active
    <2>2. r \in Roster
        BY <1>2, <2>1, AdmitAllType
    <2>3. /\ GoodRoster(r, CreatorRevoked)
          /\ circle[m].roster.member \subseteq r.member
          /\ circle[m].roster.revoked \subseteq r.revoked
        BY <1>2, <1>3, <2>1, AdmitAllGood
    <2>4. circle' = [circle EXCEPT ![m] = [circle[m] EXCEPT !.roster = v]]
          /\ net' = net \cup {w} /\ barred' = barred /\ removal' = removal
        BY <1>5 DEF AdmitWithWelcome, BuildPairingWelcome
    <2> HIDE DEF r
    <2>5. v \in Roster /\ GoodRoster(v, CreatorRevoked) /\ v.member = r.member /\ v.revoked = r.revoked
        BY <2>2, <2>3, VouchMembersGood, VouchMembersType
    <2>6. GoodMessage(w, CreatorRevoked, CreatorEpoch, barred)
        BY <1>3, <2>3 DEF GoodMessage, GoodFile
    <2> DEFINE g == [circle[m] EXCEPT !.roster = v]
    <2>7. g \in File /\ GoodFile(g, CreatorRevoked, CreatorEpoch, barred)
        BY <1>4, <2>5
    <2>8. g.roster = v /\ g.epoch = circle[m].epoch
        BY <1>2 DEF File
    <2>9. circle[m].epoch <= g.epoch
        BY <1>2, <2>8, EpochAssumption DEF File, Epoch
    <2> HIDE DEF g, v, w
    <2> QED
        BY <1>1, <2>3, <2>4, <2>5, <2>6, <2>7, <2>8, <2>9, MergeStep DEF g
<1>6. ASSUME NEW msg \in net, ApplyWelcome(msg) PROVE IInv' /\ Remembers
    <2>1. msg \in Welcome /\ msg.kind = "welcome"
        BY <1>3, <1>6, MessageKinds DEF ApplyWelcome
    <2>2. net' \subseteq net /\ barred' = barred /\ removal' = removal
        BY <1>6 DEF ApplyWelcome
    <2>3. CASE circle' = circle
        BY <1>1, <1>3, <2>2, <2>3, QuietStep DEF CreatorStands
    <2>4. CASE circle' # circle
        <3> DEFINE v == VouchMembers(msg.roster, msg.to)
                   g == [roster |-> v, epoch |-> msg.epoch, prev |-> {}, kex |-> msg.kex,
                         update |-> NoUpdate]
        <3>1. /\ msg.to \notin Active(circle[msg.to].roster)
              /\ circle' = [circle EXCEPT ![msg.to] = g]
            BY <1>6, <2>4 DEF ApplyWelcome
        <3>2. msg.to # Creator
            BY <1>3, <3>1 DEF CreatorStands, CreatorRevoked, Active
        <3>3. v \in Roster /\ GoodRoster(v, CreatorRevoked)
            BY <1>3, <2>1, VouchMembersType, VouchMembersGood DEF Welcome, GoodMessage
        <3>4. g \in File
            BY <2>1, <3>3, EpochAssumption DEF Welcome, File, NoUpdate, Update, Epoch
        <3>5. GoodFile(g, CreatorRevoked, CreatorEpoch, barred)
            BY <1>3, <2>1, <3>3, EpochAssumption DEF GoodFile, GoodUpdate, NoUpdate, GoodMessage, Epoch
        <3>6. msg.to \in Device
            BY <2>1 DEF Welcome
        <3> HIDE DEF g
        <3> QED
            BY <1>1, <2>2, <3>1, <3>2, <3>4, <3>5, <3>6, MergeStep
    <2> QED
        BY <2>3, <2>4
<1>7. ASSUME NEW d \in Device, NEW e \in Device, AskRoster(d, e) PROVE IInv' /\ Remembers
    <2>1. \A m \in net' : m \in net \/ m.kind = "rosterCall"
        BY <1>7 DEF AskRoster
    <2>2. \A m \in net' : m \in net \/ GoodMessage(m, CreatorRevoked, CreatorEpoch, barred)
        BY <2>1 DEF GoodMessage
    <2> QED
        BY <1>1, <1>3, <1>7, <2>2, QuietStep DEF AskRoster, CreatorStands
<1>8. ASSUME NEW msg \in net, AnswerRoster(msg) PROVE IInv' /\ Remembers
    <2>1. msg \in RosterCall
        BY <1>3, <1>8, MessageKinds DEF AnswerRoster
    <2>2. \A m \in net' : m \in net \/ (m.kind = "rosterReply" /\ m.roster = circle[msg.to].roster)
        BY <1>8 DEF AnswerRoster
    <2>3. \A m \in net' : m \in net \/ GoodMessage(m, CreatorRevoked, CreatorEpoch, barred)
        BY <1>3, <2>1, <2>2 DEF GoodMessage, RosterCall
    <2> QED
        BY <1>1, <1>3, <1>8, <2>3, QuietStep DEF AnswerRoster, CreatorStands
<1>9. ASSUME NEW msg \in net, ApplyPeerRoster(msg) PROVE IInv' /\ Remembers
    <2> DEFINE d == msg.to
               s == IngestRosterProofs(circle[d].roster, msg.roster)
               v == VouchMembers(s, d)
               g == [circle[d] EXCEPT !.roster = v]
    <2>1. msg \in RosterReply /\ msg.kind = "rosterReply"
        BY <1>3, <1>9, MessageKinds DEF ApplyPeerRoster
    <2>2. d \in Device /\ msg.roster \in Roster /\ GoodRoster(msg.roster, CreatorRevoked)
        BY <1>3, <2>1 DEF RosterReply, GoodMessage
    <2>3. s \in Roster
        BY <1>2, <2>2, IngestRosterProofsType
    <2>4. /\ GoodRoster(s, CreatorRevoked)
          /\ circle[d].roster.member \subseteq s.member
          /\ circle[d].roster.revoked \subseteq s.revoked
        BY <1>2, <1>3, <2>2, IngestRosterProofsGood
    <2> HIDE DEF s
    <2>5. v \in Roster /\ GoodRoster(v, CreatorRevoked) /\ v.member = s.member /\ v.revoked = s.revoked
        BY <2>2, <2>3, <2>4, VouchMembersGood, VouchMembersType
    <2>6. circle' = [circle EXCEPT ![d] = g] /\ net' \subseteq net /\ barred' = barred /\ removal' = removal
        BY <1>9 DEF ApplyPeerRoster, s
    <2>7. g \in File /\ GoodFile(g, CreatorRevoked, CreatorEpoch, barred)
        BY <1>4, <2>2, <2>5
    <2>8. g.roster = v /\ g.epoch = circle[d].epoch
        BY <1>2, <2>2 DEF File
    <2>9. circle[d].epoch <= g.epoch
        BY <1>2, <2>2, <2>8, EpochAssumption DEF File, Epoch
    <2> HIDE DEF g, v, d
    <2> QED
        BY <1>1, <2>2, <2>4, <2>5, <2>6, <2>7, <2>8, <2>9, MergeStep
<1>10. ASSUME NEW d \in Device, NEW e \in Device, AskKeys(d, e) PROVE IInv' /\ Remembers
    <2>1. \A m \in net' : m \in net \/ (m.kind = "keysCall" /\ m.update = circle[d].update)
        BY <1>10 DEF AskKeys
    <2>2. \A m \in net' : m \in net \/ GoodMessage(m, CreatorRevoked, CreatorEpoch, barred)
        BY <1>3, <2>1 DEF GoodMessage, GoodFile
    <2> QED
        BY <1>1, <1>3, <1>10, <2>2, QuietStep DEF AskKeys, CreatorStands
<1>11. ASSUME NEW d \in Device, NEW K \in SUBSET Device, NEW u \in Update,
              GoodUpdate(u, CreatorEpoch, barred)
       PROVE  LET g == ApplyKeysMaterial(circle[d], K, u, d) IN
              /\ g \in File /\ GoodFile(g, CreatorRevoked, CreatorEpoch, barred)
              /\ circle[d].roster.member \subseteq g.roster.member
              /\ circle[d].roster.revoked \subseteq g.roster.revoked
              /\ circle[d].epoch <= g.epoch
    <2>1. circle[d] \in File
        BY <1>2
    <2>2. d = Creator => circle[d].roster.revoked = CreatorRevoked /\ circle[d].epoch = CreatorEpoch
        BY DEF CreatorRevoked, CreatorEpoch
    <2>3. \A k \in 1..MaxEpoch : barred[k] \subseteq CreatorRevoked
        BY <1>3 DEF BarredStay
    <2> QED
        BY <1>3, <1>11, <2>1, <2>2, <2>3, ApplyKeysMaterialGood, ApplyKeysMaterialType
<1>12. ASSUME NEW msg \in net, AnswerKeys(msg) PROVE IInv' /\ Remembers
    <2> DEFINE e == msg.to
               f == ApplyKeysMaterial(circle[e], {msg.from}, msg.update, e)
    <2>1. msg \in KeysCall /\ msg.kind = "keysCall"
        BY <1>3, <1>12, MessageKinds DEF AnswerKeys
    <2>2. /\ e \in Device /\ {msg.from} \in SUBSET Device
          /\ msg.update \in Update /\ GoodUpdate(msg.update, CreatorEpoch, barred)
        BY <1>3, <2>1 DEF KeysCall, GoodMessage
    <2>3. /\ f \in File /\ GoodFile(f, CreatorRevoked, CreatorEpoch, barred)
          /\ circle[e].roster.member \subseteq f.roster.member
          /\ circle[e].roster.revoked \subseteq f.roster.revoked
          /\ circle[e].epoch <= f.epoch
        BY <1>11, <2>2
    <2> HIDE DEF f
    <2>4. /\ barred' = barred /\ removal' = removal
          /\ circle' \in {circle, [circle EXCEPT ![e] = f]}
          /\ net' \subseteq net \cup {[kind |-> "keysReply", from |-> e, to |-> msg.from,
                                      kex |-> f.kex \cup {e}, update |-> f.update]}
        BY <1>12 DEF AnswerKeys, f
    <2>5. \A m \in net' : m \in net \/ GoodMessage(m, CreatorRevoked, CreatorEpoch, barred)
        BY <2>3, <2>4 DEF GoodMessage, GoodFile
    <2> HIDE DEF e
    <2>6. CASE circle' = [circle EXCEPT ![e] = f]
        BY <1>1, <2>2, <2>3, <2>4, <2>5, <2>6, MergeStep
    <2>7. CASE circle' = circle
        BY <1>1, <1>3, <2>4, <2>5, <2>7, QuietStep DEF CreatorStands
    <2> QED
        BY <2>4, <2>6, <2>7
<1>13. ASSUME NEW msg \in net, ApplyPeerKeys(msg) PROVE IInv' /\ Remembers
    <2> DEFINE d == msg.to
               g == ApplyKeysMaterial(circle[d], msg.kex, msg.update, d)
    <2>1. msg \in KeysReply /\ msg.kind = "keysReply"
        BY <1>3, <1>13, MessageKinds DEF ApplyPeerKeys
    <2>2. /\ d \in Device /\ msg.kex \in SUBSET Device
          /\ msg.update \in Update /\ GoodUpdate(msg.update, CreatorEpoch, barred)
        BY <1>3, <2>1 DEF KeysReply, GoodMessage
    <2>3. /\ g \in File /\ GoodFile(g, CreatorRevoked, CreatorEpoch, barred)
          /\ circle[d].roster.member \subseteq g.roster.member
          /\ circle[d].roster.revoked \subseteq g.roster.revoked
          /\ circle[d].epoch <= g.epoch
        BY <1>11, <2>2
    <2>4. circle' = [circle EXCEPT ![d] = g] /\ net' \subseteq net /\ barred' = barred /\ removal' = removal
        BY <1>13 DEF ApplyPeerKeys
    <2> HIDE DEF g, d
    <2> QED
        BY <1>1, <2>2, <2>3, <2>4, MergeStep
<1>14. ASSUME NEW t \in Device, BeginRemoval(t) PROVE IInv' /\ Remembers
    <2>1. Creator \notin scenario.removable
        BY <1>1, ScenarioAssumption DEF TypeOK
    <2>2. Creator \notin Invitees(circle[Creator].roster, t)
        BY DEF Invitees
    <2>3. Creator \notin removal'.left
        BY <1>14, <2>1, <2>2 DEF BeginRemoval
    <2> QED
        BY <1>1, <1>14, <2>3, QuietStep DEF BeginRemoval
<1>15. ASSUME NEW t \in Device, RevokeMember(t) PROVE IInv' /\ Remembers
    <2> DEFINE r == circle[Creator].roster
               g == [circle[Creator] EXCEPT !.roster = Revoke(r, t)]
    <2>1. /\ r \in Roster /\ circle[Creator] \in File
          /\ t \in r.member /\ t # Creator /\ t \in removal.left
        BY <1>2, <1>3, <1>15 DEF RevokeMember, CreatorStands
    <2>2. /\ Revoke(r, t) \in Roster
          /\ Revoke(r, t).member = r.member /\ Revoke(r, t).adm = r.adm
          /\ Revoke(r, t).revoked = CreatorRevoked \cup {t}
          /\ Revoke(r, t).proof = r.proof \cup {t}
        BY <2>1 DEF Revoke, Roster, CreatorRevoked
    <2>3. g \in File /\ g.roster = Revoke(r, t) /\ g.epoch = CreatorEpoch /\ g.update = circle[Creator].update
        BY <2>1, <2>2 DEF File, CreatorEpoch
    <2>4. GoodRoster(g.roster, g.roster.revoked)
        BY <1>2, <1>3, <2>1, <2>2, <2>3 DEF GoodRoster, CreatorRevoked
    <2>5. GoodFile(g, g.roster.revoked, g.epoch, barred)
        BY <1>2, <1>3, <2>3, <2>4, EpochAssumption DEF GoodFile, Epoch
    <2>6. /\ circle' = [circle EXCEPT ![Creator] = g] /\ net' = net /\ barred' = barred
          /\ Creator \notin removal'.left
        BY <1>1, <1>3, <1>15 DEF RevokeMember, CreatorStands, TypeOK
    <2>7. /\ CreatorRevoked \subseteq g.roster.revoked /\ Creator \notin g.roster.revoked
          /\ circle[Creator].roster.member \subseteq g.roster.member /\ CreatorEpoch <= g.epoch
          /\ \A n \in 1..MaxEpoch : barred[n] \subseteq g.roster.revoked
        BY <1>3, <2>1, <2>2, <2>3, EpochAssumption DEF CreatorStands, BarredStay, Epoch
    <2> HIDE DEF g
    <2> QED
        BY <1>1, <2>3, <2>5, <2>6, <2>7, CreatorStep
<1>16. ASSUME Mint, net' = net, Creator \notin removal'.left PROVE IInv' /\ Remembers
    <2> DEFINE f == circle[Creator]
               e == f.epoch + 1
               u == [epoch |-> e, entry |-> Reachable(f)]
               g == RekeyCircle(f)
    <2>1. f \in File /\ f.epoch \in Nat /\ f.epoch = CreatorEpoch /\ f.roster.revoked = CreatorRevoked
        BY <1>2, EpochAssumption DEF File, Epoch, CreatorEpoch, CreatorRevoked
    <2>2. f.epoch < MaxEpoch /\ e \in Epoch /\ e \in 1..MaxEpoch
        BY <1>1, <1>16, <2>1, ScenarioAssumption, EpochAssumption DEF Mint, TypeOK, IsScenario, Epoch
    <2>3. /\ circle' = [circle EXCEPT ![Creator] = g]
          /\ barred' = [barred EXCEPT ![e] = f.roster.revoked]
        BY <1>16 DEF Mint
    <2>4. /\ \A n \in 1..MaxEpoch : n # e => barred'[n] = barred[n]
          /\ barred'[e] = CreatorRevoked
        BY <1>1, <2>1, <2>2, <2>3 DEF TypeOK
    <2>5. g \in File
        BY <2>1, <2>2, RekeyCircleType
    <2>6. g.roster = f.roster /\ g.epoch = e /\ g.update = u
        <3>1. g = [MoveToKey(f, e) EXCEPT !.update = u]
            BY DEF RekeyCircle
        <3>2. MoveToKey(f, e) = [f EXCEPT !.prev = {f.epoch}, !.epoch = e]
            BY DEF MoveToKey
        <3> QED
            BY <2>1, <3>1, <3>2 DEF File
    <2>7. Reachable(f) \cap CreatorRevoked = {}
        BY <2>1 DEF Reachable, Active
    <2>8. GoodUpdate(u, e, barred')
        BY <2>1, <2>4, <2>7 DEF GoodUpdate
    <2>9. GoodFile(g, g.roster.revoked, g.epoch, barred')
        BY <1>2, <1>3, <2>1, <2>6, <2>8 DEF GoodFile
    <2>10. /\ CreatorRevoked \subseteq g.roster.revoked /\ Creator \notin g.roster.revoked
           /\ circle[Creator].roster.member \subseteq g.roster.member /\ CreatorEpoch <= g.epoch
        BY <1>3, <2>1, <2>6 DEF CreatorStands
    <2>11. \A n \in 1..CreatorEpoch : barred'[n] = barred[n]
        BY <2>1, <2>2, <2>4, EpochAssumption
    <2>12. \A n \in 1..MaxEpoch : barred'[n] \subseteq g.roster.revoked
        BY <1>3, <2>1, <2>4, <2>6 DEF BarredStay
    <2> HIDE DEF g
    <2> QED
        BY <1>1, <1>16, <2>3, <2>5, <2>9, <2>10, <2>11, <2>12, CreatorStep
<1>17. ASSUME AbortRemoval PROVE IInv' /\ Remembers
    BY <1>1, <1>17, QuietStep DEF AbortRemoval, Idle
<1>18. ASSUME NEW d \in Device, GraceEnds(d) PROVE IInv' /\ Remembers
    <2> DEFINE g == [circle[d] EXCEPT !.prev = {}]
    <2>1. g \in File /\ g.roster = circle[d].roster /\ g.epoch = circle[d].epoch
          /\ g.update = circle[d].update /\ circle[d].epoch \in Nat
        BY <1>2, EpochAssumption DEF File, Epoch
    <2>2. GoodFile(g, CreatorRevoked, CreatorEpoch, barred)
        BY <1>3, <2>1 DEF GoodFile
    <2>3. circle' = [circle EXCEPT ![d] = g] /\ net' = net /\ barred' = barred /\ removal' = removal
        BY <1>18 DEF GraceEnds
    <2> HIDE DEF g
    <2>4. circle[d].roster.member \subseteq g.roster.member
          /\ circle[d].roster.revoked \subseteq g.roster.revoked /\ circle[d].epoch <= g.epoch
        BY <2>1
    <2> QED
        BY <1>1, <2>1, <2>2, <2>3, <2>4, MergeStep
<1>19. ASSUME NEW msg \in net, Lose(msg) PROVE IInv' /\ Remembers
    BY <1>1, <1>3, <1>19, QuietStep DEF Lose, CreatorStands
<1>20. CASE UNCHANGED vars
    BY <1>1, <1>3, <1>20, QuietStep DEF vars, CreatorStands
<1>21. scenario.joiner \in SUBSET Device
    BY <1>1, ScenarioAssumption DEF TypeOK, IsScenario
<1>22. ASSUME RotateAfterRemoval PROVE IInv' /\ Remembers
    BY <1>16, <1>22 DEF RotateAfterRemoval, Idle
<1>23. ASSUME RotateCircleKey PROVE IInv' /\ Remembers
    BY <1>3, <1>16, <1>23 DEF RotateCircleKey, CreatorStands
<1> QED
    BY <1>5, <1>6, <1>7, <1>8, <1>9, <1>10, <1>12, <1>13, <1>14, <1>15, <1>17, <1>18, <1>19,
       <1>20, <1>21, <1>22, <1>23 DEF Next

\* The invariant holds of every reachable state.
LEMMA InvariantHolds == Spec => []IInv
<1>1. IInv /\ [Next]_vars => IInv'
    BY NextInvariant
<1> QED
    BY <1>1, InitInvariant, PTL DEF Spec

-----------------------------------------------------------------------------
(* What follows *)

LEMMA GoodInUse ==
    ASSUME IInv
    PROVE  /\ \A r \in RosterInUse : r \in Roster /\ GoodRoster(r, CreatorRevoked)
           /\ \A u \in UpdateInUse : u \in Update /\ GoodUpdate(u, CreatorEpoch, barred)
<1>1. \A d \in Device : /\ circle[d].roster \in Roster /\ circle[d].update \in Update
                        /\ GoodRoster(circle[d].roster, CreatorRevoked)
                        /\ GoodUpdate(circle[d].update, CreatorEpoch, barred)
    BY DEF IInv, TypeOK, File, FilesGood, GoodFile
<1>2. \A m \in net : m \in Message /\ GoodMessage(m, CreatorRevoked, CreatorEpoch, barred)
    BY DEF IInv, TypeOK, MessagesGood
<1>3. ASSUME NEW m \in net, m.kind \in {"rosterReply", "welcome"}
      PROVE  m.roster \in Roster /\ GoodRoster(m.roster, CreatorRevoked)
    BY <1>2, <1>3, MessageKinds DEF GoodMessage, RosterReply, Welcome
<1>4. ASSUME NEW m \in net, m.kind \in {"keysCall", "keysReply"}
      PROVE  m.update \in Update /\ GoodUpdate(m.update, CreatorEpoch, barred)
    BY <1>2, <1>4, MessageKinds DEF GoodMessage, KeysCall, KeysReply
<1>5. \A r \in RosterInUse : r \in Roster /\ GoodRoster(r, CreatorRevoked)
    BY <1>1, <1>3 DEF RosterInUse
<1>6. \A u \in UpdateInUse : u \in Update /\ GoodUpdate(u, CreatorEpoch, barred)
    BY <1>1, <1>4 DEF UpdateInUse
<1> QED
    BY <1>5, <1>6

\* Nobody holds a device revoked that the creator has not revoked, nor ever the creator, in
\* whatever order signed proofs reach it (ingestRosterProofs, applyRevocation).
THEOREM RevocationsAreTheCreators == Spec => []OnlyCreatorRevokes
<1>1. IInv => OnlyCreatorRevokes
    BY GoodInUse DEF IInv, CreatorStands, OnlyCreatorRevokes, GoodRoster, CreatorRevoked, Roster
<1> QED
    BY <1>1, InvariantHolds, PTL

\* A member is marked revoked exactly when its revocation is on file, whichever of admission and
\* revocation came first (admit, applyRevocation).
THEOREM RevocationsAreMarked == Spec => []RevokedMatchesProof
<1>1. IInv => RevokedMatchesProof
    BY GoodInUse DEF RevokedMatchesProof, GoodRoster
<1> QED
    BY <1>1, InvariantHolds, PTL

\* Every admission on file was signed by a device on the same roster (trustsAdmission, admit).
THEOREM AdmissionsAreGrounded == Spec => []AdmissionsGrounded
<1>1. IInv => AdmissionsGrounded
    BY GoodInUse DEF AdmissionsGrounded, GoodRoster
<1> QED
    BY <1>1, InvariantHolds, PTL

\* Whatever signed proofs reach a roster in whatever order, it is sound (ingestRosterProofs).
THEOREM RostersStaySound == Spec => []RostersSound
<1>1. OnlyCreatorRevokes /\ RevokedMatchesProof /\ AdmissionsGrounded => RostersSound
    BY DEF RostersSound
<1> QED
    BY <1>1, RevocationsAreTheCreators, RevocationsAreMarked, AdmissionsAreGrounded, PTL

\* A device held revoked when a key was minted never has an entry for that key (rekeyCircle,
\* extendKeyUpdate).
THEOREM RemovedStayOut == Spec => []RemovedGetsNoEntry
<1>1. IInv => RemovedGetsNoEntry
    BY GoodInUse DEF RemovedGetsNoEntry, GoodUpdate
<1> QED
    BY <1>1, InvariantHolds, PTL

\* No device and no update is ahead of the creator (rekeyCircle, adoptKeyUpdate).
THEOREM CreatorLeads == Spec => []EpochsFollowCreator
<1>1. IInv => EpochsFollowCreator
    BY GoodInUse DEF IInv, FilesGood, GoodFile, EpochsFollowCreator, GoodUpdate, CreatorEpoch
<1> QED
    BY <1>1, InvariantHolds, PTL

\* Only the creator makes keys, and only for those it has not removed.
THEOREM KeysAreTheCreators == Spec => []KeysFollowCreator
<1>1. RemovedGetsNoEntry /\ EpochsFollowCreator => KeysFollowCreator
    BY DEF KeysFollowCreator
<1> QED
    BY <1>1, RemovedStayOut, CreatorLeads, PTL

\* A device active on its own roster forgets no member, no revocation and no key epoch, whatever
\* late answer it applies (updateCircle, ingestRosterProofs, adoptKeyUpdate).
THEOREM MembersForgetNothing == Spec => NothingForgotten
<1>1. IInv /\ [Next]_vars => [Remembers]_vars
    BY NextInvariant
<1> QED
    BY <1>1, InvariantHolds, PTL DEF Spec, NothingForgotten

=============================================================================
