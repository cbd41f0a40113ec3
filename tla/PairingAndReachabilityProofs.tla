-------------------- MODULE PairingAndReachabilityProofs -------------------
(***************************************************************************)
(* How a device comes to a circle, and how it then reaches the others.     *)
(*                                                                         *)
(* Pairing, for any number of devices, sessions, clicks and restarts: who  *)
(* holds the circle has been confirmed by both people and is on the        *)
(* member's roster.  A welcome is the proof of the member's confirmation   *)
(* and of the admission.  The argument follows it from StoreWelcome        *)
(* through the member's session, the answer to a poll and the joiner's     *)
(* session to the run that applies it.                                     *)
(*                                                                         *)
(* Reachability, for any number of members, faults and addresses: a        *)
(* working link is kept, a host that failed is waited for, no device takes *)
(* itself for a peer, and trouble on the dashboard names its fix.          *)
(***************************************************************************)
EXTENDS Pairing, Reachability, WellFoundedInduction, TLAPS

-----------------------------------------------------------------------------
(* Pairing.                                                                 *)

\* The member's person has confirmed s, and the device is on the roster.
LetIn(s) == s \in memberSaid /\ Of[s] \in admitted

ClicksGood ==
    \A k \in Click :
        /\ clickM[k].at # "idle" => clickM[k].session \in memberSaid
        /\ clickM[k].at = "admitted" => LetIn(clickM[k].session)
        /\ clickJ[k] # None => clickJ[k] \in joinerSaid

SessionsGood ==
    \A s \in Session :
        /\ member[s].welcome \/ call[s] = "welcome" \/ joiner[s].welcome => LetIn(s)
        /\ joiner[s].confirmed => s \in joinerSaid

RunsGood ==
    \A f \in finishing : f.at # "start" => LetIn(f.session) /\ f.session \in joinerSaid

IInv == TypeOK /\ ClicksGood /\ SessionsGood /\ RunsGood /\ BothPeopleConfirmed /\ JoinedIsAdmitted

LEMMA InitInvariant == Init => IInv
<1> SUFFICES ASSUME Init PROVE IInv
    OBVIOUS
<1> USE DEF Init
<1>1. NoSide \in Side /\ ~NoSide.welcome /\ ~NoSide.confirmed
    BY DEF NoSide, Side, State
<1>2. NoClick \in ClickM /\ NoClick.at = "idle"
    BY DEF NoClick, ClickM
<1>3. TypeOK
    BY <1>1, <1>2 DEF TypeOK, Shape, OneRun, ByThread, At
<1>4. ClicksGood /\ RunsGood
    BY <1>2 DEF ClicksGood, RunsGood
<1>5. SessionsGood
    BY <1>1 DEF SessionsGood
<1> QED
    BY <1>3, <1>4, <1>5 DEF IInv, BothPeopleConfirmed, JoinedIsAdmitted

-----------------------------------------------------------------------------
(* One field of one session changes *)

LEMMA BecomesSide ==
    ASSUME NEW side \in [Session -> Side], NEW s \in Session, NEW state \in State
    PROVE  /\ Becomes(side, s, state) \in [Session -> Side]
           /\ \A t \in Session : /\ Becomes(side, s, state)[t].welcome = side[t].welcome
                                 /\ Becomes(side, s, state)[t].confirmed = side[t].confirmed
BY DEF Becomes, Side

LEMMA WelcomedSide ==
    ASSUME NEW side \in [Session -> Side], NEW s \in Session, NEW new,
           new = [side EXCEPT ![s].welcome = TRUE]
    PROVE  /\ new \in [Session -> Side]
           /\ \A t \in Session : /\ t # s => new[t].welcome = side[t].welcome
                                 /\ new[t].confirmed = side[t].confirmed
BY DEF Side

-----------------------------------------------------------------------------
(* What each step does to what the invariant speaks of *)

\* No session gains a welcome or a confirmation.
Unwelcoming ==
    \A s \in Session : /\ member'[s].welcome => member[s].welcome
                       /\ joiner'[s].welcome => joiner[s].welcome
                       /\ joiner'[s].confirmed => joiner[s].confirmed

\* A step that touches only sessions and calls, and lets nobody in.
LEMMA QuietStep ==
    ASSUME IInv,
           member' \in [Session -> Side], joiner' \in [Session -> Side], thread' \in [Session -> At],
           call' \in [Session -> Request \cup Outcome \cup {"none"}],
           cancels' \subseteq Session, Unwelcoming,
           \A s \in Session : call'[s] = "welcome" => call[s] = "welcome" \/ member[s].welcome,
           \A s \in Session : thread'[s] = "finishing" <=> thread[s] = "finishing",
           UNCHANGED <<clickM, clickJ, finishing, admitted, belongs, Said>>
    PROVE  IInv'
<1>1. TypeOK'
    BY DEF IInv, TypeOK, Shape, OneRun, ByThread, Said
<1>2. ClicksGood' /\ RunsGood'
    BY DEF IInv, ClicksGood, RunsGood, LetIn, Said
<1>3. SessionsGood'
    BY DEF IInv, SessionsGood, LetIn, Said, Unwelcoming
<1>4. BothPeopleConfirmed' /\ JoinedIsAdmitted'
    BY DEF IInv, BothPeopleConfirmed, JoinedIsAdmitted, Said
<1> QED
    BY <1>1, <1>2, <1>3, <1>4 DEF IInv

Quiet(s) ==
    \/ MemberHello(s) \/ MemberReveal(s) \/ MemberPoll(s) \/ MemberCancel(s)
    \/ CancelMember(s) \/ CancelJoiner(s) \/ ExpireMember(s) \/ ExpireJoiner(s)
    \/ StartPairing(s) \/ HelloDone(s) \/ RevealDone(s) \/ LoseCall(s) \/ LoseCancel(s) \/ Forget(s)

LEMMA QuietSteps == ASSUME IInv, NEW s \in Session, Quiet(s) PROVE IInv'
<1> USE DEF State, Opened, Closed
<1>1. /\ member \in [Session -> Side] /\ joiner \in [Session -> Side] /\ cancels \subseteq Session
      /\ call \in [Session -> Request \cup Outcome \cup {"none"}] /\ thread \in [Session -> At]
    BY DEF IInv, TypeOK, Shape
<1>2. \A state \in State :
          /\ Becomes(member, s, state) \in [Session -> Side] /\ Becomes(joiner, s, state) \in [Session -> Side]
          /\ \A t \in Session : /\ Becomes(member, s, state)[t].welcome = member[t].welcome
                                /\ Becomes(joiner, s, state)[t].welcome = joiner[t].welcome
                                /\ Becomes(joiner, s, state)[t].confirmed = joiner[t].confirmed
    BY <1>1, BecomesSide
<1>3. \/ member' = member
      \/ member' = [member EXCEPT ![s] = NoSide]
      \/ \E state \in State : member' = Becomes(member, s, state)
    BY DEF Quiet, MemberHello, MemberReveal, MemberPoll, MemberCancel, CancelMember, CancelJoiner,
        ExpireMember, ExpireJoiner, StartPairing, HelloDone, RevealDone, LoseCall, LoseCancel, Forget, Reject
<1>4. \/ joiner' = joiner
      \/ joiner' = [joiner EXCEPT ![s] = NoSide]
      \/ \E state \in State : joiner' = Becomes(joiner, s, state)
    BY DEF Quiet, MemberHello, MemberReveal, MemberPoll, MemberCancel, CancelMember, CancelJoiner,
        ExpireMember, ExpireJoiner, StartPairing, HelloDone, RevealDone, LoseCall, LoseCancel, Forget, Reject
<1>5. /\ member' \in [Session -> Side]
      /\ \A t \in Session : member'[t].welcome => member[t].welcome
    <2>1. NoSide \in Side /\ NoSide.welcome = FALSE
        BY DEF NoSide, Side
    <2>2. CASE member' = member
        BY <1>1, <2>2
    <2>3. CASE member' = [member EXCEPT ![s] = NoSide]
        BY <1>1, <2>1, <2>3
    <2>4. ASSUME NEW state \in State, member' = Becomes(member, s, state)
          PROVE  /\ member' \in [Session -> Side]
                 /\ \A t \in Session : member'[t].welcome => member[t].welcome
        BY <1>2, <2>4
    <2> QED
        BY <1>3, <2>2, <2>3, <2>4
<1>6. /\ joiner' \in [Session -> Side]
      /\ \A t \in Session : /\ joiner'[t].welcome => joiner[t].welcome
                            /\ joiner'[t].confirmed => joiner[t].confirmed
    <2>1. NoSide \in Side /\ NoSide.welcome = FALSE /\ NoSide.confirmed = FALSE
        BY DEF NoSide, Side
    <2>2. CASE joiner' = joiner
        BY <1>1, <2>2
    <2>3. CASE joiner' = [joiner EXCEPT ![s] = NoSide]
        BY <1>1, <2>1, <2>3
    <2>4. ASSUME NEW state \in State, joiner' = Becomes(joiner, s, state)
          PROVE  /\ joiner' \in [Session -> Side]
                 /\ \A t \in Session : /\ joiner'[t].welcome => joiner[t].welcome
                                       /\ joiner'[t].confirmed => joiner[t].confirmed
        BY <1>2, <2>4
    <2> QED
        BY <1>4, <2>2, <2>3, <2>4
<1>7. /\ call' \in [Session -> Request \cup Outcome \cup {"none"}]
      /\ \A t \in Session : call'[t] = "welcome" => call[t] = "welcome" \/ member[t].welcome
    BY <1>1
    DEF Quiet, MemberHello, MemberReveal, MemberPoll, MemberCancel, CancelMember, CancelJoiner,
        ExpireMember, ExpireJoiner, StartPairing, HelloDone, RevealDone, LoseCall, LoseCancel, Forget,
        Answer, Turn, Request, Outcome
<1>8. cancels' \subseteq Session
    BY <1>1
    DEF Quiet, MemberHello, MemberReveal, MemberPoll, MemberCancel, CancelMember, CancelJoiner,
        ExpireMember, ExpireJoiner, StartPairing, HelloDone, RevealDone, LoseCall, LoseCancel, Forget
<1>9. /\ thread' \in [Session -> At]
      /\ \A t \in Session : thread'[t] = "finishing" <=> thread[t] = "finishing"
    BY <1>1
    DEF Quiet, MemberHello, MemberReveal, MemberPoll, MemberCancel, CancelMember, CancelJoiner,
        ExpireMember, ExpireJoiner, StartPairing, HelloDone, RevealDone, LoseCall, LoseCancel, Forget,
        Turn, At
<1>10. UNCHANGED <<clickM, clickJ, finishing, admitted, belongs, Said>>
    BY DEF Quiet, MemberHello, MemberReveal, MemberPoll, MemberCancel, CancelMember, CancelJoiner,
        ExpireMember, ExpireJoiner, StartPairing, HelloDone, RevealDone, LoseCall, LoseCancel, Forget
<1> QED
    BY <1>5, <1>6, <1>7, <1>8, <1>9, <1>10, QuietStep DEF Unwelcoming

\* The goroutine keeps what a poll brought and starts a run, or asks, or ends.
LEMMA PollSteps == ASSUME IInv, NEW s \in Session, Poll(s) \/ PollDone(s) PROVE IInv'
<1>1. /\ joiner \in [Session -> Side] /\ call \in [Session -> Request \cup Outcome \cup {"none"}]
      /\ thread \in [Session -> At] /\ finishing \subseteq Finish /\ ByThread(s) = {}
    BY DEF IInv, TypeOK, Shape, OneRun, Poll, PollDone
<1>2. Becomes(joiner, s, "rejected") \in [Session -> Side]
    BY <1>1, BecomesSide DEF State, Closed
<1>3. \A t \in Session : /\ Becomes(joiner, s, "rejected")[t].welcome = joiner[t].welcome
                         /\ Becomes(joiner, s, "rejected")[t].confirmed = joiner[t].confirmed
    BY <1>1, BecomesSide DEF State, Closed
<1>4. joiner' \in [Session -> Side]
    BY <1>1, <1>2, WelcomedSide DEF Poll, PollDone
<1>5. \A t \in Session : /\ joiner'[t].welcome => joiner[t].welcome \/ call[t] = "welcome"
                         /\ joiner'[t].confirmed => joiner[t].confirmed
    BY <1>1, <1>3, WelcomedSide DEF Poll, PollDone
<1>6. /\ call' \in [Session -> Request \cup Outcome \cup {"none"}]
      /\ \A t \in Session : call'[t] = "welcome" => call[t] = "welcome"
    BY <1>1 DEF Poll, PollDone, Turn, Request
<1>7. UNCHANGED <<member, cancels, clickM, clickJ, admitted, belongs, Said>>
    BY DEF Poll, PollDone
<1>8. \/ thread' = [thread EXCEPT ![s] = "finishing"] /\ Begin("poll", s)
      \/ /\ UNCHANGED finishing
         /\ \E at \in At \ {"finishing"} : thread' = [thread EXCEPT ![s] = at]
    BY DEF Poll, PollDone, Turn, At
<1>9. thread' \in [Session -> At] /\ finishing' \subseteq Finish
    BY <1>1, <1>8 DEF Begin, Finish, At
<1>10. \A t \in Session : OneRun(t)'
    <2>1. \A t \in Session : OneRun(t)
        BY DEF IInv, TypeOK
    <2>2. CASE thread' = [thread EXCEPT ![s] = "finishing"] /\ Begin("poll", s)
        <3>1. ByThread(s)' = {[by |-> "poll", session |-> s, at |-> "start"]}
            BY <1>1, <2>2 DEF Begin, ByThread
        <3>2. \A t \in Session \ {s} : ByThread(t)' = ByThread(t)
            BY <2>2 DEF Begin, ByThread
        <3>3. \A t \in Session \ {s} : thread'[t] = thread[t]
            BY <1>1, <2>2
        <3>4. thread'[s] = "finishing"
            BY <1>1, <2>2
        <3>5. OneRun(s)'
            BY <3>1, <3>4 DEF OneRun
        <3>6. ASSUME NEW t \in Session \ {s} PROVE OneRun(t)'
            <4>1. ByThread(t)' = ByThread(t) /\ thread'[t] = thread[t] /\ OneRun(t)
                BY <2>1, <3>2, <3>3
            <4> QED
                BY <4>1 DEF OneRun
        <3> QED
            BY <3>5, <3>6
    <2>3. ASSUME UNCHANGED finishing,
                 NEW at \in At \ {"finishing"}, thread' = [thread EXCEPT ![s] = at]
          PROVE  \A t \in Session : OneRun(t)'
        <3>1. \A t \in Session : ByThread(t)' = ByThread(t)
            BY <2>3 DEF ByThread
        <3>2. thread[s] # "finishing"
            BY <1>1, <2>1 DEF OneRun
        <3> QED
            BY <1>1, <2>1, <2>3, <3>1, <3>2 DEF OneRun
    <2> QED
        BY <1>8, <2>2, <2>3
<1>11. TypeOK'
    BY <1>4, <1>6, <1>7, <1>9, <1>10 DEF IInv, TypeOK, Shape, Said
<1>12. ClicksGood'
    BY <1>7 DEF IInv, ClicksGood, LetIn, Said
<1>13. SessionsGood'
    BY <1>5, <1>6, <1>7 DEF IInv, SessionsGood, LetIn, Said
<1>14. RunsGood'
    BY <1>7, <1>8 DEF Begin, IInv, RunsGood, LetIn, Said
<1>15. BothPeopleConfirmed' /\ JoinedIsAdmitted'
    BY <1>7 DEF IInv, BothPeopleConfirmed, JoinedIsAdmitted, Said
<1> QED
    BY <1>11, <1>12, <1>13, <1>14, <1>15 DEF IInv

\* A member's confirmation: said, then admitted, then the welcome.
LEMMA MemberClicks ==
    ASSUME IInv, NEW k \in Click,
           \/ \E s \in Session : ConfirmMember(k, s)
           \/ AdmitWithWelcome(k) \/ AdmissionFails(k) \/ StoreWelcome(k)
    PROVE  IInv'
<1> USE NoneAssumption, OfAssumption
<1>1. /\ member \in [Session -> Side] /\ clickM \in [Click -> ClickM] /\ admitted \subseteq Joiner
      /\ memberSaid \subseteq Session
    BY DEF IInv, TypeOK, Shape
<1>2. UNCHANGED <<joiner, thread, call, cancels, clickJ, finishing, belongs, joinerSaid>>
    BY DEF ConfirmMember, AdmitWithWelcome, AdmissionFails, StoreWelcome, Said
<1>3. clickM' \in [Click -> ClickM]
    BY <1>1 DEF ConfirmMember, AdmitWithWelcome, AdmissionFails, StoreWelcome, ClickM, NoClick
<1>4. clickM[k].at # "idle" => clickM[k].session \in memberSaid
    BY DEF IInv, ClicksGood
<1>5. /\ memberSaid \subseteq memberSaid' /\ admitted \subseteq admitted'
      /\ memberSaid' \subseteq Session /\ admitted' \subseteq Joiner
    BY <1>1, <1>4 DEF ConfirmMember, AdmitWithWelcome, AdmissionFails, StoreWelcome, Said
<1>6. ClicksGood'
    BY <1>1, <1>2, <1>5
    DEF IInv, ClicksGood, LetIn, ConfirmMember, AdmitWithWelcome, AdmissionFails, StoreWelcome, ClickM,
        NoClick, Said
<1>7. /\ member' \in [Session -> Side]
      /\ \A s \in Session : member'[s].welcome => member[s].welcome \/ LetIn(s)
    <2>1. CASE StoreWelcome(k)
        <3>1. clickM[k].session \in Session /\ LetIn(clickM[k].session)
            BY <1>1, <1>4, <2>1 DEF StoreWelcome, IInv, ClicksGood
        <3>2. [state |-> "waiting", confirmed |-> TRUE, welcome |-> TRUE] \in Side
            BY DEF Side, State, Opened
        <3> QED
            BY <1>1, <2>1, <3>1, <3>2 DEF StoreWelcome
    <2>2. CASE UNCHANGED member
        BY <1>1, <2>2
    <2> QED
        BY <2>1, <2>2 DEF ConfirmMember, AdmitWithWelcome, AdmissionFails
<1>8. TypeOK'
    BY <1>2, <1>3, <1>5, <1>7 DEF IInv, TypeOK, Shape, OneRun, ByThread
<1>9. SessionsGood' /\ RunsGood'
    BY <1>2, <1>5, <1>7 DEF IInv, SessionsGood, RunsGood, LetIn
<1>10. BothPeopleConfirmed' /\ JoinedIsAdmitted'
    BY <1>2, <1>5 DEF IInv, BothPeopleConfirmed, JoinedIsAdmitted
<1> QED
    BY <1>6, <1>8, <1>9, <1>10 DEF IInv

\* A joiner's confirmation: said, then recorded and a run started.
LEMMA JoinerClicks ==
    ASSUME IInv, NEW k \in Click, RecordConfirmation(k) \/ \E s \in Session : ConfirmJoiner(k, s)
    PROVE  IInv'
<1> USE NoneAssumption
<1>1. /\ joiner \in [Session -> Side] /\ clickJ \in [Click -> Session \cup {None}]
      /\ joinerSaid \subseteq Session /\ finishing \subseteq Finish
    BY DEF IInv, TypeOK, Shape
<1>2. UNCHANGED <<member, thread, call, cancels, clickM, admitted, belongs, memberSaid>>
    BY DEF RecordConfirmation, ConfirmJoiner, Said
<1>3. joinerSaid \subseteq joinerSaid' /\ joinerSaid' \subseteq Session
    BY <1>1 DEF RecordConfirmation, ConfirmJoiner, Said
<1>4. clickJ' \in [Click -> Session \cup {None}]
    BY <1>1 DEF RecordConfirmation, ConfirmJoiner
<1>5. ClicksGood'
    BY <1>1, <1>2, <1>3 DEF IInv, ClicksGood, LetIn, RecordConfirmation, ConfirmJoiner
<1>6. CASE \E s \in Session : ConfirmJoiner(k, s)
    <2>1. UNCHANGED <<joiner, finishing>>
        BY <1>6 DEF ConfirmJoiner
    <2>2. TypeOK'
        BY <2>1, <1>2, <1>3, <1>4 DEF IInv, TypeOK, Shape, OneRun, ByThread
    <2>3. SessionsGood' /\ RunsGood'
        BY <2>1, <1>2, <1>3 DEF IInv, SessionsGood, RunsGood, LetIn
    <2>4. BothPeopleConfirmed' /\ JoinedIsAdmitted'
        BY <1>2, <1>3 DEF IInv, BothPeopleConfirmed, JoinedIsAdmitted
    <2> QED
        BY <2>2, <2>3, <2>4, <1>5 DEF IInv
<1>7. CASE RecordConfirmation(k)
    <2> DEFINE s   == clickJ[k]
               new == [joiner EXCEPT ![s].confirmed = TRUE]
    <2>1. s \in Session /\ s \in joinerSaid
        BY <1>1, <1>7 DEF RecordConfirmation, IInv, ClicksGood
    <2>2. /\ new \in [Session -> Side]
          /\ \A t \in Session : /\ t # s => new[t].confirmed = joiner[t].confirmed
                                /\ new[t].welcome = joiner[t].welcome
        BY <1>1, <2>1 DEF Side
    <2>3. joiner' = Becomes(new, s, "waiting") /\ Begin(k, s)
        BY <1>7 DEF RecordConfirmation
    <2> HIDE DEF new
    <2>4. /\ joiner' \in [Session -> Side]
          /\ \A t \in Session : /\ joiner'[t].welcome = new[t].welcome
                                /\ joiner'[t].confirmed = new[t].confirmed
        BY <2>1, <2>2, <2>3, BecomesSide DEF State, Opened
    <2>5. \A t \in Session : /\ joiner'[t].welcome => joiner[t].welcome
                             /\ joiner'[t].confirmed => joiner[t].confirmed \/ t \in joinerSaid
        BY <2>1, <2>2, <2>4
    <2>6. finishing' \subseteq Finish /\ \A t \in Session : ByThread(t)' = ByThread(t)
        BY <1>1, <2>1, <2>3 DEF Begin, Finish, ByThread
    <2>7. TypeOK'
        BY <2>4, <2>6, <1>2, <1>3, <1>4 DEF IInv, TypeOK, Shape, OneRun
    <2>8. SessionsGood'
        BY <2>5, <1>2, <1>3 DEF IInv, SessionsGood, LetIn
    <2>9. RunsGood'
        BY <2>3, <1>2, <1>3 DEF Begin, IInv, RunsGood, LetIn
    <2>10. BothPeopleConfirmed' /\ JoinedIsAdmitted'
        BY <1>2, <1>3 DEF IInv, BothPeopleConfirmed, JoinedIsAdmitted
    <2> QED
        BY <2>7, <2>8, <2>9, <2>10, <1>5 DEF IInv
<1> QED
    BY <1>6, <1>7

\* A run takes a welcome only when this side has confirmed, applies it and closes the session.
LEMMA FinishSteps ==
    ASSUME IInv, NEW f \in finishing, TakeWelcome(f) \/ ApplyPairingWelcome(f) \/ CloseSession(f)
    PROVE  IInv'
<1> USE OfAssumption, NoneAssumption
<1>1. /\ joiner \in [Session -> Side] /\ thread \in [Session -> At] /\ finishing \subseteq Finish
      /\ f.session \in Session /\ belongs \subseteq Joiner
      /\ f.at \in {"start", "taken", "joined", "failed"} /\ f.by \in Click \cup {"poll"}
    BY DEF IInv, TypeOK, Shape, Finish
<1>2. UNCHANGED <<member, call, cancels, clickM, clickJ, admitted, Said>>
    BY DEF TakeWelcome, ApplyPairingWelcome, CloseSession
<1>3. /\ Becomes(joiner, f.session, f.at) \in [Session -> Side] \/ f.at \notin {"joined", "failed"}
      /\ f.at \in {"joined", "failed"} =>
            \A t \in Session : /\ Becomes(joiner, f.session, f.at)[t].welcome = joiner[t].welcome
                               /\ Becomes(joiner, f.session, f.at)[t].confirmed = joiner[t].confirmed
    BY <1>1, BecomesSide DEF State, Closed
<1>4. /\ joiner' \in [Session -> Side]
      /\ \A t \in Session : /\ joiner'[t].welcome = joiner[t].welcome
                            /\ joiner'[t].confirmed = joiner[t].confirmed
    BY <1>1, <1>3 DEF TakeWelcome, ApplyPairingWelcome, CloseSession
<1>5. \/ Return(f)
      \/ \E at \in {"taken", "joined", "failed"} : Advance(f, at) /\ UNCHANGED thread
    BY DEF TakeWelcome, ApplyPairingWelcome, CloseSession
<1>6. finishing' \subseteq Finish /\ thread' \in [Session -> At]
    BY <1>1, <1>5 DEF Return, Advance, Finish, At
<1>7. \A t \in Session : OneRun(t)'
    <2>1. CASE Return(f) /\ f.by = "poll"
        BY <1>1, <2>1 DEF Return, OneRun, ByThread, IInv, TypeOK
    <2>2. CASE Return(f) /\ f.by # "poll"
        BY <1>1, <2>2 DEF Return, OneRun, ByThread, IInv, TypeOK
    <2>3. ASSUME NEW at \in {"taken", "joined", "failed"}, Advance(f, at), UNCHANGED thread
          PROVE  \A t \in Session : OneRun(t)'
        <3>1. \A t \in Session :
                 ByThread(t)' = {g \in (finishing \ {f}) \cup {[by |-> f.by, session |-> f.session, at |-> at]} :
                                    g.by = "poll" /\ g.session = t}
            BY <2>3 DEF Advance, ByThread
        <3>2. \A t \in Session : OneRun(t)
            BY DEF IInv, TypeOK
        <3>3. \A t \in Session :
                 \/ ByThread(t)' = ByThread(t) /\ ~(f.by = "poll" /\ f.session = t)
                 \/ /\ f \in ByThread(t)
                    /\ ByThread(t)' = {[by |-> f.by, session |-> f.session, at |-> at]}
            BY <1>1, <3>1, <3>2 DEF OneRun, ByThread
        <3>4. ASSUME NEW t \in Session PROVE OneRun(t)'
            <4>1. CASE ByThread(t)' = ByThread(t)
                BY <2>3, <3>2, <4>1 DEF OneRun
            <4>2. CASE /\ f \in ByThread(t)
                       /\ ByThread(t)' = {[by |-> f.by, session |-> f.session, at |-> at]}
                <5>1. thread'[t] = "finishing"
                    BY <2>3, <3>2, <4>2 DEF OneRun
                <5> QED
                    BY <4>2, <5>1 DEF OneRun
            <4> QED
                BY <3>3, <4>1, <4>2
        <3> QED
            BY <3>4
    <2> QED
        BY <1>5, <2>1, <2>2, <2>3
<1>8. belongs' \subseteq Joiner
    BY <1>1 DEF TakeWelcome, ApplyPairingWelcome, CloseSession
<1>9. TypeOK'
    BY <1>2, <1>4, <1>6, <1>7, <1>8 DEF IInv, TypeOK, Shape, Said
<1>10. ClicksGood' /\ SessionsGood'
    BY <1>2, <1>4 DEF IInv, ClicksGood, SessionsGood, LetIn, Said
<1>11. RunsGood'
    <2>1. CASE Return(f)
        BY <1>2, <2>1 DEF Return, IInv, RunsGood, LetIn, Said
    <2>2. ASSUME NEW at \in {"taken", "joined", "failed"}, Advance(f, at), ~Return(f)
          PROVE  RunsGood'
        <3>1. LetIn(f.session) /\ f.session \in joinerSaid
            BY <1>1, <2>2 DEF TakeWelcome, ApplyPairingWelcome, CloseSession, IInv, RunsGood, SessionsGood
        <3> QED
            BY <1>2, <2>2, <3>1 DEF Advance, IInv, RunsGood, LetIn, Said
    <2> QED
        BY <1>5, <2>1, <2>2
<1>12. BothPeopleConfirmed' /\ JoinedIsAdmitted'
    <2>1. CASE UNCHANGED belongs
        BY <1>2, <2>1 DEF IInv, BothPeopleConfirmed, JoinedIsAdmitted, Said
    <2>2. CASE belongs' = belongs \cup {Of[f.session]} /\ f.at = "taken"
        <3>1. LetIn(f.session) /\ f.session \in joinerSaid
            BY <2>2 DEF IInv, RunsGood
        <3> QED
            BY <1>1, <1>2, <2>2, <3>1 DEF IInv, BothPeopleConfirmed, JoinedIsAdmitted, LetIn, Said
    <2> QED
        BY <2>1, <2>2 DEF TakeWelcome, ApplyPairingWelcome, CloseSession
<1> QED
    BY <1>9, <1>10, <1>11, <1>12 DEF IInv

\* A restart only takes sessions, clicks and runs away.
LEMMA Restarts == ASSUME IInv, RestartMember \/ \E d \in Joiner : RestartJoiner(d) PROVE IInv'
<1> USE OfAssumption, NoneAssumption DEF IInv, TypeOK, Shape
<1>1. CASE RestartMember
    <2>1. TypeOK'
        BY <1>1 DEF RestartMember, OneRun, ByThread, NoSide, NoClick, Side, State, ClickM, Outcome, Said
    <2>2. ClicksGood' /\ SessionsGood' /\ RunsGood'
        BY <1>1 DEF RestartMember, ClicksGood, SessionsGood, RunsGood, LetIn, NoSide, NoClick, Said
    <2> QED
        BY <1>1, <2>1, <2>2 DEF RestartMember, BothPeopleConfirmed, JoinedIsAdmitted, Said
<1>2. ASSUME NEW d \in Joiner, RestartJoiner(d) PROVE IInv'
    <2>1. Shape'
        BY <1>2 DEF RestartJoiner, NoSide, Side, State, At, Said
    <2>2. \A t \in Session : OneRun(t)'
        BY <1>2 DEF RestartJoiner, OneRun, ByThread, Finish
    <2>3. ClicksGood' /\ RunsGood'
        BY <1>2 DEF RestartJoiner, ClicksGood, RunsGood, LetIn, Said
    <2>4. SessionsGood'
        BY <1>2 DEF RestartJoiner, SessionsGood, LetIn, NoSide, Said
    <2> QED
        BY <1>2, <2>1, <2>2, <2>3, <2>4 DEF RestartJoiner, BothPeopleConfirmed, JoinedIsAdmitted, Said
<1> QED
    BY <1>1, <1>2

LEMMA NextInvariant == IInv /\ [Next]_vars => IInv'
<1> SUFFICES ASSUME IInv, [Next]_vars PROVE IInv'
    OBVIOUS
<1>1. ASSUME NEW s \in Session, Quiet(s) PROVE IInv'
    BY <1>1, QuietSteps
<1>2. ASSUME NEW s \in Session, Poll(s) \/ PollDone(s) PROVE IInv'
    BY <1>2, PollSteps
<1>3. ASSUME NEW k \in Click,
             \/ \E s \in Session : ConfirmMember(k, s)
             \/ AdmitWithWelcome(k) \/ AdmissionFails(k) \/ StoreWelcome(k)
      PROVE  IInv'
    BY <1>3, MemberClicks
<1>4. ASSUME NEW k \in Click, RecordConfirmation(k) \/ \E s \in Session : ConfirmJoiner(k, s) PROVE IInv'
    BY <1>4, JoinerClicks
<1>5. ASSUME NEW f \in finishing, TakeWelcome(f) \/ ApplyPairingWelcome(f) \/ CloseSession(f) PROVE IInv'
    BY <1>5, FinishSteps
<1>6. ASSUME RestartMember \/ \E d \in Joiner : RestartJoiner(d) PROVE IInv'
    BY <1>6, Restarts
<1>7. CASE UNCHANGED vars
    BY <1>7 DEF vars, Said, IInv, TypeOK, Shape, OneRun, ByThread, ClicksGood, SessionsGood, RunsGood, LetIn,
        BothPeopleConfirmed, JoinedIsAdmitted
<1> QED
    BY <1>1, <1>2, <1>3, <1>4, <1>5, <1>6, <1>7 DEF Next, Quiet

LEMMA InvariantHolds == Spec => []IInv
BY InitInvariant, NextInvariant, PTL DEF Spec

\* Every variable keeps its shape, and a goroutine that finishes has exactly one run.
THEOREM TypeCorrect == Spec => []TypeOK
BY InvariantHolds, PTL DEF IInv

\* Nobody comes to hold the circle without both people's confirmation of one session.
THEOREM JoiningTakesTwo == Spec => []BothPeopleConfirmed
BY InvariantHolds, PTL DEF IInv

\* Whoever holds the circle has been written to the member's roster first.
THEOREM JoinersAreAdmitted == Spec => []JoinedIsAdmitted
BY InvariantHolds, PTL DEF IInv

\* Joining takes the confirmations of both people, and the member's roster before the joiner's
\* file, whatever messages are lost and whichever Core stops (confirmPairing, finishJoinerPairing).
THEOREM JoiningTakesAgreement == Spec => []JoiningIsAgreed
<1>1. BothPeopleConfirmed /\ JoinedIsAdmitted => JoiningIsAgreed
    BY DEF JoiningIsAgreed
<1> QED
    BY <1>1, JoiningTakesTwo, JoinersAreAdmitted, PTL

-----------------------------------------------------------------------------
(* Who hosts the chat.                                                      *)

\* Nobody passes its own broker over, so there is always somebody to elect.
ElectsSomebody == \A d \in Device : gone[d][d] = 0

\* A device that neither pauses nor acts on announcements tries to link only
\* when it has no link; it has nothing noted while it has one, and what it
\* noted is no older than what it has tried since.
Loyal(d) ==
    /\ d \in busy => ~Linked(d)
    /\ Linked(d) => failing[d] = NoMark
    /\ \A h \in Device : failing[d][h] <= trying[d][h]

Steady == Device \ (scene.watchers \cup scene.restless)

\* A link, working or not, ends with its device.
LinksAreUp == \A d \in Device : Linked(d) => d \in up

MeshInv == MeshTypeOK /\ ElectsSomebody /\ LinksAreUp /\ \A d \in Steady : Loyal(d)

LEMMA RanksAreNumbers == \A h \in Device : Rank[h] \in Nat
<1> SUFFICES ASSUME NEW h \in Device PROVE Rank[h] \in Nat
    OBVIOUS
<1>1. Order \in Seq(Device) /\ Len(Order) \in Nat /\ DOMAIN Order = 1..Len(Order)
    BY OrderAssumption
<1>2. \A e \in Device : Place(e) \in 1..Len(Order)
    <2> SUFFICES ASSUME NEW e \in Device PROVE Place(e) \in 1..Len(Order)
        OBVIOUS
    <2>1. \E i \in DOMAIN Order : Order[i] = e
        BY DEF Device
    <2>2. Place(e) \in DOMAIN Order
        BY <2>1 DEF Place
    <2> QED
        BY <1>1, <2>2
<1>3. Place(h) \in Int /\ Place(Creator) \in Int /\ Len(Order) > 0
    BY <1>1, <1>2, OrderAssumption
<1>4. (Place(h) - Place(Creator)) % Len(Order) \in Nat
    BY <1>1, <1>3
<1> QED
    BY <1>4 DEF Rank

LEMMA FirstIsOne ==
    ASSUME NEW S \in SUBSET Device, S # {} PROVE FirstOf(S) \in S
<1> DEFINE ranks == {Rank[h] : h \in S}
<1>1. ranks \in SUBSET Nat /\ ranks # {}
    BY RanksAreNumbers
<1>2. IsWellFoundedOn(OpToRel(<, Nat), Nat)
    BY NatLessThanWellFounded
<1>3. PICK r \in ranks : \A q \in ranks : ~(<<q, r>> \in OpToRel(<, Nat))
    BY <1>1, <1>2, WFMin
<1>4. \A q \in ranks : r <= q
    <2> HIDE DEF ranks
    <2>1. \A q \in ranks : ~(q < r)
        BY <1>1, <1>3 DEF OpToRel
    <2> QED
        BY <1>1, <2>1
<1>5. PICK h \in S : Rank[h] = r
    OBVIOUS
<1>6. \A e \in S : Rank[h] <= Rank[e]
    BY <1>4, <1>5
<1> QED
    BY <1>5, <1>6 DEF FirstOf

LEMMA ElectedIsSane ==
    ASSUME ElectsSomebody, NEW d \in Device
    PROVE  ElectBroker(d) \in Device /\ gone[d][ElectBroker(d)] = 0
<1>1. {h \in Device : gone[d][h] = 0} # {}
    BY DEF ElectsSomebody
<1> QED
    BY <1>1, FirstIsOne DEF ElectBroker

LEMMA MarksAreSane == NoMark \in [Device -> 0..GoneTTL] /\ NoMark \in [Device -> Age] /\ \A h \in Device : NoMark[h] = 0
BY TimeAssumption DEF NoMark, Age

LEMMA AgesAge ==
    ASSUME NEW ages \in [Device -> Age]
    PROVE  /\ Older(ages) \in [Device -> Age]
           /\ \A h \in Device : Note(ages, h) \in [Device -> Age]
           /\ \A later \in [Device -> Age] :
                (\A h \in Device : ages[h] <= later[h]) =>
                  /\ \A h \in Device : Older(ages)[h] <= Older(later)[h]
                  /\ \A g, h \in Device : ages[h] <= Note(later, g)[h]
                  /\ \A g, h \in Device : Note(ages, g)[h] <= Note(later, g)[h]
<1>1. \A h \in Device : ages[h] \in Age
    OBVIOUS
<1>2. Older(ages) \in [Device -> Age]
    BY <1>1, TimeAssumption DEF Older, Age
<1>3. \A h \in Device : Note(ages, h) \in [Device -> Age]
    BY <1>1, TimeAssumption DEF Note, Age
<1>4. ASSUME NEW later \in [Device -> Age], \A h \in Device : ages[h] <= later[h]
      PROVE  /\ \A h \in Device : Older(ages)[h] <= Older(later)[h]
             /\ \A g, h \in Device : ages[h] <= Note(later, g)[h]
             /\ \A g, h \in Device : Note(ages, g)[h] <= Note(later, g)[h]
    <2>1. \A h \in Device : ages[h] \in Age /\ later[h] \in Age /\ ages[h] <= later[h]
        BY <1>4
    <2>2. \A h \in Device : Older(ages)[h] <= Older(later)[h]
        BY <2>1, TimeAssumption DEF Older, Age
    <2>3. \A g, h \in Device : ages[h] <= Note(later, g)[h]
        BY <2>1, TimeAssumption DEF Note, Age
    <2>4. \A g, h \in Device : Note(ages, g)[h] <= Note(later, g)[h]
        BY <2>1, TimeAssumption DEF Note, Age
    <2> QED
        BY <2>2, <2>3, <2>4
<1> QED
    BY <1>2, <1>3, <1>4

LEMMA MarksFade ==
    ASSUME NEW marks \in [Device -> 0..GoneTTL]
    PROVE  /\ Sooner(marks) \in [Device -> 0..GoneTTL]
           /\ \A h \in Device : Sooner(marks)[h] <= marks[h]
           /\ \A h \in Device : marks[h] = 0 => Sooner(marks)[h] = 0
<1>1. \A h \in Device : marks[h] \in 0..GoneTTL
    OBVIOUS
<1> QED
    BY <1>1, TimeAssumption DEF Sooner

-----------------------------------------------------------------------------
(* Links.                                                                   *)

LinkGood(d) == link[d].client = "live" => d \in up /\ Reaches(d, link[d].host) /\ link[d].host \in broker

WorkingLinksKept ==
    \A d \in Device : LET h == link[d].host IN
        link[d].client = "live" /\ link'[d].client # "live" =>
            \/ d \notin up' \/ h \notin up' \/ {d, h} \notin reach'
            \/ h # d /\ link[h].host # h /\ link'[h].host = h

Patience == \A d \in Steady : WaitsForHost(d)

LEMMA CastIsSane ==
    ASSUME NEW l \in [Device -> Link], NEW h \in Device
    PROVE  /\ Cast(l, h) \in [Device -> Link]
           /\ Cast(l, h)[h] = l[h]
           /\ \A e \in Device : /\ Cast(l, h)[e].host = l[e].host
                                /\ Cast(l, h)[e].client = "none" <=> l[e].client = "none"
                                /\ Cast(l, h)[e].client = "live" => l[e].client = "live" /\ (e = h \/ l[e].host # h)
                                /\ Cast(l, h)[e] # l[e] => e # h /\ l[e].host = h
<1>1. ASSUME NEW e \in Device
      PROVE  /\ Cast(l, h)[e] \in Link
             /\ Cast(l, h)[e].host = l[e].host
             /\ Cast(l, h)[e].client = "none" <=> l[e].client = "none"
             /\ Cast(l, h)[e].client = "live" => l[e].client = "live" /\ (e = h \/ l[e].host # h)
             /\ Cast(l, h)[e] # l[e] => e # h /\ l[e].host = h
    <2>1. l[e] \in Link
        OBVIOUS
    <2>2. CASE e # h /\ l[e] = [host |-> h, client |-> "live"]
        <3>1. Cast(l, h)[e] = [l[e] EXCEPT !.client = "dead"]
            BY <2>2 DEF Cast
        <3> QED
            BY <2>1, <2>2, <3>1 DEF Link, Client
    <2>3. CASE ~(e # h /\ l[e] = [host |-> h, client |-> "live"])
        <3>1. Cast(l, h)[e] = l[e]
            BY <2>3 DEF Cast
        <3>2. l[e] = [host |-> l[e].host, client |-> l[e].client]
            BY <2>1 DEF Link
        <3> QED
            BY <2>1, <2>3, <3>1, <3>2
    <2> QED
        BY <2>2, <2>3
<1>2. Cast(l, h)[h] = l[h]
    BY DEF Cast
<1>3. Cast(l, h) \in [Device -> Link]
    <2>1. Cast(l, h) = [e \in Device |-> Cast(l, h)[e]]
        BY DEF Cast
    <2> QED
        BY <1>1, <2>1
<1> QED
    BY <1>1, <1>2, <1>3

\* A new link works, and nobody loses one but the guests of an older broker of d's own.
LEMMA LinkIsMade ==
    ASSUME MeshTypeOK, NEW d \in up, NEW h \in Device, UNCHANGED <<up, reach>>,
           \/ LinkOnce(d, h)
           \/ Reaches(d, h) /\ ConnectMeshClient(d, h)
    PROVE  /\ link' \in [Device -> Link] /\ broker' \subseteq up'
           /\ \A e \in Device : LinkGood(e)'
           /\ \A e \in Device \ {d} : Linked(e)' <=> Linked(e)
           /\ Linked(d)' /\ link'[d].host = h
           /\ WorkingLinksKept
<1>1. /\ link \in [Device -> Link] /\ broker \subseteq up /\ up \subseteq Device /\ d \in Device
      /\ \A e \in Device : LinkGood(e) /\ link[e] \in Link
    BY DEF MeshTypeOK, LinkGood
<1>2. CASE AlreadyLinked(d, h) /\ UNCHANGED <<link, broker>>
    <2>1. \A e \in Device : LinkGood(e)' /\ (Linked(e)' <=> Linked(e))
        BY <1>1, <1>2 DEF LinkGood, Linked, Reaches
    <2>2. Linked(d) /\ link[d].host = h
        BY <1>2 DEF AlreadyLinked
    <2>3. WorkingLinksKept
        BY <1>2 DEF WorkingLinksKept
    <2> QED
        BY <1>1, <1>2, <2>1, <2>2, <2>3
<1>3. CASE Reaches(d, h) /\ ConnectMeshClient(d, h)
    <2> DEFINE linked == [link EXCEPT ![d] = [host |-> h, client |-> "live"]]
    <2>1. /\ linked \in [Device -> Link]
          /\ linked[d].host = h /\ linked[d].client = "live"
          /\ \A e \in Device \ {d} : linked[e] = link[e]
        BY <1>1 DEF Link, Client
    <2>2. /\ link' = IF h = d /\ ~KeepsBroker(d) THEN Cast(linked, d) ELSE linked
          /\ broker' = IF h = d THEN broker \cup {d} ELSE broker
        BY <1>3 DEF ConnectMeshClient
    <2> HIDE DEF linked
    <2>3. broker' \subseteq up' /\ broker \subseteq broker' /\ h \in broker' /\ up' = up
        BY <1>1, <1>3, <2>2 DEF Reaches
    <2>4. link' \in [Device -> Link] /\ link'[d] = linked[d]
        BY <1>1, <2>1, <2>2, CastIsSane
    <2>5. ASSUME NEW e \in Device \ {d}
          PROVE  /\ link'[e].host = link[e].host
                 /\ link'[e].client = "none" <=> link[e].client = "none"
                 /\ link'[e].client = "live" => link[e].client = "live"
                 /\ link'[e] # link[e] => h = d /\ ~KeepsBroker(d) /\ link[e].host = d
        BY <1>1, <2>1, <2>2, CastIsSane
    <2>6. LinkGood(d)'
        BY <1>3, <2>1, <2>3, <2>4 DEF LinkGood, Reaches
    <2>7. \A e \in Device \ {d} : LinkGood(e)'
        BY <1>1, <2>3, <2>5 DEF LinkGood, Reaches
    <2>8. WorkingLinksKept
        <3> SUFFICES ASSUME NEW e \in Device, link[e].client = "live", link'[e].client # "live"
                     PROVE  LET g == link[e].host IN g # e /\ link[g].host # g /\ link'[g].host = g
            BY DEF WorkingLinksKept
        <3>1. e # d
            BY <2>1, <2>4
        <3>2. h = d /\ ~KeepsBroker(d) /\ link[e].host = d
            BY <2>5, <3>1
        <3>3. d \in broker
            BY <1>1, <3>2 DEF LinkGood
        <3>4. link[d].host # d
            BY <3>2, <3>3 DEF KeepsBroker
        <3> QED
            BY <2>1, <2>4, <3>1, <3>2, <3>4
    <2> QED
        BY <2>1, <2>3, <2>4, <2>5, <2>6, <2>7, <2>8 DEF Linked
<1> QED
    BY <1>2, <1>3 DEF LinkOnce

LEMMA LinksStay ==
    ASSUME MeshTypeOK, UNCHANGED <<up, reach, broker, link>>
    PROVE  /\ link' \in [Device -> Link] /\ broker' \subseteq up'
           /\ \A e \in Device : LinkGood(e)' /\ (Linked(e)' <=> Linked(e))
           /\ WorkingLinksKept
BY DEF MeshTypeOK, LinkGood, Linked, Reaches, WorkingLinksKept

-----------------------------------------------------------------------------
(* Steps of one device.                                                     *)

Shapes == /\ MeshTypeOK /\ ElectsSomebody
          /\ gone \in [Device -> [Device -> 0..GoneTTL]]
          /\ failing \in [Device -> [Device -> Age]]
          /\ trying \in [Device -> [Device -> Age]]
          /\ \A d \in Device : /\ gone[d] \in [Device -> 0..GoneTTL]
                               /\ failing[d] \in [Device -> Age]
                               /\ trying[d] \in [Device -> Age]

\* What has to be seen of a step that only d takes part in, but for links.
LEMMA StepOfOne ==
    ASSUME MeshInv, NEW d \in Device, MeshTypeOK', UNCHANGED <<scene, up>>, d \in up, gone'[d][d] = 0,
           \A e \in Device \ {d} : /\ e \in busy' <=> e \in busy
                                   /\ Linked(e)' <=> Linked(e)
                                   /\ gone'[e] = gone[e] /\ failing'[e] = failing[e] /\ trying'[e] = trying[e],
           d \in Steady => Loyal(d)' /\ WaitsForHost(d)
    PROVE  MeshInv' /\ Patience
<1>1. ElectsSomebody' /\ LinksAreUp'
    BY DEF MeshInv, ElectsSomebody, LinksAreUp
<1>2. Steady' = Steady
    BY DEF Steady
<1>3. ASSUME NEW e \in Steady PROVE Loyal(e)' /\ WaitsForHost(e)
    <2>1. CASE e = d
        BY <1>3, <2>1
    <2>2. CASE e # d
        <3>1. Loyal(e) /\ e \in Device
            BY <1>3 DEF MeshInv, Steady
        <3>2. gone \in [Device -> [Device -> 0..GoneTTL]]
            BY DEF MeshInv, MeshTypeOK
        <3>3. \A h \in Device : ~(gone'[e][h] > gone[e][h])
            BY <2>2, <3>1, <3>2
        <3> QED
            BY <2>2, <3>1, <3>3 DEF Loyal, WaitsForHost
    <2> QED
        BY <2>1, <2>2
<1> QED
    BY <1>1, <1>2, <1>3 DEF MeshInv, Patience

LEMMA HasShape == ASSUME MeshInv PROVE Shapes
BY DEF MeshInv, MeshTypeOK, Shapes

LEMMA RecoverLinksKeeps ==
    ASSUME MeshInv, NEW d \in Device, RecoverLinks(d) PROVE MeshInv' /\ WorkingLinksKept /\ Patience
<1> DEFINE h == ElectBroker(d)
<1>1. Shapes /\ h \in Device /\ d \in up /\ d \in busy
    BY HasShape, ElectedIsSane DEF MeshInv, MeshTypeOK, RecoverLinks
<1>2. LinkOnce(d, h) /\ UNCHANGED <<scene, up, reach, gone, events>> /\ busy' = busy \ {d}
      /\ trying' = [trying EXCEPT ![d][h] = 0] /\ failing' = [failing EXCEPT ![d] = NoMark]
    BY DEF RecoverLinks, world
<1> HIDE DEF h
<1>3. /\ link' \in [Device -> Link] /\ broker' \subseteq up'
      /\ \A e \in Device : LinkGood(e)'
      /\ \A e \in Device \ {d} : Linked(e)' <=> Linked(e)
      /\ WorkingLinksKept
    BY <1>1, <1>2, LinkIsMade DEF Shapes
<1>4. trying' \in [Device -> [Device -> Age]] /\ failing' \in [Device -> [Device -> Age]]
    BY <1>1, <1>2, MarksAreSane, TimeAssumption DEF Shapes, Age
<1>5. MeshTypeOK'
    BY <1>1, <1>2, <1>3, <1>4 DEF Shapes, MeshTypeOK, LinkGood
<1>6. Loyal(d)' /\ WaitsForHost(d)
    <2>1. failing'[d] = NoMark /\ \A g \in Device : trying'[d][g] \in Age /\ NoMark[g] = 0
        BY <1>1, <1>2, <1>4, MarksAreSane DEF Shapes
    <2> QED
        BY <1>2, <2>1 DEF Loyal, WaitsForHost, Age
<1>7. gone'[d][d] = 0
    BY <1>1, <1>2 DEF Shapes, ElectsSomebody
<1> QED
    BY <1>1, <1>2, <1>3, <1>5, <1>6, <1>7, StepOfOne DEF Shapes

LEMMA RecoverWaitsKeeps ==
    ASSUME MeshInv, NEW d \in Device, RecoverWaits(d) PROVE MeshInv' /\ WorkingLinksKept /\ Patience
<1> DEFINE h == ElectBroker(d)
<1>1. Shapes /\ h \in Device /\ d \in up /\ d \in busy
    BY HasShape, ElectedIsSane DEF MeshInv, MeshTypeOK, RecoverWaits
<1>2. UNCHANGED <<scene, up, reach, broker, link, gone, events>> /\ busy' = busy \ {d}
      /\ trying' = [trying EXCEPT ![d] = Note(@, h)] /\ failing' = [failing EXCEPT ![d] = Note(@, h)]
    BY DEF RecoverWaits, world
<1> HIDE DEF h
<1>3. trying' \in [Device -> [Device -> Age]] /\ failing' \in [Device -> [Device -> Age]]
      /\ trying'[d] = Note(trying[d], h) /\ failing'[d] = Note(failing[d], h)
    BY <1>1, <1>2, AgesAge DEF Shapes
<1>4. MeshTypeOK' /\ WorkingLinksKept /\ \A e \in Device : Linked(e)' <=> Linked(e)
    BY <1>1, <1>2, <1>3, LinksStay DEF Shapes, MeshTypeOK, LinkGood
<1>5. ASSUME d \in Steady PROVE Loyal(d)' /\ WaitsForHost(d)
    <2>1. Loyal(d)
        BY <1>5 DEF MeshInv
    <2>2. \A g \in Device : failing'[d][g] <= trying'[d][g]
        BY <1>1, <1>3, <2>1, AgesAge DEF Shapes, Loyal
    <2> QED
        BY <1>1, <1>2, <1>4, <2>1, <2>2 DEF Loyal, WaitsForHost
<1>6. gone'[d][d] = 0
    BY <1>1, <1>2 DEF Shapes, ElectsSomebody
<1> QED
    BY <1>1, <1>2, <1>4, <1>5, <1>6, StepOfOne DEF Shapes

LEMMA RecoverGivesUpKeeps ==
    ASSUME MeshInv, NEW d \in Device, RecoverGivesUp(d) PROVE MeshInv' /\ WorkingLinksKept /\ Patience
<1> DEFINE h == ElectBroker(d)
<1>1. Shapes /\ h \in Device /\ h # d /\ d \in busy /\ d \in up /\ failing[d][h] > 1
    <2>1. Shapes /\ h \in Device
        BY HasShape, ElectedIsSane DEF MeshInv
    <2> QED
        BY <2>1 DEF RecoverGivesUp, FailsOnce, MayGiveUp, Shapes, MeshTypeOK
<1>2. UNCHANGED <<scene, up, reach, broker, link, failing, busy, events>>
      /\ gone' = [gone EXCEPT ![d][h] = GoneTTL] /\ trying' = [trying EXCEPT ![d] = Note(@, h)]
    BY DEF RecoverGivesUp, world
<1> HIDE DEF h
<1>3. trying' \in [Device -> [Device -> Age]] /\ trying'[d] = Note(trying[d], h)
      /\ gone' \in [Device -> [Device -> 0..GoneTTL]]
    <2>1. trying' \in [Device -> [Device -> Age]] /\ trying'[d] = Note(trying[d], h)
        BY <1>1, <1>2, AgesAge DEF Shapes
    <2>2. GoneTTL \in 0..GoneTTL
        BY TimeAssumption
    <2>3. gone' \in [Device -> [Device -> 0..GoneTTL]]
        BY <1>1, <1>2, <2>2 DEF Shapes
    <2> QED
        BY <2>1, <2>3
<1>4. MeshTypeOK' /\ WorkingLinksKept /\ \A e \in Device : Linked(e)' <=> Linked(e)
    BY <1>1, <1>2, <1>3, LinksStay DEF Shapes, MeshTypeOK, LinkGood
<1>5. ASSUME d \in Steady PROVE Loyal(d)' /\ WaitsForHost(d)
    <2>1. Loyal(d)
        BY <1>5 DEF MeshInv
    <2>2. \A g \in Device : failing'[d][g] <= trying'[d][g]
        BY <1>1, <1>2, <1>3, <2>1, AgesAge DEF Shapes, Loyal
    <2>3. \A g \in Device : gone'[d][g] > gone[d][g] => g = h
        BY <1>1, <1>2 DEF Shapes
    <2>4. trying[d][h] > 1
        BY <1>1, <2>1 DEF Loyal, Shapes, Age
    <2> QED
        BY <1>1, <1>2, <1>4, <2>1, <2>2, <2>3, <2>4 DEF Loyal, WaitsForHost
<1>6. gone'[d][d] = 0
    BY <1>1, <1>2 DEF Shapes, ElectsSomebody
<1> QED
    BY <1>1, <1>2, <1>4, <1>5, <1>6, StepOfOne DEF Shapes

\* chatFailBack in d: the marks fade and what is failing ages.
LEMMA PassMarks ==
    ASSUME Shapes, NEW d \in Device, Tick(d)
    PROVE  /\ d \in up /\ d \notin busy
           /\ failing' \in [Device -> [Device -> Age]]
           /\ failing'[d] = Older(failing[d]) /\ \A e \in Device \ {d} : failing'[e] = failing[e]
           /\ Older(trying[d]) \in [Device -> Age]
           /\ Sooner(gone[d]) \in [Device -> 0..GoneTTL]
           /\ Sooner(gone[d])[d] = 0
           /\ failing[d] = NoMark => failing'[d] = NoMark
<1>1. failing' = [failing EXCEPT ![d] = Older(@)] /\ d \in up /\ d \notin busy
    BY DEF Tick
<1>2. Older(failing[d]) \in [Device -> Age] /\ Older(trying[d]) \in [Device -> Age]
    BY AgesAge DEF Shapes
<1>3. Sooner(gone[d]) \in [Device -> 0..GoneTTL] /\ Sooner(gone[d])[d] = 0
    BY MarksFade DEF Shapes, ElectsSomebody
<1>4. Older(NoMark) = NoMark
    BY TimeAssumption DEF Older, NoMark
<1> QED
    BY <1>1, <1>2, <1>3, <1>4 DEF Shapes

\* A pass that has no other link to d than it had.
LEMMA QuietPass ==
    ASSUME MeshInv, NEW d \in Device, Tick(d), UNCHANGED <<scene, up, reach, broker, link, events>>,
           NEW marks \in [Device -> 0..GoneTTL], marks[d] = 0, gone' = [gone EXCEPT ![d] = marks],
           NEW tries \in [Device -> Age], trying' = [trying EXCEPT ![d] = tries],
           \A h \in Device : Older(trying[d])[h] <= tries[h],
           busy' \in {busy, busy \cup {d}}, busy' # busy => ~Linked(d)
    PROVE  MeshInv' /\ WorkingLinksKept /\ Patience
<1>1. Shapes
    BY HasShape
<1>2. /\ d \in up /\ d \notin busy
      /\ failing' \in [Device -> [Device -> Age]]
      /\ failing'[d] = Older(failing[d]) /\ \A e \in Device \ {d} : failing'[e] = failing[e]
      /\ Older(trying[d]) \in [Device -> Age]
      /\ failing[d] = NoMark => failing'[d] = NoMark
    BY <1>1, PassMarks
<1>3. trying' \in [Device -> [Device -> Age]] /\ gone' \in [Device -> [Device -> 0..GoneTTL]]
    BY <1>1 DEF Shapes
<1>4. MeshTypeOK' /\ WorkingLinksKept /\ \A e \in Device : Linked(e)' <=> Linked(e)
    BY <1>1, <1>2, <1>3, LinksStay DEF Shapes, MeshTypeOK, LinkGood
<1>5. ASSUME d \in Steady PROVE Loyal(d)' /\ WaitsForHost(d)
    <2>1. Loyal(d)
        BY <1>5 DEF MeshInv
    <2>2. \A h \in Device : Older(failing[d])[h] <= Older(trying[d])[h]
        BY <1>1, <2>1, AgesAge DEF Shapes, Loyal
    <2>3. \A h \in Device : failing'[d][h] \in Age /\ Older(trying[d])[h] \in Age /\ trying'[d][h] \in Age
                            /\ trying'[d][h] = tries[h]
        BY <1>1, <1>2, <1>3 DEF Shapes
    <2>4. \A h \in Device : failing'[d][h] <= trying'[d][h]
        BY <1>2, <2>2, <2>3 DEF Age
    <2> QED
        BY <1>1, <1>2, <1>4, <2>1, <2>4 DEF Loyal, WaitsForHost
<1>6. gone'[d][d] = 0 /\ \A e \in Device \ {d} : gone'[e] = gone[e] /\ trying'[e] = trying[e]
    BY <1>1 DEF Shapes
<1> QED
    BY <1>1, <1>2, <1>4, <1>5, <1>6, StepOfOne DEF Shapes

LEMMA PassesKeep ==
    ASSUME MeshInv, NEW d \in Device, PassRecovers(d) \/ PassStays(d) \/ PassFailsToMove(d)
    PROVE  MeshInv' /\ WorkingLinksKept /\ Patience
<1> DEFINE want == ElectBroker(d)
<1>1. Shapes /\ want \in Device /\ Tick(d) /\ UNCHANGED <<scene, up, reach, broker, link, events>>
    BY HasShape, ElectedIsSane DEF MeshInv, PassRecovers, PassStays, PassFailsToMove, world
<1>2. /\ Older(trying[d]) \in [Device -> Age] /\ Sooner(gone[d]) \in [Device -> 0..GoneTTL]
      /\ Sooner(gone[d])[d] = 0
    BY <1>1, PassMarks
<1>3. \A h \in Device : Older(trying[d])[h] \in Age /\ Older(trying[d])[h] <= Older(trying[d])[h]
    BY <1>2 DEF Age
<1>4. CASE PassRecovers(d) \/ PassStays(d)
    BY <1>1, <1>2, <1>3, <1>4, QuietPass DEF PassRecovers, PassStays
<1>5. CASE PassFailsToMove(d)
    <2>1. want # d
        BY <1>5 DEF PassFailsToMove, Reaches
    <2> HIDE DEF want
    <2> DEFINE marks == [Sooner(gone[d]) EXCEPT ![want] = GoneTTL]
               tries == Note(Older(trying[d]), want)
    <2>2. marks \in [Device -> 0..GoneTTL] /\ marks[d] = 0
        BY <1>1, <1>2, <2>1, TimeAssumption
    <2>3. tries \in [Device -> Age] /\ \A h \in Device : Older(trying[d])[h] <= tries[h]
        BY <1>1, <1>2, <1>3, AgesAge
    <2>4. gone' = [gone EXCEPT ![d] = marks] /\ trying' = [trying EXCEPT ![d] = tries] /\ busy' = busy
        BY <1>1, <1>5 DEF PassFailsToMove, Shapes, want
    <2> HIDE DEF marks, tries
    <2> QED
        BY <1>1, <2>2, <2>3, <2>4, QuietPass
<1> QED
    BY <1>4, <1>5

LEMMA PassMovesKeeps ==
    ASSUME MeshInv, NEW d \in Device, PassMoves(d) PROVE MeshInv' /\ WorkingLinksKept /\ Patience
<1> DEFINE want == ElectBroker(d)
<1>1. /\ Shapes /\ want \in Device /\ Tick(d) /\ UNCHANGED <<scene, up, reach, busy, events>>
      /\ Linked(d) /\ Reaches(d, want) /\ ConnectMeshClient(d, want)
      /\ trying' = [trying EXCEPT ![d] = [Older(@) EXCEPT ![want] = 0]]
      /\ gone' = [gone EXCEPT ![d] = Sooner(@)]
    BY HasShape, ElectedIsSane DEF MeshInv, PassMoves, world
<1> HIDE DEF want
<1>2. /\ d \in up /\ d \notin busy
      /\ failing' \in [Device -> [Device -> Age]]
      /\ \A e \in Device \ {d} : failing'[e] = failing[e]
      /\ Older(trying[d]) \in [Device -> Age] /\ Sooner(gone[d]) \in [Device -> 0..GoneTTL]
      /\ Sooner(gone[d])[d] = 0
      /\ failing[d] = NoMark => failing'[d] = NoMark
    BY <1>1, PassMarks
<1>3. /\ link' \in [Device -> Link] /\ broker' \subseteq up'
      /\ \A e \in Device : LinkGood(e)'
      /\ \A e \in Device \ {d} : Linked(e)' <=> Linked(e)
      /\ Linked(d)' /\ WorkingLinksKept
    BY <1>1, <1>2, LinkIsMade DEF Shapes
<1>4. trying' \in [Device -> [Device -> Age]] /\ gone' \in [Device -> [Device -> 0..GoneTTL]]
    BY <1>1, <1>2, TimeAssumption DEF Shapes, Age
<1>5. MeshTypeOK'
    BY <1>1, <1>2, <1>3, <1>4 DEF Shapes, MeshTypeOK, LinkGood
<1>6. ASSUME d \in Steady PROVE Loyal(d)' /\ WaitsForHost(d)
    <2>1. Loyal(d)
        BY <1>6 DEF MeshInv
    <2>2. failing'[d] = NoMark
        BY <1>1, <1>2, <2>1 DEF Loyal
    <2>3. \A g \in Device : trying'[d][g] \in Age /\ NoMark[g] = 0
        BY <1>4, MarksAreSane
    <2> QED
        BY <1>1, <1>2, <2>2, <2>3 DEF Loyal, WaitsForHost, Age
<1>7. gone'[d][d] = 0 /\ \A e \in Device \ {d} : gone'[e] = gone[e] /\ trying'[e] = trying[e]
    BY <1>1, <1>2 DEF Shapes
<1> QED
    BY <1>1, <1>2, <1>3, <1>5, <1>6, <1>7, StepOfOne

LEMMA ClientErrorKeeps ==
    ASSUME MeshInv, NEW d \in Device, ClientError(d) PROVE MeshInv' /\ WorkingLinksKept /\ Patience
<1>1. /\ Shapes /\ link[d].client = "dead" /\ link' = [link EXCEPT ![d].client = "none"]
      /\ busy' = busy \cup {d} /\ UNCHANGED <<scene, up, reach, broker, gone, failing, trying, events>>
    BY HasShape DEF ClientError, world
<1>2. d \in up
    BY <1>1 DEF MeshInv, LinksAreUp, Linked
<1>3. /\ link' \in [Device -> Link] /\ link'[d].client = "none" /\ link'[d].host = link[d].host
      /\ \A e \in Device \ {d} : link'[e] = link[e]
    BY <1>1 DEF Shapes, MeshTypeOK, Link, Client
<1>4. \A e \in Device : LinkGood(e)'
    BY <1>1, <1>3 DEF LinkGood, Shapes, MeshTypeOK, Reaches
<1>5. WorkingLinksKept
    BY <1>1, <1>3 DEF WorkingLinksKept
<1>6. MeshTypeOK'
    BY <1>1, <1>2, <1>3, <1>4 DEF Shapes, MeshTypeOK, LinkGood
<1>7. ASSUME d \in Steady PROVE Loyal(d)' /\ WaitsForHost(d)
    <2>1. Loyal(d) /\ Linked(d) /\ ~Linked(d)'
        BY <1>1, <1>3, <1>7 DEF MeshInv, Linked
    <2> QED
        BY <1>1, <2>1 DEF Loyal, WaitsForHost
<1>8. gone'[d][d] = 0 /\ \A e \in Device \ {d} : Linked(e)' <=> Linked(e)
    BY <1>1, <1>3 DEF Shapes, ElectsSomebody, Linked
<1> QED
    BY <1>1, <1>2, <1>5, <1>6, <1>7, <1>8, StepOfOne

LEMMA NoteDiscoveredPeerKeeps ==
    ASSUME MeshInv, NEW d \in Device, NEW h \in Device, NoteDiscoveredPeer(d, h)
    PROVE  MeshInv' /\ WorkingLinksKept /\ Patience
<1>1. /\ Shapes /\ d \in up /\ d \in scene.watchers /\ h # d /\ events > 0 /\ events' = events - 1
      /\ gone' \in {gone, [gone EXCEPT ![d][h] = 0]} /\ busy' = busy \cup {d}
      /\ UNCHANGED <<scene, up, reach, broker, link, failing, trying>>
    BY HasShape DEF NoteDiscoveredPeer, world
<1>2. /\ gone' \in [Device -> [Device -> 0..GoneTTL]] /\ gone'[d][d] = 0
      /\ \A e \in Device \ {d} : gone'[e] = gone[e]
    <2>1. CASE gone' = gone
        BY <1>1, <2>1 DEF Shapes, ElectsSomebody
    <2>2. CASE gone' = [gone EXCEPT ![d][h] = 0]
        <3>1. 0 \in 0..GoneTTL
            BY TimeAssumption
        <3> QED
            BY <1>1, <2>2, <3>1 DEF Shapes, ElectsSomebody
    <2> QED
        BY <1>1, <2>1, <2>2
<1>3. events' \in 0..MaxEvents
    BY <1>1, TimeAssumption DEF Shapes, MeshTypeOK
<1>4. MeshTypeOK' /\ WorkingLinksKept /\ \A e \in Device : Linked(e)' <=> Linked(e)
    BY <1>1, <1>2, <1>3, LinksStay DEF Shapes, MeshTypeOK, LinkGood
<1>5. d \notin Steady
    BY <1>1 DEF Steady
<1> QED
    BY <1>1, <1>2, <1>4, <1>5, StepOfOne

-----------------------------------------------------------------------------
(* Steps of the world.                                                      *)

LEMMA GoDownKeeps ==
    ASSUME MeshInv, NEW d \in Device, NEW paused \in BOOLEAN, GoDown(d, paused)
    PROVE  MeshInv' /\ WorkingLinksKept /\ Patience
<1>1. /\ Shapes /\ d \in up /\ d \in scene.restless /\ events > 0 /\ events' = events - 1
      /\ up' = up \ {d} /\ broker' = broker \ {d} /\ busy' = busy \ {d}
      /\ link' = [Cast(link, d) EXCEPT ![d] = NoLink]
      /\ gone' = [gone EXCEPT ![d] = IF paused THEN @ ELSE NoMark]
      /\ failing' = [failing EXCEPT ![d] = IF paused THEN @ ELSE NoMark]
      /\ trying' = [trying EXCEPT ![d] = NoMark]
      /\ UNCHANGED <<scene, reach>>
    BY HasShape DEF GoDown
<1>2. /\ link \in [Device -> Link] /\ \A e \in Device : LinkGood(e)
    BY <1>1 DEF Shapes, MeshTypeOK, LinkGood
<1>3. /\ link' \in [Device -> Link] /\ link'[d] = NoLink
      /\ \A e \in Device \ {d} : link'[e] = Cast(link, d)[e]
    BY <1>1, <1>2, CastIsSane DEF NoLink, Link, Client
<1>4. \A e \in Device \ {d} :
         /\ link'[e].host = link[e].host
         /\ link'[e].client = "none" <=> link[e].client = "none"
         /\ link'[e].client = "live" => link[e].client = "live" /\ link[e].host # d
         /\ link'[e] # link[e] => link[e].host = d
    BY <1>2, <1>3, CastIsSane
<1>5. \A e \in Device \ {d} : LinkGood(e)' /\ (Linked(e)' <=> Linked(e))
    <2> SUFFICES ASSUME NEW e \in Device \ {d} PROVE LinkGood(e)' /\ (Linked(e)' <=> Linked(e))
        OBVIOUS
    <2>1. Linked(e)' <=> Linked(e)
        BY <1>4 DEF Linked
    <2>2. ASSUME link'[e].client = "live"
          PROVE  /\ e \in up' /\ link'[e].host \in broker'
                 /\ link'[e].host = e \/ (link'[e].host \in up' \cap broker' /\ {e, link'[e].host} \in reach')
        <3>1. link[e].client = "live" /\ link'[e].host = link[e].host /\ link[e].host # d
            BY <1>4, <2>2
        <3>2. e \in up /\ Reaches(e, link[e].host) /\ link[e].host \in broker
            BY <1>2, <3>1 DEF LinkGood
        <3> QED
            BY <1>1, <3>1, <3>2 DEF Reaches
    <2> QED
        BY <2>1, <2>2 DEF LinkGood, Reaches
<1>6. LinkGood(d)' /\ ~Linked(d)'
    BY <1>3 DEF LinkGood, NoLink, Linked
<1>7. WorkingLinksKept
    <2> SUFFICES ASSUME NEW e \in Device, link[e].client = "live", link'[e].client # "live"
                 PROVE  e \notin up' \/ link[e].host \notin up'
        BY DEF WorkingLinksKept
    <2> QED
        BY <1>1, <1>4
<1>8. events' \in 0..MaxEvents
    BY <1>1, TimeAssumption DEF Shapes, MeshTypeOK
<1>9. /\ gone' \in [Device -> [Device -> 0..GoneTTL]]
      /\ failing' \in [Device -> [Device -> Age]] /\ trying' \in [Device -> [Device -> Age]]
      /\ gone'[d][d] = 0
      /\ \A e \in Device \ {d} : gone'[e] = gone[e] /\ failing'[e] = failing[e] /\ trying'[e] = trying[e]
    BY <1>1, MarksAreSane DEF Shapes, ElectsSomebody
<1>10. MeshTypeOK'
    BY <1>1, <1>3, <1>5, <1>6, <1>8, <1>9 DEF Shapes, MeshTypeOK, LinkGood
<1>11. ElectsSomebody' /\ LinksAreUp' /\ Steady' = Steady /\ d \notin Steady
    BY <1>1, <1>5, <1>6, <1>9 DEF MeshInv, ElectsSomebody, LinksAreUp, Steady
<1>12. \A e \in Steady : Loyal(e)' /\ WaitsForHost(e)
    <2> SUFFICES ASSUME NEW e \in Steady PROVE Loyal(e)' /\ WaitsForHost(e)
        OBVIOUS
    <2>1. Loyal(e) /\ e \in Device \ {d}
        BY <1>11 DEF MeshInv, Steady
    <2>2. \A h \in Device : ~(gone'[e][h] > gone[e][h])
        BY <1>1, <1>9, <2>1 DEF Shapes
    <2> QED
        BY <1>1, <1>5, <1>9, <2>1, <2>2 DEF Loyal, WaitsForHost
<1> QED
    BY <1>7, <1>10, <1>11, <1>12 DEF MeshInv, Patience

LEMMA ComeUpKeeps ==
    ASSUME MeshInv, NEW d \in Device, ComeUp(d) PROVE MeshInv' /\ WorkingLinksKept /\ Patience
<1> DEFINE aged == [h \in Device |-> IF failing[d][h] = 0 THEN 0 ELSE Impatient + 1]
<1>1. /\ Shapes /\ d \in scene.restless /\ d \notin up
      /\ up' = up \cup {d} /\ busy' = busy \cup {d}
      /\ gone' = [gone EXCEPT ![d] = NoMark] /\ failing' = [failing EXCEPT ![d] = aged]
      /\ UNCHANGED <<scene, reach, broker, link, trying, events>>
    BY HasShape DEF ComeUp, Shapes
<1>2. aged \in [Device -> Age]
    BY TimeAssumption DEF Age
<1> HIDE DEF aged
<1>3. /\ gone' \in [Device -> [Device -> 0..GoneTTL]] /\ failing' \in [Device -> [Device -> Age]]
      /\ gone'[d][d] = 0
      /\ \A e \in Device \ {d} : gone'[e] = gone[e] /\ failing'[e] = failing[e]
    BY <1>1, <1>2, MarksAreSane DEF Shapes
<1>4. \A e \in Device : LinkGood(e)' /\ (Linked(e)' <=> Linked(e))
    BY <1>1 DEF Shapes, MeshTypeOK, LinkGood, Reaches, Linked
<1>5. MeshTypeOK' /\ WorkingLinksKept
    BY <1>1, <1>3, <1>4 DEF Shapes, MeshTypeOK, LinkGood, WorkingLinksKept
<1>6. ElectsSomebody' /\ LinksAreUp' /\ Steady' = Steady /\ d \notin Steady
    BY <1>1, <1>3, <1>4 DEF MeshInv, ElectsSomebody, LinksAreUp, Steady
<1>7. \A e \in Steady : Loyal(e)' /\ WaitsForHost(e)
    <2> SUFFICES ASSUME NEW e \in Steady PROVE Loyal(e)' /\ WaitsForHost(e)
        OBVIOUS
    <2>1. Loyal(e) /\ e \in Device \ {d}
        BY <1>6 DEF MeshInv, Steady
    <2>2. \A h \in Device : ~(gone'[e][h] > gone[e][h])
        BY <1>1, <1>3, <2>1 DEF Shapes
    <2> QED
        BY <1>1, <1>3, <1>4, <2>1, <2>2 DEF Loyal, WaitsForHost
<1> QED
    BY <1>5, <1>6, <1>7 DEF MeshInv, Patience

\* The network of a pair fails or comes back.
LEMMA NetworkKeeps ==
    ASSUME MeshInv, NEW p \in Pair, Cut(p) \/ Heal(p) PROVE MeshInv' /\ WorkingLinksKept /\ Patience
<1>1. /\ Shapes /\ link \in [Device -> Link] /\ \A e \in Device : LinkGood(e) /\ link[e] \in Link
      /\ UNCHANGED <<scene, up, broker, gone, failing, trying, busy>>
    BY HasShape DEF Shapes, MeshTypeOK, LinkGood, Cut, Heal
<1>2. events' \in 0..MaxEvents /\ reach' \subseteq Pair
    BY <1>1, TimeAssumption DEF Shapes, MeshTypeOK, Cut, Heal
<1>3. /\ link' \in [Device -> Link]
      /\ \A e \in Device : LinkGood(e)' /\ (Linked(e)' <=> Linked(e))
      /\ WorkingLinksKept
    <2>1. CASE Heal(p)
        BY <1>1, <2>1 DEF Heal, LinkGood, Reaches, Linked, WorkingLinksKept
    <2>2. CASE Cut(p)
        <3>1. reach' = reach \ {p}
            BY <2>2 DEF Cut
        <3>2. ASSUME NEW e \in Device
              PROVE  /\ link'[e] \in Link /\ link'[e].host = link[e].host
                     /\ link'[e].client = "none" <=> link[e].client = "none"
                     /\ link'[e].client = "live" => link[e].client = "live" /\ (link[e].host = e \/ {e, link[e].host} # p)
                     /\ link[e].client = "live" /\ link'[e].client # "live" => {e, link[e].host} = p
            <4>1. CASE p = {e, link[e].host} /\ link[e].client = "live" /\ link[e].host # e
                <5>1. link'[e] = [link[e] EXCEPT !.client = "dead"]
                    BY <2>2, <4>1 DEF Cut
                <5> QED
                    BY <1>1, <4>1, <5>1 DEF Link, Client
            <4>2. CASE ~(p = {e, link[e].host} /\ link[e].client = "live" /\ link[e].host # e)
                <5>1. link'[e] = link[e]
                    BY <2>2, <4>2 DEF Cut
                <5> QED
                    BY <1>1, <4>2, <5>1
            <4> QED
                BY <4>1, <4>2
        <3>3. link' \in [Device -> Link]
            <4>1. link' = [e \in Device |-> link'[e]]
                BY <2>2 DEF Cut
            <4> QED
                BY <3>2, <4>1
        <3>4. \A e \in Device : LinkGood(e)' /\ (Linked(e)' <=> Linked(e))
            BY <1>1, <3>1, <3>2 DEF LinkGood, Reaches, Linked
        <3>5. WorkingLinksKept
            BY <3>1, <3>2 DEF WorkingLinksKept
        <3> QED
            BY <3>3, <3>4, <3>5
    <2> QED
        BY <2>1, <2>2
<1>4. MeshTypeOK'
    BY <1>1, <1>2, <1>3 DEF Shapes, MeshTypeOK, LinkGood
<1>5. ElectsSomebody' /\ LinksAreUp' /\ Steady' = Steady
    BY <1>1, <1>3 DEF MeshInv, ElectsSomebody, LinksAreUp, Steady
<1>6. \A e \in Steady : Loyal(e)' /\ WaitsForHost(e)
    <2> SUFFICES ASSUME NEW e \in Steady PROVE Loyal(e)' /\ WaitsForHost(e)
        OBVIOUS
    <2>1. Loyal(e) /\ e \in Device
        BY DEF MeshInv, Steady
    <2>2. \A h \in Device : ~(gone'[e][h] > gone[e][h])
        BY <1>1, <2>1 DEF Shapes
    <2> QED
        BY <1>1, <1>3, <2>1, <2>2 DEF Loyal, WaitsForHost
<1> QED
    BY <1>3, <1>4, <1>5, <1>6 DEF MeshInv, Patience

LEMMA MeshKept == MeshInv /\ [MeshNext]_meshVars => MeshInv' /\ WorkingLinksKept /\ Patience
<1> SUFFICES ASSUME MeshInv, [MeshNext]_meshVars PROVE MeshInv' /\ WorkingLinksKept /\ Patience
    OBVIOUS
<1>1. ASSUME NEW d \in Device, Recover(d) PROVE MeshInv' /\ WorkingLinksKept /\ Patience
    BY <1>1, RecoverLinksKeeps, RecoverWaitsKeeps, RecoverGivesUpKeeps DEF Recover
<1>2. ASSUME NEW d \in Device, ChatFailBack(d) PROVE MeshInv' /\ WorkingLinksKept /\ Patience
    BY <1>2, PassesKeep, PassMovesKeeps DEF ChatFailBack
<1>3. CASE UNCHANGED meshVars
    <2>1. MeshTypeOK' /\ WorkingLinksKept /\ \A e \in Device : Linked(e)' <=> Linked(e)
        BY <1>3 DEF MeshInv, MeshTypeOK, meshVars, Reaches, Linked, WorkingLinksKept
    <2>2. ElectsSomebody' /\ LinksAreUp' /\ Steady' = Steady
        BY <1>3, <2>1 DEF MeshInv, meshVars, ElectsSomebody, LinksAreUp, Steady
    <2>3. \A e \in Steady : Loyal(e)' /\ WaitsForHost(e)
        <3> SUFFICES ASSUME NEW e \in Steady PROVE Loyal(e)' /\ WaitsForHost(e)
            OBVIOUS
        <3>1. Loyal(e) /\ e \in Device
            BY DEF MeshInv, Steady
        <3>2. \A h \in Device : ~(gone'[e][h] > gone[e][h])
            BY <1>3, <3>1 DEF meshVars, MeshInv, MeshTypeOK
        <3> QED
            BY <1>3, <2>1, <3>1, <3>2 DEF meshVars, Loyal, WaitsForHost
    <2> QED
        BY <2>1, <2>2, <2>3 DEF MeshInv, Patience
<1> QED
    BY <1>1, <1>2, <1>3, ClientErrorKeeps, NoteDiscoveredPeerKeeps, GoDownKeeps, ComeUpKeeps, NetworkKeeps DEF MeshNext

\* Before anything ran, no device has marked, noted or linked anything.
LEMMA FreshMesh ==
    ASSUME scene \in Scene, up = scene.up, reach = scene.reach, events \in 0..MaxEvents,
           gone = [d \in Device |-> NoMark], failing = [d \in Device |-> NoMark], trying = [d \in Device |-> NoMark],
           busy \subseteq up, broker \subseteq up, link \in [Device -> Link],
           \A d \in Device : LinkGood(d) /\ (Linked(d) => d \in up /\ d \notin busy)
    PROVE  MeshInv
<1>1. IsScene(scene) /\ up \subseteq Device /\ reach \subseteq Pair
    BY SceneAssumption DEF IsScene
<1>2. MeshTypeOK
    BY <1>1, MarksAreSane DEF MeshTypeOK, LinkGood
<1>3. \A d, h \in Device : gone[d][h] = 0 /\ failing[d] = NoMark /\ failing[d][h] = 0 /\ trying[d][h] = 0
    BY MarksAreSane
<1> QED
    BY <1>2, <1>3 DEF MeshInv, ElectsSomebody, LinksAreUp, Steady, Loyal

LEMMA InitialMesh == MeshInit => MeshInv
<1> SUFFICES ASSUME MeshInit PROVE MeshInv
    OBVIOUS
<1>1. events \in 0..MaxEvents
    BY SceneAssumption DEF MeshInit, IsScene
<1>2. link \in [Device -> Link] /\ \A d \in Device : link[d] = NoLink
    BY DEF MeshInit, NoLink, Link, Client
<1>3. \A d \in Device : LinkGood(d) /\ ~Linked(d)
    BY <1>2 DEF NoLink, LinkGood, Linked
<1> QED
    BY <1>1, <1>2, <1>3, FreshMesh DEF MeshInit

LEMMA MeshAtRest == net \in Net /\ AtRest => MeshInv
<1> SUFFICES ASSUME net \in Net, AtRest PROVE MeshInv
    OBVIOUS
<1>1. up \in SUBSET Device /\ up # {} /\ up = Members
    BY NetAssumption DEF AtRest, IsNet, Members
<1>2. FirstOf(up) \in up
    BY <1>1, FirstIsOne
<1> DEFINE first == FirstOf(up)
<1>3. /\ broker = {first} /\ busy = {} /\ \A d, e \in up : {d, e} \in reach
      /\ link = [d \in Device |-> IF d \in up THEN [host |-> first, client |-> "live"] ELSE NoLink]
    BY <1>1 DEF AtRest
<1>4. events \in 0..MaxEvents
    BY TimeAssumption DEF AtRest
<1>5. first \in up
    BY <1>2
<1> HIDE DEF first
<1>6. link \in [Device -> Link]
    BY <1>1, <1>3, <1>5 DEF NoLink, Link, Client
<1>7. \A d \in Device : LinkGood(d) /\ (Linked(d) => d \in up /\ d \notin busy)
    BY <1>1, <1>3, <1>5 DEF LinkGood, Linked, Reaches, NoLink
<1> QED
    BY <1>3, <1>4, <1>5, <1>6, <1>7, FreshMesh DEF AtRest

-----------------------------------------------------------------------------
(* Addresses.                                                               *)

Hint == Endpoint \cup {NoAddress}
ProbeResult == {"none", "ok", "refused", "timeout"}
CapabilityHealth == [state : {"connected", "degraded", "reconnecting", "offline", "blocked"}, fix : BOOLEAN]
Honest(health) == \A c \in Capability : health[c].state # "connected" => health[c].fix

HoodShapes ==
    /\ net \in Net /\ IsNet(net) /\ lan \subseteq Members
    /\ ip \in [{Computer[d] : d \in Device} -> Address]
    /\ hints \in [Device -> [Device -> Hint]]
    /\ reply \in [Device -> [Device -> Hint]]
    /\ dials \in [Device -> SUBSET Endpoint]
    /\ \A d \in Device : hints[d][d] \notin dials[d]
    /\ cache \in [Device -> [Endpoint -> ProbeResult]]
    /\ shown \in [Device -> [Capability -> CapabilityHealth]]
    /\ \A d \in Device : Honest(shown[d])
    /\ nearby \in [Device -> [Device -> {"none", "lan", "local"}]]
    /\ noting \in [Device -> Device \cup {Nobody}]
    /\ \A d \in Device : nearby[d][d] = "none" /\ noting[d] # d

HoodInv == MeshInv /\ HoodShapes

LEMMA SelfIsEndpoint ==
    ASSUME HoodShapes, NEW d \in Device
    PROVE  SelfEndpoint(d) \in Endpoint /\ ip[Computer[d]] \in Address
BY DEF HoodShapes, SelfEndpoint, Endpoint

LEMMA ChosenIsHint ==
    ASSUME NEW told \in Hint, NEW remote \in Address \cup {"loopback"}
    PROVE  ChooseEndpoint(told, remote) \in Hint
BY DEF ChooseEndpoint, Hint, Endpoint, NoAddress

LEMMA RecordsKeeps ==
    ASSUME HoodShapes, NEW d \in Device, NEW file \in [Device -> Hint], Records(d, file), UNCHANGED net
    PROVE  /\ hints' \in [Device -> [Device -> Hint]] /\ dials' \in [Device -> SUBSET Endpoint]
           /\ \A e \in Device : hints'[e][e] \notin dials'[e]
<1>1. /\ hints' = [hints EXCEPT ![d] = file]
      /\ dials' = [dials EXCEPT ![d] = RefreshPeerEndpoints(d, file, @)]
    BY DEF Records
<1>2. Peers(d) \subseteq Device
    BY DEF HoodShapes, IsNet, Peers, Members
<1>3. \A old \in SUBSET Endpoint : /\ RefreshPeerEndpoints(d, file, old) \in SUBSET Endpoint
                                   /\ file[d] \notin RefreshPeerEndpoints(d, file, old)
    BY <1>2 DEF RefreshPeerEndpoints, Hint
<1> QED
    BY <1>1, <1>3 DEF HoodShapes

LEMMA InitialHood == HoodInit => HoodInv
<1> SUFFICES ASSUME HoodInit PROVE HoodInv
    OBVIOUS
<1>1. net \in Net /\ IsNet(net)
    BY NetAssumption DEF HoodInit
<1>2. MeshInv
    BY <1>1, InitialMesh, MeshAtRest DEF HoodInit
<1>3. ip \in [{Computer[d] : d \in Device} -> Address]
    BY AddressAssumption DEF HoodInit
<1>4. lan \subseteq Members /\ Members \subseteq Device
    BY <1>1 DEF HoodInit, IsNet, Members
<1>5. \A d \in Device : SelfEndpoint(d) \in Endpoint /\ ip[Computer[d]] \in Address
    BY <1>3 DEF SelfEndpoint, Endpoint
<1>6. \A d, m \in Device : PairedEndpoint(d, m) \in Hint
    <2> SUFFICES ASSUME NEW d \in Device, NEW m \in Device PROVE PairedEndpoint(d, m) \in Hint
        OBVIOUS
    <2>1. CASE d = m
        BY <1>5, <2>1 DEF PairedEndpoint, Hint
    <2>2. CASE d # m
        <3> DEFINE remote == IF Computer[d] = Computer[m] THEN "loopback" ELSE ip[Computer[m]]
        <3>1. remote \in Address \cup {"loopback"} /\ SelfEndpoint(m) \in Hint
            BY <1>5 DEF Hint
        <3>2. ChooseEndpoint(SelfEndpoint(m), remote) \in Hint
            BY <3>1, ChosenIsHint
        <3> QED
            BY <2>2, <3>2 DEF PairedEndpoint
    <2> QED
        BY <2>1, <2>2
<1>7. NoAddress \in Hint
    BY DEF Hint
<1>8. hints \in [Device -> [Device -> Hint]]
    BY <1>6, <1>7 DEF HoodInit
<1>9. dials \in [Device -> SUBSET Endpoint] /\ \A d \in Device : hints[d][d] \notin dials[d]
    <2>1. dials = [d \in Device |-> RefreshPeerEndpoints(d, hints[d], {})]
        BY DEF HoodInit
    <2>2. \A d \in Device : /\ RefreshPeerEndpoints(d, hints[d], {}) \in SUBSET Endpoint
                            /\ hints[d][d] \notin RefreshPeerEndpoints(d, hints[d], {})
        BY <1>4, <1>8 DEF RefreshPeerEndpoints, Hint, Peers
    <2> QED
        BY <2>1, <2>2
<1>10. reply \in [Device -> [Device -> Hint]] /\ cache \in [Device -> [Endpoint -> ProbeResult]]
    BY <1>7 DEF HoodInit, NoReply, ProbeResult
<1>11. shown \in [Device -> [Capability -> CapabilityHealth]] /\ \A d \in Device : Honest(shown[d])
    BY DEF HoodInit, In, CapabilityHealth, Honest
<1>12. /\ nearby \in [Device -> [Device -> {"none", "lan", "local"}]]
       /\ noting \in [Device -> Device \cup {Nobody}]
       /\ \A d \in Device : nearby[d][d] = "none" /\ noting[d] # d
    BY OrderAssumption DEF HoodInit
<1> QED
    BY <1>1, <1>2, <1>3, <1>4, <1>8, <1>9, <1>10, <1>11, <1>12 DEF HoodInv, HoodShapes

-----------------------------------------------------------------------------
(* What the dashboard says.                                                 *)

\* Whatever was answered, unless it was not asked, trouble names a fix.
LEMMA DerivedIsHonest ==
    ASSUME NEW d, NEW answers, \A e \in Probed(d) : answers[e] # "unknown"
    PROVE  /\ DeriveCapabilities(d, answers) \in [Capability -> CapabilityHealth]
           /\ Honest(DeriveCapabilities(d, answers))
<1> DEFINE Good(h) == h \in CapabilityHealth /\ (h.state # "connected" => h.fix)
<1>1. \A s \in {"connected", "degraded", "reconnecting", "offline", "blocked"} : Good(In(s, TRUE))
    BY DEF In, CapabilityHealth
<1>2. Good(In("connected", FALSE))
    BY DEF In, CapabilityHealth
<1>3. Good(ChatHealth(d))
    BY <1>1, <1>2 DEF ChatHealth
<1>4. Good(ReachHealth(d, answers))
    <2> DEFINE silent == {m \in Peers(d) : Reach(d, m, answers) # "ok"}
               fix == \E m \in silent : HasFix(Reach(d, m, answers))
    <2>1. ASSUME NEW m \in Peers(d) PROVE Reach(d, m, answers) # "unknown"
        <3>1. CASE hints[d][m] = NoAddress \/ IsOwnAddress(d, hints[d][m])
            BY <3>1 DEF Reach
        <3>2. CASE ~(hints[d][m] = NoAddress \/ IsOwnAddress(d, hints[d][m]))
            BY <3>2 DEF Reach, Probed
        <3> QED
            BY <3>1, <3>2
    <2>2. silent # {} => fix
        BY <2>1 DEF HasFix
    <2>3. ReachHealth(d, answers) = IF silent = {} THEN In("connected", FALSE)
                                    ELSE In(IF silent # Peers(d) THEN "degraded" ELSE "offline", fix)
        BY DEF ReachHealth
    <2>4. silent # {} => fix = TRUE
        BY <2>2
    <2> HIDE DEF silent, fix, Good
    <2> QED
        BY <1>1, <1>2, <2>3, <2>4
<1>5. Good(TerminalHealth(d, answers))
    BY <1>1, <1>4 DEF TerminalHealth
<1>6. Good(MemoryHealth(d, answers))
    BY <1>1, <1>5 DEF MemoryHealth
<1>7. Good(In("offline", TRUE))
    BY <1>1
<1> HIDE DEF Good
<1>8. \A c \in Capability : Good(DeriveCapabilities(d, answers)[c])
    BY <1>3, <1>5, <1>6, <1>7 DEF DeriveCapabilities
<1>9. DeriveCapabilities(d, answers) = [c \in Capability |-> DeriveCapabilities(d, answers)[c]]
    BY DEF DeriveCapabilities
<1> QED
    BY <1>8, <1>9 DEF Honest, Good

LEMMA ProbesAreAnswered ==
    ASSUME HoodShapes, NEW d \in Device
    PROVE  /\ Probed(d) \subseteq Endpoint
           /\ \A e \in Probed(d) : ~IsOwnAddress(d, e)
           /\ \A e : ProbeAnswer(d, e) \in {"ok", "refused", "timeout"}
           /\ \A e \in Probed(d) : ProbePeerEndpoints(d)[e] \in {"ok", "refused", "timeout"}
<1>1. Peers(d) \subseteq Device
    BY DEF HoodShapes, IsNet, Peers, Members
<1>2. \A m \in Peers(d) : hints[d][m] \in Hint
    BY <1>1 DEF HoodShapes
<1>3. Probed(d) \subseteq Endpoint /\ \A e \in Probed(d) : ~IsOwnAddress(d, e)
    BY <1>2 DEF Probed, Hint
<1>4. \A e : ProbeAnswer(d, e) \in {"ok", "refused", "timeout"}
    BY DEF ProbeAnswer
<1>5. \A e \in Probed(d) : cache[d][e] \in ProbeResult
    BY <1>3 DEF HoodShapes
<1> QED
    BY <1>3, <1>4, <1>5 DEF ProbePeerEndpoints, ProbeResult

\* No device hears of its own listener as if it were a peer's.
NeverOwn == cache' # cache => \A d \in Device, e \in Endpoint :
                cache[d][e] = "none" /\ cache'[d][e] = "ok" => d \notin Listeners(d, e)

LEMMA CheckHealthKeeps ==
    ASSUME HoodShapes, NEW d \in Device, CheckHealth(d) PROVE HoodShapes' /\ NeverOwn
<1> DEFINE answers == ProbePeerEndpoints(d)
           seen == [e \in Endpoint |-> IF e \in Probed(d) /\ cache[d][e] = "none" THEN answers[e] ELSE cache[d][e]]
           says == DeriveCapabilities(d, answers)
<1>1. /\ cache' = [cache EXCEPT ![d] = seen] /\ shown' = [shown EXCEPT ![d] = says]
      /\ UNCHANGED <<net, lan, ip, hints, dials, reply, nearby, noting, ignored, left>>
    BY DEF CheckHealth, HoodShapes
<1>2. /\ Probed(d) \subseteq Endpoint
      /\ \A e \in Probed(d) : ~IsOwnAddress(d, e)
      /\ \A e \in Probed(d) : answers[e] \in {"ok", "refused", "timeout"}
    BY ProbesAreAnswered
<1>3. says \in [Capability -> CapabilityHealth] /\ Honest(says)
    BY <1>2, DerivedIsHonest
<1>4. seen \in [Endpoint -> ProbeResult] /\ \A e \in Endpoint : cache[d][e] = "none" /\ seen[e] = "ok" => e \in Probed(d)
    BY <1>2 DEF HoodShapes, ProbeResult
<1> HIDE DEF answers, seen, says
<1>5. HoodShapes'
    BY <1>1, <1>3, <1>4 DEF HoodShapes, Members
<1>6. ASSUME NEW f \in Device, NEW e \in Endpoint, cache[f][e] = "none", cache'[f][e] = "ok"
      PROVE  f \notin Listeners(f, e)
    <2>1. f = d /\ e \in Probed(d)
        BY <1>1, <1>4, <1>6 DEF HoodShapes
    <2> QED
        BY <1>2, <2>1 DEF Listeners, IsOwnAddress
<1> QED
    BY <1>5, <1>6 DEF NeverOwn

LEMMA SyncKeeps ==
    ASSUME HoodShapes, NEW d \in Members, NEW e \in Endpoint, NEW told \in {SelfEndpoint(d), NoAddress}, Sync(d, e, told)
    PROVE  HoodShapes'
<1>1. Members \subseteq Device /\ d \in Device
    BY DEF HoodShapes, IsNet, Members
<1>2. PICK r \in Listeners(d, e) \ {d} : HandleSyncWire(r, d, told, Remote(d, e))
    BY DEF Sync
<1>3. r \in Device
    BY <1>1 DEF Listeners
<1>4. UNCHANGED <<net, lan, ip, cache, shown, nearby, noting, ignored, left>>
    BY DEF Sync
<1> DEFINE hint == ChooseEndpoint(told, Remote(d, e))
           heard == MergeMember(hints[r], d, hint)
           file == MergeMember(heard, r, SelfEndpoint(r))
<1>5. Records(r, file) /\ reply' = [reply EXCEPT ![d] = file]
    BY <1>2 DEF HandleSyncWire
<1>6. hint \in Hint
    <2>1. told \in Hint /\ Remote(d, e) \in Address \cup {"loopback"}
        BY <1>1, SelfIsEndpoint DEF Hint, Remote
    <2> QED
        BY <2>1, ChosenIsHint
<1>7. SelfEndpoint(r) \in Hint /\ hints[r] \in [Device -> Hint]
    BY <1>3, SelfIsEndpoint DEF Hint, HoodShapes
<1> HIDE DEF hint
<1>8. heard \in [Device -> Hint]
    BY <1>1, <1>6, <1>7 DEF MergeMember
<1> HIDE DEF heard
<1>9. file \in [Device -> Hint]
    BY <1>3, <1>7, <1>8 DEF MergeMember
<1> HIDE DEF file
<1>10. /\ hints' \in [Device -> [Device -> Hint]] /\ dials' \in [Device -> SUBSET Endpoint]
       /\ \A f \in Device : hints'[f][f] \notin dials'[f]
    BY <1>3, <1>4, <1>5, <1>9, RecordsKeeps
<1>11. reply' \in [Device -> [Device -> Hint]]
    BY <1>1, <1>5, <1>9 DEF HoodShapes
<1> QED
    BY <1>4, <1>10, <1>11 DEF HoodShapes, Members

LEMMA MembersKeep ==
    ASSUME HoodShapes, NEW d \in Members, TakeMembers(d) \/ \E e \in Endpoint : AskMembers(d, e)
    PROVE  HoodShapes'
<1>1. Members \subseteq Device /\ d \in Device
    BY DEF HoodShapes, IsNet, Members
<1>2. UNCHANGED <<net, lan, ip, cache, shown, nearby, noting, ignored, left>>
    BY DEF TakeMembers, AskMembers
<1>3. CASE TakeMembers(d)
    <2> DEFINE file == MergePeerRoster(d, hints[d], reply[d])
    <2>1. Records(d, file) /\ reply' = [reply EXCEPT ![d] = NoReply]
        BY <1>3 DEF TakeMembers
    <2>2. file \in [Device -> Hint]
        BY <1>1 DEF MergePeerRoster, HoodShapes
    <2>3. NoReply \in [Device -> Hint]
        BY DEF NoReply, Hint
    <2> HIDE DEF file
    <2>4. /\ hints' \in [Device -> [Device -> Hint]] /\ dials' \in [Device -> SUBSET Endpoint]
          /\ \A f \in Device : hints'[f][f] \notin dials'[f]
        BY <1>1, <1>2, <2>1, <2>2, RecordsKeeps
    <2>5. reply' \in [Device -> [Device -> Hint]]
        BY <1>1, <2>1, <2>3 DEF HoodShapes
    <2> QED
        BY <1>2, <2>4, <2>5 DEF HoodShapes, Members
<1>4. ASSUME NEW e \in Endpoint, AskMembers(d, e) PROVE HoodShapes'
    <2>1. PICK r \in Listeners(d, e) \ {d} : reply' = [reply EXCEPT ![d] = hints[r]]
        BY <1>4 DEF AskMembers
    <2>2. r \in Device
        BY <1>1 DEF Listeners
    <2>3. reply' \in [Device -> [Device -> Hint]]
        BY <1>1, <2>1, <2>2 DEF HoodShapes
    <2>4. UNCHANGED <<hints, dials>>
        BY <1>4 DEF AskMembers
    <2> QED
        BY <1>2, <2>3, <2>4 DEF HoodShapes, Members
<1> QED
    BY <1>3, <1>4

LEMMA WorldKeeps ==
    ASSUME HoodShapes, (\E c \in DOMAIN ip : NewAddress(c)) \/ \E d \in Members : ApplyNetworkAccess(d)
    PROVE  HoodShapes'
<1>1. CASE \E c \in DOMAIN ip : NewAddress(c)
    <2>1. ip' \in [{Computer[d] : d \in Device} -> Address]
        BY <1>1 DEF HoodShapes, NewAddress
    <2>2. UNCHANGED <<net, lan, hints, dials, reply, cache, shown, nearby, noting, ignored>>
        BY <1>1 DEF NewAddress
    <2> QED
        BY <2>1, <2>2 DEF HoodShapes, Members
<1>2. CASE \E d \in Members : ApplyNetworkAccess(d)
    <2>1. lan' \subseteq Members
        BY <1>2 DEF HoodShapes, ApplyNetworkAccess
    <2>2. UNCHANGED <<net, ip, hints, dials, reply, cache, shown, nearby, noting, ignored>>
        BY <1>2 DEF ApplyNetworkAccess
    <2> QED
        BY <2>1, <2>2 DEF HoodShapes, Members
<1> QED
    BY <1>1, <1>2

LEMMA NearbyKeeps ==
    ASSUME HoodShapes, NEW d \in Members,
           SaveDiscovered(d) \/ \E m \in Members : BrowseOnce(d, m) \/ IgnoreDiscoveredPeer(d, m) \/ NearbyExpires(d, m)
    PROVE  HoodShapes'
<1>1. Members \subseteq Device /\ d \in Device /\ Peers(d) \subseteq Device \ {d}
    BY DEF HoodShapes, IsNet, Members, Peers
<1>2. UNCHANGED <<net, lan, ip, hints, dials, reply, cache, shown>>
    BY DEF SaveDiscovered, BrowseOnce, IgnoreDiscoveredPeer, NearbyExpires
<1> DEFINE Kinds == {"none", "lan", "local"}
           Right == /\ nearby' \in [Device -> [Device -> Kinds]]
                    /\ noting' \in [Device -> Device \cup {Nobody}]
                    /\ \A f \in Device : nearby'[f][f] = "none" /\ noting'[f] # f
<1>3. ASSUME SaveDiscovered(d) PROVE Right
    <2>1. noting[d] \in Device /\ noting[d] # d /\ AnnouncedNet(noting[d]) \in Kinds
        BY <1>1, <1>3 DEF HoodShapes, SaveDiscovered, AnnouncedNet
    <2>2. PICK m \in Device \ {d} : noting[d] = m
        BY <2>1
    <2>3. nearby' = [nearby EXCEPT ![d][m] = AnnouncedNet(m)] /\ noting' = [noting EXCEPT ![d] = Nobody]
        BY <1>3, <2>2 DEF SaveDiscovered
    <2>4. AnnouncedNet(m) \in Kinds /\ \A f \in Device : Nobody # f
        BY <2>1, <2>2, OrderAssumption
    <2>5. nearby' \in [Device -> [Device -> Kinds]]
        BY <1>1, <2>2, <2>3, <2>4 DEF HoodShapes
    <2>6. noting' \in [Device -> Device \cup {Nobody}]
        BY <1>1, <2>3 DEF HoodShapes
    <2>7. \A f \in Device : nearby'[f][f] = "none" /\ noting'[f] # f
        BY <1>1, <2>2, <2>3, <2>4 DEF HoodShapes
    <2> QED
        BY <2>5, <2>6, <2>7
<1>4. ASSUME NEW m \in Members, BrowseOnce(d, m) PROVE Right
    BY <1>1, <1>4 DEF HoodShapes, BrowseOnce
<1>5. ASSUME NEW m \in Members, IgnoreDiscoveredPeer(d, m) \/ NearbyExpires(d, m) PROVE Right
    <2>1. nearby' = [nearby EXCEPT ![d][m] = "none"] /\ noting' = noting /\ m \in Device
        BY <1>1, <1>5 DEF IgnoreDiscoveredPeer, NearbyExpires
    <2> QED
        BY <1>1, <2>1 DEF HoodShapes
<1> HIDE DEF Right
<1>6. Right
    BY <1>3, <1>4, <1>5
<1> QED
    BY <1>2, <1>6 DEF HoodShapes, Members, Right

LEMMA HoodKept == HoodInv /\ [HoodNext]_around => HoodInv' /\ WorkingLinksKept /\ Patience /\ NeverOwn
<1> SUFFICES ASSUME HoodInv, [HoodNext]_around PROVE HoodInv' /\ WorkingLinksKept /\ Patience /\ NeverOwn
    OBVIOUS
<1>1. MeshInv /\ HoodShapes
    BY DEF HoodInv
<1>2. [MeshNext]_meshVars
    <2>1. Moves => UNCHANGED meshVars
        BY DEF Moves, NewAddress, ApplyNetworkAccess, TakeMembers, SaveDiscovered, CheckHealth, AskMembers, ProbeExpires,
               Sync, BrowseOnce, IgnoreDiscoveredPeer, NearbyExpires
    <2> QED
        BY <2>1 DEF HoodNext, MeshMoves, around
<1>3. MeshInv' /\ WorkingLinksKept /\ Patience
    BY <1>1, <1>2, MeshKept
<1>4. HoodShapes' /\ NeverOwn
    <2>1. CASE UNCHANGED hood
        BY <1>1, <2>1 DEF hood, HoodShapes, Members, NeverOwn
    <2>2. CASE \E c \in DOMAIN ip : NewAddress(c)
        BY <1>1, <2>2, WorldKeeps DEF NewAddress, NeverOwn
    <2>3. CASE Moves /\ ~\E c \in DOMAIN ip : NewAddress(c)
        <3>1. PICK d \in Members :
                 \/ ApplyNetworkAccess(d) \/ TakeMembers(d) \/ SaveDiscovered(d) \/ CheckHealth(d)
                 \/ \E e \in Endpoint : \/ AskMembers(d, e) \/ ProbeExpires(d, e)
                                        \/ \E told \in {SelfEndpoint(d), NoAddress} : Sync(d, e, told)
                 \/ \E m \in Members : BrowseOnce(d, m) \/ IgnoreDiscoveredPeer(d, m) \/ NearbyExpires(d, m)
            BY <2>3 DEF Moves
        <3>2. d \in Device
            BY <1>1 DEF HoodShapes, IsNet, Members
        <3>3. CASE ApplyNetworkAccess(d)
            BY <1>1, <3>3, WorldKeeps DEF ApplyNetworkAccess, NeverOwn
        <3>4. CASE TakeMembers(d) \/ \E e \in Endpoint : AskMembers(d, e)
            BY <1>1, <3>4, MembersKeep DEF TakeMembers, AskMembers, NeverOwn
        <3>5. CASE SaveDiscovered(d) \/ \E m \in Members : BrowseOnce(d, m) \/ IgnoreDiscoveredPeer(d, m) \/ NearbyExpires(d, m)
            BY <1>1, <3>5, NearbyKeeps DEF SaveDiscovered, BrowseOnce, IgnoreDiscoveredPeer, NearbyExpires, NeverOwn
        <3>6. CASE CheckHealth(d)
            BY <1>1, <3>2, <3>6, CheckHealthKeeps
        <3>7. ASSUME NEW e \in Endpoint, ProbeExpires(d, e) PROVE HoodShapes' /\ NeverOwn
            <4>1. /\ cache' = [cache EXCEPT ![d][e] = "none"]
                  /\ UNCHANGED <<net, lan, ip, hints, dials, reply, shown, nearby, noting, ignored, left>>
                BY <3>7 DEF ProbeExpires
            <4>2. cache' \in [Device -> [Endpoint -> ProbeResult]]
                BY <1>1, <3>2, <4>1 DEF HoodShapes, ProbeResult
            <4>3. NeverOwn
                BY <1>1, <3>2, <4>1 DEF HoodShapes, NeverOwn
            <4> QED
                BY <1>1, <4>1, <4>2, <4>3 DEF HoodShapes, Members
        <3>8. ASSUME NEW e \in Endpoint, NEW told \in {SelfEndpoint(d), NoAddress}, Sync(d, e, told)
              PROVE  HoodShapes' /\ NeverOwn
            BY <1>1, <3>8, SyncKeeps DEF Sync, NeverOwn
        <3> QED
            BY <3>1, <3>3, <3>4, <3>5, <3>6, <3>7, <3>8
    <2> QED
        BY <2>1, <2>2, <2>3 DEF HoodNext, MeshMoves, around
<1> QED
    BY <1>3, <1>4 DEF HoodInv

LEMMA HoodInvariant == HoodSpec => []HoodInv
BY InitialHood, HoodKept, PTL DEF HoodSpec

-----------------------------------------------------------------------------
(* The theorems.                                                            *)

\* Every reachable state of the mesh, the addresses and the dashboard is well
\* typed, a working link leads to a broker that listens and can be reached,
\* and a device never dials the address it records as its own.
THEOREM HoodTypeCorrect == HoodSpec => []HoodTypeOK
<1>1. HoodInv => HoodTypeOK
    BY DEF HoodInv, MeshInv, HoodShapes, HoodTypeOK, Hint
<1> QED
    BY <1>1, HoodInvariant, PTL

\* Electing and dialling cost nobody a link that works, and a device gives its
\* host up for another only when it has failed for a while since they were
\* last linked (brokerFailoverAfter), with any number of members, faults and
\* announcements.
THEOREM HostsAreHeldOnTo == HoodSpec => HoldsOn
<1>1. HoodInv /\ [HoodNext]_around
        => [\A d \in Device : LET h == link[d].host IN
              link[d].client = "live" /\ link'[d].client # "live" =>
                  \/ d \notin up' \/ h \notin up' \/ {d, h} \notin reach'
                  \/ h # d /\ link[h].host # h /\ link'[h].host = h]_meshVars
    BY HoodKept DEF WorkingLinksKept
<1>2. HoodInv /\ [HoodNext]_around
        => [\A d \in Device \ (scene.watchers \cup scene.restless) : WaitsForHost(d)]_meshVars
    BY HoodKept DEF Patience, Steady
<1>3. HoodSpec => KeepsWorkingLink
    BY <1>1, HoodInvariant, PTL DEF HoodSpec, KeepsWorkingLink
<1>4. HoodSpec => PatientFailover
    BY <1>2, HoodInvariant, PTL DEF HoodSpec, PatientFailover
<1> QED
    BY <1>3, <1>4 DEF HoldsOn

\* Whatever is wrong comes with a fix, and a peer is never said to answer
\* because the device's own listener did (connection_health.go).
THEOREM HealthStaysHonest == HoodSpec => HealthIsHonest
<1>1. HoodInv => TroubleNamesAFix
    <2> SUFFICES ASSUME HoodInv, NEW d \in IF net.mesh THEN Device ELSE net.dashboards PROVE Honest(Health(d))
        BY DEF TroubleNamesAFix, Honest
    <2>1. d \in Device /\ HoodShapes
        BY DEF HoodInv, HoodShapes, IsNet
    <2>2. CASE net.mesh
        <3> DEFINE answers == [e \in Probed(d) |-> ProbeAnswer(d, e)]
        <3>1. \A e \in Probed(d) : answers[e] # "unknown"
            BY <2>1, ProbesAreAnswered
        <3>2. Health(d) = DeriveCapabilities(d, answers)
            BY <2>2 DEF Health
        <3> HIDE DEF answers
        <3> QED
            BY <3>1, <3>2, DerivedIsHonest
    <2>3. CASE ~net.mesh
        BY <2>1, <2>3 DEF Health, HoodShapes
    <2> QED
        BY <2>2, <2>3
<1>2. HoodInv /\ [HoodNext]_around
        => [cache' # cache => \A d \in Device, e \in Endpoint :
               cache[d][e] = "none" /\ cache'[d][e] = "ok" => d \notin Listeners(d, e)]_around
    BY HoodKept DEF NeverOwn
<1>3. HoodSpec => []TroubleNamesAFix
    BY <1>1, HoodInvariant, PTL
<1>4. HoodSpec => NeverItself
    BY <1>2, HoodInvariant, PTL DEF HoodSpec, NeverItself
<1> QED
    BY <1>3, <1>4 DEF HealthIsHonest
=============================================================================
