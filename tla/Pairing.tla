------------------------------- MODULE Pairing -------------------------------
(***************************************************************************)
(* Pairing: a device joins a circle after two people compare a code.       *)
(*                                                                         *)
(* The joiner's Core calls the member's Core over connections that fail:   *)
(* hello and reveal, which lead both to the code, then poll, once a        *)
(* second, until the member's person has decided.  Each Core keeps its     *)
(* side of a session in memory under a mutex that it gives up between the  *)
(* check of a click and its effect.  What lasts is the circle file on each *)
(* side, reduced here to who it lets in.                                   *)
(***************************************************************************)
EXTENDS Naturals, FiniteSets

CONSTANTS
    Session,   \* pairing sessions, all with one member device
    Joiner,    \* devices that ask to join
    Of,        \* Of[s]: the device that starts session s
    Click,     \* bound: confirmations under way at a time, on each side
    MaxOpen,   \* maxPairingSessions
    None

ASSUME OfAssumption    == Of \in [Session -> Joiner]
ASSUME LimitAssumption == MaxOpen \in Nat \ {0}
ASSUME NoneAssumption  == None \notin Session \cup {"poll"} /\ "poll" \notin Click

VARIABLES
    member,    \* member[s]: the member's side of s
    joiner,    \* joiner[s]: the joiner's side of s
    thread,    \* thread[s]: the goroutine that starts s and then polls
    call,      \* call[s]: the call that goroutine has outstanding, or its outcome
    cancels,   \* sessions with a cancel message on its way to the member
    clickM,    \* clickM[k]: a confirmation under way on the member
    clickJ,    \* clickJ[k]: the session a confirmation on the joiner has been checked for
    finishing, \* runs of finishJoinerPairing
    admitted,  \* devices on the member's roster
    belongs,   \* devices that hold the circle
    memberSaid, joinerSaid  \* history: the sessions each side's person has confirmed

vars == <<member, joiner, thread, call, cancels, clickM, clickJ, finishing, admitted, belongs,
          memberSaid, joinerSaid>>

Said == <<memberSaid, joinerSaid>>

Opened == {"connecting", "comparing", "waiting"}
Closed == {"joined", "rejected", "expired", "failed"}
State  == {"absent"} \cup Opened \cup Closed
Side   == [state : State, confirmed : BOOLEAN, welcome : BOOLEAN]
NoSide == [state |-> "absent", confirmed |-> FALSE, welcome |-> FALSE]

At      == {"idle", "starting", "revealing", "polling", "asking", "finishing", "ended"}
Request == {"hello", "reveal", "poll"}
Outcome == {"ok", "welcome", "rejected", "refused", "lost"}
Finish  == [by : Click \cup {"poll"}, session : Session, at : {"start", "taken", "joined", "failed"}]
ClickM  == [at : {"idle", "checked", "admitted"}, session : Session \cup {None}]
NoClick == [at |-> "idle", session |-> None]

IsOpen(side) == side.state \in Opened
Becomes(side, s, state) == [side EXCEPT ![s].state = state]

OpenPairings == {s \in Session : IsOpen(member[s])}

Init ==
    /\ member = [s \in Session |-> NoSide] /\ joiner = [s \in Session |-> NoSide]
    /\ thread = [s \in Session |-> "idle"] /\ call = [s \in Session |-> "none"]
    /\ cancels = {} /\ finishing = {}
    /\ clickM = [k \in Click |-> NoClick] /\ clickJ = [k \in Click |-> None]
    /\ admitted = {} /\ belongs = {}
    /\ memberSaid = {} /\ joinerSaid = {}

-----------------------------------------------------------------------------
(* The member answers: memberHandlePair *)

Answer(s, outcome) == call' = [call EXCEPT ![s] = outcome]

\* hello opens a session while there is room for one.
MemberHello(s) ==
    /\ call[s] = "hello"
    /\ IF member[s] = NoSide /\ Cardinality(OpenPairings) < MaxOpen
       THEN member' = Becomes(member, s, "connecting") /\ Answer(s, "ok")
       ELSE Answer(s, "refused") /\ UNCHANGED member
    /\ UNCHANGED <<joiner, thread, cancels, clickM, clickJ, finishing, admitted, belongs, Said>>

\* reveal brings both to the code.
MemberReveal(s) ==
    /\ call[s] = "reveal"
    /\ IF member[s].state = "connecting"
       THEN member' = Becomes(member, s, "comparing") /\ Answer(s, "ok")
       ELSE Answer(s, "refused") /\ UNCHANGED member
    /\ UNCHANGED <<joiner, thread, cancels, clickM, clickJ, finishing, admitted, belongs, Said>>

MemberPollOnce(s) ==
    /\ call[s] = "poll"
    /\ Answer(s, IF member[s].state = "absent" THEN "refused"
                 ELSE IF member[s].state = "rejected" THEN "rejected"
                 ELSE IF member[s].welcome THEN "welcome" ELSE "ok")
    /\ member' = IF member[s].welcome
                 THEN [member EXCEPT ![s].state = "joined", ![s].welcome = FALSE] ELSE member
    /\ UNCHANGED <<joiner, thread, cancels, clickM, clickJ, finishing, admitted, belongs, Said>>

\* poll hands out the welcome as often as it is asked for, and counts it as joined; the joiner
\* reads a rejection first.
MemberPoll(s) ==
    /\ call[s] = "poll"
    /\ Answer(s, IF member[s].state = "absent" THEN "refused"
                 ELSE IF member[s].state = "rejected" THEN "rejected"
                 ELSE IF member[s].welcome THEN "welcome" ELSE "ok")
    /\ member' = IF member[s].welcome THEN Becomes(member, s, "joined") ELSE member
    /\ UNCHANGED <<joiner, thread, cancels, clickM, clickJ, finishing, admitted, belongs, Said>>

Reject(side, s) == IF IsOpen(side[s]) THEN Becomes(side, s, "rejected") ELSE side

MemberCancel(s) ==
    /\ s \in cancels
    /\ cancels' = cancels \ {s}
    /\ member' = Reject(member, s)
    /\ UNCHANGED <<joiner, thread, call, clickM, clickJ, finishing, admitted, belongs, Said>>

-----------------------------------------------------------------------------
(* The member's person: confirmPairing, cancelPairing *)

\* The state is checked...
ConfirmMember(k, s) ==
    /\ clickM[k].at = "idle" /\ member[s].state = "comparing"
    /\ clickM' = [clickM EXCEPT ![k] = [at |-> "checked", session |-> s]]
    /\ memberSaid' = memberSaid \cup {s}
    /\ UNCHANGED <<member, joiner, thread, call, cancels, clickJ, finishing, admitted, belongs, joinerSaid>>

AdmitLater(k) ==
    /\ clickM[k].at = "checked"
    /\ clickM' = [clickM EXCEPT ![k] = [at |-> "admitted", session |-> clickM[k].session]]
    /\ UNCHANGED <<member, joiner, thread, call, cancels, clickJ, finishing, admitted, belongs, Said>>

\* ...the device let into the circle file, without the mutex...
AdmitWithWelcome(k) ==
    /\ clickM[k].at = "checked"
    /\ clickM' = [clickM EXCEPT ![k] = [at |-> "admitted", session |-> clickM[k].session]]
    /\ admitted' = admitted \cup {Of[clickM[k].session]}
    /\ UNCHANGED <<member, joiner, thread, call, cancels, clickJ, finishing, belongs, Said>>

\* (or not: no such circle, this device no longer in it, a write that fails)
AdmissionFails(k) ==
    /\ clickM[k].at = "checked"
    /\ clickM' = [clickM EXCEPT ![k] = NoClick]
    /\ UNCHANGED <<member, joiner, thread, call, cancels, clickJ, finishing, admitted, belongs, Said>>

\* ...and the sealed welcome stored, whatever has become of the session.
StoreWelcome(k) ==
    /\ clickM[k].at = "admitted"
    /\ clickM' = [clickM EXCEPT ![k] = NoClick]
    /\ member' = [member EXCEPT ![clickM[k].session] =
                    [state |-> "waiting", confirmed |-> TRUE, welcome |-> TRUE]]
    /\ UNCHANGED <<joiner, thread, call, cancels, clickJ, finishing, admitted, belongs, Said>>

CancelMember(s) ==
    /\ IsOpen(member[s])
    /\ member' = Reject(member, s)
    /\ UNCHANGED <<joiner, thread, call, cancels, clickM, clickJ, finishing, admitted, belongs, Said>>

-----------------------------------------------------------------------------
(* The joiner's goroutine: startPairing, pollPairing *)

Turn(s, to, request) == thread' = [thread EXCEPT ![s] = to] /\ call' = [call EXCEPT ![s] = request]

StartPairing(s) ==
    /\ thread[s] = "idle"
    /\ Turn(s, "starting", "hello")
    /\ UNCHANGED <<member, joiner, cancels, clickM, clickJ, finishing, admitted, belongs, Said>>

\* hello done: reveal is next.
HelloDone(s) ==
    /\ thread[s] = "starting" /\ call[s] \in Outcome
    /\ IF call[s] = "ok" THEN Turn(s, "revealing", "reveal") ELSE Turn(s, "ended", "none")
    /\ UNCHANGED <<member, joiner, cancels, clickM, clickJ, finishing, admitted, belongs, Said>>

\* reveal done: the session appears on the joiner's dashboard and the polling starts.
RevealDone(s) ==
    /\ thread[s] = "revealing" /\ call[s] \in Outcome
    /\ IF call[s] = "ok"
       THEN Turn(s, "polling", "none") /\ joiner' = Becomes(joiner, s, "comparing")
       ELSE Turn(s, "ended", "none") /\ UNCHANGED joiner
    /\ UNCHANGED <<member, cancels, clickM, clickJ, finishing, admitted, belongs, Said>>

Begin(by, s) == finishing' = finishing \cup {[by |-> by, session |-> s, at |-> "start"]}

PollForEver(s) ==
    /\ thread[s] = "polling"
    /\ IF joiner[s].welcome
       THEN Turn(s, "finishing", "none") /\ Begin("poll", s)
       ELSE Turn(s, "asking", "poll") /\ UNCHANGED finishing
    /\ UNCHANGED <<member, joiner, cancels, clickM, clickJ, admitted, belongs, Said>>

\* A tick: stop at a closed session, finish with a welcome, ask for one without.
Poll(s) ==
    /\ thread[s] = "polling"
    /\ IF ~IsOpen(joiner[s])
       THEN Turn(s, "ended", "none") /\ UNCHANGED finishing
       ELSE IF joiner[s].welcome
            THEN Turn(s, "finishing", "none") /\ Begin("poll", s)
            ELSE Turn(s, "asking", "poll") /\ UNCHANGED finishing
    /\ UNCHANGED <<member, joiner, cancels, clickM, clickJ, admitted, belongs, Said>>

\* The answer: a rejection or an error closes the session, a welcome is kept.
PollDone(s) ==
    /\ thread[s] = "asking" /\ call[s] \in Outcome
    /\ joiner' = IF call[s] \in {"rejected", "refused"} THEN Becomes(joiner, s, "rejected")
                  ELSE IF call[s] = "welcome" THEN [joiner EXCEPT ![s].welcome = TRUE] ELSE joiner
    /\ Turn(s, "finishing", "none") /\ Begin("poll", s)
    /\ UNCHANGED <<member, cancels, clickM, clickJ, admitted, belongs, Said>>

-----------------------------------------------------------------------------
(* The joiner's person: confirmPairing, cancelPairing *)

\* The state is checked...
ConfirmJoiner(k, s) ==
    /\ clickJ[k] = None /\ \A f \in finishing : f.by # k
    /\ joiner[s].state = "comparing"
    /\ clickJ' = [clickJ EXCEPT ![k] = s]
    /\ joinerSaid' = joinerSaid \cup {s}
    /\ UNCHANGED <<member, joiner, thread, call, cancels, clickM, finishing, admitted, belongs, memberSaid>>

\* ...and, with the mutex taken anew, the confirmation recorded.
RecordConfirmation(k) ==
    LET s == clickJ[k] IN
    /\ s # None
    /\ clickJ' = [clickJ EXCEPT ![k] = None]
    /\ joiner' = Becomes([joiner EXCEPT ![s].confirmed = TRUE], s, "waiting")
    /\ Begin(k, s)
    /\ UNCHANGED <<member, thread, call, cancels, clickM, admitted, belongs, Said>>

\* The member is told, if the message arrives.
CancelJoiner(s) ==
    /\ IsOpen(joiner[s])
    /\ joiner' = Reject(joiner, s)
    /\ cancels' = cancels \cup {s}
    /\ UNCHANGED <<member, thread, call, clickM, clickJ, finishing, admitted, belongs, Said>>

-----------------------------------------------------------------------------
(* finishJoinerPairing, run by the goroutine and by confirmPairing *)

ReturnSilently(f) == finishing' = finishing \ {f} /\ UNCHANGED thread

\* The run f ends; the goroutine goes back to its ticker.
Return(f) ==
    /\ finishing' = finishing \ {f}
    /\ thread' = IF f.by = "poll" THEN [thread EXCEPT ![f.session] = "polling"] ELSE thread

Advance(f, at) == finishing' = (finishing \ {f}) \cup {[by |-> f.by, session |-> f.session, at |-> at]}

TakeUnconfirmed(f) ==
    /\ f.at = "start"
    /\ IF IsOpen(joiner[f.session]) /\ joiner[f.session].welcome
       THEN Advance(f, "taken") /\ UNCHANGED thread
       ELSE Return(f)
    /\ UNCHANGED <<member, joiner, call, cancels, clickM, clickJ, admitted, belongs, Said>>

\* A welcome is taken once this side has confirmed...
TakeWelcome(f) ==
    /\ f.at = "start"
    /\ IF IsOpen(joiner[f.session]) /\ joiner[f.session].confirmed /\ joiner[f.session].welcome
       THEN Advance(f, "taken") /\ UNCHANGED thread
       ELSE Return(f)
    /\ UNCHANGED <<member, joiner, call, cancels, clickM, clickJ, admitted, belongs, Said>>

\* ...and stored as this device's circle unless it has it, or cannot write it...
ApplyPairingWelcome(f) ==
    LET d == Of[f.session] IN
    /\ f.at = "taken"
    /\ \/ d \notin belongs /\ belongs' = belongs \cup {d} /\ Advance(f, "joined")
       \/ UNCHANGED belongs /\ Advance(f, "failed")
    /\ UNCHANGED <<member, joiner, thread, call, cancels, clickM, clickJ, admitted, Said>>

\* ...which closes the session.
CloseSession(f) ==
    /\ f.at \in {"joined", "failed"}
    /\ joiner' = Becomes(joiner, f.session, f.at)
    /\ Return(f)
    /\ UNCHANGED <<member, call, cancels, clickM, clickJ, admitted, belongs, Said>>

-----------------------------------------------------------------------------
(* The environment *)

\* A connection breaks before or after the member answers, or times out.
LoseCall(s) ==
    /\ call[s] \in Request \cup (Outcome \ {"lost"})
    /\ Answer(s, "lost")
    /\ UNCHANGED <<member, joiner, thread, cancels, clickM, clickJ, finishing, admitted, belongs, Said>>

LoseCancel(s) ==
    /\ s \in cancels
    /\ cancels' = cancels \ {s}
    /\ UNCHANGED <<member, joiner, thread, call, clickM, clickJ, finishing, admitted, belongs, Said>>

\* expirePairingsLocked: two minutes have passed.
ExpireMember(s) ==
    /\ IsOpen(member[s])
    /\ member' = Becomes(member, s, "expired")
    /\ UNCHANGED <<joiner, thread, call, cancels, clickM, clickJ, finishing, admitted, belongs, Said>>

ExpireJoiner(s) ==
    /\ IsOpen(joiner[s])
    /\ joiner' = Becomes(joiner, s, "expired")
    /\ UNCHANGED <<member, thread, call, cancels, clickM, clickJ, finishing, admitted, belongs, Said>>

\* Ten minutes later, when nothing of the pairing is under way any more, it is deleted.
Forget(s) ==
    /\ thread[s] = "ended" /\ s \notin cancels
    /\ ~IsOpen(member[s]) /\ ~IsOpen(joiner[s]) /\ <<member[s], joiner[s]>> # <<NoSide, NoSide>>
    /\ \A k \in Click : clickM[k].session # s /\ clickJ[k] # s
    /\ \A f \in finishing : f.session # s
    /\ member' = [member EXCEPT ![s] = NoSide] /\ joiner' = [joiner EXCEPT ![s] = NoSide]
    /\ UNCHANGED <<thread, call, cancels, clickM, clickJ, finishing, admitted, belongs, Said>>

\* A Core ends and takes its sessions along; the circle files stay.
RestartMember ==
    /\ member' = [s \in Session |-> NoSide]
    /\ clickM' = [k \in Click |-> NoClick]
    /\ call' = [s \in Session |-> IF call[s] \in Request THEN "lost" ELSE call[s]]
    /\ UNCHANGED <<joiner, thread, cancels, clickJ, finishing, admitted, belongs, Said>>

RestartJoiner(d) ==
    LET its == {s \in Session : Of[s] = d} IN
    /\ joiner' = [s \in Session |-> IF s \in its THEN NoSide ELSE joiner[s]]
    /\ thread' = [s \in Session |-> IF s \in its /\ thread[s] # "idle" THEN "ended" ELSE thread[s]]
    /\ call' = [s \in Session |-> IF s \in its THEN "none" ELSE call[s]]
    /\ clickJ' = [k \in Click |-> IF clickJ[k] \in its THEN None ELSE clickJ[k]]
    /\ finishing' = {f \in finishing : f.session \notin its}
    /\ UNCHANGED <<member, cancels, clickM, admitted, belongs, Said>>

Next ==
    \/ \E s \in Session :
          \/ MemberHello(s) \/ MemberReveal(s) \/ MemberPoll(s) \/ MemberCancel(s)
          \/ CancelMember(s) \/ CancelJoiner(s)
          \/ StartPairing(s) \/ HelloDone(s) \/ RevealDone(s) \/ Poll(s) \/ PollDone(s)
          \/ LoseCall(s) \/ LoseCancel(s) \/ ExpireMember(s) \/ ExpireJoiner(s) \/ Forget(s)
    \/ \E k \in Click, s \in Session : ConfirmMember(k, s) \/ ConfirmJoiner(k, s)
    \/ \E k \in Click :
          AdmitWithWelcome(k) \/ AdmissionFails(k) \/ StoreWelcome(k) \/ RecordConfirmation(k)
    \/ \E f \in finishing : TakeWelcome(f) \/ ApplyPairingWelcome(f) \/ CloseSession(f)
    \/ RestartMember
    \/ \E d \in Joiner : RestartJoiner(d)

Spec == Init /\ [][Next]_vars

\* Goroutines run; a call ends by its deadline; and a call made once a second is answered, and its
\* answer received, at times.  Nothing is assumed of clicks, expiry and restarts.
Received(s) == call[s] # "lost" /\ PollDone(s)

Finishing(s) ==
    \E f \in finishing :
        f.session = s /\ (TakeWelcome(f) \/ ApplyPairingWelcome(f) \/ CloseSession(f))

Fairness ==
    \A s \in Session :
        /\ WF_vars(HelloDone(s)) /\ WF_vars(RevealDone(s)) /\ WF_vars(Poll(s)) /\ WF_vars(PollDone(s))
        /\ WF_vars(LoseCall(s)) /\ WF_vars(Finishing(s))
        /\ SF_vars(MemberPoll(s)) /\ SF_vars(Received(s))

FairSpec == Spec /\ Fairness

-----------------------------------------------------------------------------
(* Properties *)

\* Everything has its shape, and a goroutine that finishes has exactly one run under way.
Shape ==
    /\ member \in [Session -> Side] /\ joiner \in [Session -> Side]
    /\ thread \in [Session -> At] /\ call \in [Session -> Request \cup Outcome \cup {"none"}]
    /\ cancels \subseteq Session /\ finishing \subseteq Finish
    /\ clickM \in [Click -> ClickM]
    /\ clickJ \in [Click -> Session \cup {None}]
    /\ admitted \subseteq Joiner /\ belongs \subseteq Joiner
    /\ memberSaid \subseteq Session /\ joinerSaid \subseteq Session

ByThread(s) == {f \in finishing : f.by = "poll" /\ f.session = s}

OneRun(s) ==
    /\ thread[s] = "finishing" <=> ByThread(s) # {}
    /\ \A f, g \in ByThread(s) : f = g

TypeOK == Shape /\ \A s \in Session : OneRun(s)

\* A device holds the circle only after both people have confirmed one and the same session, in
\* whatever order calls, clicks, expiry and restarts come (finishJoinerPairing).
BothPeopleConfirmed ==
    \A d \in belongs : \E s \in memberSaid \cap joinerSaid : Of[s] = d

\* A device that holds the circle is on the roster of the member that let it in, even if that
\* member's Core stopped half way (confirmPairing, admitWithWelcome).
JoinedIsAdmitted == belongs \subseteq admitted

\* Joining takes both people and the member's roster.
JoiningIsAgreed == BothPeopleConfirmed /\ JoinedIsAdmitted

Polling(s) == thread[s] \in {"polling", "asking", "finishing"}

\* Once both have confirmed, the joiner gets in over calls that fail, unless its session closes
\* first (memberHandlePair, pollPairing).
JoinerGetsIn ==
    \A s \in Session :
        (member[s].welcome /\ joiner[s].confirmed /\ IsOpen(joiner[s]) /\ Polling(s))
        ~> (Of[s] \in belongs \/ ~IsOpen(joiner[s]))

\* Whatever closes a session, its goroutine ends, unless a confirmation under way opens the
\* session again (pollPairing).
PollerEnds ==
    \A s \in Session :
        (Polling(s) /\ ~IsOpen(joiner[s])) ~> (thread[s] = "ended" \/ IsOpen(joiner[s]))

\* Every pairing comes to an end: it joins the device, or its goroutine stops.
PairingEnds == JoinerGetsIn /\ PollerEnds
=============================================================================
