------------------------------- MODULE Calls -------------------------------
(***************************************************************************)
(* One call among the devices of a circle (share_call.go and               *)
(* dashboard/call.mjs).  Two programs on each device keep their own        *)
(* account of it: the Core, which carries signals over the circle's chat   *)
(* and keeps callByID, and the dashboard, which polls the Core's events,   *)
(* rings, and acts on what the user clicks.  Both work out who is in the   *)
(* call and who hosts it from the signals alone; nothing else reconciles   *)
(* them.                                                                   *)
(*                                                                         *)
(* A signal is recorded by the sender's own Core and then published, to    *)
(* one topic per receiver.  The chat's host keeps the order of one         *)
(* sender's messages to one receiver, and only that order.  The media      *)
(* signals (offer, answer, ice, media-state, mod) follow an accept and     *)
(* move neither roster nor host; they are left out, and no signal is lost. *)
(***************************************************************************)
EXTENDS Integers, FiniteSets, Sequences, SequencesExt

CONSTANTS
  Device,    \* device ids, in the order the code compares them
  Caller     \* the devices that may start the call

ASSUME DeviceAssumption == Device \subseteq Nat \ {0} /\ IsFiniteSet(Device)
ASSUME CallerAssumption == Caller \subseteq Device

VARIABLES
  sess,      \* [Device -> the Core's callSessionState]
  dash,      \* [Device -> what the dashboard holds of the call]
  quiet,     \* the devices that left without telling all: who declines or is
             \* busy tells one, a caller without an answer to its invite no one
  wire,      \* [Device -> [Device -> signals published and not delivered]]
  heard      \* [Device -> callEvents the dashboard has not polled]

talk == <<sess, dash, quiet, wire, heard>>

NoOne == 0

Kind == {"invite", "accept", "reject", "busy", "hangup", "host"}
Leaving == {"reject", "busy", "hangup"}

Signal == [kind : Kind, from : Device, host : Device \cup {NoOne},
           people : SUBSET Device]

Session == [state : {"none", "ringing", "active", "ended"},
            inbound : BOOLEAN, peer : Device \cup {NoOne},
            host : Device \cup {NoOne}, people : SUBSET Device]

\* "elsewhere" is a dashboard whose callID is another call's.
Role == {"idle", "elsewhere", "ringing-in", "ringing-out", "active"}

\* call: callID is this call's.  doing: a handler is waiting for its request
\* and finishes later, whatever was dispatched meanwhile.
Dash == [role : Role, call : BOOLEAN, host : Device \cup {NoOne},
         group : SUBSET Device, peer : Device \cup {NoOne},
         doing : {"nothing", "joining", "leaving"}]

----------------------------------------------------------------------------
(* The Core's session.                                                     *)

Lowest(ids) == CHOOSE d \in ids : \A e \in ids : d <= e

\* updateCallSession, for a signal this device sends to one peer.
SentTo(s, m, to) ==
  CASE m.kind = "invite" -> [s EXCEPT !.state = "ringing", !.inbound = FALSE,
                               !.peer = to, !.host = m.host, !.people = m.people]
    [] m.kind = "accept" -> [s EXCEPT !.state = "active", !.people = @ \cup {to}]
    [] m.kind = "host"   -> [s EXCEPT !.host = m.host,
                               !.state = IF @ \in {"none", "ringing"} THEN "active" ELSE @]
    [] m.kind \in Leaving -> [s EXCEPT !.state = "ended"]

\* A slip: the call ends when two are left.
EndsEarly(s, gone) ==
  LET left == s.people \ {gone} IN
    [s EXCEPT !.people = left,
              !.host = IF @ = gone /\ left # {} THEN Lowest(left) ELSE @,
              !.state = IF Cardinality(left) <= 2 THEN "ended" ELSE @]

\* A slip: whoever leaves, the lowest one left hosts.
AlwaysPromotes(s, gone) ==
  LET left == s.people \ {gone} IN
    [s EXCEPT !.people = left,
              !.host = IF left # {} THEN Lowest(left) ELSE @,
              !.state = IF Cardinality(left) <= 1 THEN "ended" ELSE @]

\* applyCallSessionReject for a signal received: the lowest one left hosts.
WithoutLeaver(s, gone) ==
  LET left == s.people \ {gone} IN
    [s EXCEPT !.people = left,
              !.host = IF @ = gone /\ left # {} THEN Lowest(left) ELSE @,
              !.state = IF Cardinality(left) <= 1 THEN "ended" ELSE @]

\* updateCallSession, for a signal received.
Received(s, m) ==
  CASE m.kind = "invite" -> [s EXCEPT !.state = "ringing", !.inbound = TRUE,
                               !.peer = m.from, !.host = m.host, !.people = m.people]
    [] m.kind = "accept" -> [s EXCEPT !.state = "active", !.people = @ \cup {m.from}]
    [] m.kind = "host"   -> [s EXCEPT !.host = m.host,
                               !.state = IF @ \in {"none", "ringing"} THEN "active" ELSE @]
    [] m.kind \in Leaving -> WithoutLeaver(s, m.from)

\* allowHostClaim: no host, this one, or one that is not in the call any more.
AllowHostClaim(s, d) ==
  /\ s.state # "none"
  /\ \/ s.host \in {NoOne, d}
     \/ s.host \notin s.people

\* publishCallSignal, once per target: record, then publish.  The session ends
\* up with the last target as its peer, which nothing reads of an outbound one.
Post(d, kind, targets, h, people) ==
  LET m == [kind |-> kind, from |-> d, host |-> h, people |-> people] IN
  /\ sess' = [sess EXCEPT ![d] =
                IF targets = {} THEN @ ELSE SentTo(@, m, Lowest(targets))]
  /\ wire' = [wire EXCEPT ![d] = [to \in Device |->
                IF to \in targets THEN Append(@[to], m) ELSE @[to]]]

\* acceptCallSignalWire: update the session, append the event.
Deliver(s, d) ==
  /\ wire[s][d] # <<>>
  /\ sess' = [sess EXCEPT ![d] = Received(@, Head(wire[s][d]))]
  /\ heard' = [heard EXCEPT ![d] = Append(@, Head(wire[s][d]))]
  /\ wire' = [wire EXCEPT ![s][d] = Tail(@)]
  /\ UNCHANGED <<dash, quiet>>

----------------------------------------------------------------------------
(* What the user clicks.                                                   *)

NoDash == [role |-> "idle", call |-> FALSE, host |-> NoOne, group |-> {},
           peer |-> NoOne, doing |-> "nothing"]

\* teardown: everything but the handler still waiting for its request.
TornDown(v) == [NoDash EXCEPT !.doing = v.doing]

\* startOutboundMany, up to its request: the caller hosts, and its Core invites
\* everyone at once.  The dashboard has no callID before the request's answer.
StartCall(d) ==
  /\ d \in Caller
  /\ \A e \in Device : sess[e].state = "none" /\ wire[e] = [to \in Device |-> <<>>]
  /\ dash[d].role = "idle"
  /\ \E group \in SUBSET (Device \ {d}) \ {{}} : \E first \in group :
       /\ dash' = [dash EXCEPT ![d] = [role |-> "ringing-out", call |-> FALSE,
                     host |-> d, group |-> group, peer |-> first, doing |-> "nothing"]]
       /\ Post(d, "invite", group, d, group \cup {d})
  /\ UNCHANGED <<quiet, heard>>

\* startOutboundMany, after it.  An event may have bound the call already, and a
\* dashboard that is idle by now keeps a callID it does not read.
InviteSent(d) ==
  /\ dash[d].role = "ringing-out" /\ ~dash[d].call
  /\ dash' = [dash EXCEPT ![d].call = TRUE]
  /\ UNCHANGED <<sess, quiet, wire, heard>>

\* endCall(true) in between: without a callID there is nobody to tell.
GiveUp(d) ==
  /\ dash[d].role = "ringing-out" /\ ~dash[d].call
  /\ dash[d].doing = "nothing"
  /\ dash' = [dash EXCEPT ![d] = NoDash]
  /\ quiet' = quiet \cup {d}
  /\ UNCHANGED <<sess, wire, heard>>

\* A user answers a ring later than the invites arrive, sent one after the
\* other, and than the poll, 1.2 s apart, brings this device's.
InviteSeen(d) ==
  \A s, e \in Device : \A m \in ToSet(wire[s][e]) \cup ToSet(heard[d]) :
    m.kind # "invite"

\* acceptInbound, up to its request: only the inviter, or who replaced it as
\* the peer, is told.
Accept(d) ==
  /\ dash[d].role = "ringing-in" /\ dash[d].doing = "nothing"
  /\ InviteSeen(d)
  /\ dash' = [dash EXCEPT ![d].doing = "joining"]
  /\ Post(d, "accept", {dash[d].peer}, NoOne, {})
  /\ UNCHANGED <<quiet, heard>>

\* acceptInbound, after it: showActive, even if the call ended meanwhile.
Join(d) ==
  /\ dash[d].doing = "joining"
  /\ dash' = [dash EXCEPT ![d].role = "active", ![d].doing = "nothing"]
  /\ UNCHANGED <<sess, quiet, wire, heard>>

\* callDecline, up to its request.
Decline(d) ==
  /\ dash[d].role = "ringing-in" /\ dash[d].doing = "nothing"
  /\ InviteSeen(d)
  /\ dash' = [dash EXCEPT ![d].doing = "leaving"]
  /\ Post(d, "reject", {dash[d].peer}, NoOne, {})
  /\ quiet' = quiet \cup {d}
  /\ UNCHANGED heard

\* Only the peer the device talks to first.
FirstPeer(v) == {v.peer} \ {NoOne}

\* callMeshPeerIDs: the group, or the one peer.
Peers(v) == IF v.group # {} THEN v.group ELSE {v.peer} \ {NoOne}

\* endCall(true), up to its requests: everyone in the call is told.
HangUp(d) ==
  /\ dash[d].role \in {"ringing-in", "ringing-out", "active"}
  /\ dash[d].role = "ringing-out" => dash[d].call
  /\ dash[d].doing = "nothing"
  /\ InviteSeen(d)
  /\ dash' = [dash EXCEPT ![d].doing = "leaving"]
  /\ Post(d, "hangup", IF dash[d].call THEN Peers(dash[d]) ELSE {}, NoOne, {})
  /\ UNCHANGED <<quiet, heard>>

\* endCall, after them.
Leave(d) ==
  /\ dash[d].doing = "leaving"
  /\ dash' = [dash EXCEPT ![d] = NoDash]
  /\ UNCHANGED <<sess, quiet, wire, heard>>

----------------------------------------------------------------------------
(* What the dashboard learns: dispatchCallEvent and the Core's snapshot.   *)

Dispatched(d) == Head(heard[d])

Polls(d, kinds) ==
  /\ heard[d] # <<>>
  /\ Dispatched(d).kind \in kinds
  /\ heard' = [heard EXCEPT ![d] = Tail(@)]

\* dispatchCallEvent's first lines: the event names the call and the peer of a
\* dashboard that has none.
Bound(d) ==
  [dash[d] EXCEPT !.call = TRUE,
                  !.peer = IF @ = NoOne THEN Dispatched(d).from ELSE @]

InACall(d) == dash[d].role \notin {"idle", "elsewhere"}

\* A slip: the caller alone, as if the invite had no roster.
CallerOnly(d, people) == {Dispatched(d).from}

\* The roster as it came.
WholeRoster(d, people) == people

\* parseCallRoster without this device.
Others(d, people) == people \ {d}

HearInvite(d) ==
  /\ Polls(d, {"invite"})
  /\ dash[d].role # "elsewhere"
  /\ dash' = [dash EXCEPT ![d] = [Bound(d) EXCEPT !.role = "ringing-in",
                !.host = Dispatched(d).host, !.group = Others(d, Dispatched(d).people)]]
  /\ UNCHANGED <<sess, quiet, wire>>

\* replyBusy: only the inviter is told.
ReplyBusy(d) ==
  /\ Polls(d, {"invite"})
  /\ dash[d].role = "elsewhere"
  /\ Post(d, "busy", {Dispatched(d).from}, NoOne, {})
  /\ quiet' = quiet \cup {d}
  /\ UNCHANGED dash

HearAccept(d) ==
  /\ Polls(d, {"accept"})
  /\ InACall(d)
  /\ dash' = [dash EXCEPT ![d] = [Bound(d) EXCEPT !.role = "active"]]
  /\ UNCHANGED <<sess, quiet, wire>>

HearHost(d) ==
  /\ Polls(d, {"host"})
  /\ InACall(d)
  /\ dash' = [dash EXCEPT ![d] = [Bound(d) EXCEPT !.host = Dispatched(d).host]]
  /\ UNCHANGED <<sess, quiet, wire>>

\* The lowest of the others.
PromotedOther(d, left) == Lowest(left)

\* promoteHost: the lowest of those left, this device included.
Promoted(d, left) == Lowest(left \cup {d})

\* peerLeft, with two or more others: drop the one, replace the host, and tell
\* the rest if it is this device.
HearOneLeave(d) ==
  LET gone == Dispatched(d).from
      left == dash[d].group \ {gone}
      next == IF dash[d].host = gone THEN Promoted(d, left) ELSE dash[d].host
  IN
  /\ Polls(d, Leaving)
  /\ InACall(d)
  /\ Cardinality(dash[d].group) > 1 /\ gone \in dash[d].group
  /\ \E peer \in IF Bound(d).peer = gone THEN left ELSE {Bound(d).peer} :
       dash' = [dash EXCEPT ![d] = [Bound(d) EXCEPT !.group = left,
                                      !.host = next, !.peer = peer]]
  /\ IF dash[d].host = gone /\ next = d /\ AllowHostClaim(sess[d], d)
       THEN Post(d, "host", left, d, {})
       ELSE UNCHANGED <<sess, wire>>
  /\ UNCHANGED quiet

\* peerLeft otherwise: endCall(false), which tells nobody.
HearLastLeave(d) ==
  /\ Polls(d, Leaving)
  /\ InACall(d)
  /\ ~ (Cardinality(dash[d].group) > 1 /\ Dispatched(d).from \in dash[d].group)
  /\ dash' = [dash EXCEPT ![d] = TornDown(@)]
  /\ UNCHANGED <<sess, quiet, wire>>

\* An idle dashboard drops all but invites, and one in another call as well.
HearNothing(d) ==
  /\ Polls(d, Kind \ {"invite"})
  /\ ~ InACall(d)
  /\ UNCHANGED <<sess, dash, quiet, wire>>

\* sameIncoming: what the snapshot names is shown already.
Shown(v) == v.call /\ v.role \in {"ringing-in", "active"}

\* apply: the Core's snapshot names a ringing call (attachIncomingCall) and its
\* peer, and neither roster nor host.
SeeIncoming(d) ==
  /\ sess[d].state = "ringing" /\ sess[d].inbound
  /\ dash[d].role # "elsewhere"
  /\ dash' = [dash EXCEPT ![d].role = IF Shown(dash[d]) THEN @ ELSE "ringing-in",
                          ![d].call = TRUE, ![d].peer = sess[d].peer]
  /\ UNCHANGED <<sess, quiet, wire, heard>>

----------------------------------------------------------------------------
NoSession == [state |-> "none", inbound |-> FALSE, peer |-> NoOne,
              host |-> NoOne, people |-> {}]

CallInit ==
  /\ sess = [d \in Device |-> NoSession]
  /\ \E away \in SUBSET Device :
       dash = [d \in Device |->
         [NoDash EXCEPT !.role = IF d \in away THEN "elsewhere" ELSE "idle"]]
  /\ quiet = {}
  /\ wire = [s \in Device |-> [d \in Device |-> <<>>]]
  /\ heard = [d \in Device |-> <<>>]

Dispatch(d) ==
  \/ HearInvite(d) \/ ReplyBusy(d) \/ HearAccept(d) \/ HearHost(d)
  \/ HearOneLeave(d) \/ HearLastLeave(d) \/ HearNothing(d) \/ SeeIncoming(d)

Click(d) ==
  \/ StartCall(d) \/ InviteSent(d) \/ GiveUp(d)
  \/ Accept(d) \/ Join(d) \/ Decline(d)
  \/ HangUp(d) \/ Leave(d)

CallNext ==
  \E d \in Device : \/ Click(d) \/ Dispatch(d)
                    \/ \E s \in Device : Deliver(s, d)

CallSpec == CallInit /\ [][CallNext]_talk

----------------------------------------------------------------------------
(* Properties.                                                             *)

\* Every record keeps its shape; a device with a ringing or running call knows
\* whom to answer, and nothing is published to oneself.
CallTypeOK ==
  /\ sess \in [Device -> Session]
  /\ dash \in [Device -> Dash]
  /\ quiet \subseteq Device
  /\ wire \in [Device -> [Device -> Seq(Signal)]]
  /\ heard \in [Device -> Seq(Signal)]
  /\ \A d \in Device :
       /\ wire[d][d] = <<>>
       /\ d \notin dash[d].group
       /\ dash[d].role = "ringing-in" => dash[d].peer # NoOne

\* Every signal has been delivered and dispatched, and no handler waits.
Settled ==
  /\ \A d \in Device : heard[d] = <<>> /\ dash[d].doing = "nothing"
  /\ \A s, d \in Device : wire[s][d] = <<>>

\* The dashboards that show a running call with others in it.
Talking == {d \in Device : dash[d].role = "active" /\ dash[d].group # {}}

\* In the call as far as its own dashboard goes, and not about to leave.
InIt(d) == InACall(d) /\ dash[d].doing # "leaving"

\* At every moment, two devices that are in the call show each other in it
\* (parseCallRoster, peerLeft): who is dropped has left, whatever crosses.
RostersMeet ==
  \A d, e \in Device :
    d # e /\ InIt(d) /\ InIt(e) /\ dash[d].group # {} /\ dash[e].group # {} => e \in dash[d].group

\* As long as the caller is in the call, every dashboard that shows the call and
\* its Core have the caller for host, and so nobody else may moderate
\* (allowHostClaim, promoteHost, applyCallSessionReject, authorizeCallModerator).
CallerHosts ==
  \A c, d \in Device :
    InIt(c) /\ dash[c].group # {} /\ ~sess[c].inbound /\ dash[d].group # {} =>
      dash[d].host = c /\ sess[d].host = c

\* Once a dashboard in the call has polled all its events, its Core counts the
\* call as running and has on its roster everybody the dashboard shows, although
\* each works that out on its own (updateCallSession, applyCallSessionReject).
CoresKeepUp ==
  \A d \in Talking : heard[d] = <<>> /\ dash[d].doing = "nothing" =>
    sess[d].state = "active" /\ dash[d].group \subseteq sess[d].people

\* The devices whose Cores know of the call.
Called == {d \in Device : sess[d].state # "none"}

\* Once every signal is in, all who talk in a call of three have the same host,
\* whether or not the caller is still there, and each Core names the host its
\* dashboard shows.
HostIsShared ==
  Settled /\ Cardinality(Called) <= 3 => \A d, e \in Talking :
    dash[d].host = dash[e].host /\ sess[d].host = dash[d].host

\* All that the devices of a call agree on, though nothing but signals reconciles
\* their dashboards and Cores.
CallAgrees == RostersMeet /\ CallerHosts /\ CoresKeepUp /\ HostIsShared

\* Once every signal is in, whoever is shown in a call without being in it
\* declined it, was busy, or called and ended before its invite was answered: who
\* hangs up is dropped by everyone it talked to, however the hangups cross
\* (endCall, peerLeft).
LeaversAreDropped ==
  Settled => \A d \in Talking \ quiet : \A e \in dash[d].group :
    InACall(e) \/ e \in quiet
=============================================================================
