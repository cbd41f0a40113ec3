------------------------ MODULE AccessAndCallsProofs ------------------------
(***************************************************************************)
(* Two components in which devices part.  For any number of peers, windows *)
(* and requests: after a removal in the Core, a stream of the removed      *)
(* device that still runs was admitted before the removal and registered   *)
(* after it.  For any finite circle: whoever hangs up a call is dropped by *)
(* everyone it talked to.                                                  *)
(***************************************************************************)
EXTENDS TerminalAccess, Calls, FiniteSetTheorems, SequenceTheorems,
        WellFoundedInduction, TLAPS

-----------------------------------------------------------------------------
(* Terminal access.                                                         *)


\* A removal by the Core has taken d's share and is about to close its streams.
AboutToClose(d) == removal.at = "unshared" /\ removal.dev = d /\ removal.by # "command"

\* What a removal finds: every stream whose pump still sends.
Registered == \A w \in Window : Streaming(w) => w \in hubs

\* Whoever lost its share to the Core has no stream but late ones and those about to be closed.
Overdue(w) == Streaming(w) /\ window[w].dev \notin shares /\ lostBy[window[w].dev] = "core"
NoneOverdue == \A w \in Window : Overdue(w) => window[w].late \/ AboutToClose(window[w].dev)

IInv == TypeOK /\ Registered /\ NoneOverdue

LEMMA BlankValues == Closed \in Stream /\ NoRequest \in Sharing /\ NoRemoval \in Removal
<1>1. Closed.dev \in Peer
    BY PeerAssumption DEF Closed
<1> QED
    BY <1>1, KeyAssumption DEF Closed, Stream, NoRequest, Sharing, NoRemoval, Removal

LEMMA InitInvariant == Init => IInv
<1> SUFFICES ASSUME Init PROVE IInv
    OBVIOUS
<1>1. \A w \in Window : window[w] = Closed /\ ~Streaming(w)
    BY DEF Init, Streaming, Closed
<1>2. key \in 0..MaxKey
    BY KeyAssumption DEF Init
<1>3. /\ window \in [Window -> Stream] /\ request \in [Request -> Sharing]
      /\ removal \in Removal /\ lostBy \in [Peer -> {"core", "other"}]
    BY BlankValues DEF Init
<1>4. TypeOK
    BY <1>2, <1>3 DEF Init, TypeOK
<1> QED
    BY <1>1, <1>4 DEF IInv, Registered, NoneOverdue, Overdue

-----------------------------------------------------------------------------
(* Steps of one window.                                                     *)

\* A step that changes window w alone: what has to be seen of its new value s.
LEMMA WindowKeeps ==
    ASSUME IInv, NEW w \in Window, NEW s \in Stream, Sets(w, s),
           UNCHANGED <<circle, shares, private, lostBy, request, removal>>,
           participants' \subseteq Peer,
           \/ s.at # "open" /\ hubs' = hubs \ {w}
           \/ s.at = "open" /\ hubs' = hubs \cup {w}
           \/ s.at = "open" /\ s.hub = "closed" /\ hubs' = hubs,
           \/ ~(s.at = "open" /\ s.hub = "open")
           \/ s.late
           \/ s.dev \in shares
           \/ Streaming(w) /\ s.dev = window[w].dev /\ s.late = window[w].late
    PROVE  IInv'
<1>1. window' = [window EXCEPT ![w] = s] /\ window \in [Window -> Stream]
    BY DEF Sets, IInv, TypeOK
<1>2. window'[w] = s /\ \A v \in Window \ {w} : window'[v] = window[v]
    BY <1>1
<1>3. TypeOK'
    BY <1>1, <1>2 DEF IInv, TypeOK, circle
<1>4. Registered'
    BY <1>2 DEF IInv, Registered, Streaming
<1>5. NoneOverdue'
    BY <1>2 DEF IInv, NoneOverdue, Overdue, Streaming, AboutToClose
<1> QED
    BY <1>3, <1>4, <1>5 DEF IInv

LEMMA RegistryFollows ==
    ASSUME IInv, NEW w \in Window
    PROVE  /\ window[w] \in Stream
           /\ w \in hubs => window[w].at = "open"
           /\ Streaming(w) => w \in hubs
BY DEF IInv, TypeOK, Registered

LEMMA StreamKeeps ==
    ASSUME IInv, NEW w \in Window, StreamNext(w) PROVE IInv'
<1> USE DEF rows, circle
<1>0. window[w] \in Stream /\ participants \subseteq Peer /\ members \subseteq Peer /\ key \in 0..MaxKey
    BY DEF IInv, TypeOK
<1>1. ASSUME NEW d \in Peer, LoadCircle(w, d) PROVE IInv'
    <2> DEFINE s == [Closed EXCEPT !.at = "loaded", !.dev = d, !.key = key]
    <2>1. s \in Stream /\ s.at = "loaded"
        BY <1>0, BlankValues DEF Stream, Closed
    <2>2. hubs \ {w} = hubs
        BY <1>1, RegistryFollows DEF LoadCircle, Dials
    <2> QED
        BY <1>0, <1>1, <2>1, <2>2, WindowKeeps DEF LoadCircle
<1>2. CASE Authorize(w)
    <2> DEFINE s == IF Admits(window[w].dev) THEN [window[w] EXCEPT !.at = "admitted"] ELSE Closed
    <2>1. s \in Stream /\ s.at # "open"
        BY <1>0, BlankValues DEF Stream, Closed
    <2>2. hubs \ {w} = hubs
        BY <1>2, RegistryFollows DEF Authorize
    <2>3. Sets(w, s) /\ UNCHANGED <<circle, rows, hubs, request, removal>>
        BY <1>2 DEF Authorize
    <2> HIDE DEF s
    <2> QED
        BY <1>0, <2>1, <2>2, <2>3, WindowKeeps
<1>3. CASE Attach(w)
    <2> DEFINE s == [window[w] EXCEPT !.at = "attached"]
    <2>1. s \in Stream /\ s.at = "attached" /\ window[w].dev \in Peer
        BY <1>0 DEF Stream
    <2>2. hubs \ {w} = hubs
        BY <1>3, RegistryFollows DEF Attach
    <2>3. participants' \subseteq Peer
        BY <1>0, <1>3, <2>1 DEF Attach, UpsertParticipantByDevice
    <2> QED
        BY <1>3, <2>1, <2>2, <2>3, WindowKeeps DEF Attach
<1>4. CASE Register(w)
    <2>1. Opened(w) \in Stream /\ Opened(w).at = "open" /\ (Opened(w).late \/ Opened(w).dev \in shares)
        BY <1>0 DEF Stream, Opened
    <2> QED
        BY <1>0, <1>4, <2>1, WindowKeeps DEF Register
<1>5. CASE ViewerLeaves(w)
    <2>1. CASE window[w].at = "open"
        <3> DEFINE s == [window[w] EXCEPT !.cut = TRUE]
        <3>1. s \in Stream /\ s.at = "open" /\ s.hub = window[w].hub /\ s.dev = window[w].dev /\ s.late = window[w].late
            BY <1>0, <2>1 DEF Stream
        <3>2. s.hub = "closed" \/ (hubs = hubs \cup {w} /\ Streaming(w))
            BY <1>0, <2>1, <3>1, RegistryFollows DEF Stream, Streaming
        <3>3. Sets(w, s) /\ UNCHANGED <<circle, rows, hubs, request, removal>>
            BY <1>5, <2>1 DEF ViewerLeaves
        <3> HIDE DEF s
        <3> QED
            BY <1>0, <3>1, <3>2, <3>3, WindowKeeps
    <2>2. CASE window[w].at # "open"
        <3>1. Sets(w, Closed) /\ UNCHANGED <<circle, rows, hubs, request, removal>>
            BY <1>5, <2>2 DEF ViewerLeaves
        <3>2. hubs \ {w} = hubs
            BY <2>2, RegistryFollows
        <3> QED
            BY <1>0, <3>1, <3>2, BlankValues, WindowKeeps DEF Closed
    <2> QED
        BY <2>1, <2>2
<1>6. ASSUME NEW s \in Stream, Sets(w, s), UNCHANGED <<circle, rows, hubs, request, removal>>,
             s.at = window[w].at, s.dev = window[w].dev, s.late = window[w].late,
             s.hub = window[w].hub \/ s.hub = "closed"
      PROVE  IInv'
    <2>1. CASE s.at # "open"
        BY <1>0, <1>6, <2>1, RegistryFollows, WindowKeeps
    <2>2. CASE s.at = "open"
        <3>1. s.hub = "closed" \/ (hubs = hubs \cup {w} /\ Streaming(w))
            <4>1. s.hub \in {"open", "closed"}
                BY DEF Stream
            <4>2. CASE s.hub = "open"
                <5>1. Streaming(w)
                    BY <1>6, <2>2, <4>2 DEF Streaming
                <5>2. w \in hubs
                    BY <5>1, RegistryFollows
                <5> QED
                    BY <5>1, <5>2
            <4> QED
                BY <4>1, <4>2
        <3> QED
            BY <1>0, <1>6, <2>2, <3>1, WindowKeeps
    <2> QED
        BY <2>1, <2>2
<1>7. CASE Send(w)
    <2>1. [window[w] EXCEPT !.sending = TRUE] \in Stream
        BY <1>0 DEF Stream
    <2> QED
        BY <1>0, <1>6, <1>7, <2>1 DEF Send, Stream
<1>8. CASE Sent(w)
    <2>1. [window[w] EXCEPT !.sending = FALSE] \in Stream
        BY <1>0 DEF Stream
    <2> QED
        BY <1>0, <1>6, <1>8, <2>1 DEF Sent, Stream
<1>9. CASE OutputEnds(w)
    <2>1. [window[w] EXCEPT !.hub = "closed"] \in Stream
        BY <1>0 DEF Stream
    <2> QED
        BY <1>0, <1>6, <1>9, <2>1 DEF OutputEnds, Stream
<1>10. CASE PumpEnds(w)
    BY <1>0, <1>10, BlankValues, WindowKeeps DEF PumpEnds, Closed
<1>11. CASE Recheck(w)
    <2>1. [window[w] EXCEPT !.cut = TRUE] \in Stream
        BY <1>0 DEF Stream
    <2> QED
        BY <1>0, <1>6, <1>11, <2>1 DEF Recheck, Stream
<1> QED
    BY <1>1, <1>2, <1>3, <1>4, <1>5, <1>7, <1>8, <1>9, <1>10, <1>11 DEF StreamNext

-----------------------------------------------------------------------------
(* Invites, removals, and what happens elsewhere.                           *)

LEMMA RequestKeeps ==
    ASSUME IInv, NEW r \in Request, RequestNext(r) PROVE IInv'
<1> USE DEF rows, circle, IInv, Asks
<1>0. request[r] \in Sharing /\ request[r].to \subseteq Peer /\ members \subseteq Peer
    BY DEF TypeOK, Sharing
<1>1. ASSUME NEW s \in Sharing, Asks(r, s), UNCHANGED <<circle, rows, window, hubs, removal>> PROVE IInv'
    <2>1. TypeOK'
        BY <1>1 DEF TypeOK
    <2>2. Registered' /\ NoneOverdue'
        BY <1>1 DEF Registered, NoneOverdue, Overdue, Streaming, AboutToClose
    <2> QED
        BY <2>1, <2>2
<1>2. ASSUME NEW d \in Peer, CheckInvite(r, d) PROVE IInv'
    <2>1. [at |-> "checked", kind |-> "invite", to |-> {d}, had |-> d \in shares] \in Sharing
        BY DEF Sharing
    <2> QED
        BY <1>1, <1>2, <2>1 DEF CheckInvite
<1>3. ASSUME NEW audience \in SUBSET Peer, CheckCard(r, audience) PROVE IInv'
    <2>1. [at |-> "checked", kind |-> "card", to |-> audience, had |-> FALSE] \in Sharing
        BY DEF Sharing
    <2> QED
        BY <1>1, <1>3, <2>1 DEF CheckCard
<1>4. CASE Grant(r)
    <2>1. PICK s \in Sharing : request' = [request EXCEPT ![r] = s]
        BY <1>0, <1>4, BlankValues DEF Grant, Sharing
    <2>2. TypeOK'
        BY <1>0, <1>4, <2>1 DEF TypeOK, Grant
    <2>3. Registered' /\ NoneOverdue'
        BY <1>4 DEF Grant, Registered, NoneOverdue, Overdue, Streaming, AboutToClose
    <2> QED
        BY <2>2, <2>3
<1>5. CASE Refused(r)
    BY <1>1, <1>5, BlankValues DEF Refused
<1>6. CASE Announce(r)
    <2>1. CASE UNCHANGED <<shares, lostBy>>
        BY <1>1, <1>6, <2>1, BlankValues DEF Announce
    <2>2. CASE /\ shares' = shares \ request[r].to
               /\ lostBy' = [d \in Peer |-> IF d \in request[r].to THEN "other" ELSE lostBy[d]]
        <3>1. TypeOK'
            BY <1>6, <2>2, BlankValues DEF TypeOK, Announce
        <3>2. Registered'
            BY <1>6 DEF Announce, Registered, Streaming
        <3>3. \A w \in Window : window[w].dev \in Peer
            BY DEF TypeOK, Stream
        <3>4. NoneOverdue'
            BY <1>6, <2>2, <3>3 DEF Announce, NoneOverdue, Overdue, Streaming, AboutToClose
        <3> QED
            BY <3>1, <3>2, <3>4
    <2> QED
        BY <1>6, <2>1, <2>2 DEF Announce
<1> QED
    BY <1>2, <1>3, <1>4, <1>5, <1>6 DEF RequestNext

LEMMA RemovalKeeps ==
    ASSUME IInv, RemovalNext PROVE IInv'
<1> USE DEF rows, circle, IInv
<1>0. removal \in Removal /\ \A w \in Window : window[w].dev \in Peer
    BY DEF TypeOK, Stream
<1>1. ASSUME NEW d \in Peer, RemoveParticipant(d) PROVE IInv'
    <2>1. TypeOK'
        BY <1>1 DEF TypeOK, RemoveParticipant, Removal
    <2>2. Registered' /\ NoneOverdue'
        BY <1>1 DEF RemoveParticipant, Registered, NoneOverdue, Overdue, Streaming, AboutToClose
    <2> QED
        BY <2>1, <2>2
<1>2. ASSUME NEW d \in Peer, NEW by \in {"dashboard", "command"}, RemoveMember(d, by) PROVE IInv'
    <2>1. removal' \in Removal /\ removal'.at # "unshared" /\ removal.at = "idle"
        BY <1>2, BlankValues DEF RemoveMember, Removal, NoRemoval
    <2>2. key' \in 0..MaxKey
        BY <1>2, KeyAssumption DEF RemoveMember, TypeOK
    <2>3. TypeOK'
        BY <1>2, <2>1, <2>2 DEF TypeOK, RemoveMember
    <2>4. Registered' /\ NoneOverdue'
        BY <1>2, <2>1 DEF RemoveMember, Registered, NoneOverdue, Overdue, Streaming, AboutToClose
    <2> QED
        BY <2>3, <2>4
<1>3. CASE TakeShare
    <2>1. removal' \in Removal /\ removal'.at = "unshared" /\ removal'.dev = removal.dev /\ removal'.by = removal.by
        BY <1>0, <1>3 DEF TakeShare, Removal
    <2>2. TypeOK'
        BY <1>3, <2>1 DEF TypeOK, TakeShare
    <2>3. Registered'
        BY <1>3 DEF TakeShare, Registered, Streaming
    <2>4. NoneOverdue'
        BY <1>0, <1>3, <2>1 DEF TypeOK, TakeShare, NoneOverdue, Overdue, Streaming, AboutToClose
    <2> QED
        BY <2>2, <2>3, <2>4
<1>4. CASE CloseStreams
    <2> DEFINE found == {w \in hubs : window[w].dev = removal.dev /\ removal.by # "command"}
    <2>1. /\ window' = [w \in Window |-> IF w \in found THEN [window[w] EXCEPT !.hub = "closed"] ELSE window[w]]
          /\ hubs' = hubs \ found /\ removal' = NoRemoval /\ UNCHANGED <<circle, rows, request>>
        BY <1>4 DEF CloseStreams
    <2>2. \A w \in Window : /\ window'[w] \in Stream
                            /\ window'[w].at = window[w].at /\ window'[w].dev = window[w].dev
                            /\ window'[w].late = window[w].late
                            /\ window'[w].hub = IF w \in found THEN "closed" ELSE window[w].hub
        BY <2>1 DEF TypeOK, Stream
    <2> HIDE DEF found
    <2>3. TypeOK'
        BY <2>1, <2>2, BlankValues DEF TypeOK
    <2>4. Registered'
        BY <2>1, <2>2 DEF Registered, Streaming
    <2>5. \A w \in Window : Streaming(w)' => Streaming(w) /\ w \notin found
        BY <2>2 DEF Streaming
    <2>6. \A w \in Window : Streaming(w)' => ~AboutToClose(window[w].dev)
        BY <2>5 DEF Registered, AboutToClose, found
    <2>7. NoneOverdue'
        BY <2>1, <2>2, <2>5, <2>6 DEF NoneOverdue, Overdue
    <2> QED
        BY <2>3, <2>4, <2>7
<1> QED
    BY <1>1, <1>2, <1>3, <1>4 DEF RemovalNext

LEMMA NextInvariant == IInv /\ [Next]_vars => IInv'
<1> SUFFICES ASSUME IInv, [Next]_vars PROVE IInv'
    OBVIOUS
<1> USE DEF rows, circle, IInv
<1>1. CASE SetPrivateMode
    BY <1>1 DEF SetPrivateMode, TypeOK, Registered, NoneOverdue, Overdue, Streaming, AboutToClose
<1>2. ASSUME NEW d \in Peer, RosterDrops(d) \/ Readmit(d) PROVE IInv'
    BY <1>2 DEF RosterDrops, Readmit, TypeOK, Registered, NoneOverdue, Overdue, Streaming, AboutToClose
<1>3. CASE KeyArrives
    <2>1. key' \in 0..MaxKey
        BY <1>3, KeyAssumption DEF KeyArrives, TypeOK
    <2> QED
        BY <1>3, <2>1 DEF KeyArrives, TypeOK, Registered, NoneOverdue, Overdue, Streaming, AboutToClose
<1>4. CASE StopCore
    <2>1. \A w \in Window : window'[w] = Closed /\ ~Streaming(w)'
        BY <1>4 DEF StopCore, Streaming, Closed
    <2>2. TypeOK'
        BY <1>4, BlankValues DEF StopCore, TypeOK
    <2> QED
        BY <2>1, <2>2 DEF Registered, NoneOverdue, Overdue
<1>5. CASE StopCommand
    BY <1>5, BlankValues DEF StopCommand, TypeOK, Registered, NoneOverdue, Overdue, Streaming, AboutToClose
<1>6. CASE UNCHANGED vars
    BY <1>6 DEF vars, TypeOK, Registered, NoneOverdue, Overdue, Streaming, AboutToClose
<1> QED
    BY <1>1, <1>2, <1>3, <1>4, <1>5, <1>6, StreamKeeps, RequestKeeps, RemovalKeeps DEF Next

-----------------------------------------------------------------------------
(* Theorems.                                                                *)

\* Every variable keeps its type, and the registry holds open streams only.
THEOREM TypeCorrect == Spec => []TypeOK
<1>1. IInv => TypeOK
    BY DEF IInv
<1> QED
    BY <1>1, InitInvariant, NextInvariant, PTL DEF Spec

\* Removing a participant, or a device from the dashboard, closes its streams at once, but for one
\* whose request was admitted before (revokeTerminalSessionAccess, closeTerminalStreamsForDevice).
THEOREM RemovalClosesStreams == Spec => []ClosedAtOnce
<1>1. IInv => ClosedAtOnce
    BY DEF IInv, NoneOverdue, Overdue, AboutToClose, ClosedAtOnce
<1> QED
    BY <1>1, InitInvariant, NextInvariant, PTL DEF Spec


-----------------------------------------------------------------------------
(* Signals on their way.                                                    *)

\* q holds a signal of s of one of these kinds.
Holds(q, s, kinds) == \E i \in 1..Len(q) : q[i].from = s /\ q[i].kind \in kinds

\* And no two of them.
Single(q, s, kinds) == \A i, j \in 1..Len(q) :
    /\ q[i].from = s /\ q[i].kind \in kinds
    /\ q[j].from = s /\ q[j].kind \in kinds
    => i = j

OnWire(s, d, kinds) == Holds(wire[s][d], s, kinds)
InEar(s, d, kinds) == Holds(heard[d], s, kinds)
Due(s, d, kinds) == OnWire(s, d, kinds) \/ InEar(s, d, kinds)

\* What c, who started the call among P, and the others may say to d.
Word(c, P, d) == {m \in Signal : d \in P /\ m.from \in P \ {d}
                                 /\ (m.kind = "invite" => m.from = c /\ m.people = P /\ m.host = c)
                                 /\ (m.kind = "host" => m.host = m.from)}

Said(c, P, s, d) == {m \in Word(c, P, d) : m.from = s}

SignalsGood(c, P) ==
  /\ wire \in [Device -> [Device -> Seq(Signal)]]
  /\ heard \in [Device -> Seq(Signal)]
  /\ \A s, d \in Device : wire[s][d] \in Seq(Said(c, P, s, d))
  /\ \A d \in Device : heard[d] \in Seq(Word(c, P, d))

\* Only the first signal may be an invite.
Foremost(q) == \A i \in 1..Len(q) : q[i].kind = "invite" => i = 1

\* An invite is the first thing a device hears of the call.
InvitesFirst(c) == \A d \in Device :
  /\ Foremost(heard[d])
  /\ OnWire(c, d, {"invite"}) =>
       /\ Len(wire[c][d]) = 1
       /\ heard[d] = <<>>
       /\ \A s \in Device \ {c} : wire[s][d] = <<>>

\* c is still sending its invites.
Inviting(c) == \E d \in Device : OnWire(c, d, {"invite"})

\* Meanwhile nobody has answered but a busy device, and c hosts.
Early(c) == Inviting(c) =>
  /\ \A s \in Device : \A d \in Device \ {c} : ~Due(s, d, Kind \ {"invite"})
  /\ \A s \in Device : ~Due(s, c, {"host"})
  /\ dash[c].host \in {c, NoOne}

LEMMA HoldsAppended ==
    ASSUME NEW q \in Seq(Signal), NEW m \in Signal, NEW s, NEW kinds
    PROVE  /\ Holds(Append(q, m), s, kinds) <=> Holds(q, s, kinds) \/ (m.from = s /\ m.kind \in kinds)
           /\ Single(q, s, kinds) /\ ~(Holds(q, s, kinds) /\ m.from = s /\ m.kind \in kinds)
              => Single(Append(q, m), s, kinds)
<1> DEFINE r == Append(q, m)
<1>1. /\ r \in Seq(Signal) /\ Len(q) \in Nat /\ Len(r) = Len(q) + 1
      /\ \A i \in 1..Len(q) : r[i] = q[i]
      /\ r[Len(q) + 1] = m
    BY AppendProperties, LenProperties
<1> HIDE DEF r
<1>2. \A i \in 1..Len(r) : i \in 1..Len(q) \/ i = Len(q) + 1
    BY <1>1
<1>3. 1..Len(q) \subseteq 1..Len(r) /\ Len(q) + 1 \in 1..Len(r)
    BY <1>1
<1>4. Holds(r, s, kinds) <=> Holds(q, s, kinds) \/ (m.from = s /\ m.kind \in kinds)
    BY <1>1, <1>2, <1>3 DEF Holds
<1>5. ASSUME Single(q, s, kinds), ~(Holds(q, s, kinds) /\ m.from = s /\ m.kind \in kinds)
      PROVE  Single(r, s, kinds)
    BY <1>1, <1>2, <1>5 DEF Holds, Single
<1> QED
    BY <1>4, <1>5 DEF r

LEMMA HoldsTail ==
    ASSUME NEW q \in Seq(Signal), q # <<>>, NEW s, NEW kinds
    PROVE  /\ Holds(Tail(q), s, kinds) => Holds(q, s, kinds)
           /\ Holds(q, s, kinds) => Holds(Tail(q), s, kinds) \/ (Head(q).from = s /\ Head(q).kind \in kinds)
           /\ Head(q).from = s /\ Head(q).kind \in kinds => Holds(q, s, kinds)
           /\ Single(q, s, kinds) => Single(Tail(q), s, kinds)
           /\ Single(q, s, kinds) /\ Head(q).from = s /\ Head(q).kind \in kinds => ~Holds(Tail(q), s, kinds)
<1> DEFINE r == Tail(q)
<1>1. /\ r \in Seq(Signal) /\ Len(q) \in Nat \ {0} /\ Len(r) = Len(q) - 1
      /\ \A i \in 1..Len(r) : r[i] = q[i + 1]
      /\ Head(q) = q[1]
    BY HeadTailProperties, LenProperties, EmptySeq
<1> HIDE DEF r
<1>2. \A i \in 1..Len(r) : i + 1 \in 1..Len(q) /\ i \in Nat
    BY <1>1
<1>3. \A i \in 1..Len(q) : i = 1 \/ (i - 1 \in 1..Len(r) /\ i = (i - 1) + 1)
    BY <1>1
<1>4. 1 \in 1..Len(q)
    BY <1>1
<1>5. Holds(r, s, kinds) => Holds(q, s, kinds)
    BY <1>1, <1>2 DEF Holds
<1>6. ASSUME Holds(q, s, kinds) PROVE Holds(r, s, kinds) \/ (Head(q).from = s /\ Head(q).kind \in kinds)
    <2>1. PICK i \in 1..Len(q) : q[i].from = s /\ q[i].kind \in kinds
        BY <1>6 DEF Holds
    <2>2. CASE i = 1
        BY <1>1, <2>1, <2>2
    <2>3. CASE i - 1 \in 1..Len(r) /\ i = (i - 1) + 1
        <3>1. r[i - 1] = q[i]
            BY <1>1, <2>3
        <3> QED
            BY <2>1, <2>3, <3>1 DEF Holds
    <2> QED
        BY <1>3, <2>2, <2>3
<1>7. Head(q).from = s /\ Head(q).kind \in kinds => Holds(q, s, kinds)
    BY <1>1, <1>4 DEF Holds
<1>8. ASSUME Single(q, s, kinds) PROVE Single(r, s, kinds)
    <2> SUFFICES ASSUME NEW i \in 1..Len(r), NEW j \in 1..Len(r), r[i].from = s, r[i].kind \in kinds,
                        r[j].from = s, r[j].kind \in kinds
                 PROVE  i = j
        BY DEF Single
    <2>1. i + 1 = j + 1
        BY <1>1, <1>2, <1>8 DEF Single
    <2> QED
        BY <2>1, <1>2
<1>9. ASSUME Single(q, s, kinds), Head(q).from = s, Head(q).kind \in kinds, Holds(r, s, kinds) PROVE FALSE
    <2>1. PICK i \in 1..Len(r) : r[i].from = s /\ r[i].kind \in kinds
        BY <1>9 DEF Holds
    <2>2. i + 1 = 1
        BY <1>1, <1>2, <1>4, <1>9, <2>1 DEF Single
    <2> QED
        BY <1>2, <2>2
<1> QED
    BY <1>5, <1>6, <1>7, <1>8, <1>9 DEF r

LEMMA HoldsNothing == \A s, kinds : ~Holds(<<>>, s, kinds) /\ Single(<<>>, s, kinds)
BY DEF Holds, Single

\* An invite behind the first signal would not be foremost.
LEMMA ForemostTail ==
    ASSUME NEW q \in Seq(Signal), q # <<>>, Foremost(q)
    PROVE  Foremost(Tail(q)) /\ \A s : ~Holds(Tail(q), s, {"invite"})
<1> DEFINE r == Tail(q)
<1>1. /\ Len(q) \in Nat \ {0} /\ Len(r) = Len(q) - 1
      /\ \A i \in 1..Len(r) : r[i] = q[i + 1]
    BY HeadTailProperties, LenProperties, EmptySeq
<1> HIDE DEF r
<1>2. \A i \in 1..Len(r) : i + 1 \in 1..Len(q) /\ i + 1 # 1
    BY <1>1
<1>3. \A i \in 1..Len(r) : r[i].kind # "invite"
    BY <1>1, <1>2 DEF Foremost
<1> QED
    BY <1>3 DEF Foremost, Holds, r

LEMMA ForemostAppended ==
    ASSUME NEW q \in Seq(Signal), NEW m \in Signal, Foremost(q), m.kind # "invite" \/ q = <<>>
    PROVE  Foremost(Append(q, m))
<1> DEFINE r == Append(q, m)
<1>1. /\ Len(q) \in Nat /\ Len(r) = Len(q) + 1
      /\ \A i \in 1..Len(q) : r[i] = q[i]
      /\ r[Len(q) + 1] = m
      /\ q = <<>> => Len(q) = 0
    BY AppendProperties, LenProperties, EmptySeq
<1> HIDE DEF r
<1>2. \A i \in 1..Len(r) : i \in 1..Len(q) \/ i = Len(q) + 1
    BY <1>1
<1> QED
    BY <1>1, <1>2 DEF Foremost, r

LEMMA WordsAreSignals ==
    ASSUME NEW c, NEW P, SignalsGood(c, P)
    PROVE  /\ \A s, d \in Device : /\ wire[s][d] \in Seq(Signal)
                                   /\ \A i \in 1..Len(wire[s][d]) : wire[s][d][i] \in Said(c, P, s, d)
           /\ \A d \in Device : /\ heard[d] \in Seq(Signal)
                                /\ \A i \in 1..Len(heard[d]) : heard[d][i] \in Word(c, P, d)
<1>1. \A s, d \in Device : wire[s][d] \in Seq(Signal) /\ heard[d] \in Seq(Signal)
    BY DEF SignalsGood
<1>2. ASSUME NEW s \in Device, NEW d \in Device, NEW i \in 1..Len(wire[s][d])
      PROVE  wire[s][d][i] \in Said(c, P, s, d)
    <2>1. wire[s][d] \in Seq(Said(c, P, s, d))
        BY DEF SignalsGood
    <2> QED
        BY <2>1, ElementOfSeq
<1>3. ASSUME NEW d \in Device, NEW i \in 1..Len(heard[d]) PROVE heard[d][i] \in Word(c, P, d)
    <2>1. heard[d] \in Seq(Word(c, P, d))
        BY DEF SignalsGood
    <2> QED
        BY <2>1, ElementOfSeq
<1> QED
    BY <1>1, <1>2, <1>3

\* Nobody signals itself, and nobody outside the call signals or is signalled.
LEMMA AmongP ==
    ASSUME NEW c, NEW P, SignalsGood(c, P)
    PROVE  /\ \A s, d \in Device : \A kinds : Due(s, d, kinds) => s \in P /\ d \in P /\ s # d
           /\ \A s, d \in Device : s \notin P \/ d \notin P \/ s = d => wire[s][d] = <<>>
           /\ \A d \in Device \ P : heard[d] = <<>>
           /\ \A s, d \in Device : Due(s, d, {"invite"}) => s = c
<1>0. /\ \A s, d \in Device : \A i \in 1..Len(wire[s][d]) : wire[s][d][i] \in Said(c, P, s, d)
      /\ \A d \in Device : \A i \in 1..Len(heard[d]) : heard[d][i] \in Word(c, P, d)
      /\ \A s, d, m : m \in Said(c, P, s, d) => m \in Word(c, P, d)
      /\ \A d, m : m \in Word(c, P, d) => d \in P /\ m.from \in P /\ m.from # d
    BY WordsAreSignals DEF Said, Word
<1>1. \A s, d \in Device : \A kinds : Due(s, d, kinds) => s \in P /\ d \in P /\ s # d
    BY <1>0 DEF Due, OnWire, InEar, Holds
<1>2. ASSUME NEW s \in Device, NEW d \in Device, s \notin P \/ d \notin P \/ s = d PROVE wire[s][d] = <<>>
    <2>1. Said(c, P, s, d) = {}
        BY <1>2 DEF Said, Word
    <2>2. wire[s][d] \in Seq({})
        BY <2>1 DEF SignalsGood
    <2>3. \A i \in 1..Len(wire[s][d]) : FALSE
        BY <2>1, WordsAreSignals
    <2> QED
        BY <2>2, <2>3, EmptySeq, LenProperties
<1>3. ASSUME NEW d \in Device \ P PROVE heard[d] = <<>>
    <2>1. Word(c, P, d) = {}
        BY DEF Word
    <2>2. heard[d] \in Seq({})
        BY <2>1 DEF SignalsGood
    <2>3. \A i \in 1..Len(heard[d]) : FALSE
        BY <2>1, WordsAreSignals
    <2> QED
        BY <2>2, <2>3, EmptySeq, LenProperties
<1>4. \A s, d \in Device : Due(s, d, {"invite"}) => s = c
    BY WordsAreSignals DEF Due, OnWire, InEar, Holds, Said, Word
<1> QED
    BY <1>1, <1>2, <1>3, <1>4

\* d publishes m to these.
Publishes(d, m, targets) ==
  wire' = [wire EXCEPT ![d] = [to \in Device |->
             IF to \in targets THEN Append(@[to], m) ELSE @[to]]]

\* d polls one signal.
Taken(d) == heard[d] # <<>> /\ heard' = [heard EXCEPT ![d] = Tail(@)]

\* d hears its host leave, is the lowest of those left, and tells y.
Claiming(d, y) ==
  LET gone == Dispatched(d).from
      left == dash[d].group \ {gone}
  IN  /\ heard[d] # <<>> /\ Dispatched(d).kind \in Leaving /\ InACall(d)
      /\ gone \in dash[d].group /\ dash[d].host = gone
      /\ y \in left /\ Lowest(left \cup {d}) = d

\* d polls, publishes, or does both.
Acts(c, P, d, m, targets) ==
  /\ m \in Signal /\ m.from = d /\ m.kind # "invite"
  /\ m.kind = "host" => m.host = d /\ \A y \in targets : Claiming(d, y)
  /\ targets \in SUBSET (P \ {d})
  /\ Inviting(c) => targets \subseteq {c} /\ m.kind # "host"
  /\ UNCHANGED wire \/ Publishes(d, m, targets)
  /\ UNCHANGED heard \/ Taken(d)

\* What that does to the signals.
LEMMA Traffic ==
    ASSUME NEW c \in Device, NEW P \in SUBSET Device, SignalsGood(c, P), InvitesFirst(c),
           NEW d \in P, NEW m, NEW targets, Acts(c, P, d, m, targets)
    PROVE  /\ SignalsGood(c, P)' /\ InvitesFirst(c)'
           /\ Inviting(c)' => Inviting(c)
           /\ \A x, y \in Device : \A kinds :
                /\ OnWire(x, y, kinds)' =>
                     OnWire(x, y, kinds) \/ (Publishes(d, m, targets) /\ x = d /\ y \in targets /\ m.kind \in kinds)
                /\ OnWire(x, y, kinds) => OnWire(x, y, kinds)'
                /\ Publishes(d, m, targets) /\ x = d /\ y \in targets /\ m.kind \in kinds => OnWire(x, y, kinds)'
                /\ InEar(x, y, kinds)' => InEar(x, y, kinds)
                /\ InEar(x, y, kinds) /\ ~InEar(x, y, kinds)' =>
                     Taken(d) /\ y = d /\ Head(heard[d]).from = x /\ Head(heard[d]).kind \in kinds
                /\ Single(wire[x][y], x, kinds)
                   /\ ~(Publishes(d, m, targets) /\ x = d /\ y \in targets /\ m.kind \in kinds /\ OnWire(x, y, kinds))
                   => Single(wire[x][y], x, kinds)'
                /\ Single(heard[y], x, kinds) => Single(heard[y], x, kinds)'
                /\ Single(heard[y], x, kinds) /\ Taken(d) /\ y = d
                   /\ Head(heard[d]).from = x /\ Head(heard[d]).kind \in kinds => ~InEar(x, y, kinds)'
           /\ Taken(d) => \A x \in Device : ~InEar(x, d, {"invite"})'
<1>0. /\ m \in Signal /\ m.from = d /\ m.kind # "invite" /\ targets \in SUBSET (P \ {d})
      /\ m.kind = "host" => m.host = m.from
      /\ Inviting(c) => targets \subseteq {c}
      /\ UNCHANGED wire \/ Publishes(d, m, targets)
      /\ UNCHANGED heard \/ Taken(d)
    BY DEF Acts
<1>1. /\ wire \in [Device -> [Device -> Seq(Signal)]] /\ heard \in [Device -> Seq(Signal)]
      /\ \A x, y \in Device : wire[x][y] \in Seq(Signal) /\ heard[y] \in Seq(Signal)
    BY DEF SignalsGood
<1> USE <1>0
<1>3. \A y \in targets : m \in Said(c, P, d, y)
    BY DEF Said, Word
<1>4. wire' \in [Device -> [Device -> Seq(Signal)]]
    <2>1. \A y \in Device : Append(wire[d][y], m) \in Seq(Signal)
        BY <1>1, AppendProperties
    <2>2. UNCHANGED wire => wire' \in [Device -> [Device -> Seq(Signal)]]
        BY <1>1
    <2>3. ASSUME Publishes(d, m, targets) PROVE wire' \in [Device -> [Device -> Seq(Signal)]]
        <3> DEFINE row == [to \in Device |-> IF to \in targets THEN Append(wire[d][to], m) ELSE wire[d][to]]
        <3>1. row \in [Device -> Seq(Signal)]
            BY <1>1, <2>1
        <3>2. wire' = [wire EXCEPT ![d] = row]
            BY <2>3 DEF Publishes
        <3> HIDE DEF row
        <3> QED
            BY <1>1, <3>1, <3>2
    <2> QED
        BY <2>2, <2>3
<1>5. \A x, y \in Device : wire'[x][y] = wire[x][y]
                           \/ (Publishes(d, m, targets) /\ x = d /\ y \in targets /\ wire'[x][y] = Append(wire[x][y], m))
    <2>1. CASE UNCHANGED wire
        BY <2>1
    <2>2. CASE Publishes(d, m, targets)
        BY <1>1, <2>2 DEF Publishes
    <2> QED
        BY <2>1, <2>2
<1>6. \A y \in Device : Publishes(d, m, targets) /\ y \in targets => wire'[d][y] = Append(wire[d][y], m)
    BY <1>1 DEF Publishes
<1>7. \A y \in Device : heard'[y] = heard[y] \/ (Taken(d) /\ y = d /\ heard[d] # <<>> /\ heard'[y] = Tail(heard[y]))
    BY <1>1 DEF Taken
<1>8. Taken(d) => heard[d] # <<>> /\ heard'[d] = Tail(heard[d])
    BY <1>1 DEF Taken
<1>9. heard' \in [Device -> Seq(Signal)]
    <2>1. heard[d] # <<>> => Tail(heard[d]) \in Seq(Signal)
        BY <1>1, HeadTailProperties
    <2> QED
        BY <1>1, <2>1 DEF Taken
<1>10. ASSUME NEW x \in Device, NEW y \in Device, NEW kinds
       PROVE  /\ OnWire(x, y, kinds)' =>
                   OnWire(x, y, kinds) \/ (Publishes(d, m, targets) /\ x = d /\ y \in targets /\ m.kind \in kinds)
              /\ OnWire(x, y, kinds) => OnWire(x, y, kinds)'
              /\ Publishes(d, m, targets) /\ x = d /\ y \in targets /\ m.kind \in kinds => OnWire(x, y, kinds)'
              /\ Single(wire[x][y], x, kinds)
                 /\ ~(Publishes(d, m, targets) /\ x = d /\ y \in targets /\ m.kind \in kinds /\ OnWire(x, y, kinds))
                 => Single(wire[x][y], x, kinds)'
    <2>1. wire[x][y] \in Seq(Signal)
        BY <1>1
    <2>2. /\ Holds(Append(wire[x][y], m), x, kinds) <=> Holds(wire[x][y], x, kinds) \/ (m.from = x /\ m.kind \in kinds)
          /\ Single(wire[x][y], x, kinds) /\ ~(Holds(wire[x][y], x, kinds) /\ m.from = x /\ m.kind \in kinds)
             => Single(Append(wire[x][y], m), x, kinds)
        BY <2>1, HoldsAppended
    <2>3. OnWire(x, y, kinds)' <=> Holds(wire'[x][y], x, kinds)
        BY DEF OnWire, Holds
    <2>4. Single(wire[x][y], x, kinds)' <=> Single(wire'[x][y], x, kinds)
        BY DEF Single
    <2>5. OnWire(x, y, kinds) <=> Holds(wire[x][y], x, kinds)
        BY DEF OnWire
    <2>6. CASE Publishes(d, m, targets) /\ x = d /\ y \in targets
        <3>1. wire'[x][y] = Append(wire[x][y], m) /\ m.from = x
            BY <1>6, <2>6
        <3>2. Holds(wire'[x][y], x, kinds) <=> Holds(wire[x][y], x, kinds) \/ m.kind \in kinds
            BY <2>2, <3>1
        <3>3. Single(wire[x][y], x, kinds) /\ ~(Holds(wire[x][y], x, kinds) /\ m.kind \in kinds)
              => Single(wire'[x][y], x, kinds)
            BY <2>2, <3>1
        <3> QED
            BY <2>3, <2>4, <2>5, <2>6, <3>2, <3>3
    <2>7. CASE ~(Publishes(d, m, targets) /\ x = d /\ y \in targets)
        <3>1. wire'[x][y] = wire[x][y]
            BY <1>5, <2>7
        <3> QED
            BY <2>3, <2>4, <2>5, <2>7, <3>1
    <2> QED
        BY <2>6, <2>7
<1>11. ASSUME NEW x \in Device, NEW y \in Device, NEW kinds
       PROVE  /\ InEar(x, y, kinds)' => InEar(x, y, kinds)
              /\ InEar(x, y, kinds) /\ ~InEar(x, y, kinds)' =>
                   Taken(d) /\ y = d /\ Head(heard[d]).from = x /\ Head(heard[d]).kind \in kinds
              /\ Single(heard[y], x, kinds) => Single(heard[y], x, kinds)'
              /\ Single(heard[y], x, kinds) /\ Taken(d) /\ y = d
                 /\ Head(heard[d]).from = x /\ Head(heard[d]).kind \in kinds => ~InEar(x, y, kinds)'
    <2>1. heard[y] \in Seq(Signal)
        BY <1>1
    <2>2. InEar(x, y, kinds)' <=> Holds(heard'[y], x, kinds)
        BY DEF InEar, Holds
    <2>3. Single(heard[y], x, kinds)' <=> Single(heard'[y], x, kinds)
        BY DEF Single
    <2>4. InEar(x, y, kinds) <=> Holds(heard[y], x, kinds)
        BY DEF InEar
    <2>5. CASE heard[y] # <<>>
        <3>1. LET q == heard[y] IN
              /\ Holds(Tail(q), x, kinds) => Holds(q, x, kinds)
              /\ Holds(q, x, kinds) => Holds(Tail(q), x, kinds) \/ (Head(q).from = x /\ Head(q).kind \in kinds)
              /\ Single(q, x, kinds) => Single(Tail(q), x, kinds)
              /\ Single(q, x, kinds) /\ Head(q).from = x /\ Head(q).kind \in kinds => ~Holds(Tail(q), x, kinds)
            BY <2>1, <2>5, HoldsTail
        <3> QED
            BY <1>7, <1>8, <2>2, <2>3, <2>4, <3>1
    <2>6. CASE heard[y] = <<>>
        BY <1>7, <1>8, <2>2, <2>3, <2>4, <2>6
    <2> QED
        BY <2>5, <2>6
<1>12. Inviting(c)' => Inviting(c)
    <2> SUFFICES ASSUME NEW y \in Device, OnWire(c, y, {"invite"})' PROVE OnWire(c, y, {"invite"})
        BY DEF Inviting
    <2> QED
        BY <1>10
<1>13. SignalsGood(c, P)'
    <2>1. ASSUME NEW x \in Device, NEW y \in Device PROVE wire'[x][y] \in Seq(Said(c, P, x, y))
        <3>1. wire[x][y] \in Seq(Said(c, P, x, y))
            BY DEF SignalsGood
        <3>2. CASE wire'[x][y] = wire[x][y]
            BY <3>1, <3>2
        <3>3. CASE x = d /\ y \in targets /\ wire'[x][y] = Append(wire[x][y], m)
            BY <1>3, <3>1, <3>3, AppendProperties
        <3> QED
            BY <1>5, <3>2, <3>3
    <2>2. ASSUME NEW y \in Device PROVE heard'[y] \in Seq(Word(c, P, y))
        <3>1. heard[y] \in Seq(Word(c, P, y))
            BY DEF SignalsGood
        <3>2. heard[y] # <<>> => Tail(heard[y]) \in Seq(Word(c, P, y))
            BY <3>1, HeadTailProperties
        <3> QED
            BY <1>7, <3>1, <3>2
    <2>3. \A x, y \in Device : Said(c, P, x, y)' = Said(c, P, x, y) /\ Word(c, P, y)' = Word(c, P, y)
        BY DEF Said, Word
    <2> QED
        BY <1>4, <1>9, <2>1, <2>2, <2>3 DEF SignalsGood
<1>14. InvitesFirst(c)'
    <2> SUFFICES ASSUME NEW y \in Device
                 PROVE  /\ Foremost(heard'[y])
                        /\ OnWire(c, y, {"invite"})' =>
                             /\ Len(wire'[c][y]) = 1
                             /\ heard'[y] = <<>>
                             /\ \A s \in Device \ {c} : wire'[s][y] = <<>>
        BY DEF InvitesFirst, Foremost
    <2>1. Foremost(heard'[y])
        <3>1. Foremost(heard[y]) /\ heard[y] \in Seq(Signal)
            BY <1>1 DEF InvitesFirst
        <3> QED
            BY <1>7, <3>1, ForemostTail
    <2>2. ASSUME OnWire(c, y, {"invite"})'
          PROVE  /\ Len(wire'[c][y]) = 1
                 /\ heard'[y] = <<>>
                 /\ \A s \in Device \ {c} : wire'[s][y] = <<>>
        <3>1. OnWire(c, y, {"invite"})
            BY <1>10, <2>2
        <3>2. y \in P /\ y # c
            <4>1. Due(c, y, {"invite"})
                BY <3>1 DEF Due
            <4> QED
                BY <4>1, AmongP
        <3>3. y \notin targets
            BY <3>1, <3>2 DEF Inviting
        <3>4. \A s \in Device : wire'[s][y] = wire[s][y]
            BY <1>5, <3>3
        <3>5. heard[y] = <<>> /\ heard'[y] = heard[y]
            BY <1>7, <3>1 DEF InvitesFirst
        <3> QED
            BY <3>1, <3>4, <3>5 DEF InvitesFirst
    <2> QED
        BY <2>1, <2>2
<1>15. ASSUME Taken(d), NEW x \in Device PROVE ~InEar(x, d, {"invite"})'
    <2>1. heard[d] \in Seq(Signal) /\ Foremost(heard[d])
        BY <1>1 DEF InvitesFirst
    <2>2. heard[d] # <<>> /\ heard'[d] = Tail(heard[d])
        BY <1>8, <1>15
    <2>3. ~Holds(Tail(heard[d]), x, {"invite"})
        BY <2>1, <2>2, ForemostTail
    <2> QED
        BY <2>2, <2>3 DEF InEar, Holds
<1> QED
    BY <1>10, <1>11, <1>12, <1>13, <1>14, <1>15

\* No two of s's signals of these kinds on their way to d.
Once(s, d, kinds) ==
  /\ Single(wire[s][d], s, kinds)
  /\ Single(heard[d], s, kinds)
  /\ ~(OnWire(s, d, kinds) /\ InEar(s, d, kinds))

\* A delivery moves a signal and loses none.
Delivered(s, d) ==
  /\ wire[s][d] # <<>>
  /\ heard' = [heard EXCEPT ![d] = Append(@, Head(wire[s][d]))]
  /\ wire' = [wire EXCEPT ![s][d] = Tail(@)]

LEMMA Delivery ==
    ASSUME NEW c \in Device, NEW P \in SUBSET Device, SignalsGood(c, P), InvitesFirst(c),
           NEW s \in Device, NEW d \in Device, Delivered(s, d)
    PROVE  /\ SignalsGood(c, P)' /\ InvitesFirst(c)'
           /\ Inviting(c)' => Inviting(c)
           /\ s \in P /\ d \in P /\ s # d /\ Head(wire[s][d]) \in Said(c, P, s, d)
           /\ OnWire(s, d, {Head(wire[s][d]).kind})
           /\ \A x, y \in Device : \A kinds :
                /\ Due(x, y, kinds)' <=> Due(x, y, kinds)
                /\ Once(x, y, kinds) => Once(x, y, kinds)'
<1> DEFINE m == Head(wire[s][d])
<1>1. /\ wire \in [Device -> [Device -> Seq(Signal)]] /\ heard \in [Device -> Seq(Signal)]
      /\ \A x, y \in Device : wire[x][y] \in Seq(Signal) /\ heard[y] \in Seq(Signal)
    BY DEF SignalsGood
<1>2. wire[s][d] # <<>> /\ wire[s][d] \in Seq(Signal) /\ heard[d] \in Seq(Signal)
    BY <1>1 DEF Delivered
<1>3. s \in P /\ d \in P /\ s # d
    BY <1>2, AmongP
<1>4. m \in Said(c, P, s, d) /\ Tail(wire[s][d]) \in Seq(Said(c, P, s, d))
    BY <1>2, HeadTailProperties DEF SignalsGood
<1>5. m \in Word(c, P, d) /\ m \in Signal /\ m.from = s
    BY <1>4 DEF Said, Word
<1>6. wire'[s][d] = Tail(wire[s][d]) /\ \A x, y \in Device : x # s \/ y # d => wire'[x][y] = wire[x][y]
    BY <1>1 DEF Delivered
<1>7. heard'[d] = Append(heard[d], m) /\ \A y \in Device : y # d => heard'[y] = heard[y]
    BY <1>1 DEF Delivered
<1>8. wire' \in [Device -> [Device -> Seq(Signal)]]
    <2> DEFINE row == [wire[s] EXCEPT ![d] = Tail(@)]
    <2>1. Tail(wire[s][d]) \in Seq(Signal)
        BY <1>2, HeadTailProperties
    <2>2. row \in [Device -> Seq(Signal)]
        BY <1>1, <2>1
    <2>3. wire' = [wire EXCEPT ![s] = row]
        BY DEF Delivered
    <2> HIDE DEF row
    <2> QED
        BY <1>1, <2>2, <2>3
<1>9. heard' \in [Device -> Seq(Signal)]
    <2>1. Append(heard[d], m) \in Seq(Signal)
        BY <1>2, <1>5, AppendProperties
    <2> QED
        BY <1>1, <2>1 DEF Delivered
<1> HIDE DEF m
<1>10. ASSUME NEW kinds
       PROVE  /\ Holds(Tail(wire[s][d]), s, kinds) => Holds(wire[s][d], s, kinds)
              /\ Holds(wire[s][d], s, kinds) => Holds(Tail(wire[s][d]), s, kinds) \/ m.kind \in kinds
              /\ m.kind \in kinds => Holds(wire[s][d], s, kinds)
              /\ Single(wire[s][d], s, kinds) => Single(Tail(wire[s][d]), s, kinds)
              /\ Single(wire[s][d], s, kinds) /\ m.kind \in kinds => ~Holds(Tail(wire[s][d]), s, kinds)
    BY <1>2, <1>5, HoldsTail DEF m
<1>11. ASSUME NEW x \in Device, NEW kinds
       PROVE  /\ Holds(heard'[d], x, kinds) <=> Holds(heard[d], x, kinds) \/ (x = s /\ m.kind \in kinds)
              /\ Single(heard[d], x, kinds) /\ ~(Holds(heard[d], x, kinds) /\ x = s /\ m.kind \in kinds)
                 => Single(heard'[d], x, kinds)
    <2>1. /\ Holds(Append(heard[d], m), x, kinds) <=> Holds(heard[d], x, kinds) \/ (m.from = x /\ m.kind \in kinds)
          /\ Single(heard[d], x, kinds) /\ ~(Holds(heard[d], x, kinds) /\ m.from = x /\ m.kind \in kinds)
             => Single(Append(heard[d], m), x, kinds)
        BY <1>2, <1>5, HoldsAppended
    <2>2. heard'[d] = Append(heard[d], m) /\ m.from = s
        BY <1>5, <1>7
    <2> QED
        BY <2>1, <2>2
<1>12. ASSUME NEW x \in Device, NEW y \in Device, NEW kinds
       PROVE  /\ Due(x, y, kinds)' <=> Due(x, y, kinds)
              /\ Once(x, y, kinds) => Once(x, y, kinds)'
              /\ OnWire(x, y, kinds)' => OnWire(x, y, kinds)
    <2>1. /\ Due(x, y, kinds) <=> Holds(wire[x][y], x, kinds) \/ Holds(heard[y], x, kinds)
          /\ Due(x, y, kinds)' <=> Holds(wire'[x][y], x, kinds) \/ Holds(heard'[y], x, kinds)
          /\ OnWire(x, y, kinds) <=> Holds(wire[x][y], x, kinds)
          /\ OnWire(x, y, kinds)' <=> Holds(wire'[x][y], x, kinds)
        BY DEF Due, OnWire, InEar, Holds
    <2>2. /\ Once(x, y, kinds) <=> /\ Single(wire[x][y], x, kinds) /\ Single(heard[y], x, kinds)
                                   /\ ~(Holds(wire[x][y], x, kinds) /\ Holds(heard[y], x, kinds))
          /\ Once(x, y, kinds)' <=> /\ Single(wire'[x][y], x, kinds) /\ Single(heard'[y], x, kinds)
                                    /\ ~(Holds(wire'[x][y], x, kinds) /\ Holds(heard'[y], x, kinds))
        BY DEF Once, OnWire, InEar, Holds, Single
    <2>3. CASE x = s /\ y = d
        BY <1>6, <1>10, <1>11, <2>1, <2>2, <2>3
    <2>4. CASE x # s /\ y = d
        BY <1>6, <1>11, <2>1, <2>2, <2>4
    <2>5. CASE y # d
        BY <1>6, <1>7, <2>1, <2>2, <2>5
    <2> QED
        BY <2>3, <2>4, <2>5
<1>13. Inviting(c)' => Inviting(c)
    <2> SUFFICES ASSUME NEW y \in Device, OnWire(c, y, {"invite"})' PROVE OnWire(c, y, {"invite"})
        BY DEF Inviting
    <2> QED
        BY <1>12
<1>14. OnWire(s, d, {m.kind})
    BY <1>10 DEF OnWire
<1>15. SignalsGood(c, P)'
    <2>1. ASSUME NEW x \in Device, NEW y \in Device PROVE wire'[x][y] \in Seq(Said(c, P, x, y))
        BY <1>4, <1>6 DEF SignalsGood
    <2>2. ASSUME NEW y \in Device PROVE heard'[y] \in Seq(Word(c, P, y))
        <3>1. heard[y] \in Seq(Word(c, P, y))
            BY DEF SignalsGood
        <3>2. CASE y = d
            <4>1. Append(heard[d], m) \in Seq(Word(c, P, d))
                BY <1>5, <3>1, <3>2, AppendProperties
            <4> QED
                BY <1>7, <3>2, <4>1
        <3>3. CASE y # d
            BY <1>7, <3>1, <3>3
        <3> QED
            BY <3>2, <3>3
    <2>3. \A x, y \in Device : Said(c, P, x, y)' = Said(c, P, x, y) /\ Word(c, P, y)' = Word(c, P, y)
        BY DEF Said, Word
    <2> QED
        BY <1>8, <1>9, <2>1, <2>2, <2>3 DEF SignalsGood
<1>16. InvitesFirst(c)'
    <2> SUFFICES ASSUME NEW y \in Device
                 PROVE  /\ Foremost(heard'[y])
                        /\ OnWire(c, y, {"invite"})' =>
                             /\ Len(wire'[c][y]) = 1
                             /\ heard'[y] = <<>>
                             /\ \A x \in Device \ {c} : wire'[x][y] = <<>>
        BY DEF InvitesFirst, Foremost
    <2>1. OnWire(c, y, {"invite"})' => OnWire(c, y, {"invite"})
        BY <1>12
    <2>2. CASE y = d
        <3>1. m.kind # "invite" \/ heard[d] = <<>>
            <4> SUFFICES ASSUME m.kind = "invite" PROVE heard[d] = <<>>
                OBVIOUS
            <4>1. s = c /\ OnWire(c, d, {"invite"})
                BY <1>5, <1>14 DEF Word
            <4> QED
                BY <4>1 DEF InvitesFirst
        <3>2. Foremost(heard'[d])
            <4>1. Foremost(heard[d])
                BY DEF InvitesFirst
            <4>2. Foremost(Append(heard[d], m))
                BY <1>2, <1>5, <3>1, <4>1, ForemostAppended
            <4> QED
                BY <1>7, <4>2
        <3>3. ASSUME OnWire(c, d, {"invite"})' PROVE FALSE
            <4>1. Len(wire[c][d]) = 1 /\ \A x \in Device \ {c} : wire[x][d] = <<>>
                BY <2>1, <2>2, <3>3 DEF InvitesFirst
            <4>2. s = c
                BY <1>2, <4>1
            <4>3. Len(wire'[c][d]) = 0
                <5>1. Len(Tail(wire[s][d])) = Len(wire[s][d]) - 1
                    BY <1>2, HeadTailProperties
                <5>2. Len(wire[s][d]) = 1 /\ wire'[c][d] = Tail(wire[s][d])
                    BY <1>6, <4>1, <4>2
                <5>3. Len(Tail(wire[s][d])) = 0
                    BY <5>1, <5>2
                <5> QED
                    BY <5>2, <5>3
            <4> QED
                BY <3>3, <4>3 DEF OnWire, Holds
        <3> QED
            BY <2>2, <3>2, <3>3
    <2>3. CASE y # d
        <3>1. heard'[y] = heard[y] /\ \A x \in Device : wire'[x][y] = wire[x][y]
            BY <1>6, <1>7, <2>3
        <3> QED
            BY <2>1, <3>1 DEF InvitesFirst
    <2> QED
        BY <2>2, <2>3
<1> QED
    BY <1>3, <1>4, <1>12, <1>13, <1>14, <1>15, <1>16 DEF m

-----------------------------------------------------------------------------
(* The Core's session.                                                      *)

Rings(d) == sess[d].state = "ringing" /\ sess[d].inbound

LEMMA LowestOne ==
    ASSUME NEW ids \in SUBSET Device, ids # {} PROVE Lowest(ids) \in ids
<1>1. ids \in SUBSET Nat
    BY DeviceAssumption
<1>2. IsWellFoundedOn(OpToRel(<, Nat), Nat)
    BY NatLessThanWellFounded
<1>3. PICK d \in ids : \A e \in ids : ~(<<e, d>> \in OpToRel(<, Nat))
    BY <1>1, <1>2, WFMin
<1>4. \A e \in ids : ~(e < d)
    BY <1>1, <1>3 DEF OpToRel
<1>5. \A e \in ids : d <= e
    BY <1>1, <1>4
<1> QED
    BY <1>5 DEF Lowest

LEMMA SessionAfterSending ==
    ASSUME NEW s \in Session, NEW m \in Signal, m.kind # "invite", NEW to \in Device
    PROVE  SentTo(s, m, to) \in Session /\ SentTo(s, m, to).state \in {"active", "ended"}
<1>1. CASE m.kind = "accept"
    BY <1>1 DEF SentTo, Session, Leaving
<1>2. CASE m.kind = "host"
    <2>1. m.host \in Device \cup {NoOne}
        BY DEF Signal
    <2> QED
        BY <1>2, <2>1 DEF SentTo, Session, Leaving
<1>3. CASE m.kind \in Leaving
    BY <1>3 DEF SentTo, Session, Leaving
<1>4. m.kind \in Kind
    BY DEF Signal
<1> QED
    BY <1>1, <1>2, <1>3, <1>4 DEF Kind, Leaving

LEMMA SessionAfterHearing ==
    ASSUME NEW s \in Session, NEW m \in Signal
    PROVE  /\ Received(s, m) \in Session
           /\ Received(s, m).state = "none" => s.state = "none"
           /\ m.kind = "invite" => Received(s, m).peer = m.from
           /\ m.kind # "invite" /\ Received(s, m).state = "ringing" /\ Received(s, m).inbound
              => s.state = "ringing" /\ s.inbound /\ Received(s, m).peer = s.peer
<1>0. m.kind \in Kind /\ m.from \in Device /\ m.host \in Device \cup {NoOne} /\ m.people \in SUBSET Device
    BY DEF Signal
<1>1. CASE m.kind = "invite"
    BY <1>0, <1>1 DEF Received, Session, Leaving
<1>2. CASE m.kind = "accept"
    BY <1>0, <1>2 DEF Received, Session, Leaving
<1>3. CASE m.kind = "host"
    BY <1>0, <1>3 DEF Received, Session, Leaving
<1>4. CASE m.kind \in Leaving
    <2> DEFINE left == s.people \ {m.from}
    <2>1. left \in SUBSET Device
        BY DEF Session
    <2>2. left # {} => Lowest(left) \in Device
        BY <2>1, LowestOne
    <2>3. Received(s, m) = [s EXCEPT !.people = left,
                              !.host = IF @ = m.from /\ left # {} THEN Lowest(left) ELSE @,
                              !.state = IF Cardinality(left) <= 1 THEN "ended" ELSE @]
        BY <1>4 DEF Received, WithoutLeaver, Leaving
    <2> HIDE DEF left
    <2> QED
        BY <1>4, <2>1, <2>2, <2>3 DEF Session, Leaving
<1> QED
    BY <1>0, <1>1, <1>2, <1>3, <1>4 DEF Kind, Leaving

\* What publishing does: nothing without a target.
LEMMA Posting ==
    ASSUME sess \in [Device -> Session], NEW d \in Device, NEW kind \in Kind \ {"invite"},
           NEW targets \in SUBSET Device, NEW h \in Device \cup {NoOne}, Post(d, kind, targets, h, {})
    PROVE  /\ sess' \in [Device -> Session]
           /\ \A e \in Device \ {d} : sess'[e] = sess[e]
           /\ Rings(d)' => targets = {} /\ Rings(d) /\ sess'[d].peer = sess[d].peer
           /\ sess'[d].state = "none" => sess[d].state = "none"
           /\ \E m \in Signal : m.from = d /\ m.kind = kind /\ m.host = h /\ Publishes(d, m, targets)
<1> DEFINE m == [kind |-> kind, from |-> d, host |-> h, people |-> {}]
<1>1. m \in Signal /\ m.from = d /\ m.kind = kind /\ m.host = h
    BY DEF Signal
<1>2. sess' = [sess EXCEPT ![d] = IF targets = {} THEN @ ELSE SentTo(@, m, Lowest(targets))]
    BY DEF Post
<1>3. Publishes(d, m, targets)
    BY DEF Post, Publishes
<1> HIDE DEF m
<1>4. CASE targets = {}
    BY <1>1, <1>2, <1>3, <1>4 DEF Rings
<1>5. CASE targets # {}
    <2>1. SentTo(sess[d], m, Lowest(targets)) \in Session
          /\ SentTo(sess[d], m, Lowest(targets)).state \in {"active", "ended"}
        BY <1>1, <1>5, LowestOne, SessionAfterSending
    <2> QED
        BY <1>1, <1>2, <1>3, <1>5, <2>1 DEF Rings
<1> QED
    BY <1>4, <1>5

-----------------------------------------------------------------------------
(* Who is in the call, and who left it.                                     *)

Invited(c, d) == Due(c, d, {"invite"})
LeaveDue(s, d) == Due(s, d, Leaving)

Live(d) == InIt(d) /\ d \notin quiet /\ dash[d].group # {}

\* Out of it for good: nothing that is still to come brings d back.
Left(c, d) ==
  /\ ~Invited(c, d)
  /\ \/ dash[d].role = "elsewhere"
     \/ /\ ~Rings(d)
        /\ dash[d].doing = "leaving" \/ (dash[d].role = "idle" /\ dash[d].doing = "nothing")

DashGood(c, P, d) ==
  /\ dash[d].group \subseteq P \ {d}
  /\ dash[d].peer \in (P \ {d}) \cup {NoOne}
  /\ dash[d].role = "ringing-in" => dash[d].peer # NoOne
  /\ dash[d].role = "ringing-out" => d = c
  /\ dash[d].group # {} =>
       InACall(d) /\ (dash[d].call \/ (dash[d].role = "ringing-out" /\ dash[d].doing = "nothing"))
  /\ dash[d].role = "elsewhere" => dash[d].doing = "nothing"
  /\ Invited(c, d) => dash[d].doing = "nothing"
  /\ Rings(d) => sess[d].peer \in P \ {d}
  /\ d \notin P => ~InACall(d) /\ dash[d].doing = "nothing" /\ sess[d].state = "none"

\* Who sent a leave has left, and sends no second one; who is quiet has left.
Leaves(c, P) == \A g, e \in P :
  Once(g, e, Leaving) /\ (LeaveDue(g, e) \/ g \in quiet => Left(c, g))

\* Whom a roster lacks has left, and its leave has been heard.
Dropped(c, P) == \A e, g \in P :
  e # g /\ Live(e) /\ g \notin dash[e].group => Left(c, g) /\ ~LeaveDue(g, e)

\* d shows e in the call, or will.
Shows(c, d, e) == (Live(d) /\ e \in dash[d].group) \/ Invited(c, d)

\* e will tell d when it leaves, has told it, or left without telling it.
Answers(d, e) == \/ e \in quiet
                 \/ LeaveDue(e, d)
                 \/ InIt(e) /\ d \in dash[e].group

Kept(c, P) == \A d, e \in P :
  d # e /\ Shows(c, d, e) => Invited(c, e) \/ Answers(d, e)

StateGood == sess \in [Device -> Session] /\ dash \in [Device -> Dash] /\ quiet \subseteq Device

\* The call that c started among P.
Started(c, P) ==
  /\ c \in P
  /\ sess[c].state # "none"
  /\ StateGood
  /\ SignalsGood(c, P)
  /\ InvitesFirst(c)
  /\ Early(c)
  /\ \A d \in Device : DashGood(c, P, d)
  /\ Leaves(c, P) /\ Dropped(c, P) /\ Kept(c, P)

\* What a step owes to who left and to who is shown.
LEMMA StepOfCall ==
    ASSUME NEW c \in Device, NEW P \in SUBSET Device, Leaves(c, P), Dropped(c, P), Kept(c, P),
           \A g \in P : Left(c, g) => Left(c, g)',
           \A g \in P : g \in quiet' => g \in quiet \/ Left(c, g)',
           \A g, e \in P : LeaveDue(g, e)' => LeaveDue(g, e) \/ (Left(c, g)' /\ ~Left(c, g)),
           \A g, e \in P : Once(g, e, Leaving)',
           \A g, e \in P : g # e /\ Live(e)' /\ g \notin dash'[e].group =>
               \/ Live(e) /\ g \notin dash[e].group
               \/ Left(c, g)' /\ ~LeaveDue(g, e)',
           \A d, e \in P : d # e /\ Shows(c, d, e)' =>
               /\ Shows(c, d, e)
               /\ Invited(c, e) \/ Answers(d, e) => Invited(c, e)' \/ Answers(d, e)'
    PROVE  Leaves(c, P)' /\ Dropped(c, P)' /\ Kept(c, P)'
<1>1. Leaves(c, P)'
    <2> SUFFICES ASSUME NEW g \in P, NEW e \in P, LeaveDue(g, e)' \/ g \in quiet' PROVE Left(c, g)'
        BY DEF Leaves
    <2> QED
        BY DEF Leaves
<1>2. Dropped(c, P)'
    <2> SUFFICES ASSUME NEW e \in P, NEW g \in P, e # g, Live(e)', g \notin dash'[e].group
                 PROVE  Left(c, g)' /\ ~LeaveDue(g, e)'
        BY DEF Dropped
    <2> QED
        BY DEF Dropped
<1>3. Kept(c, P)'
    <2> SUFFICES ASSUME NEW d \in P, NEW e \in P, d # e, Shows(c, d, e)'
                 PROVE  Invited(c, e)' \/ Answers(d, e)'
        BY DEF Kept
    <2> QED
        BY DEF Kept
<1> QED
    BY <1>1, <1>2, <1>3

\* A step in which nobody joins the call and nobody leaves it.
LEMMA CalmStep ==
    ASSUME NEW c \in Device, NEW P \in SUBSET Device, Leaves(c, P), Dropped(c, P), Kept(c, P),
           \A g \in P : Left(c, g) => Left(c, g)',
           \A g, e \in P : LeaveDue(g, e)' => LeaveDue(g, e),
           \A g, e \in P : LeaveDue(g, e) /\ ~LeaveDue(g, e)' => ~Live(e) /\ ~Invited(c, e),
           \A g, e \in P : Once(g, e, Leaving)',
           \A e \in P : Live(e)' => Live(e) /\ dash'[e].group = dash[e].group,
           \A e \in P : InIt(e) => InIt(e)' /\ dash'[e].group = dash[e].group,
           \A e \in P : Invited(c, e)' <=> Invited(c, e),
           quiet' = quiet
    PROVE  Leaves(c, P)' /\ Dropped(c, P)' /\ Kept(c, P)'
<1>1. \A d, e \in P : d # e /\ Shows(c, d, e)' => Shows(c, d, e)
    BY DEF Shows
<1>2. ASSUME NEW d \in P, NEW e \in P, Shows(c, d, e), Answers(d, e) PROVE Answers(d, e)'
    BY <1>2 DEF Shows, Answers
<1> QED
    BY <1>1, <1>2, StepOfCall

-----------------------------------------------------------------------------
(* A device acts: it polls a signal or not, and publishes or not.           *)

LEMMA InviteIsFirst ==
    ASSUME NEW c \in Device, NEW P, SignalsGood(c, P), InvitesFirst(c),
           NEW d \in Device, heard[d] # <<>>, Invited(c, d)
    PROVE  Head(heard[d]).kind = "invite"
<1>1. InEar(c, d, {"invite"})
    BY DEF Invited, Due, InvitesFirst
<1>2. PICK i \in 1..Len(heard[d]) : heard[d][i].kind = "invite"
    BY <1>1 DEF InEar, Holds
<1>3. i = 1
    BY <1>2 DEF InvitesFirst, Foremost
<1>4. heard[d] \in Seq(Signal)
    BY DEF SignalsGood
<1> QED
    BY <1>2, <1>3, <1>4, HeadTailProperties

\* What becomes of the leaves and invites that are due.
LEMMA DueAfter ==
    ASSUME NEW c \in Device, NEW P \in SUBSET Device, SignalsGood(c, P), InvitesFirst(c), Leaves(c, P),
           NEW d \in P, NEW m, NEW targets, Acts(c, P, d, m, targets)
    PROVE  /\ \A x, y \in Device : \A kinds :
                Due(x, y, kinds)' => Due(x, y, kinds) \/ (x = d /\ y \in targets /\ m.kind \in kinds)
           /\ \A x, y \in P :
                /\ LeaveDue(x, y) =>
                     LeaveDue(x, y)' \/ (Taken(d) /\ y = d /\ Head(heard[d]).from = x /\ Head(heard[d]).kind \in Leaving)
                /\ Publishes(d, m, targets) /\ x = d /\ y \in targets /\ m.kind \in Leaving => LeaveDue(x, y)'
                /\ Taken(d) /\ Head(heard[d]).from = x /\ Head(heard[d]).kind \in Leaving => ~LeaveDue(x, d)'
                /\ ~(x = d /\ y \in targets /\ m.kind \in Leaving /\ LeaveDue(x, y)) => Once(x, y, Leaving)'
           /\ \A y \in Device :
                /\ Invited(c, y)' => Invited(c, y)
                /\ Invited(c, y) => Invited(c, y)' \/ (Taken(d) /\ y = d /\ Head(heard[d]).kind = "invite")
           /\ Taken(d) => ~Invited(c, d)'
<1>0. /\ m \in Signal /\ m.from = d /\ m.kind # "invite" /\ targets \in SUBSET (P \ {d})
      /\ Inviting(c) => targets \subseteq {c}
      /\ UNCHANGED wire \/ Publishes(d, m, targets)
      /\ UNCHANGED heard \/ Taken(d)
      /\ d \in Device
    BY DEF Acts
<1>1. /\ \A x, y \in Device : \A kinds :
            /\ OnWire(x, y, kinds)' =>
                 OnWire(x, y, kinds) \/ (Publishes(d, m, targets) /\ x = d /\ y \in targets /\ m.kind \in kinds)
            /\ OnWire(x, y, kinds) => OnWire(x, y, kinds)'
            /\ Publishes(d, m, targets) /\ x = d /\ y \in targets /\ m.kind \in kinds => OnWire(x, y, kinds)'
            /\ InEar(x, y, kinds)' => InEar(x, y, kinds)
            /\ InEar(x, y, kinds) /\ ~InEar(x, y, kinds)' =>
                 Taken(d) /\ y = d /\ Head(heard[d]).from = x /\ Head(heard[d]).kind \in kinds
            /\ Single(wire[x][y], x, kinds)
               /\ ~(Publishes(d, m, targets) /\ x = d /\ y \in targets /\ m.kind \in kinds /\ OnWire(x, y, kinds))
               => Single(wire[x][y], x, kinds)'
            /\ Single(heard[y], x, kinds) => Single(heard[y], x, kinds)'
            /\ Single(heard[y], x, kinds) /\ Taken(d) /\ y = d
               /\ Head(heard[d]).from = x /\ Head(heard[d]).kind \in kinds => ~InEar(x, y, kinds)'
      /\ Taken(d) => \A x \in Device : ~InEar(x, d, {"invite"})'
    BY Traffic
<1>2. ASSUME NEW x \in Device, NEW y \in Device, NEW kinds, Due(x, y, kinds)'
      PROVE  Due(x, y, kinds) \/ (x = d /\ y \in targets /\ m.kind \in kinds)
    BY <1>1, <1>2 DEF Due
<1>3. ASSUME Taken(d) PROVE heard[d] \in Seq(Signal) /\ heard[d] # <<>> /\ Head(heard[d]).from # d
    <2>1. heard[d] \in Seq(Word(c, P, d)) /\ heard[d] # <<>>
        BY <1>0, <1>3 DEF SignalsGood, Taken
    <2>2. Head(heard[d]) \in Word(c, P, d)
        BY <2>1, HeadTailProperties
    <2> QED
        BY <1>0, <2>1, <2>2 DEF SignalsGood, Word
<1>4. ASSUME NEW x \in P, NEW y \in P
      PROVE  /\ LeaveDue(x, y) =>
                  LeaveDue(x, y)' \/ (Taken(d) /\ y = d /\ Head(heard[d]).from = x /\ Head(heard[d]).kind \in Leaving)
             /\ Publishes(d, m, targets) /\ x = d /\ y \in targets /\ m.kind \in Leaving => LeaveDue(x, y)'
             /\ Taken(d) /\ Head(heard[d]).from = x /\ Head(heard[d]).kind \in Leaving => ~LeaveDue(x, d)'
             /\ ~(x = d /\ y \in targets /\ m.kind \in Leaving /\ LeaveDue(x, y)) => Once(x, y, Leaving)'
    <2>0. x \in Device /\ y \in Device
        OBVIOUS
    <2>1. Once(x, y, Leaving) /\ Once(x, d, Leaving)
        BY DEF Leaves
    <2>2. LeaveDue(x, y) =>
            LeaveDue(x, y)' \/ (Taken(d) /\ y = d /\ Head(heard[d]).from = x /\ Head(heard[d]).kind \in Leaving)
        BY <1>1, <2>0 DEF LeaveDue, Due
    <2>3. Publishes(d, m, targets) /\ x = d /\ y \in targets /\ m.kind \in Leaving => LeaveDue(x, y)'
        BY <1>1, <2>0 DEF LeaveDue, Due
    <2>4. ASSUME Taken(d), Head(heard[d]).from = x, Head(heard[d]).kind \in Leaving PROVE ~LeaveDue(x, d)'
        <3>1. InEar(x, d, Leaving)
            BY <1>3, <2>4, HoldsTail DEF InEar
        <3>2. ~OnWire(x, d, Leaving) /\ Single(heard[d], x, Leaving)
            BY <2>1, <3>1 DEF Once
        <3>3. ~OnWire(x, d, Leaving)'
            BY <1>0, <1>1, <1>3, <2>0, <2>4, <3>2
        <3>4. ~InEar(x, d, Leaving)'
            BY <1>0, <1>1, <2>0, <2>4, <3>2
        <3> QED
            BY <3>3, <3>4 DEF LeaveDue, Due
    <2>5. ASSUME ~(x = d /\ y \in targets /\ m.kind \in Leaving /\ LeaveDue(x, y)) PROVE Once(x, y, Leaving)'
        <3>1. /\ Single(wire[x][y], x, Leaving) /\ Single(heard[y], x, Leaving)
              /\ ~(OnWire(x, y, Leaving) /\ InEar(x, y, Leaving))
            BY <2>1 DEF Once
        <3>2. Single(wire[x][y], x, Leaving)'
            BY <1>1, <2>0, <2>5, <3>1 DEF LeaveDue, Due
        <3>3. Single(heard[y], x, Leaving)'
            BY <1>1, <2>0, <3>1
        <3>4. ~(OnWire(x, y, Leaving)' /\ InEar(x, y, Leaving)')
            BY <1>1, <2>0, <2>5, <3>1 DEF LeaveDue, Due
        <3> QED
            BY <3>2, <3>3, <3>4 DEF Once
    <2> QED
        BY <2>2, <2>3, <2>4, <2>5
<1>5. ASSUME NEW y \in Device
      PROVE  /\ Invited(c, y)' => Invited(c, y)
             /\ Invited(c, y) => Invited(c, y)' \/ (Taken(d) /\ y = d /\ Head(heard[d]).kind = "invite")
    <2>1. Invited(c, y)' => Invited(c, y)
        BY <1>0, <1>2 DEF Invited
    <2>2. Invited(c, y) => Invited(c, y)' \/ (Taken(d) /\ y = d /\ Head(heard[d]).kind = "invite")
        BY <1>1 DEF Invited, Due
    <2> QED
        BY <2>1, <2>2
<1>6. ASSUME Taken(d) PROVE ~Invited(c, d)'
    <2>1. ~InEar(c, d, {"invite"})'
        BY <1>1, <1>6
    <2>2. ~OnWire(c, d, {"invite"})
        BY <1>0, <1>3, <1>6 DEF InvitesFirst
    <2>3. ~OnWire(c, d, {"invite"})'
        BY <1>0, <1>1, <2>2
    <2> QED
        BY <2>1, <2>3 DEF Invited, Due
<1> QED
    BY <1>2, <1>4, <1>5, <1>6

\* Only d's session and dashboard change, and only d may leave quietly.
Alone(d) ==
  /\ sess' \in [Device -> Session] /\ dash' \in [Device -> Dash] /\ quiet' \in SUBSET Device
  /\ quiet' \subseteq quiet \cup {d}
  /\ \A e \in Device \ {d} : sess'[e] = sess[e] /\ dash'[e] = dash[e]
  /\ sess'[d].state = "none" => sess[d].state = "none"

\* What an act of d leaves behind.
Carried(c, P, d) ==
  /\ Started(c, P)'
  /\ Alone(d)
  /\ \E m \in Signal, targets \in SUBSET Device : Acts(c, P, d, m, targets)
  /\ \A g \in P : Left(c, g) => Left(c, g)'
  /\ \A y \in P : LeaveDue(d, y)' => LeaveDue(d, y) \/ ~Left(c, d)

LEMMA DashAsBefore ==
    ASSUME NEW c, NEW P, NEW e, DashGood(c, P, e), dash'[e] = dash[e], sess'[e] = sess[e],
           Invited(c, e)' => Invited(c, e)
    PROVE  DashGood(c, P, e)'
BY DEF DashGood, InACall, Rings

LEMMA OthersStay ==
    ASSUME NEW c \in Device, NEW P \in SUBSET Device, SignalsGood(c, P), InvitesFirst(c), Leaves(c, P),
           NEW d \in P, NEW m, NEW targets, Acts(c, P, d, m, targets), Alone(d),
           \A e \in Device : DashGood(c, P, e)
    PROVE  /\ \A e \in Device \ {d} : DashGood(c, P, e)' /\ (Left(c, e) => Left(c, e)')
           /\ \A e \in Device \ {d} : InIt(e)' <=> InIt(e)
           /\ \A e \in Device \ {d} : quiet \subseteq quiet' => (Live(e)' => Live(e))
<1>1. \A e \in Device : Invited(c, e)' => Invited(c, e)
    BY DueAfter
<1>2. ASSUME NEW e \in Device \ {d}
      PROVE  /\ DashGood(c, P, e)' /\ (Left(c, e) => Left(c, e)')
             /\ InIt(e)' <=> InIt(e)
             /\ quiet \subseteq quiet' => (Live(e)' => Live(e))
    <2>1. dash'[e] = dash[e] /\ sess'[e] = sess[e] /\ (Invited(c, e)' => Invited(c, e)) /\ DashGood(c, P, e)
        BY <1>1 DEF Alone
    <2>2. DashGood(c, P, e)'
        BY <2>1, DashAsBefore
    <2>3. Left(c, e) => Left(c, e)'
        BY <2>1 DEF Left, Rings
    <2>4. InIt(e)' <=> InIt(e)
        BY <2>1 DEF InIt, InACall
    <2>5. quiet \subseteq quiet' => (Live(e)' => Live(e))
        BY <2>1, <2>4 DEF Live
    <2> QED
        BY <2>2, <2>3, <2>4, <2>5
<1> QED
    BY <1>2

LEMMA StartedStill ==
    ASSUME NEW c \in Device, NEW P \in SUBSET Device, Started(c, P),
           NEW d \in P, NEW m, NEW targets, Acts(c, P, d, m, targets), Alone(d),
           DashGood(c, P, d)', Left(c, d) => Left(c, d)', Inviting(c) => dash'[c].host \in {c, NoOne},
           Leaves(c, P)' /\ Dropped(c, P)' /\ Kept(c, P)', m.kind \in Leaving => ~Left(c, d)
    PROVE  Carried(c, P, d)
<1>1. /\ c \in P /\ sess[c].state # "none" /\ StateGood /\ SignalsGood(c, P) /\ InvitesFirst(c)
      /\ Early(c) /\ Leaves(c, P) /\ \A e \in Device : DashGood(c, P, e)
    BY DEF Started
<1>2. /\ m \in Signal /\ m.from = d /\ m.kind # "invite" /\ targets \in SUBSET (P \ {d})
      /\ Inviting(c) => targets \subseteq {c} /\ m.kind # "host"
      /\ UNCHANGED wire \/ Publishes(d, m, targets)
      /\ UNCHANGED heard \/ Taken(d)
    BY DEF Acts
<1>3. SignalsGood(c, P)' /\ InvitesFirst(c)' /\ (Inviting(c)' => Inviting(c))
    BY <1>1, Traffic
<1>4. \A e \in Device : DashGood(c, P, e)'
    BY <1>1, OthersStay
<1>5. Early(c)'
    <2> SUFFICES ASSUME Inviting(c)
                 PROVE  /\ \A x \in Device : \A y \in Device \ {c} : ~Due(x, y, Kind \ {"invite"})'
                        /\ \A x \in Device : ~Due(x, c, {"host"})'
                        /\ dash'[c].host \in {c, NoOne}
        BY <1>3 DEF Early
    <2>1. /\ \A x \in Device : \A y \in Device \ {c} : ~Due(x, y, Kind \ {"invite"})
          /\ \A x \in Device : ~Due(x, c, {"host"})
        BY <1>1 DEF Early
    <2>2. \A x, y \in Device : \A kinds :
            Due(x, y, kinds)' => Due(x, y, kinds) \/ (x = d /\ y \in targets /\ m.kind \in kinds)
        BY <1>1, DueAfter
    <2>3. targets \subseteq {c} /\ m.kind # "host"
        BY <1>2
    <2>4. \A x \in Device : \A y \in Device \ {c} : ~Due(x, y, Kind \ {"invite"})'
        BY <2>1, <2>2, <2>3
    <2>5. \A x \in Device : ~Due(x, c, {"host"})'
        BY <2>1, <2>2, <2>3
    <2> QED
        BY <2>4, <2>5
<1>6. StateGood' /\ sess'[c].state # "none"
    BY <1>1 DEF StateGood, Alone
<1>7. \A g \in P : Left(c, g) => Left(c, g)'
    BY <1>1, OthersStay
<1>8. Started(c, P)'
    BY <1>1, <1>3, <1>4, <1>5, <1>6 DEF Started
<1>9. \A y \in P : LeaveDue(d, y)' => LeaveDue(d, y) \/ ~Left(c, d)
    BY <1>1, DueAfter DEF LeaveDue
<1> QED
    BY <1>2, <1>7, <1>8, <1>9 DEF Carried

\* An action in which nobody joins and nobody leaves.
LEMMA CalmAct ==
    ASSUME NEW c \in Device, NEW P \in SUBSET Device, Started(c, P),
           NEW d \in P, NEW m, NEW targets, Acts(c, P, d, m, targets), Alone(d), UNCHANGED quiet,
           m.kind \notin Leaving,
           Taken(d) => Head(heard[d]).kind # "invite" /\ (Head(heard[d]).kind \notin Leaving \/ ~Live(d)),
           DashGood(c, P, d)', Left(c, d) => Left(c, d)',
           Inviting(c) => dash'[c].host \in {c, NoOne},
           Live(d)' => Live(d) /\ dash'[d].group = dash[d].group,
           InIt(d) => InIt(d)' /\ dash'[d].group = dash[d].group
    PROVE  Carried(c, P, d)
<1>1. /\ SignalsGood(c, P) /\ InvitesFirst(c) /\ Leaves(c, P) /\ Dropped(c, P) /\ Kept(c, P)
      /\ \A e \in Device : DashGood(c, P, e)
    BY DEF Started
<1>2. /\ \A x, y \in Device : \A kinds :
            Due(x, y, kinds)' => Due(x, y, kinds) \/ (x = d /\ y \in targets /\ m.kind \in kinds)
      /\ \A x, y \in P :
            /\ LeaveDue(x, y) =>
                 LeaveDue(x, y)' \/ (Taken(d) /\ y = d /\ Head(heard[d]).from = x /\ Head(heard[d]).kind \in Leaving)
            /\ ~(x = d /\ y \in targets /\ m.kind \in Leaving /\ LeaveDue(x, y)) => Once(x, y, Leaving)'
      /\ \A y \in Device :
            /\ Invited(c, y)' => Invited(c, y)
            /\ Invited(c, y) => Invited(c, y)' \/ (Taken(d) /\ y = d /\ Head(heard[d]).kind = "invite")
    BY <1>1, DueAfter
<1>3. \A g, e \in P : LeaveDue(g, e)' => LeaveDue(g, e)
    BY <1>2 DEF LeaveDue
<1>4. Taken(d) => ~Invited(c, d)
    BY <1>1, InviteIsFirst DEF Taken
<1>5. \A g, e \in P : LeaveDue(g, e) /\ ~LeaveDue(g, e)' => ~Live(e) /\ ~Invited(c, e)
    BY <1>2, <1>4
<1>6. \A g, e \in P : Once(g, e, Leaving)'
    BY <1>2
<1>7. \A e \in P : Invited(c, e)' <=> Invited(c, e)
    BY <1>2
<1>8. \A g \in P : Left(c, g) => Left(c, g)'
    BY <1>1, OthersStay
<1>9. ASSUME NEW e \in P PROVE /\ Live(e)' => Live(e) /\ dash'[e].group = dash[e].group
                               /\ InIt(e) => InIt(e)' /\ dash'[e].group = dash[e].group
    <2>1. CASE e = d
        BY <2>1
    <2>2. CASE e # d
        BY <1>1, <2>2, OthersStay DEF Alone
    <2> QED
        BY <2>1, <2>2
<1>10. Leaves(c, P)' /\ Dropped(c, P)' /\ Kept(c, P)'
    BY <1>1, <1>3, <1>5, <1>6, <1>7, <1>8, <1>9, CalmStep
<1> QED
    BY <1>10, StartedStill

LEMMA Member ==
    ASSUME NEW c \in Device, NEW P \in SUBSET Device, Started(c, P), NEW d \in Device,
           InACall(d) \/ dash[d].doing # "nothing" \/ sess[d].state # "none" \/ heard[d] # <<>>
    PROVE  d \in P
BY AmongP DEF Started, DashGood

\* What a device hears was said to it.
LEMMA Heard ==
    ASSUME NEW c \in Device, NEW P \in SUBSET Device, Started(c, P), NEW d \in Device, heard[d] # <<>>
    PROVE  /\ d \in P /\ Dispatched(d) \in Signal
           /\ Dispatched(d).from \in P \ {d} /\ Dispatched(d).from \in Device
           /\ Dispatched(d).host \in Device \cup {NoOne}
           /\ Dispatched(d).kind = "invite" =>
                Dispatched(d).from = c /\ Dispatched(d).people = P /\ Dispatched(d).host = c
           /\ Dispatched(d).kind = "host" => Dispatched(d).host = Dispatched(d).from
           /\ \A kinds : Dispatched(d).kind \in kinds => Due(Dispatched(d).from, d, kinds)
<1>1. heard[d] \in Seq(Word(c, P, d)) /\ heard[d] \in Seq(Signal)
    BY DEF Started, SignalsGood
<1>2. Head(heard[d]) \in Word(c, P, d)
    BY <1>1, HeadTailProperties
<1>3. \A kinds : Head(heard[d]).kind \in kinds => Holds(heard[d], Head(heard[d]).from, kinds)
    BY <1>1, HoldsTail
<1> QED
    BY <1>2, <1>3 DEF Word, Signal, Dispatched, Due, InEar

LEMMA InvitesOver ==
    ASSUME NEW c \in Device, NEW P \in SUBSET Device, Started(c, P), NEW d \in Device, InviteSeen(d)
    PROVE  ~Inviting(c) /\ ~Invited(c, d)
<1>1. \A x, y \in Device : wire[x][y] \in Seq(Signal) /\ heard[y] \in Seq(Signal)
    BY DEF Started, SignalsGood
<1>2. \A x, y \in Device : \A i \in 1..Len(wire[x][y]) : wire[x][y][i].kind # "invite"
    BY <1>1 DEF InviteSeen, ToSet
<1>3. \A i \in 1..Len(heard[d]) : heard[d][i].kind # "invite"
    BY <1>1 DEF InviteSeen, ToSet
<1> QED
    BY <1>2, <1>3 DEF Inviting, Invited, Due, OnWire, InEar, Holds

LEMMA HeardShrinks ==
    ASSUME NEW c, NEW P, Started(c, P), NEW d \in Device, UNCHANGED heard PROVE ~Taken(d)
<1> SUFFICES ASSUME Taken(d) PROVE FALSE
    OBVIOUS
<1>1. heard \in [Device -> Seq(Signal)]
    BY DEF Started, SignalsGood
<1>2. heard[d] # <<>> /\ heard[d] = Tail(heard[d]) /\ heard[d] \in Seq(Signal)
    BY <1>1 DEF Taken
<1>3. Len(heard[d]) \in Nat /\ Len(Tail(heard[d])) = Len(heard[d]) - 1
    BY <1>2, HeadTailProperties, LenProperties
<1>4. Len(Tail(heard[d])) = Len(heard[d])
    BY <1>2, Zenon
<1>5. PICK n \in Nat : Len(heard[d]) = n
    BY <1>3
<1>6. n = n - 1
    BY <1>3, <1>4, <1>5
<1> QED
    BY <1>6

LEMMA WireGrows ==
    ASSUME NEW c, NEW P \in SUBSET Device, Started(c, P), NEW d \in Device, NEW m \in Signal,
           NEW targets \in SUBSET Device, Publishes(d, m, targets), UNCHANGED wire
    PROVE  targets = {}
<1> SUFFICES ASSUME NEW to \in targets PROVE FALSE
    OBVIOUS
<1>1. wire \in [Device -> [Device -> Seq(Signal)]]
    BY DEF Started, SignalsGood
<1>2. wire'[d][to] = Append(wire[d][to], m) /\ wire[d][to] \in Seq(Signal)
    BY <1>1 DEF Publishes
<1>3. Len(wire[d][to]) \in Nat /\ Len(Append(wire[d][to], m)) = Len(wire[d][to]) + 1
    BY <1>2, AppendProperties, LenProperties
<1>4. Len(Append(wire[d][to], m)) = Len(wire[d][to])
    BY <1>2, Zenon
<1>5. PICK n \in Nat : Len(wire[d][to]) = n
    BY <1>3
<1>6. n = n + 1
    BY <1>3, <1>4, <1>5
<1> QED
    BY <1>6

LEMMA CalmDash ==
    ASSUME NEW c \in Device, NEW P \in SUBSET Device, Started(c, P), NEW d \in P,
           UNCHANGED <<sess, quiet, wire>>, UNCHANGED heard \/ Taken(d),
           dash' \in [Device -> Dash], \A e \in Device \ {d} : dash'[e] = dash[e],
           Taken(d) => Head(heard[d]).kind # "invite" /\ (Head(heard[d]).kind \notin Leaving \/ ~Live(d)),
           DashGood(c, P, d)', Left(c, d) => Left(c, d)',
           Inviting(c) /\ d = c => dash'[c].host \in {c, NoOne},
           Live(d)' => Live(d) /\ dash'[d].group = dash[d].group,
           InIt(d) => InIt(d)' /\ dash'[d].group = dash[d].group
    PROVE  Carried(c, P, d)
<1> DEFINE m == [kind |-> "accept", from |-> d, host |-> NoOne, people |-> {}]
<1>1. m \in Signal /\ m.from = d /\ m.kind = "accept"
    BY DEF Signal, Kind
<1> HIDE DEF m
<1>2. Acts(c, P, d, m, {})
    BY <1>1 DEF Acts
<1>3. Alone(d) /\ UNCHANGED quiet
    BY DEF Alone, Started, StateGood
<1>4. m.kind \notin Leaving
    BY <1>1 DEF Leaving
<1>5. Inviting(c) => dash'[c].host \in {c, NoOne}
    BY DEF Started, Early
<1> QED
    BY <1>2, <1>3, <1>4, <1>5, CalmAct

\* An invite that is pending was pending before.
LEMMA InvitedBefore ==
    ASSUME NEW c \in Device, NEW P \in SUBSET Device, Started(c, P), NEW d \in P,
           UNCHANGED wire, UNCHANGED heard \/ Taken(d)
    PROVE  \A e \in Device : Invited(c, e)' => Invited(c, e)
<1> DEFINE m == [kind |-> "accept", from |-> d, host |-> NoOne, people |-> {}]
<1>1. m \in Signal /\ m.from = d /\ m.kind = "accept"
    BY DEF Signal, Kind
<1> HIDE DEF m
<1>2. Acts(c, P, d, m, {})
    BY <1>1 DEF Acts
<1> QED
    BY <1>2, DueAfter DEF Started

LEMMA JoinStep ==
    ASSUME NEW c \in Device, NEW P \in SUBSET Device, Started(c, P), NEW d \in Device, Join(d)
    PROVE  Carried(c, P, d)
<1>1. StateGood /\ DashGood(c, P, d) /\ (Inviting(c) => dash[c].host \in {c, NoOne})
    BY DEF Started, Early
<1>2. /\ dash' \in [Device -> Dash]
      /\ dash[d].doing = "joining"
      /\ dash'[d] = [dash[d] EXCEPT !.role = "active", !.doing = "nothing"]
      /\ \A e \in Device \ {d} : dash'[e] = dash[e]
      /\ UNCHANGED <<sess, quiet, wire, heard>>
    BY <1>1 DEF Join, StateGood, Dash, Role
<1>3. /\ dash'[d].role = "active" /\ dash'[d].doing = "nothing" /\ dash'[d].group = dash[d].group
      /\ dash'[d].host = dash[d].host /\ dash'[d].peer = dash[d].peer /\ dash'[d].call = dash[d].call
    BY <1>1, <1>2 DEF StateGood, Dash
<1>4. d \in P
    BY <1>2, Member
<1>5. Invited(c, d)' => Invited(c, d)
    BY <1>2, <1>4, InvitedBefore
<1>6. DashGood(c, P, d)'
    BY <1>1, <1>2, <1>3, <1>4, <1>5 DEF DashGood, InACall, Rings
<1>7. Left(c, d) => Left(c, d)'
    BY <1>1, <1>2, <1>3, <1>5 DEF Left, DashGood, Rings
<1>8. /\ InIt(d) => InIt(d)' /\ dash'[d].group = dash[d].group
      /\ Live(d)' => Live(d) /\ dash'[d].group = dash[d].group
    BY <1>1, <1>2, <1>3 DEF InIt, Live, InACall, DashGood
<1>9. ~Taken(d)
    BY <1>2, HeardShrinks
<1> QED
    BY <1>1, <1>2, <1>3, <1>4, <1>6, <1>7, <1>8, <1>9, CalmDash

LEMMA LeaveStep ==
    ASSUME NEW c \in Device, NEW P \in SUBSET Device, Started(c, P), NEW d \in Device, Leave(d)
    PROVE  Carried(c, P, d)
<1>1. StateGood /\ DashGood(c, P, d)
    BY DEF Started
<1>2. /\ dash' \in [Device -> Dash]
      /\ dash[d].doing = "leaving"
      /\ dash'[d] = NoDash
      /\ \A e \in Device \ {d} : dash'[e] = dash[e]
      /\ UNCHANGED <<sess, quiet, wire, heard>>
    BY <1>1 DEF Leave, StateGood, Dash, Role, NoDash
<1>3. /\ dash'[d].role = "idle" /\ dash'[d].doing = "nothing" /\ dash'[d].group = {}
      /\ dash'[d].host = NoOne /\ dash'[d].peer = NoOne
    BY <1>2 DEF NoDash
<1>4. d \in P
    BY <1>2, Member
<1>5. Invited(c, d)' => Invited(c, d)
    BY <1>2, <1>4, InvitedBefore
<1>6. DashGood(c, P, d)'
    BY <1>1, <1>2, <1>3, <1>4, <1>5 DEF DashGood, InACall, Rings
<1>7. Left(c, d) => Left(c, d)'
    BY <1>1, <1>2, <1>3, <1>5 DEF Left, DashGood, Rings
<1>8. ~Live(d)' /\ ~InIt(d)
    BY <1>2, <1>3 DEF InIt, Live, InACall
<1>9. ~Taken(d)
    BY <1>2, HeardShrinks
<1> QED
    BY <1>2, <1>3, <1>4, <1>6, <1>7, <1>8, <1>9, CalmDash

LEMMA SeeIncomingStep ==
    ASSUME NEW c \in Device, NEW P \in SUBSET Device, Started(c, P), NEW d \in Device, SeeIncoming(d)
    PROVE  Carried(c, P, d)
<1>1. StateGood /\ DashGood(c, P, d) /\ (Inviting(c) => dash[c].host \in {c, NoOne})
    BY DEF Started, Early
<1>2. Rings(d) /\ dash[d].role # "elsewhere" /\ sess[d].peer \in P \ {d} /\ sess[d].peer # NoOne /\ d \in P
    <2>1. Rings(d) /\ dash[d].role # "elsewhere"
        BY DEF SeeIncoming, Rings
    <2>2. d \in P
        BY <2>1, Member DEF Rings
    <2> QED
        BY <1>1, <2>1, <2>2, DeviceAssumption DEF DashGood, NoOne
<1>3. /\ dash' \in [Device -> Dash]
      /\ \E role \in {"ringing-in", "active"} :
           dash'[d] = [dash[d] EXCEPT !.role = role, !.call = TRUE, !.peer = sess[d].peer]
      /\ \A e \in Device \ {d} : dash'[e] = dash[e]
      /\ UNCHANGED <<sess, quiet, wire, heard>>
    <2>1. PICK role \in {"ringing-in", "active"} :
            role = IF Shown(dash[d]) THEN dash[d].role ELSE "ringing-in"
        BY DEF Shown
    <2>2. dash' = [dash EXCEPT ![d] = [dash[d] EXCEPT !.role = role, !.call = TRUE, !.peer = sess[d].peer]]
          /\ UNCHANGED <<sess, quiet, wire, heard>>
        BY <2>1 DEF SeeIncoming
    <2>3. [dash[d] EXCEPT !.role = role, !.call = TRUE, !.peer = sess[d].peer] \in Dash
        BY <1>1, <1>2 DEF StateGood, Dash, Role
    <2> QED
        BY <1>1, <2>2, <2>3 DEF StateGood
<1>4. /\ dash'[d].role \in {"ringing-in", "active"} /\ dash'[d].doing = dash[d].doing /\ dash'[d].group = dash[d].group
      /\ dash'[d].host = dash[d].host /\ dash'[d].peer = sess[d].peer /\ dash'[d].call
    BY <1>1, <1>3 DEF StateGood, Dash
<1>5. Invited(c, d)' => Invited(c, d)
    BY <1>2, <1>3, InvitedBefore
<1>6. DashGood(c, P, d)'
    BY <1>1, <1>2, <1>3, <1>4, <1>5 DEF DashGood, InACall, Rings
<1>7. ~Left(c, d)
    BY <1>2 DEF Left
<1>8. /\ InIt(d) => InIt(d)' /\ dash'[d].group = dash[d].group
      /\ Live(d)' => Live(d) /\ dash'[d].group = dash[d].group
    BY <1>1, <1>2, <1>3, <1>4 DEF InIt, Live, InACall, DashGood
<1>9. ~Taken(d)
    BY <1>3, HeardShrinks
<1> QED
    BY <1>1, <1>2, <1>3, <1>4, <1>6, <1>7, <1>8, <1>9, CalmDash

\* Dispatching an event binds the dashboard to the call and to its sender.
LEMMA Binding ==
    ASSUME NEW c \in Device, NEW P \in SUBSET Device, Started(c, P), NEW d \in Device, heard[d] # <<>>
    PROVE  /\ Bound(d) \in Dash
           /\ Bound(d).call
           /\ Bound(d).peer \in P \ {d} /\ Bound(d).peer # NoOne
           /\ Bound(d).role = dash[d].role /\ Bound(d).host = dash[d].host
           /\ Bound(d).group = dash[d].group /\ Bound(d).doing = dash[d].doing
<1>1. dash[d] \in Dash /\ dash[d].peer \in (P \ {d}) \cup {NoOne}
    BY DEF Started, StateGood, DashGood
<1>2. Dispatched(d).from \in P \ {d} /\ Dispatched(d).from \in Device
    BY Heard
<1>3. NoOne \notin Device
    BY DeviceAssumption DEF NoOne
<1> QED
    BY <1>1, <1>2, <1>3 DEF Bound, Dash

LEMMA HearAcceptStep ==
    ASSUME NEW c \in Device, NEW P \in SUBSET Device, Started(c, P), NEW d \in Device, HearAccept(d)
    PROVE  Carried(c, P, d)
<1>1. StateGood /\ DashGood(c, P, d) /\ (Inviting(c) => dash[c].host \in {c, NoOne})
    BY DEF Started, Early
<1>2. InACall(d) /\ Taken(d) /\ heard[d] # <<>> /\ Head(heard[d]).kind = "accept"
    BY DEF HearAccept, Polls, Taken, Dispatched
<1>3. /\ Bound(d) \in Dash /\ Bound(d).call
      /\ Bound(d).peer \in P \ {d} /\ Bound(d).peer # NoOne
      /\ Bound(d).role = dash[d].role /\ Bound(d).host = dash[d].host
      /\ Bound(d).group = dash[d].group /\ Bound(d).doing = dash[d].doing
    BY <1>2, Binding
<1>4. /\ dash' \in [Device -> Dash]
      /\ dash'[d] = [Bound(d) EXCEPT !.role = "active"]
      /\ \A e \in Device \ {d} : dash'[e] = dash[e]
      /\ UNCHANGED <<sess, quiet, wire>>
    BY <1>1, <1>3 DEF HearAccept, StateGood, Dash, Role
<1>5. /\ dash'[d].role = "active" /\ dash'[d].doing = dash[d].doing /\ dash'[d].group = dash[d].group
      /\ dash'[d].host = dash[d].host /\ dash'[d].peer \in P \ {d} /\ dash'[d].call
    BY <1>3, <1>4 DEF Dash
<1>6. d \in P
    BY <1>2, Member
<1>7. Invited(c, d)' => Invited(c, d)
    BY <1>2, <1>4, <1>6, InvitedBefore
<1>8. DashGood(c, P, d)'
    BY <1>1, <1>2, <1>4, <1>5, <1>6, <1>7 DEF DashGood, InACall, Rings
<1>9. Left(c, d) => Left(c, d)'
    BY <1>2, <1>4, <1>5, <1>7 DEF Left, Rings, InACall
<1>10. /\ InIt(d) => InIt(d)' /\ dash'[d].group = dash[d].group
       /\ Live(d)' => Live(d) /\ dash'[d].group = dash[d].group
    BY <1>2, <1>4, <1>5 DEF InIt, Live, InACall
<1>11. Head(heard[d]).kind # "invite" /\ Head(heard[d]).kind \notin Leaving
    BY <1>2 DEF Leaving
<1> QED
    BY <1>1, <1>2, <1>4, <1>5, <1>6, <1>8, <1>9, <1>10, <1>11, CalmDash

LEMMA HearHostStep ==
    ASSUME NEW c \in Device, NEW P \in SUBSET Device, Started(c, P), NEW d \in Device, HearHost(d)
    PROVE  Carried(c, P, d)
<1>1. StateGood /\ DashGood(c, P, d)
    BY DEF Started
<1>2. InACall(d) /\ Taken(d) /\ heard[d] # <<>> /\ Head(heard[d]).kind = "host"
    BY DEF HearHost, Polls, Taken, Dispatched
<1>3. /\ Bound(d) \in Dash /\ Bound(d).call
      /\ Bound(d).peer \in P \ {d} /\ Bound(d).peer # NoOne
      /\ Bound(d).role = dash[d].role
      /\ Bound(d).group = dash[d].group /\ Bound(d).doing = dash[d].doing
    BY <1>2, Binding
<1>4. Dispatched(d).host \in Device \cup {NoOne}
    BY <1>2, Heard
<1>5. /\ dash' \in [Device -> Dash]
      /\ dash'[d] = [Bound(d) EXCEPT !.host = Dispatched(d).host]
      /\ \A e \in Device \ {d} : dash'[e] = dash[e]
      /\ UNCHANGED <<sess, quiet, wire>>
    BY <1>1, <1>3, <1>4 DEF HearHost, StateGood, Dash, Role
<1>6. /\ dash'[d].role = dash[d].role /\ dash'[d].doing = dash[d].doing /\ dash'[d].group = dash[d].group
      /\ dash'[d].peer \in P \ {d} /\ dash'[d].peer # NoOne /\ dash'[d].call
    BY <1>3, <1>5 DEF Dash
<1>7. d \in P
    BY <1>2, Member
<1>8. Invited(c, d)' => Invited(c, d)
    BY <1>2, <1>5, <1>7, InvitedBefore
<1>9. DashGood(c, P, d)'
    BY <1>1, <1>2, <1>5, <1>6, <1>7, <1>8 DEF DashGood, InACall, Rings
<1>10. Left(c, d) => Left(c, d)'
    BY <1>2, <1>5, <1>6, <1>8 DEF Left, Rings, InACall
<1>11. /\ InIt(d) => InIt(d)' /\ dash'[d].group = dash[d].group
       /\ Live(d)' => Live(d) /\ dash'[d].group = dash[d].group
    BY <1>2, <1>5, <1>6 DEF InIt, Live, InACall
<1>12. Head(heard[d]).kind # "invite" /\ Head(heard[d]).kind \notin Leaving
    BY <1>2 DEF Leaving
<1>13. ~(Inviting(c) /\ d = c)
    <2>1. Dispatched(d).from \in Device /\ Due(Dispatched(d).from, d, {"host"})
        BY <1>2, Heard DEF Dispatched
    <2> QED
        BY <2>1 DEF Started, Early
<1> QED
    BY <1>2, <1>5, <1>7, <1>9, <1>10, <1>11, <1>12, <1>13, CalmDash

LEMMA HearNothingStep ==
    ASSUME NEW c \in Device, NEW P \in SUBSET Device, Started(c, P), NEW d \in Device, HearNothing(d)
    PROVE  Carried(c, P, d)
<1>1. StateGood /\ DashGood(c, P, d) /\ (Inviting(c) => dash[c].host \in {c, NoOne})
    BY DEF Started, Early
<1>2. ~InACall(d) /\ Taken(d) /\ heard[d] # <<>> /\ Head(heard[d]).kind # "invite"
    BY DEF HearNothing, Polls, Taken, Dispatched
<1>3. UNCHANGED <<sess, dash, quiet, wire>>
    BY DEF HearNothing
<1>4. d \in P
    BY <1>2, Member
<1>5. Invited(c, d)' => Invited(c, d)
    BY <1>2, <1>3, <1>4, InvitedBefore
<1>6. DashGood(c, P, d)'
    BY <1>1, <1>3, <1>5, DashAsBefore
<1>7. Left(c, d) => Left(c, d)'
    BY <1>3, <1>5 DEF Left, Rings
<1>8. ~Live(d) /\ ~Live(d)' /\ ~InIt(d)
    BY <1>2, <1>3 DEF Live, InIt, InACall
<1>9. dash' \in [Device -> Dash] /\ \A e \in Device \ {d} : dash'[e] = dash[e]
    BY <1>1, <1>3 DEF StateGood
<1> QED
    BY <1>1, <1>2, <1>3, <1>4, <1>6, <1>7, <1>8, <1>9, CalmDash

LEMMA AcceptStep ==
    ASSUME NEW c \in Device, NEW P \in SUBSET Device, Started(c, P), NEW d \in Device, Accept(d)
    PROVE  Carried(c, P, d)
<1>1. StateGood /\ DashGood(c, P, d)
    BY DEF Started
<1>2. /\ dash[d].role = "ringing-in" /\ dash[d].doing = "nothing"
      /\ dash' = [dash EXCEPT ![d].doing = "joining"]
      /\ Post(d, "accept", {dash[d].peer}, NoOne, {})
      /\ UNCHANGED <<quiet, heard>>
    BY DEF Accept
<1>3. ~Inviting(c) /\ ~Invited(c, d)
    BY InvitesOver DEF Accept
<1>4. d \in P /\ dash[d].peer \in P \ {d} /\ InACall(d)
    BY <1>1, <1>2, Member DEF DashGood, InACall
<1>5. /\ dash' \in [Device -> Dash]
      /\ \A e \in Device \ {d} : dash'[e] = dash[e]
      /\ dash'[d].role = dash[d].role /\ dash'[d].doing = "joining" /\ dash'[d].group = dash[d].group
      /\ dash'[d].host = dash[d].host /\ dash'[d].peer = dash[d].peer /\ dash'[d].call = dash[d].call
    BY <1>1, <1>2 DEF StateGood, Dash
<1>6. PICK p \in P \ {d} : p = dash[d].peer
    BY <1>4
<1>7. PICK m \in Signal :
        /\ m.from = d /\ m.kind = "accept" /\ Publishes(d, m, {p})
        /\ sess' \in [Device -> Session]
        /\ \A e \in Device \ {d} : sess'[e] = sess[e]
        /\ ~Rings(d)'
        /\ sess'[d].state = "none" => sess[d].state = "none"
    <2>1. "accept" \in Kind \ {"invite"} /\ {p} \in SUBSET Device /\ {p} # {}
          /\ NoOne \in Device \cup {NoOne} /\ Post(d, "accept", {p}, NoOne, {})
        BY <1>2, <1>6 DEF Kind
    <2>2. /\ sess' \in [Device -> Session]
          /\ \A e \in Device \ {d} : sess'[e] = sess[e]
          /\ Rings(d)' => {p} = {} /\ Rings(d) /\ sess'[d].peer = sess[d].peer
          /\ sess'[d].state = "none" => sess[d].state = "none"
          /\ \E m \in Signal : m.from = d /\ m.kind = "accept" /\ Publishes(d, m, {p})
        BY <1>1, <2>1, Posting DEF StateGood
    <2> QED
        BY <2>1, <2>2
<1>8. Acts(c, P, d, m, {p})
    BY <1>2, <1>3, <1>6, <1>7 DEF Acts
<1>9. Alone(d) /\ UNCHANGED quiet
    BY <1>1, <1>2, <1>5, <1>7 DEF Alone, StateGood
<1>10. ~Invited(c, d)'
    BY <1>3, <1>8, DueAfter, <1>4 DEF Started
<1>11. DashGood(c, P, d)'
    BY <1>1, <1>2, <1>4, <1>5, <1>7, <1>10 DEF DashGood, InACall
<1>12. ~Left(c, d)
    BY <1>2 DEF Left
<1>13. /\ InIt(d) => InIt(d)' /\ dash'[d].group = dash[d].group
       /\ Live(d)' => Live(d) /\ dash'[d].group = dash[d].group
    BY <1>2, <1>4, <1>5 DEF InIt, Live, InACall
<1>14. ~Taken(d) /\ m.kind \notin Leaving
    BY <1>2, <1>7, HeardShrinks DEF Leaving
<1> QED
    BY <1>3, <1>4, <1>8, <1>9, <1>11, <1>12, <1>13, <1>14, CalmAct

\* d leaves: what it says goes to all who show it, or it has quiet.
LEMMA Quitting ==
    ASSUME NEW c \in Device, NEW P \in SUBSET Device, Started(c, P), NEW d \in P,
           NEW m, NEW targets, Acts(c, P, d, m, targets), Alone(d), m.kind \in Leaving,
           UNCHANGED wire => targets = {},
           UNCHANGED heard \/ Invited(c, d),
           ~Left(c, d), targets # {} => Left(c, d)',
           DashGood(c, P, d)', dash'[d].host = dash[d].host, dash'[d].group = dash[d].group,
           \/ quiet' = quiet \cup {d} /\ targets # {}
           \/ UNCHANGED <<quiet, heard>> /\ dash[d].group \subseteq targets,
           Live(d)' => Live(d)
    PROVE  Carried(c, P, d)
<1>1. /\ SignalsGood(c, P) /\ InvitesFirst(c) /\ Leaves(c, P) /\ Dropped(c, P) /\ Kept(c, P)
      /\ \A e \in Device : DashGood(c, P, e)
    BY DEF Started
<1>2. /\ \A x, y \in Device : \A kinds :
            Due(x, y, kinds)' => Due(x, y, kinds) \/ (x = d /\ y \in targets /\ m.kind \in kinds)
      /\ \A x, y \in P :
            /\ LeaveDue(x, y) =>
                 LeaveDue(x, y)' \/ (Taken(d) /\ y = d /\ Head(heard[d]).from = x /\ Head(heard[d]).kind \in Leaving)
            /\ Publishes(d, m, targets) /\ x = d /\ y \in targets /\ m.kind \in Leaving => LeaveDue(x, y)'
            /\ ~(x = d /\ y \in targets /\ m.kind \in Leaving /\ LeaveDue(x, y)) => Once(x, y, Leaving)'
      /\ \A y \in Device :
            /\ Invited(c, y)' => Invited(c, y)
            /\ Invited(c, y) => Invited(c, y)' \/ (Taken(d) /\ y = d /\ Head(heard[d]).kind = "invite")
    BY <1>1, DueAfter
<1>3. Taken(d) => Invited(c, d) /\ Head(heard[d]).kind = "invite"
    BY <1>1, HeardShrinks, InviteIsFirst DEF Taken
<1>4. \A x, y \in P : LeaveDue(x, y) => LeaveDue(x, y)'
    BY <1>2, <1>3 DEF Leaving
<1>5. \A y \in P : ~LeaveDue(d, y)
    BY <1>1 DEF Leaves
<1>6. \A g \in P : Left(c, g) => Left(c, g)'
    BY <1>1, OthersStay
<1>7. \A g, e \in P : LeaveDue(g, e)' => LeaveDue(g, e) \/ (Left(c, g)' /\ ~Left(c, g))
    BY <1>2 DEF LeaveDue
<1>8. \A g, e \in P : Once(g, e, Leaving)'
    BY <1>2, <1>5
<1>9. \A e \in P : (Live(e)' => Live(e)) /\ dash'[e].group = dash[e].group
    <2>1. \A e \in P \ {d} : Live(e)' => Live(e)
        BY <1>1, OthersStay
    <2> QED
        BY <2>1 DEF Alone
<1>10. ASSUME NEW x \in P, NEW e \in P, x # e, Shows(c, x, e)'
       PROVE  /\ Shows(c, x, e)
              /\ Invited(c, e) \/ Answers(x, e) => Invited(c, e)' \/ Answers(x, e)'
    <2>1. Shows(c, x, e)
        BY <1>2, <1>9, <1>10 DEF Shows
    <2>2. CASE e # d
        <3>1. InIt(e)' <=> InIt(e)
            BY <1>1, <2>2, OthersStay
        <3>2. Invited(c, e) => Invited(c, e)'
            BY <1>2, <2>2
        <3>3. Answers(x, e) => Answers(x, e)'
            BY <1>4, <1>9, <3>1 DEF Answers
        <3> QED
            BY <2>1, <3>2, <3>3
    <2>3. CASE e = d /\ quiet' = quiet \cup {d}
        BY <2>1, <2>3 DEF Answers
    <2>4. CASE e = d /\ UNCHANGED <<quiet, heard>> /\ dash[d].group \subseteq targets
        <3>1. Invited(c, d) => Invited(c, d)'
            BY <1>2, <2>4, HeardShrinks
        <3>2. x \in dash[d].group => LeaveDue(d, x)'
            <4> SUFFICES ASSUME x \in dash[d].group PROVE LeaveDue(d, x)'
                OBVIOUS
            <4>1. x \in targets
                BY <2>4
            <4>2. Publishes(d, m, targets)
                BY <4>1 DEF Acts
            <4> QED
                BY <1>2, <4>1, <4>2
        <3>3. Answers(x, d) => Answers(x, d)'
            BY <1>4, <2>4, <3>2 DEF Answers
        <3> QED
            BY <2>1, <2>4, <3>1, <3>3
    <2> QED
        BY <2>1, <2>2, <2>3, <2>4
<1>11. \A g, e \in P : g # e /\ Live(e)' /\ g \notin dash'[e].group => Live(e) /\ g \notin dash[e].group
    BY <1>9
<1>12. Leaves(c, P)' /\ Dropped(c, P)' /\ Kept(c, P)'
    <2>1. \A g \in P : g \in quiet' => g \in quiet \/ Left(c, g)'
        OBVIOUS
    <2> QED
        BY <1>1, <1>6, <1>7, <1>8, <1>10, <1>11, <2>1, StepOfCall
<1>13. Inviting(c) => dash'[c].host \in {c, NoOne}
    BY DEF Alone, Started, Early
<1> QED
    BY <1>12, <1>13, StartedStill

LEMMA DeclineStep ==
    ASSUME NEW c \in Device, NEW P \in SUBSET Device, Started(c, P), NEW d \in Device, Decline(d)
    PROVE  Carried(c, P, d)
<1>1. StateGood /\ DashGood(c, P, d)
    BY DEF Started
<1>2. /\ dash[d].role = "ringing-in" /\ dash[d].doing = "nothing"
      /\ dash' = [dash EXCEPT ![d].doing = "leaving"]
      /\ Post(d, "reject", {dash[d].peer}, NoOne, {})
      /\ quiet' = quiet \cup {d}
      /\ UNCHANGED heard
    BY DEF Decline
<1>3. ~Inviting(c) /\ ~Invited(c, d)
    BY InvitesOver DEF Decline
<1>4. d \in P /\ dash[d].peer \in P \ {d} /\ InACall(d)
    BY <1>1, <1>2, Member DEF DashGood, InACall
<1>5. /\ dash' \in [Device -> Dash]
      /\ \A e \in Device \ {d} : dash'[e] = dash[e]
      /\ dash'[d].role = dash[d].role /\ dash'[d].doing = "leaving" /\ dash'[d].group = dash[d].group
      /\ dash'[d].host = dash[d].host /\ dash'[d].peer = dash[d].peer /\ dash'[d].call = dash[d].call
    BY <1>1, <1>2 DEF StateGood, Dash
<1>6. PICK p \in P \ {d} : p = dash[d].peer
    BY <1>4
<1>7. PICK m \in Signal :
        /\ m.from = d /\ m.kind = "reject" /\ Publishes(d, m, {p})
        /\ sess' \in [Device -> Session]
        /\ \A e \in Device \ {d} : sess'[e] = sess[e]
        /\ ~Rings(d)'
        /\ sess'[d].state = "none" => sess[d].state = "none"
    <2>1. "reject" \in Kind \ {"invite"} /\ {p} \in SUBSET Device /\ {p} # {}
          /\ NoOne \in Device \cup {NoOne} /\ Post(d, "reject", {p}, NoOne, {})
        BY <1>2, <1>6 DEF Kind
    <2>2. /\ sess' \in [Device -> Session]
          /\ \A e \in Device \ {d} : sess'[e] = sess[e]
          /\ Rings(d)' => {p} = {} /\ Rings(d) /\ sess'[d].peer = sess[d].peer
          /\ sess'[d].state = "none" => sess[d].state = "none"
          /\ \E m \in Signal : m.from = d /\ m.kind = "reject" /\ Publishes(d, m, {p})
        BY <1>1, <2>1, Posting DEF StateGood
    <2> QED
        BY <2>1, <2>2
<1>8. Acts(c, P, d, m, {p}) /\ m.kind \in Leaving
    BY <1>2, <1>3, <1>6, <1>7 DEF Acts, Leaving
<1>9. Alone(d)
    BY <1>1, <1>2, <1>5, <1>7 DEF Alone, StateGood
<1>10. ~Invited(c, d)'
    BY <1>3, <1>8, DueAfter, <1>4 DEF Started
<1>11. DashGood(c, P, d)'
    BY <1>1, <1>2, <1>4, <1>5, <1>7, <1>10 DEF DashGood, InACall
<1>12. ~Left(c, d) /\ Left(c, d)'
    BY <1>2, <1>5, <1>7, <1>10 DEF Left
<1>13. ~Live(d)'
    BY <1>2 DEF Live
<1>14. ~(UNCHANGED wire)
    BY <1>4, <1>6, <1>7, WireGrows
<1> QED
    BY <1>2, <1>4, <1>5, <1>8, <1>9, <1>11, <1>12, <1>13, <1>14, Quitting

LEMMA HangUpStep ==
    ASSUME NEW c \in Device, NEW P \in SUBSET Device, Started(c, P), NEW d \in Device, HangUp(d)
    PROVE  Carried(c, P, d)
<1>1. StateGood /\ DashGood(c, P, d)
    BY DEF Started
<1>2. PICK targets : targets = IF dash[d].call THEN Peers(dash[d]) ELSE {}
    OBVIOUS
<1>3. /\ dash[d].role \in {"ringing-in", "ringing-out", "active"} /\ dash[d].doing = "nothing"
      /\ dash' = [dash EXCEPT ![d].doing = "leaving"]
      /\ Post(d, "hangup", targets, NoOne, {})
      /\ UNCHANGED <<quiet, heard>>
      /\ dash[d].role = "ringing-out" => dash[d].call
    BY <1>2 DEF HangUp
<1>4. ~Inviting(c) /\ ~Invited(c, d)
    BY InvitesOver DEF HangUp
<1>5. d \in P /\ InACall(d)
    BY <1>1, <1>3, Member DEF InACall
<1>6. targets \in SUBSET (P \ {d}) /\ dash[d].group \subseteq targets
    BY <1>1, <1>2, <1>3 DEF DashGood, Peers
<1>7. /\ dash' \in [Device -> Dash]
      /\ \A e \in Device \ {d} : dash'[e] = dash[e]
      /\ dash'[d].role = dash[d].role /\ dash'[d].doing = "leaving" /\ dash'[d].group = dash[d].group
      /\ dash'[d].host = dash[d].host /\ dash'[d].peer = dash[d].peer /\ dash'[d].call = dash[d].call
    BY <1>1, <1>3 DEF StateGood, Dash
<1>8. PICK m \in Signal :
        /\ m.from = d /\ m.kind = "hangup" /\ Publishes(d, m, targets)
        /\ sess' \in [Device -> Session]
        /\ \A e \in Device \ {d} : sess'[e] = sess[e]
        /\ Rings(d)' => targets = {} /\ Rings(d) /\ sess'[d].peer = sess[d].peer
        /\ sess'[d].state = "none" => sess[d].state = "none"
    <2>1. "hangup" \in Kind \ {"invite"} /\ targets \in SUBSET Device
          /\ NoOne \in Device \cup {NoOne}
        BY <1>6 DEF Kind
    <2>2. /\ sess' \in [Device -> Session]
          /\ \A e \in Device \ {d} : sess'[e] = sess[e]
          /\ Rings(d)' => targets = {} /\ Rings(d) /\ sess'[d].peer = sess[d].peer
          /\ sess'[d].state = "none" => sess[d].state = "none"
          /\ \E m \in Signal : m.from = d /\ m.kind = "hangup" /\ Publishes(d, m, targets)
        BY <1>1, <1>3, <2>1, Posting DEF StateGood
    <2> QED
        BY <2>2
<1>9. Acts(c, P, d, m, targets) /\ m.kind \in Leaving
    BY <1>3, <1>4, <1>6, <1>8 DEF Acts, Leaving
<1>10. Alone(d)
    BY <1>1, <1>3, <1>7, <1>8 DEF Alone, StateGood
<1>11. ~Invited(c, d)'
    BY <1>4, <1>5, <1>9, DueAfter DEF Started
<1>12. DashGood(c, P, d)'
    BY <1>1, <1>3, <1>5, <1>7, <1>8, <1>11 DEF DashGood, InACall
<1>13. ~Left(c, d)
    BY <1>3 DEF Left
<1>14. targets # {} => Left(c, d)'
    BY <1>7, <1>8, <1>11 DEF Left
<1>15. ~Live(d)'
    BY <1>7 DEF Live, InIt
<1>16. UNCHANGED wire => targets = {}
    BY <1>5, <1>6, <1>8, WireGrows
<1> QED
    BY <1>3, <1>5, <1>6, <1>7, <1>9, <1>10, <1>12, <1>13, <1>14, <1>15, <1>16, Quitting

LEMMA ReplyBusyStep ==
    ASSUME NEW c \in Device, NEW P \in SUBSET Device, Started(c, P), NEW d \in Device, ReplyBusy(d)
    PROVE  Carried(c, P, d)
<1>1. StateGood /\ DashGood(c, P, d)
    BY DEF Started
<1>2. /\ heard[d] # <<>> /\ Dispatched(d).kind = "invite" /\ Taken(d)
      /\ dash[d].role = "elsewhere"
      /\ Post(d, "busy", {Dispatched(d).from}, NoOne, {})
      /\ quiet' = quiet \cup {d}
      /\ UNCHANGED dash
    BY DEF ReplyBusy, Polls, Taken
<1>3. d \in P /\ Dispatched(d).from = c /\ c \in P \ {d} /\ Invited(c, d)
    BY <1>2, Heard DEF Invited
<1>4. PICK m \in Signal :
        /\ m.from = d /\ m.kind = "busy" /\ Publishes(d, m, {c})
        /\ sess' \in [Device -> Session]
        /\ \A e \in Device \ {d} : sess'[e] = sess[e]
        /\ ~Rings(d)'
        /\ sess'[d].state = "none" => sess[d].state = "none"
    <2>1. "busy" \in Kind \ {"invite"} /\ {c} \in SUBSET Device /\ {c} # {}
          /\ NoOne \in Device \cup {NoOne} /\ Post(d, "busy", {c}, NoOne, {})
        BY <1>2, <1>3 DEF Kind
    <2>2. /\ sess' \in [Device -> Session]
          /\ \A e \in Device \ {d} : sess'[e] = sess[e]
          /\ Rings(d)' => {c} = {} /\ Rings(d) /\ sess'[d].peer = sess[d].peer
          /\ sess'[d].state = "none" => sess[d].state = "none"
          /\ \E m \in Signal : m.from = d /\ m.kind = "busy" /\ Publishes(d, m, {c})
        BY <1>1, <2>1, Posting DEF StateGood
    <2> QED
        BY <2>1, <2>2
<1>5. Acts(c, P, d, m, {c}) /\ m.kind \in Leaving
    BY <1>2, <1>3, <1>4 DEF Acts, Leaving
<1>6. Alone(d)
    BY <1>1, <1>2, <1>3, <1>4 DEF Alone, StateGood
<1>7. ~Invited(c, d)'
    BY <1>2, <1>3, <1>5, DueAfter DEF Started
<1>8. DashGood(c, P, d)'
    BY <1>1, <1>2, <1>3, <1>4, <1>7 DEF DashGood, InACall
<1>9. ~Left(c, d) /\ Left(c, d)'
    BY <1>2, <1>3, <1>7 DEF Left
<1>10. ~Live(d)'
    BY <1>2 DEF Live, InIt, InACall
<1>11. ~(UNCHANGED wire)
    BY <1>3, <1>4, WireGrows
<1> QED
    BY <1>2, <1>3, <1>5, <1>6, <1>8, <1>9, <1>10, <1>11, Quitting

LEMMA HearInviteStep ==
    ASSUME NEW c \in Device, NEW P \in SUBSET Device, Started(c, P), NEW d \in Device, HearInvite(d)
    PROVE  Carried(c, P, d)
<1>1. /\ StateGood /\ SignalsGood(c, P) /\ InvitesFirst(c) /\ Leaves(c, P) /\ Dropped(c, P) /\ Kept(c, P)
      /\ Early(c) /\ \A e \in Device : DashGood(c, P, e)
    BY DEF Started
<1>2. /\ heard[d] # <<>> /\ Dispatched(d).kind = "invite" /\ Taken(d)
      /\ dash[d].role # "elsewhere"
      /\ dash' = [dash EXCEPT ![d] = [Bound(d) EXCEPT !.role = "ringing-in",
                    !.host = Dispatched(d).host, !.group = Others(d, Dispatched(d).people)]]
      /\ UNCHANGED <<sess, quiet, wire>>
    BY DEF HearInvite, Polls, Taken
<1>3. /\ d \in P /\ Dispatched(d).from = c /\ c \in P \ {d} /\ Invited(c, d)
      /\ Dispatched(d).people = P /\ Dispatched(d).host \in Device \cup {NoOne}
    BY <1>2, Heard DEF Invited
<1>4. /\ Bound(d) \in Dash /\ Bound(d).call
      /\ Bound(d).peer \in P \ {d} /\ Bound(d).peer # NoOne /\ Bound(d).doing = "nothing"
    BY <1>1, <1>2, <1>3, Binding DEF DashGood
<1>5. /\ dash' \in [Device -> Dash]
      /\ \A e \in Device \ {d} : dash'[e] = dash[e]
      /\ dash'[d].role = "ringing-in" /\ dash'[d].doing = "nothing" /\ dash'[d].group = P \ {d}
      /\ dash'[d].peer \in P \ {d} /\ dash'[d].peer # NoOne /\ dash'[d].call
    <2> DEFINE v == [Bound(d) EXCEPT !.role = "ringing-in",
                       !.host = Dispatched(d).host, !.group = P \ {d}]
    <2>1. /\ v \in Dash /\ v.role = "ringing-in" /\ v.doing = "nothing" /\ v.group = P \ {d}
          /\ v.peer = Bound(d).peer /\ v.call = Bound(d).call
        BY <1>3, <1>4 DEF Dash, Role
    <2>2. dash' = [dash EXCEPT ![d] = v]
        BY <1>2, <1>3 DEF Others
    <2> HIDE DEF v
    <2> QED
        BY <1>1, <1>4, <2>1, <2>2 DEF StateGood
<1> DEFINE m == [kind |-> "accept", from |-> d, host |-> NoOne, people |-> {}]
<1>6. m \in Signal /\ m.from = d /\ m.kind = "accept"
    BY DEF Signal, Kind
<1> HIDE DEF m
<1>7. Acts(c, P, d, m, {}) /\ Alone(d)
    BY <1>1, <1>2, <1>5, <1>6 DEF Acts, Alone, StateGood
<1>8. /\ \A x, y \in Device : \A kinds :
            Due(x, y, kinds)' => Due(x, y, kinds) \/ (x = d /\ y \in {} /\ m.kind \in kinds)
      /\ \A x, y \in P :
            /\ LeaveDue(x, y) =>
                 LeaveDue(x, y)' \/ (Taken(d) /\ y = d /\ Head(heard[d]).from = x /\ Head(heard[d]).kind \in Leaving)
            /\ ~(x = d /\ y \in {} /\ m.kind \in Leaving /\ LeaveDue(x, y)) => Once(x, y, Leaving)'
      /\ \A y \in Device :
            /\ Invited(c, y)' => Invited(c, y)
            /\ Invited(c, y) => Invited(c, y)' \/ (Taken(d) /\ y = d /\ Head(heard[d]).kind = "invite")
      /\ ~Invited(c, d)'
    BY <1>1, <1>2, <1>3, <1>7, DueAfter
<1>9. \A g, e \in P : (LeaveDue(g, e)' => LeaveDue(g, e)) /\ Once(g, e, Leaving)'
    BY <1>8 DEF LeaveDue
<1>10. \A g, e \in P : LeaveDue(g, e) => LeaveDue(g, e)'
    BY <1>2, <1>8 DEF Leaving, Dispatched
<1>11. \A g \in P : Left(c, g) => Left(c, g)'
    <2>1. ~Left(c, d)
        BY <1>3 DEF Left
    <2> QED
        BY <1>1, <1>3, <1>7, <2>1, OthersStay
<1>12. \A e \in Device \ {d} : (Live(e)' => Live(e)) /\ (InIt(e)' <=> InIt(e)) /\ dash'[e].group = dash[e].group
    BY <1>1, <1>2, <1>3, <1>5, <1>7, OthersStay
<1>13. \A g, e \in P : g # e /\ Live(e)' /\ g \notin dash'[e].group => Live(e) /\ g \notin dash[e].group
    BY <1>5, <1>12
<1>14. ASSUME NEW x \in P, NEW e \in P, x # e, Shows(c, x, e)'
       PROVE  /\ Shows(c, x, e)
              /\ Invited(c, e) \/ Answers(x, e) => Invited(c, e)' \/ Answers(x, e)'
    <2>1. Shows(c, x, e)
        BY <1>3, <1>8, <1>12, <1>14 DEF Shows
    <2>2. CASE e = d
        <3>1. InIt(d)' /\ x \in dash'[d].group
            BY <1>5, <1>14, <2>2 DEF InIt, InACall
        <3> QED
            BY <2>1, <2>2, <3>1 DEF Answers
    <2>3. CASE e # d
        <3>1. Invited(c, e) => Invited(c, e)'
            BY <1>8, <2>3
        <3>2. Answers(x, e) => Answers(x, e)'
            BY <1>2, <1>10, <1>12, <2>3 DEF Answers
        <3> QED
            BY <2>1, <3>1, <3>2
    <2> QED
        BY <2>2, <2>3
<1>15. Leaves(c, P)' /\ Dropped(c, P)' /\ Kept(c, P)'
    BY <1>1, <1>2, <1>9, <1>11, <1>13, <1>14, StepOfCall
<1>16. DashGood(c, P, d)'
    BY <1>1, <1>2, <1>3, <1>5, <1>8 DEF DashGood, InACall, Rings
<1>17. Inviting(c) => dash'[c].host \in {c, NoOne}
    BY <1>1, <1>3, <1>5 DEF Early
<1> QED
    BY <1>3, <1>6, <1>7, <1>11, <1>15, <1>16, <1>17, StartedStill DEF Leaving

LEMMA PairSize == ASSUME NEW x, NEW y, x # y PROVE IsFiniteSet({x, y}) /\ Cardinality({x, y}) = 2
<1>1. IsFiniteSet({x}) /\ Cardinality({x}) = 1
    BY FS_Singleton
<1>2. y \notin {x} /\ {x, y} = {x} \cup {y}
    OBVIOUS
<1>3. IsFiniteSet({x} \cup {y}) /\ Cardinality({x} \cup {y}) = 1 + 1
    BY <1>1, <1>2, FS_AddElement
<1> QED
    BY <1>2, <1>3

\* A leave that is due came from one who left.
LEMMA LeaverLeft ==
    ASSUME NEW c \in Device, NEW P \in SUBSET Device, Started(c, P), NEW d \in Device,
           heard[d] # <<>>, Dispatched(d).kind \in Leaving
    PROVE  /\ Dispatched(d).from \in P \ {d} /\ LeaveDue(Dispatched(d).from, d) /\ Left(c, Dispatched(d).from)
           /\ \A e : ~Shows(c, Dispatched(d).from, e)
<1>1. d \in P /\ Dispatched(d).from \in P \ {d} /\ LeaveDue(Dispatched(d).from, d)
    BY Heard DEF LeaveDue
<1>2. Left(c, Dispatched(d).from)
    BY <1>1 DEF Started, Leaves
<1> QED
    BY <1>1, <1>2 DEF Left, Shows, Live, InIt, InACall

LEMMA HearLastLeaveStep ==
    ASSUME NEW c \in Device, NEW P \in SUBSET Device, Started(c, P), NEW d \in Device, HearLastLeave(d)
    PROVE  Carried(c, P, d)
<1>1. /\ StateGood /\ SignalsGood(c, P) /\ InvitesFirst(c) /\ Leaves(c, P) /\ Dropped(c, P) /\ Kept(c, P)
      /\ Early(c) /\ \A e \in Device : DashGood(c, P, e)
    BY DEF Started
<1>2. /\ heard[d] # <<>> /\ Dispatched(d).kind \in Leaving /\ Taken(d) /\ InACall(d)
      /\ ~ (Cardinality(dash[d].group) > 1 /\ Dispatched(d).from \in dash[d].group)
      /\ dash' = [dash EXCEPT ![d] = TornDown(@)]
      /\ UNCHANGED <<sess, quiet, wire>>
    BY DEF HearLastLeave, Polls, Taken
<1>3. PICK gone \in P \ {d} : /\ gone = Dispatched(d).from /\ LeaveDue(gone, d) /\ Left(c, gone)
                              /\ \A e : ~Shows(c, gone, e)
    BY <1>2, LeaverLeft
<1>4. d \in P /\ ~Invited(c, d)
    BY <1>1, <1>2, Member, InviteIsFirst DEF Leaving, Dispatched
<1>5. /\ dash' \in [Device -> Dash]
      /\ \A e \in Device \ {d} : dash'[e] = dash[e]
      /\ dash'[d].role = "idle" /\ dash'[d].doing = dash[d].doing /\ dash'[d].group = {}
      /\ dash'[d].host = NoOne /\ dash'[d].peer = NoOne
    BY <1>1, <1>2 DEF StateGood, Dash, TornDown, NoDash, Role
<1> DEFINE m == [kind |-> "accept", from |-> d, host |-> NoOne, people |-> {}]
<1>6. m \in Signal /\ m.from = d /\ m.kind = "accept"
    BY DEF Signal, Kind
<1> HIDE DEF m
<1>7. Acts(c, P, d, m, {}) /\ Alone(d)
    BY <1>1, <1>2, <1>5, <1>6 DEF Acts, Alone, StateGood
<1>8. /\ \A x, y \in Device : \A kinds :
            Due(x, y, kinds)' => Due(x, y, kinds) \/ (x = d /\ y \in {} /\ m.kind \in kinds)
      /\ \A x, y \in P :
            /\ LeaveDue(x, y) =>
                 LeaveDue(x, y)' \/ (Taken(d) /\ y = d /\ Head(heard[d]).from = x /\ Head(heard[d]).kind \in Leaving)
            /\ ~(x = d /\ y \in {} /\ m.kind \in Leaving /\ LeaveDue(x, y)) => Once(x, y, Leaving)'
      /\ \A y \in Device :
            /\ Invited(c, y)' => Invited(c, y)
            /\ Invited(c, y) => Invited(c, y)' \/ (Taken(d) /\ y = d /\ Head(heard[d]).kind = "invite")
    BY <1>1, <1>4, <1>7, DueAfter
<1>9. \A g, e \in P : (LeaveDue(g, e)' => LeaveDue(g, e)) /\ Once(g, e, Leaving)'
    BY <1>8 DEF LeaveDue
<1>10. \A e \in Device : Invited(c, e)' <=> Invited(c, e)
    BY <1>4, <1>8
<1>11. \A e \in Device \ {d} : (Live(e)' => Live(e)) /\ (InIt(e)' <=> InIt(e)) /\ dash'[e].group = dash[e].group
    BY <1>1, <1>2, <1>4, <1>5, <1>7, OthersStay
<1>12. ~Live(d)' /\ Left(c, d) => Left(c, d)'
    BY <1>2, <1>4, <1>5, <1>10 DEF Live, Left, Rings, InACall
<1>13. ~Live(d)'
    BY <1>5 DEF Live
<1>14. \A g \in P : Left(c, g) => Left(c, g)'
    BY <1>1, <1>4, <1>7, <1>12, <1>13, OthersStay
<1>15. \A g, e \in P : g # e /\ Live(e)' /\ g \notin dash'[e].group => Live(e) /\ g \notin dash[e].group
    BY <1>11, <1>13
<1>16. ASSUME NEW x \in P, x # d, Shows(c, x, d), Answers(x, d) PROVE Answers(x, d)'
    <2>1. x # gone
        BY <1>3, <1>16
    <2>2. LeaveDue(d, x) => LeaveDue(d, x)'
        BY <1>4, <1>8, <1>16
    <2>3. CASE InIt(d) /\ x \in dash[d].group /\ d \notin quiet
        <3>1. Live(d)
            BY <2>3 DEF Live
        <3>2. gone \in dash[d].group
            BY <1>1, <1>3, <1>4, <3>1 DEF Dropped
        <3>3. IsFiniteSet(dash[d].group) /\ {x, gone} \subseteq dash[d].group
            BY <1>1, <2>3, <3>2, FS_Subset, DeviceAssumption DEF DashGood
        <3>4. Cardinality({x, gone}) = 2 /\ Cardinality({x, gone}) <= Cardinality(dash[d].group)
              /\ Cardinality(dash[d].group) \in Nat
            BY <2>1, <3>3, FS_Subset, FS_CardinalityType, PairSize
        <3> QED
            BY <1>2, <1>3, <3>2, <3>4
    <2> QED
        BY <1>2, <1>16, <2>2, <2>3 DEF Answers
<1>17. ASSUME NEW x \in P, NEW e \in P, x # e, Shows(c, x, e)'
       PROVE  /\ Shows(c, x, e)
              /\ Invited(c, e) \/ Answers(x, e) => Invited(c, e)' \/ Answers(x, e)'
    <2>1. x # d /\ Shows(c, x, e)
        BY <1>4, <1>10, <1>11, <1>13, <1>17 DEF Shows
    <2>2. CASE e = d
        BY <1>10, <1>16, <2>1, <2>2
    <2>3. CASE e # d
        <3>1. Answers(x, e) => Answers(x, e)'
            BY <1>2, <1>8, <1>11, <2>1, <2>3 DEF Answers
        <3> QED
            BY <1>10, <2>1, <3>1
    <2> QED
        BY <2>2, <2>3
<1>18. Leaves(c, P)' /\ Dropped(c, P)' /\ Kept(c, P)'
    BY <1>1, <1>2, <1>9, <1>14, <1>15, <1>17, StepOfCall
<1>19. DashGood(c, P, d)'
    BY <1>1, <1>2, <1>4, <1>5, <1>10 DEF DashGood, InACall, Rings
<1>20. Inviting(c) => dash'[c].host \in {c, NoOne}
    BY <1>1, <1>5 DEF Early
<1> QED
    BY <1>4, <1>6, <1>7, <1>14, <1>18, <1>19, <1>20, StartedStill DEF Leaving

LEMMA HearOneLeaveStep ==
    ASSUME NEW c \in Device, NEW P \in SUBSET Device, Started(c, P), NEW d \in Device, HearOneLeave(d)
    PROVE  Carried(c, P, d)
<1>1. /\ StateGood /\ SignalsGood(c, P) /\ InvitesFirst(c) /\ Leaves(c, P) /\ Dropped(c, P) /\ Kept(c, P)
      /\ Early(c) /\ \A e \in Device : DashGood(c, P, e)
    BY DEF Started
<1>2. heard[d] # <<>> /\ Dispatched(d).kind \in Leaving /\ Taken(d) /\ InACall(d)
    BY DEF HearOneLeave, Polls, Taken
<1>3. PICK gone \in P \ {d} : /\ gone = Dispatched(d).from /\ LeaveDue(gone, d) /\ Left(c, gone)
                              /\ \A e : ~Shows(c, gone, e)
    BY <1>2, LeaverLeft
<1>4. d \in P /\ ~Invited(c, d)
    BY <1>1, <1>2, Member, InviteIsFirst DEF Leaving, Dispatched
<1>5. PICK left \in SUBSET (P \ {d}) : left = dash[d].group \ {gone}
    BY <1>1 DEF DashGood
<1>6. PICK next : next = IF dash[d].host = gone THEN Promoted(d, left) ELSE dash[d].host
    OBVIOUS
<1>7. PICK peer \in IF Bound(d).peer = gone THEN left ELSE {Bound(d).peer} :
        /\ gone \in dash[d].group
        /\ dash' = [dash EXCEPT ![d] = [Bound(d) EXCEPT !.group = left, !.host = next, !.peer = peer]]
        /\ IF dash[d].host = gone /\ next = d /\ AllowHostClaim(sess[d], d)
             THEN Post(d, "host", left, d, {})
             ELSE UNCHANGED <<sess, wire>>
        /\ UNCHANGED quiet
    BY <1>3, <1>5, <1>6 DEF HearOneLeave
<1>8. next \in Device \cup {NoOne}
    <2>1. Promoted(d, left) \in Device
        BY LowestOne DEF Promoted
    <2> QED
        BY <1>1, <1>6, <2>1 DEF StateGood, Dash
<1>9. /\ Bound(d) \in Dash /\ Bound(d).call
      /\ Bound(d).peer \in P \ {d} /\ Bound(d).peer # NoOne
      /\ Bound(d).role = dash[d].role /\ Bound(d).doing = dash[d].doing
    BY <1>2, Binding
<1>10. peer \in P \ {d} /\ peer # NoOne
    BY <1>5, <1>7, <1>9, DeviceAssumption DEF NoOne
<1>11. /\ dash' \in [Device -> Dash]
       /\ \A e \in Device \ {d} : dash'[e] = dash[e]
       /\ dash'[d].role = dash[d].role /\ dash'[d].doing = dash[d].doing /\ dash'[d].group = left
       /\ dash'[d].host = next /\ dash'[d].peer = peer /\ dash'[d].call
    <2> DEFINE v == [Bound(d) EXCEPT !.group = left, !.host = next, !.peer = peer]
    <2>1. /\ v \in Dash /\ v.role = dash[d].role /\ v.doing = dash[d].doing /\ v.group = left
          /\ v.host = next /\ v.peer = peer /\ v.call = Bound(d).call
        BY <1>5, <1>8, <1>9, <1>10 DEF Dash
    <2>2. dash' = [dash EXCEPT ![d] = v]
        BY <1>7
    <2> HIDE DEF v
    <2> QED
        BY <1>1, <1>9, <2>1, <2>2 DEF StateGood
\* While c still invites, only c can hear of a leave, and c hosts.
<1>12. Inviting(c) => d = c /\ dash[d].host # gone /\ dash[c].host \in {c, NoOne}
    <2> SUFFICES ASSUME Inviting(c) PROVE d = c /\ dash[d].host # gone /\ dash[c].host \in {c, NoOne}
        OBVIOUS
    <2>1. Due(gone, d, Kind \ {"invite"})
        BY <1>2, <1>3, Heard DEF Leaving, Kind
    <2>2. d = c /\ dash[c].host \in {c, NoOne}
        BY <1>1, <2>1 DEF Early
    <2> QED
        BY <1>3, <2>2, DeviceAssumption DEF NoOne
<1>13. \E m \in Signal, targets \in SUBSET (P \ {d}) :
         /\ m.kind = "host" \/ m.kind = "accept"
         /\ Acts(c, P, d, m, targets)
         /\ sess' \in [Device -> Session]
         /\ \A e \in Device \ {d} : sess'[e] = sess[e]
         /\ Rings(d)' => Rings(d) /\ sess'[d].peer = sess[d].peer
         /\ sess'[d].state = "none" => sess[d].state = "none"
    <2>1. CASE dash[d].host = gone /\ next = d /\ AllowHostClaim(sess[d], d)
        <3>1. Post(d, "host", left, d, {}) /\ ~Inviting(c)
            BY <1>7, <1>12, <2>1
        <3>2. "host" \in Kind \ {"invite"} /\ left \in SUBSET Device /\ d \in Device \cup {NoOne}
            BY DEF Kind
        <3>3. /\ sess' \in [Device -> Session]
              /\ \A e \in Device \ {d} : sess'[e] = sess[e]
              /\ Rings(d)' => left = {} /\ Rings(d) /\ sess'[d].peer = sess[d].peer
              /\ sess'[d].state = "none" => sess[d].state = "none"
              /\ \E m \in Signal : m.from = d /\ m.kind = "host" /\ m.host = d /\ Publishes(d, m, left)
            BY <1>1, <3>1, <3>2, Posting DEF StateGood
        <3>4. PICK m \in Signal : m.from = d /\ m.kind = "host" /\ m.host = d /\ Publishes(d, m, left)
            BY <3>3
        <3>5. \A y \in left : Claiming(d, y)
            BY <1>2, <1>3, <1>5, <1>6, <1>7, <2>1 DEF Claiming, Promoted
        <3>6. Acts(c, P, d, m, left)
            BY <1>2, <3>1, <3>4, <3>5 DEF Acts
        <3> QED
            BY <3>3, <3>4, <3>6
    <2>2. CASE ~(dash[d].host = gone /\ next = d /\ AllowHostClaim(sess[d], d))
        <3>1. UNCHANGED <<sess, wire>>
            BY <1>7, <2>2
        <3> DEFINE m == [kind |-> "accept", from |-> d, host |-> NoOne, people |-> {}]
        <3>2. m \in Signal /\ m.from = d /\ m.kind = "accept"
            BY DEF Signal, Kind
        <3> HIDE DEF m
        <3>3. Acts(c, P, d, m, {})
            BY <1>2, <3>1, <3>2 DEF Acts
        <3> QED
            BY <1>1, <3>1, <3>2, <3>3 DEF StateGood, Rings
    <2> QED
        BY <2>1, <2>2
<1>14. PICK m \in Signal, targets \in SUBSET (P \ {d}) :
         /\ m.kind = "host" \/ m.kind = "accept"
         /\ Acts(c, P, d, m, targets)
         /\ sess' \in [Device -> Session]
         /\ \A e \in Device \ {d} : sess'[e] = sess[e]
         /\ Rings(d)' => Rings(d) /\ sess'[d].peer = sess[d].peer
         /\ sess'[d].state = "none" => sess[d].state = "none"
    BY <1>13
<1>15. Acts(c, P, d, m, targets) /\ Alone(d) /\ m.kind \notin Leaving /\ quiet' = quiet
    BY <1>1, <1>7, <1>11, <1>14 DEF Alone, StateGood, Leaving
<1>16. /\ \A x, y \in Device : \A kinds :
            Due(x, y, kinds)' => Due(x, y, kinds) \/ (x = d /\ y \in targets /\ m.kind \in kinds)
       /\ \A x, y \in P :
            /\ LeaveDue(x, y) =>
                 LeaveDue(x, y)' \/ (Taken(d) /\ y = d /\ Head(heard[d]).from = x /\ Head(heard[d]).kind \in Leaving)
            /\ Taken(d) /\ Head(heard[d]).from = x /\ Head(heard[d]).kind \in Leaving => ~LeaveDue(x, d)'
            /\ ~(x = d /\ y \in targets /\ m.kind \in Leaving /\ LeaveDue(x, y)) => Once(x, y, Leaving)'
       /\ \A y \in Device :
            /\ Invited(c, y)' => Invited(c, y)
            /\ Invited(c, y) => Invited(c, y)' \/ (Taken(d) /\ y = d /\ Head(heard[d]).kind = "invite")
    BY <1>1, <1>4, <1>15, DueAfter
<1>17. \A g, e \in P : (LeaveDue(g, e)' => LeaveDue(g, e)) /\ Once(g, e, Leaving)'
    BY <1>15, <1>16 DEF LeaveDue
<1>18. \A e \in Device : Invited(c, e)' <=> Invited(c, e)
    BY <1>4, <1>16
<1>19. ~LeaveDue(gone, d)'
    BY <1>2, <1>3, <1>16 DEF Dispatched
<1>20. \A x, e \in P : LeaveDue(e, x) => LeaveDue(e, x)' \/ (x = d /\ e = gone)
    BY <1>3, <1>16 DEF Dispatched
<1>21. \A e \in Device \ {d} : (Live(e)' => Live(e)) /\ (InIt(e)' <=> InIt(e)) /\ dash'[e].group = dash[e].group
    BY <1>1, <1>4, <1>11, <1>15, OthersStay
<1>22. /\ InIt(d)' <=> InIt(d)
       /\ Live(d)' => Live(d)
    BY <1>1, <1>5, <1>7, <1>11 DEF Live, InIt, InACall
<1>23. Left(c, d) => Left(c, d)'
    BY <1>2, <1>11, <1>14, <1>18 DEF Left, InACall
<1>24. \A g \in P : Left(c, g) => Left(c, g)'
    BY <1>1, <1>4, <1>15, <1>23, OthersStay
<1>25. \A g, e \in P : g # e /\ Live(e)' /\ g \notin dash'[e].group =>
          \/ Live(e) /\ g \notin dash[e].group
          \/ Left(c, g)' /\ ~LeaveDue(g, e)'
    <2> SUFFICES ASSUME NEW g \in P, NEW e \in P, g # e, Live(e)', g \notin dash'[e].group
                 PROVE  \/ Live(e) /\ g \notin dash[e].group
                        \/ Left(c, g)' /\ ~LeaveDue(g, e)'
        OBVIOUS
    <2>1. CASE e # d
        BY <1>21, <2>1
    <2>2. CASE e = d /\ g = gone
        BY <1>3, <1>19, <1>24, <2>2
    <2>3. CASE e = d /\ g # gone
        BY <1>5, <1>11, <1>22, <2>3
    <2> QED
        BY <2>1, <2>2, <2>3
<1>26. ASSUME NEW x \in P, NEW e \in P, x # e, Shows(c, x, e)'
       PROVE  /\ Shows(c, x, e)
              /\ Invited(c, e) \/ Answers(x, e) => Invited(c, e)' \/ Answers(x, e)'
    <2>1. Shows(c, x, e) /\ ~(x = d /\ e = gone)
        BY <1>4, <1>5, <1>11, <1>18, <1>21, <1>22, <1>26 DEF Shows
    <2>2. x # gone
        BY <1>3, <2>1
    <2>3. Answers(x, e) => Answers(x, e)'
        BY <1>5, <1>7, <1>11, <1>20, <1>21, <1>22, <2>1, <2>2 DEF Answers
    <2> QED
        BY <1>18, <2>1, <2>3
<1>27. Leaves(c, P)' /\ Dropped(c, P)' /\ Kept(c, P)'
    BY <1>1, <1>7, <1>17, <1>24, <1>25, <1>26, StepOfCall
<1>28. DashGood(c, P, d)'
    BY <1>1, <1>2, <1>4, <1>10, <1>11, <1>14, <1>18 DEF DashGood, InACall
<1>29. Inviting(c) => dash'[c].host \in {c, NoOne}
    BY <1>6, <1>11, <1>12
<1> QED
    BY <1>4, <1>15, <1>23, <1>27, <1>28, <1>29, StartedStill

LEMMA DeliverStep ==
    ASSUME NEW c \in Device, NEW P \in SUBSET Device, Started(c, P),
           NEW s \in Device, NEW d \in Device, Deliver(s, d)
    PROVE  Started(c, P)' /\ \A g \in P : Left(c, g) => Left(c, g)'
<1>1. /\ c \in P /\ sess[c].state # "none"
      /\ StateGood /\ SignalsGood(c, P) /\ InvitesFirst(c) /\ Leaves(c, P) /\ Dropped(c, P) /\ Kept(c, P)
      /\ Early(c) /\ \A e \in Device : DashGood(c, P, e)
    BY DEF Started
<1>2. /\ Delivered(s, d) /\ UNCHANGED <<dash, quiet>>
      /\ sess' = [sess EXCEPT ![d] = Received(@, Head(wire[s][d]))]
    BY DEF Deliver, Delivered
<1>3. /\ SignalsGood(c, P)' /\ InvitesFirst(c)'
      /\ Inviting(c)' => Inviting(c)
      /\ s \in P /\ d \in P /\ s # d /\ Head(wire[s][d]) \in Said(c, P, s, d)
      /\ OnWire(s, d, {Head(wire[s][d]).kind})
      /\ \A x, y \in Device : \A kinds :
            /\ Due(x, y, kinds)' <=> Due(x, y, kinds)
            /\ Once(x, y, kinds) => Once(x, y, kinds)'
    BY <1>1, <1>2, Delivery
<1>4. PICK m \in Signal : m = Head(wire[s][d]) /\ m.from = s /\ (m.kind = "invite" => s = c)
    BY <1>3 DEF Said, Word
<1>5. \A e \in Device : Invited(c, e)' <=> Invited(c, e)
    BY <1>3 DEF Invited
<1>6. \A x, y \in Device : LeaveDue(x, y)' <=> LeaveDue(x, y)
    BY <1>3 DEF LeaveDue
<1>7. m.kind = "invite" => Invited(c, d)
    BY <1>3, <1>4 DEF Invited, Due
<1>8. /\ sess' \in [Device -> Session]
      /\ \A e \in Device \ {d} : sess'[e] = sess[e]
      /\ sess'[d].state = "none" => sess[d].state = "none"
      /\ m.kind = "invite" => sess'[d].peer = s
      /\ m.kind # "invite" /\ Rings(d)' => Rings(d) /\ sess'[d].peer = sess[d].peer
    <2>1. sess[d] \in Session /\ sess \in [Device -> Session]
        BY <1>1 DEF StateGood
    <2>2. sess' = [sess EXCEPT ![d] = Received(sess[d], m)]
        BY <1>2, <1>4
    <2>3. /\ Received(sess[d], m) \in Session
          /\ Received(sess[d], m).state = "none" => sess[d].state = "none"
          /\ m.kind = "invite" => Received(sess[d], m).peer = s
          /\ m.kind # "invite" /\ Received(sess[d], m).state = "ringing" /\ Received(sess[d], m).inbound
             => sess[d].state = "ringing" /\ sess[d].inbound /\ Received(sess[d], m).peer = sess[d].peer
        BY <1>4, <2>1, SessionAfterHearing
    <2>4. sess'[d] = Received(sess[d], m)
        BY <2>1, <2>2
    <2>5. sess' \in [Device -> Session] /\ \A e \in Device \ {d} : sess'[e] = sess[e]
        BY <2>1, <2>2, <2>3
    <2> QED
        BY <2>3, <2>4, <2>5 DEF Rings
<1>9. \A e \in Device : DashGood(c, P, e)'
    <2>1. DashGood(c, P, d)'
        BY <1>1, <1>2, <1>3, <1>5, <1>8 DEF DashGood, InACall
    <2>2. \A e \in Device \ {d} : DashGood(c, P, e)'
        BY <1>1, <1>2, <1>5, <1>8, DashAsBefore
    <2> QED
        BY <2>1, <2>2
<1>10. \A e \in P : Left(c, e) => Left(c, e)'
    <2>1. Left(c, d) => Left(c, d)'
        BY <1>2, <1>5, <1>7, <1>8 DEF Left
    <2>2. \A e \in P \ {d} : Left(c, e) => Left(c, e)'
        BY <1>2, <1>5, <1>8 DEF Left, Rings
    <2> QED
        BY <2>1, <2>2
<1>11. \A e \in P : /\ InIt(e)' <=> InIt(e)
                    /\ Live(e)' <=> Live(e)
                    /\ dash'[e].group = dash[e].group
    BY <1>2 DEF InIt, Live, InACall
<1>12. \A g, e \in P : Once(g, e, Leaving)'
    BY <1>1, <1>3 DEF Leaves
<1>13. Leaves(c, P)' /\ Dropped(c, P)' /\ Kept(c, P)'
    BY <1>1, <1>2, <1>5, <1>6, <1>10, <1>11, <1>12, CalmStep
<1>14. Early(c)'
    BY <1>1, <1>2, <1>3 DEF Early
<1>15. StateGood' /\ sess'[c].state # "none"
    BY <1>1, <1>2, <1>8 DEF StateGood
<1> QED
    BY <1>1, <1>3, <1>9, <1>10, <1>13, <1>14, <1>15 DEF Started

-----------------------------------------------------------------------------
(* What the devices make of the call, each by itself, fits together.        *)

Unasked(c, d) == OnWire(c, d, {"invite"})
Asked(c, d) == InEar(c, d, {"invite"})

\* Of three, the one who hosts when the caller has left.
Heir(c, P) == Lowest(P \ {c})

\* No device has heard that the caller left: it has not, or it told nobody.
Hosts(c) == InIt(c) \/ c \in quiet

\* The caller is no callee of its own call; of three, it has for host another
\* than itself only when the third has left.
CallerGood(c, P) ==
  /\ ~sess[c].inbound
  /\ dash[c].role # "ringing-in" /\ dash[c].doing # "joining"
  /\ c \in quiet => \A y \in P : ~LeaveDue(c, y)
  /\ InIt(c) => dash[c].group # {}
  /\ Cardinality(P) <= 3 /\ InACall(c) =>
       dash[c].host = c \/ \A y \in P \ {c, dash[c].host} : Left(c, y)

CoreGood(c, P, d) ==
  Unasked(c, d) \/ /\ d # c => sess[d].inbound
                   /\ sess[d].state # "none"
                   /\ d \in sess[d].people /\ sess[d].people \subseteq P
                   /\ Hosts(c) => sess[d].host = c

\* The Core is ahead of its dashboard by the events not polled.
RosterGood(c, P, d) ==
  /\ \A e \in P \ {d} :
       e \in dash[d].group \/ Asked(c, d) => e \in sess[d].people \/ InEar(e, d, Leaving)
  /\ dash[d].role = "active" \/ dash[d].doing = "joining" \/ (\E e \in P : InEar(e, d, {"accept"})) =>
       sess[d].state \in {"active", "ended"}
  /\ (dash[d].group # {} /\ dash[d].doing # "leaving") \/ Asked(c, d) =>
       (sess[d].state = "ended" => sess[d].people \subseteq {d})
  /\ Invited(c, d) => dash[d].role # "active" /\ dash[d].group = {}

HostGood(c, d) == Hosts(c) => dash[d].group = {} \/ dash[d].host = c

\* With e the third: the caller hosts, or has left and the heir does.
TrioGood(c, P, d) == \A e \in P :
  P = {c, d, e} /\ d # c /\ e # c /\ d # e /\ ~Left(c, d) =>
    /\ e \in dash[d].group =>
         /\ dash[d].host \in {c, Heir(c, P)}
         /\ c \notin dash[d].group => dash[d].host = Heir(c, P)
    /\ (e \in dash[d].group \/ Asked(c, d)) /\ ~InEar(e, d, Leaving) =>
         /\ sess[d].host \in {c, Heir(c, P)}
         /\ InEar(c, d, Leaving) \/ (~Asked(c, d) /\ c \notin dash[d].group) => sess[d].host = Heir(c, P)

Meets(c, P, d) == CoreGood(c, P, d) /\ RosterGood(c, P, d) /\ HostGood(c, d) /\ TrioGood(c, P, d)

\* Nobody claims to host until the caller's leave is heard, and of three only the
\* heir does, or the one the caller is left with.
Claims(c, P) ==
  /\ Hosts(c) => \A s, d \in P : ~Due(s, d, {"host"})
  /\ Cardinality(P) <= 3 => \A s, d \in P : Due(s, d, {"host"}) =>
       /\ d = c => \A y \in P \ {c, s} : Left(c, y)
       /\ d # c => s = Heir(c, P) \/ Left(c, d)

Meeting(c, P) == CallerGood(c, P) /\ Claims(c, P) /\ \A d \in P : Meets(c, P, d)

\* Nothing of e changes.
Same(c, P, e) ==
  /\ sess'[e] = sess[e] /\ dash'[e] = dash[e]
  /\ \A x \in P : \A kinds : InEar(x, e, kinds)' <=> InEar(x, e, kinds)
  /\ Unasked(c, e)' <=> Unasked(c, e)

LEMMA SameMeets ==
    ASSUME NEW c, NEW P, c \in P, NEW e, Meets(c, P, e), Same(c, P, e),
           Hosts(c)' => Hosts(c), Left(c, e) => Left(c, e)'
    PROVE  Meets(c, P, e)'
<1>1. /\ sess'[e] = sess[e] /\ dash'[e] = dash[e]
      /\ \A x \in P : \A kinds : InEar(x, e, kinds)' <=> InEar(x, e, kinds)
      /\ Unasked(c, e)' <=> Unasked(c, e)
    BY DEF Same
<1>2. (Asked(c, e)' <=> Asked(c, e)) /\ (Invited(c, e)' <=> Invited(c, e))
    BY <1>1 DEF Asked, Unasked, Invited, Due
<1>3. CoreGood(c, P, e)'
    BY <1>1 DEF Meets, CoreGood
<1>4. RosterGood(c, P, e)'
    BY <1>1, <1>2 DEF Meets, RosterGood
<1>5. HostGood(c, e)'
    BY <1>1 DEF Meets, HostGood
<1>6. TrioGood(c, P, e)'
    BY <1>1, <1>2 DEF Meets, TrioGood, Heir
<1> QED
    BY <1>3, <1>4, <1>5, <1>6 DEF Meets

\* What the devices have in their ears after an act of d.
LEMMA EarsAfter ==
    ASSUME NEW c \in Device, NEW P \in SUBSET Device, Started(c, P), NEW d \in P, Carried(c, P, d)
    PROVE  /\ \A e \in P \ {d} : Same(c, P, e)
           /\ Unasked(c, d)' <=> Unasked(c, d)
           /\ \A x \in P : \A kinds :
                /\ InEar(x, d, kinds)' => InEar(x, d, kinds)
                /\ InEar(x, d, kinds) /\ ~InEar(x, d, kinds)' =>
                     heard[d] # <<>> /\ Dispatched(d).from = x /\ Dispatched(d).kind \in kinds
           /\ \A y \in P : Invited(c, y)' => Invited(c, y)
           /\ Taken(d) => ~Invited(c, d)'
           /\ \A x, y \in P : Due(x, y, {"host"})' => Due(x, y, {"host"}) \/ (x = d /\ Claiming(d, y))
           /\ \A x \in P \ {d}, y \in P : LeaveDue(x, y)' => LeaveDue(x, y)
<1>1. SignalsGood(c, P) /\ InvitesFirst(c) /\ Leaves(c, P)
    BY DEF Started
<1>2. PICK m \in Signal, targets \in SUBSET Device : Acts(c, P, d, m, targets)
    BY DEF Carried
<1>3. /\ m.kind # "invite" /\ targets \subseteq P \ {d} /\ d \in Device
      /\ m.kind = "host" => \A y \in targets : Claiming(d, y)
    BY <1>2 DEF Acts
<1>4. \A x, y \in Device : \A kinds :
        /\ OnWire(x, y, kinds)' =>
             OnWire(x, y, kinds) \/ (Publishes(d, m, targets) /\ x = d /\ y \in targets /\ m.kind \in kinds)
        /\ OnWire(x, y, kinds) => OnWire(x, y, kinds)'
        /\ InEar(x, y, kinds)' => InEar(x, y, kinds)
        /\ InEar(x, y, kinds) /\ ~InEar(x, y, kinds)' =>
             Taken(d) /\ y = d /\ Head(heard[d]).from = x /\ Head(heard[d]).kind \in kinds
    BY <1>1, <1>2, Traffic
<1>5. /\ \A x, y \in Device : \A kinds :
           Due(x, y, kinds)' => Due(x, y, kinds) \/ (x = d /\ y \in targets /\ m.kind \in kinds)
      /\ \A y \in Device : Invited(c, y)' => Invited(c, y)
      /\ Taken(d) => ~Invited(c, d)'
    BY <1>1, <1>2, DueAfter
<1>6. \A y \in Device : Unasked(c, y)' <=> Unasked(c, y)
    BY <1>3, <1>4 DEF Unasked
<1>7. \A e \in P \ {d} : Same(c, P, e)
    BY <1>4, <1>6 DEF Same, Carried, Alone
<1>8. \A x, y \in P : Due(x, y, {"host"})' => Due(x, y, {"host"}) \/ (x = d /\ Claiming(d, y))
    BY <1>3, <1>5
<1>9. \A x \in P : \A kinds :
        /\ InEar(x, d, kinds)' => InEar(x, d, kinds)
        /\ InEar(x, d, kinds) /\ ~InEar(x, d, kinds)' =>
             heard[d] # <<>> /\ Dispatched(d).from = x /\ Dispatched(d).kind \in kinds
    BY <1>3, <1>4 DEF Taken, Dispatched
<1>10. \A x \in P \ {d}, y \in P : LeaveDue(x, y)' => LeaveDue(x, y)
    BY <1>5 DEF LeaveDue
<1> QED
    BY <1>5, <1>6, <1>7, <1>8, <1>9, <1>10

\* Three different members of a set of at most three are all of it.
LEMMA ThreeOnly ==
    ASSUME NEW P \in SUBSET Device, Cardinality(P) <= 3, NEW x \in P, NEW y \in P, NEW z \in P,
           x # y, x # z, y # z
    PROVE  P = {x, y, z}
<1>1. IsFiniteSet(P) /\ Cardinality(P) \in Nat
    BY DeviceAssumption, FS_Subset, FS_CardinalityType
<1>2. IsFiniteSet({x, y}) /\ Cardinality({x, y}) = 2
    BY PairSize
<1>3. z \notin {x, y} /\ {x, y, z} = {x, y} \cup {z}
    OBVIOUS
<1>4. IsFiniteSet({x, y, z}) /\ Cardinality({x, y, z}) = 3
    BY <1>2, <1>3, FS_AddElement
<1>5. {x, y, z} \subseteq P
    OBVIOUS
<1>6. Cardinality({x, y, z}) <= Cardinality(P) /\ (Cardinality({x, y, z}) = Cardinality(P) => {x, y, z} = P)
    BY <1>1, <1>5, FS_Subset
<1> QED
    BY <1>1, <1>4, <1>6

\* In the call and left are contraries.
LEMMA NotBoth == \A c, d : ~(InIt(d) /\ Left(c, d))
BY DEF InIt, InACall, Left

\* As long as it hosts, the caller's leave is on its way to nobody.
LEMMA NotTold ==
    ASSUME NEW c \in Device, NEW P \in SUBSET Device, Started(c, P), Meeting(c, P), Hosts(c), NEW y \in P
    PROVE  ~LeaveDue(c, y)
<1>1. Leaves(c, P) /\ CallerGood(c, P) /\ c \in P
    BY DEF Started, Meeting
<1>2. LeaveDue(c, y) => ~InIt(c)
    BY <1>1, NotBoth DEF Leaves
<1> QED
    BY <1>1, <1>2 DEF CallerGood, Hosts

\* Who hears a leave hears it from one who left.
LEMMA HeardLeaver ==
    ASSUME NEW c \in Device, NEW P \in SUBSET Device, Started(c, P), NEW d \in Device,
           heard[d] # <<>>, Dispatched(d).kind \in Leaving
    PROVE  /\ d \in P /\ Dispatched(d).from \in P \ {d} /\ Left(c, Dispatched(d).from)
           /\ LeaveDue(Dispatched(d).from, d)
BY Heard, LeaverLeft

\* Who would claim to host, and whom it tells.
LEMMA ClaimsAfter ==
    ASSUME NEW c \in Device, NEW P \in SUBSET Device, Started(c, P), Meeting(c, P),
           NEW d \in P, Carried(c, P, d), Hosts(c)' => Hosts(c)
    PROVE  Claims(c, P)'
<1>1. /\ \A g \in P : Left(c, g) => Left(c, g)'
      /\ \A x, y \in P : Due(x, y, {"host"})' => Due(x, y, {"host"}) \/ (x = d /\ Claiming(d, y))
      /\ c \in P /\ DashGood(c, P, d)
    BY EarsAfter DEF Carried, Started
<1>2. ASSUME NEW y \in P, Claiming(d, y)
      PROVE  \E gone \in P : /\ gone # d /\ Left(c, gone) /\ gone \in dash[d].group /\ dash[d].host = gone
                             /\ y # d /\ y # gone /\ InACall(d)
                             /\ Lowest((dash[d].group \ {gone}) \cup {d}) = d
                             /\ dash[d].group \subseteq P \ {d} /\ y \in dash[d].group
    <2>1. PICK gone \in P \ {d} : gone = Dispatched(d).from /\ Left(c, gone)
        BY <1>2, HeardLeaver DEF Claiming
    <2> QED
        BY <1>1, <1>2, <2>1 DEF Claiming, DashGood
<1>3. ASSUME Hosts(c), NEW y \in P, Claiming(d, y) PROVE FALSE
    <2>1. dash[d].group # {} /\ dash[d].host = Dispatched(d).from /\ LeaveDue(Dispatched(d).from, d)
        BY <1>3, HeardLeaver DEF Claiming
    <2>2. dash[d].host = c
        BY <1>3, <2>1 DEF Meeting, Meets, HostGood
    <2> QED
        BY <1>3, <2>1, <2>2, NotTold
<1>4. ASSUME Cardinality(P) <= 3, NEW y \in P, Claiming(d, y)
      PROVE  /\ y = c => \A z \in P \ {c, d} : Left(c, z)
             /\ y # c => d = Heir(c, P) \/ Left(c, y)
    <2>1. PICK gone \in P : /\ gone # d /\ Left(c, gone) /\ gone \in dash[d].group /\ dash[d].host = gone
                            /\ y # d /\ y # gone /\ InACall(d)
                            /\ Lowest((dash[d].group \ {gone}) \cup {d}) = d
                            /\ dash[d].group \subseteq P \ {d} /\ y \in dash[d].group
        BY <1>2, <1>4
    <2>2. P = {d, gone, y}
        BY <1>4, <2>1, ThreeOnly
    <2>3. y = c => \A z \in P \ {c, d} : Left(c, z)
        BY <2>1, <2>2
    <2>4. CASE y # c /\ gone = c
        <3>1. (dash[d].group \ {gone}) \cup {d} = P \ {c}
            BY <2>1, <2>2, <2>4
        <3> QED
            BY <2>1, <2>4, <3>1 DEF Heir
    <2>5. CASE y # c /\ gone # c
        <3>1. d = c
            BY <1>1, <2>2, <2>5
        <3>2. dash[c].host = c \/ \A z \in P \ {c, dash[c].host} : Left(c, z)
            BY <1>4, <2>1, <3>1 DEF Meeting, CallerGood
        <3> QED
            BY <2>1, <2>5, <3>1, <3>2
    <2> QED
        BY <2>3, <2>4, <2>5
<1>5. Hosts(c)' => \A s, y \in P : ~Due(s, y, {"host"})'
    BY <1>1, <1>3 DEF Meeting, Claims
<1>6. ASSUME Cardinality(P) <= 3, NEW s \in P, NEW y \in P, Due(s, y, {"host"})'
      PROVE  /\ y = c => \A z \in P \ {c, s} : Left(c, z)'
             /\ y # c => s = Heir(c, P) \/ Left(c, y)'
    <2>1. /\ y = c => \A z \in P \ {c, s} : Left(c, z)
          /\ y # c => s = Heir(c, P) \/ Left(c, y)
        BY <1>1, <1>4, <1>6 DEF Meeting, Claims
    <2> QED
        BY <1>1, <2>1
<1> QED
    BY <1>5, <1>6 DEF Claims, Heir

LEMMA MeetingStill ==
    ASSUME NEW c \in Device, NEW P \in SUBSET Device, Started(c, P), Meeting(c, P),
           NEW d \in P, Carried(c, P, d), Hosts(c)' => Hosts(c), Meets(c, P, d)', d = c => CallerGood(c, P)'
    PROVE  Meeting(c, P)'
<1>1. /\ \A g \in P : Left(c, g) => Left(c, g)'
      /\ \A e \in P \ {d} : Same(c, P, e)
      /\ \A x \in P \ {d}, y \in P : LeaveDue(x, y)' => LeaveDue(x, y)
      /\ c \in P
    BY EarsAfter DEF Carried, Started
<1>2. Claims(c, P)'
    BY ClaimsAfter
<1>3. \A e \in P : Meets(c, P, e)'
    <2>1. \A e \in P \ {d} : Meets(c, P, e)'
        BY <1>1, SameMeets DEF Meeting
    <2> QED
        BY <2>1
<1>4. CallerGood(c, P)'
    <2> SUFFICES ASSUME d # c PROVE CallerGood(c, P)'
        OBVIOUS
    <2>1. sess'[c] = sess[c] /\ dash'[c] = dash[c] /\ (c \in quiet' => c \in quiet) /\ CallerGood(c, P)
        BY DEF Meeting, Carried, Alone
    <2> QED
        BY <1>1, <2>1 DEF CallerGood, InIt, InACall
<1> QED
    BY <1>2, <1>3, <1>4 DEF Meeting

\* d hears nothing that tells it another host or another roster.
Mild(c, P, d) ==
  /\ Unasked(c, d)' <=> Unasked(c, d)
  /\ Asked(c, d)' => Asked(c, d)
  /\ \A e \in P : InEar(e, d, {"accept"})' => InEar(e, d, {"accept"})
  /\ dash'[d].group # {} \/ Asked(c, d)' =>
       /\ Asked(c, d)' <=> Asked(c, d)
       /\ \A e \in P : InEar(e, d, Leaving)' <=> InEar(e, d, Leaving)
  /\ dash'[d].group # {} => dash'[d].group = dash[d].group /\ dash'[d].host = dash[d].host
  /\ dash'[d].role = "active" \/ dash'[d].doing = "joining" =>
       \/ dash[d].role = "active" \/ dash[d].doing = "joining"
       \/ \E e \in P : InEar(e, d, {"accept"})
       \/ sess'[d].state \in {"active", "ended"}
  /\ sess[d].state \in {"active", "ended"} => sess'[d].state \in {"active", "ended"}
  /\ sess'[d].inbound = sess[d].inbound /\ sess'[d].host = sess[d].host
  /\ sess'[d].state = "none" => sess[d].state = "none"
  /\ sess[d].people \subseteq sess'[d].people /\ sess'[d].people \subseteq sess[d].people \cup P
  /\ ((dash'[d].group # {} /\ dash'[d].doing # "leaving") \/ Asked(c, d)') /\ sess'[d].state = "ended" =>
       /\ sess[d].state = "ended" /\ sess'[d].people = sess[d].people
       /\ (dash[d].group # {} /\ dash[d].doing # "leaving") \/ Asked(c, d)
  /\ Invited(c, d)' => Invited(c, d) /\ (dash'[d].role = "active" => dash[d].role = "active")

LEMMA MildMeets ==
    ASSUME NEW c, NEW P, c \in P, NEW d \in P, Meets(c, P, d), Mild(c, P, d),
           Hosts(c)' => Hosts(c), Left(c, d) => Left(c, d)'
    PROVE  Meets(c, P, d)'
<1>1. CoreGood(c, P, d)'
    BY DEF Meets, CoreGood, Mild
<1>2. RosterGood(c, P, d)'
    <2>1. \A e \in P \ {d} :
            (e \in dash[d].group \/ Asked(c, d))' => (e \in sess[d].people \/ InEar(e, d, Leaving))'
        BY DEF Meets, RosterGood, Mild
    <2>2. dash'[d].role = "active" \/ dash'[d].doing = "joining" \/ (\E e \in P : InEar(e, d, {"accept"})') =>
            sess'[d].state \in {"active", "ended"}
        BY DEF Meets, RosterGood, Mild
    <2>3. (dash'[d].group # {} /\ dash'[d].doing # "leaving") \/ Asked(c, d)' =>
            (sess'[d].state = "ended" => sess'[d].people \subseteq {d})
        BY DEF Meets, RosterGood, Mild
    <2>4. Invited(c, d)' => dash'[d].role # "active" /\ dash'[d].group = {}
        BY DEF Meets, RosterGood, Mild
    <2> QED
        BY <2>1, <2>2, <2>3, <2>4 DEF RosterGood
<1>3. HostGood(c, d)'
    BY DEF Meets, HostGood, Mild
<1>4. TrioGood(c, P, d)'
    <2> SUFFICES ASSUME NEW e \in P, P = {c, d, e}, d # c, e # c, d # e, ~Left(c, d)'
                 PROVE  /\ e \in dash'[d].group =>
                             /\ dash'[d].host \in {c, Heir(c, P)}
                             /\ c \notin dash'[d].group => dash'[d].host = Heir(c, P)
                        /\ (e \in dash'[d].group \/ Asked(c, d)') /\ ~InEar(e, d, Leaving)' =>
                             /\ sess'[d].host \in {c, Heir(c, P)}
                             /\ InEar(c, d, Leaving)' \/ (~Asked(c, d)' /\ c \notin dash'[d].group) =>
                                  sess'[d].host = Heir(c, P)
        BY DEF TrioGood, Heir
    <2>1. /\ e \in dash[d].group =>
               /\ dash[d].host \in {c, Heir(c, P)}
               /\ c \notin dash[d].group => dash[d].host = Heir(c, P)
          /\ (e \in dash[d].group \/ Asked(c, d)) /\ ~InEar(e, d, Leaving) =>
               /\ sess[d].host \in {c, Heir(c, P)}
               /\ InEar(c, d, Leaving) \/ (~Asked(c, d) /\ c \notin dash[d].group) => sess[d].host = Heir(c, P)
        BY DEF Meets, TrioGood
    <2> QED
        BY <2>1 DEF Mild
<1> QED
    BY <1>1, <1>2, <1>3, <1>4 DEF Meets

\* The caller's own dashboard, when it hears of no other host.
LEMMA CallerStill ==
    ASSUME NEW c \in Device, NEW P \in SUBSET Device, Started(c, P), Meeting(c, P), Carried(c, P, c),
           sess'[c].inbound = sess[c].inbound, UNCHANGED quiet,
           dash'[c].role # "ringing-in", dash'[c].doing # "joining",
           InACall(c)' => InACall(c) /\ dash'[c].host = dash[c].host,
           InIt(c)' => InIt(c) /\ dash'[c].group = dash[c].group
    PROVE  CallerGood(c, P)'
<1>1. \A g \in P : Left(c, g) => Left(c, g)'
    BY DEF Carried
<1>2. c \in quiet => \A y \in P : ~LeaveDue(c, y)'
    BY DEF Carried, Started, Leaves, Meeting, CallerGood
<1> QED
    BY <1>1, <1>2 DEF Meeting, CallerGood

\* What publishing leaves in the sender's session.
LEMMA Recorded ==
    ASSUME sess \in [Device -> Session], NEW d \in Device, NEW kind \in Kind \ {"invite"},
           NEW targets \in SUBSET Device, NEW h \in Device \cup {NoOne}, Post(d, kind, targets, h, {})
    PROVE  /\ targets = {} => sess'[d] = sess[d]
           /\ sess'[d].inbound = sess[d].inbound
           /\ sess[d].people \subseteq sess'[d].people
           /\ sess'[d].people \subseteq sess[d].people \cup targets
           /\ kind # "accept" => sess'[d].people = sess[d].people
           /\ kind # "host" => sess'[d].host = sess[d].host
           /\ targets # {} =>
                /\ kind = "accept" => sess'[d].state = "active"
                /\ kind \in Leaving => sess'[d].state = "ended"
                /\ kind = "host" =>
                     /\ sess'[d].host = h
                     /\ sess'[d].state = IF sess[d].state \in {"none", "ringing"} THEN "active" ELSE sess[d].state
<1> DEFINE m == [kind |-> kind, from |-> d, host |-> h, people |-> {}]
<1>1. m.kind = kind /\ m.host = h
    OBVIOUS
<1>2. sess' = [sess EXCEPT ![d] = IF targets = {} THEN @ ELSE SentTo(@, m, Lowest(targets))]
    BY DEF Post
<1> HIDE DEF m
<1>3. sess[d] \in Session /\ sess'[d] = IF targets = {} THEN sess[d] ELSE SentTo(sess[d], m, Lowest(targets))
    BY <1>2
<1>4. CASE targets = {}
    BY <1>3, <1>4
<1>5. CASE targets # {}
    <2>1. Lowest(targets) \in targets /\ sess'[d] = SentTo(sess[d], m, Lowest(targets))
        BY <1>3, <1>5, LowestOne
    <2>2. CASE kind = "accept"
        <3>1. sess'[d] = [sess[d] EXCEPT !.state = "active", !.people = @ \cup {Lowest(targets)}]
            BY <1>1, <2>1, <2>2 DEF SentTo, Leaving
        <3> QED
            BY <1>3, <1>5, <2>1, <2>2, <3>1 DEF Session, Leaving
    <2>3. CASE kind = "host"
        <3>1. sess'[d] = [sess[d] EXCEPT !.host = h, !.state = IF @ \in {"none", "ringing"} THEN "active" ELSE @]
            BY <1>1, <2>1, <2>3 DEF SentTo, Leaving
        <3> QED
            BY <1>3, <1>5, <2>3, <3>1 DEF Session, Leaving
    <2>4. CASE kind \in Leaving
        <3>1. sess'[d] = [sess[d] EXCEPT !.state = "ended"]
            BY <1>1, <2>1, <2>4 DEF SentTo, Leaving
        <3> QED
            BY <1>3, <1>5, <2>4, <3>1 DEF Session, Leaving
    <2> QED
        BY <2>2, <2>3, <2>4 DEF Kind, Leaving
<1> QED
    BY <1>4, <1>5

LEMMA JoinMeets ==
    ASSUME NEW c \in Device, NEW P \in SUBSET Device, Started(c, P), Meeting(c, P), NEW d \in Device, Join(d)
    PROVE  Meeting(c, P)'
<1>1. StateGood /\ CallerGood(c, P) /\ c \in P
    BY DEF Started, Meeting
<1>2. /\ dash[d].doing = "joining"
      /\ dash'[d] = [dash[d] EXCEPT !.role = "active", !.doing = "nothing"]
      /\ UNCHANGED <<sess, quiet, wire, heard>>
    BY <1>1 DEF Join, StateGood
<1>3. /\ dash'[d].role = "active" /\ dash'[d].doing = "nothing" /\ dash'[d].group = dash[d].group
      /\ dash'[d].host = dash[d].host
    BY <1>1, <1>2 DEF StateGood, Dash
<1>4. d \in P /\ d # c /\ ~Invited(c, d)
    BY <1>1, <1>2, Member DEF CallerGood, Started, DashGood
<1>5. Carried(c, P, d)
    BY JoinStep
<1>6. Hosts(c)' => Hosts(c)
    BY <1>4, <1>5 DEF Carried, Alone, Hosts, InIt, InACall
<1>7. Mild(c, P, d)
    <2>1. /\ \A e \in P : \A kinds : InEar(e, d, kinds)' <=> InEar(e, d, kinds)
          /\ Unasked(c, d)' <=> Unasked(c, d)
          /\ Asked(c, d)' <=> Asked(c, d)
        BY <1>2 DEF InEar, Unasked, Asked, OnWire, Holds
    <2>2. ~Invited(c, d)'
        BY <1>4, <2>1 DEF Invited, Due, Unasked, Asked
    <2> QED
        BY <1>2, <1>3, <2>1, <2>2 DEF Mild
<1>8. Meets(c, P, d)'
    BY <1>1, <1>4, <1>5, <1>6, <1>7, MildMeets DEF Carried, Meeting
<1> QED
    BY <1>4, <1>5, <1>6, <1>8, MeetingStill

LEMMA LeaveMeets ==
    ASSUME NEW c \in Device, NEW P \in SUBSET Device, Started(c, P), Meeting(c, P), NEW d \in Device, Leave(d)
    PROVE  Meeting(c, P)'
<1>1. StateGood /\ CallerGood(c, P) /\ c \in P
    BY DEF Started, Meeting
<1>2. /\ dash[d].doing = "leaving"
      /\ dash'[d] = NoDash
      /\ UNCHANGED <<sess, quiet, wire, heard>>
    BY <1>1 DEF Leave, StateGood
<1>3. dash'[d].role = "idle" /\ dash'[d].doing = "nothing" /\ dash'[d].group = {}
    BY <1>2 DEF NoDash
<1>4. d \in P
    BY <1>2, Member
<1>5. Carried(c, P, d)
    BY LeaveStep
<1>6. InIt(d)' => InIt(d)
    BY <1>3 DEF InIt, InACall
<1>7. Hosts(c)' => Hosts(c)
    BY <1>2, <1>5, <1>6 DEF Carried, Alone, Hosts, InIt, InACall
<1>8. Mild(c, P, d)
    <2>1. /\ \A e \in P : \A kinds : InEar(e, d, kinds)' <=> InEar(e, d, kinds)
          /\ Unasked(c, d)' <=> Unasked(c, d)
          /\ Asked(c, d)' <=> Asked(c, d)
        BY <1>2 DEF InEar, Unasked, Asked, OnWire, Holds
    <2>2. Invited(c, d)' <=> Invited(c, d)
        BY <2>1 DEF Invited, Due, Unasked, Asked
    <2> QED
        BY <1>2, <1>3, <2>1, <2>2 DEF Mild
<1>9. Meets(c, P, d)'
    BY <1>1, <1>4, <1>5, <1>7, <1>8, MildMeets DEF Carried, Meeting
<1>10. d = c => CallerGood(c, P)'
    BY <1>1, <1>2, <1>3, <1>5, CallerStill DEF CallerGood, InIt, InACall
<1> QED
    BY <1>4, <1>5, <1>7, <1>9, <1>10, MeetingStill

LEMMA Silence ==
    ASSUME NEW c \in Device, NEW P \in SUBSET Device, UNCHANGED <<wire, heard>>,
           SignalsGood(c, P), InvitesFirst(c)
    PROVE  /\ SignalsGood(c, P)' /\ InvitesFirst(c)'
           /\ Inviting(c)' <=> Inviting(c)
           /\ \A x, y \in Device : \A kinds : Due(x, y, kinds)' <=> Due(x, y, kinds)
           /\ \A x, y \in Device : \A kinds : Once(x, y, kinds)' <=> Once(x, y, kinds)
<1>1. wire' = wire /\ heard' = heard
    OBVIOUS
<1>2. SignalsGood(c, P)'
    BY <1>1 DEF SignalsGood, Said, Word
<1>3. InvitesFirst(c)'
    BY <1>1 DEF InvitesFirst, Foremost, OnWire, Holds
<1>4. Inviting(c)' <=> Inviting(c)
    BY <1>1 DEF Inviting, OnWire, Holds
<1>5. ASSUME NEW x \in Device, NEW y \in Device, NEW kinds
      PROVE  (Due(x, y, kinds)' <=> Due(x, y, kinds)) /\ (Once(x, y, kinds)' <=> Once(x, y, kinds))
    BY <1>1 DEF Due, Once, OnWire, InEar, Holds, Single
<1> QED
    BY <1>2, <1>3, <1>4, <1>5

LEMMA InviteSentStep ==
    ASSUME NEW c \in Device, NEW P \in SUBSET Device, Started(c, P), NEW d \in Device, InviteSent(d)
    PROVE  Carried(c, P, d)
<1>1. StateGood /\ DashGood(c, P, d) /\ (Inviting(c) => dash[c].host \in {c, NoOne})
    BY DEF Started, Early
<1>2. /\ dash' \in [Device -> Dash]
      /\ dash[d].role = "ringing-out"
      /\ dash'[d] = [dash[d] EXCEPT !.call = TRUE]
      /\ \A e \in Device \ {d} : dash'[e] = dash[e]
      /\ UNCHANGED <<sess, quiet, wire, heard>>
    BY <1>1 DEF InviteSent, StateGood, Dash
<1>3. /\ dash'[d].role = dash[d].role /\ dash'[d].doing = dash[d].doing /\ dash'[d].group = dash[d].group
      /\ dash'[d].host = dash[d].host /\ dash'[d].peer = dash[d].peer /\ dash'[d].call
    BY <1>1, <1>2 DEF StateGood, Dash
<1>4. d \in P
    BY <1>2, Member DEF InACall
<1>5. Invited(c, d)' => Invited(c, d)
    BY <1>2, <1>4, InvitedBefore
<1>6. DashGood(c, P, d)'
    BY <1>1, <1>2, <1>3, <1>4, <1>5 DEF DashGood, InACall, Rings
<1>7. Left(c, d) => Left(c, d)'
    BY <1>1, <1>2, <1>3, <1>5 DEF Left, DashGood, Rings
<1>8. /\ InIt(d) => InIt(d)' /\ dash'[d].group = dash[d].group
      /\ Live(d)' => Live(d) /\ dash'[d].group = dash[d].group
    BY <1>1, <1>2, <1>3 DEF InIt, Live, InACall, DashGood
<1>9. ~Taken(d)
    BY <1>2, HeardShrinks
<1> QED
    BY <1>1, <1>2, <1>3, <1>4, <1>6, <1>7, <1>8, <1>9, CalmDash

\* The caller ends the call before its request's answer: it has left, and told
\* nobody.
LEMMA GiveUpStep ==
    ASSUME NEW c \in Device, NEW P \in SUBSET Device, Started(c, P), Meeting(c, P), NEW d \in Device,
           GiveUp(d)
    PROVE  Carried(c, P, c)
<1>1. /\ StateGood /\ SignalsGood(c, P) /\ InvitesFirst(c) /\ Leaves(c, P) /\ Dropped(c, P) /\ Kept(c, P)
      /\ Early(c) /\ c \in P /\ \A e \in Device : DashGood(c, P, e)
    BY DEF Started
<1>2. d = c /\ dash[c].role = "ringing-out" /\ dash[c].doing = "nothing"
    BY <1>1 DEF GiveUp, DashGood
<1>3. /\ dash' = [dash EXCEPT ![c] = NoDash]
      /\ quiet' = quiet \cup {c}
      /\ UNCHANGED <<sess, wire, heard>>
    BY <1>2 DEF GiveUp
<1>4. /\ dash' \in [Device -> Dash]
      /\ \A e \in Device \ {c} : dash'[e] = dash[e]
      /\ dash'[c].role = "idle" /\ dash'[c].doing = "nothing" /\ dash'[c].group = {}
      /\ dash'[c].host = NoOne /\ dash'[c].peer = NoOne
    BY <1>1, <1>3 DEF StateGood, Dash, Role, NoDash
<1>5. ~Rings(c) /\ ~Invited(c, c)
    <2>1. CallerGood(c, P) /\ RosterGood(c, P, c) /\ InIt(c)
        BY <1>1, <1>2 DEF Meeting, Meets, InIt, InACall
    <2> QED
        BY <2>1 DEF CallerGood, RosterGood, Rings
<1> DEFINE m == [kind |-> "accept", from |-> c, host |-> NoOne, people |-> {}]
<1>6. m \in Signal /\ m.from = c /\ m.kind = "accept"
    BY DEF Signal, Kind
<1> HIDE DEF m
<1>7. Acts(c, P, c, m, {}) /\ Alone(c)
    BY <1>1, <1>3, <1>4, <1>6 DEF Acts, Alone, StateGood
<1>8. /\ \A x, y \in Device : \A kinds : Due(x, y, kinds)' <=> Due(x, y, kinds)
      /\ \A x, y \in Device : \A kinds : Once(x, y, kinds)' <=> Once(x, y, kinds)
    BY <1>1, <1>3, Silence
<1>9. /\ \A g, e \in P : (LeaveDue(g, e)' <=> LeaveDue(g, e)) /\ Once(g, e, Leaving)'
      /\ \A e \in P : Invited(c, e)' <=> Invited(c, e)
    BY <1>1, <1>8 DEF LeaveDue, Invited, Leaves
<1>10. Left(c, c)' /\ ~Live(c)'
    BY <1>1, <1>3, <1>4, <1>5, <1>9 DEF Left, Rings, Live
<1>11. \A g \in P : Left(c, g) => Left(c, g)'
    BY <1>1, <1>7, <1>10, OthersStay
<1>12. \A e \in Device \ {c} : (Live(e)' => Live(e)) /\ (InIt(e)' <=> InIt(e)) /\ dash'[e].group = dash[e].group
    BY <1>1, <1>3, <1>4, <1>7, OthersStay
<1>13. \A g, e \in P : g # e /\ Live(e)' /\ g \notin dash'[e].group => Live(e) /\ g \notin dash[e].group
    BY <1>10, <1>12
<1>14. ASSUME NEW x \in P, NEW e \in P, x # e, Shows(c, x, e)'
       PROVE  /\ Shows(c, x, e)
              /\ Invited(c, e) \/ Answers(x, e) => Invited(c, e)' \/ Answers(x, e)'
    <2>1. Shows(c, x, e)
        BY <1>9, <1>10, <1>12, <1>14 DEF Shows
    <2>2. CASE e = c
        BY <1>3, <2>1, <2>2 DEF Answers
    <2>3. CASE e # c
        BY <1>3, <1>9, <1>12, <2>1, <2>3 DEF Answers
    <2> QED
        BY <2>2, <2>3
<1>15. Leaves(c, P)' /\ Dropped(c, P)' /\ Kept(c, P)'
    <2>1. \A g \in P : g \in quiet' => g \in quiet \/ Left(c, g)'
        BY <1>3, <1>10
    <2> QED
        BY <1>1, <1>9, <1>11, <1>13, <1>14, <2>1, StepOfCall
<1>16. DashGood(c, P, c)'
    BY <1>1, <1>3, <1>4, <1>5, <1>9 DEF DashGood, InACall, Rings
<1>17. Inviting(c) => dash'[c].host \in {c, NoOne}
    BY <1>4
<1> QED
    BY <1>1, <1>6, <1>7, <1>10, <1>15, <1>16, <1>17, StartedStill DEF Leaving

LEMMA InviteSentMeets ==
    ASSUME NEW c \in Device, NEW P \in SUBSET Device, Started(c, P), Meeting(c, P), NEW d \in Device,
           InviteSent(d)
    PROVE  Meeting(c, P)'
<1>1. StateGood /\ CallerGood(c, P) /\ c \in P
    BY DEF Started, Meeting
<1>2. /\ dash[d].role = "ringing-out"
      /\ dash'[d] = [dash[d] EXCEPT !.call = TRUE]
      /\ UNCHANGED <<sess, quiet, wire, heard>>
    BY <1>1 DEF InviteSent, StateGood
<1>3. /\ dash'[d].role = dash[d].role /\ dash'[d].doing = dash[d].doing /\ dash'[d].group = dash[d].group
      /\ dash'[d].host = dash[d].host
    BY <1>1, <1>2 DEF StateGood, Dash
<1>4. d \in P
    BY <1>2, Member DEF InACall
<1>5. Carried(c, P, d)
    BY InviteSentStep
<1>6. Hosts(c)' => Hosts(c)
    BY <1>2, <1>3, <1>5 DEF Carried, Alone, Hosts, InIt, InACall
<1>7. Mild(c, P, d)
    <2>1. /\ \A e \in P : \A kinds : InEar(e, d, kinds)' <=> InEar(e, d, kinds)
          /\ Unasked(c, d)' <=> Unasked(c, d)
          /\ Asked(c, d)' <=> Asked(c, d)
        BY <1>2 DEF InEar, Unasked, Asked, OnWire, Holds
    <2>2. Invited(c, d)' <=> Invited(c, d)
        BY <2>1 DEF Invited, Due, Unasked, Asked
    <2> QED
        BY <1>2, <1>3, <2>1, <2>2 DEF Mild
<1>8. Meets(c, P, d)'
    BY <1>1, <1>4, <1>5, <1>6, <1>7, MildMeets DEF Carried, Meeting
<1>9. ASSUME d = c PROVE CallerGood(c, P)'
    <2>1. dash'[c].role = "ringing-out" /\ dash'[c].doing = dash[c].doing
          /\ dash'[c].group = dash[c].group /\ dash'[c].host = dash[c].host
          /\ dash[c].role = "ringing-out"
        BY <1>2, <1>3, <1>9
    <2>2. dash[c].doing # "joining"
        BY <1>1 DEF CallerGood
    <2>3. InACall(c) /\ (InIt(c)' => InIt(c))
        BY <2>1 DEF InIt, InACall
    <2>4. sess'[c] = sess[c] /\ UNCHANGED quiet
        BY <1>2
    <2>5. Carried(c, P, c)
        BY <1>5, <1>9
    <2>6. sess'[c].inbound = sess[c].inbound
        BY <2>4
    <2> QED
        BY <2>1, <2>2, <2>3, <2>4, <2>5, <2>6, CallerStill
<1> QED
    BY <1>4, <1>5, <1>6, <1>8, <1>9, MeetingStill

LEMMA GiveUpMeets ==
    ASSUME NEW c \in Device, NEW P \in SUBSET Device, Started(c, P), Meeting(c, P), NEW d \in Device,
           GiveUp(d)
    PROVE  Meeting(c, P)'
<1>1. StateGood /\ CallerGood(c, P) /\ c \in P /\ DashGood(c, P, d)
    BY DEF Started, Meeting
<1>2. /\ dash[d].role = "ringing-out" /\ dash[d].doing = "nothing"
      /\ dash'[d] = NoDash
      /\ UNCHANGED <<sess, wire, heard>>
    BY <1>1 DEF GiveUp, StateGood
<1>3. dash'[d].role = "idle" /\ dash'[d].doing = "nothing" /\ dash'[d].group = {}
    BY <1>2 DEF NoDash
<1>4. d = c /\ InIt(c) /\ ~InACall(c)'
    BY <1>1, <1>2, <1>3 DEF DashGood, InIt, InACall
<1>5. Carried(c, P, c)
    BY <1>4, GiveUpStep
<1>6. Hosts(c)
    BY <1>4 DEF Hosts
<1>7. Mild(c, P, c)
    <2>1. /\ \A e \in P : \A kinds : InEar(e, c, kinds)' <=> InEar(e, c, kinds)
          /\ Unasked(c, c)' <=> Unasked(c, c)
          /\ Asked(c, c)' <=> Asked(c, c)
        BY <1>2 DEF InEar, Unasked, Asked, OnWire, Holds
    <2>2. Invited(c, c)' <=> Invited(c, c)
        BY <2>1 DEF Invited, Due, Unasked, Asked
    <2> QED
        BY <1>2, <1>3, <1>4, <2>1, <2>2 DEF Mild
<1>8. Meets(c, P, c)'
    BY <1>1, <1>5, <1>6, <1>7, MildMeets DEF Carried, Meeting
<1>9. CallerGood(c, P)'
    <2>1. \A y \in P : ~LeaveDue(c, y)'
        <3>1. \A y \in P : ~LeaveDue(c, y)
            BY <1>6, NotTold
        <3> QED
            BY <1>2, <3>1 DEF LeaveDue, Due, OnWire, InEar, Holds
    <2> QED
        BY <1>1, <1>2, <1>3, <1>4, <2>1 DEF CallerGood, InIt
<1> QED
    BY <1>1, <1>5, <1>6, <1>8, <1>9, MeetingStill

LEMMA SeeIncomingMeets ==
    ASSUME NEW c \in Device, NEW P \in SUBSET Device, Started(c, P), Meeting(c, P), NEW d \in Device,
           SeeIncoming(d)
    PROVE  Meeting(c, P)'
<1>1. StateGood /\ CallerGood(c, P) /\ c \in P
    BY DEF Started, Meeting
<1>2. /\ sess[d].state = "ringing" /\ sess[d].inbound
      /\ dash'[d] = [dash[d] EXCEPT !.role = IF Shown(dash[d]) THEN @ ELSE "ringing-in",
                                     !.call = TRUE, !.peer = sess[d].peer]
      /\ UNCHANGED <<sess, quiet, wire, heard>>
    BY <1>1 DEF SeeIncoming, StateGood
<1>3. /\ dash'[d].role = dash[d].role \/ dash'[d].role = "ringing-in"
      /\ dash'[d].doing = dash[d].doing /\ dash'[d].group = dash[d].group
      /\ dash'[d].host = dash[d].host
    BY <1>1, <1>2 DEF StateGood, Dash
<1>4. d \in P /\ d # c
    BY <1>1, <1>2, Member DEF CallerGood
<1>5. Carried(c, P, d)
    BY SeeIncomingStep
<1>6. Hosts(c)' => Hosts(c)
    BY <1>1, <1>4, <1>5 DEF Carried, Alone, Hosts, InIt, InACall
<1>7. Mild(c, P, d)
    <2>1. /\ \A e \in P : \A kinds : InEar(e, d, kinds)' <=> InEar(e, d, kinds)
          /\ Unasked(c, d)' <=> Unasked(c, d)
          /\ Asked(c, d)' <=> Asked(c, d)
        BY <1>2 DEF InEar, Unasked, Asked, OnWire, Holds
    <2>2. Invited(c, d)' <=> Invited(c, d)
        BY <2>1 DEF Invited, Due, Unasked, Asked
    <2> QED
        BY <1>2, <1>3, <2>1, <2>2 DEF Mild
<1>8. Meets(c, P, d)'
    BY <1>1, <1>4, <1>5, <1>6, <1>7, MildMeets DEF Carried, Meeting
<1> QED
    BY <1>4, <1>5, <1>6, <1>8, MeetingStill

\* d polls a signal that is no invite.
LEMMA Polling ==
    ASSUME NEW c \in Device, NEW P \in SUBSET Device, Started(c, P), NEW d \in Device, Taken(d),
           Dispatched(d).kind # "invite", Carried(c, P, d)
    PROVE  /\ d \in P /\ Dispatched(d).from \in P \ {d}
           /\ ~Invited(c, d) /\ ~Asked(c, d) /\ ~Asked(c, d)' /\ ~Invited(c, d)'
           /\ Unasked(c, d)' <=> Unasked(c, d)
           /\ \A e \in P : \A kinds :
                /\ InEar(e, d, kinds)' => InEar(e, d, kinds)
                /\ e # Dispatched(d).from \/ Dispatched(d).kind \notin kinds =>
                     (InEar(e, d, kinds)' <=> InEar(e, d, kinds))
           /\ InEar(Dispatched(d).from, d, {Dispatched(d).kind})
<1>1. heard[d] # <<>> /\ SignalsGood(c, P) /\ InvitesFirst(c) /\ c \in P
    BY DEF Taken, Started
<1>2. ~Invited(c, d)
    BY <1>1, InviteIsFirst DEF Dispatched
<1>3. d \in P /\ Dispatched(d).from \in P \ {d}
    BY <1>1, Heard
<1>4. heard[d] \in Seq(Signal)
    BY <1>1 DEF SignalsGood
<1>5. InEar(Dispatched(d).from, d, {Dispatched(d).kind})
    BY <1>1, <1>4, HoldsTail DEF InEar, Dispatched
<1>6. /\ Unasked(c, d)' <=> Unasked(c, d)
      /\ \A x \in P : \A kinds :
           /\ InEar(x, d, kinds)' => InEar(x, d, kinds)
           /\ InEar(x, d, kinds) /\ ~InEar(x, d, kinds)' =>
                heard[d] # <<>> /\ Dispatched(d).from = x /\ Dispatched(d).kind \in kinds
      /\ ~Invited(c, d)'
    BY <1>3, EarsAfter
<1> QED
    BY <1>1, <1>2, <1>3, <1>5, <1>6 DEF Invited, Due, Asked

LEMMA HearAcceptMeets ==
    ASSUME NEW c \in Device, NEW P \in SUBSET Device, Started(c, P), Meeting(c, P), NEW d \in Device,
           HearAccept(d)
    PROVE  Meeting(c, P)'
<1>1. StateGood /\ CallerGood(c, P) /\ c \in P
    BY DEF Started, Meeting
<1>2. InACall(d) /\ Taken(d) /\ heard[d] # <<>> /\ Dispatched(d).kind = "accept"
    BY DEF HearAccept, Polls, Taken
<1>3. /\ dash' = [dash EXCEPT ![d] = [Bound(d) EXCEPT !.role = "active"]]
      /\ UNCHANGED <<sess, quiet, wire>>
    BY DEF HearAccept
<1>4. /\ dash'[d].role = "active" /\ dash'[d].doing = dash[d].doing /\ dash'[d].group = dash[d].group
      /\ dash'[d].host = dash[d].host
    BY <1>1, <1>2, <1>3, Binding DEF StateGood, Dash
<1>5. Carried(c, P, d)
    BY HearAcceptStep
<1>6. /\ d \in P /\ Dispatched(d).from \in P \ {d}
      /\ ~Invited(c, d) /\ ~Asked(c, d) /\ ~Asked(c, d)' /\ ~Invited(c, d)'
      /\ Unasked(c, d)' <=> Unasked(c, d)
      /\ \A e \in P : \A kinds :
           /\ InEar(e, d, kinds)' => InEar(e, d, kinds)
           /\ e # Dispatched(d).from \/ Dispatched(d).kind \notin kinds =>
                (InEar(e, d, kinds)' <=> InEar(e, d, kinds))
      /\ InEar(Dispatched(d).from, d, {"accept"})
    BY <1>2, <1>5, Polling
<1>7. Hosts(c)' => Hosts(c)
    BY <1>2, <1>3, <1>4, <1>5 DEF Carried, Alone, Hosts, InIt, InACall
<1>8. Mild(c, P, d)
    <2>1. \A e \in P : InEar(e, d, Leaving)' <=> InEar(e, d, Leaving)
        BY <1>2, <1>6 DEF Leaving
    <2> QED
        BY <1>3, <1>4, <1>6, <2>1 DEF Mild
<1>9. Meets(c, P, d)'
    BY <1>1, <1>5, <1>6, <1>7, <1>8, MildMeets DEF Carried, Meeting
<1>10. d = c => CallerGood(c, P)'
    BY <1>1, <1>2, <1>3, <1>4, <1>5, CallerStill DEF CallerGood, InIt, InACall
<1> QED
    BY <1>5, <1>6, <1>7, <1>9, <1>10, MeetingStill

LEMMA HearNothingMeets ==
    ASSUME NEW c \in Device, NEW P \in SUBSET Device, Started(c, P), Meeting(c, P), NEW d \in Device,
           HearNothing(d)
    PROVE  Meeting(c, P)'
<1>1. StateGood /\ CallerGood(c, P) /\ c \in P /\ DashGood(c, P, d)
    BY DEF Started, Meeting
<1>2. ~InACall(d) /\ Taken(d) /\ heard[d] # <<>> /\ Dispatched(d).kind # "invite" /\ dash[d].group = {}
    BY <1>1 DEF HearNothing, Polls, Taken, DashGood
<1>3. UNCHANGED <<sess, dash, quiet, wire>>
    BY DEF HearNothing
<1>4. Carried(c, P, d)
    BY HearNothingStep
<1>5. /\ d \in P
      /\ ~Invited(c, d) /\ ~Asked(c, d) /\ ~Asked(c, d)' /\ ~Invited(c, d)'
      /\ Unasked(c, d)' <=> Unasked(c, d)
      /\ \A e \in P : \A kinds : InEar(e, d, kinds)' => InEar(e, d, kinds)
    BY <1>2, <1>4, Polling
<1>6. Hosts(c)' => Hosts(c)
    BY <1>3 DEF Hosts, InIt, InACall
<1>7. Mild(c, P, d)
    BY <1>2, <1>3, <1>5 DEF Mild
<1>8. Meets(c, P, d)'
    BY <1>1, <1>4, <1>5, <1>6, <1>7, MildMeets DEF Carried, Meeting
<1>9. d = c => CallerGood(c, P)'
    BY <1>1, <1>3, <1>4, CallerStill DEF CallerGood, InIt, InACall
<1> QED
    BY <1>4, <1>5, <1>6, <1>8, <1>9, MeetingStill

LEMMA HearLastLeaveMeets ==
    ASSUME NEW c \in Device, NEW P \in SUBSET Device, Started(c, P), Meeting(c, P), NEW d \in Device,
           HearLastLeave(d)
    PROVE  Meeting(c, P)'
<1>1. StateGood /\ CallerGood(c, P) /\ c \in P
    BY DEF Started, Meeting
<1>2. InACall(d) /\ Taken(d) /\ heard[d] # <<>> /\ Dispatched(d).kind # "invite"
    BY DEF HearLastLeave, Polls, Taken, Leaving
<1>3. dash' = [dash EXCEPT ![d] = TornDown(@)] /\ UNCHANGED <<sess, quiet, wire>>
    BY DEF HearLastLeave
<1>4. dash'[d].role = "idle" /\ dash'[d].doing = dash[d].doing /\ dash'[d].group = {}
    BY <1>1, <1>3 DEF StateGood, Dash, TornDown, NoDash
<1>5. Carried(c, P, d)
    BY HearLastLeaveStep
<1>6. /\ d \in P
      /\ ~Invited(c, d) /\ ~Asked(c, d) /\ ~Asked(c, d)' /\ ~Invited(c, d)'
      /\ Unasked(c, d)' <=> Unasked(c, d)
      /\ \A e \in P : \A kinds : InEar(e, d, kinds)' => InEar(e, d, kinds)
    BY <1>2, <1>5, Polling
<1>7. Hosts(c)' => Hosts(c)
    BY <1>3, <1>4, <1>5 DEF Carried, Alone, Hosts, InIt, InACall
<1>8. Mild(c, P, d)
    BY <1>3, <1>4, <1>6 DEF Mild
<1>9. Meets(c, P, d)'
    BY <1>1, <1>5, <1>6, <1>7, <1>8, MildMeets DEF Carried, Meeting
<1>10. d = c => CallerGood(c, P)'
    BY <1>1, <1>3, <1>4, <1>5, CallerStill DEF CallerGood, InIt, InACall
<1> QED
    BY <1>5, <1>6, <1>7, <1>9, <1>10, MeetingStill

\* What a user clicks, who has seen the invite, is told by no ear.
LEMMA Clicking ==
    ASSUME NEW c \in Device, NEW P \in SUBSET Device, Started(c, P), NEW d \in P,
           InviteSeen(d), UNCHANGED heard, Carried(c, P, d)
    PROVE  /\ ~Asked(c, d) /\ ~Asked(c, d)' /\ ~Invited(c, d) /\ ~Invited(c, d)'
           /\ Unasked(c, d)' <=> Unasked(c, d)
           /\ \A e \in P : \A kinds : InEar(e, d, kinds)' <=> InEar(e, d, kinds)
<1>1. ~Invited(c, d)
    BY InvitesOver
<1>2. \A e \in P : \A kinds : InEar(e, d, kinds)' <=> InEar(e, d, kinds)
    BY DEF InEar, Holds
<1>3. (Unasked(c, d)' <=> Unasked(c, d)) /\ ~Invited(c, d)'
    BY <1>1, EarsAfter
<1> QED
    BY <1>1, <1>2, <1>3 DEF Asked, Invited, Due

LEMMA HangUpMeets ==
    ASSUME NEW c \in Device, NEW P \in SUBSET Device, Started(c, P), Meeting(c, P), NEW d \in Device,
           HangUp(d)
    PROVE  Meeting(c, P)'
<1>1. StateGood /\ CallerGood(c, P) /\ c \in P /\ DashGood(c, P, d)
    BY DEF Started, Meeting
<1>2. PICK targets : targets = IF dash[d].call THEN Peers(dash[d]) ELSE {}
    OBVIOUS
<1>3. /\ InACall(d) /\ dash[d].doing = "nothing" /\ InviteSeen(d)
      /\ dash' = [dash EXCEPT ![d].doing = "leaving"]
      /\ Post(d, "hangup", targets, NoOne, {})
      /\ UNCHANGED <<quiet, heard>>
    BY <1>2 DEF HangUp, InACall
<1>4. d \in P /\ targets \in SUBSET (P \ {d})
    BY <1>1, <1>2, <1>3, Member DEF DashGood, Peers
<1>5. /\ dash'[d].role = dash[d].role /\ dash'[d].doing = "leaving" /\ dash'[d].group = dash[d].group
      /\ dash'[d].host = dash[d].host
    BY <1>1, <1>3 DEF StateGood, Dash
<1>6. Carried(c, P, d)
    BY HangUpStep
<1>7. /\ ~Asked(c, d) /\ ~Asked(c, d)' /\ ~Invited(c, d) /\ ~Invited(c, d)'
      /\ Unasked(c, d)' <=> Unasked(c, d)
      /\ \A e \in P : \A kinds : InEar(e, d, kinds)' <=> InEar(e, d, kinds)
    BY <1>3, <1>4, <1>6, Clicking
<1>8. /\ targets = {} => sess'[d] = sess[d]
      /\ sess'[d].inbound = sess[d].inbound
      /\ sess'[d].people = sess[d].people
      /\ sess'[d].host = sess[d].host
      /\ targets # {} => sess'[d].state = "ended"
    <2>1. "hangup" \in Kind \ {"invite"} /\ "hangup" \in Leaving /\ targets \in SUBSET Device
          /\ NoOne \in Device \cup {NoOne}
        BY <1>4 DEF Kind, Leaving
    <2> QED
        BY <1>1, <1>3, <2>1, Recorded DEF StateGood
<1>9. Hosts(c)' => Hosts(c)
    BY <1>3, <1>5, <1>6 DEF Carried, Alone, Hosts, InIt, InACall
<1>10. Mild(c, P, d)
    BY <1>5, <1>7, <1>8 DEF Mild
<1>11. Meets(c, P, d)'
    BY <1>1, <1>4, <1>6, <1>9, <1>10, MildMeets DEF Carried, Meeting
<1>12. d = c => CallerGood(c, P)'
    BY <1>1, <1>3, <1>5, <1>6, <1>8, CallerStill DEF CallerGood, InIt, InACall
<1> QED
    BY <1>4, <1>6, <1>9, <1>11, <1>12, MeetingStill

LEMMA DeclineMeets ==
    ASSUME NEW c \in Device, NEW P \in SUBSET Device, Started(c, P), Meeting(c, P), NEW d \in Device,
           Decline(d)
    PROVE  Meeting(c, P)'
<1>1. StateGood /\ CallerGood(c, P) /\ c \in P /\ DashGood(c, P, d)
    BY DEF Started, Meeting
<1>2. /\ dash[d].role = "ringing-in" /\ dash[d].doing = "nothing" /\ InviteSeen(d)
      /\ dash' = [dash EXCEPT ![d].doing = "leaving"]
      /\ Post(d, "reject", {dash[d].peer}, NoOne, {})
      /\ UNCHANGED heard
    BY DEF Decline
<1>3. d \in P /\ d # c /\ dash[d].peer \in P \ {d}
    BY <1>1, <1>2, Member DEF DashGood, CallerGood, InACall
<1>4. /\ dash'[d].role = dash[d].role /\ dash'[d].doing = "leaving" /\ dash'[d].group = dash[d].group
      /\ dash'[d].host = dash[d].host
    BY <1>1, <1>2 DEF StateGood, Dash
<1>5. Carried(c, P, d)
    BY DeclineStep
<1>6. /\ ~Asked(c, d) /\ ~Asked(c, d)' /\ ~Invited(c, d) /\ ~Invited(c, d)'
      /\ Unasked(c, d)' <=> Unasked(c, d)
      /\ \A e \in P : \A kinds : InEar(e, d, kinds)' <=> InEar(e, d, kinds)
    BY <1>2, <1>3, <1>5, Clicking
<1>7. /\ sess'[d].inbound = sess[d].inbound
      /\ sess'[d].people = sess[d].people
      /\ sess'[d].host = sess[d].host
      /\ sess'[d].state = "ended"
    <2>1. PICK targets \in SUBSET Device : targets = {dash[d].peer} /\ targets # {}
        BY <1>3
    <2>2. "reject" \in Kind \ {"invite"} /\ "reject" \in Leaving /\ NoOne \in Device \cup {NoOne}
          /\ Post(d, "reject", targets, NoOne, {})
        BY <1>2, <2>1 DEF Kind, Leaving
    <2>3. sess \in [Device -> Session] /\ d \in Device
        BY <1>1 DEF StateGood
    <2>4. /\ sess'[d].inbound = sess[d].inbound
          /\ "reject" # "accept" => sess'[d].people = sess[d].people
          /\ "reject" # "host" => sess'[d].host = sess[d].host
          /\ targets # {} => ("reject" \in Leaving => sess'[d].state = "ended")
        BY <2>2, <2>3, Recorded
    <2> QED
        BY <2>1, <2>2, <2>4
<1>8. Hosts(c)' => Hosts(c)
    BY <1>1, <1>3, <1>5 DEF Carried, Alone, Hosts, InIt, InACall
<1>9. Mild(c, P, d)
    BY <1>4, <1>6, <1>7 DEF Mild
<1>10. Meets(c, P, d)'
    BY <1>1, <1>3, <1>5, <1>8, <1>9, MildMeets DEF Carried, Meeting
<1> QED
    BY <1>3, <1>5, <1>8, <1>10, MeetingStill

LEMMA AcceptMeets ==
    ASSUME NEW c \in Device, NEW P \in SUBSET Device, Started(c, P), Meeting(c, P), NEW d \in Device,
           Accept(d)
    PROVE  Meeting(c, P)'
<1>1. StateGood /\ CallerGood(c, P) /\ c \in P /\ DashGood(c, P, d)
    BY DEF Started, Meeting
<1>2. /\ dash[d].role = "ringing-in" /\ dash[d].doing = "nothing" /\ InviteSeen(d)
      /\ dash' = [dash EXCEPT ![d].doing = "joining"]
      /\ Post(d, "accept", {dash[d].peer}, NoOne, {})
      /\ UNCHANGED <<quiet, heard>>
    BY DEF Accept
<1>3. d \in P /\ d # c /\ dash[d].peer \in P \ {d}
    BY <1>1, <1>2, Member DEF DashGood, CallerGood, InACall
<1>4. /\ dash'[d].role = dash[d].role /\ dash'[d].doing = "joining" /\ dash'[d].group = dash[d].group
      /\ dash'[d].host = dash[d].host
    BY <1>1, <1>2 DEF StateGood, Dash
<1>5. Carried(c, P, d)
    BY AcceptStep
<1>6. /\ ~Asked(c, d) /\ ~Asked(c, d)' /\ ~Invited(c, d) /\ ~Invited(c, d)'
      /\ Unasked(c, d)' <=> Unasked(c, d)
      /\ \A e \in P : \A kinds : InEar(e, d, kinds)' <=> InEar(e, d, kinds)
    BY <1>2, <1>3, <1>5, Clicking
<1>7. /\ sess'[d].inbound = sess[d].inbound
      /\ sess[d].people \subseteq sess'[d].people /\ sess'[d].people \subseteq sess[d].people \cup P
      /\ sess'[d].host = sess[d].host
      /\ sess'[d].state = "active"
    <2>1. PICK targets \in SUBSET Device : targets = {dash[d].peer} /\ targets # {} /\ targets \subseteq P
        BY <1>3
    <2>2. "accept" \in Kind \ {"invite"} /\ NoOne \in Device \cup {NoOne}
          /\ Post(d, "accept", targets, NoOne, {})
        BY <1>2, <2>1 DEF Kind
    <2>3. sess \in [Device -> Session] /\ d \in Device
        BY <1>1 DEF StateGood
    <2>4. /\ sess'[d].inbound = sess[d].inbound
          /\ sess[d].people \subseteq sess'[d].people
          /\ sess'[d].people \subseteq sess[d].people \cup targets
          /\ "accept" # "host" => sess'[d].host = sess[d].host
          /\ targets # {} => ("accept" = "accept" => sess'[d].state = "active")
        BY <2>2, <2>3, Recorded
    <2> QED
        BY <2>1, <2>4
<1>8. Hosts(c)' => Hosts(c)
    BY <1>1, <1>3, <1>5 DEF Carried, Alone, Hosts, InIt, InACall
<1>9. Mild(c, P, d)
    BY <1>4, <1>6, <1>7 DEF Mild
<1>10. Meets(c, P, d)'
    BY <1>1, <1>3, <1>5, <1>8, <1>9, MildMeets DEF Carried, Meeting
<1> QED
    BY <1>3, <1>5, <1>8, <1>10, MeetingStill

LEMMA ReplyBusyMeets ==
    ASSUME NEW c \in Device, NEW P \in SUBSET Device, Started(c, P), Meeting(c, P), NEW d \in Device,
           ReplyBusy(d)
    PROVE  Meeting(c, P)'
<1>1. StateGood /\ CallerGood(c, P) /\ c \in P /\ DashGood(c, P, d)
    BY DEF Started, Meeting
<1>2. /\ heard[d] # <<>> /\ Dispatched(d).kind = "invite" /\ Taken(d)
      /\ dash[d].role = "elsewhere" /\ dash[d].doing = "nothing" /\ dash[d].group = {}
      /\ Post(d, "busy", {Dispatched(d).from}, NoOne, {})
      /\ UNCHANGED dash
    BY <1>1 DEF ReplyBusy, Polls, Taken, DashGood, InACall
<1>3. d \in P /\ Dispatched(d).from = c /\ d # c
    BY <1>2, Heard
<1>4. Carried(c, P, d)
    BY ReplyBusyStep
<1>5. /\ Unasked(c, d)' <=> Unasked(c, d)
      /\ \A x \in P : \A kinds : InEar(x, d, kinds)' => InEar(x, d, kinds)
      /\ ~Invited(c, d)' /\ ~Asked(c, d)'
    BY <1>2, <1>3, <1>4, EarsAfter DEF Invited, Asked, Due
<1>6. /\ sess'[d].inbound = sess[d].inbound
      /\ sess'[d].people = sess[d].people
      /\ sess'[d].host = sess[d].host
      /\ sess'[d].state = "ended"
    <2>1. PICK targets \in SUBSET Device : targets = {c} /\ targets # {}
        OBVIOUS
    <2>2. "busy" \in Kind \ {"invite"} /\ "busy" \in Leaving /\ NoOne \in Device \cup {NoOne}
          /\ Post(d, "busy", targets, NoOne, {})
        BY <1>2, <1>3, <2>1 DEF Kind, Leaving
    <2> QED
        BY <1>1, <2>1, <2>2, Recorded DEF StateGood
<1>7. Hosts(c)' => Hosts(c)
    BY <1>2, <1>3, <1>4 DEF Carried, Alone, Hosts, InIt, InACall
<1>8. Mild(c, P, d)
    BY <1>2, <1>5, <1>6 DEF Mild
<1>9. Meets(c, P, d)'
    BY <1>1, <1>3, <1>4, <1>7, <1>8, MildMeets DEF Carried, Meeting
<1> QED
    BY <1>3, <1>4, <1>7, <1>9, MeetingStill

LEMMA HearInviteMeets ==
    ASSUME NEW c \in Device, NEW P \in SUBSET Device, Started(c, P), Meeting(c, P), NEW d \in Device,
           HearInvite(d)
    PROVE  Meeting(c, P)'
<1>1. /\ StateGood /\ CallerGood(c, P) /\ c \in P /\ DashGood(c, P, d)
      /\ SignalsGood(c, P) /\ InvitesFirst(c)
    BY DEF Started, Meeting
<1>2. /\ heard[d] # <<>> /\ Dispatched(d).kind = "invite" /\ Taken(d)
      /\ dash' = [dash EXCEPT ![d] = [Bound(d) EXCEPT !.role = "ringing-in",
                    !.host = Dispatched(d).host, !.group = Others(d, Dispatched(d).people)]]
      /\ UNCHANGED <<sess, quiet, wire>>
    BY DEF HearInvite, Polls, Taken
<1>3. /\ d \in P /\ Dispatched(d).from = c /\ d # c /\ Invited(c, d)
      /\ Dispatched(d).people = P /\ Dispatched(d).host = c
    BY <1>2, Heard DEF Invited
<1>4. Bound(d) \in Dash /\ Bound(d).doing = "nothing"
    BY <1>1, <1>2, <1>3, Binding DEF DashGood
<1>5. /\ dash'[d].role = "ringing-in" /\ dash'[d].doing = "nothing" /\ dash'[d].group = P \ {d}
      /\ dash'[d].host = c
    <2>1. dash'[d] = [Bound(d) EXCEPT !.role = "ringing-in", !.host = c, !.group = P \ {d}]
        BY <1>1, <1>2, <1>3 DEF StateGood, Others
    <2> QED
        BY <1>4, <2>1 DEF Dash
<1>6. Carried(c, P, d)
    BY HearInviteStep
<1>7. /\ Unasked(c, d)' <=> Unasked(c, d)
      /\ \A x \in P : \A kinds :
           /\ InEar(x, d, kinds)' => InEar(x, d, kinds)
           /\ InEar(x, d, kinds) /\ ~InEar(x, d, kinds)' => Dispatched(d).kind \in kinds
      /\ ~Invited(c, d)'
    BY <1>2, <1>3, <1>6, EarsAfter
<1>8. Asked(c, d) /\ ~Asked(c, d)' /\ \A e \in P : InEar(e, d, Leaving)' <=> InEar(e, d, Leaving)
    <2>1. Asked(c, d)
        BY <1>1, <1>2, <1>3 DEF Invited, Due, InvitesFirst, Asked
    <2> QED
        BY <1>2, <1>7, <2>1 DEF Leaving, Invited, Due, Asked
<1>9. Hosts(c)' => Hosts(c)
    BY <1>1, <1>3, <1>6 DEF Carried, Alone, Hosts, InIt, InACall
<1>10. Meets(c, P, d)'
    <2>1. CoreGood(c, P, d) /\ RosterGood(c, P, d) /\ TrioGood(c, P, d)
        BY <1>3 DEF Meeting, Meets
    <2>2. CoreGood(c, P, d)'
        BY <1>2, <1>7, <1>9, <2>1 DEF CoreGood
    <2>3. RosterGood(c, P, d)'
        <3>1. \A e \in P \ {d} : e \in sess'[d].people \/ InEar(e, d, Leaving)'
            BY <1>2, <1>8, <2>1 DEF RosterGood
        <3>2. (\E e \in P : InEar(e, d, {"accept"})') => sess'[d].state \in {"active", "ended"}
            BY <1>2, <1>7, <2>1 DEF RosterGood
        <3>3. sess'[d].state = "ended" => sess'[d].people \subseteq {d}
            BY <1>2, <1>8, <2>1 DEF RosterGood
        <3> QED
            BY <1>5, <1>7, <3>1, <3>2, <3>3 DEF RosterGood
    <2>4. HostGood(c, d)'
        BY <1>5 DEF HostGood
    <2>5. TrioGood(c, P, d)'
        <3> SUFFICES ASSUME NEW e \in P, P = {c, d, e}, d # c, e # c, d # e, ~Left(c, d)'
                     PROVE  /\ dash'[d].host \in {c, Heir(c, P)} /\ c \in dash'[d].group
                            /\ ~InEar(e, d, Leaving)' =>
                                 /\ sess'[d].host \in {c, Heir(c, P)}
                                 /\ InEar(c, d, Leaving)' => sess'[d].host = Heir(c, P)
            BY <1>8 DEF TrioGood, Heir
        <3>1. ~Left(c, d)
            BY <1>6 DEF Carried
        <3> QED
            BY <1>1, <1>2, <1>5, <1>8, <2>1, <3>1 DEF TrioGood
    <2> QED
        BY <2>2, <2>3, <2>4, <2>5 DEF Meets
<1> QED
    BY <1>3, <1>6, <1>9, <1>10, MeetingStill

LEMMA HearHostMeets ==
    ASSUME NEW c \in Device, NEW P \in SUBSET Device, Started(c, P), Meeting(c, P), NEW d \in Device,
           HearHost(d)
    PROVE  Meeting(c, P)'
<1>1. StateGood /\ CallerGood(c, P) /\ c \in P /\ Claims(c, P)
    BY DEF Started, Meeting
<1>2. InACall(d) /\ Taken(d) /\ heard[d] # <<>> /\ Dispatched(d).kind = "host"
    BY DEF HearHost, Polls, Taken
<1>3. /\ dash' = [dash EXCEPT ![d] = [Bound(d) EXCEPT !.host = Dispatched(d).host]]
      /\ UNCHANGED <<sess, quiet, wire>>
    BY DEF HearHost
<1>4. PICK s \in P \ {d} : /\ s = Dispatched(d).from /\ s = Dispatched(d).host
                           /\ Due(s, d, {"host"})
    BY <1>2, Heard
<1>5. /\ dash'[d].role = dash[d].role /\ dash'[d].doing = dash[d].doing /\ dash'[d].group = dash[d].group
      /\ dash'[d].host = s
    BY <1>1, <1>2, <1>3, <1>4, Binding DEF StateGood, Dash
<1>6. Carried(c, P, d)
    BY HearHostStep
<1>7. /\ d \in P /\ ~Asked(c, d) /\ ~Asked(c, d)' /\ ~Invited(c, d)'
      /\ Unasked(c, d)' <=> Unasked(c, d)
      /\ \A e \in P : InEar(e, d, {"accept"})' => InEar(e, d, {"accept"})
      /\ \A e \in P : InEar(e, d, Leaving)' <=> InEar(e, d, Leaving)
    BY <1>2, <1>6, Polling DEF Leaving
<1>8. ~Hosts(c) /\ ~Hosts(c)'
    <2>1. ~Hosts(c)
        BY <1>1, <1>4, <1>7 DEF Claims
    <2>2. Hosts(c)' => Hosts(c)
        BY <1>3, <1>5, <1>6 DEF Carried, Alone, Hosts, InIt, InACall
    <2> QED
        BY <2>1, <2>2
<1>9. Meets(c, P, d)'
    <2>1. CoreGood(c, P, d) /\ RosterGood(c, P, d) /\ TrioGood(c, P, d)
        BY <1>7 DEF Meeting, Meets
    <2>2. CoreGood(c, P, d)'
        BY <1>3, <1>7, <1>8, <2>1 DEF CoreGood
    <2>3. RosterGood(c, P, d)'
        BY <1>3, <1>5, <1>7, <2>1 DEF RosterGood
    <2>4. HostGood(c, d)'
        BY <1>8 DEF HostGood
    <2>5. TrioGood(c, P, d)'
        <3> SUFFICES ASSUME NEW e \in P, P = {c, d, e}, d # c, e # c, d # e, ~Left(c, d)'
                     PROVE  /\ dash'[d].host = Heir(c, P)
                            /\ e \in dash'[d].group /\ ~InEar(e, d, Leaving)' =>
                                 /\ sess'[d].host \in {c, Heir(c, P)}
                                 /\ InEar(c, d, Leaving)' \/ c \notin dash'[d].group => sess'[d].host = Heir(c, P)
            BY <1>7 DEF TrioGood, Heir
        <3>1. ~Left(c, d)
            BY <1>6 DEF Carried
        <3>2. Cardinality(P) <= 3
            <4>1. IsFiniteSet({c, d}) /\ Cardinality({c, d}) = 2
                BY PairSize
            <4>2. e \notin {c, d} /\ P = {c, d} \cup {e}
                OBVIOUS
            <4> QED
                BY <4>1, <4>2, FS_AddElement
        <3>3. s = Heir(c, P)
            BY <1>1, <1>4, <1>7, <3>1, <3>2 DEF Claims
        <3> QED
            BY <1>3, <1>5, <1>7, <2>1, <3>1, <3>3 DEF TrioGood
    <2> QED
        BY <2>2, <2>3, <2>4, <2>5 DEF Meets
<1>10. ASSUME d = c PROVE CallerGood(c, P)'
    <2>1. \A g \in P : Left(c, g) => Left(c, g)'
        BY <1>6 DEF Carried
    <2>2. Cardinality(P) <= 3 => \A y \in P \ {c, s} : Left(c, y)
        BY <1>1, <1>4, <1>7, <1>10 DEF Claims
    <2> QED
        BY <1>1, <1>3, <1>5, <1>8, <1>10, <2>1, <2>2 DEF CallerGood, Hosts
<1> QED
    BY <1>6, <1>7, <1>8, <1>9, <1>10, MeetingStill

LEMMA HearOneLeaveMeets ==
    ASSUME NEW c \in Device, NEW P \in SUBSET Device, Started(c, P), Meeting(c, P), NEW d \in Device,
           HearOneLeave(d)
    PROVE  Meeting(c, P)'
<1>1. StateGood /\ CallerGood(c, P) /\ c \in P /\ DashGood(c, P, d)
    BY DEF Started, Meeting
<1>2. /\ heard[d] # <<>> /\ Dispatched(d).kind \in Leaving /\ Taken(d) /\ InACall(d)
      /\ Dispatched(d).kind # "invite" /\ Dispatched(d).kind # "accept"
    BY DEF HearOneLeave, Polls, Taken, Leaving
<1>3. PICK gone \in P \ {d} : gone = Dispatched(d).from /\ Left(c, gone) /\ LeaveDue(gone, d)
    BY <1>2, HeardLeaver
<1>4. PICK left \in SUBSET (P \ {d}) : left = dash[d].group \ {gone}
    BY <1>1 DEF DashGood
<1>5. PICK next : next = IF dash[d].host = gone THEN Lowest(left \cup {d}) ELSE dash[d].host
    OBVIOUS
<1>6. PICK peer \in IF Bound(d).peer = gone THEN left ELSE {Bound(d).peer} :
        /\ gone \in dash[d].group
        /\ Cardinality(dash[d].group) > 1
        /\ dash' = [dash EXCEPT ![d] = [Bound(d) EXCEPT !.group = left, !.host = next, !.peer = peer]]
        /\ IF dash[d].host = gone /\ next = d /\ AllowHostClaim(sess[d], d)
             THEN Post(d, "host", left, d, {})
             ELSE UNCHANGED <<sess, wire>>
        /\ UNCHANGED quiet
    BY <1>3, <1>4, <1>5 DEF HearOneLeave, Promoted
<1>7. left # {}
    <2> SUFFICES ASSUME left = {} PROVE FALSE
        OBVIOUS
    <2>1. dash[d].group = {gone}
        BY <1>4, <1>6
    <2>2. Cardinality({gone}) = 1
        BY FS_Singleton
    <2> QED
        BY <1>6, <2>1, <2>2
<1>8. /\ dash'[d].role = dash[d].role /\ dash'[d].doing = dash[d].doing /\ dash'[d].group = left
      /\ dash'[d].host = next
    BY <1>1, <1>2, <1>6, Binding DEF StateGood, Dash
<1>9. Carried(c, P, d)
    BY HearOneLeaveStep
<1>10. /\ d \in P /\ ~Asked(c, d) /\ ~Asked(c, d)' /\ ~Invited(c, d)'
       /\ Unasked(c, d)' <=> Unasked(c, d)
       /\ \A e \in P : InEar(e, d, {"accept"})' => InEar(e, d, {"accept"})
       /\ \A e \in P \ {gone} : InEar(e, d, Leaving)' <=> InEar(e, d, Leaving)
       /\ InEar(gone, d, Leaving) /\ (InEar(c, d, Leaving)' => InEar(c, d, Leaving))
    <2>1. InEar(gone, d, {Dispatched(d).kind})
        BY <1>2, <1>3, <1>9, Polling
    <2>2. InEar(gone, d, Leaving)
        BY <1>2, <2>1 DEF InEar, Holds
    <2> QED
        BY <1>1, <1>2, <1>3, <1>9, <2>2, Polling
<1>11. Hosts(c)' => Hosts(c)
    BY <1>6, <1>8, <1>9 DEF Carried, Alone, Hosts, InIt, InACall
\* The Core follows only when d hosts next.
<1>12. /\ sess'[d].inbound = sess[d].inbound /\ sess'[d].people = sess[d].people
       /\ sess'[d].state = "none" => sess[d].state = "none"
       /\ sess[d].state \in {"active", "ended"} => sess'[d].state = sess[d].state
       /\ sess'[d].state = "ended" => sess[d].state = "ended"
       /\ sess'[d].host = sess[d].host \/ (dash[d].host = gone /\ next = d /\ sess'[d].host = d)
    <2>1. CASE dash[d].host = gone /\ next = d /\ AllowHostClaim(sess[d], d)
        <3>1. "host" \in Kind \ {"invite"} /\ "host" \notin Leaving /\ left \in SUBSET Device
              /\ d \in Device \cup {NoOne} /\ Post(d, "host", left, d, {})
            BY <1>6, <2>1 DEF Kind, Leaving
        <3>2. sess \in [Device -> Session] /\ d \in Device
            BY <1>1 DEF StateGood
        <3>3. /\ sess'[d].inbound = sess[d].inbound
              /\ "host" # "accept" => sess'[d].people = sess[d].people
              /\ left # {} => ("host" = "host" =>
                     /\ sess'[d].host = d
                     /\ sess'[d].state = IF sess[d].state \in {"none", "ringing"} THEN "active" ELSE sess[d].state)
            BY <3>1, <3>2, Recorded
        <3> QED
            BY <1>7, <2>1, <3>3
    <2>2. CASE ~(dash[d].host = gone /\ next = d /\ AllowHostClaim(sess[d], d))
        BY <1>6, <2>2
    <2> QED
        BY <2>1, <2>2
\* While the caller is in the call, it hosts and has not left.
<1>13. Hosts(c) => dash[d].host = c /\ gone # c /\ next = c /\ sess'[d].host = sess[d].host
    <2> SUFFICES ASSUME Hosts(c) PROVE dash[d].host = c /\ gone # c
        BY <1>5, <1>12
    <2>1. dash[d].host = c
        BY <1>6, <1>10 DEF Meeting, Meets, HostGood
    <2> QED
        BY <1>3, <1>10, <2>1, NotTold
<1>14. Meets(c, P, d)'
    <2>1. CoreGood(c, P, d) /\ RosterGood(c, P, d) /\ TrioGood(c, P, d)
        BY <1>10 DEF Meeting, Meets
    <2>2. CoreGood(c, P, d)'
        BY <1>10, <1>11, <1>12, <1>13, <2>1 DEF CoreGood
    <2>3. RosterGood(c, P, d)'
        <3>1. \A e \in P \ {d} : e \in left => e \in sess'[d].people \/ InEar(e, d, Leaving)'
            BY <1>4, <1>10, <1>12, <2>1 DEF RosterGood
        <3>2. dash'[d].role = "active" \/ dash'[d].doing = "joining" \/ (\E e \in P : InEar(e, d, {"accept"})') =>
                sess'[d].state \in {"active", "ended"}
            BY <1>8, <1>10, <1>12, <2>1 DEF RosterGood
        <3>3. dash'[d].doing # "leaving" => (sess'[d].state = "ended" => sess'[d].people \subseteq {d})
            BY <1>6, <1>8, <1>12, <2>1 DEF RosterGood
        <3> QED
            BY <1>8, <1>10, <3>1, <3>2, <3>3 DEF RosterGood
    <2>4. HostGood(c, d)'
        BY <1>8, <1>11, <1>13 DEF HostGood
    <2>5. TrioGood(c, P, d)'
        <3> SUFFICES ASSUME NEW e \in P, P = {c, d, e}, d # c, e # c, d # e, ~Left(c, d)', e \in left
                     PROVE  /\ next \in {c, Heir(c, P)} /\ (c \notin left => next = Heir(c, P))
                            /\ ~InEar(e, d, Leaving)' =>
                                 /\ sess'[d].host \in {c, Heir(c, P)}
                                 /\ InEar(c, d, Leaving)' \/ c \notin left => sess'[d].host = Heir(c, P)
            BY <1>8, <1>10 DEF TrioGood, Heir
        <3>1. ~Left(c, d)
            BY <1>9 DEF Carried
        <3>2. e \in dash[d].group /\ e # gone /\ gone = c
            BY <1>3, <1>4
        <3>3. left \cup {d} = P \ {c} /\ c \notin left
            BY <1>4, <3>2
        <3>4. dash[d].host \in {c, Heir(c, P)} /\ next = Heir(c, P)
            BY <1>5, <2>1, <3>1, <3>2, <3>3 DEF TrioGood, Heir
        <3>5. ~InEar(e, d, Leaving)' => sess[d].host = Heir(c, P)
            BY <1>10, <2>1, <3>1, <3>2 DEF TrioGood
        <3> QED
            BY <1>12, <3>3, <3>4, <3>5
    <2> QED
        BY <2>2, <2>3, <2>4, <2>5 DEF Meets
<1>15. ASSUME d = c PROVE CallerGood(c, P)'
    <2>1. \A g \in P : Left(c, g) => Left(c, g)'
        BY <1>9 DEF Carried
    <2>2. Cardinality(P) <= 3 => next = c \/ \A y \in P \ {c, next} : Left(c, y)
        <3> SUFFICES ASSUME Cardinality(P) <= 3, next # c, NEW y \in P \ {c, next} PROVE Left(c, y)
            OBVIOUS
        <3>1. dash[c].host = c \/ \A z \in P \ {c, dash[c].host} : Left(c, z)
            BY <1>1, <1>2, <1>15 DEF CallerGood
        <3>2. CASE dash[c].host # gone
            BY <1>5, <1>15, <3>1, <3>2
        <3>3. CASE dash[c].host = gone
            <4>1. next \in left \cup {c}
                <5>1. left \cup {c} \in SUBSET Device /\ left \cup {c} # {}
                    OBVIOUS
                <5> QED
                    BY <1>5, <1>15, <3>3, <5>1, LowestOne
            <4>2. P = {c, gone, next}
                BY <1>1, <1>3, <1>4, <1>15, <4>1, ThreeOnly
            <4> QED
                BY <1>3, <4>2
        <3> QED
            BY <3>2, <3>3
    <2>3. c \in quiet => \A y \in P : ~LeaveDue(c, y)'
        BY <1>1, <1>9, <1>15 DEF Carried, Started, Leaves, CallerGood
    <2> QED
        BY <1>1, <1>6, <1>7, <1>8, <1>12, <1>15, <2>1, <2>2, <2>3 DEF CallerGood
<1> QED
    BY <1>9, <1>10, <1>11, <1>14, <1>15, MeetingStill

\* Where a delivered signal goes.
LEMMA Arrival ==
    ASSUME NEW c \in Device, NEW P \in SUBSET Device, Started(c, P),
           NEW s \in Device, NEW d \in Device, Delivered(s, d), NEW m, m = Head(wire[s][d])
    PROVE  /\ \A x \in P : \A y \in P \ {d} : \A kinds : InEar(x, y, kinds)' <=> InEar(x, y, kinds)
           /\ \A y \in P \ {d} : Unasked(c, y)' <=> Unasked(c, y)
           /\ \A x \in P : \A kinds : InEar(x, d, kinds)' <=> InEar(x, d, kinds) \/ (x = s /\ m.kind \in kinds)
           /\ m.kind # "invite" => ~Unasked(c, d)
           /\ m.kind = "invite" => \A x \in P : \A kinds : ~InEar(x, d, kinds)
           /\ ~Unasked(c, d)'
<1>1. SignalsGood(c, P) /\ InvitesFirst(c) /\ c \in P
    BY DEF Started
<1>2. /\ wire \in [Device -> [Device -> Seq(Signal)]] /\ heard \in [Device -> Seq(Signal)]
      /\ wire[s][d] # <<>> /\ wire[s][d] \in Seq(Signal) /\ heard[d] \in Seq(Signal)
      /\ m \in Said(c, P, s, d) /\ m \in Signal /\ m.from = s /\ (m.kind = "invite" => s = c)
    <2>1. wire[s][d] \in Seq(Said(c, P, s, d)) /\ wire[s][d] # <<>>
        BY <1>1 DEF SignalsGood, Delivered
    <2>2. m \in Said(c, P, s, d)
        BY <2>1, HeadTailProperties
    <2> QED
        BY <1>1, <2>1, <2>2 DEF SignalsGood, Said, Word
<1>3. /\ heard'[d] = Append(heard[d], m) /\ \A y \in Device \ {d} : heard'[y] = heard[y]
      /\ wire'[s][d] = Tail(wire[s][d])
      /\ \A x, y \in Device : x # s \/ y # d => wire'[x][y] = wire[x][y]
    BY <1>2 DEF Delivered
<1>4. ASSUME NEW x \in P, NEW kinds
      PROVE  InEar(x, d, kinds)' <=> InEar(x, d, kinds) \/ (x = s /\ m.kind \in kinds)
    <2>1. Holds(Append(heard[d], m), x, kinds) <=> Holds(heard[d], x, kinds) \/ (m.from = x /\ m.kind \in kinds)
        BY <1>2, HoldsAppended
    <2>2. InEar(x, d, kinds)' <=> Holds(heard'[d], x, kinds)
        BY DEF InEar, Holds
    <2> QED
        BY <1>2, <1>3, <2>1, <2>2 DEF InEar
<1>5. \A x \in P : \A y \in P \ {d} : \A kinds : InEar(x, y, kinds)' <=> InEar(x, y, kinds)
    BY <1>3 DEF InEar, Holds
<1>6. \A y \in P \ {d} : Unasked(c, y)' <=> Unasked(c, y)
    BY <1>3 DEF Unasked, OnWire, Holds
<1>7. ASSUME Unasked(c, d)
      PROVE  s = c /\ m.kind = "invite" /\ Len(wire[c][d]) = 1
    <2>1. /\ Len(wire[c][d]) = 1
          /\ \A x \in Device \ {c} : wire[x][d] = <<>>
        BY <1>1, <1>7 DEF InvitesFirst, Unasked
    <2>2. s = c
        BY <1>2, <2>1
    <2>3. PICK i \in 1..Len(wire[c][d]) : wire[c][d][i].kind = "invite"
        BY <1>7 DEF Unasked, OnWire, Holds
    <2>4. i = 1
        BY <2>1, <2>3
    <2> QED
        BY <1>2, <2>1, <2>2, <2>3, <2>4, HeadTailProperties
<1>8. ASSUME m.kind = "invite" PROVE Unasked(c, d) /\ heard[d] = <<>>
    <2>0. Head(wire[s][d]).from = s /\ Head(wire[s][d]).kind \in {"invite"} => Holds(wire[s][d], s, {"invite"})
        BY <1>2, HoldsTail
    <2>1. Holds(wire[s][d], s, {"invite"}) /\ s = c
        BY <1>2, <1>8, <2>0
    <2>2. Unasked(c, d)
        BY <2>1 DEF Unasked, OnWire
    <2> QED
        BY <1>1, <2>2 DEF InvitesFirst, Unasked
<1>9. m.kind = "invite" => \A x \in P : \A kinds : ~InEar(x, d, kinds)
    BY <1>8, HoldsNothing DEF InEar
<1>10. ~Unasked(c, d)'
    <2>1. CASE Unasked(c, d)
        <3>1. Len(Tail(wire[c][d])) = 0
            <4>1. s = c /\ Len(wire[c][d]) = 1 /\ wire[c][d] \in Seq(Signal) /\ wire[c][d] # <<>>
                BY <1>2, <1>7, <2>1
            <4>2. Len(Tail(wire[c][d])) = Len(wire[c][d]) - 1
                BY <4>1, HeadTailProperties
            <4> QED
                BY <4>1, <4>2
        <3>2. Unasked(c, d)' <=> \E i \in 1..Len(wire'[c][d]) : wire'[c][d][i].from = c /\ wire'[c][d][i].kind \in {"invite"}
            BY DEF Unasked, OnWire, Holds
        <3>3. s = c
            BY <1>7, <2>1
        <3>4. wire'[c][d] = Tail(wire[c][d])
            BY <1>3, <3>3
        <3>5. Len(wire'[c][d]) = 0
            BY <3>1, <3>4
        <3> QED
            BY <3>2, <3>5
    <2>2. CASE ~Unasked(c, d)
        <3>1. CASE s = c
            <4>1. Holds(Tail(wire[c][d]), c, {"invite"}) => Holds(wire[c][d], c, {"invite"})
                BY <1>2, <3>1, HoldsTail
            <4>2. Unasked(c, d)' <=> Holds(wire'[c][d], c, {"invite"})
                BY DEF Unasked, OnWire, Holds
            <4> QED
                BY <1>3, <2>2, <3>1, <4>1, <4>2 DEF Unasked, OnWire
        <3>2. CASE s # c
            BY <1>3, <2>2, <3>2 DEF Unasked, OnWire, Holds
        <3> QED
            BY <3>1, <3>2
    <2> QED
        BY <2>1, <2>2
<1> QED
    BY <1>4, <1>5, <1>6, <1>7, <1>9, <1>10

\* What a delivery makes of the Core's session.
LEMMA Recording ==
    ASSUME NEW s \in Session, NEW m \in Signal, NEW d \in Device, d \in s.people, m.from # d
    PROVE  /\ m.kind # "invite" => Received(s, m).inbound = s.inbound
           /\ m.kind = "accept" =>
                /\ Received(s, m).state = "active" /\ Received(s, m).host = s.host
                /\ Received(s, m).people = s.people \cup {m.from}
           /\ m.kind = "host" =>
                /\ Received(s, m).host = m.host /\ Received(s, m).people = s.people
                /\ Received(s, m).state = IF s.state \in {"none", "ringing"} THEN "active" ELSE s.state
           /\ m.kind \in Leaving =>
                /\ Received(s, m).people = s.people \ {m.from}
                /\ Received(s, m).host = IF s.host = m.from THEN Lowest(s.people \ {m.from}) ELSE s.host
                /\ \/ Received(s, m).state = s.state
                   \/ Received(s, m).state = "ended" /\ Received(s, m).people = {d}
<1>0. m.kind \in Kind
    BY DEF Signal
<1>1. CASE m.kind = "accept"
    BY <1>1 DEF Received, Session, Leaving
<1>2. CASE m.kind = "host"
    BY <1>2 DEF Received, Session, Leaving
<1>3. CASE m.kind \in Leaving
    <2>1. PICK left \in SUBSET Device : left = s.people \ {m.from} /\ d \in left
        BY DEF Session
    <2>2. Received(s, m) = [s EXCEPT !.people = left,
                              !.host = IF @ = m.from /\ left # {} THEN Lowest(left) ELSE @,
                              !.state = IF Cardinality(left) <= 1 THEN "ended" ELSE @]
        BY <1>3, <2>1 DEF Received, WithoutLeaver, Leaving
    <2>4. Cardinality(left) <= 1 => left = {d}
        <3> SUFFICES ASSUME Cardinality(left) <= 1, NEW e \in left, e # d PROVE FALSE
            BY <2>1
        <3>1. IsFiniteSet(left) /\ {e, d} \subseteq left
            BY <2>1, DeviceAssumption, FS_Subset
        <3>2. Cardinality({e, d}) = 2 /\ Cardinality({e, d}) <= Cardinality(left) /\ Cardinality(left) \in Nat
            BY <3>1, FS_Subset, FS_CardinalityType, PairSize
        <3> QED
            BY <3>2
    <2>6. /\ Received(s, m).people = left /\ Received(s, m).inbound = s.inbound
          /\ Received(s, m).host = IF s.host = m.from THEN Lowest(left) ELSE s.host
          /\ Received(s, m).state = IF Cardinality(left) <= 1 THEN "ended" ELSE s.state
        BY <2>1, <2>2 DEF Session
    <2> QED
        BY <1>3, <2>1, <2>4, <2>6 DEF Leaving
<1>4. CASE m.kind = "invite"
    BY <1>4 DEF Leaving
<1> QED
    BY <1>0, <1>1, <1>2, <1>3, <1>4 DEF Kind, Leaving

LEMMA DeliverMeets ==
    ASSUME NEW c \in Device, NEW P \in SUBSET Device, Started(c, P), Meeting(c, P),
           NEW s \in Device, NEW d \in Device, Deliver(s, d)
    PROVE  Meeting(c, P)'
<1>1. /\ StateGood /\ CallerGood(c, P) /\ c \in P /\ Claims(c, P) /\ DashGood(c, P, d)
      /\ SignalsGood(c, P) /\ InvitesFirst(c) /\ Leaves(c, P)
    BY DEF Started, Meeting
<1>2. /\ Delivered(s, d) /\ UNCHANGED <<dash, quiet>>
      /\ sess' = [sess EXCEPT ![d] = Received(@, Head(wire[s][d]))]
    BY DEF Deliver, Delivered
<1>3. PICK m : m = Head(wire[s][d])
    OBVIOUS
<1>4. /\ s \in P /\ d \in P /\ s # d /\ m \in Signal /\ m.from = s
      /\ m.kind = "invite" => s = c /\ m.people = P /\ m.host = c
      /\ m.kind = "host" => m.host = s
      /\ OnWire(s, d, {m.kind})
      /\ \A x, y \in Device : \A kinds : Due(x, y, kinds)' <=> Due(x, y, kinds)
    BY <1>1, <1>2, <1>3, Delivery DEF Said, Word
<1>5. \A g \in P : Left(c, g) => Left(c, g)'
    BY DeliverStep
<1>6. /\ \A x \in P : \A y \in P \ {d} : \A kinds : InEar(x, y, kinds)' <=> InEar(x, y, kinds)
      /\ \A y \in P \ {d} : Unasked(c, y)' <=> Unasked(c, y)
      /\ \A x \in P : \A kinds : InEar(x, d, kinds)' <=> InEar(x, d, kinds) \/ (x = s /\ m.kind \in kinds)
      /\ m.kind # "invite" => ~Unasked(c, d)
      /\ m.kind = "invite" => \A x \in P : \A kinds : ~InEar(x, d, kinds)
      /\ ~Unasked(c, d)'
    BY <1>2, <1>3, Arrival
<1>7. (InIt(c)' <=> InIt(c)) /\ (Hosts(c)' <=> Hosts(c)) /\ \A y \in P : LeaveDue(c, y)' <=> LeaveDue(c, y)
    BY <1>1, <1>2, <1>4 DEF Hosts, InIt, InACall, LeaveDue
<1>8. sess[d] \in Session /\ sess'[d] = Received(sess[d], m) /\ \A y \in P \ {d} : sess'[y] = sess[y]
    BY <1>1, <1>2, <1>3, <1>4 DEF StateGood
<1>9. Claims(c, P)'
    BY <1>1, <1>4, <1>5, <1>7 DEF Claims, Heir
<1>10. \A y \in P \ {d} : Meets(c, P, y)'
    <2>1. \A y \in P \ {d} : Same(c, P, y)
        BY <1>2, <1>6, <1>8 DEF Same
    <2> QED
        BY <1>1, <1>5, <1>7, <2>1, SameMeets DEF Meeting
<1>11. Meets(c, P, d) /\ (Invited(c, d)' <=> Invited(c, d))
    BY <1>1, <1>4 DEF Meeting, Invited
<1>12. CASE m.kind = "invite"
    <2>1. d # c /\ Invited(c, d) /\ Asked(c, d)'
        BY <1>4, <1>6, <1>12 DEF Invited, Due, Asked
    <2>2. /\ sess'[d].state = "ringing" /\ sess'[d].inbound /\ sess'[d].host = c /\ sess'[d].people = P
        <3>1. sess'[d] = [sess[d] EXCEPT !.state = "ringing", !.inbound = TRUE,
                                         !.peer = m.from, !.host = c, !.people = P]
            BY <1>4, <1>8, <1>12 DEF Received, Leaving
        <3> QED
            BY <1>8, <3>1 DEF Session
    <2>3. CoreGood(c, P, d)'
        BY <1>4, <2>1, <2>2 DEF CoreGood
    <2>4. dash[d].role # "active" /\ dash[d].doing = "nothing" /\ dash[d].group = {}
        BY <1>1, <1>11, <2>1 DEF Meets, RosterGood, DashGood
    <2>5. \A x \in P : ~InEar(x, d, Leaving)' /\ ~InEar(x, d, {"accept"})'
        BY <1>6, <1>12 DEF Leaving
    <2>6. RosterGood(c, P, d)'
        BY <1>2, <2>2, <2>4, <2>5 DEF RosterGood
    <2>7. HostGood(c, d)'
        BY <1>2, <1>7, <1>11 DEF Meets, HostGood
    <2>8. TrioGood(c, P, d)'
        BY <1>1, <1>2, <1>5, <1>11, <2>1, <2>2, <2>5 DEF Meets, TrioGood, Heir
    <2>9. CallerGood(c, P)'
        BY <1>1, <1>2, <1>5, <1>7, <1>8, <2>1 DEF CallerGood, InACall
    <2> QED
        BY <1>9, <1>10, <2>3, <2>6, <2>7, <2>8, <2>9 DEF Meeting, Meets
<1>13. CASE m.kind # "invite"
    <2>1. /\ ~Unasked(c, d) /\ (Asked(c, d)' <=> Asked(c, d))
          /\ d # c => sess[d].inbound
          /\ sess[d].state # "none"
          /\ d \in sess[d].people /\ sess[d].people \subseteq P
          /\ Hosts(c) => sess[d].host = c
          /\ RosterGood(c, P, d) /\ TrioGood(c, P, d)
        BY <1>1, <1>6, <1>11, <1>13 DEF Meets, CoreGood, Asked
    <2>2. /\ sess'[d].inbound = sess[d].inbound
          /\ m.kind = "accept" =>
                /\ sess'[d].state = "active" /\ sess'[d].host = sess[d].host
                /\ sess'[d].people = sess[d].people \cup {s}
          /\ m.kind = "host" =>
                /\ sess'[d].host = s /\ sess'[d].people = sess[d].people
                /\ sess'[d].state = IF sess[d].state \in {"none", "ringing"} THEN "active" ELSE sess[d].state
          /\ m.kind \in Leaving =>
                /\ sess'[d].people = sess[d].people \ {s}
                /\ sess'[d].host = IF sess[d].host = s THEN Lowest(sess[d].people \ {s}) ELSE sess[d].host
                /\ sess'[d].state = sess[d].state \/ (sess'[d].state = "ended" /\ sess'[d].people = {d})
        BY <1>4, <1>8, <1>13, <2>1, Recording
    <2>3. m.kind \in Leaving \/ m.kind = "accept" \/ m.kind = "host"
        BY <1>4, <1>13 DEF Signal, Kind, Leaving
    <2>4. m.kind \in Leaving => Left(c, s) /\ LeaveDue(s, d) /\ s # d
        <3> SUFFICES ASSUME m.kind \in Leaving PROVE Left(c, s) /\ LeaveDue(s, d)
            BY <1>4
        <3>1. LeaveDue(s, d)
            BY <1>4 DEF LeaveDue, Due, OnWire, Holds
        <3> QED
            BY <1>1, <1>4, <3>1 DEF Leaves
    <2>5. m.kind = "host" => Due(s, d, {"host"}) /\ ~Hosts(c)
        BY <1>1, <1>4 DEF Due, Claims
    <2>6. Hosts(c) => sess'[d].host = c
        BY <1>4, <2>1, <2>2, <2>3, <2>4, <2>5, NotTold
    <2>7. CoreGood(c, P, d)'
        <3>1. sess'[d].state # "none" /\ d \in sess'[d].people /\ sess'[d].people \subseteq P
            BY <1>4, <2>1, <2>2, <2>3
        <3> QED
            BY <1>7, <2>1, <2>2, <2>6, <3>1 DEF CoreGood
    <2>8. RosterGood(c, P, d)'
        <3>1. ASSUME NEW e \in P \ {d}, e \in dash[d].group \/ Asked(c, d)
              PROVE  e \in sess'[d].people \/ InEar(e, d, Leaving)'
            <4>1. e \in sess[d].people \/ InEar(e, d, Leaving)
                BY <2>1, <3>1 DEF RosterGood
            <4> QED
                BY <1>6, <2>2, <2>3, <4>1
        <3>2. dash[d].role = "active" \/ dash[d].doing = "joining" \/ (\E e \in P : InEar(e, d, {"accept"})') =>
                sess'[d].state \in {"active", "ended"}
            BY <1>6, <2>1, <2>2, <2>3 DEF RosterGood
        <3>3. (dash[d].group # {} /\ dash[d].doing # "leaving") \/ Asked(c, d) =>
                (sess'[d].state = "ended" => sess'[d].people \subseteq {d})
            BY <2>1, <2>2, <2>3 DEF RosterGood
        <3>4. Invited(c, d)' => dash[d].role # "active" /\ dash[d].group = {}
            BY <1>11, <2>1 DEF RosterGood
        <3> QED
            BY <1>2, <2>1, <3>1, <3>2, <3>3, <3>4 DEF RosterGood
    <2>9. HostGood(c, d)'
        BY <1>2, <1>7, <1>11 DEF Meets, HostGood
    <2>10. TrioGood(c, P, d)'
        <3> SUFFICES ASSUME NEW e \in P, P = {c, d, e}, d # c, e # c, d # e, ~Left(c, d)'
                     PROVE  /\ e \in dash[d].group =>
                                 /\ dash[d].host \in {c, Heir(c, P)}
                                 /\ c \notin dash[d].group => dash[d].host = Heir(c, P)
                            /\ (e \in dash[d].group \/ Asked(c, d)) /\ ~InEar(e, d, Leaving)' =>
                                 /\ sess'[d].host \in {c, Heir(c, P)}
                                 /\ InEar(c, d, Leaving)' \/ (~Asked(c, d) /\ c \notin dash[d].group) =>
                                      sess'[d].host = Heir(c, P)
            BY <1>2, <2>1 DEF TrioGood, Heir
        <3>1. ~Left(c, d)
            BY <1>4, <1>5
        <3>2. /\ e \in dash[d].group =>
                   /\ dash[d].host \in {c, Heir(c, P)}
                   /\ c \notin dash[d].group => dash[d].host = Heir(c, P)
              /\ (e \in dash[d].group \/ Asked(c, d)) /\ ~InEar(e, d, Leaving) =>
                   /\ sess[d].host \in {c, Heir(c, P)}
                   /\ InEar(c, d, Leaving) \/ (~Asked(c, d) /\ c \notin dash[d].group) => sess[d].host = Heir(c, P)
            BY <2>1, <3>1 DEF TrioGood
        <3>3. ASSUME e \in dash[d].group \/ Asked(c, d), ~InEar(e, d, Leaving)'
              PROVE  /\ sess'[d].host \in {c, Heir(c, P)}
                     /\ InEar(c, d, Leaving)' \/ (~Asked(c, d) /\ c \notin dash[d].group) =>
                          sess'[d].host = Heir(c, P)
            <4>1. ~InEar(e, d, Leaving) /\ ~(s = e /\ m.kind \in Leaving)
                BY <1>6, <3>3
            <4>2. CASE m.kind = "accept"
                BY <1>6, <2>2, <3>2, <3>3, <4>1, <4>2 DEF Leaving
            <4>3. CASE m.kind = "host"
                <5>1. Cardinality(P) <= 3
                    <6>1. IsFiniteSet({c, d}) /\ Cardinality({c, d}) = 2
                        BY PairSize
                    <6>2. e \notin {c, d} /\ P = {c, d} \cup {e}
                        OBVIOUS
                    <6> QED
                        BY <6>1, <6>2, FS_AddElement
                <5>2. s = Heir(c, P)
                    BY <1>1, <1>4, <2>5, <3>1, <4>3, <5>1 DEF Claims
                <5> QED
                    BY <2>2, <4>3, <5>2
            <4>4. CASE m.kind \in Leaving
                <5>1. s = c
                    BY <1>4, <4>1, <4>4
                <5>2. e \in sess[d].people
                    BY <2>1, <3>3, <4>1 DEF RosterGood
                <5>3. sess[d].people \ {c} = P \ {c}
                    BY <2>1, <5>2
                <5>4. sess[d].host \in {c, Heir(c, P)}
                    BY <3>2, <3>3, <4>1
                <5> QED
                    BY <2>2, <4>4, <5>1, <5>3, <5>4 DEF Heir
            <4> QED
                BY <2>3, <4>2, <4>3, <4>4
        <3> QED
            BY <3>2, <3>3
    <2>11. CallerGood(c, P)'
        BY <1>1, <1>2, <1>5, <1>7, <1>8, <2>2 DEF CallerGood, InACall
    <2> QED
        BY <1>9, <1>10, <2>7, <2>8, <2>9, <2>10, <2>11 DEF Meeting, Meets
<1> QED
    BY <1>12, <1>13

\* The call begins: everyone invited has the invite on its way, and nothing else is.
LEMMA StartCallStep ==
    ASSUME CallInit, NEW c \in Device, StartCall(c)
    PROVE  \E P \in SUBSET Device : Started(c, P)' /\ Meeting(c, P)'
<1>1. PICK group \in SUBSET (Device \ {c}) \ {{}} : \E first \in group :
        /\ dash' = [dash EXCEPT ![c] = [role |-> "ringing-out", call |-> FALSE,
                      host |-> c, group |-> group, peer |-> first, doing |-> "nothing"]]
        /\ Post(c, "invite", group, c, group \cup {c})
    BY DEF StartCall
<1>2. PICK first \in group :
        /\ dash' = [dash EXCEPT ![c] = [role |-> "ringing-out", call |-> FALSE,
                      host |-> c, group |-> group, peer |-> first, doing |-> "nothing"]]
        /\ Post(c, "invite", group, c, group \cup {c})
    BY <1>1
<1>3. UNCHANGED <<quiet, heard>>
    BY DEF StartCall
<1>4. PICK P \in SUBSET Device : P = group \cup {c}
    BY <1>1
<1>5. group = P \ {c} /\ group # {} /\ c \in P
    BY <1>1, <1>4
<1>6. /\ sess = [d \in Device |-> NoSession]
      /\ quiet = {}
      /\ \A s, d \in Device : wire[s][d] = <<>>
      /\ wire = [s \in Device |-> [d \in Device |-> <<>>]]
      /\ heard = [d \in Device |-> <<>>]
      /\ \A d \in Device : /\ dash[d].role \in {"idle", "elsewhere"} /\ dash[d].doing = "nothing"
                           /\ dash[d].group = {} /\ dash[d].peer = NoOne
      /\ dash \in [Device -> Dash]
    <2>1. PICK away \in SUBSET Device :
            dash = [d \in Device |-> [NoDash EXCEPT !.role = IF d \in away THEN "elsewhere" ELSE "idle"]]
        BY DEF CallInit
    <2>2. \A d \in Device : /\ dash[d] = [NoDash EXCEPT !.role = IF d \in away THEN "elsewhere" ELSE "idle"]
                            /\ dash[d] \in Dash
        BY <2>1 DEF NoDash, Dash, Role
    <2>3. dash \in [Device -> Dash]
        BY <2>1, <2>2
    <2>4. \A d \in Device : /\ dash[d].role \in {"idle", "elsewhere"} /\ dash[d].doing = "nothing"
                            /\ dash[d].group = {} /\ dash[d].peer = NoOne
        BY <2>2 DEF NoDash
    <2> QED
        BY <2>3, <2>4 DEF CallInit
<1>7. /\ dash' \in [Device -> Dash]
      /\ \A d \in Device \ {c} : dash'[d] = dash[d]
      /\ dash'[c].role = "ringing-out" /\ dash'[c].host = c /\ dash'[c].group = P \ {c}
      /\ dash'[c].peer \in P \ {c} /\ dash'[c].doing = "nothing"
    BY <1>2, <1>5, <1>6 DEF Dash, Role
<1>8. PICK m \in Signal : m = [kind |-> "invite", from |-> c, host |-> c, people |-> P]
    BY DEF Signal, Kind
<1>9. m.kind = "invite" /\ m.from = c /\ m.people = P /\ m.host = c
    BY <1>8
<1>10. /\ wire' = [wire EXCEPT ![c] = [to \in Device |-> IF to \in group THEN Append(@[to], m) ELSE @[to]]]
       /\ sess' = [sess EXCEPT ![c] = SentTo(@, m, Lowest(group))]
    BY <1>2, <1>4, <1>5, <1>8 DEF Post
<1>11. \A s, d \in Device : wire'[s][d] = IF s = c /\ d \in group THEN <<m>> ELSE <<>>
    <2>1. Append(<<>>, m) = <<m>>
        OBVIOUS
    <2> QED
        BY <1>6, <1>10, <2>1
<1>12. wire' \in [Device -> [Device -> Seq(Signal)]]
    <2> DEFINE row == [to \in Device |-> IF to \in group THEN Append(wire[c][to], m) ELSE wire[c][to]]
    <2>1. <<>> \in Seq(Signal) /\ Append(<<>>, m) \in Seq(Signal)
        BY AppendProperties
    <2>2. row \in [Device -> Seq(Signal)]
        BY <1>6, <2>1
    <2>3. wire' = [wire EXCEPT ![c] = row]
        BY <1>10
    <2> HIDE DEF row
    <2> QED
        BY <1>6, <2>1, <2>2, <2>3
<1>13. \A d \in Device : heard'[d] = <<>>
    BY <1>3, <1>6
<1>14. /\ sess' \in [Device -> Session]
       /\ sess'[c].state = "ringing" /\ ~sess'[c].inbound
       /\ sess'[c].host = c /\ sess'[c].people = P
       /\ \A d \in Device \ {c} : sess'[d].state = "none"
    <2>1. Lowest(group) \in Device
        BY <1>1, LowestOne
    <2>2. NoSession \in Session /\ NoSession.state = "none"
        BY DEF NoSession, Session
    <2>3. SentTo(NoSession, m, Lowest(group)) = [NoSession EXCEPT !.state = "ringing", !.inbound = FALSE,
                               !.peer = Lowest(group), !.host = c, !.people = P]
        BY <1>9 DEF SentTo, Leaving
    <2>4. /\ SentTo(NoSession, m, Lowest(group)) \in Session
          /\ SentTo(NoSession, m, Lowest(group)).state = "ringing"
          /\ ~SentTo(NoSession, m, Lowest(group)).inbound
          /\ SentTo(NoSession, m, Lowest(group)).host = c
          /\ SentTo(NoSession, m, Lowest(group)).people = P
        BY <2>1, <2>3 DEF NoSession, Session
    <2>5. sess' = [sess EXCEPT ![c] = SentTo(NoSession, m, Lowest(group))]
        BY <1>6, <1>10
    <2> QED
        BY <1>6, <2>2, <2>4, <2>5
<1>15. \A x, y \in Device : \A kinds : Due(x, y, kinds)' <=> x = c /\ y \in group /\ "invite" \in kinds
    <2> SUFFICES ASSUME NEW x \in Device, NEW y \in Device, NEW kinds
                 PROVE  Due(x, y, kinds)' <=> x = c /\ y \in group /\ "invite" \in kinds
        OBVIOUS
    <2>1. Due(x, y, kinds)' <=> Holds(wire'[x][y], x, kinds) \/ Holds(heard'[y], x, kinds)
        BY DEF Due, OnWire, InEar, Holds
    <2>2. ~Holds(heard'[y], x, kinds)
        BY <1>13, HoldsNothing
    <2>3. CASE x = c /\ y \in group
        <3>1. Holds(<<m>>, c, kinds) <=> "invite" \in kinds
            BY <1>9 DEF Holds
        <3> QED
            BY <1>11, <2>1, <2>2, <2>3, <3>1
    <2>4. CASE ~(x = c /\ y \in group)
        <3>1. wire'[x][y] = <<>>
            BY <1>11, <2>4
        <3> QED
            BY <2>1, <2>2, <2>4, <3>1, HoldsNothing
    <2> QED
        BY <2>3, <2>4
<1>16. \A x, y \in Device : \A kinds : Once(x, y, kinds)'
    <2> SUFFICES ASSUME NEW x \in Device, NEW y \in Device, NEW kinds PROVE Once(x, y, kinds)'
        OBVIOUS
    <2>1. Once(x, y, kinds)' <=> /\ Single(wire'[x][y], x, kinds) /\ Single(heard'[y], x, kinds)
                                 /\ ~(Holds(wire'[x][y], x, kinds) /\ Holds(heard'[y], x, kinds))
        BY DEF Once, OnWire, InEar, Holds, Single
    <2>2. Single(heard'[y], x, kinds) /\ ~Holds(heard'[y], x, kinds)
        BY <1>13, HoldsNothing
    <2>3. Single(<<m>>, x, kinds) /\ Single(<<>>, x, kinds)
        BY DEF Single
    <2> QED
        BY <1>11, <2>1, <2>2, <2>3
<1>17. \A d \in Device : Invited(c, d)' <=> d \in group
    BY <1>15 DEF Invited
<1>18. \A x, y \in Device : ~LeaveDue(x, y)'
    BY <1>15 DEF LeaveDue, Leaving
<1>19. SignalsGood(c, P)'
    <2>1. ASSUME NEW s \in Device, NEW d \in Device PROVE wire'[s][d] \in Seq(Said(c, P, s, d))
        <3>1. CASE s = c /\ d \in group
            <4>1. m \in Said(c, P, c, d)
                BY <1>5, <1>9, <3>1 DEF Said, Word
            <4>2. <<m>> \in Seq(Said(c, P, c, d))
                BY <4>1
            <4> QED
                BY <1>11, <3>1, <4>2
        <3>2. CASE ~(s = c /\ d \in group)
            <4>1. wire'[s][d] = <<>>
                BY <1>11, <3>2
            <4> QED
                BY <4>1
        <3> QED
            BY <3>1, <3>2
    <2>2. \A d \in Device : heard'[d] \in Seq(Word(c, P, d)) /\ heard'[d] \in Seq(Signal)
        <3>1. \A S : <<>> \in Seq(S)
            OBVIOUS
        <3> QED
            BY <1>13, <3>1
    <2>3. \A x, y \in Device : Said(c, P, x, y)' = Said(c, P, x, y) /\ Word(c, P, y)' = Word(c, P, y)
        BY DEF Said, Word
    <2>4. heard' \in [Device -> Seq(Signal)]
        BY <1>3, <1>6
    <2> QED
        BY <1>12, <2>1, <2>2, <2>3, <2>4 DEF SignalsGood
<1>20. InvitesFirst(c)'
    <2> SUFFICES ASSUME NEW d \in Device
                 PROVE  /\ Foremost(heard'[d])
                        /\ OnWire(c, d, {"invite"})' =>
                             /\ Len(wire'[c][d]) = 1
                             /\ heard'[d] = <<>>
                             /\ \A s \in Device \ {c} : wire'[s][d] = <<>>
        BY DEF InvitesFirst, Foremost
    <2>1. Foremost(heard'[d])
        BY <1>13 DEF Foremost
    <2>2. OnWire(c, d, {"invite"})' => d \in group
        BY <1>15 DEF Due
    <2>3. Len(<<m>>) = 1
        OBVIOUS
    <2> QED
        BY <1>11, <1>13, <2>1, <2>2, <2>3
<1>21. Early(c)'
    BY <1>5, <1>7, <1>15 DEF Early
<1>22. \A d \in Device : DashGood(c, P, d)'
    <2>1. DashGood(c, P, c)'
        BY <1>5, <1>7, <1>14 DEF DashGood, InACall, Rings
    <2>2. \A d \in Device \ {c} : DashGood(c, P, d)'
        BY <1>6, <1>7, <1>14 DEF DashGood, InACall, Rings
    <2> QED
        BY <2>1, <2>2
<1>23. Leaves(c, P)'
    BY <1>3, <1>6, <1>16, <1>18 DEF Leaves
<1>24. Dropped(c, P)'
    BY <1>6, <1>7 DEF Dropped, Live
<1>25. Kept(c, P)'
    <2> SUFFICES ASSUME NEW d \in P, NEW e \in P, d # e PROVE Invited(c, e)' \/ Answers(d, e)'
        BY DEF Kept
    <2>1. CASE e # c
        BY <1>5, <1>17, <2>1
    <2>2. CASE e = c
        BY <1>7, <2>2 DEF Answers, InIt, InACall
    <2> QED
        BY <2>1, <2>2
<1>26. StateGood'
    BY <1>3, <1>6, <1>7, <1>14 DEF StateGood
<1>27. sess'[c].state # "none"
    BY <1>14
<1>28. Started(c, P)'
    BY <1>5, <1>19, <1>20, <1>21, <1>22, <1>23, <1>24, <1>25, <1>26, <1>27 DEF Started
<1>29. \A x, y \in Device : \A kinds : ~InEar(x, y, kinds)'
    <2> SUFFICES ASSUME NEW x \in Device, NEW y \in Device, NEW kinds PROVE ~InEar(x, y, kinds)'
        OBVIOUS
    <2>1. InEar(x, y, kinds)' <=> Holds(heard'[y], x, kinds)
        BY DEF InEar, Holds
    <2> QED
        BY <1>13, <2>1, HoldsNothing
<1>30. \A d \in Device : ~Asked(c, d)' /\ (Unasked(c, d)' <=> d \in group)
    BY <1>15, <1>29 DEF Asked, Unasked, Due
<1>31. CallerGood(c, P)'
    BY <1>3, <1>5, <1>6, <1>7, <1>14 DEF CallerGood
<1>32. Claims(c, P)'
    BY <1>15 DEF Claims
<1>33. ASSUME NEW d \in P PROVE Meets(c, P, d)'
    <2>1. CoreGood(c, P, d)'
        BY <1>5, <1>14, <1>30 DEF CoreGood
    <2>2. d # c => d \in group /\ dash'[d].group = {} /\ dash'[d].role \in {"idle", "elsewhere"}
                     /\ dash'[d].doing = "nothing"
        BY <1>5, <1>6, <1>7
    <2>3. RosterGood(c, P, d)'
        <3>1. CASE d = c
            BY <1>5, <1>7, <1>14, <1>17, <1>29, <1>30, <3>1 DEF RosterGood
        <3>2. CASE d # c
            BY <1>29, <1>30, <2>2, <3>2 DEF RosterGood
        <3> QED
            BY <3>1, <3>2
    <2>4. HostGood(c, d)'
        BY <1>7, <2>2 DEF HostGood
    <2>5. TrioGood(c, P, d)'
        BY <1>30, <2>2 DEF TrioGood
    <2> QED
        BY <2>1, <2>3, <2>4, <2>5 DEF Meets
<1> QED
    BY <1>28, <1>31, <1>32, <1>33 DEF Meeting

-----------------------------------------------------------------------------
(* The invariant.                                                           *)

\* Either nobody has called yet, or one device started the call among some P,
\* and who left it, who hosts it and who is on its rosters fit together.
CallInv == CallInit \/ \E c \in Device, P \in SUBSET Device : Started(c, P) /\ Meeting(c, P)

LEMMA BeforeTheCall ==
    ASSUME CallInit
    PROVE  /\ StateGood /\ quiet = {}
           /\ wire \in [Device -> [Device -> Seq(Signal)]] /\ heard \in [Device -> Seq(Signal)]
           /\ \A s, d \in Device : wire[s][d] = <<>>
           /\ \A d \in Device : /\ heard[d] = <<>> /\ sess[d].state = "none"
                                /\ dash[d].role \in {"idle", "elsewhere"} /\ dash[d].doing = "nothing"
                                /\ dash[d].group = {}
<1>1. PICK away \in SUBSET Device :
        dash = [d \in Device |-> [NoDash EXCEPT !.role = IF d \in away THEN "elsewhere" ELSE "idle"]]
    BY DEF CallInit
<1>2. \A d \in Device : /\ dash[d] = [NoDash EXCEPT !.role = IF d \in away THEN "elsewhere" ELSE "idle"]
                        /\ dash[d] \in Dash
    BY <1>1 DEF NoDash, Dash, Role
<1>3. dash \in [Device -> Dash]
    BY <1>1, <1>2
<1>4. \A d \in Device : /\ dash[d].role \in {"idle", "elsewhere"} /\ dash[d].doing = "nothing"
                        /\ dash[d].group = {}
    BY <1>2 DEF NoDash
<1>5. NoSession \in Session /\ NoSession.state = "none"
    BY DEF NoSession, Session
<1>6. sess \in [Device -> Session] /\ \A d \in Device : sess[d].state = "none"
    BY <1>5 DEF CallInit
<1>7. <<>> \in Seq(Signal)
    OBVIOUS
<1>8. /\ wire \in [Device -> [Device -> Seq(Signal)]] /\ heard \in [Device -> Seq(Signal)]
      /\ \A s, d \in Device : wire[s][d] = <<>> /\ heard[d] = <<>>
    BY <1>7 DEF CallInit
<1>9. quiet = {}
    BY DEF CallInit
<1> QED
    BY <1>3, <1>4, <1>6, <1>8, <1>9 DEF StateGood

\* Before the call nothing can happen but its start.
LEMMA OnlyStarts ==
    ASSUME CallInit, NEW d \in Device, Click(d) \/ Dispatch(d) \/ \E s \in Device : Deliver(s, d)
    PROVE  StartCall(d)
<1>1. /\ \A s, e \in Device : wire[s][e] = <<>>
      /\ heard[d] = <<>> /\ sess[d].state = "none"
      /\ dash[d].role \in {"idle", "elsewhere"} /\ dash[d].doing = "nothing"
    BY BeforeTheCall
<1>2. \A kinds : ~Polls(d, kinds)
    BY <1>1 DEF Polls
<1>3. ~Dispatch(d)
    BY <1>1, <1>2 DEF Dispatch, HearInvite, ReplyBusy, HearAccept, HearHost, HearOneLeave, HearLastLeave,
                     HearNothing, SeeIncoming
<1>4. ~ \E s \in Device : Deliver(s, d)
    BY <1>1 DEF Deliver
<1>5. /\ ~InviteSent(d) /\ ~GiveUp(d)
      /\ ~Accept(d) /\ ~Join(d) /\ ~Decline(d) /\ ~HangUp(d) /\ ~Leave(d)
    BY <1>1 DEF InviteSent, GiveUp, Accept, Join, Decline, HangUp, Leave
<1> QED
    BY <1>3, <1>4, <1>5 DEF Click

LEMMA CallInvariantKept == CallInv /\ [CallNext]_talk => CallInv'
<1> SUFFICES ASSUME CallInv, [CallNext]_talk PROVE CallInv'
    OBVIOUS
<1>1. CASE UNCHANGED talk
    <2>1. sess' = sess /\ dash' = dash /\ quiet' = quiet /\ wire' = wire /\ heard' = heard
        BY <1>1 DEF talk
    <2>2. CASE CallInit
        BY <2>1, <2>2 DEF CallInv, CallInit
    <2>3. CASE \E c \in Device, P \in SUBSET Device : Started(c, P) /\ Meeting(c, P)
        <3>1. PICK c \in Device, P \in SUBSET Device : Started(c, P) /\ Meeting(c, P)
            BY <2>3
        <3>2. /\ c \in P /\ sess[c].state # "none" /\ StateGood /\ SignalsGood(c, P) /\ InvitesFirst(c) /\ Early(c)
              /\ Leaves(c, P) /\ Dropped(c, P) /\ Kept(c, P)
              /\ \A d \in Device : DashGood(c, P, d)
            BY <3>1 DEF Started
        <3>3. /\ SignalsGood(c, P)' /\ InvitesFirst(c)'
              /\ Inviting(c)' <=> Inviting(c)
              /\ \A x, y \in Device : \A kinds : Due(x, y, kinds)' <=> Due(x, y, kinds)
              /\ \A x, y \in Device : \A kinds : Once(x, y, kinds)' <=> Once(x, y, kinds)
            BY <2>1, <3>2, Silence
        <3>4. StateGood' /\ Early(c)' /\ sess'[c].state # "none"
            BY <2>1, <3>2, <3>3 DEF StateGood, Early
        <3>5. \A d \in Device : (Invited(c, d)' <=> Invited(c, d)) /\ (Left(c, d)' <=> Left(c, d))
            BY <2>1, <3>3 DEF Invited, Left, Rings
        <3>6. \A d \in Device : DashGood(c, P, d)'
            BY <2>1, <3>2, <3>5, DashAsBefore
        <3>7. \A x, y \in P : (LeaveDue(x, y)' <=> LeaveDue(x, y)) /\ Once(x, y, Leaving)'
            BY <3>2, <3>3 DEF LeaveDue, Leaves
        <3>8. \A e \in P : (InIt(e)' <=> InIt(e)) /\ (Live(e)' <=> Live(e)) /\ dash'[e].group = dash[e].group
            BY <2>1 DEF InIt, Live, InACall
        <3>9. Leaves(c, P)' /\ Dropped(c, P)' /\ Kept(c, P)'
            BY <2>1, <3>2, <3>5, <3>7, <3>8, CalmStep
        <3>10. CallerGood(c, P) /\ Claims(c, P) /\ \A e \in P : Meets(c, P, e)
            BY <3>1 DEF Meeting
        <3>11. \A e \in P : Same(c, P, e)
            BY <2>1 DEF Same, InEar, Unasked, OnWire, Holds
        <3>12. \A e \in P : Meets(c, P, e)'
            BY <2>1, <3>2, <3>5, <3>8, <3>10, <3>11, SameMeets DEF Hosts
        <3>13. CallerGood(c, P)' /\ Claims(c, P)'
            BY <2>1, <3>2, <3>3, <3>5, <3>7, <3>8, <3>10 DEF CallerGood, Claims, Hosts, InACall, Heir
        <3> QED
            BY <3>2, <3>3, <3>4, <3>6, <3>9, <3>12, <3>13 DEF Started, CallInv, Meeting
    <2> QED
        BY <2>2, <2>3 DEF CallInv
<1>2. CASE CallNext
    <2>1. PICK d \in Device : Click(d) \/ Dispatch(d) \/ \E s \in Device : Deliver(s, d)
        BY <1>2 DEF CallNext
    <2>2. CASE CallInit
        <3>1. StartCall(d)
            BY <2>1, <2>2, OnlyStarts
        <3>2. \E P \in SUBSET Device : Started(d, P)' /\ Meeting(d, P)'
            BY <2>2, <3>1, StartCallStep
        <3> QED
            BY <3>2 DEF CallInv
    <2>3. CASE \E c \in Device, P \in SUBSET Device : Started(c, P) /\ Meeting(c, P)
        <3>1. PICK c \in Device, P \in SUBSET Device : Started(c, P) /\ Meeting(c, P)
            BY <2>3
        <3>2. ~StartCall(d)
            BY <3>1 DEF Started, StartCall
        <3>3. CASE Click(d)
            <4>1. Started(c, P)'
                BY <3>1, <3>2, <3>3, InviteSentStep, GiveUpStep, AcceptStep, JoinStep, DeclineStep, HangUpStep, LeaveStep DEF Click, Carried
            <4>2. Meeting(c, P)'
                BY <3>1, <3>2, <3>3, InviteSentMeets, GiveUpMeets, AcceptMeets, JoinMeets, DeclineMeets, HangUpMeets, LeaveMeets DEF Click
            <4> QED
                BY <4>1, <4>2 DEF CallInv
        <3>4. CASE Dispatch(d)
            <4>1. Started(c, P)'
                BY <3>1, <3>4, HearInviteStep, ReplyBusyStep, HearAcceptStep, HearHostStep, HearOneLeaveStep,
                   HearLastLeaveStep, HearNothingStep, SeeIncomingStep DEF Dispatch, Carried
            <4>2. Meeting(c, P)'
                BY <3>1, <3>4, HearInviteMeets, ReplyBusyMeets, HearAcceptMeets, HearHostMeets, HearOneLeaveMeets,
                   HearLastLeaveMeets, HearNothingMeets, SeeIncomingMeets DEF Dispatch
            <4> QED
                BY <4>1, <4>2 DEF CallInv
        <3>5. CASE \E s \in Device : Deliver(s, d)
            BY <3>1, <3>5, DeliverStep, DeliverMeets DEF CallInv
        <3> QED
            BY <2>1, <3>3, <3>4, <3>5
    <2> QED
        BY <2>2, <2>3 DEF CallInv
<1> QED
    BY <1>1, <1>2

LEMMA CallInvariant == CallSpec => []CallInv
<1>1. CallInit => CallInv
    BY DEF CallInv
<1> QED
    BY <1>1, CallInvariantKept, PTL DEF CallSpec

-----------------------------------------------------------------------------
(* What the devices agree on.                                               *)

\* Who shows others in the call has its invite, and was in P from the start.
LEMMA OfThem ==
    ASSUME NEW c \in Device, NEW P \in SUBSET Device, Started(c, P), Meeting(c, P),
           NEW d \in Device, dash[d].group # {}
    PROVE  /\ d \in P /\ dash[d].group \subseteq P \ {d}
           /\ InIt(d) => Live(d)
           /\ Meets(c, P, d) /\ ~Unasked(c, d) /\ ~Asked(c, d)
<1>1. DashGood(c, P, d) /\ Leaves(c, P) /\ \A e \in P : Meets(c, P, e)
    BY DEF Started, Meeting
<1>2. d \in P /\ dash[d].group \subseteq P \ {d} /\ InACall(d)
    BY <1>1 DEF DashGood
<1>3. InIt(d) => d \notin quiet
    BY <1>1, <1>2, NotBoth DEF Leaves
<1>4. ~Unasked(c, d) /\ ~Asked(c, d)
    BY <1>1, <1>2 DEF Meets, RosterGood, Invited, Due, Unasked, Asked
<1> QED
    BY <1>1, <1>2, <1>3, <1>4 DEF Live

LEMMA WhoIsShown ==
    ASSUME NEW c \in Device, NEW P \in SUBSET Device, Started(c, P), Meeting(c, P)
    PROVE  RostersMeet
<1> SUFFICES ASSUME NEW d \in Device, NEW e \in Device, d # e, InIt(d), InIt(e),
                    dash[d].group # {}, dash[e].group # {}, e \notin dash[d].group
             PROVE  FALSE
    BY DEF RostersMeet
<1>1. d \in P /\ e \in P /\ Live(d)
    BY OfThem
<1>2. Left(c, e)
    BY <1>1 DEF Started, Dropped
<1> QED
    BY <1>2, NotBoth

\* While the caller is in it, nobody has another host.
LEMMA WhoHosts ==
    ASSUME NEW c \in Device, NEW P \in SUBSET Device, Started(c, P), Meeting(c, P)
    PROVE  CallerHosts
<1> SUFFICES ASSUME NEW x \in Device, NEW d \in Device, InIt(x), dash[x].group # {}, ~sess[x].inbound,
                    dash[d].group # {}
             PROVE  dash[d].host = x /\ sess[d].host = x
    BY DEF CallerHosts
<1>1. /\ Meets(c, P, x) /\ ~Unasked(c, x)
      /\ Meets(c, P, d) /\ ~Unasked(c, d)
    BY OfThem
<1>2. x = c
    BY <1>1 DEF Meets, CoreGood
<1> QED
    BY <1>1, <1>2 DEF Meets, CoreGood, HostGood, Hosts

\* The Core is ahead of its dashboard only by what is not polled.
LEMMA WhatCoresKnow ==
    ASSUME NEW c \in Device, NEW P \in SUBSET Device, Started(c, P), Meeting(c, P)
    PROVE  CoresKeepUp
<1> SUFFICES ASSUME NEW d \in Device, dash[d].role = "active", dash[d].group # {}, heard[d] = <<>>,
                    dash[d].doing = "nothing"
             PROVE  sess[d].state = "active" /\ dash[d].group \subseteq sess[d].people
    BY DEF CoresKeepUp, Talking
<1>1. /\ d \in P /\ dash[d].group \subseteq P \ {d} /\ RosterGood(c, P, d)
    BY OfThem DEF Meets
<1>2. \A x, kinds : ~InEar(x, d, kinds)
    BY HoldsNothing DEF InEar
<1>3. dash[d].group \subseteq sess[d].people
    BY <1>1, <1>2 DEF RosterGood
<1>4. sess[d].state # "ended"
    BY <1>1, <1>3 DEF RosterGood
<1> QED
    BY <1>1, <1>3, <1>4 DEF RosterGood

\* Of three, and with all signals in: whoever has let the caller go has the
\* heir for host.
LEMMA OneHost ==
    ASSUME NEW c \in Device, NEW P \in SUBSET Device, Started(c, P), Meeting(c, P)
    PROVE  HostIsShared
<1> SUFFICES ASSUME Settled, Cardinality(Called) <= 3, NEW d \in Talking, NEW e \in Talking
             PROVE  dash[d].host = dash[e].host /\ sess[d].host = dash[d].host
    BY DEF HostIsShared
<1>1. /\ CallerGood(c, P) /\ c \in P /\ Leaves(c, P) /\ Kept(c, P)
      /\ \A x \in Device : DashGood(c, P, x)
      /\ \A x \in P : Meets(c, P, x)
    BY DEF Started, Meeting
<1>2. \A x, y \in Device : \A kinds : ~Due(x, y, kinds) /\ ~InEar(x, y, kinds) /\ ~OnWire(x, y, kinds)
    BY HoldsNothing DEF Settled, Due, OnWire, InEar
<1>3. CASE Hosts(c)
    <2>1. ASSUME NEW x \in Talking PROVE dash[x].host = c /\ sess[x].host = c
        <3>1. x \in Device /\ dash[x].group # {}
            BY <2>1 DEF Talking
        <3> QED
            BY <1>3, <3>1, OfThem DEF Meets, CoreGood, HostGood
    <2> QED
        BY <2>1
<1>4. CASE ~Hosts(c)
    <2>1. Called = P
        <3>1. \A x \in P : sess[x].state # "none"
            BY <1>1, <1>2 DEF Meets, CoreGood, Unasked
        <3>2. \A x \in Device \ P : sess[x].state = "none"
            BY <1>1 DEF DashGood
        <3> QED
            BY <3>1, <3>2 DEF Called
    <2>2. ASSUME NEW x \in Talking
          PROVE  /\ x \in P /\ x # c /\ InIt(x) /\ Live(x)
                 /\ dash[x].group # {} /\ dash[x].group \subseteq P \ {x, c}
        <3>1. /\ x \in Device /\ InIt(x) /\ dash[x].group # {}
            BY DEF Talking, InIt, InACall, Settled
        <3>2. x \in P /\ Live(x) /\ dash[x].group \subseteq P \ {x}
            BY <3>1, OfThem
        <3>3. x # c
            BY <1>4, <3>1 DEF Hosts
        <3>4. c \notin dash[x].group
            BY <1>1, <1>2, <1>4, <3>2, <3>3 DEF Kept, Shows, Answers, Invited, LeaveDue, Hosts
        <3> QED
            BY <3>1, <3>2, <3>3, <3>4
    <2>3. ASSUME NEW x \in Talking
          PROVE  dash[x].host = Heir(c, P) /\ sess[x].host = Heir(c, P)
        <3>1. /\ x \in P /\ x # c /\ InIt(x)
              /\ dash[x].group # {} /\ dash[x].group \subseteq P \ {x, c}
            BY <2>2
        <3>2. PICK y \in dash[x].group : TRUE
            BY <3>1
        <3>3. P = {c, x, y} /\ y \in P /\ y # c /\ x # y
            BY <1>1, <2>1, <3>1, <3>2, ThreeOnly
        <3>4. ~Left(c, x) /\ TrioGood(c, P, x)
            BY <1>1, <3>1, NotBoth DEF Meets
        <3>5. ~InEar(y, x, Leaving) /\ ~Asked(c, x)
            BY <1>2, <3>1, <3>3 DEF Asked
        <3> QED
            BY <3>1, <3>2, <3>3, <3>4, <3>5 DEF TrioGood
    <2> QED
        BY <2>3
<1> QED
    BY <1>3, <1>4

-----------------------------------------------------------------------------
(* The theorems.                                                            *)

\* Whatever the users click and however signals cross, every record of the
\* Core and the dashboard keeps its shape, nothing is published to oneself,
\* and a ringing dashboard knows whom to answer (share_call.go, call.mjs).
THEOREM CallTypeCorrect == CallSpec => []CallTypeOK
<1>1. CallInv => CallTypeOK
    <2>1. CASE CallInit
        BY <2>1, BeforeTheCall DEF CallTypeOK, StateGood
    <2>2. CASE \E c \in Device, P \in SUBSET Device : Started(c, P) /\ Meeting(c, P)
        <3>1. PICK c \in Device, P \in SUBSET Device : Started(c, P)
            BY <2>2
        <3>2. StateGood /\ SignalsGood(c, P) /\ \A d \in Device : DashGood(c, P, d)
            BY <3>1 DEF Started
        <3>3. \A d \in Device : wire[d][d] = <<>>
            BY <3>2, AmongP
        <3>4. \A d \in Device : d \notin dash[d].group /\ (dash[d].role = "ringing-in" => dash[d].peer # NoOne)
            BY <3>2 DEF DashGood
        <3> QED
            BY <3>2, <3>3, <3>4 DEF CallTypeOK, StateGood, SignalsGood
    <2> QED
        BY <2>1, <2>2 DEF CallInv
<1> QED
    BY <1>1, CallInvariant, PTL

\* In a circle of any size, and however the hangups cross: once every signal
\* is in, whoever a running call still shows is in it, or left without telling
\* everyone: it declined or was busy and told only the inviter, or called and
\* ended before its invite was answered (startOutboundMany, endCall, peerLeft,
\* replyBusy).
THEOREM WhoHangsUpIsDropped == CallSpec => []LeaversAreDropped
<1>1. CallInv => LeaversAreDropped
    <2> SUFFICES ASSUME CallInv, Settled, NEW d \in Talking \ quiet, NEW e \in dash[d].group
                 PROVE  InACall(e) \/ e \in quiet
        BY DEF LeaversAreDropped
    <2>1. d \in Device /\ dash[d].role = "active" /\ dash[d].group # {}
        BY DEF Talking
    <2>2. PICK c \in Device, P \in SUBSET Device : Started(c, P)
        BY <2>1, BeforeTheCall DEF CallInv
    <2>3. DashGood(c, P, d) /\ Kept(c, P) /\ SignalsGood(c, P)
        BY <2>1, <2>2 DEF Started
    <2>4. Live(d) /\ d \in P /\ e \in P \ {d} /\ d # e
        BY <2>1, <2>3 DEF Live, InIt, InACall, DashGood, Settled
    <2>5. Shows(c, d, e)
        BY <2>4 DEF Shows
    <2>6. \A kinds : ~Due(c, e, kinds) /\ ~Due(e, d, kinds)
        BY <2>1, <2>4, HoldsNothing DEF Settled, Due, OnWire, InEar
    <2>7. Answers(d, e) /\ ~LeaveDue(e, d)
        BY <2>3, <2>4, <2>5, <2>6 DEF Kept, Invited, LeaveDue
    <2> QED
        BY <2>7 DEF Answers, InIt
<1> QED
    BY <1>1, CallInvariant, PTL

\* With devices of any number, whoever starts the call and in whatever order
\* the signals cross: two devices in the call show each other in it; while the
\* caller is in it, it hosts for every dashboard and Core; a Core whose events
\* are polled counts the call as running, with everybody its dashboard shows;
\* and of three, all who talk end up with one host, the caller or its heir
\* (parseCallRoster, updateCallSession, applyCallSessionReject, allowHostClaim,
\* peerLeft, promoteHost).
THEOREM DevicesAgree == CallSpec => []CallAgrees
<1>1. CallInv => CallAgrees
    <2> SUFFICES ASSUME CallInv PROVE CallAgrees
        OBVIOUS
    <2>1. CASE CallInit
        BY <2>1, BeforeTheCall DEF CallAgrees, RostersMeet, CallerHosts, CoresKeepUp, HostIsShared, Talking
    <2>2. CASE \E c \in Device, P \in SUBSET Device : Started(c, P) /\ Meeting(c, P)
        BY <2>2, WhoIsShown, WhoHosts, WhatCoresKnow, OneHost DEF CallAgrees
    <2> QED
        BY <2>1, <2>2 DEF CallInv
<1> QED
    BY <1>1, CallInvariant, PTL
=============================================================================
