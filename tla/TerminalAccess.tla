--------------------------- MODULE TerminalAccess ---------------------------
(***************************************************************************)
(* Who may watch one shared terminal session from another device:          *)
(* terminal_shares.go, terminal_remote.go, the registry of streams in      *)
(* terminal_stream.go, invites and removals.                               *)
(*                                                                         *)
(* The state is that of the device that owns and hosts the session: its    *)
(* copy of the circle, the share and participant rows, private mode, and   *)
(* the streams other devices hold open.  A request reads the circle, then  *)
(* the share and private mode, then writes its participant row, then       *)
(* enters the registry where a removal looks for the streams to close, and *)
(* everything else may happen between those steps.  A stream is three      *)
(* goroutines: a reader, a pump that sends output until the stream's hub   *)
(* closes or the reader fails, and a watch that admits the viewer again    *)
(* every 15 seconds and otherwise closes the connection.                   *)
(*                                                                         *)
(* The control lease, which the same removals hand back, is in             *)
(* TerminalLease.                                                          *)
(***************************************************************************)
EXTENDS Naturals, FiniteSets

CONSTANTS
    Peer,       \* the devices of the circle other than the owner
    Window,     \* connections of viewers
    Request,    \* invites and cards the owner has under way at a time
    Setting,    \* the sets of events whose interplay is examined
    MaxKey      \* bound on the rotations of the circle key

Event == {"leave", "end", "invite", "card", "participant", "dashboard", "command",
          "private", "elsewhere", "stop"}

ASSUME PeerAssumption    == Peer # {}
ASSUME SettingAssumption == Setting \subseteq SUBSET Event
ASSUME KeyAssumption     == MaxKey \in Nat

VARIABLES
    enabled,        \* the events in play; never changes
    members,        \* the peers that are active in the owner's circle file
    key,            \* the circle key: how often it was rotated
    shares,         \* the peers with a row in terminal_shares
    participants,   \* the peers with a row in terminal_participants
    private,        \* terminal_sessions.private_mode
    window,         \* each connection
    hubs,           \* terminalHubs: the connections a removal would find
    request,        \* each invite or card
    removal,        \* the removal under way, if any
    lostBy          \* how each peer last lost its share: to the Core, or otherwise

vars == <<enabled, members, key, shares, participants, private, window, hubs, request,
          removal, lostBy>>

rows   == <<shares, participants, private, lostBy>>
circle == <<enabled, members, key>>

Stream == [at: {"closed", "loaded", "admitted", "attached", "open"}, dev: Peer, key: 0..MaxKey,
           hub: {"open", "closed"}, cut: BOOLEAN, sending: BOOLEAN, late: BOOLEAN]

\* A connection that is not there (its other fields carry no meaning).
Closed == [at |-> "closed", dev |-> CHOOSE d \in Peer : TRUE, key |-> 0,
           hub |-> "closed", cut |-> FALSE, sending |-> FALSE, late |-> FALSE]

Sharing == [at: {"idle", "checked", "granted"}, kind: {"invite", "card"},
            to: SUBSET Peer, had: BOOLEAN]
NoRequest == [at |-> "idle", kind |-> "invite", to |-> {}, had |-> FALSE]

Removal == [at: {"idle", "listed", "unshared"}, dev: Peer,
            by: {"participant", "dashboard", "command"}]
NoRemoval == [at |-> "idle", dev |-> Closed.dev, by |-> "participant"]

\* The pump still sends this stream's output.
Streaming(w) == window[w].at = "open" /\ window[w].hub = "open"

-----------------------------------------------------------------------------
(* Requests of viewers.                                                     *)

Sets(w, stream) == window' = [window EXCEPT ![w] = stream]

\* openTerminalPeerStream, on the viewer's device.
Dials(w) == window[w].at = "closed"

\* handleConn: loads the circle and opens the request with it.
LoadCircle(w, d) ==
    /\ Dials(w)
    /\ d \in members
    /\ Sets(w, [Closed EXCEPT !.at = "loaded", !.dev = d, !.key = key])
    /\ UNCHANGED <<circle, rows, hubs, request, removal>>

\* admitTerminalPeerSession, for a device that is neither owner nor host.
Admits(d) == d \in shares /\ ~private

\* authorizeTerminalPeer: membership as the circle was when it was loaded.
Authorize(w) ==
    /\ window[w].at = "loaded"
    /\ Sets(w, IF Admits(window[w].dev) THEN [window[w] EXCEPT !.at = "admitted"] ELSE Closed)
    /\ UNCHANGED <<circle, rows, hubs, request, removal>>

\* A device has one participant row for the session.
UpsertParticipantByDevice(d) == participants \cup {d}

\* AttachSession: the participant row, written or updated.
Attach(w) ==
    /\ window[w].at = "admitted"
    /\ participants' = UpsertParticipantByDevice(window[w].dev)
    /\ Sets(w, [window[w] EXCEPT !.at = "attached"])
    /\ UNCHANGED <<circle, shares, private, lostBy, hubs, request, removal>>

Opened(w) == [window[w] EXCEPT !.at = "open", !.hub = "open",
                               !.late = window[w].dev \notin shares]

\* As Register, with one stream for each device.
RegisterOne(w) ==
    /\ window[w].at = "attached"
    /\ Sets(w, Opened(w))
    /\ hubs' = {v \in hubs : window[v].dev # window[w].dev} \cup {w}
    /\ UNCHANGED <<circle, rows, request, removal>>

\* registerTerminalStream: a device may watch from several windows at once.
Register(w) ==
    /\ window[w].at = "attached"
    /\ Sets(w, Opened(w))
    /\ hubs' = hubs \cup {w}
    /\ UNCHANGED <<circle, rows, request, removal>>

\* The viewer goes away; a request not yet answered ends at its next step.
ViewerLeaves(w) ==
    /\ "leave" \in enabled
    /\ window[w].at \in {"attached", "open"} /\ ~window[w].cut
    /\ Sets(w, IF window[w].at = "open" THEN [window[w] EXCEPT !.cut = TRUE] ELSE Closed)
    /\ UNCHANGED <<circle, rows, hubs, request, removal>>

-----------------------------------------------------------------------------
(* An open stream.                                                          *)

\* The pump sends a frame; the send lasts until the viewer reads it, or fails.
Send(w) ==
    /\ Streaming(w) /\ ~window[w].sending /\ ~window[w].cut
    /\ Sets(w, [window[w] EXCEPT !.sending = TRUE])
    /\ UNCHANGED <<circle, rows, hubs, request, removal>>

Sent(w) ==
    /\ window[w].sending
    /\ Sets(w, [window[w] EXCEPT !.sending = FALSE])
    /\ UNCHANGED <<circle, rows, hubs, request, removal>>

\* terminalBridgeHostOutput: the session host's output ended.
OutputEnds(w) ==
    /\ "end" \in enabled
    /\ Streaming(w)
    /\ Sets(w, [window[w] EXCEPT !.hub = "closed"])
    /\ UNCHANGED <<circle, rows, hubs, request, removal>>

\* As PumpEnds, with the stream left in the registry.
PumpForgets(w) ==
    /\ window[w].at = "open" /\ ~window[w].sending
    /\ window[w].hub = "closed" \/ window[w].cut
    /\ Sets(w, Closed)
    /\ UNCHANGED <<circle, rows, hubs, request, removal>>

\* pumpTerminalHub returns; serveTerminalPeerStream leaves the registry and
\* handleConn closes the connection.
PumpEnds(w) ==
    /\ window[w].at = "open" /\ ~window[w].sending
    /\ window[w].hub = "closed" \/ window[w].cut
    /\ Sets(w, Closed)
    /\ hubs' = hubs \ {w}
    /\ UNCHANGED <<circle, rows, request, removal>>

\* As StillAdmitted, with the membership the request was admitted with.
SharedOnly(s) == Admits(s.dev)

\* terminalPeerStillAdmitted: the circle and the rows as they are now.
StillAdmitted(s) == s.dev \in members /\ Admits(s.dev)

\* terminalPeerKeyCurrent.
KeyCurrent(s) == s.key = key

\* watchTerminalPeerAccess closes the connection of a viewer that is not to
\* watch any more, or that holds an old key; it ends with the stream's hub.
Recheck(w) ==
    /\ Streaming(w) /\ ~window[w].cut
    /\ ~(StillAdmitted(window[w]) /\ KeyCurrent(window[w]))
    /\ Sets(w, [window[w] EXCEPT !.cut = TRUE])
    /\ UNCHANGED <<circle, rows, hubs, request, removal>>

-----------------------------------------------------------------------------
(* The owner shares the session: an invite, or a terminal card in a chat.   *)

Asks(r, sharing) == request' = [request EXCEPT ![r] = sharing]

\* serveTerminalInvite: only a member, noting whether it already had a share.
CheckInvite(r, d) ==
    /\ "invite" \in enabled
    /\ request[r].at = "idle"
    /\ d \in members
    /\ Asks(r, [at |-> "checked", kind |-> "invite", to |-> {d}, had |-> d \in shares])
    /\ UNCHANGED <<circle, rows, window, hubs, removal>>

\* terminalChatShareGrantees: the members among the conversation's devices.
CheckCard(r, audience) ==
    /\ "card" \in enabled
    /\ request[r].at = "idle"
    /\ audience # {} /\ audience \subseteq members
    /\ Asks(r, [at |-> "checked", kind |-> "card", to |-> audience, had |-> FALSE])
    /\ UNCHANGED <<circle, rows, window, hubs, removal>>

\* GrantShare, or GrantShares in one transaction once the card is saved; a card
\* that cannot be saved grants nothing.
Grant(r) ==
    /\ request[r].at = "checked"
    /\ shares' = shares \cup request[r].to
    /\ Asks(r, IF request[r].kind = "invite" THEN [request[r] EXCEPT !.at = "granted"]
               ELSE NoRequest)
    /\ UNCHANGED <<circle, participants, private, lostBy, window, hubs, removal>>

Refused(r) ==
    /\ request[r].at = "checked"
    /\ Asks(r, NoRequest)
    /\ UNCHANGED <<circle, rows, window, hubs, removal>>

\* publishTerminalMQTT: an invite that cannot be announced takes its share back.
Announce(r) ==
    /\ request[r].at = "granted"
    /\ Asks(r, NoRequest)
    /\ \/ UNCHANGED <<shares, lostBy>>
       \/ /\ ~request[r].had
          /\ shares' = shares \ request[r].to
          /\ lostBy' = [d \in Peer |-> IF d \in request[r].to THEN "other" ELSE lostBy[d]]
    /\ UNCHANGED <<circle, participants, private, window, hubs, removal>>

-----------------------------------------------------------------------------
(* The owner takes it back.                                                 *)

\* RemoveParticipantAccess: the participant row goes first.
RemoveParticipant(d) ==
    /\ "participant" \in enabled
    /\ removal.at = "idle"
    /\ d \in participants
    /\ participants' = participants \ {d}
    /\ removal' = [at |-> "listed", dev |-> d, by |-> "participant"]
    /\ UNCHANGED <<circle, shares, private, lostBy, window, hubs, request>>

\* ListSessionsByParticipantDevice, and the sessions shared with d.
HasAccess(d) == d \in participants \cup shares

\* revokeAndRotate, from the dashboard or in a command; then
\* revokeTerminalAccessForDevice, for a device that joined or was shared.
RemoveMember(d, by) ==
    /\ by \in enabled
    /\ removal.at = "idle"
    /\ d \in members /\ key < MaxKey
    /\ members' = members \ {d}
    /\ key' = key + 1
    /\ removal' = IF HasAccess(d)
                  THEN [at |-> "listed", dev |-> d, by |-> by] ELSE NoRemoval
    /\ UNCHANGED <<enabled, rows, window, hubs, request>>

\* revokeTerminalSessionAccess: RevokeShare, ...
TakeShare ==
    /\ removal.at = "listed"
    /\ shares' = shares \ {removal.dev}
    /\ lostBy' = [lostBy EXCEPT ![removal.dev] =
                    IF removal.by = "command" THEN "other" ELSE "core"]
    /\ removal' = [removal EXCEPT !.at = "unshared"]
    /\ UNCHANGED <<circle, participants, private, window, hubs, request>>

\* ... and at last closeTerminalStreamsForDevice.  The registry is the Core's: a
\* command has one of its own, with nothing in it.
CloseStreams ==
    LET found == {w \in hubs : window[w].dev = removal.dev /\ removal.by # "command"}
    IN /\ removal.at = "unshared"
       /\ window' = [w \in Window |-> IF w \in found THEN [window[w] EXCEPT !.hub = "closed"]
                                       ELSE window[w]]
       /\ hubs' = hubs \ found
       /\ removal' = NoRemoval
       /\ UNCHANGED <<circle, rows, request>>

\* SetPrivateMode, in the session host.
SetPrivateMode ==
    /\ "private" \in enabled
    /\ private' = ~private
    /\ UNCHANGED <<circle, shares, participants, lostBy, window, hubs, request, removal>>

-----------------------------------------------------------------------------
(* The circle changes elsewhere; processes stop.                            *)

\* Another device's removal arrives as a roster, its new key on its own.
RosterDrops(d) ==
    /\ "elsewhere" \in enabled
    /\ d \in members
    /\ members' = members \ {d}
    /\ UNCHANGED <<enabled, key, rows, window, hubs, request, removal>>

Readmit(d) ==
    /\ d \notin members
    /\ members' = members \cup {d}
    /\ UNCHANGED <<enabled, key, rows, window, hubs, request, removal>>

KeyArrives ==
    /\ "elsewhere" \in enabled
    /\ key < MaxKey
    /\ key' = key + 1
    /\ UNCHANGED <<enabled, members, rows, window, hubs, request, removal>>

StopCore ==
    /\ "stop" \in enabled
    /\ window' = [w \in Window |-> Closed]
    /\ hubs' = {}
    /\ request' = [r \in Request |-> NoRequest]
    /\ removal' = IF removal.by = "command" THEN removal ELSE NoRemoval
    /\ UNCHANGED <<circle, rows>>

StopCommand ==
    /\ "stop" \in enabled
    /\ removal.at # "idle" /\ removal.by = "command"
    /\ removal' = NoRemoval
    /\ UNCHANGED <<circle, rows, window, hubs, request>>

-----------------------------------------------------------------------------
Init ==
    /\ enabled \in Setting
    /\ members = Peer
    /\ key = 0
    /\ shares \in SUBSET Peer
    /\ participants = {}
    /\ private = FALSE
    /\ window = [w \in Window |-> Closed]
    /\ hubs = {}
    /\ request = [r \in Request |-> NoRequest]
    /\ removal = NoRemoval
    /\ lostBy = [d \in Peer |-> "other"]

StreamNext(w) ==
    \/ \E d \in Peer : LoadCircle(w, d)
    \/ Authorize(w) \/ Attach(w) \/ Register(w) \/ ViewerLeaves(w)
    \/ Send(w) \/ Sent(w) \/ OutputEnds(w) \/ PumpEnds(w) \/ Recheck(w)

RequestNext(r) ==
    \/ \E d \in Peer : CheckInvite(r, d)
    \/ \E audience \in SUBSET Peer : CheckCard(r, audience)
    \/ Grant(r) \/ Refused(r) \/ Announce(r)

RemovalNext ==
    \/ \E d \in Peer : RemoveParticipant(d)
    \/ \E d \in Peer, by \in {"dashboard", "command"} : RemoveMember(d, by)
    \/ TakeShare \/ CloseStreams

Next ==
    \/ \E w \in Window : StreamNext(w)
    \/ \E r \in Request : RequestNext(r)
    \/ RemovalNext
    \/ SetPrivateMode
    \/ \E d \in Peer : RosterDrops(d) \/ Readmit(d)
    \/ KeyArrives
    \/ StopCore \/ StopCommand

\* A watch ticks, a pump whose hub or connection closed returns, and a send ends:
\* the viewer reads it or the connection breaks.
Fairness ==
    \A w \in Window : WF_vars(Recheck(w)) /\ WF_vars(PumpEnds(w)) /\ WF_vars(Sent(w))

Spec     == Init /\ [][Next]_vars
FairSpec == Spec /\ Fairness

-----------------------------------------------------------------------------
(* Properties.                                                              *)

\* Every variable holds a value of its type, and the registry holds open streams.
TypeOK ==
    /\ enabled \in Setting
    /\ members \subseteq Peer /\ shares \subseteq Peer /\ participants \subseteq Peer
    /\ key \in 0..MaxKey /\ private \in BOOLEAN
    /\ window \in [Window -> Stream]
    /\ hubs \subseteq {w \in Window : window[w].at = "open"}
    /\ request \in [Request -> Sharing]
    /\ removal \in Removal
    /\ lostBy \in [Peer -> {"core", "other"}]

\* SECURITY.md: removing a participant, or a device from the dashboard, closes
\* its streams at once (revokeTerminalSessionAccess).  Once such a removal is
\* over, a stream of that device that still runs is one whose request was
\* admitted before the removal and reached the registry after it.
ClosedAtOnce ==
    \A w \in Window :
       LET d == window[w].dev
       IN Streaming(w) /\ d \notin shares /\ lostBy[d] = "core"
             /\ ~(removal.at # "idle" /\ removal.dev = d)
          => window[w].late

\* SECURITY.md: an active member that holds a share, outside private mode, with
\* the circle's current key.
Entitled(w) == window[w].dev \in members \cap shares /\ ~private /\ window[w].key = key

\* watchTerminalPeerAccess: whichever way a viewer loses its share, its
\* membership or the current key, or private mode begins, its stream ends,
\* unless it is admitted again first.
StreamsEnd ==
    \A w \in Window :
       window[w].at = "open" /\ ~Entitled(w) ~> window[w].at # "open" \/ Entitled(w)
=============================================================================
