-------------------------------- MODULE Chat --------------------------------
(***************************************************************************)
(* Chat between the devices of a circle.                                   *)
(*                                                                         *)
(* A post is sealed with the circle key, saved with a row of the outbox,   *)
(* and published through the broker that the circle uses at the time.      *)
(* What cannot be published stays in the outbox; it is flushed whenever    *)
(* the link comes up, beside posts that send their own message and beside  *)
(* a key rotation that seals the queued messages again.  The broker keeps  *)
(* nothing for a device that is away, and every device gets every message: *)
(* it keeps those it can open and that are meant for it.                   *)
(*                                                                         *)
(* Messages are numbered in the order of their creation and each has one   *)
(* sender and one conversation.  A message's text, signature and topic,    *)
(* and its expiry, are left out; SQL statements succeed.  A circle's       *)
(* members and keys change as CircleMembership says; here they just do.    *)
(***************************************************************************)
EXTENDS Integers, FiniteSets, FiniteSetsExt

CONSTANTS
    Device,      \* the devices of the circle
    Host,        \* the device whose broker they use
    Creator,     \* the device that rotates the key
    NMessages,   \* bound: messages are 1..NMessages
    Sender,      \* Sender[m]: the device that posts message m
    Conv,        \* Conv[m]: the conversation message m belongs to
    Everyone,    \* the conversation of the whole circle
    Parties,     \* the two devices of each direct conversation
    Chosen,      \* the members each custom group is created with
    Founder,     \* the device that creates each custom group
    NoConv,      \* "no conversation"
    NoWire,      \* "not in the outbox"
    MaxKey,      \* bound: number of key rotations
    MaxStops,    \* bound: how often each Core stops
    Flusher,     \* bound: flushes of one outbox at a time
    Scene        \* the situations to start from

Message == 1..NMessages
Key     == 0..MaxKey
Direct  == DOMAIN Parties
Group   == DOMAIN Chosen
Talk    == Direct \cup Group \cup {Everyone}

\* A scene: the devices that connect, and those of them whose link may drop; which messages are
\* posted; whom each device has as active members, and about which of them it has yet to hear a change; how many rotations and stops of the
\* Core each goes through; who reads.
IsScene(s) ==
    s \in [present : SUBSET Device, shaky : SUBSET Device, posts : SUBSET Message, active : [Device -> SUBSET Device],
           unheard : SUBSET (Device \X Device), rotations : [Device -> Key],
           stops : [Device -> 0..MaxStops], readers : SUBSET Device]

ASSUME DeviceAssumption  == Host \in Device /\ Creator \in Device
ASSUME BoundAssumption   == NMessages \in Nat /\ MaxKey \in Nat /\ MaxStops \in Nat
ASSUME MessageAssumption == Sender \in [Message -> Device] /\ Conv \in [Message -> Talk]
\* A device posts to direct conversations of its own (resolvePostConversationID).
ASSUME DirectAssumption  == \A m \in Message : Conv[m] \in Direct => Sender[m] \in Parties[Conv[m]]
ASSUME TalkAssumption    ==
    /\ Parties \in [Direct -> SUBSET Device] /\ Chosen \in [Group -> SUBSET Device]
    /\ Founder \in [Group -> Device] /\ \A g \in Group : Founder[g] \in Chosen[g]
    /\ Direct \cap Group = {} /\ Everyone \notin Direct \cup Group /\ NoConv \notin Talk
ASSUME WireAssumption    == NoWire \notin Key
ASSUME SceneAssumption   == \A s \in Scene : IsScene(s)

VARIABLES
    scene,    \* the scene chosen; it never changes
    post,     \* post[m]: how far the request that posts m has come
    wire,     \* wire[m]: the key that request sealed m with
    told,     \* told[m]: the group members that m's payload names
    outbox,   \* outbox[m]: the key m's queued wire is sealed with, or NoWire
    flush,    \* flush[d][f]: a flushOutbox on device d
    reseal,   \* reseal[d][k]: the resealOutbox on device d for new key k
    key,      \* key[d]: the circle key device d has
    prev,     \* prev[d]: the key before it, while its grace lasts
    active,   \* active[d]: the active members in device d's circle file
    unheard,  \* changes of membership devices have yet to hear of
    online,   \* devices whose client is connected and subscribed
    net,      \* deliveries from the broker on their way
    messages, \* messages[d]: the rows of device d's messages table
    unread,   \* unread[d]: those of them counted as unread
    group,    \* group[d][g]: the members in d's record of group g; {} is no record
    listing,  \* listing[d]: the conversation marked read that is about to be listed
    shown,    \* shown[d]: messages that a listing with markRead has returned (history)
    out,      \* messages that reached the broker (history)
    lapped,   \* messages a key rotation overtook in the middle of something (history)
    stops     \* stops[d]: how often d's Core has stopped (history)

vars == <<scene, post, wire, told, outbox, flush, reseal, key, prev, active, unheard, online,
          net, messages, unread, group, listing, shown, out, lapped, stops>>
posting  == <<post, wire, told>>
keys     == <<key, prev, reseal>>
circles  == <<active, unheard>>
links    == <<online, net>>
reading  == <<listing, shown>>
past     == <<out, lapped, stops>>

Queue    == [Message -> Key \cup {NoWire}]
Nothing  == [m \in Message |-> NoWire]
Stage    == {"new", "prepared", "saved", "granted", "sent", "posted", "failed", "cut"}
Flush    == [left : Queue, sent : Message \cup {0}]
NoFlush  == [left |-> Nothing, sent |-> 0]
Reseal   == [stage : {"idle", "load", "seal"}, old : Key, left : Queue]
NoReseal == [stage |-> "idle", old |-> 0, left |-> Nothing]
Delivery == [msg : Message, key : Key, to : Device]

Mine(d)      == {m \in Message : Sender[m] = d}
Queued(q)    == {m \in Message : q[m] # NoWire}
OutboxOf(d)  == [m \in Message |-> IF Sender[m] = d THEN outbox[m] ELSE NoWire]
Resealing(d) == \E k \in Key : reseal[d][k].stage # "idle"
OpenKeys(d)  == {key[d]} \cup prev[d]

-----------------------------------------------------------------------------
(* Publishing *)

\* hostingAlone: a host with no guest would publish to itself.
MayPublish(d) == d \in online /\ (d = Host => online # {Host})

Copies(m, k) == {[msg |-> m, key |-> k, to |-> d] : d \in online}

Publish(m, k) == /\ MayPublish(Sender[m])
                 /\ net' = net \cup Copies(m, k)
                 /\ out' = out \cup {m}

\* An error: nothing was published, or the acknowledgement did not arrive in time.
PublishFails(m, k) == \/ UNCHANGED <<net, out>>
                      \/ Publish(m, k)

-----------------------------------------------------------------------------
(* Posting: share_chat.go *)

\* assertCanPostToGroup: in a custom group only those of the device's own record post.
CanPostTo(d, c) == c \in Group => d \in group[d][c]

\* The post reads the circle: who is in it and which key it has now.
PrepareLocalChatPost(m) ==
    LET d == Sender[m] IN
    /\ m \in scene.posts /\ post[m] = "new"
    /\ \A n \in Mine(d) \cap scene.posts : n < m => post[n] # "new"
    /\ d \in active[d] /\ CanPostTo(d, Conv[m])
    /\ post' = [post EXCEPT ![m] = "prepared"]
    /\ wire' = [wire EXCEPT ![m] = key[d]]
    /\ told' = [told EXCEPT ![m] = IF Conv[m] \in Group THEN group[d][Conv[m]] ELSE {}]
    /\ UNCHANGED <<scene, outbox, flush, keys, circles, links, messages, unread, group, reading, past>>

SaveOutgoingChat(m) ==
    /\ post[m] = "prepared"
    /\ post' = [post EXCEPT ![m] = "saved"]
    /\ outbox' = [outbox EXCEPT ![m] = wire[m]]
    /\ messages' = [messages EXCEPT ![Sender[m]] = @ \cup {m}]
    /\ UNCHANGED <<scene, wire, told, flush, keys, circles, links, unread, group, reading, past>>

\* afterSave shares the terminal a card is about.
GrantTerminalChatShare(m) ==
    /\ post[m] = "saved"
    /\ post' = [post EXCEPT ![m] = "granted"]
    /\ UNCHANGED <<scene, wire, told, outbox, flush, keys, circles, links, messages, unread, group, reading, past>>

\* afterSave failed: both rows are deleted and the post is reported as failed.
DiscardOutgoingChat(m) ==
    /\ post[m] = "saved"
    /\ post' = [post EXCEPT ![m] = "failed"]
    /\ outbox' = [outbox EXCEPT ![m] = NoWire]
    /\ messages' = [messages EXCEPT ![Sender[m]] = @ \ {m}]
    /\ UNCHANGED <<scene, wire, told, flush, keys, circles, links, unread, group, reading, past>>

\* A slip: the request discards what it could not send, as if afterSave had failed.
SendOrDiscard(m) ==
    /\ post[m] = "granted"
    /\ \/ /\ Publish(m, wire[m]) /\ post' = [post EXCEPT ![m] = "sent"]
          /\ UNCHANGED <<outbox, messages>>
       \/ /\ PublishFails(m, wire[m]) /\ post' = [post EXCEPT ![m] = "posted"]
          /\ outbox' = [outbox EXCEPT ![m] = NoWire]
          /\ messages' = [messages EXCEPT ![Sender[m]] = @ \ {m}]
    /\ UNCHANGED <<scene, wire, told, flush, keys, circles, online, unread, group, reading, lapped, stops>>

\* The request sends its own message; on an error it stays queued.
SendPost(m) ==
    /\ post[m] = "granted"
    /\ \/ Publish(m, wire[m]) /\ post' = [post EXCEPT ![m] = "sent"]
       \/ PublishFails(m, wire[m]) /\ post' = [post EXCEPT ![m] = "posted"]
    /\ UNCHANGED <<scene, wire, told, outbox, flush, keys, circles, online, messages, unread, group,
                   reading, lapped, stops>>

FinishPost(m) ==
    /\ post[m] = "sent"
    /\ post' = [post EXCEPT ![m] = "posted"]
    /\ outbox' = [outbox EXCEPT ![m] = NoWire]
    /\ UNCHANGED <<scene, wire, told, flush, keys, circles, links, messages, unread, group, reading, past>>

-----------------------------------------------------------------------------
(* Flushing the outbox *)

LoadOutbox(d, f) ==
    /\ flush[d][f] = NoFlush /\ d \in online /\ Queued(OutboxOf(d)) # {}
    /\ flush' = [flush EXCEPT ![d][f].left = OutboxOf(d)]
    /\ UNCHANGED <<scene, posting, outbox, keys, circles, links, messages, unread, group, reading, past>>

NextQueued(d, f) == Min(Queued(flush[d][f].left))

\* The oldest message that was loaded is sent with the wire that was loaded.
FlushSend(d, f) ==
    /\ flush[d][f].sent = 0 /\ Queued(flush[d][f].left) # {}
    /\ LET m == NextQueued(d, f) IN
       /\ Publish(m, flush[d][f].left[m])
       /\ flush' = [flush EXCEPT ![d][f].sent = m]
    /\ UNCHANGED <<scene, posting, outbox, keys, circles, online, messages, unread, group, reading,
                   lapped, stops>>

\* A slip: the flush deletes what it could not send.
FlushDropsFailed(d, f) ==
    /\ flush[d][f].sent = 0 /\ Queued(flush[d][f].left) # {}
    /\ LET m == NextQueued(d, f) IN
       /\ PublishFails(m, flush[d][f].left[m])
       /\ flush' = [flush EXCEPT ![d][f].sent = m]
    /\ UNCHANGED <<scene, posting, outbox, keys, circles, online, messages, unread, group, reading,
                   lapped, stops>>

\* The first error ends the flush.
FlushFails(d, f) ==
    /\ flush[d][f].sent = 0 /\ Queued(flush[d][f].left) # {}
    /\ LET m == NextQueued(d, f) IN PublishFails(m, flush[d][f].left[m])
    /\ flush' = [flush EXCEPT ![d][f] = NoFlush]
    /\ UNCHANGED <<scene, posting, outbox, keys, circles, online, messages, unread, group, reading,
                   lapped, stops>>

\* A slip: the row is kept, for ever sent again.
KeepsSentRow(d, f) ==
    LET m == flush[d][f].sent IN
    /\ m # 0
    /\ flush' = [flush EXCEPT ![d][f] = [left |-> [@.left EXCEPT ![m] = NoWire], sent |-> 0]]
    /\ UNCHANGED <<scene, posting, outbox, keys, circles, links, messages, unread, group, reading, past>>

DeleteOutbox(d, f) ==
    LET m == flush[d][f].sent IN
    /\ m # 0
    /\ outbox' = [outbox EXCEPT ![m] = NoWire]
    /\ flush' = [flush EXCEPT ![d][f] = [left |-> [@.left EXCEPT ![m] = NoWire], sent |-> 0]]
    /\ UNCHANGED <<scene, posting, keys, circles, links, messages, unread, group, reading, past>>

-----------------------------------------------------------------------------
(* Rotations: share_rekey.go, share_keys_exchange.go *)

\* The creator mints the next key; another device adopts a key that exists.
KeyMoves(d, k) == /\ k \in (key[d] + 1)..scene.rotations[d]
                  /\ IF d = Creator THEN k = key[d] + 1 ELSE k <= key[Creator]

\* The file holds the new key; afterKeyRotation is about to reseal the outbox.
MoveKey(d, k) ==
    /\ KeyMoves(d, k)
    /\ key'  = [key EXCEPT ![d] = k]
    /\ prev' = [prev EXCEPT ![d] = {key[d]}]
    /\ reseal' = [reseal EXCEPT ![d][k] = [stage |-> "load", old |-> key[d], left |-> Nothing]]
    /\ lapped' = lapped \cup {m \in Mine(d) : \/ post[m] = "prepared"
                                              \/ Resealing(d) /\ outbox[m] # NoWire}
    /\ UNCHANGED <<scene, posting, outbox, flush, circles, links, messages, unread, group, reading,
                   out, stops>>

GraceEnds(d) ==
    /\ prev[d] # {}
    /\ prev' = [prev EXCEPT ![d] = {}]
    /\ UNCHANGED <<scene, posting, outbox, flush, key, reseal, circles, links, messages, unread, group,
                   reading, past>>

\* The rest of a reseal once the rows q are left; the last row ends it.
ResealLeft(r, q) == IF Queued(q) = {} THEN NoReseal ELSE [r EXCEPT !.stage = "seal", !.left = q]

ResealLoad(d, k) ==
    /\ reseal[d][k].stage = "load"
    /\ reseal' = [reseal EXCEPT ![d][k] = ResealLeft(@, OutboxOf(d))]
    /\ UNCHANGED <<scene, posting, outbox, flush, key, prev, circles, links, messages, unread, group,
                   reading, past>>

\* A loaded wire the old key opens is sealed with the new one, if its row is still there.
ResealItem(d, k) ==
    /\ reseal[d][k].stage = "seal"
    /\ LET m == Min(Queued(reseal[d][k].left)) IN
       /\ outbox' = [outbox EXCEPT ![m] =
                        IF reseal[d][k].left[m] = reseal[d][k].old /\ @ # NoWire THEN k ELSE @]
       /\ reseal' = [reseal EXCEPT ![d][k] = ResealLeft(@, [@.left EXCEPT ![m] = NoWire])]
    /\ UNCHANGED <<scene, posting, flush, key, prev, circles, links, messages, unread, group, reading,
                   past>>

-----------------------------------------------------------------------------
(* Groups: share_chat_groups.go *)

CreateChatGroup(g) ==
    LET d == Founder[g] IN
    /\ group[d][g] = {} /\ Chosen[g] \subseteq active[d] /\ Cardinality(Chosen[g]) >= 2
    /\ group' = [group EXCEPT ![d][g] = Chosen[g]]
    /\ UNCHANGED <<scene, posting, outbox, flush, keys, circles, links, messages, unread, reading, past>>

\* admitBootstrapGroupChat: the record made from the first message of an unknown group.
Bootstrap(d, m) == told[m] \cap active[d]

\* A slip: whoever gets the message joins the group.
AnyoneBootstraps(d, m) == Sender[m] \in Bootstrap(d, m)
Bootstraps(d, m)       == {d, Sender[m]} \subseteq Bootstrap(d, m)

AdmitInboundChat(d, m) ==
    LET cv == Conv[m] IN
    CASE cv \in Direct -> {d, Sender[m]} \subseteq Parties[cv]
      [] cv \in Group  -> IF group[d][cv] # {} THEN {d, Sender[m]} \subseteq group[d][cv]
                                               ELSE Bootstraps(d, m)
      [] OTHER         -> TRUE

-----------------------------------------------------------------------------
(* Receiving and reading *)

\* openChatWire: sealed with a key the device still opens.
OpensWire(d, x) == x.key \in OpenKeys(d)

Accepts(d, x) == /\ OpensWire(d, x) /\ Sender[x.msg] \in active[d]
                 /\ AdmitInboundChat(d, x.msg)

\* A slip: whatever arrives counts as unread.
CountsAnything(d, m) == m \notin messages[d]
CountsUnread(d, m)   == m \notin messages[d] /\ Sender[m] # d

\* The broker's delivery is acknowledged whether the message is kept or not.
AcceptChatWire(x) ==
    LET d == x.to
        m == x.msg IN
    /\ net' = net \ {x}
    /\ IF Accepts(d, x)
       THEN /\ messages' = [messages EXCEPT ![d] = @ \cup {m}]
            /\ unread' = [unread EXCEPT ![d] = IF CountsUnread(d, m) THEN @ \cup {m} ELSE @]
            /\ group' = IF Conv[m] \in Group /\ group[d][Conv[m]] = {}
                        THEN [group EXCEPT ![d][Conv[m]] = Bootstrap(d, m)] ELSE group
       ELSE UNCHANGED <<messages, unread, group>>
    /\ UNCHANGED <<scene, posting, outbox, flush, keys, circles, online, reading, past>>

MarkConversationRead(d, c) == /\ unread' = [unread EXCEPT ![d] = {m \in @ : Conv[m] # c}]
                              /\ UNCHANGED shown
ListRows(d, c) == /\ shown' = [shown EXCEPT ![d] = @ \cup {m \in messages[d] : Conv[m] = c}]
                  /\ UNCHANGED unread

\* A slip: the rows are listed before they are marked.
ListsFirst == <<"list", "mark">>

\* listChatMessages with markRead: two statements, each under the mutex of its own.
ReadOrder == <<"mark", "list">>

ReadStep(i, d, c) == IF ReadOrder[i] = "mark" THEN MarkConversationRead(d, c) ELSE ListRows(d, c)

ListChatMessages(d, c) ==
    /\ d \in scene.readers /\ listing[d] = NoConv
    /\ \E m \in scene.posts : Conv[m] = c
    /\ listing' = [listing EXCEPT ![d] = c]
    /\ ReadStep(1, d, c)
    /\ UNCHANGED <<scene, posting, outbox, flush, keys, circles, links, messages, group, past>>

EndListing(d) ==
    /\ listing[d] # NoConv
    /\ listing' = [listing EXCEPT ![d] = NoConv]
    /\ ReadStep(2, d, listing[d])
    /\ UNCHANGED <<scene, posting, outbox, flush, keys, circles, links, messages, group, past>>

-----------------------------------------------------------------------------
(* The circle, the links and the Core *)

\* The device's circle file changes: a member it had is removed, or one it had not is admitted.
HearOf(d, e) ==
    /\ <<d, e>> \in unheard
    /\ unheard' = unheard \ {<<d, e>>}
    /\ active' = [active EXCEPT ![d] = IF e \in @ THEN @ \ {e} ELSE @ \cup {e}]
    /\ UNCHANGED <<scene, posting, outbox, flush, keys, links, messages, unread, group, reading, past>>

Connect(d) ==
    /\ d \in scene.present \ online /\ (d # Host => Host \in online)
    /\ online' = online \cup {d}
    /\ UNCHANGED <<scene, posting, outbox, flush, keys, circles, net, messages, unread, group, reading, past>>

\* Without the host nobody is connected; what was on its way to the others is not kept for them.
Drop(d) ==
    /\ online' = IF d = Host THEN {} ELSE online \ {d}
    /\ net' = {x \in net : x.to \in online'}

Disconnect(d) ==
    /\ d \in online \cap scene.shaky
    /\ Drop(d)
    /\ UNCHANGED <<scene, posting, outbox, flush, keys, circles, messages, unread, group, reading, past>>

\* The Core stops in the middle of what it does; it may start again at once.
Stop(d) ==
    /\ stops[d] < scene.stops[d]
    /\ stops' = [stops EXCEPT ![d] = @ + 1]
    /\ Drop(d)
    /\ post' = [m \in Message |->
                    IF Sender[m] = d /\ post[m] \in {"prepared", "saved", "granted", "sent"}
                    THEN "cut" ELSE post[m]]
    /\ flush' = [flush EXCEPT ![d] = [f \in Flusher |-> NoFlush]]
    /\ reseal' = [reseal EXCEPT ![d] = [k \in Key |-> NoReseal]]
    /\ listing' = [listing EXCEPT ![d] = NoConv]
    /\ lapped' = lapped \cup {m \in Mine(d) : outbox[m] \notin {NoWire, key[d]}}
    /\ UNCHANGED <<scene, wire, told, outbox, key, prev, circles, messages, unread, group, shown, out>>

-----------------------------------------------------------------------------
Init ==
    /\ scene \in Scene
    /\ post = [m \in Message |-> "new"]
    /\ wire = [m \in Message |-> 0]
    /\ told = [m \in Message |-> {}]
    /\ outbox = Nothing
    /\ flush = [d \in Device |-> [f \in Flusher |-> NoFlush]]
    /\ reseal = [d \in Device |-> [k \in Key |-> NoReseal]]
    /\ key = [d \in Device |-> 0]
    /\ prev = [d \in Device |-> {}]
    /\ active = scene.active
    /\ unheard = scene.unheard
    /\ online = {}
    /\ net = {}
    /\ messages = [d \in Device |-> {}]
    /\ unread = [d \in Device |-> {}]
    /\ group = [d \in Device |-> [g \in Group |-> {}]]
    /\ listing = [d \in Device |-> NoConv]
    /\ shown = [d \in Device |-> {}]
    /\ out = {}
    /\ lapped = {}
    /\ stops = [d \in Device |-> 0]

Next ==
    \/ \E m \in Message : \/ PrepareLocalChatPost(m) \/ SaveOutgoingChat(m)
                          \/ GrantTerminalChatShare(m) \/ DiscardOutgoingChat(m)
                          \/ SendPost(m) \/ FinishPost(m)
    \/ \E d \in Device, f \in Flusher : \/ LoadOutbox(d, f) \/ FlushSend(d, f)
                                        \/ FlushFails(d, f) \/ DeleteOutbox(d, f)
    \/ \E d \in Device, k \in Key : MoveKey(d, k) \/ ResealLoad(d, k) \/ ResealItem(d, k)
    \/ \E g \in Group : CreateChatGroup(g)
    \/ \E x \in net : AcceptChatWire(x)
    \/ \E d \in Device, c \in Talk : ListChatMessages(d, c)
    \/ \E d, e \in Device : HearOf(d, e)
    \/ \E d \in Device : \/ EndListing(d) \/ GraceEnds(d)
                         \/ Connect(d) \/ Disconnect(d) \/ Stop(d)

Spec == Init /\ [][Next]_vars

\* What makes d flush its outbox: the link it builds (recoverCircleMeshOnce) or, on the host,
\* the subscription of a guest (OnSubscribed).
LinkBuilt(d) == IF d = Host THEN \E e \in Device \ {Host} : Connect(e) ELSE Connect(d)

\* A link that is gone is tried again every 15 s.  A device flushes again and again if links are
\* built again and again, but not because one stays up: chatFailBack passes over a link that is
\* there.  Of what is tried again and again something succeeds.
Fairness ==
    /\ \A d \in Device : SF_vars(Connect(d))
    /\ \A d \in Device, f \in Flusher :
         /\ []<><<LinkBuilt(d)>>_vars => SF_vars(MayPublish(d) /\ LoadOutbox(d, f))
         /\ SF_vars(FlushSend(d, f))
         /\ WF_vars(DeleteOutbox(d, f))

FairSpec == Spec /\ Fairness

-----------------------------------------------------------------------------
(* Properties *)

\* The shape of the state; what is unread is a message of somebody else's that is there, also when
\* a post that was discarded comes back from the broker.
TypeOK ==
    /\ IsScene(scene)
    /\ post \in [Message -> Stage]
    /\ wire \in [Message -> Key]
    /\ told \in [Message -> SUBSET Device]
    /\ outbox \in Queue
    /\ flush \in [Device -> [Flusher -> Flush]]
    /\ reseal \in [Device -> [Key -> Reseal]]
    /\ key \in [Device -> Key]
    /\ prev \in [Device -> SUBSET Key]
    /\ active \in [Device -> SUBSET Device]
    /\ unheard \subseteq Device \X Device
    /\ online \subseteq Device
    /\ net \subseteq Delivery
    /\ messages \in [Device -> SUBSET Message]
    /\ unread \in [Device -> SUBSET Message]
    /\ \A d \in Device : unread[d] \subseteq messages[d] \ Mine(d)
    /\ group \in [Device -> [Group -> SUBSET Device]]
    /\ listing \in [Device -> Talk \cup {NoConv}]
    /\ shown \in [Device -> SUBSET Message]
    /\ out \subseteq Message
    /\ lapped \subseteq Message
    /\ stops \in [Device -> 0..MaxStops]

\* A message that its sender sees as posted is still queued or has gone out, whatever posts,
\* flushes, discards and stops of the Core there were; one that failed is not queued.
QueuedOrOut ==
    \A m \in Message :
        /\ m \in messages[Sender[m]] => outbox[m] # NoWire \/ m \in out
        /\ post[m] = "failed" => outbox[m] = NoWire

\* After a rotation what is queued is sealed with the new key, but for messages whose post had
\* sealed them before and saved them after it, those queued while two rotations resealed at once,
\* and those whose reseal was cut short.
LaggardsWereLapped ==
    \A m \in Message :
        outbox[m] \notin {NoWire, key[Sender[m]]} /\ ~Resealing(Sender[m]) => m \in lapped

\* What the outbox promises of a post and of a rotation (postLocalChat, flushOutbox, resealOutbox).
OutboxSound == QueuedOrOut /\ LaggardsWereLapped

\* A message counts as read only once a listing of its conversation has returned it: one that
\* arrives between the marking and the listing stays unread.
ReadWasShown ==
    \A d \in Device :
        listing[d] = NoConv /\ stops[d] = 0 =>
            \A m \in messages[d] \ unread[d] : Sender[m] = d \/ m \in shown[d]

\* Only those a group was created with keep its messages or get into anybody's record of it,
\* though every device gets every message and learns of a group from whoever writes first.
OnlyParticipantsKeep ==
    \A d \in Device :
        /\ \A m \in messages[d] : /\ Conv[m] \in Group  => d \in Chosen[Conv[m]]
                                  /\ Conv[m] \in Direct => d \in Parties[Conv[m]]
        /\ \A g \in Group : group[d][g] \subseteq Chosen[g]

\* What a device sees of its own post; one that a stop cut short is open for ever.
Answer(m) == CASE post[m] = "posted" -> "confirmed"
               [] post[m] = "failed" -> "withdrawn"
               [] OTHER              -> IF m \in messages[Sender[m]] THEN "open" ELSE "no"

\* The participants of a conversation.
Participants(c) == CASE c \in Direct -> Parties[c]
                     [] c \in Group  -> Chosen[c]
                     [] OTHER        -> Device

\* Posts, flushes, rotations, discards, stops and deliveries together do what Messaging promises:
\* a message stops waiting only when it was sent or its post failed, none that was confirmed is
\* taken back, and only what was sent is kept, by those it is for.
Promise == INSTANCE Messaging WITH
               Audience <- [m \in Message |-> Participants(Conv[m])],
               posted   <- [m \in Message |-> Answer(m)],
               waiting  <- Queued(outbox), sent <- out, kept <- messages
ImplementsMessaging == Promise!Spec

\* While links are built again and again, what is queued leaves the outbox in the end, published
\* or discarded, however flushes fail and stop.  On a link that stays up, a message whose
\* publication failed waits for the next one.
QueuedLeaves ==
    \A m \in Message : []<><<LinkBuilt(Sender[m])>>_vars =>
        ((outbox[m] # NoWire) ~> (outbox[m] = NoWire))
=============================================================================
