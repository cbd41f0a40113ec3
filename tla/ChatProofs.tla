----------------------------- MODULE ChatProofs -----------------------------
(***************************************************************************)
(* For any number of devices, messages, flushes, rotations and stops: a    *)
(* posted message is queued or has gone out, what a rotation leaves behind *)
(* was overtaken by it, what counts as read was returned, and only the     *)
(* participants of a conversation keep its messages; and together the      *)
(* steps of Chat implement Messaging.                                      *)
(***************************************************************************)
EXTENDS Chat, TLAPS, WellFoundedInduction

\* Min picks the oldest of a set of messages.
LEMMA OldestIsThere ==
    ASSUME NEW S \in SUBSET Message, S # {} PROVE Min(S) \in S
<1> DEFINE R == OpToRel(<, Nat)
<1>1. S \subseteq Nat
    BY BoundAssumption DEF Message
<1>2. PICK x \in S : \A y \in S : ~ (<<y, x>> \in R)
    <2> HIDE DEF R
    <2>1. IsWellFoundedOn(R, Nat)
        BY NatLessThanWellFounded DEF R
    <2> QED
        BY <1>1, <2>1, WFMin
<1>3. \A y \in S : x =< y
    <2> SUFFICES ASSUME NEW y \in S PROVE x =< y
        OBVIOUS
    <2>1. y \in Nat /\ x \in Nat
        BY <1>1
    <2>2. \A i, j \in Nat : i < j => <<i, j>> \in R
        BY DEF OpToRel
    <2>3. ~(y < x)
        <3> HIDE DEF R
        <3> QED
            BY <1>2, <2>1, <2>2
    <2> QED
        BY <2>1, <2>3
<1> QED
    BY <1>3 DEF Min

-----------------------------------------------------------------------------
(* The inductive invariants.                                                *)

\* What is on its way, or about to be deleted for having been sent, has gone out.
SentIsOut ==
    /\ \A x \in net : x.msg \in out
    /\ \A m \in Message : post[m] = "sent" => m \in out
    /\ \A d \in Device, f \in Flusher : flush[d][f].sent # 0 => flush[d][f].sent \in out

\* A message is queued, and loaded by its sender's reseals, only once its post has saved it.
SavedFirst ==
    /\ \A m \in Message : outbox[m] # NoWire => post[m] \notin {"new", "prepared"}
    /\ \A d \in Device, k \in Key, m \in Message :
          reseal[d][k].left[m] # NoWire => Sender[m] = d /\ post[m] \notin {"new", "prepared"}

\* The old key of a reseal is no older than the key of any that began before it.
Runs(d, k) == reseal[d][k].stage # "idle"
RunsInOrder ==
    \A d \in Device, k \in Key : Runs(d, k) =>
        /\ reseal[d][k].old < k /\ k <= key[d]
        /\ \A l \in Key : Runs(d, l) /\ l < k => l <= reseal[d][k].old

\* A post that no rotation overtook holds a wire sealed with the key of now.
SealedNow == \A m \in Message : post[m] = "prepared" /\ m \notin lapped => wire[m] = key[Sender[m]]

\* What no rotation overtook is queued with the key of now, or the latest reseal will come to it.
ComesTo(r, m) == /\ r.stage # "idle" /\ r.old = outbox[m]
                 /\ r.stage = "seal" => r.left[m] = outbox[m]
WillBeSealed ==
    \A m \in Message : m \notin lapped /\ outbox[m] \notin {NoWire, key[Sender[m]]}
                          => ComesTo(reseal[Sender[m]][key[Sender[m]]], m)

\* An older reseal seals only messages that were overtaken, or are not queued any more.
OlderIsHarmless ==
    \A m \in Message, k \in Key :
        k # key[Sender[m]] /\ Runs(Sender[m], k) /\ reseal[Sender[m]][k].left[m] = reseal[Sender[m]][k].old
            => m \in lapped \/ outbox[m] = NoWire

OutInv    == TypeOK /\ SentIsOut /\ QueuedOrOut
ResealInv == TypeOK /\ SavedFirst /\ RunsInOrder /\ SealedNow /\ WillBeSealed /\ OlderIsHarmless

\* Whoever posts to a group is in it, and so is everybody its message names.
ToldOnly ==
    \A m \in Message : Conv[m] \in Group =>
        /\ told[m] \subseteq Chosen[Conv[m]]
        /\ post[m] # "new" => Sender[m] \in Chosen[Conv[m]]
PartyInv == TypeOK /\ ToldOnly /\ OnlyParticipantsKeep

\* What counts as read was returned, or will be by the listing that has marked it.
MarkedIsListed ==
    \A d \in Device : stops[d] = 0 =>
        \A m \in messages[d] \ unread[d] : Sender[m] = d \/ m \in shown[d] \/ listing[d] = Conv[m]
ReadInv == TypeOK /\ MarkedIsListed

-----------------------------------------------------------------------------
(* Type correctness.                                                        *)

LEMMA Blanks ==
    /\ 0 \in Key /\ NoWire \notin Key /\ 0 \notin Message
    /\ Nothing \in Queue /\ NoFlush \in Flush /\ NoReseal \in Reseal
<1>1. 0 \in Key /\ NoWire \notin Key /\ 0 \notin Message
    BY BoundAssumption, WireAssumption DEF Key, Message
<1>2. Nothing \in Queue
    BY DEF Nothing, Queue
<1> QED
    BY <1>1, <1>2 DEF NoFlush, Flush, NoReseal, Reseal

LEMMA SenderIsDevice == \A m \in Message : Sender[m] \in Device /\ Conv[m] \in Talk
BY MessageAssumption

LEMMA OutboxIsQueue == ASSUME TypeOK, NEW d \in Device PROVE OutboxOf(d) \in Queue
BY DEF TypeOK, Queue, OutboxOf

\* What publishing a message puts on its way.
LEMMA PublishTypes ==
    ASSUME TypeOK, NEW m \in Message, NEW k \in Key, Publish(m, k)
    PROVE  net' \subseteq Delivery /\ out' \subseteq Message /\ m \in out' /\ out \subseteq out'
           /\ \A x \in net' : x \in net \/ x.msg = m
<1>1. Copies(m, k) \subseteq Delivery /\ \A x \in Copies(m, k) : x.msg = m
    BY DEF TypeOK, Copies, Delivery
<1> QED
    BY <1>1 DEF TypeOK, Publish

LEMMA PublishFailsTypes ==
    ASSUME TypeOK, NEW m \in Message, NEW k \in Key, PublishFails(m, k)
    PROVE  net' \subseteq Delivery /\ out' \subseteq Message /\ out \subseteq out'
           /\ \A x \in net' : x \in net \/ x.msg \in out'
<1>1. CASE UNCHANGED <<net, out>>
    BY <1>1 DEF TypeOK
<1>2. CASE Publish(m, k)
    BY <1>2, PublishTypes
<1> QED
    BY <1>1, <1>2 DEF PublishFails

\* The message a flush comes to next, and its wire.
LEMMA NextIsQueued ==
    ASSUME TypeOK, NEW d \in Device, NEW f \in Flusher, Queued(flush[d][f].left) # {}
    PROVE  NextQueued(d, f) \in Message /\ flush[d][f].left[NextQueued(d, f)] \in Key
<1>1. flush[d][f].left \in Queue /\ Queued(flush[d][f].left) \in SUBSET Message
    BY DEF TypeOK, Flush, Queued
<1>2. NextQueued(d, f) \in Queued(flush[d][f].left)
    BY <1>1, OldestIsThere DEF NextQueued
<1> QED
    BY <1>1, <1>2 DEF Queued, Queue

LEMMA InitTypes == Init => TypeOK
<1> SUFFICES ASSUME Init PROVE TypeOK
    OBVIOUS
<1>1. IsScene(scene)
    BY SceneAssumption DEF Init
<1>2. active \in [Device -> SUBSET Device] /\ unheard \subseteq Device \X Device
    BY <1>1 DEF Init, IsScene
<1>3. stops \in [Device -> 0..MaxStops]
    BY BoundAssumption DEF Init
<1>4. post \in [Message -> Stage]
    BY DEF Init, Stage
<1> QED
    BY <1>1, <1>2, <1>3, <1>4, Blanks DEF Init, TypeOK, Mine

LEMMA PostTypes ==
    ASSUME TypeOK, NEW m \in Message,
           \/ PrepareLocalChatPost(m) \/ SaveOutgoingChat(m) \/ GrantTerminalChatShare(m)
           \/ DiscardOutgoingChat(m) \/ SendPost(m) \/ FinishPost(m)
    PROVE  TypeOK'
<1> USE SenderIsDevice DEF posting, keys, circles, links, reading, past, Stage
<1>1. CASE PrepareLocalChatPost(m)
    <2>1. (IF Conv[m] \in Group THEN group[Sender[m]][Conv[m]] ELSE {}) \in SUBSET Device
        BY DEF TypeOK
    <2> QED
        BY <1>1, <2>1 DEF PrepareLocalChatPost, TypeOK
<1>2. CASE SaveOutgoingChat(m)
    BY <1>2 DEF SaveOutgoingChat, TypeOK, Queue, Mine
<1>3. CASE GrantTerminalChatShare(m)
    BY <1>3 DEF GrantTerminalChatShare, TypeOK
<1>4. CASE DiscardOutgoingChat(m)
    BY <1>4 DEF DiscardOutgoingChat, TypeOK, Queue, Mine
<1>5. CASE SendPost(m)
    <2>1. wire[m] \in Key
        BY DEF TypeOK
    <2>2. net' \subseteq Delivery /\ out' \subseteq Message
        BY <1>5, <2>1, PublishTypes, PublishFailsTypes DEF SendPost
    <2>3. post' \in [Message -> Stage]
        BY <1>5 DEF SendPost, TypeOK
    <2> QED
        BY <1>5, <2>2, <2>3 DEF SendPost, TypeOK
<1>6. CASE FinishPost(m)
    BY <1>6 DEF FinishPost, TypeOK, Queue
<1> QED
    BY <1>1, <1>2, <1>3, <1>4, <1>5, <1>6

LEMMA FlushTypes ==
    ASSUME TypeOK, NEW d \in Device, NEW f \in Flusher,
           LoadOutbox(d, f) \/ FlushSend(d, f) \/ FlushFails(d, f) \/ DeleteOutbox(d, f)
    PROVE  TypeOK'
<1> USE DEF posting, keys, circles, links, reading, past
<1>0. flush[d][f] \in Flush
    BY DEF TypeOK
<1>1. CASE LoadOutbox(d, f)
    <2>1. [flush[d][f] EXCEPT !.left = OutboxOf(d)] \in Flush
        BY <1>0, OutboxIsQueue DEF Flush
    <2>2. flush' \in [Device -> [Flusher -> Flush]]
        BY <1>1, <2>1 DEF LoadOutbox, TypeOK
    <2> QED
        BY <1>1, <2>2 DEF LoadOutbox, TypeOK
<1>2. CASE FlushSend(d, f)
    <2>1. NextQueued(d, f) \in Message /\ flush[d][f].left[NextQueued(d, f)] \in Key
        BY <1>2, NextIsQueued DEF FlushSend
    <2>2. [flush[d][f] EXCEPT !.sent = NextQueued(d, f)] \in Flush
        BY <1>0, <2>1 DEF Flush
    <2>3. flush' \in [Device -> [Flusher -> Flush]]
        BY <1>2, <2>2 DEF FlushSend, TypeOK
    <2>4. net' \subseteq Delivery /\ out' \subseteq Message
        BY <1>2, <2>1, PublishTypes DEF FlushSend
    <2> QED
        BY <1>2, <2>3, <2>4 DEF FlushSend, TypeOK
<1>3. CASE FlushFails(d, f)
    <2>1. NextQueued(d, f) \in Message /\ flush[d][f].left[NextQueued(d, f)] \in Key
        BY <1>3, NextIsQueued DEF FlushFails
    <2>2. net' \subseteq Delivery /\ out' \subseteq Message
        BY <1>3, <2>1, PublishFailsTypes DEF FlushFails
    <2>3. flush' \in [Device -> [Flusher -> Flush]]
        BY <1>3, Blanks DEF FlushFails, TypeOK
    <2> QED
        BY <1>3, <2>2, <2>3 DEF FlushFails, TypeOK
<1>4. CASE DeleteOutbox(d, f)
    <2> DEFINE m == flush[d][f].sent
    <2>1. [left |-> [flush[d][f].left EXCEPT ![m] = NoWire], sent |-> 0] \in Flush
        BY <1>0 DEF Flush, Queue
    <2>2. flush' \in [Device -> [Flusher -> Flush]]
        BY <1>4, <2>1 DEF DeleteOutbox, TypeOK
    <2>3. outbox' \in Queue
        BY <1>4 DEF DeleteOutbox, TypeOK, Queue
    <2> QED
        BY <1>4, <2>2, <2>3 DEF DeleteOutbox, TypeOK
<1> QED
    BY <1>1, <1>2, <1>3, <1>4

\* What is left of a reseal.
LEMMA ResealLeftTypes ==
    ASSUME NEW r \in Reseal, NEW q \in Queue PROVE ResealLeft(r, q) \in Reseal
BY Blanks DEF ResealLeft, Reseal

LEMMA KeyTypes ==
    ASSUME TypeOK, NEW d \in Device, NEW k \in Key, MoveKey(d, k) \/ ResealLoad(d, k) \/ ResealItem(d, k)
    PROVE  TypeOK'
<1> USE DEF posting, circles, links, reading, past
<1>0. reseal[d][k] \in Reseal /\ key[d] \in Key
    BY DEF TypeOK
<1>1. CASE MoveKey(d, k)
    <2>1. [stage |-> "load", old |-> key[d], left |-> Nothing] \in Reseal
        BY <1>0, Blanks DEF Reseal
    <2>2. reseal' \in [Device -> [Key -> Reseal]]
        BY <1>1, <2>1 DEF MoveKey, TypeOK
    <2>3. lapped' \subseteq Message
        BY <1>1 DEF MoveKey, TypeOK, Mine
    <2> QED
        BY <1>0, <1>1, <2>2, <2>3 DEF MoveKey, TypeOK
<1>2. CASE ResealLoad(d, k)
    <2>1. ResealLeft(reseal[d][k], OutboxOf(d)) \in Reseal
        BY <1>0, OutboxIsQueue, ResealLeftTypes
    <2>2. reseal' \in [Device -> [Key -> Reseal]]
        BY <1>2, <2>1 DEF ResealLoad, TypeOK
    <2> QED
        BY <1>2, <2>2 DEF ResealLoad, TypeOK
<1>3. CASE ResealItem(d, k)
    <2> DEFINE m == Min(Queued(reseal[d][k].left))
               q == [reseal[d][k].left EXCEPT ![m] = NoWire]
    <2>1. q \in Queue
        BY <1>0 DEF Reseal, Queue
    <2>2. ResealLeft(reseal[d][k], q) \in Reseal
        BY <1>0, <2>1, ResealLeftTypes
    <2>3. reseal' \in [Device -> [Key -> Reseal]]
        BY <1>3, <2>2 DEF ResealItem, TypeOK
    <2>4. outbox' \in Queue
        BY <1>3 DEF ResealItem, TypeOK, Queue
    <2> QED
        BY <1>3, <2>3, <2>4 DEF ResealItem, TypeOK
<1> QED
    BY <1>1, <1>2, <1>3

LEMMA ChatTypes ==
    ASSUME TypeOK,
           \/ \E g \in Group : CreateChatGroup(g)
           \/ \E x \in net : AcceptChatWire(x)
    PROVE  TypeOK'
<1> USE DEF posting, keys, circles, links, reading, past
<1>1. ASSUME NEW g \in Group, CreateChatGroup(g) PROVE TypeOK'
    <2>1. Founder[g] \in Device /\ Chosen[g] \subseteq Device
        BY TalkAssumption
    <2>2. group' \in [Device -> [Group -> SUBSET Device]]
        BY <1>1, <2>1 DEF CreateChatGroup, TypeOK
    <2> QED
        BY <1>1, <2>2 DEF CreateChatGroup, TypeOK
<1>2. ASSUME NEW x \in net, AcceptChatWire(x) PROVE TypeOK'
    <2> DEFINE d == x.to
               m == x.msg
    <2>1. d \in Device /\ m \in Message
        BY DEF TypeOK, Delivery
    <2>2. Bootstrap(d, m) \in SUBSET Device
        BY <2>1 DEF TypeOK, Bootstrap
    <2>3. CASE Accepts(d, x)
        <3> DEFINE more == IF CountsUnread(d, m) THEN unread[d] \cup {m} ELSE unread[d]
        <3>1. /\ messages' = [messages EXCEPT ![d] = messages[d] \cup {m}]
              /\ unread' = [unread EXCEPT ![d] = more]
            BY <1>2, <2>3 DEF AcceptChatWire
        <3>2. messages[d] \cup {m} \in SUBSET Message /\ more \in SUBSET Message
            BY <2>1 DEF TypeOK
        <3>3. more \subseteq (messages[d] \cup {m}) \ Mine(d)
            BY <2>1 DEF TypeOK, CountsUnread, Mine
        <3>4. messages' \in [Device -> SUBSET Message] /\ unread' \in [Device -> SUBSET Message]
            <4> HIDE DEF more
            <4> QED
                BY <3>1, <3>2 DEF TypeOK
        <3>5. \A e \in Device : unread'[e] \subseteq messages'[e] \ Mine(e)
            <4> HIDE DEF more
            <4> QED
                BY <2>1, <3>1, <3>3 DEF TypeOK
        <3>6. group' \in [Device -> [Group -> SUBSET Device]]
            <4>1. CASE group' = group
                BY <4>1 DEF TypeOK
            <4>2. CASE Conv[m] \in Group /\ group' = [group EXCEPT ![d][Conv[m]] = Bootstrap(d, m)]
                BY <2>2, <4>2 DEF TypeOK
            <4> QED
                BY <1>2, <2>3, <4>1, <4>2 DEF AcceptChatWire
        <3> QED
            BY <1>2, <3>4, <3>5, <3>6 DEF AcceptChatWire, TypeOK
    <2>4. CASE ~Accepts(d, x)
        BY <1>2, <2>4 DEF AcceptChatWire, TypeOK
    <2> QED
        BY <2>3, <2>4
<1> QED
    BY <1>1, <1>2

LEMMA ReadTypes ==
    ASSUME TypeOK, NEW d \in Device,
           (\E c \in Talk : ListChatMessages(d, c)) \/ EndListing(d)
    PROVE  TypeOK'
<1> USE DEF posting, keys, circles, links, past
<1>1. ASSUME NEW c \in Talk \cup {NoConv}, NEW i \in {1, 2}, ReadStep(i, d, c)
      PROVE  /\ unread' \in [Device -> SUBSET Message] /\ shown' \in [Device -> SUBSET Message]
             /\ \A e \in Device : unread'[e] \subseteq unread[e]
    <2>1. MarkConversationRead(d, c) \/ ListRows(d, c)
        BY <1>1 DEF ReadStep
    <2>2. CASE MarkConversationRead(d, c)
        <3>1. {m \in unread[d] : Conv[m] # c} \in SUBSET Message
            BY DEF TypeOK
        <3> QED
            BY <2>2, <3>1 DEF MarkConversationRead, TypeOK
    <2>3. CASE ListRows(d, c)
        <3>1. shown[d] \cup {m \in messages[d] : Conv[m] = c} \in SUBSET Message
            BY DEF TypeOK
        <3> QED
            BY <2>3, <3>1 DEF ListRows, TypeOK
    <2> QED
        BY <2>1, <2>2, <2>3
<1>2. ASSUME NEW c \in Talk, ListChatMessages(d, c) PROVE TypeOK'
    <2>1. ReadStep(1, d, c) /\ listing' \in [Device -> Talk \cup {NoConv}]
        BY <1>2 DEF ListChatMessages, TypeOK
    <2>2. /\ unread' \in [Device -> SUBSET Message] /\ shown' \in [Device -> SUBSET Message]
          /\ \A e \in Device : unread'[e] \subseteq unread[e]
        BY <1>1, <2>1
    <2> QED
        BY <1>2, <2>1, <2>2 DEF ListChatMessages, TypeOK
<1>3. CASE EndListing(d)
    <2>1. listing[d] \in Talk \cup {NoConv} /\ ReadStep(2, d, listing[d])
          /\ listing' \in [Device -> Talk \cup {NoConv}]
        BY <1>3 DEF EndListing, TypeOK
    <2>2. /\ unread' \in [Device -> SUBSET Message] /\ shown' \in [Device -> SUBSET Message]
          /\ \A e \in Device : unread'[e] \subseteq unread[e]
        BY <1>1, <2>1
    <2> QED
        BY <1>3, <2>1, <2>2 DEF EndListing, TypeOK
<1> QED
    BY <1>2, <1>3

LEMMA LinkTypes ==
    ASSUME TypeOK, NEW d \in Device,
           \/ \E e \in Device : HearOf(d, e)
           \/ GraceEnds(d) \/ Connect(d) \/ Disconnect(d) \/ Stop(d)
    PROVE  TypeOK'
<1> USE DEF posting, keys, circles, links, reading, past
<1>1. ASSUME NEW e \in Device, HearOf(d, e) PROVE TypeOK'
    <2>1. active' \in [Device -> SUBSET Device]
        BY <1>1 DEF HearOf, TypeOK
    <2> QED
        BY <1>1, <2>1 DEF HearOf, TypeOK
<1>2. CASE GraceEnds(d)
    BY <1>2 DEF GraceEnds, TypeOK
<1>3. CASE Connect(d)
    BY <1>3 DEF Connect, TypeOK, IsScene
<1>4. CASE Disconnect(d)
    BY <1>4 DEF Disconnect, Drop, TypeOK
<1>5. CASE Stop(d)
    <2>1. stops' \in [Device -> 0..MaxStops]
        <3>1. stops[d] \in 0..MaxStops /\ scene.stops[d] \in 0..MaxStops /\ stops[d] < scene.stops[d]
            BY <1>5 DEF TypeOK, IsScene, Stop
        <3>2. stops[d] + 1 \in 0..MaxStops
            BY <3>1, BoundAssumption
        <3> QED
            BY <1>5, <3>2 DEF TypeOK, Stop
    <2>2. post' \in [Message -> Stage]
        BY <1>5 DEF TypeOK, Stop, Stage
    <2>3. flush' \in [Device -> [Flusher -> Flush]] /\ reseal' \in [Device -> [Key -> Reseal]]
        BY <1>5, Blanks DEF TypeOK, Stop
    <2>4. lapped' \subseteq Message /\ listing' \in [Device -> Talk \cup {NoConv}]
        BY <1>5 DEF TypeOK, Stop, Mine
    <2>5. online' \subseteq Device /\ net' \subseteq Delivery
        BY <1>5 DEF TypeOK, Stop, Drop
    <2> QED
        BY <1>5, <2>1, <2>2, <2>3, <2>4, <2>5 DEF Stop, TypeOK
<1> QED
    BY <1>1, <1>2, <1>3, <1>4, <1>5

LEMMA NextTypes == TypeOK /\ [Next]_vars => TypeOK'
<1> SUFFICES ASSUME TypeOK, [Next]_vars PROVE TypeOK'
    OBVIOUS
<1>1. CASE UNCHANGED vars
    BY <1>1 DEF vars, TypeOK
<1>2. CASE Next
    BY <1>2, PostTypes, FlushTypes, KeyTypes, ChatTypes, ReadTypes, LinkTypes DEF Next
<1> QED
    BY <1>1, <1>2

\* Every variable keeps its type; what is unread is somebody else's message that is there.
THEOREM TypeCorrect == Spec => []TypeOK
BY InitTypes, NextTypes, PTL DEF Spec

-----------------------------------------------------------------------------
(* Posted messages are queued or have gone out.                             *)

LEMMA OutInit == Init => SentIsOut /\ QueuedOrOut
BY Blanks, SenderIsDevice DEF Init, SentIsOut, QueuedOrOut, NoFlush

\* Steps that leave posts, the outboxes and what was sent alone, and add no message of one's own.
LEMMA OutFrame ==
    ASSUME OutInv, UNCHANGED <<post, outbox, flush>>, out \subseteq out',
           \A x \in net' : x.msg \in out',
           \A m \in Message : m \in messages'[Sender[m]] => m \in messages[Sender[m]] \/ m \in out'
    PROVE  (SentIsOut /\ QueuedOrOut)'
BY DEF OutInv, SentIsOut, QueuedOrOut

LEMMA PostOut ==
    ASSUME OutInv, NEW m \in Message,
           \/ PrepareLocalChatPost(m) \/ SaveOutgoingChat(m) \/ GrantTerminalChatShare(m)
           \/ DiscardOutgoingChat(m) \/ SendPost(m) \/ FinishPost(m)
    PROVE  (SentIsOut /\ QueuedOrOut)'
<1> USE SenderIsDevice DEF OutInv, posting, keys, circles, links, reading, past
<1>1. CASE PrepareLocalChatPost(m)
    BY <1>1 DEF PrepareLocalChatPost, TypeOK, SentIsOut, QueuedOrOut
<1>2. CASE SaveOutgoingChat(m)
    <2>1. wire[m] # NoWire
        BY Blanks DEF TypeOK
    <2>2. SentIsOut'
        BY <1>2 DEF SaveOutgoingChat, TypeOK, SentIsOut
    <2>3. QueuedOrOut'
        BY <1>2, <2>1 DEF SaveOutgoingChat, TypeOK, Queue, QueuedOrOut
    <2> QED
        BY <2>2, <2>3
<1>3. CASE GrantTerminalChatShare(m)
    BY <1>3 DEF GrantTerminalChatShare, TypeOK, SentIsOut, QueuedOrOut
<1>4. CASE DiscardOutgoingChat(m)
    <2>1. SentIsOut'
        BY <1>4 DEF DiscardOutgoingChat, TypeOK, SentIsOut
    <2>2. QueuedOrOut'
        BY <1>4 DEF DiscardOutgoingChat, TypeOK, Queue, QueuedOrOut
    <2> QED
        BY <2>1, <2>2
<1>5. CASE SendPost(m)
    <2>1. wire[m] \in Key
        BY DEF TypeOK
    <2>2. CASE Publish(m, wire[m]) /\ post' = [post EXCEPT ![m] = "sent"]
        <3>1. m \in out' /\ out \subseteq out' /\ \A x \in net' : x \in net \/ x.msg = m
            BY <2>1, <2>2, PublishTypes
        <3> QED
            BY <1>5, <2>2, <3>1 DEF SendPost, TypeOK, SentIsOut, QueuedOrOut
    <2>3. CASE PublishFails(m, wire[m]) /\ post' = [post EXCEPT ![m] = "posted"]
        <3>1. out \subseteq out' /\ \A x \in net' : x \in net \/ x.msg \in out'
            BY <2>1, <2>3, PublishFailsTypes
        <3> QED
            BY <1>5, <2>3, <3>1 DEF SendPost, TypeOK, SentIsOut, QueuedOrOut
    <2> QED
        BY <1>5, <2>2, <2>3 DEF SendPost
<1>6. CASE FinishPost(m)
    BY <1>6 DEF FinishPost, TypeOK, Queue, SentIsOut, QueuedOrOut
<1> QED
    BY <1>1, <1>2, <1>3, <1>4, <1>5, <1>6

LEMMA FlushOut ==
    ASSUME OutInv, NEW d \in Device, NEW f \in Flusher,
           LoadOutbox(d, f) \/ FlushSend(d, f) \/ FlushFails(d, f) \/ DeleteOutbox(d, f)
    PROVE  (SentIsOut /\ QueuedOrOut)'
<1> USE SenderIsDevice DEF OutInv, posting, keys, circles, links, reading, past
<1>0. flush[d][f] \in Flush
    BY DEF TypeOK
<1>1. CASE LoadOutbox(d, f)
    <2>1. \A e \in Device, g \in Flusher : flush'[e][g].sent = flush[e][g].sent
        BY <1>0, <1>1 DEF LoadOutbox, TypeOK, Flush
    <2> QED
        BY <1>1, <2>1 DEF LoadOutbox, SentIsOut, QueuedOrOut
<1>2. CASE FlushSend(d, f)
    <2> DEFINE m == NextQueued(d, f)
    <2>1. m \in Message /\ flush[d][f].left[m] \in Key
        BY <1>2, NextIsQueued DEF FlushSend
    <2>2. m \in out' /\ out \subseteq out' /\ \A x \in net' : x \in net \/ x.msg = m
        BY <1>2, <2>1, PublishTypes DEF FlushSend
    <2>3. \A e \in Device, g \in Flusher :
             flush'[e][g].sent = IF e = d /\ g = f THEN m ELSE flush[e][g].sent
        BY <1>0, <1>2 DEF FlushSend, TypeOK, Flush
    <2>4. UNCHANGED <<post, outbox, messages>>
        BY <1>2 DEF FlushSend
    <2> HIDE DEF m
    <2> QED
        BY <2>1, <2>2, <2>3, <2>4 DEF SentIsOut, QueuedOrOut
<1>3. CASE FlushFails(d, f)
    <2>1. NextQueued(d, f) \in Message /\ flush[d][f].left[NextQueued(d, f)] \in Key
        BY <1>3, NextIsQueued DEF FlushFails
    <2>2. out \subseteq out' /\ \A x \in net' : x \in net \/ x.msg \in out'
        BY <1>3, <2>1, PublishFailsTypes DEF FlushFails
    <2>3. \A e \in Device, g \in Flusher : flush'[e][g].sent \in {0, flush[e][g].sent}
        BY <1>0, <1>3 DEF FlushFails, TypeOK, NoFlush
    <2> QED
        BY <1>3, <2>2, <2>3 DEF FlushFails, SentIsOut, QueuedOrOut
<1>4. CASE DeleteOutbox(d, f)
    <2> DEFINE m == flush[d][f].sent
    <2>1. m \in out
        BY <1>4 DEF DeleteOutbox, SentIsOut
    <2>2. \A e \in Device, g \in Flusher : flush'[e][g].sent \in {0, flush[e][g].sent}
        BY <1>0, <1>4 DEF DeleteOutbox, TypeOK
    <2>3. outbox' = [outbox EXCEPT ![m] = NoWire] /\ UNCHANGED <<post, net, out, messages>>
        BY <1>4 DEF DeleteOutbox
    <2>4. SentIsOut'
        BY <2>2, <2>3 DEF SentIsOut
    <2>5. QueuedOrOut'
        BY <2>1, <2>3 DEF TypeOK, Queue, QueuedOrOut
    <2> QED
        BY <2>4, <2>5
<1> QED
    BY <1>1, <1>2, <1>3, <1>4

LEMMA KeyOut ==
    ASSUME OutInv, NEW d \in Device, NEW k \in Key, MoveKey(d, k) \/ ResealLoad(d, k) \/ ResealItem(d, k)
    PROVE  (SentIsOut /\ QueuedOrOut)'
<1> USE DEF OutInv, posting, circles, links, reading, past
<1>1. CASE MoveKey(d, k) \/ ResealLoad(d, k)
    BY <1>1, OutFrame DEF MoveKey, ResealLoad, SentIsOut
<1>2. CASE ResealItem(d, k)
    <2>1. \A m \in Message : outbox'[m] # NoWire <=> outbox[m] # NoWire
        BY <1>2, Blanks DEF ResealItem, TypeOK, Queue
    <2> QED
        BY <1>2, <2>1 DEF ResealItem, SentIsOut, QueuedOrOut
<1> QED
    BY <1>1, <1>2

LEMMA RestOut ==
    ASSUME OutInv, NEW d \in Device,
           \/ \E g \in Group : CreateChatGroup(g)
           \/ \E x \in net : AcceptChatWire(x)
           \/ \E c \in Talk : ListChatMessages(d, c)
           \/ \E e \in Device : HearOf(d, e)
           \/ EndListing(d) \/ GraceEnds(d) \/ Connect(d) \/ Disconnect(d) \/ Stop(d)
    PROVE  (SentIsOut /\ QueuedOrOut)'
<1> USE SenderIsDevice DEF OutInv, posting, keys, circles, links, past
<1>1. ASSUME NEW g \in Group, CreateChatGroup(g) PROVE (SentIsOut /\ QueuedOrOut)'
    BY <1>1, OutFrame DEF CreateChatGroup, SentIsOut
<1>2. ASSUME NEW x \in net, AcceptChatWire(x) PROVE (SentIsOut /\ QueuedOrOut)'
    <2>1. x.msg \in out /\ x.to \in Device
        BY DEF SentIsOut, TypeOK, Delivery
    <2>2. \A m \in Message : m \in messages'[Sender[m]] => m \in messages[Sender[m]] \/ m = x.msg
        <3>1. messages' = [messages EXCEPT ![x.to] = messages[x.to] \cup {x.msg}] \/ messages' = messages
            BY <1>2 DEF AcceptChatWire
        <3>2. \A e \in Device : messages'[e] \subseteq messages[e] \cup {x.msg}
            BY <3>1 DEF TypeOK
        <3> QED
            BY <3>2
    <2> QED
        BY <1>2, <2>1, <2>2, OutFrame DEF AcceptChatWire, SentIsOut
<1>3. ASSUME NEW c \in Talk, ListChatMessages(d, c) PROVE (SentIsOut /\ QueuedOrOut)'
    BY <1>3, OutFrame DEF ListChatMessages, SentIsOut
<1>4. ASSUME NEW e \in Device, HearOf(d, e) PROVE (SentIsOut /\ QueuedOrOut)'
    BY <1>4, OutFrame DEF HearOf, SentIsOut, reading
<1>5. CASE EndListing(d)
    BY <1>5, OutFrame DEF EndListing, SentIsOut
<1>6. CASE GraceEnds(d) \/ Connect(d)
    BY <1>6, OutFrame DEF GraceEnds, Connect, SentIsOut, reading
<1>7. CASE Disconnect(d)
    BY <1>7, OutFrame DEF Disconnect, Drop, SentIsOut, reading
<1>8. CASE Stop(d)
    <2>1. \A e \in Device, f \in Flusher : flush'[e][f].sent \in {0, flush[e][f].sent}
        BY <1>8 DEF Stop, TypeOK, NoFlush
    <2>2. net' \subseteq net /\ UNCHANGED <<outbox, messages, out>>
        BY <1>8 DEF Stop, Drop
    <2>3. \A m \in Message : post'[m] \in {post[m], "cut"}
        BY <1>8 DEF Stop, TypeOK
    <2> QED
        BY <2>1, <2>2, <2>3 DEF SentIsOut, QueuedOrOut
<1> QED
    BY <1>1, <1>2, <1>3, <1>4, <1>5, <1>6, <1>7, <1>8

LEMMA OutNext == OutInv /\ [Next]_vars => OutInv'
<1> SUFFICES ASSUME OutInv, [Next]_vars PROVE OutInv'
    OBVIOUS
<1>1. TypeOK'
    BY NextTypes DEF OutInv
<1>2. (SentIsOut /\ QueuedOrOut)'
    <2>1. CASE UNCHANGED vars
        BY <2>1 DEF vars, OutInv, SentIsOut, QueuedOrOut
    <2>2. CASE \E g \in Group : CreateChatGroup(g)
        BY <2>2, RestOut, DeviceAssumption
    <2>3. CASE \E x \in net : AcceptChatWire(x)
        BY <2>3, RestOut, DeviceAssumption
    <2>4. CASE Next
        BY <2>2, <2>3, <2>4, PostOut, FlushOut, KeyOut, RestOut DEF Next
    <2> QED
        BY <2>1, <2>4
<1> QED
    BY <1>1, <1>2 DEF OutInv

-----------------------------------------------------------------------------
(* What a rotation leaves behind was overtaken by it.                       *)

Sealing == SavedFirst /\ RunsInOrder /\ SealedNow /\ WillBeSealed /\ OlderIsHarmless

LEMMA ResealImplies == ResealInv => LaggardsWereLapped
BY SenderIsDevice DEF ResealInv, TypeOK, WillBeSealed, ComesTo, LaggardsWereLapped, Resealing

LEMMA ResealInit == Init => Sealing
BY Blanks, SenderIsDevice
   DEF Init, Sealing, SavedFirst, RunsInOrder, Runs, SealedNow, WillBeSealed, OlderIsHarmless,
       Nothing, NoReseal

\* Steps that leave keys, reseals and what was overtaken alone, take at most from the outboxes,
\* and move posts on past "prepared", if at all.
LEMMA SealingFrame ==
    ASSUME Sealing, UNCHANGED <<wire, key, reseal, lapped>>,
           \A m \in Message : outbox'[m] \in {NoWire, outbox[m]},
           \A m \in Message : post'[m] = post[m] \/ post'[m] \notin {"new", "prepared"}
    PROVE  Sealing'
<1> USE DEF Sealing
<1>1. SavedFirst'
    BY DEF SavedFirst
<1>2. RunsInOrder'
    BY DEF RunsInOrder, Runs
<1>3. SealedNow'
    BY DEF SealedNow
<1>4. WillBeSealed'
    BY DEF WillBeSealed, ComesTo
<1>5. OlderIsHarmless'
    BY DEF OlderIsHarmless, Runs
<1> QED
    BY <1>1, <1>2, <1>3, <1>4, <1>5

LEMMA PostSealing ==
    ASSUME ResealInv, NEW m \in Message,
           \/ PrepareLocalChatPost(m) \/ SaveOutgoingChat(m) \/ GrantTerminalChatShare(m)
           \/ DiscardOutgoingChat(m) \/ SendPost(m) \/ FinishPost(m)
    PROVE  Sealing'
<1> USE SenderIsDevice DEF posting, keys, circles, links, reading, past
<1>0. TypeOK /\ Sealing
    BY DEF ResealInv, Sealing
<1>1. CASE PrepareLocalChatPost(m)
    <2>1. UNCHANGED <<outbox, key, reseal, lapped>> /\ post[m] = "new"
          /\ post' = [post EXCEPT ![m] = "prepared"] /\ wire' = [wire EXCEPT ![m] = key[Sender[m]]]
        BY <1>1 DEF PrepareLocalChatPost
    <2>2. SavedFirst'
        BY <1>0, <2>1 DEF TypeOK, Sealing, SavedFirst
    <2>3. RunsInOrder' /\ WillBeSealed' /\ OlderIsHarmless'
        BY <1>0, <2>1 DEF Sealing, RunsInOrder, Runs, WillBeSealed, ComesTo, OlderIsHarmless
    <2>4. SealedNow'
        BY <1>0, <2>1 DEF TypeOK, Sealing, SealedNow
    <2> QED
        BY <2>2, <2>3, <2>4 DEF Sealing
<1>2. CASE SaveOutgoingChat(m)
    <2>1. UNCHANGED <<wire, key, reseal, lapped>> /\ post[m] = "prepared"
          /\ post' = [post EXCEPT ![m] = "saved"] /\ outbox' = [outbox EXCEPT ![m] = wire[m]]
        BY <1>2 DEF SaveOutgoingChat
    <2>2. \A d \in Device, k \in Key : reseal[d][k].left[m] = NoWire
        BY <1>0, <2>1 DEF Sealing, SavedFirst
    <2>3. m \notin lapped => wire[m] = key[Sender[m]]
        BY <1>0, <2>1 DEF Sealing, SealedNow
    <2>4. SavedFirst'
        BY <1>0, <2>1 DEF TypeOK, Queue, Sealing, SavedFirst
    <2>5. RunsInOrder'
        BY <1>0, <2>1 DEF Sealing, RunsInOrder, Runs
    <2>6. SealedNow'
        BY <1>0, <2>1 DEF TypeOK, Sealing, SealedNow
    <2>7. WillBeSealed'
        BY <1>0, <2>1, <2>3 DEF TypeOK, Queue, Sealing, WillBeSealed, ComesTo
    <2>8. \A k \in Key : reseal[Sender[m]][k].old # NoWire
        BY <1>0, Blanks DEF TypeOK, Reseal
    <2>9. OlderIsHarmless'
        BY <1>0, <2>1, <2>2, <2>8 DEF TypeOK, Queue, Sealing, OlderIsHarmless, Runs
    <2> QED
        BY <2>4, <2>5, <2>6, <2>7, <2>9 DEF Sealing
<1>3. CASE GrantTerminalChatShare(m)
    BY <1>0, <1>3, SealingFrame DEF GrantTerminalChatShare, TypeOK
<1>4. CASE DiscardOutgoingChat(m)
    BY <1>0, <1>4, SealingFrame DEF DiscardOutgoingChat, TypeOK, Queue
<1>5. CASE SendPost(m)
    BY <1>0, <1>5, SealingFrame DEF SendPost, TypeOK
<1>6. CASE FinishPost(m)
    BY <1>0, <1>6, SealingFrame DEF FinishPost, TypeOK, Queue
<1> QED
    BY <1>1, <1>2, <1>3, <1>4, <1>5, <1>6

LEMMA MoveKeySealing ==
    ASSUME ResealInv, NEW d \in Device, NEW k \in Key, MoveKey(d, k) PROVE Sealing'
<1> DEFINE moved == [stage |-> "load", old |-> key[d], left |-> Nothing]
<1> USE SenderIsDevice
<1>0. TypeOK /\ Sealing
    BY DEF ResealInv, Sealing
<1>1. /\ key' = [key EXCEPT ![d] = k] /\ reseal' = [reseal EXCEPT ![d][k] = moved]
      /\ UNCHANGED <<post, wire, outbox>>
    BY DEF MoveKey, posting
<1>2. lapped' = lapped \cup {m \in Mine(d) : post[m] = "prepared" \/ (Resealing(d) /\ outbox[m] # NoWire)}
    BY DEF MoveKey
<1>3. key[d] \in Nat /\ k \in Nat /\ key[d] < k
    <2>1. k \in (key[d] + 1)..scene.rotations[d] /\ key[d] \in Key
        BY <1>0 DEF MoveKey, KeyMoves, TypeOK
    <2> QED
        BY <2>1, BoundAssumption DEF Key
<1>4. \A e \in Device, l \in Key :
         reseal'[e][l] = IF e = d /\ l = k THEN moved ELSE reseal[e][l]
    BY <1>0, <1>1 DEF TypeOK
<1>5. \A e \in Device : key'[e] = IF e = d THEN k ELSE key[e]
    BY <1>0, <1>1 DEF TypeOK
<1>6. \A m \in Message : Nothing[m] = NoWire
    BY DEF Nothing
<1>7. SavedFirst'
    BY <1>0, <1>1, <1>4, <1>6 DEF Sealing, SavedFirst
<1>8. RunsInOrder'
    <2>1. \A e \in Device, l \in Key : l \in Nat /\ key[e] \in Nat
        BY <1>0, BoundAssumption DEF TypeOK, Key
    <2>2. \A l \in Key : Runs(d, l) => l <= key[d]
        BY <1>0 DEF Sealing, RunsInOrder
    <2> SUFFICES ASSUME NEW e \in Device, NEW l \in Key, Runs(e, l)'
                 PROVE  /\ reseal'[e][l].old < l /\ l <= key'[e]
                        /\ \A i \in Key : Runs(e, i)' /\ i < l => i <= reseal'[e][l].old
        BY DEF RunsInOrder
    <2>3. CASE e # d
        BY <1>0, <1>4, <1>5, <2>3 DEF Sealing, RunsInOrder, Runs
    <2>4. CASE e = d /\ l = k
        BY <1>3, <1>4, <1>5, <2>1, <2>2, <2>4 DEF Runs
    <2>5. CASE e = d /\ l # k
        <3>1. Runs(d, l) /\ l <= key[d] /\ l < k
            BY <1>3, <1>4, <2>1, <2>2, <2>5 DEF Runs
        <3> QED
            BY <1>0, <1>3, <1>4, <1>5, <2>1, <2>5, <3>1 DEF Sealing, RunsInOrder, Runs
    <2> QED
        BY <2>3, <2>4, <2>5
<1>9. SealedNow'
    BY <1>0, <1>1, <1>2, <1>5 DEF Sealing, SealedNow, Mine
<1>10. \A m \in Message : Sender[m] = d /\ m \notin lapped' /\ outbox[m] # NoWire
                             => ~Resealing(d) /\ outbox[m] = key[d]
    <2> SUFFICES ASSUME NEW m \in Message, Sender[m] = d, m \notin lapped', outbox[m] # NoWire
                 PROVE  ~Resealing(d) /\ outbox[m] = key[d]
        OBVIOUS
    <2>1. ~Resealing(d) /\ m \notin lapped
        BY <1>2 DEF Mine
    <2> QED
        BY <1>0, <2>1 DEF TypeOK, Sealing, WillBeSealed, ComesTo, Resealing
<1>11. WillBeSealed'
    BY <1>0, <1>1, <1>2, <1>4, <1>5, <1>10 DEF Sealing, WillBeSealed, ComesTo
<1>12. OlderIsHarmless'
    <2> SUFFICES ASSUME NEW m \in Message, NEW l \in Key, l # key'[Sender[m]], Runs(Sender[m], l)',
                        reseal'[Sender[m]][l].left[m] = reseal'[Sender[m]][l].old
                 PROVE  m \in lapped' \/ outbox'[m] = NoWire
        BY DEF OlderIsHarmless
    <2>1. CASE Sender[m] # d
        BY <1>0, <1>1, <1>2, <1>4, <1>5, <2>1 DEF Sealing, OlderIsHarmless, Runs
    <2>2. CASE Sender[m] = d
        <3>1. Resealing(d)
            BY <1>4, <1>5, <2>2 DEF Runs, Resealing
        <3> QED
            BY <1>1, <1>10, <2>2, <3>1
    <2> QED
        BY <2>1, <2>2
<1> QED
    BY <1>7, <1>8, <1>9, <1>11, <1>12 DEF Sealing

\* A reseal of what is left, or none.
LEMMA ResealLeftIs ==
    ASSUME NEW r \in Reseal, NEW q PROVE
    \/ /\ ResealLeft(r, q).stage = "idle" /\ Queued(q) = {}
       /\ \A m \in Message : ResealLeft(r, q).left[m] = NoWire
    \/ /\ ResealLeft(r, q).stage = "seal" /\ Queued(q) # {}
       /\ ResealLeft(r, q).old = r.old /\ ResealLeft(r, q).left = q
<1>1. CASE Queued(q) = {}
    BY <1>1 DEF ResealLeft, NoReseal, Nothing
<1>2. CASE Queued(q) # {}
    <2>1. ResealLeft(r, q) = [r EXCEPT !.stage = "seal", !.left = q]
        BY <1>2 DEF ResealLeft
    <2>2. /\ ResealLeft(r, q).stage = "seal" /\ ResealLeft(r, q).old = r.old
          /\ ResealLeft(r, q).left = q
        BY <2>1 DEF Reseal
    <2> QED
        BY <1>2, <2>2
<1> QED
    BY <1>1, <1>2

LEMMA LoadSealing ==
    ASSUME ResealInv, NEW d \in Device, NEW k \in Key, ResealLoad(d, k) PROVE Sealing'
<1> DEFINE r == ResealLeft(reseal[d][k], OutboxOf(d))
<1> USE SenderIsDevice
<1>0. TypeOK /\ Sealing
    BY DEF ResealInv, Sealing
<1>1. /\ reseal[d][k].stage = "load" /\ reseal' = [reseal EXCEPT ![d][k] = r]
      /\ UNCHANGED <<post, wire, outbox, key, lapped>>
    BY DEF ResealLoad, posting, past
<1>2. \A e \in Device, l \in Key : reseal'[e][l] = IF e = d /\ l = k THEN r ELSE reseal[e][l]
    BY <1>0, <1>1 DEF TypeOK
<1>3. reseal[d][k] \in Reseal
    BY <1>0 DEF TypeOK
<1>4. \/ /\ r.stage = "idle" /\ Queued(OutboxOf(d)) = {}
         /\ \A m \in Message : r.left[m] = NoWire
      \/ /\ r.stage = "seal" /\ Queued(OutboxOf(d)) # {}
         /\ r.old = reseal[d][k].old /\ r.left = OutboxOf(d)
    BY <1>3, ResealLeftIs
<1> HIDE DEF r
<1>5. \A m \in Message : r.left[m] \in {NoWire, OutboxOf(d)[m]}
    BY <1>4
<1>6. r.stage # "idle" => r.stage = "seal" /\ r.old = reseal[d][k].old /\ r.left = OutboxOf(d)
    BY <1>4
<1>7. \A m \in Message : OutboxOf(d)[m] = IF Sender[m] = d THEN outbox[m] ELSE NoWire
    BY DEF OutboxOf
<1>8. Runs(d, k)
    BY <1>1 DEF Runs
<1>9. SavedFirst'
    BY <1>0, <1>1, <1>2, <1>5, <1>7 DEF Sealing, SavedFirst
<1>10. RunsInOrder'
    BY <1>0, <1>1, <1>2, <1>6, <1>8 DEF Sealing, RunsInOrder, Runs
<1>11. SealedNow'
    BY <1>0, <1>1 DEF Sealing, SealedNow
<1>12. WillBeSealed'
    <2> SUFFICES ASSUME NEW m \in Message, m \notin lapped, outbox[m] \notin {NoWire, key[Sender[m]]}
                 PROVE  ComesTo(reseal[Sender[m]][key[Sender[m]]], m)'
        BY <1>1 DEF WillBeSealed
    <2>1. ComesTo(reseal[Sender[m]][key[Sender[m]]], m) /\ key[Sender[m]] \in Key
        BY <1>0 DEF Sealing, WillBeSealed, TypeOK
    <2>2. CASE Sender[m] = d /\ key[d] = k
        <3>1. m \in Queued(OutboxOf(d))
            BY <1>7, <2>2 DEF Queued
        <3>2. r.stage = "seal" /\ r.old = reseal[d][k].old /\ r.left = OutboxOf(d)
            BY <1>4, <3>1
        <3> QED
            BY <1>1, <1>2, <1>7, <2>1, <2>2, <3>2 DEF ComesTo
    <2>3. CASE ~(Sender[m] = d /\ key[d] = k)
        BY <1>1, <1>2, <2>1, <2>3 DEF ComesTo
    <2> QED
        BY <2>2, <2>3
<1>13. OlderIsHarmless'
    <2> SUFFICES ASSUME NEW m \in Message, NEW l \in Key, l # key[Sender[m]], Runs(Sender[m], l)',
                        reseal'[Sender[m]][l].left[m] = reseal'[Sender[m]][l].old
                 PROVE  m \in lapped \/ outbox[m] = NoWire
        BY <1>1 DEF OlderIsHarmless
    <2>1. CASE ~(Sender[m] = d /\ l = k)
        BY <1>0, <1>2, <2>1 DEF Sealing, OlderIsHarmless, Runs
    <2>2. CASE Sender[m] = d /\ l = k
        <3>1. outbox[m] = reseal[d][k].old
            BY <1>2, <1>6, <1>7, <2>2 DEF Runs
        <3>2. reseal[d][k].old < k /\ k <= key[d] /\ k # key[d]
            BY <1>0, <1>8, <2>2 DEF Sealing, RunsInOrder
        <3>3. key[d] \in Key /\ reseal[d][k].old \in Nat /\ k \in Nat /\ key[d] \in Nat
            <4>1. key[d] \in Key /\ reseal[d][k].old \in Key
                BY <1>0, <1>3 DEF TypeOK, Reseal
            <4>2. Key \subseteq Nat
                BY BoundAssumption DEF Key
            <4> QED
                BY <4>1, <4>2
        <3>4. SUFFICES ASSUME m \notin lapped, outbox[m] # NoWire PROVE FALSE
            OBVIOUS
        <3>5. ComesTo(reseal[d][key[d]], m)
            BY <1>0, <2>2, <3>1, <3>2, <3>3, <3>4 DEF Sealing, WillBeSealed
        <3>6. Runs(d, key[d]) /\ reseal[d][key[d]].old = reseal[d][k].old
            BY <3>1, <3>5 DEF ComesTo, Runs
        <3>7. k <= reseal[d][key[d]].old
            BY <1>0, <1>8, <3>2, <3>3, <3>6 DEF Sealing, RunsInOrder
        <3> QED
            BY <3>2, <3>3, <3>6, <3>7
    <2> QED
        BY <2>1, <2>2
<1> QED
    BY <1>9, <1>10, <1>11, <1>12, <1>13 DEF Sealing

LEMMA ItemSealing ==
    ASSUME ResealInv, NEW d \in Device, NEW k \in Key, ResealItem(d, k) PROVE Sealing'
<1> DEFINE n == Min(Queued(reseal[d][k].left))
           q == [reseal[d][k].left EXCEPT ![n] = NoWire]
           r == ResealLeft(reseal[d][k], q)
<1> USE SenderIsDevice
<1>0. TypeOK /\ Sealing
    BY DEF ResealInv, Sealing
<1>1. /\ reseal[d][k].stage = "seal" /\ reseal' = [reseal EXCEPT ![d][k] = r]
      /\ UNCHANGED <<post, wire, key, lapped>>
    BY DEF ResealItem, posting, past
<1>2. outbox' = [outbox EXCEPT ![n] = IF reseal[d][k].left[n] = reseal[d][k].old /\ outbox[n] # NoWire
                                      THEN k ELSE outbox[n]]
    BY DEF ResealItem
<1>3. reseal[d][k] \in Reseal
    BY <1>0 DEF TypeOK
<1>4. \A m \in Message : q[m] = IF m = n THEN NoWire ELSE reseal[d][k].left[m]
    BY <1>3 DEF Reseal, Queue
<1>5. \/ /\ r.stage = "idle" /\ Queued(q) = {}
         /\ \A m \in Message : r.left[m] = NoWire
      \/ /\ r.stage = "seal" /\ Queued(q) # {}
         /\ r.old = reseal[d][k].old /\ r.left = q
    BY <1>3, ResealLeftIs
<1> HIDE DEF n, q, r
<1>6. \A m \in Message : outbox'[m] = IF m = n /\ reseal[d][k].left[m] = reseal[d][k].old /\ outbox[m] # NoWire
                                      THEN k ELSE outbox[m]
    BY <1>0, <1>2 DEF TypeOK, Queue
<1>7. \A e \in Device, l \in Key : reseal'[e][l] = IF e = d /\ l = k THEN r ELSE reseal[e][l]
    BY <1>0, <1>1 DEF TypeOK
<1>8. \A m \in Message : r.left[m] \in {NoWire, reseal[d][k].left[m]}
    BY <1>4, <1>5
<1>9. r.stage # "idle" => r.stage = "seal" /\ r.old = reseal[d][k].old /\ r.left = q
    BY <1>5
<1>10. Runs(d, k) /\ k # NoWire /\ reseal[d][k].old # NoWire
    BY <1>1, <1>3, Blanks DEF Runs, Reseal
<1>11. \A m \in Message : outbox'[m] # NoWire <=> outbox[m] # NoWire
    BY <1>6, <1>10
<1>12. SavedFirst'
    BY <1>0, <1>1, <1>7, <1>8, <1>11 DEF Sealing, SavedFirst
<1>13. RunsInOrder'
    BY <1>0, <1>1, <1>7, <1>9, <1>10 DEF Sealing, RunsInOrder, Runs
<1>14. SealedNow'
    BY <1>0, <1>1 DEF Sealing, SealedNow
<1>15. \A m \in Message : m \notin lapped /\ outbox'[m] # outbox[m] => Sender[m] = d /\ k = key[d]
    <2> SUFFICES ASSUME NEW m \in Message, m \notin lapped, outbox'[m] # outbox[m]
                 PROVE  Sender[m] = d /\ k = key[d]
        OBVIOUS
    <2>1. reseal[d][k].left[m] = reseal[d][k].old /\ outbox[m] # NoWire
        BY <1>6
    <2>2. Sender[m] = d
        BY <1>0, <1>10, <2>1 DEF Sealing, SavedFirst
    <2> QED
        BY <1>0, <1>10, <2>1, <2>2 DEF Sealing, OlderIsHarmless
<1>16. WillBeSealed'
    <2> SUFFICES ASSUME NEW m \in Message, m \notin lapped, outbox'[m] \notin {NoWire, key[Sender[m]]}
                 PROVE  ComesTo(reseal[Sender[m]][key[Sender[m]]], m)'
        BY <1>1 DEF WillBeSealed
    <2>1. outbox'[m] = outbox[m]
        BY <1>6, <1>15
    <2>2. ComesTo(reseal[Sender[m]][key[Sender[m]]], m) /\ key[Sender[m]] \in Key
        BY <1>0, <2>1 DEF Sealing, WillBeSealed, TypeOK
    <2>3. CASE Sender[m] = d /\ key[d] = k
        <3>1. reseal[d][k].old = outbox[m] /\ reseal[d][k].left[m] = outbox[m] /\ outbox[m] # NoWire
            BY <1>1, <2>1, <2>2, <2>3 DEF ComesTo
        <3>2. m # n
            BY <1>6, <2>1, <2>3, <3>1
        <3>3. m \in Queued(q)
            BY <1>4, <3>1, <3>2 DEF Queued
        <3>4. r.stage = "seal" /\ r.old = reseal[d][k].old /\ r.left = q
            BY <1>5, <3>3
        <3> QED
            BY <1>1, <1>4, <1>7, <2>1, <2>3, <3>1, <3>2, <3>4 DEF ComesTo
    <2>4. CASE ~(Sender[m] = d /\ key[d] = k)
        BY <1>1, <1>7, <2>1, <2>2, <2>4 DEF ComesTo
    <2> QED
        BY <2>3, <2>4
<1>17. OlderIsHarmless'
    <2> SUFFICES ASSUME NEW m \in Message, NEW l \in Key, l # key[Sender[m]], Runs(Sender[m], l)',
                        reseal'[Sender[m]][l].left[m] = reseal'[Sender[m]][l].old
                 PROVE  m \in lapped \/ outbox[m] = NoWire
        BY <1>1, <1>11 DEF OlderIsHarmless
    <2>1. CASE ~(Sender[m] = d /\ l = k)
        BY <1>0, <1>7, <2>1 DEF Sealing, OlderIsHarmless, Runs
    <2>2. CASE Sender[m] = d /\ l = k
        <3>1. r.left[m] = reseal[d][k].old
            BY <1>7, <1>9, <2>2 DEF Runs
        <3>2. reseal[d][k].left[m] = reseal[d][k].old
            BY <1>8, <1>10, <3>1
        <3> QED
            BY <1>0, <1>10, <2>2, <3>2 DEF Sealing, OlderIsHarmless
    <2> QED
        BY <2>1, <2>2
<1> QED
    BY <1>12, <1>13, <1>14, <1>16, <1>17 DEF Sealing

LEMMA StopSealing ==
    ASSUME ResealInv, NEW d \in Device, Stop(d) PROVE Sealing'
<1> USE SenderIsDevice
<1>0. TypeOK /\ Sealing
    BY DEF ResealInv, Sealing
<1>1. /\ reseal' = [reseal EXCEPT ![d] = [k \in Key |-> NoReseal]]
      /\ lapped' = lapped \cup {m \in Mine(d) : outbox[m] \notin {NoWire, key[d]}}
      /\ UNCHANGED <<wire, outbox, key>>
    BY DEF Stop
<1>2. \A m \in Message : post'[m] \in {post[m], "cut"}
    BY <1>0 DEF Stop, TypeOK
<1>3. \A e \in Device, k \in Key : reseal'[e][k] = IF e = d THEN NoReseal ELSE reseal[e][k]
    BY <1>0, <1>1 DEF TypeOK
<1>4. NoReseal.stage = "idle" /\ \A m \in Message : NoReseal.left[m] = NoWire
    BY DEF NoReseal, Nothing
<1>5. SavedFirst'
    BY <1>0, <1>1, <1>2, <1>3, <1>4 DEF Sealing, SavedFirst
<1>6. RunsInOrder'
    BY <1>0, <1>1, <1>3, <1>4 DEF Sealing, RunsInOrder, Runs
<1>7. SealedNow'
    BY <1>0, <1>1, <1>2 DEF Sealing, SealedNow
<1>8. WillBeSealed'
    BY <1>0, <1>1, <1>3 DEF TypeOK, Sealing, WillBeSealed, ComesTo, Mine
<1>9. OlderIsHarmless'
    BY <1>0, <1>1, <1>3, <1>4 DEF Sealing, OlderIsHarmless, Runs
<1> QED
    BY <1>5, <1>6, <1>7, <1>8, <1>9 DEF Sealing

LEMMA RestSealing ==
    ASSUME ResealInv, NEW d \in Device,
           \/ \E g \in Group : CreateChatGroup(g)
           \/ \E x \in net : AcceptChatWire(x)
           \/ \E c \in Talk : ListChatMessages(d, c)
           \/ \E e \in Device : HearOf(d, e)
           \/ \E f \in Flusher : LoadOutbox(d, f) \/ FlushSend(d, f) \/ FlushFails(d, f)
           \/ EndListing(d) \/ GraceEnds(d) \/ Connect(d) \/ Disconnect(d)
    PROVE  Sealing'
<1>1. UNCHANGED <<post, wire, outbox, key, reseal, lapped>>
    BY DEF CreateChatGroup, AcceptChatWire, ListChatMessages, HearOf, LoadOutbox, FlushSend, FlushFails,
           EndListing, GraceEnds, Connect, Disconnect, posting, keys, past
<1> QED
    BY <1>1, SealingFrame DEF ResealInv, Sealing

LEMMA ResealNext == ResealInv /\ [Next]_vars => ResealInv'
<1> SUFFICES ASSUME ResealInv, [Next]_vars PROVE ResealInv'
    OBVIOUS
<1>1. TypeOK'
    BY NextTypes DEF ResealInv
<1>2. Sealing'
    <2>1. CASE UNCHANGED vars
        BY <2>1, SealingFrame DEF vars, ResealInv, Sealing
    <2>2. ASSUME NEW d \in Device, NEW f \in Flusher, DeleteOutbox(d, f) PROVE Sealing'
        BY <2>2, SealingFrame DEF DeleteOutbox, posting, keys, past, ResealInv, Sealing, TypeOK, Queue
    <2>3. CASE (\E g \in Group : CreateChatGroup(g)) \/ (\E x \in net : AcceptChatWire(x))
        BY <2>3, RestSealing, DeviceAssumption
    <2>4. CASE Next
        BY <2>2, <2>3, <2>4, PostSealing, MoveKeySealing, LoadSealing, ItemSealing, StopSealing,
           RestSealing DEF Next
    <2> QED
        BY <2>1, <2>4
<1> QED
    BY <1>1, <1>2 DEF ResealInv, Sealing

\* Whatever posts, flushes, discards, rotations and stops overlap: a message that its sender sees as
\* posted is queued or has gone out, and after a rotation what is queued is sealed with the new key,
\* but for what the rotation overtook (postLocalChat, flushOutbox, resealOutbox).
THEOREM OutboxStaysSound == Spec => []OutboxSound
<1>1. OutInv /\ ResealInv => OutboxSound
    BY ResealImplies DEF OutInv, OutboxSound
<1>2. Init => OutInv /\ ResealInv
    BY InitTypes, OutInit, ResealInit DEF OutInv, ResealInv, Sealing
<1> QED
    BY <1>1, <1>2, OutNext, ResealNext, PTL DEF Spec

-----------------------------------------------------------------------------
(* Only the participants of a conversation keep its messages.               *)

Parts == ToldOnly /\ OnlyParticipantsKeep

LEMMA PartyInit == Init => Parts
BY SenderIsDevice DEF Init, Parts, ToldOnly, OnlyParticipantsKeep

\* Steps that leave the messages and the groups alone.
LEMMA PartyFrame ==
    ASSUME Parts, UNCHANGED <<told, messages, group>>,
           \A m \in Message : post'[m] = "new" => post[m] = "new",
           \A m \in Message : post[m] = "new" => post'[m] = "new"
    PROVE  Parts'
BY DEF Parts, ToldOnly, OnlyParticipantsKeep

LEMMA PostParties ==
    ASSUME PartyInv, NEW m \in Message,
           \/ PrepareLocalChatPost(m) \/ SaveOutgoingChat(m) \/ GrantTerminalChatShare(m)
           \/ DiscardOutgoingChat(m) \/ SendPost(m) \/ FinishPost(m)
    PROVE  Parts'
<1> USE SenderIsDevice DEF posting, keys, circles, links, reading, past
<1>0. TypeOK /\ Parts
    BY DEF PartyInv, Parts
<1>1. CASE PrepareLocalChatPost(m)
    <2> DEFINE d == Sender[m]
               names == IF Conv[m] \in Group THEN group[d][Conv[m]] ELSE {}
    <2>1. told' = [told EXCEPT ![m] = names] /\ UNCHANGED <<messages, group>>
          /\ post' = [post EXCEPT ![m] = "prepared"] /\ CanPostTo(d, Conv[m])
        BY <1>1 DEF PrepareLocalChatPost
    <2>2. Conv[m] \in Group => names \subseteq Chosen[Conv[m]] /\ d \in Chosen[Conv[m]]
        BY <1>0, <2>1 DEF Parts, OnlyParticipantsKeep, CanPostTo
    <2> HIDE DEF names
    <2>3. ToldOnly'
        BY <1>0, <2>1, <2>2 DEF TypeOK, Parts, ToldOnly
    <2>4. OnlyParticipantsKeep'
        BY <1>0, <2>1 DEF Parts, OnlyParticipantsKeep
    <2> QED
        BY <2>3, <2>4 DEF Parts
<1>2. CASE SaveOutgoingChat(m)
    <2>1. messages' = [messages EXCEPT ![Sender[m]] = messages[Sender[m]] \cup {m}]
          /\ post' = [post EXCEPT ![m] = "saved"] /\ post[m] = "prepared" /\ UNCHANGED <<told, group>>
        BY <1>2 DEF SaveOutgoingChat
    <2>2. ToldOnly'
        BY <1>0, <2>1 DEF TypeOK, Parts, ToldOnly
    <2>3. /\ Conv[m] \in Group => Sender[m] \in Chosen[Conv[m]]
          /\ Conv[m] \in Direct => Sender[m] \in Parties[Conv[m]]
        BY <1>0, <2>1, DirectAssumption DEF Parts, ToldOnly
    <2>4. OnlyParticipantsKeep'
        BY <1>0, <2>1, <2>3 DEF TypeOK, Parts, OnlyParticipantsKeep
    <2> QED
        BY <2>2, <2>4 DEF Parts
<1>3. CASE DiscardOutgoingChat(m)
    <2>1. messages' = [messages EXCEPT ![Sender[m]] = messages[Sender[m]] \ {m}]
          /\ post' = [post EXCEPT ![m] = "failed"] /\ post[m] = "saved" /\ UNCHANGED <<told, group>>
        BY <1>3 DEF DiscardOutgoingChat
    <2>2. ToldOnly'
        BY <1>0, <2>1 DEF TypeOK, Parts, ToldOnly
    <2>3. OnlyParticipantsKeep'
        BY <1>0, <2>1 DEF TypeOK, Parts, OnlyParticipantsKeep
    <2> QED
        BY <2>2, <2>3 DEF Parts
<1>4. CASE GrantTerminalChatShare(m) \/ SendPost(m) \/ FinishPost(m)
    BY <1>0, <1>4, PartyFrame DEF GrantTerminalChatShare, SendPost, FinishPost, TypeOK
<1> QED
    BY <1>1, <1>2, <1>3, <1>4

LEMMA CreateParties ==
    ASSUME PartyInv, NEW g \in Group, CreateChatGroup(g) PROVE Parts'
<1>0. TypeOK /\ Parts
    BY DEF PartyInv, Parts
<1>1. group' = [group EXCEPT ![Founder[g]][g] = Chosen[g]] /\ UNCHANGED <<post, told, messages>>
    BY DEF CreateChatGroup, posting
<1>2. Founder[g] \in Device
    BY TalkAssumption
<1>3. \A d \in Device, h \in Group : group'[d][h] \in {group[d][h], Chosen[h]}
    BY <1>0, <1>1, <1>2 DEF TypeOK
<1> QED
    BY <1>0, <1>1, <1>3 DEF Parts, ToldOnly, OnlyParticipantsKeep

LEMMA AcceptParties ==
    ASSUME PartyInv, NEW x \in net, AcceptChatWire(x) PROVE Parts'
<1> DEFINE d == x.to
           m == x.msg
<1>0. TypeOK /\ Parts /\ d \in Device /\ m \in Message
    BY DEF PartyInv, Parts, TypeOK, Delivery
<1>1. UNCHANGED <<post, told>>
    BY DEF AcceptChatWire, posting
<1>2. CASE ~Accepts(d, x)
    BY <1>0, <1>1, <1>2, PartyFrame DEF AcceptChatWire
<1>3. CASE Accepts(d, x)
    <2>1. messages' = [messages EXCEPT ![d] = messages[d] \cup {m}]
          /\ group' \in {group, [group EXCEPT ![d][Conv[m]] = Bootstrap(d, m)]}
          /\ (group' # group => Conv[m] \in Group /\ group[d][Conv[m]] = {})
        BY <1>3 DEF AcceptChatWire
    <2>2. AdmitInboundChat(d, m)
        BY <1>3 DEF Accepts
    <2>3. Conv[m] \in Group => Bootstrap(d, m) \subseteq Chosen[Conv[m]]
        BY <1>0 DEF Parts, ToldOnly, Bootstrap
    <2>4. CASE Conv[m] \in Direct
        <3>1. Conv[m] \notin Group
            BY <2>4, TalkAssumption
        <3>2. d \in Parties[Conv[m]]
            BY <2>2, <2>4, <3>1 DEF AdmitInboundChat
        <3>3. OnlyParticipantsKeep'
            BY <1>0, <2>1, <3>1, <3>2 DEF TypeOK, Parts, OnlyParticipantsKeep
        <3> QED
            BY <1>0, <1>1, <3>3 DEF Parts, ToldOnly
    <2>5. CASE Conv[m] \in Group
        <3>1. Conv[m] \notin Direct
            BY <2>5, TalkAssumption
        <3>2. IF group[d][Conv[m]] # {} THEN d \in group[d][Conv[m]] ELSE d \in Bootstrap(d, m)
            BY <2>2, <2>5, <3>1 DEF AdmitInboundChat, Bootstraps
        <3>3. d \in Chosen[Conv[m]]
            BY <1>0, <2>3, <2>5, <3>2 DEF Parts, OnlyParticipantsKeep
        <3>4. \A e \in Device, g \in Group : group'[e][g] \subseteq Chosen[g]
            <4>1. CASE group' = group
                BY <1>0, <4>1 DEF Parts, OnlyParticipantsKeep
            <4>2. CASE group' = [group EXCEPT ![d][Conv[m]] = Bootstrap(d, m)]
                BY <1>0, <2>3, <2>5, <4>2 DEF TypeOK, Parts, OnlyParticipantsKeep
            <4> QED
                BY <2>1, <4>1, <4>2
        <3>5. OnlyParticipantsKeep'
            BY <1>0, <2>1, <3>1, <3>3, <3>4 DEF TypeOK, Parts, OnlyParticipantsKeep
        <3> QED
            BY <1>0, <1>1, <3>5 DEF Parts, ToldOnly
    <2>6. CASE Conv[m] \notin Direct \cup Group
        <3>1. OnlyParticipantsKeep'
            BY <1>0, <2>1, <2>6 DEF TypeOK, Parts, OnlyParticipantsKeep
        <3> QED
            BY <1>0, <1>1, <3>1 DEF Parts, ToldOnly
    <2> QED
        BY <2>4, <2>5, <2>6
<1> QED
    BY <1>2, <1>3

LEMMA RestParties ==
    ASSUME PartyInv, NEW d \in Device,
           \/ \E c \in Talk : ListChatMessages(d, c)
           \/ \E e \in Device : HearOf(d, e)
           \/ \E f \in Flusher : LoadOutbox(d, f) \/ FlushSend(d, f) \/ FlushFails(d, f) \/ DeleteOutbox(d, f)
           \/ \E k \in Key : MoveKey(d, k) \/ ResealLoad(d, k) \/ ResealItem(d, k)
           \/ EndListing(d) \/ GraceEnds(d) \/ Connect(d) \/ Disconnect(d)
    PROVE  Parts'
<1>1. UNCHANGED <<post, told, messages, group>>
    BY DEF ListChatMessages, HearOf, LoadOutbox, FlushSend, FlushFails, DeleteOutbox, MoveKey, ResealLoad,
           ResealItem, EndListing, GraceEnds, Connect, Disconnect, posting
<1> QED
    BY <1>1, PartyFrame DEF PartyInv, Parts

LEMMA StopParties == ASSUME PartyInv, NEW d \in Device, Stop(d) PROVE Parts'
<1>1. \A m \in Message : post'[m] = "new" <=> post[m] = "new"
    BY DEF PartyInv, TypeOK, Stop
<1> QED
    BY <1>1, PartyFrame DEF Stop, PartyInv, Parts

LEMMA PartyNext == PartyInv /\ [Next]_vars => PartyInv'
<1> SUFFICES ASSUME PartyInv, [Next]_vars PROVE PartyInv'
    OBVIOUS
<1>1. TypeOK'
    BY NextTypes DEF PartyInv
<1>2. Parts'
    <2>1. CASE UNCHANGED vars
        BY <2>1, PartyFrame DEF vars, PartyInv, Parts
    <2>2. CASE Next
        BY <2>2, PostParties, CreateParties, AcceptParties, RestParties, StopParties DEF Next
    <2> QED
        BY <2>1, <2>2
<1> QED
    BY <1>1, <1>2 DEF PartyInv, Parts

\* Only those a group was created with keep its messages or get into a record of it, and only the two
\* devices of a direct conversation keep its messages (admitInboundChat, admitBootstrapGroupChat).
THEOREM ConversationsStayPrivate == Spec => []OnlyParticipantsKeep
<1>1. PartyInv => OnlyParticipantsKeep
    BY DEF PartyInv
<1>2. Init => PartyInv
    BY InitTypes, PartyInit DEF PartyInv, Parts
<1> QED
    BY <1>1, <1>2, PartyNext, PTL DEF Spec

-----------------------------------------------------------------------------
(* What counts as read was returned.                                        *)

LEMMA ReadInit == Init => MarkedIsListed
BY DEF Init, MarkedIsListed

\* Steps that add no read message and leave the listings alone.
LEMMA ReadFrame ==
    ASSUME ReadInv, UNCHANGED <<shown, listing, stops>>,
           \A d \in Device : \A m \in messages'[d] \ unread'[d] :
              m \in messages[d] \ unread[d] \/ Sender[m] = d
    PROVE  MarkedIsListed'
BY DEF ReadInv, MarkedIsListed

LEMMA PostRead ==
    ASSUME ReadInv, NEW m \in Message,
           \/ PrepareLocalChatPost(m) \/ SaveOutgoingChat(m) \/ GrantTerminalChatShare(m)
           \/ DiscardOutgoingChat(m) \/ SendPost(m) \/ FinishPost(m)
    PROVE  MarkedIsListed'
<1>1. UNCHANGED <<shown, listing, stops, unread>>
    BY DEF PrepareLocalChatPost, SaveOutgoingChat, GrantTerminalChatShare, DiscardOutgoingChat, SendPost,
           FinishPost, reading, past
<1>2. \/ messages' = messages
      \/ messages' = [messages EXCEPT ![Sender[m]] = messages[Sender[m]] \cup {m}]
      \/ messages' = [messages EXCEPT ![Sender[m]] = messages[Sender[m]] \ {m}]
    BY DEF PrepareLocalChatPost, SaveOutgoingChat, GrantTerminalChatShare, DiscardOutgoingChat, SendPost,
           FinishPost
<1>3. \A d \in Device : \A n \in messages'[d] : n \in messages[d] \/ (n = m /\ d = Sender[m])
    BY <1>2, SenderIsDevice DEF ReadInv, TypeOK
<1> QED
    BY <1>1, <1>3, ReadFrame

LEMMA AcceptRead == ASSUME ReadInv, NEW x \in net, AcceptChatWire(x) PROVE MarkedIsListed'
<1> DEFINE d == x.to
           m == x.msg
<1>0. TypeOK /\ d \in Device /\ m \in Message
    BY DEF ReadInv, TypeOK, Delivery
<1>1. UNCHANGED <<shown, listing, stops>>
    BY DEF AcceptChatWire, reading, past
<1>2. CASE ~Accepts(d, x)
    BY <1>1, <1>2, ReadFrame DEF AcceptChatWire
<1>3. CASE Accepts(d, x)
    <2> DEFINE more == IF CountsUnread(d, m) THEN unread[d] \cup {m} ELSE unread[d]
    <2>1. /\ messages' = [messages EXCEPT ![d] = messages[d] \cup {m}]
          /\ unread' = [unread EXCEPT ![d] = more]
        BY <1>3 DEF AcceptChatWire
    <2>2. unread[d] \subseteq more /\ (m \in more \/ m \in messages[d] \/ Sender[m] = d)
        BY DEF CountsUnread
    <2> HIDE DEF more
    <2>3. \A e \in Device : \A n \in messages'[e] \ unread'[e] :
             n \in messages[e] \ unread[e] \/ Sender[n] = e
        BY <1>0, <2>1, <2>2 DEF TypeOK
    <2> QED
        BY <1>1, <2>3, ReadFrame
<1> QED
    BY <1>2, <1>3

LEMMA ListRead ==
    ASSUME ReadInv, NEW d \in Device, (\E c \in Talk : ListChatMessages(d, c)) \/ EndListing(d)
    PROVE  MarkedIsListed'
<1>0. TypeOK /\ MarkedIsListed
    BY DEF ReadInv
<1>1. ASSUME NEW c \in Talk, ListChatMessages(d, c) PROVE MarkedIsListed'
    <2>1. ReadStep(1, d, c) /\ listing[d] = NoConv /\ listing' = [listing EXCEPT ![d] = c]
          /\ UNCHANGED <<messages, stops>>
        BY <1>1 DEF ListChatMessages, past
    <2>2. unread' = [unread EXCEPT ![d] = {m \in unread[d] : Conv[m] # c}] /\ shown' = shown
        BY <2>1 DEF ReadStep, ReadOrder, MarkConversationRead
    <2>3. \A m \in Message : Conv[m] # NoConv
        BY SenderIsDevice, TalkAssumption
    <2> QED
        BY <1>0, <2>1, <2>2, <2>3 DEF TypeOK, MarkedIsListed
<1>2. CASE EndListing(d)
    <2>1. ReadStep(2, d, listing[d]) /\ listing' = [listing EXCEPT ![d] = NoConv]
          /\ UNCHANGED <<messages, stops>>
        BY <1>2 DEF EndListing, past
    <2>2. shown' = [shown EXCEPT ![d] = shown[d] \cup {m \in messages[d] : Conv[m] = listing[d]}]
          /\ unread' = unread
        BY <2>1 DEF ReadStep, ReadOrder, ListRows
    <2> QED
        BY <1>0, <2>1, <2>2 DEF TypeOK, MarkedIsListed
<1> QED
    BY <1>1, <1>2

LEMMA RestRead ==
    ASSUME ReadInv, NEW d \in Device,
           \/ \E g \in Group : CreateChatGroup(g)
           \/ \E e \in Device : HearOf(d, e)
           \/ \E f \in Flusher : LoadOutbox(d, f) \/ FlushSend(d, f) \/ FlushFails(d, f) \/ DeleteOutbox(d, f)
           \/ \E k \in Key : MoveKey(d, k) \/ ResealLoad(d, k) \/ ResealItem(d, k)
           \/ GraceEnds(d) \/ Connect(d) \/ Disconnect(d)
    PROVE  MarkedIsListed'
<1>1. UNCHANGED <<messages, unread, shown, listing, stops>>
    BY DEF CreateChatGroup, HearOf, LoadOutbox, FlushSend, FlushFails, DeleteOutbox, MoveKey, ResealLoad,
           ResealItem, GraceEnds, Connect, Disconnect, reading, past
<1> QED
    BY <1>1, ReadFrame

LEMMA StopRead == ASSUME ReadInv, NEW d \in Device, Stop(d) PROVE MarkedIsListed'
<1>0. TypeOK /\ MarkedIsListed
    BY DEF ReadInv
<1>1. /\ stops' = [stops EXCEPT ![d] = stops[d] + 1] /\ listing' = [listing EXCEPT ![d] = NoConv]
      /\ UNCHANGED <<messages, unread, shown>>
    BY DEF Stop
<1>2. stops'[d] # 0
    <2>1. stops[d] \in 0..MaxStops
        BY <1>0 DEF TypeOK
    <2> QED
        BY <1>0, <1>1, <2>1, BoundAssumption DEF TypeOK
<1> QED
    BY <1>0, <1>1, <1>2 DEF TypeOK, MarkedIsListed

LEMMA ReadNext == ReadInv /\ [Next]_vars => ReadInv'
<1> SUFFICES ASSUME ReadInv, [Next]_vars PROVE ReadInv'
    OBVIOUS
<1>1. TypeOK'
    BY NextTypes DEF ReadInv
<1>2. MarkedIsListed'
    <2>1. CASE UNCHANGED vars
        BY <2>1, ReadFrame DEF vars
    <2>2. CASE \E g \in Group : CreateChatGroup(g)
        BY <2>2, RestRead, DeviceAssumption
    <2>3. CASE Next
        BY <2>2, <2>3, PostRead, AcceptRead, ListRead, RestRead, StopRead DEF Next
    <2> QED
        BY <2>1, <2>3
<1> QED
    BY <1>1, <1>2 DEF ReadInv

\* A message counts as read only once a listing of its conversation has returned it
\* (listChatMessages with markRead).
THEOREM ReadMeansShown == Spec => []ReadWasShown
<1>1. ReadInv => ReadWasShown
    <2>1. \A m \in Message : Conv[m] # NoConv
        BY SenderIsDevice, TalkAssumption
    <2> QED
        BY <2>1 DEF ReadInv, TypeOK, MarkedIsListed, ReadWasShown
<1>2. Init => ReadInv
    BY InitTypes, ReadInit DEF ReadInv
<1> QED
    BY <1>1, <1>2, ReadNext, PTL DEF Spec
-----------------------------------------------------------------------------
(* The chat implements what Messaging promises.                             *)

\* A sender has what it posted unless the post failed; only what was posted is queued, loaded by a
\* flush or gone out.
PostedIsKept ==
    \A m \in Message :
        /\ post[m] \in {"new", "prepared"} => m \notin messages[Sender[m]]
        /\ post[m] \in {"saved", "granted", "sent", "posted"} => m \in messages[Sender[m]]
        /\ \/ outbox[m] # NoWire \/ m \in out
           \/ \E d \in Device, f \in Flusher : flush[d][f].left[m] # NoWire
           => m \in messages[Sender[m]] \/ post[m] = "failed"

PromiseInv == OutInv /\ PartyInv /\ PostedIsKept

LEMMA KeptInit == Init => PostedIsKept
BY SenderIsDevice DEF Init, PostedIsKept, Nothing, NoFlush

\* Steps that move posts on without a save or a discard.
LEMMA KeptFrame ==
    ASSUME PostedIsKept,
           \A m \in Message : \/ post'[m] = post[m]
                              \/ post'[m] = "cut" /\ post[m] # "failed"
                              \/ {post[m], post'[m]} \subseteq {"saved", "granted", "sent", "posted"}
                              \/ {post[m], post'[m]} \subseteq {"new", "prepared"},
           \A m \in Message : m \in messages[Sender[m]] => m \in messages'[Sender[m]],
           \A m \in Message : m \in messages'[Sender[m]] => m \in messages[Sender[m]] \/ m \in out,
           \A m \in Message : outbox'[m] # NoWire => outbox[m] # NoWire,
           \A m \in out' : m \in out \/ m \in messages[Sender[m]] \/ post[m] = "failed",
           \A d \in Device, f \in Flusher, m \in Message :
              flush'[d][f].left[m] # NoWire => flush[d][f].left[m] # NoWire \/ outbox[m] # NoWire
    PROVE  PostedIsKept'
<1> SUFFICES ASSUME NEW m \in Message
             PROVE  /\ post'[m] \in {"new", "prepared"} => m \notin messages'[Sender[m]]
                    /\ post'[m] \in {"saved", "granted", "sent", "posted"} => m \in messages'[Sender[m]]
                    /\ \/ outbox'[m] # NoWire \/ m \in out'
                       \/ \E d \in Device, f \in Flusher : flush'[d][f].left[m] # NoWire
                       => m \in messages'[Sender[m]] \/ post'[m] = "failed"
    BY DEF PostedIsKept
<1>1. /\ post[m] \in {"new", "prepared"} => m \notin messages[Sender[m]] /\ m \notin out
      /\ post[m] \in {"saved", "granted", "sent", "posted"} => m \in messages[Sender[m]]
    BY DEF PostedIsKept
<1>2. \/ outbox'[m] # NoWire \/ m \in out'
      \/ \E d \in Device, f \in Flusher : flush'[d][f].left[m] # NoWire
      => m \in messages[Sender[m]] \/ post[m] = "failed"
    BY DEF PostedIsKept
<1>3. post[m] = "failed" => post'[m] = "failed"
    OBVIOUS
<1>4. post'[m] \in {"new", "prepared"} => m \notin messages'[Sender[m]]
    BY <1>1
<1>5. post'[m] \in {"saved", "granted", "sent", "posted"} => m \in messages'[Sender[m]]
    BY <1>1
<1> QED
    BY <1>2, <1>3, <1>4, <1>5

\* The variables of Messaging, as the chat holds them.
promised == <<[m \in Message |-> Answer(m)], Queued(outbox), out, messages>>

\* Steps that the promise does not see.
LEMMA Unseen ==
    ASSUME \A m \in Message : Answer(m)' = Answer(m), \A m \in Message : outbox'[m] # NoWire <=> outbox[m] # NoWire,
           UNCHANGED <<out, messages>>
    PROVE  [Promise!Next]_promised
BY DEF promised, Queued

\* A request that posts.
LEMMA PostPromised ==
    ASSUME PromiseInv, (OutInv /\ PartyInv)', NEW m \in Message,
           \/ PrepareLocalChatPost(m) \/ SaveOutgoingChat(m) \/ GrantTerminalChatShare(m)
           \/ DiscardOutgoingChat(m) \/ SendPost(m) \/ FinishPost(m)
    PROVE  PostedIsKept' /\ [Promise!Next]_promised
<1> USE SenderIsDevice DEF posting, keys, circles, links, reading, past
<1>0. TypeOK /\ PostedIsKept /\ wire[m] \in Key /\ wire[m] # NoWire
    BY Blanks DEF PromiseInv, OutInv, TypeOK
<1>1. CASE PrepareLocalChatPost(m)
    <2>1. PostedIsKept'
        BY <1>0, <1>1, KeptFrame DEF PrepareLocalChatPost, TypeOK
    <2>2. \A n \in Message : Answer(n)' = Answer(n)
        BY <1>0, <1>1 DEF PrepareLocalChatPost, TypeOK, Answer
    <2> QED
        BY <1>1, <2>1, <2>2, Unseen DEF PrepareLocalChatPost
<1>2. CASE SaveOutgoingChat(m)
    <2>1. /\ post[m] = "prepared" /\ post' = [post EXCEPT ![m] = "saved"]
          /\ outbox' = [outbox EXCEPT ![m] = wire[m]]
          /\ messages' = [messages EXCEPT ![Sender[m]] = @ \cup {m}]
          /\ UNCHANGED <<flush, out>>
        BY <1>2 DEF SaveOutgoingChat
    <2>2. PostedIsKept'
        BY <1>0, <2>1 DEF TypeOK, Queue, PostedIsKept
    <2>3. Answer(m) = "no" /\ [n \in Message |-> Answer(n)]' = [[n \in Message |-> Answer(n)] EXCEPT ![m] = "open"]
        <3>1. Answer(m) = "no"
            BY <1>0, <2>1 DEF PostedIsKept, Answer
        <3>2. post'[m] = "saved" /\ m \in messages'[Sender[m]]
            BY <1>0, <2>1 DEF TypeOK
        <3>3. Answer(m)' = "open"
            BY <3>2 DEF Answer
        <3>4. \A n \in Message \ {m} : Answer(n)' = Answer(n)
            BY <1>0, <2>1 DEF TypeOK, Answer
        <3> QED
            BY <3>1, <3>3, <3>4
    <2>4. Queued(outbox)' = Queued(outbox) \cup {m}
        BY <1>0, <2>1 DEF TypeOK, Queue, Queued
    <2>5. Sender[m] \in Participants(Conv[m])
        BY <2>1, DirectAssumption DEF PromiseInv, PartyInv, ToldOnly, Participants
    <2>6. Promise!Post(m)
        BY <2>1, <2>3, <2>4, <2>5 DEF Promise!Post
    <2> QED
        BY <2>2, <2>6 DEF Promise!Next
<1>3. CASE GrantTerminalChatShare(m)
    <2>1. PostedIsKept'
        BY <1>0, <1>3, KeptFrame DEF GrantTerminalChatShare, TypeOK
    <2>2. \A n \in Message : Answer(n)' = Answer(n)
        BY <1>0, <1>3 DEF GrantTerminalChatShare, TypeOK, Answer
    <2> QED
        BY <1>3, <2>1, <2>2, Unseen DEF GrantTerminalChatShare
<1>4. CASE DiscardOutgoingChat(m)
    <2>1. /\ post[m] = "saved" /\ post' = [post EXCEPT ![m] = "failed"]
          /\ outbox' = [outbox EXCEPT ![m] = NoWire]
          /\ messages' = [messages EXCEPT ![Sender[m]] = @ \ {m}]
          /\ UNCHANGED <<flush, out>>
        BY <1>4 DEF DiscardOutgoingChat
    <2>2. PostedIsKept'
        BY <1>0, <2>1 DEF TypeOK, Queue, PostedIsKept
    <2>3. Answer(m) = "open"
        BY <1>0, <2>1 DEF PostedIsKept, Answer
    <2>4. [n \in Message |-> Answer(n)]' = [[n \in Message |-> Answer(n)] EXCEPT ![m] = "withdrawn"]
        BY <1>0, <2>1 DEF TypeOK, Answer
    <2>5. Queued(outbox)' = Queued(outbox) \ {m}
        BY <1>0, <2>1 DEF TypeOK, Queue, Queued
    <2>6. Promise!Withdraw(m)
        BY <2>1, <2>3, <2>4, <2>5 DEF Promise!Withdraw
    <2> QED
        BY <2>2, <2>6 DEF Promise!Next
<1>5. CASE SendPost(m)
    <2>1. post[m] = "granted" /\ UNCHANGED <<outbox, flush, messages>> /\ m \in messages[Sender[m]]
        BY <1>0, <1>5 DEF SendPost, PostedIsKept
    <2>2. Answer(m) = "open"
        BY <2>1 DEF Answer
    <2>3. ASSUME Publish(m, wire[m]), post' = [post EXCEPT ![m] = "sent"]
          PROVE  PostedIsKept' /\ Promise!Send(m)
        <3>1. out' = out \cup {m}
            BY <2>3 DEF Publish
        <3>2. PostedIsKept'
            BY <1>0, <2>1, <2>3, <3>1, KeptFrame DEF TypeOK
        <3>3. [n \in Message |-> Answer(n)]' = [n \in Message |-> Answer(n)]
            BY <1>0, <2>1, <2>3 DEF TypeOK, Answer
        <3> QED
            BY <2>1, <2>2, <3>1, <3>2, <3>3 DEF Promise!Send, Queued
    <2>4. ASSUME PublishFails(m, wire[m]), post' = [post EXCEPT ![m] = "posted"]
          PROVE  PostedIsKept' /\ Promise!Confirm(m)
        <3>1. out' \in {out, out \cup {m}}
            BY <2>4 DEF PublishFails, Publish
        <3>2. PostedIsKept'
            BY <1>0, <2>1, <2>4, <3>1, KeptFrame DEF TypeOK
        <3>3. [n \in Message |-> Answer(n)]' = [[n \in Message |-> Answer(n)] EXCEPT ![m] = "confirmed"]
            BY <1>0, <2>1, <2>4 DEF TypeOK, Answer
        <3>4. Queued(outbox)' = Queued(outbox) /\ m \in Queued(outbox)' \cup out'
            <4>1. outbox'[m] # NoWire \/ m \in out'
                BY <2>1 DEF OutInv, QueuedOrOut
            <4> QED
                BY <2>1, <4>1 DEF Queued
        <3> QED
            BY <2>1, <2>2, <3>1, <3>2, <3>3, <3>4 DEF Promise!Confirm
    <2> QED
        BY <1>5, <2>3, <2>4 DEF SendPost, Promise!Next
<1>6. CASE FinishPost(m)
    <2>1. /\ post[m] = "sent" /\ post' = [post EXCEPT ![m] = "posted"]
          /\ outbox' = [outbox EXCEPT ![m] = NoWire] /\ UNCHANGED <<flush, out, messages>>
        BY <1>6 DEF FinishPost
    <2>2. m \in out /\ m \in messages[Sender[m]]
        BY <1>0, <2>1 DEF PromiseInv, OutInv, SentIsOut, PostedIsKept
    <2>3. PostedIsKept'
        BY <1>0, <2>1, KeptFrame DEF TypeOK, Queue
    <2>4. Answer(m) = "open"
        BY <2>1, <2>2 DEF Answer
    <2>5. [n \in Message |-> Answer(n)]' = [[n \in Message |-> Answer(n)] EXCEPT ![m] = "confirmed"]
        BY <1>0, <2>1 DEF TypeOK, Answer
    <2>6. Queued(outbox)' = Queued(outbox) \ {m}
        BY <1>0, <2>1 DEF TypeOK, Queue, Queued
    <2>7. Promise!Confirm(m)
        BY <2>1, <2>2, <2>4, <2>5, <2>6 DEF Promise!Confirm
    <2> QED
        BY <2>3, <2>7 DEF Promise!Next
<1> QED
    BY <1>1, <1>2, <1>3, <1>4, <1>5, <1>6

\* A flush sends what was posted, and deletes what it sent.
LEMMA FlushPromised ==
    ASSUME PromiseInv, NEW d \in Device, NEW f \in Flusher,
           LoadOutbox(d, f) \/ FlushSend(d, f) \/ FlushFails(d, f) \/ DeleteOutbox(d, f)
    PROVE  PostedIsKept' /\ [Promise!Next]_promised
<1> USE DEF posting, keys, circles, links, reading, past
<1> DEFINE next == NextQueued(d, f)
<1>0. TypeOK /\ PostedIsKept /\ flush[d][f] \in Flush
    BY DEF PromiseInv, OutInv, TypeOK
<1>1. CASE LoadOutbox(d, f)
    <2>1. \A e \in Device, g \in Flusher, m \in Message :
             flush'[e][g].left[m] # NoWire => flush[e][g].left[m] # NoWire \/ outbox[m] # NoWire
        BY <1>0, <1>1 DEF LoadOutbox, TypeOK, Flush, OutboxOf
    <2>2. PostedIsKept'
        BY <1>0, <1>1, <2>1, KeptFrame DEF LoadOutbox
    <2> QED
        BY <1>1, <2>2, Unseen DEF LoadOutbox, Answer
<1>2. ASSUME Queued(flush[d][f].left) # {}, out' = out \cup {next}, UNCHANGED <<post, outbox, messages>>,
             \A e \in Device, g \in Flusher, m \in Message :
                flush'[e][g].left[m] # NoWire => flush[e][g].left[m] # NoWire
      PROVE  PostedIsKept' /\ Promise!Next
    <2>1. next \in Message /\ flush[d][f].left[next] # NoWire
        BY <1>0, <1>2, NextIsQueued, Blanks
    <2> HIDE DEF next
    <2>2. next \in messages[Sender[next]] \/ post[next] = "failed"
        BY <1>0, <2>1 DEF PostedIsKept
    <2>3. PostedIsKept'
        BY <1>0, <1>2, <2>1, <2>2, KeptFrame
    <2>4. Answer(next) # "no" /\ [n \in Message |-> Answer(n)]' = [n \in Message |-> Answer(n)]
        BY <1>2, <2>2 DEF Answer
    <2>5. Promise!Send(next)
        BY <1>2, <2>1, <2>4 DEF Promise!Send, Queued
    <2> QED
        BY <2>1, <2>3, <2>5 DEF Promise!Next
<1>3. CASE FlushSend(d, f)
    <2>1. \A e \in Device, g \in Flusher : flush'[e][g].left = flush[e][g].left
        BY <1>0, <1>3 DEF FlushSend, TypeOK, Flush
    <2>2. Queued(flush[d][f].left) # {} /\ out' = out \cup {next} /\ UNCHANGED <<post, outbox, messages>>
        BY <1>3 DEF FlushSend, Publish
    <2> QED
        BY <1>2, <2>1, <2>2
<1>4. CASE FlushFails(d, f)
    <2>1. Queued(flush[d][f].left) # {} /\ out' \in {out, out \cup {next}} /\ UNCHANGED <<post, outbox, messages>>
        BY <1>4 DEF FlushFails, PublishFails, Publish
    <2>2. \A e \in Device, g \in Flusher, m \in Message :
             flush'[e][g].left[m] # NoWire => flush[e][g].left[m] # NoWire
        BY <1>0, <1>4 DEF FlushFails, TypeOK, Flush, NoFlush, Nothing
    <2>3. CASE out' = out
        <3>1. PostedIsKept'
            BY <1>0, <2>1, <2>2, <2>3, KeptFrame
        <3> QED
            BY <2>1, <2>3, <3>1, Unseen DEF Answer
    <2> QED
        BY <1>2, <2>1, <2>2, <2>3
<1>5. CASE DeleteOutbox(d, f)
    <2> DEFINE m == flush[d][f].sent
    <2>1. m \in Message /\ m \in out
        BY <1>0, <1>5 DEF DeleteOutbox, PromiseInv, OutInv, SentIsOut, Flush
    <2>2. outbox' = [outbox EXCEPT ![m] = NoWire] /\ UNCHANGED <<post, out, messages>>
        BY <1>5 DEF DeleteOutbox
    <2>3. \A e \in Device, g \in Flusher, n \in Message :
             flush'[e][g].left[n] # NoWire => flush[e][g].left[n] # NoWire
        <3>1. [flush[d][f].left EXCEPT ![m] = NoWire] \in Queue
            BY <1>0 DEF Flush, Queue
        <3>2. \A n \in Message : [flush[d][f].left EXCEPT ![m] = NoWire][n] \in {NoWire, flush[d][f].left[n]}
            BY <1>0 DEF Flush, Queue
        <3> QED
            BY <1>0, <1>5, <3>2 DEF DeleteOutbox, TypeOK
    <2> HIDE DEF m
    <2>4. PostedIsKept'
        BY <1>0, <2>1, <2>2, <2>3, KeptFrame DEF TypeOK, Queue
    <2>5. Queued(outbox)' = Queued(outbox) \ {m}
        BY <1>0, <2>1, <2>2 DEF TypeOK, Queue, Queued
    <2>6. Promise!Settle(m)
        BY <2>1, <2>2, <2>5 DEF Promise!Settle, Answer
    <2> QED
        BY <2>1, <2>4, <2>6 DEF Promise!Next
<1> QED
    BY <1>1, <1>3, <1>4, <1>5

\* A device keeps what was sent, if it takes part in the conversation.
LEMMA AcceptPromised ==
    ASSUME PromiseInv, (OutInv /\ PartyInv)', NEW x \in net, AcceptChatWire(x)
    PROVE  PostedIsKept' /\ [Promise!Next]_promised
<1> USE SenderIsDevice DEF posting, keys, circles, reading, past
<1> DEFINE d == x.to
           m == x.msg
<1>0. TypeOK /\ PostedIsKept /\ d \in Device /\ m \in Message /\ m \in out
    BY DEF PromiseInv, OutInv, SentIsOut, TypeOK, Delivery
<1>1. UNCHANGED <<post, outbox, flush, out>>
    BY DEF AcceptChatWire
<1>2. CASE Accepts(d, x)
    <2>1. messages' = [messages EXCEPT ![d] = @ \cup {m}]
        BY <1>2 DEF AcceptChatWire
    <2> HIDE DEF d, m
    <2>2. PostedIsKept'
        BY <1>0, <1>1, <2>1, KeptFrame DEF TypeOK
    <2>3. m \in messages[Sender[m]] \/ post[m] = "failed"
        BY <1>0 DEF PostedIsKept
    <2>4. \A n \in Message : Answer(n)' = Answer(n)
        BY <1>0, <1>1, <2>1, <2>3 DEF TypeOK, Answer
    <2>5. m \in messages'[d]
        BY <1>0, <2>1 DEF TypeOK
    <2>6. d \in Participants(Conv[m])
        BY <1>0, <2>5 DEF PartyInv, OnlyParticipantsKeep, Participants
    <2>7. Promise!Keep(d, m)
        BY <1>0, <1>1, <2>1, <2>4, <2>6 DEF Promise!Keep, Queued
    <2> QED
        BY <1>0, <2>2, <2>7 DEF Promise!Next
<1>3. CASE ~Accepts(d, x)
    <2>1. messages' = messages
        BY <1>3 DEF AcceptChatWire
    <2>2. PostedIsKept'
        BY <1>0, <1>1, <2>1, KeptFrame
    <2> QED
        BY <1>1, <2>1, <2>2, Unseen DEF Answer
<1> QED
    BY <1>2, <1>3

\* Keys, groups, readers, circles and links; a stop that cuts posts short.
LEMMA RestPromised ==
    ASSUME PromiseInv, NEW d \in Device,
           \/ \E k \in Key : MoveKey(d, k) \/ ResealLoad(d, k) \/ ResealItem(d, k)
           \/ \E g \in Group : CreateChatGroup(g)
           \/ \E c \in Talk : ListChatMessages(d, c)
           \/ \E e \in Device : HearOf(d, e)
           \/ EndListing(d) \/ GraceEnds(d) \/ Connect(d) \/ Disconnect(d) \/ Stop(d)
    PROVE  PostedIsKept' /\ [Promise!Next]_promised
<1> USE DEF posting, circles, links, past
<1>0. TypeOK /\ PostedIsKept
    BY DEF PromiseInv, OutInv
<1>1. ASSUME UNCHANGED <<post, flush, out, messages>>,
             \A m \in Message : outbox'[m] # NoWire <=> outbox[m] # NoWire
      PROVE  PostedIsKept' /\ [Promise!Next]_promised
    <2>1. PostedIsKept'
        BY <1>0, <1>1, KeptFrame
    <2> QED
        BY <1>1, <2>1, Unseen DEF Answer
<1>2. ASSUME NEW k \in Key, ResealItem(d, k) PROVE PostedIsKept' /\ [Promise!Next]_promised
    <2>1. \A m \in Message : outbox'[m] # NoWire <=> outbox[m] # NoWire
        BY <1>0, <1>2, Blanks DEF ResealItem, TypeOK, Queue
    <2> QED
        BY <1>1, <1>2, <2>1 DEF ResealItem, reading
<1>3. CASE Stop(d)
    <2>1. UNCHANGED <<outbox, out, messages>>
        BY <1>3 DEF Stop
    <2>2. \A m \in Message : \/ post'[m] = post[m]
                             \/ post'[m] = "cut" /\ post[m] \notin {"failed", "posted"}
        BY <1>0, <1>3 DEF Stop, TypeOK
    <2>3. \A e \in Device, f \in Flusher, m \in Message :
             flush'[e][f].left[m] # NoWire => flush[e][f].left[m] # NoWire
        BY <1>0, <1>3 DEF Stop, TypeOK, Flush, NoFlush, Nothing
    <2>4. PostedIsKept'
        BY <1>0, <2>1, <2>2, <2>3, KeptFrame
    <2>5. \A m \in Message : Answer(m)' = Answer(m)
        BY <2>1, <2>2 DEF Answer
    <2> QED
        BY <2>1, <2>4, <2>5, Unseen
<1>4. CASE \E k \in Key : MoveKey(d, k) \/ ResealLoad(d, k)
    BY <1>1, <1>4 DEF MoveKey, ResealLoad, reading
<1>5. CASE \E g \in Group : CreateChatGroup(g)
    BY <1>1, <1>5 DEF CreateChatGroup, keys, reading
<1>6. CASE \E c \in Talk : ListChatMessages(d, c)
    BY <1>1, <1>6 DEF ListChatMessages, keys
<1>7. CASE \E e \in Device : HearOf(d, e)
    BY <1>1, <1>7 DEF HearOf, keys, reading
<1>8. CASE EndListing(d) \/ GraceEnds(d) \/ Connect(d) \/ Disconnect(d)
    BY <1>1, <1>8 DEF EndListing, GraceEnds, Connect, Disconnect, keys, reading
<1> QED
    BY <1>2, <1>3, <1>4, <1>5, <1>6, <1>7, <1>8

LEMMA NextPromised ==
    ASSUME PromiseInv, [Next]_vars PROVE PromiseInv' /\ [Promise!Next]_promised
<1>1. (OutInv /\ PartyInv)'
    BY OutNext, PartyNext DEF PromiseInv
<1>2. PostedIsKept' /\ [Promise!Next]_promised
    <2>1. CASE UNCHANGED vars
        BY <2>1 DEF vars, PromiseInv, PostedIsKept, promised, Queued, Answer
    <2>2. CASE \E g \in Group : CreateChatGroup(g)
        BY <2>2, RestPromised, DeviceAssumption
    <2>3. CASE Next
        BY <1>1, <2>2, <2>3, PostPromised, FlushPromised, AcceptPromised, RestPromised DEF Next
    <2> QED
        BY <2>1, <2>3
<1> QED
    BY <1>1, <1>2 DEF PromiseInv

\* The chat does what Messaging promises, for any number of devices, conversations, flushes, rotations
\* and stops: each step of it is a step of Messaging or one that Messaging does not see
\* (postLocalChat, discardOutgoingChat, flushOutbox, deleteOutbox, acceptChatWire).
THEOREM ChatKeepsItsPromise == Spec => ImplementsMessaging
<1>1. Init => PromiseInv
    BY InitTypes, OutInit, PartyInit, KeptInit DEF PromiseInv, OutInv, PartyInv, Parts
<1>2. Init => Promise!Init
    BY SenderIsDevice DEF Init, Promise!Init, Answer, Queued, Nothing
<1>3. PromiseInv /\ [Next]_vars => PromiseInv' /\ [Promise!Next]_promised
    BY NextPromised
<1> QED
    BY <1>1, <1>2, <1>3, PTL DEF Spec, ImplementsMessaging, Promise!Spec, promised
=============================================================================
