# Overdrive: a TLA+ verification of its circles, terminals and shared memory

Overdrive (`src/runtime/experience`, Go) is a local program, the *Core*, that
every device of a user or a team runs. Devices form *circles*: they let each
other in, share a circle key, exchange memories, chat, call each other and share
terminals. There is no server. Every device has its own copy of everything and
talks to the others over connections that fail, so most of what can go wrong is
a matter of order: answers applied to state that has moved on, two requests on
one file or row, messages lost after their effect, processes that stop half way.
That is what the modules here are about.

All source paths below are relative to `src/runtime/experience/` unless they say
otherwise; `PROJECT.json` maps every definition to its lines.

Contents: [inventory](#inventory), [modules](#modules), [runs](#runs),
[fairness](#fairness), [proofs](#proofs), [what the code does against what is
said of it](#divergences), [what is not modelled](#not-modelled),
[plan](#plan).

## Inventory

### The circle

| Component | State | Operations | What makes it correct |
|---|---|---|---|
| Circle membership (`share_roster.go`, `share_roster_exchange.go`, `share_circle.go`, `circle_manage.go`) | in each device's circle file: members, `revoked` flags, signed admissions, signed revocations | admit, revoke (creator), ingest a peer's proofs, vouch, exchange rosters every minute | only the creator's revocations count; a revocation sticks whatever the order proofs come in; every admission leads back to the creator; removals reach everybody |
| Circle keys (`share_rekey.go`, `share_keys_exchange.go`) | `GroupKey`, `KeyEpoch`, `PreviousKey` with 24 h of grace, `KexKeys`, `KeyUpdate` | rekey, extend an update to late members, adopt, exchange, push | epochs only rise; a removed device gets no entry; a new key reaches every member |
| Circle file (`share_circle.go`) | one JSON file per circle, a mutex per path in each process | load, change, save | no update is lost, none blocks the next |
| Pairing (`pairing.go`, `pairing_session.go`) | sessions in memory on both Cores | hello, reveal, poll, confirm, cancel, expire, finish | nobody joins until both people confirm the same code; a confirmed joiner gets in although replies are lost; goroutines end |
| Invites and joining by code (`share_invite_ui.go`, `share_join.go`, `pairing_session.go`) | one-time tokens in a file | create, prove, use, remove | a token works once, also when the Core stops in between |
| Removal and pruning (`circle_manage.go`, `share_circle_prune.go`) | none of its own | plan, revoke with invitees, rotate, prune | a removal that started ends in a new key |

They meet in the circle file: pairing and invites admit, removal revokes and
rekeys, and `membershipLoop` exchanges what the copies have learnt. A device
that is removed loses, besides its membership, its terminal leases and streams,
its links to the broker and the chat's queued messages, which are sealed again.

### Terminals

| Component | State | Operations | What makes it correct |
|---|---|---|---|
| Control leases (`terminal_control.go`, lease rows of `terminal_store.go`) | rows (holder, epoch, revoked), private mode | grant, release, revoke, hand back on removal, private mode | one controller at a time; epochs that rise; a removed device loses its lease |
| Shares and streams (`terminal_shares.go`, `terminal_remote.go`, `terminal_stream.go`, `terminal_api.go`) | shares, participants, stream grants, a hub of open streams | share, invite, admit a peer, attach, recheck every 15 s, close | no stream outlives its right for long; a write is the holder's when it is written |
| Session lifecycle (`terminal_manager.go`, `terminal_host.go`) | session rows, one host process per session | create, watch, recover, adopt, terminate, purge | the state of a session ends up that of its process |
| Recording and screen (`terminal_store.go`) | numbered segments, snapshots | append, replay | a viewer that attaches sees every byte once |
| Context, environment, platform (`terminal_context_bridge.go`, `terminal_env.go`, `terminal_workdir.go`, PTY files) | none shared | build, filter, resolve | sequential code, tested |

### Messages and links

| Component | State | Operations | What makes it correct |
|---|---|---|---|
| Chat (`share_chat.go`, `share_chat_groups.go`) | messages, outbox, read marks, groups | post, flush, discard, accept, reseal after a rotation | a posted message is queued or has gone out, a queued one leaves while links are built again and again; only participants keep it; read means shown |
| Mesh (`share_mqtt.go`) | the broker elected for each circle, brokers believed gone, link, epoch of the services | elect, connect, recover, fail back, suspend, stop | members meet on one broker again; a host that restarts finds its guests waiting |
| Core lifecycle (`core_lifecycle.go`, `network_access.go`, the listener of `share_transport.go`, the tray) | ports, the stored mode and network choice, epochs of services | start, pause, resume, rebind, stop, restart | a choice is obeyed and kept; no loop of before a pause acts after it; a restart ends with a Core that serves |
| Connection health (`connection_health.go`, `peer_status.go`) | a cache of probes | probe, derive, report | what it says is so, and trouble comes with a fix |
| Calls (`share_call.go`) | sessions, events, the host of a call | invite, accept, reject, leave, claim the host's place | participants agree on who is host; a call ends |
| Discovery and peers (`share_discovery.go`, `share_peers.go`) | each member's last known address, devices nearby, devices dismissed | announce, note, dismiss, tell, dial | devices that moved find each other again; who was dismissed stays away |
| Share protocol (`share_protocol.go`, `share_transport.go`, `share_identity.go`) | keys of a device | frame, encrypt, sign | what arrives is authentic and fresh |

### Memory

| Component | State | Operations | What makes it correct |
|---|---|---|---|
| Experience engine (`db.go`, `graph.go`, `recall_logic.go`, `span_index.go`, `distill.go`) | rows of lessons with status, tier and origin, graph nodes, transcript spans and a watermark | record, validate, demote, collect, look up, scan a transcript | what may be shown can be found; a decision in a transcript is not overlooked |
| Embeddings and vector index (`turbovec.go`, embedders) | two index files, each loaded, changed and written whole by everybody who opens the store | open, add, remove, save | a lesson that needs a vector has one, but where a stop or another copy came between |
| Memory synchronisation (`share_sync.go`, `share_catalog.go`, `sync_logic.go`, `workspace_sync.go`) | a cursor, peers' lessons among the own, peers' catalogs | push, pull, import, retire with a removal | a device passes on its own lessons only; each reaches every member; a removed device's are not used |

### The rest

The command line and MCP server, the pages of the dashboard, the tray's menu
(`src/runtime/tray`), installers, skills and hooks. `PROJECT.json` says of each
why it is not modelled.

### What is hard here

`PROJECT.json` lists the hazards, each at its line. They fall in six groups.

* **Stale copies.** The roster and keys exchanges snapshot the file, talk for
  seconds, and apply the answer to the file as it is then. Grants and removals
  read the lease before they compare and set it.
* **Order of proofs.** Admissions, revocations and updates come from anybody, in
  any order, and must lead to the same result.
* **A lock that covers less than the operation.** A pairing is checked under the
  mutex, admits outside it, and is checked again. `TerminalStore` has a mutex
  for each value, and there are several values on one database.
* **Everybody decides alone.** Which broker to use, who hosts a call, where a
  member can be dialled and who is in a group is worked out by each device, from
  what has reached it.
* **Lost replies and restarts.** The effect has happened, its answer has not
  arrived; or a process ends between two of three writes.
* **What must happen in the end.** A removal reaches members that were away; a
  joiner gets in; goroutines end; a queued message leaves; members meet on one
  broker; a lesson spreads.

## Modules

| Module | What it is |
|---|---|
| `CircleMembership` | the circle replicated on its devices: rosters, keys, exchanges, removals |
| `AtomicCircle` | what callers of `updateCircle` rely on: every change is one step on the latest copy |
| `CircleFile` | how the file is really changed: lock, load, save; and the joiner's write without the lock |
| `Invites` | one-time codes, redeemed through updates of `CircleFile`; extends it |
| `Pairing` | both sides of the numeric comparison |
| `TerminalLease` | the control lease of one session, through several stores |
| `TerminalOutput` | what goes into and comes out of that session; extends `TerminalLease` |
| `TerminalAccess` | who may watch a session from another device, and the streams they hold open |
| `TerminalHost` | the life of one session and of its host process |
| `CoreLifecycle` | Cores that start, pause, rebind and restart, and the tray that supervises them |
| `CoreHosts` | both together: sessions under a Core that restarts |
| `MeshElection` | which device's broker the circle meets on |
| `Reachability` | addresses, devices nearby, and what the dashboard says of it all; extends `MeshElection` |
| `Messaging` | what the chat promises: a post is queued, then sent, or is taken back before anybody relies on it |
| `Chat` | messages, the outbox, groups and reading |
| `Calls` | one call, kept by every device's Core and dashboard |
| `Memories` | lessons in each device's store and their exchange |
| `Recall` | looking them up, the vector index, and decisions in transcripts; extends `Memories` |
| `CircleMembershipProofs`, `ChatProofs` | inductive invariants and theorems of one module |
| `PairingAndReachabilityProofs`, `AccessAndCallsProofs` | the same of two modules that share nothing, one after the other: `Pairing` and `Reachability` (with `MeshElection`); `TerminalAccess` and `Calls` |
| `InvitesProofs`, `TerminalOutputProofs`, `CoreHostsProofs`, `RecallProofs` | the same of a module and of what it extends or joins: `CircleFile`; `TerminalLease`; `TerminalHost` and `CoreLifecycle`; `Memories` |
| `MC...` | instances for TLC: devices, scenes, symmetry |

*What composes with what.* `CircleMembership` takes a change of the circle file
for one step; `CircleFile` and `Invites` show when that is right. `Pairing` sees of
the circle only who is in it; `CircleMembership` sees of a pairing only the
welcome. A removal takes back the lease in `TerminalLease` and closes streams in
`TerminalAccess`; in `Chat` and `Memories` circles and keys simply change, as
`CircleMembership` says they may. `TerminalOutput`, `CoreHosts`, `Reachability`
and `Recall` are compositions that TLC checks whole: an invariant of the
part, such as `LeasesSound`, is checked in the composition. Two theorems say that the parts
are whole in them: `SessionImplementsLease` and `HostsImplementSession`.

*What implements what.* `CircleFile` and `Invites` implement `AtomicCircle`, and `Chat`
implements `Messaging`: each is a PROPERTY of a run and a theorem.

*Scenes.* Several modules have a variable (`scene`, `play`, `net`, `search`,
`enabled`) that is chosen at the start and never changes: which devices there are, who
does what, and how often. One run then covers several small situations in which
different parts interact, in place of one large one.

*Slips.* A definition whose comment begins "A slip" is not the code's: it is what the
definition beside it would be after a plausible mistake. `PROJECT.json` names, for
each property, a slip under which the same run finds the property violated.

### CircleMembership

*State.* `circle[d]` is device d's file: its roster (members, revoked flags, who
signed each admission, for whom a revocation is held), key epoch, previous key,
known key-agreement keys and the last key update. `net` holds the calls, replies
and welcomes under way. A call carries the snapshot that its caller took of its
own file. `removal` is the creator's `revokeAndRotate` in progress. `barred` is a
history: who was revoked when a key was minted.

*Actions.* `AdmitWithWelcome` and `ApplyWelcome` (a member lets a device in and
sends it the sealed circle); `AskRoster`, `AnswerRoster`, `ApplyPeerRoster` and
`AskKeys`, `AnswerKeys`, `ApplyPeerKeys` (the two exchanges, as call, handler and
return); `BeginRemoval`, `RevokeMember`, `RotateAfterRemoval`, `AbortRemoval`
(`revokeAndRotate`, which may fail or stop anywhere), `RotateCircleKey`,
`GraceEnds`, and `Lose`. The prompts `pullCreatorRoster` and `pushKeyUpdate`, and
the loops, only decide *when* an exchange starts: they are `AskRoster` and
`AskKeys`, enabled at any time.

*Abstractions.* Only the creator mints keys, one epoch after another, so a key is
its epoch. The fixpoint of the admission loop is written as what it computes, the
least set closed under trust. The targets of a removal are revoked in any order,
which includes the code's. Three loads of the file in `handleKeys` are one step.
Signatures are what they prove; time stamps, replay windows, names and addresses
are left out, as are the version 1 invite (`acceptInvite`, `applyJoin`) and the
renaming of old creators; circles from before signed admissions are covered by
the scenario `Legacy`. One removal is under way at a time.

### CircleFile, AtomicCircle and Invites

Every thread that changes the circle file is one of two kinds. `Updating`
threads run `updateCircle`: `Lock`, `Load`, then `Save` or `Refuse`. `Joining`
threads run `applyPairingWelcome`: `CheckNotMember`, then `PersistJoinedCircle`
without the lock. The mutex belongs to a process; `Exit` ends one. The file is
the set of changes it records, so a lost update is a set that shrinks.

`Invites` makes some of these updates requests to join by code (`Redeeming`) and
some rotations (`Rotating`). `invite[c]` is the code's file, `user` the holder of
the lock `inviteUse`, `stage[t]` where a request is: `RegisterDeviceWithInvite`
(on the joiner), `LockUse`, `ReadInvite`, `Admit` (an update of `CircleFile`),
`RemoveInvite`, whose error the code drops, and the reply, which may be lost.
`DropCircleInvites` is what a rotation does afterwards. Cores follow one another
on the same files: `Stop` ends all requests where they are. `kept` is a history: the
codes whose file outlived their use. A request that fails the proof of the code
changes nothing and is left out, and so is the joiner's own copy of the invite.

### Pairing

*State.* `member[s]` and `joiner[s]` are the two sides of session s as each Core
keeps it. `thread[s]` and `call[s]` are the joiner's goroutine and its call.
`clickM`, `clickJ` and `finishing` are the confirmations and finishes under way,
between the check under the mutex and the last write. `admitted` and `belongs`
are the two circle files, reduced to who is in. `memberSaid` and `joinerSaid` are
histories of what people confirmed.

*Actions.* Every operation of the member's handler (`MemberHello`,
`MemberReveal`, `MemberPoll`, `MemberCancel`), the member's click in its four
steps (`ConfirmMember`, `AdmitWithWelcome` or `AdmissionFails`, `StoreWelcome`),
the joiner's (`ConfirmJoiner`, `RecordConfirmation`), the goroutine (`StartPairing`,
`HelloDone`, `RevealDone`, `Poll`, `PollDone`), `finishJoinerPairing`
(`TakeWelcome`, `ApplyPairingWelcome`, `CloseSession`, run by goroutine or click),
cancels, expiry, forgetting, lost calls and restarts of either Core.

*What the code really does and the module keeps.* A click that was checked before
a session closed writes its state afterwards and opens it again. The limit
`maxPairingSessions` is checked only when a `hello` arrives, so such a click may
exceed it. A `poll` whose member side was cancelled is answered
"rejected", and one with a welcome marks the session joined before the welcome
has arrived. A second run of the finish may turn "joined" into "failed" in
the view. A poll's finish and the next tick are one step; commitments, nonces and
signatures, which only decide that both sides compare the same code, are left
out.

### TerminalLease and TerminalOutput

*State of the lease.* `lease` is the table of lease rows in the order of
insertion, `privateMode` the session's column, `op[t]` what request t is doing,
`gone[d]` a history of the rows that d's last removal had before it.

*Actions.* What comes before the compare-and-set, one action for each way in
(`AskGrant` and `GrantControl`, `AskRelease` and `ReleaseControl`,
`RevokeControl`, `RemoveAccess` by the manager or by a circle removal), then the
three statements of `grantLeaseCAS`: `Compare`, `RevokeRows`, `InsertRow`. The
session host's private mode takes two statements, `EnterPrivateMode` and
`RevokeForPrivateMode`. `Stop` ends a process in the middle of its requests. No
variable stands for the mutexes: a store is locked while one of its requests is
between its first and last statement. The manager has one store, each circle
removal one of its own, and the host another.

`enabled` says which operations are in play, so that one run shows both what
holds in the manager alone (`OneActiveLease`, `EpochsRise`, `RemovedLosesLease`)
and what holds with everything (`OneViewerControls`). The three are stated for one
store because with two they do fail: two stores may both compare before either
inserts, and private mode starts epochs again. What survives is that the two rows
then in force are never both a viewer's. SQL statements are assumed to
succeed; `grantLeaseCAS` drops the error of its `UPDATE`, and the slip
`NoneRevoked` shows what that error would lead to. Among equal epochs
`GetActiveLease` may return any. Nothing in the repository but its tests sends
the host the private-mode request; the host serves it.

*Around it,* `TerminalOutput` adds the host's pump (`ReadPTY`, `NextSequence`,
`RecordOutput`, `AppendEvent`, `BroadcastOutput`), the sequence counter that the
host takes in a transaction and the Core with a SELECT and an UPDATE
(`SelectSequence`, `UpdateSequence`, `InsertEvent`), windows that attach, get the
record replayed, join and have a bounded queue (`Attach`, `Replay`, `Join`, `Show`,
`Close`), and input that is checked by the Core, checked again by the host and then
written (`SendInput` to `WriteInput`). A lease's step and the event it leads to are
coupled: a request writes its event before it lets go of its store. The host's
numbering of a frame and the hub's taking of it are one step, and so are the two
reads of `ValidateWrite`. Segments, resizing and leases that expire are left out.

### TerminalAccess

*State.* That of the device that owns the session: its members and key, shares and
participants, private mode; `window[w]`, a viewer's connection from its request to
its stream; `hubs`, the registry in which a removal looks for the streams to
close; `request`, an invite or card under way; `removal`.

*Actions.* A request is four steps, each reading what the code reads there:
`LoadCircle`, `Authorize`, `Attach`, `Register`. A stream ends through its pump
(`Send`, `Sent`, `OutputEnds`, `PumpEnds`), its reader (`ViewerLeaves`) or the
watch (`Recheck`, every 15 s). Invites and cards check, grant, announce, and take
the share back if the message fails (`Refused`). A removal lists what the device
has, takes the share and closes the streams (`RemoveParticipant`, `RemoveMember`,
`TakeShare`, `CloseStreams`), in the Core or in a command process, whose registry is
empty. A roster from a peer removes somebody without any of this (`RosterDrops`).
The reads of a recheck are one step.

### TerminalHost, CoreLifecycle and CoreHosts

`TerminalHost` has one session: its row's `state`, its host process with shell and
socket, and everybody who writes the state without looking at what it was: the
request that creates it, the host, the Core's watches over a host of its own or
an adopted one, whoever lists the sessions, termination, and the recovery that every
process runs when it first uses the terminals. Besides the Core there is the
process of an MCP server, which recovers as well.

`CoreLifecycle` has the processes of a Core on its two ports, the two files with the
stored choices, and what runs in a Core: an epoch of services, links under
construction (`starter`), an announcement. Admin requests are sequences of writes to
files, flags and sockets (`WriteSwitch`, `SetSwitch`, `Suspend`, `CloseOld`, `Rebind`,
...) and overlap. The tray and a session hook start a Core where they found the port
closed, and a restart is stop, wait, start.

`CoreHosts` joins them: the process that serves the dashboard is the one that uses
terminals; when it ends, its watches and its table of hosts go, and the hosts
stay. `hasty` and `missed` are histories of the two situations that the properties
except.

### MeshElection and Reachability

*MeshElection.* No message elects the broker: every device works out from the members
and from the brokers that failed it lately whom to use, starts its own broker if that is
itself and dials otherwise. `link[d]` is the host it chose and the state of its
client, `gone[d]` the brokers passed over and for how long, `failing` since when a
host fails, `busy` who is linking. Actions: an attempt to link that works, waits or
gives up (`RecoverLinks`, `RecoverWaits`, `RecoverGivesUp`), a pass of
`chatFailBackLoop` (`PassRecovers`, `PassStays`, `PassMoves`, `PassFailsToMove`), a
client that notices its dead connection, an announcement that is noted, devices
that come and go, and cuts of the network. Time is counted in passes of 15 s. An
attempt is one step.

*Reachability* puts around it the addresses: `hints[d][m]` is where d believes m
to listen, `dials[d]` every address its exchanges try, `ip` where the computers
really are. `Sync` and `AskMembers` carry addresses both ways (`ChooseEndpoint`,
`MergePeerRoster`), devices move and open or close themselves to the network,
announcements are looked up in the ignore list and then noted, and `CheckHealth` probes,
caches and derives what the dashboard shows. Two Cores may share a
computer. Names, round-trip times and TURN are left out.

### Chat

*State.* For each message how far its post has come, the key it was sealed with and
its row in the outbox; for each device its keys, members, rows, unread marks and
record of each group; flushes and reseals under way; deliveries from the broker.
The broker keeps nothing for a device that is away.

*Actions.* A post is prepared, saved (message and outbox row), shares the terminal a
card is about, and sends itself (`PrepareLocalChatPost` to `FinishPost`), or is
discarded. A flush loads the outbox and sends row after row (`LoadOutbox`,
`FlushSend`, `FlushFails`, `DeleteOutbox`), beside it. A new key is followed by a reseal
of the rows loaded (`MoveKey`, `ResealLoad`, `ResealItem`). `AcceptChatWire` keeps what
it can open, from an active member, for a conversation the device is in, and makes a
group's record from its first message. Reading is two statements: mark, then list.
Links drop, and Cores stop anywhere. A flush may load the outbox at any time its device can publish; when it has
to is said by the [fairness](#fairness).

*Messaging* is what all of this amounts to for somebody who posts. A message is open, then
confirmed or withdrawn (`Answer` reads that off the post and the sender's rows); while
it is open or confirmed it waits or was sent; it stops waiting only when it was sent or
its post failed; and who keeps it is a participant, and gets it only after it was sent. Flushes,
reseals, keys, links, stops and reading are stutters of `Messaging` or its `Send` and `Settle`.
It says "sent", not "received", on purpose: the broker keeps nothing for a device that is away. A
message withdrawn while a flush has its row is sent all the same.

### Calls

`sess[d]` is the Core's account of the call and `dash[d]` the dashboard's; `wire` are
the signals published and not delivered, in order between two devices, `heard` the
events the dashboard has not polled. The actions are what a person clicks, each
up to its request and after it (`StartCall` and `InviteSent`, `Accept` and `Join`, `Decline` or
`HangUp` and `Leave`; `GiveUp` is "end" while the invite is not answered yet, when the
dashboard has no call id to hang up with), delivery to a Core, and the dispatch of an event in the
dashboard (`HearInvite`, `ReplyBusy`, `HearAccept`, `HearHost`, `HearOneLeave`,
`HearLastLeave`, `HearNothing`, `SeeIncoming`).

Assumed: no signal is lost, a circle does not change during the call, and a person
answers a ring after the invites sent together have arrived and been polled
(`InviteSeen`): a poll is 1.2 s away. Posting to all targets is one step. Media signals
move neither roster nor host and are left out, and so is a second click on "end".

`CallAgrees` is what the devices agree on although only signals reconcile them: at every
moment two of them that are in the call show each other in it (`RostersMeet`), and the caller
hosts, for every dashboard and Core, as long as it is in the call (`CallerHosts`); a Core whose
events are polled counts the call as running with everybody its dashboard shows
(`CoresKeepUp`); and in a call of three, once signals are in, all who talk have one host
(`HostIsShared`), be it the caller or the one that replaced it. `LeaversAreDropped` says that once all signals are in, whoever is still shown is in the call,
unless it left without telling all of them: `quiet` has who declined or was busy, which tells the
caller alone, and a caller that gave up, which tells nobody. `CallAgrees` holds of such a caller
too, since it is not in the call. The first three parts of `CallAgrees` hold of
calls of any size, the last of three devices and not of four (see
[divergences](#divergences)).

### Memories and Recall

*Memories.* `row[d][m]` is lesson m in d's table: origin, status, tier, validations,
evidence. A command reads a row (`GetMemory`) and writes it later (`RecordMemory`,
`ValidateMemory`), the collector selects and deletes (`RunGC`, `DeleteMemory`). An
exchange works with the circle it began with: it pushes what `Exportable` says, asks
for what changed since the one cursor for all peers, imports and moves the cursor; the other
side imports and answers in a goroutine (`SyncCirclePeers`, `HandleSyncWire`,
`ImportPushedPackets`, `BuildSyncResponse`, `ImportPeerBatch`,
`ApplyPeerSyncResult`, `RecordShareSyncReport`). A removal retires the removed device's
rows on the remover (`RevokeMember`, `MarkPeerRevoked`). Only the circle's creator removes,
so in a scene all removals are one device's. Confidence is not tracked:
whether a failure takes it low enough is either. What a removed device shared may be shown
again by the remover in three cases, which `RemovedFallSilent` excepts: an exchange with it was under way
(`overlap`), the remover's own user wrote the lesson since (`touched`), or a third device
recorded the same lesson and so wakes the row, which keeps its first origin.

*Recall* adds the index of peers' vectors, `file[d]` on disk. Everybody who opens the store has a copy of it
(`copy[d][w]`): a command, a lookup, an exchange, the listener for each peer it answers, and
whatever else opens the store at any time (`Visit`: a removal, the end of a session, a request of the
dashboard). What `Memories` does to a row commits it and changes the copy in memory (`Indexes`,
`Removes`); `due` keeps that it is yet to be written, a step of its own (`SyncIndex`), before which the process may
stop (`StopsUnwritten`, with `ExchangeStops` and `ListenerStops`: an exchange is over, a client
goes on to its next peer). Nothing else of the same worker comes in between. When a worker is
done, `Close` writes its copy once more, over whatever others have written since it was opened.
All this is followed on the devices `search.indexed`; elsewhere a lookup may find any vectors (`Vectors`).
`astray` has the lessons that a stop kept out of the index, or that were written beside another
open copy. A command that collects reads the row's origin again before it decides which index it removes from
(`CommandDeletes`).

Beside these there are a lookup in its steps (`ListActiveMemories`, `BuildRecallResults`,
`ExpandGraph`, `FetchMissing`, `RecallEnds`) and the scan of a transcript that grows meanwhile
(`StatTranscript`, `ReadTail`, `InsertSpan`, `SetWatermark`, `ScanFails`). How a lesson stands to the query
(shares words, is near, is critical) is a constant, so scores and limits are left
out. The local index, which a lesson does not need to be found, is any set. The vector
library is external and assumed to be loaded; a change of embedder is left out.
Transcripts are only appended to.

## Runs

States are distinct states; times are those of two workers.

| Run | Instance | States | What it shows |
|---|---|---|---|
| `CircleSafety` | scenarios `Created`, `Late`, `Settled`, `Legacy`; three devices, up to two rotations, up to two calls outstanding | 779 000 | what every roster and key keeps true (`RostersSound`, `KeysFollowCreator`), and that no device forgets (`NothingForgotten`) |
| `CircleLive` | scenarios `Removing`, `Upgrading`; three devices, one call at a time | 6 500 | a removal and a key reach the members |
| `Invites` | one code, two devices, three requests, the third at a second Core, a rotation and a join | 81 900 | a code admits one request unless its file outlived it; each update is atomic (refinement of `AtomicCircle`); each ends |
| `Pairing` | one session, two clicks at a time on each side | 42 400 | both people and an admission before a joiner is in; pairings end and a confirmed joiner gets in |
| `TerminalOutput` | owner, two viewers, two requests at a time, up to four rows; a window with a queue of two; four chunks | 1 709 000 | leases, stale controllers, and gaps a window learns of |
| `Chat` | three devices, four messages, a group, a pair, two rotations, a stop | 1 041 000 | outbox, reading, participants; all of it implements `Messaging` |
| `ChatLive` | two devices, one message, a rotation, a stop, links that drop | 40 600 | a queued message leaves, as long as links are built again and again |
| `Reachability` | three devices, two of them on one computer; two faults or sightings; two moves | 120 000 | devices hold on to a host and meet again; health is honest and catches up |
| `TerminalAccess` | one viewer with two windows, one request, seven sets of events, a rotation | 98 500 | a removal closes streams at once; without it they end |
| `CoreHosts` | two Cores, two admin requests at a time, one session, an MCP server | 234 000 | choices are obeyed; a failed session is gone; restarts recover |
| `Calls` | three devices, one of which calls the others | 1 426 000 | rosters meet, the caller hosts, Cores keep up with dashboards, who is left shares a host, and leavers are dropped |
| `Recall` | two devices, two lessons, two seconds; copies of the index of up to five workers a device; a transcript of two lines and two scans | 194 000 | lessons and decisions can be found, and lessons spread; a removed device falls silent; nothing is passed on second hand |

Every run is exhaustive within its bounds, and between them they fire every action.
`Reachability` and `Recall` take two and a half minutes or a little more, the others less than two.

*Are the bounds enough?*

* **Circle.** An answer that is stale needs a change between question and answer: one
  call outstanding is enough for it, two let two answers cross. A removed device,
  somebody who relays and the creator are the three parts in every hazard of a roster;
  two rotations let an update be skipped and an older one come back. `Created` grows a
  circle from its creator, so nothing is assumed of the members; `Legacy` has what only
  old circles have.
* **Invites.** Two requests race for a lock and a file; the third meets what a stopped
  Core left. Two devices and a repetition by the first are the two ways a code may be
  used twice.
* **Pairing.** Two clicks at a time on each side are the double click that the
  second check of a session is there for, and a click against the poller.
* **Terminals.** Two requests at a time are what a mutex and a compare-and-set are
  about; four rows let a grant be followed by a removal, private mode and another
  grant. `SYMMETRY` exchanges requests and viewers, which nothing in the module
  tells apart; the run checks invariants only. A queue of two frames overflows with
  four chunks. Two windows of one device are what a registry of one would confuse. The
  seven settings of `TerminalAccess` put removals beside invites and cards, private
  mode, viewers that leave and a Core that stops.
* **Core.** Two processes are enough for one that starts before the other has ended;
  requests are two at a time and three in all; four stops let either process end before
  and after each recovery.
* **Mesh.** Three members are a host, a guest that waits and one that has moved on. With
  them, fail-back has at most two hosts to try; what it does with more is among the
  [divergences](#divergences). Two events are a fault and its end, or a fault during a
  recovery.
* **Chat.** Two messages in one outbox let a flush stop between them; two rotations let
  two reseals overlap. The third device is the one that must not get what is in the
  group.
* **Calls.** Three devices: one leaves and two must agree. Who starts matters only by
  the order of the two invited, so the last in the order calls.
* **Memory.** A lesson spreads from one device to one other; second-hand passing on is
  between a device that recorded and one that received, each in both roles
  (`Crossing`). Two seconds are two values of the cursor. The index is followed in
  `Indexed` (exchanges and the collector), `Asked` (a lookup beside exchanges) and `Visiting` (a
  removal and whatever else opens the store): whose copy overwrites whose takes two of them, and
  each kind of worker is in one of these. In `Left`, a lookup beside a removal, it may find any vectors.

`Invites`, `TerminalOutput`, `Calls`, `CoreHosts` and `Recall` do not check for
deadlock: requests are finite in number there and a state in which all are done is
the end. All the others check it.

Every property has a mutant, which `PROJECT.json` lists: the module with one definition
replaced by its slip, under which the same run finds the property violated.

## Fairness

`CircleMembership`: `membershipLoop` dials every peer each minute for as long as
the mesh is open. A dial may fail, so what is assumed is strong fairness of
asking, answering and applying between a member and the creator (an exchange
possible again and again succeeds at some time) and weak fairness of `Lose` (calls
have deadlines). Nothing is assumed of exchanges between other members. The dial
list is the addresses a device knows; `link` says whom it can dial. A device that
cannot dial the creator, or has been removed itself, is promised nothing.

`Pairing`: goroutines run (weak fairness of their steps), calls have deadlines
(`LoseCall`), and polling once a second succeeds at some time (strong fairness of
the member's answer and its reception). Nothing is assumed of people, of expiry or
of restarts. `PairingEnds` speaks of a goroutine that still polls: a session
closed by an expiry and opened again by a late click has none.

`Invites`: weak fairness of every thread. Go's mutexes let every waiter in, and
nothing that holds one waits for anything but the other, which is always taken second.

`TerminalAccess`: the watch ticks, a pump whose hub or connection closed returns, and a
send ends, because the viewer reads or the connection breaks.

`CoreHosts`: the steps of a start, of a request, of a recovery and of a watch go on while a
process runs them; the tray's loop goes on. Nothing is assumed of people, of stops or of
a host's end.

`Reachability`: a device that runs keeps passing, its attempts end and its client notices a
dead connection (a keep-alive of 30 s); an exchange that tells the own address, possible
again and again, succeeds at some time (strong, since a dial may fail and the loop repeats);
dashboards ask, probes and notes expire, what was begun is finished. Nothing is
assumed of what a command's exchange tells.

`ChatLive`: a link that is gone is tried again every 15 s, and some attempt succeeds (strong fairness of
`Connect`). Nothing makes a flush run while a link stays up: `chatFailBack` passes over a linked
device whose host has not changed (share_mqtt.go:943), and a flush starts where a link is built
(`recoverCircleMeshOnce`) or a guest subscribes at the host (`OnSubscribed`). So loading is
strongly fair only if the device's links are built again and again (`LinkBuilt`), and `QueuedLeaves` is
promised under the same condition. A send that is possible again and again succeeds at some time
(strong, since links drop in between). A row that was sent is deleted.

`Recall`: sessions keep starting and each syncs, in one goroutine whose steps are weakly fair
together; a call ends, and of those to a peer that can be reached some succeed (strong fairness of
`HandleSyncWire`); what the listener has begun goes on, unless its process stops. The index is written and closed where these
steps wait for it.

## Proofs

All for any number of devices, sessions, clicks, requests, threads and rotations, from the
named `ASSUME`s of each module (the creator is a device, sizes are naturals,
kinds of threads are disjoint, scenarios are well formed).

* **Circle membership.** `TypeCorrect`, `RostersStaySound` (from
  `RevocationsAreTheCreators`, `RevocationsAreMarked`, `AdmissionsAreGrounded`),
  `KeysAreTheCreators` (from `RemovedStayOut`, `CreatorLeads`), `MembersForgetNothing`.
  None of the properties is inductive alone: they are kept by copies *and* messages,
  as facts of the roster operators. The
  invariant is `TypeOK`, `CreatorStands` (the creator is a member of its own
  circle, neither revoked nor about to be), `FilesGood` (each stored roster is grounded and marked,
  and claims no more than the creator's), `MessagesGood` (so does everything on its way)
  and `BarredStay` (what the creator held revoked when it minted a key, it still
  does). That no update has an entry for such a device is part of `FilesGood` and
  `MessagesGood`. `barred` has to be in the invariant because
  `extendKeyUpdate` looks at who is active *now*: revocations never being taken
  back is what makes that enough.
* **Circle file.** `UpdatesAreAtomic`: `ASSUME` one process and at most one
  joiner, `PROVE` `CircleFile` implements `AtomicCircle`. The refinement is the
  identity on the file; the invariant is that a thread with a loaded copy holds the
  lock and its copy is the file, and that the joiner's check is still valid when it
  writes. With two joiners it fails (see [divergences](#divergences)).
* **Invites.** `InvitesStaySound` and `UpdatesStayAtomic` assume at most one joiner as well, but
  any number of Cores that follow one another, where `UpdatesAreAtomic` has one. `Running` is what makes Cores behave as one process:
  a thread on its way belongs to the Core that runs. For the codes: `UseHeld` (a request
  between reading and removing holds the lock), `Used` (a code that admitted somebody and
  whose file is still there is being removed, or is in `kept`), `First` (two admissions
  by one code only with `kept`) and `Answered` (a request with an answer was admitted).
* **Pairing.** `TypeCorrect`, and `JoiningTakesAgreement` (from `JoiningTakesTwo` and
  `JoinersAreAdmitted`). The invariant adds `ClicksGood` (a confirmation under way is one its person
  made; a member's that is past admission has admitted), `SessionsGood` (a
  welcome on the member's side was made after an admission and a confirmation) and
  `RunsGood` (the same of every welcome and finish on the joiner's side).
* **Mesh, addresses and health.** `HoodTypeCorrect`, `HostsAreHeldOnTo` and `HealthStaysHonest`: every safety
  property of `MeshElection` and `Reachability`. A device never passes its own broker over, so it always
  has somebody to elect (`ElectsSomebody`), and a link, working or dead, ends with its device
  (`LinksAreUp`). `KeepsWorkingLink` then needs that a live link leads to a broker that
  listens: who replaces its broker had it, so its own link was elsewhere. `PatientFailover`
  needs `Loyal`: a device that neither pauses nor acts on announcements recovers only when
  it has no link and has nothing noted while it has one, so what it holds against a host
  is no older than its attempts since they were last linked. Without the exception it is false:
  a move in `chatFailBack` forgets the attempts and not the note. For `HealthIsHonest` the invariant
  types the cache: what is kept is an answer, never "unknown", so each silent peer has its fix. Each kind of
  endpoint is followed through the exchanges (`HoodShapes`). The `ASSUME`s: every computer can have an address
  of its own, a circle has a member, and who accepts connections is a member. The scenes in which the mesh
  does not move begin with members that all reach each other (`AtRest`).
* **Terminal lease.** `TypeCorrect` and `ViewersTakeTurns` hold with all operations and
  all stores. Their invariant says that between a request's revoking statement and
  its insert in the manager's store no viewer's row is unrevoked (`ViewersCleared`),
  and that one request at a time is there (`OneInManager`); every other store
  inserts rows of the owner alone (`RequestsGood`). `OneLeaseAtATime`, `EpochsGrow`
  and `RemovalTakesTheLease` hold through one store, by a second invariant: rows
  are numbered by their epochs and only the last may be in force (`RowsInOrder`), a
  request past its compare has the newest epoch and only its revocation leaves no
  row in force (`CASGood`), and a removal on its way expects the lease it saw, the last
  of the rows it has to deal with (`RemovalsGood`): if its compare fails, another
  request has inserted a row since, and so revoked that one. `LeasesStaySound` puts the four
  together.
* **Terminal output.** `SessionImplementsLease`: every step of a session, whatever it does
  with output, windows and input, is a step of `TerminalLease` or leaves the lease
  alone; so `SessionLeasesStaySound`. `StaleControllersStayOut` adds that an input whose lease
  was revoked before it was sent has not passed the Core's check, and that this lease
  is still revoked (`LateIsHeld`): rows are never unrevoked, so the check refuses it.
  `GapsAreNeverSilent` is about what a window was given and has not lost (`Got`, shown or queued): no frame
  has a number above the window's count, and a live one with just that number carries
  the chunk that the pump told last (`Told`), so that the next frame taken either follows it in both or
  has skipped a number (`Given`). `SessionTypeCorrect` needs that the record can be put in order
  (`Orders`): the provers have no induction over an operator, but a smallest set of events that
  cannot be ordered leads to a contradiction, and that there is a smallest is a fact about naturals (`Least`).
* **Terminal access.** `TypeCorrect` and `RemovalClosesStreams`. Between a removal's two steps
  the property is false of nobody but the device removed: the invariant says that whoever
  lost its share to the Core has only late streams, or is about to have them closed
  (`NoneOverdue`), and that the registry holds every stream whose pump still sends
  (`Registered`), so that the closing finds them. It `ASSUME`s one peer at least.
* **Chat.** All safety properties. `OutboxStaysSound` has two invariants. For what was posted:
  what is on its way, what a post has sent and what a flush is about to delete have
  gone out (`SentIsOut`). For rotations: a reseal's old key is no older than the key of any reseal
  that began before it (`RunsInOrder`); what no
  rotation overtook is queued with the key of now or the latest reseal will come to it
  (`WillBeSealed`); and an older reseal, which would seal with its own old key,
  holds nothing that was not overtaken (`OlderIsHarmless`). `ConversationsStayPrivate`: who posts
  to a group is in it, and so is everybody its message names (`ToldOnly`); that a device
  posts to direct conversations of its own is an assumption (`DirectAssumption`).
  `ChatKeepsItsPromise` is the refinement of `Messaging`, one lemma for each kind of step (`PostPromised`,
  `FlushPromised`, `AcceptPromised`, `RestPromised`). It needs from the invariants that what a flush
  is about to delete has gone out, that a delivery was sent, and `PostedIsKept`: what is posted, or is
  going to be, is among its sender's rows, so that no step but a discard takes it back.
  `ReadMeansShown`: a read message was returned, or belongs to the conversation whose listing
  has marked and not yet returned it (`MarkedIsListed`).
* **Calls.** `CallTypeCorrect`, `WhoHangsUpIsDropped` and `DevicesAgree`, every property of `Calls`, for any
  finite circle (`DeviceAssumption`; the circle file is a list). Either nobody has started, or some c calls the devices of some P
  (`Started`). While c's invites go out nobody but c is written to, and nobody claims the
  host's place (`Early`), so a device dispatches its invite before any other signal
  (`InvitesFirst`). A leave that is still to be dispatched has a sender that is out of the
  call for good (`Left`: not invited, not ringing in its Core, and idle or about to be), and
  between two devices there is one leave at most (`Leaves`). The rest is about pairs. Whom
  the roster of a device in the call lacks has left, and its leave has been dispatched
  (`Dropped`): without this a device could hang up and not tell somebody that shows it.
  Whoever is shown is still invited, told only its caller that it declines or is busy, has a leave under way,
  or is in the call and will send one, since its own roster has us (`Kept`). Once all signals are
  in, only being in the call, having declined, or having given up before the invite was answered is left, which is `LeaversAreDropped`; `RostersMeet`
  is `Dropped`, since who is in the call has not left it.
  `DevicesAgree` adds `Meeting`. A Core is ahead of its dashboard by the events not polled, so
  whoever the dashboard shows is on the Core's roster or its leave is in `heard` (`RosterGood`).
  A claim on its way to anyone tells that the caller is out of the call (`Claims`): nobody promotes itself
  before it has dispatched the caller's leave, so until then every host is the caller
  (`CoreGood`, `HostGood`). Of three, the one who claims is the lower of the two invited
  (`Heir`) or has only the caller left; the two work out the same heir, one from the claim or each
  from the caller's leave, in the Core and in the dashboard, and it does not matter in which
  order these arrive (`TrioGood`). With a fourth, one that has just hung up may still dispatch the
  caller's leave and claim: of three nobody is left to believe it, of four two are.
* **Core and hosts.** `HostsImplementSession` first: whatever the Core's processes do, a step of
  the composition is a step of `TerminalHost`, so its invariant holds there.
  `FailedStaysGone` needs to know of the state before anything ran (`NotStarted`: until its host is started a
  session has no watch, no termination and no recovery that listed it), that a recovery
  past its signal has a host that is gone (`Reaped`), and that no host is still on its way to
  listening when FAILED is written (`FailedIsOver`, of which the property is one half). `TypeCorrect`
  takes where requests and links under construction may be (`Placed`) and that an
  epoch is not of the future (`Begun`). `SwitchesStayObeyed` has two invariants.
  `OffIsQuiet`: a Core that is paused or stopped has somebody under way who will take its links and
  announcement down, or has none. `ChoicesFollowed`, as long as no two requests overlapped: there is
  one request at most (`OneAtATime`), a Core that is settled has what the disk says
  (`Settled`), and while a request is under way no other Core is about to serve (`NoneComes`)
  and flag, file and address differ exactly by what the request has yet to write (`UnderWay`). It
  `ASSUME`s that the Core and the MCP server are two processes.
* **Memory and recall.** The invariant `Everything` has four parts. *Memory*: who calls whom
  (`Calls`: an answer that is wanted is the one its caller waits for), that an import holds one
  row it has read (`OneByOne`), that every row, packet and row in hand was recorded where it says it comes from
  (`Origins`, of which `NothingSecondHand` is a part), and that no exchange with a removed device is
  under way but those the removal met (`Parted`); the last, with `RemovedStayQuiet`,
  gives one half of `RemovedStaySilent`. *Looks*, the other half: whom a lookup saw out of the circle is
  still out, and nothing it shows is theirs. *Index*: every peer's lesson a device may show, unless it
  is `Loose` (went astray, or is about to be written), is in the file *and in every open copy* (`Held`),
  since whichever copy is written last becomes the file; what is about to be written is in
  an open copy, and never in a lookup's (`CopyForms`); whoever is at work has a copy (`HasCopies`); and a
  row a command has in hand keeps its origin, or came up behind its back and is loose (`InHand`). *Transcript*: what a scan has still to insert, with the
  spans there are, tells every decision up to where it has read (`Told`), so that it may move the
  watermark there in any order with others. `AllCanBeFound` is the last two. The parts are
  separate because steps are: lookups, index and transcript change no row, so *Memory* is kept by any
  step of `Memories` in which a lookup asks for whatever it likes (`MemoryStep`). The `ASSUME`s: the names
  of what is absent are none of a row, a lesson or a device, and removals are one device's.

Model-checked only: liveness and anything else about fairness or `ENABLED`, which the provers
do not have. Every safety property that a run checks is stated by a theorem.

## Divergences

What the code does against what a comment or a document says of it, met while
modelling. The modules have the code's behaviour, and the properties say what holds
with it: an exception in a property (`late`, `kept`, `hasty`, `missed`, `overlap`, `lapped`,
`quiet`, `astray`) is one of these.

**Circle.**
A removed device that pairs again is sent the key that was made to keep it out
(SECURITY.md:62; nothing in `buildPairingWelcome` asks whether it was revoked); it
arrives marked revoked and holds the key. A removal that fails after its revocations
leaves the old key in force, and nothing later completes it (SECURITY.md:61,
`revokeAndRotate`). When a welcome is lost and the device asks another member, that
member sends the first one's admission, which the joiner refuses (SECURITY.md:57,
pairing.go:96). A member lets a device in and is removed before the creator hears of it:
copies that took the admission keep the device, the others refuse it for good, so the
rosters never agree (share_roster_exchange.go:198).

**Circle file and invites.**
The goroutine and a click may both finish a pairing, each checking that there is no file
and writing it without the lock; the second write undoes what the membership loop changed
after the first (share_circle.go:136, CHANGELOG.md:39). A `share circle` command beside the
Core has its own mutex, so an update of each may be lost; the comment on `updateCircle`
promises no more than one process. A code admits a second request if a Core stops between
the admission and the removal of its file, or if the removal fails, whose error is dropped:
the file stays usable until it expires (SECURITY.md:56). A lost reply spends the code, and
a retry is told that the invite was not found. A code that was read before a rotation drops
the invites can still be redeemed.

**Pairing.**
The joiner is on the member's roster as soon as the member's person confirms
(pairing_session.go:23, SECURITY.md:55).

**Terminal leases and output.**
Private mode revokes every lease, the epoch is then read from no row, and the next grant is
epoch 1 again (SECURITY.md:73 says monotonic); a viewer that sends no lease id is checked by
epoch alone. The Core's `nextSequenceLocked` has no transaction and can put the sequence
back; the next event with a used number is refused by the table, so recorded output is
lost, or a grant reports failure although its lease is set. A busy database loses a chunk
from the record. A chunk recorded around the replay of a window that attaches may be lost or
shown twice there; a replay of more than the queue holds drops frames, and the dashboard does
not look at frame numbers. Leaving private mode resumes a recording that a person had
paused. A chunk read in private mode is recorded if the mode is left before `RecordOutput`
looks; snapshots taken in private mode keep its screen, and local windows go on being told.
The last output before the host exits may be lost.

**Terminal access.**
Revoking a circle member deletes its shares (SECURITY.md:71) on the revoker's own device
only (circle_manage.go:347, share_cmd.go:241). An invite whose message fails takes back a
share that another invite announced, or a card granted, meanwhile. `AttachSession` after a
removal writes the participant row again. A request admitted before a removal and
registered after it lives until the recheck.

**Terminal host.**
A listing between the host's RUNNING and its socket marks a live host FAILED for good.
Recovery runs in the MCP server's process too, and may terminate a host of the running Core
that is still booting (mcp_stdio_tools.go:74). A Core stopped before it wrote STARTING leaves
a session that the next recovery passes over; STARTING may overwrite a later state. A
session whose host is neither known nor answers is marked terminated while its host runs on.

**Core lifecycle.**
`connectMeshClient` installs its link without asking whether the mesh was paused meanwhile. A
pause that overlaps a resume or a stop leaves flag and file apart, and two overlapping
network choices leave the address and the stored choice apart; so does a Core that starts
while a request is under way. What is announced may be the network of before. A rebind
whose taking back fails leaves a Core that listens nowhere, which the tray takes for
running. A new Core that binds before the old one has exited has no dashboard for good. A
restart whose stop takes longer than the tray's 3 s leaves no Core.

**Mesh and addresses.**
`chatFailBack` moves without telling `noteChatLinkResult`, so the note of a failure
outlives the move and the next single failure gives the host up at once, against
`brokerFailoverAfter` (share_mqtt.go:52). With three unreachable members ahead in the order
of election, fail-back tries one of them in each pass of 15 s while their marks expire after
30 s, and never comes to the one that answers. Gossip has no times, so an older address
overwrites a newer one, and two devices whose addresses both change lose each other until
they pair again. A device keeps dialling every address a removed one ever had
(share_circle.go:94). A command's exchange tells no address and registers its host with
the default port. A device dismissed while its announcement is being noted comes back for up
to two minutes. A probe may be answered by another device that was given the address.

**Chat.**
A flush between saving and discarding sends a message whose post is reported as failed
(share_chat.go:532), and the sender's own copy from the broker puts it back. A stop between
marking and listing leaves messages read that nobody saw. Two members that learn of a group
from its first message with different circle files keep different records of it. A post
sealed before and saved after a rotation stays under the old key, and so does what a stop cut
off from its reseal. A publication that times out while the link stays up is not tried again
until the next link, the next subscription at the host, or a discovery that restarts the links
(share_mqtt.go:943); nothing promises one of them.

**Calls.**
A decline or "busy" tells only the caller, so the others keep the decliner in their
roster. A group call whose caller hangs up unanswered goes on ringing. An "end"
between the showing of the ring (call.mjs:1138) and the answer to the invite (call.mjs:1145) sends no hangup,
since there is no call id yet (call.mjs:1357): the invites have gone out, and those who accept show the
absent caller until they leave. An accept that
crosses a hangup makes an ended session active again in the Core (a test asserts the
opposite), and a reload within 90 s replays its invite. A hangup dispatched while `acceptInbound`
waits leaves a dashboard in a call that is over. With four devices a host may be announced
after its own hangup. A declined ring rings again if its event is polled after the snapshot.
Lost signals leave participants that are gone.

**Memories.**
A peer's lesson that failed here has its evidence computed without its text, so the next
exchange brings it back (README.md:828). A contradiction at the origin does not reach peers. A
lesson its user records after it came from a peer keeps the peer as origin, is not passed
on, and is retired with it. One cursor for all peers, compared by `UpdatedAt <= since` in
seconds, lets pulls skip lessons; pushes send everything, which is why lessons spread. An
import's check and its write are apart, so it may revive a row contradicted meanwhile, or come
after a removal. The collector deletes by id a row revived since its SELECT (README.md:148).
`validateMemory` may lose another's update. A removed device's rows are retired on the remover
only. Catalogs do not look at their origin's membership.

**Recall and the index.**
Everybody who opens the store writes its copy of the index back when it closes (db.go:76), lookups
and the dashboard's requests included, over what an import added meanwhile; that lesson is not found
until it is imported with no other copy open. So may a vector come back that was removed; its row stays
retired, so it is not shown. A row is committed before its vector is written (share_sync.go:148,
db.go:442): a process that stops in between leaves a peer's lesson that is active and cannot be found, and
`peerMemoryShouldUpdate` passes it over until its evidence is higher. `ensureVectorIndex` writes `embedder_dim`
before it reindexes, so a stop in between leaves the index empty. A session that starts
deletes the working memory of the previous one even if it lives. Full-text hits of other
repositories use up the limit before the scope is looked at. A decision whose line a scan
cut where it says so is overlooked, overlapping scans write spans twice and may put the
watermark back, and beyond eight transcripts the rest is not scanned. Two open handoffs may
come of one check, and `saveHandoff` does not reopen one that was taken.
`WriteSharedWorkspaceArtifact` has no lock, so a mismatch may be overwritten silently.

## Not modelled

Left for good: scoring and ranking, the text of lessons, the numerical code of
embeddings and its native libraries (sequential, numerical, well tested), the screen
emulator, pure I/O, platform calls, the command line, diagnostics, installers and generated
files. Cryptography and framing are the environment: what arrives is authentic, and may be
late, lost or never sent.

In the modelled parts, besides what each section above says: invites of version 1, which
carry the key, and the renaming of old creators; the pruning of stale circles; expiry of
a lease by time; the deletion of old sessions; catalogs' pins and workspace
artifacts; handoffs and the working memory; a change of embedder; media negotiation of
calls; TURN.

## Plan

1. Workspace manifests and artifacts, and handoffs: both are check-then-write on files or rows
   without a lock.
2. Version 1 invites, as another way into `CircleMembership`.
