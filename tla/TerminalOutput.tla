--------------------------- MODULE TerminalOutput ---------------------------
(***************************************************************************)
(* What goes into and comes out of a terminal session while its control    *)
(* lease moves (TerminalLease): the session host's pump and its record in  *)
(* terminal_store.go, the windows attached to it (terminal_host.go,        *)
(* terminal_stream.go), and the input that viewers send.                   *)
(*                                                                         *)
(* Chunks of output are numbered as the shell writes them.  Sequence       *)
(* numbers come from one counter in the database: the host takes them in a *)
(* transaction, the Core's requests with a SELECT and an UPDATE of their   *)
(* own.  A window is a hub in the Core with a bounded queue; a frame that  *)
(* does not fit is dropped, so that a slow window never blocks the shell.  *)
(*                                                                         *)
(* The host's numbering and the hub's taking of a frame are one step.      *)
(* Input carries the id of the lease its window shows, as the dashboard's  *)
(* does; ValidateWrite's two reads are one step.  Left out: the segments   *)
(* of a recording, resizing, a remote window's link (TerminalAccess),      *)
(* leases that expire.                                                     *)
(***************************************************************************)
EXTENDS TerminalLease, FiniteSets

CONSTANTS
    Window,     \* windows of the dashboard that watch the session
    QueueMax,   \* terminalStreamQueueMax
    MaxSeq,     \* bound on the sequence number at which private mode is entered
    Play        \* scenes: operations, rows, chunks, inputs, windows, pauses

ASSUME SessionAssumption ==
    /\ QueueMax \in Nat
    /\ Play \subseteq [ops: Setting, rows: Nat, chunks: Nat, inputs: Nat, pauses: Nat, windows: SUBSET Window]

VARIABLES
    play,       \* the scene; never changes
    stored,     \* last_sequence, recording_paused and the rows of terminal_events
    log,        \* the event that a request writes after its lease or mode
    pump,       \* pumpPTYOutput
    window,     \* the windows
    input,      \* the input that a request carries
    typed,      \* what the shell has read
    left,       \* how many inputs, pauses and snapshots may still come
    torn        \* the Core has put the sequence back

out == <<play, stored, log, pump, window, input, typed, left, torn>>

session == <<vars, out>>

NoLog == [at |-> "none", seq |-> 0, store |-> "manager"]

NoInput == [at |-> "none", from |-> None, row |-> 0, late |-> FALSE]

Closed == [at |-> "closed", frames |-> 0, queue |-> <<>>, shown |-> <<>>]

Recording == ~privateMode /\ ~stored.paused

Used(n) == \E e \in stored.events : e.seq = n

\* A slip: a number may be taken twice.
InsertsTwice(n, what, chunk) == stored.events \cup {[seq |-> n, what |-> what, chunk |-> chunk]}

Insert(n, what, chunk) ==
    IF Used(n) THEN stored.events ELSE stored.events \cup {[seq |-> n, what |-> what, chunk |-> chunk]}

\* The mutex of the host's store.
HostFree == \A t \in Thread : op[t].at # "entering" /\ (log[t].at # "none" => log[t].store # "host")

-----------------------------------------------------------------------------
(* The event that follows a lease or a change of mode.                      *)

Enters(t) == op[t].at = "idle" /\ op'[t].at = "entering"

\* A request whose row was inserted by this step, or who entered private mode.
Logs(t) == Enters(t) \/ (op[t].at = "cleared" /\ Len(lease') > Len(lease))

\* A request that writes its event holds the mutex of its store.
LogHolds ==
    \A t \in Thread : log[t].at # "none" =>
        /\ op'[t] = op[t]
        /\ \A u \in Thread : op[u].at = "ready" /\ op'[u].at = "agreed" => StoreOf(u) # log[t].store
        /\ log[t].store = "host" => privateMode' = privateMode

LoggedLease ==
    [t \in Thread |-> IF play.chunks > 0 /\ Logs(t) THEN [at |-> "select", seq |-> 0, store |-> StoreOf(t)']
                      ELSE log[t]]

\* SetPrivateMode pauses the recording with the mode, and leaving the mode
\* resumes it; the event of leaving is written in the same step.
ModeSet ==
    IF privateMode' = privateMode THEN stored
    ELSE IF privateMode' \/ play.chunks = 0 THEN [stored EXCEPT !.paused = privateMode']
    ELSE [stored EXCEPT !.paused = FALSE, !.last = @ + 1,
                        !.events = Insert(stored.last + 1, "private", 0)]

LeaseMoves ==
    /\ Next /\ LogHolds
    /\ Len(lease') <= play.rows
    /\ (\E t \in Thread : Enters(t)) => play.chunks = 0 \/ stored.last < MaxSeq
    /\ log' = LoggedLease
    /\ stored' = ModeSet
    /\ UNCHANGED <<play, pump, window, input, typed, left, torn>>

\* nextSequenceLocked: a SELECT, ...
SelectSequence(t) ==
    /\ log[t].at = "select"
    /\ log' = [log EXCEPT ![t].at = "update", ![t].seq = stored.last + 1]
    /\ UNCHANGED <<vars, play, stored, pump, window, input, typed, left, torn>>

\* ... an UPDATE that does not look again, ...
UpdateSequence(t) ==
    /\ log[t].at = "update"
    /\ stored' = [stored EXCEPT !.last = log[t].seq]
    /\ torn' = (torn \/ log[t].seq <= stored.last)
    /\ log' = [log EXCEPT ![t].at = "insert"]
    /\ UNCHANGED <<vars, play, pump, window, input, typed, left>>

\* ... and the event, whose number must be new.
InsertEvent(t) ==
    /\ log[t].at = "insert"
    /\ stored' = [stored EXCEPT !.events = Insert(log[t].seq, "lease", 0)]
    /\ log' = [log EXCEPT ![t] = NoLog]
    /\ UNCHANGED <<vars, play, pump, window, input, typed, left, torn>>

\* PauseRecording and ResumeRecording.
PauseRecording == [stored EXCEPT !.paused = TRUE]
ResumeRecording == [stored EXCEPT !.paused = FALSE]

ServeTerminalRecording ==
    /\ left.pauses > 0
    /\ stored' = IF stored.paused THEN ResumeRecording ELSE PauseRecording
    /\ left' = [left EXCEPT !.pauses = @ - 1]
    /\ UNCHANGED <<vars, play, log, pump, window, input, typed, torn>>

-----------------------------------------------------------------------------
(* pumpPTYOutput and RecordOutput.                                          *)

ReadPTY ==
    /\ pump.at = "idle" /\ pump.chunk < play.chunks
    /\ pump' = [pump EXCEPT !.at = "read", !.chunk = @ + 1]
    /\ UNCHANGED <<vars, play, stored, log, window, input, typed, left, torn>>

NextSequence ==
    /\ pump.at = "read" /\ HostFree
    /\ stored' = [stored EXCEPT !.last = @ + 1]
    /\ pump' = [pump EXCEPT !.at = "numbered", !.seq = stored.last + 1]
    /\ UNCHANGED <<vars, play, log, window, input, typed, left, torn>>

\* Another process writes between the statements of the transaction.
SequenceIsBusy ==
    /\ pump.at = "read" /\ HostFree
    /\ \E t \in Thread : log[t].at # "none" \/ Holds(t)
    /\ pump' = [pump EXCEPT !.at = "tell"]
    /\ UNCHANGED <<vars, play, stored, log, window, input, typed, left, torn>>

\* Reads the session anew; what is not recorded is still told.
RecordOutput ==
    /\ pump.at = "numbered"
    /\ pump' = [pump EXCEPT !.at = IF Recording THEN "append" ELSE "tell"]
    /\ UNCHANGED <<vars, play, stored, log, window, input, typed, left, torn>>

AppendEvent ==
    /\ pump.at = "append"
    /\ stored' = [stored EXCEPT !.events = Insert(pump.seq, "output", pump.chunk)]
    /\ pump' = [pump EXCEPT !.at = "tell"]
    /\ UNCHANGED <<vars, play, log, window, input, typed, left, torn>>

\* terminalStreamHub.push: a frame is taken, or dropped.
Push(queue, f) == IF Len(queue) < QueueMax THEN Append(queue, f) ELSE queue

\* As Framed, with a number for what is taken only.
NumberedByHub(w, chunk, live) ==
    IF Len(w.queue) < QueueMax
    THEN [w EXCEPT !.frames = @ + 1, !.queue = Append(@, [n |-> w.frames + 1, chunk |-> chunk, live |-> live])]
    ELSE w

\* terminalFramedWriter numbers the frame in the host; the Core's hub takes it or drops it.
Framed(w, chunk, live) ==
    LET n == w.frames + 1
    IN  [w EXCEPT !.frames = n, !.queue = Push(@, [n |-> n, chunk |-> chunk, live |-> live])]

BroadcastOutput ==
    /\ pump.at = "tell"
    /\ window' = [w \in Window |-> IF window[w].at = "live" THEN Framed(window[w], pump.chunk, TRUE) ELSE window[w]]
    /\ pump' = [pump EXCEPT !.at = "idle"]
    /\ UNCHANGED <<vars, play, stored, log, input, typed, left, torn>>

-----------------------------------------------------------------------------
(* A window opens.                                                          *)

\* A snapshot takes a number of the record.
SaveSnapshot == [stored EXCEPT !.last = @ + 1, !.events = Insert(stored.last + 1, "snapshot", 0)]

\* registerTerminalStream, and the snapshot that the Core asks for.
Attach(w) ==
    /\ w \in play.windows /\ window[w].at = "closed" /\ left.attaches > 0
    /\ HostFree
    /\ left' = [left EXCEPT !.attaches = @ - 1]
    /\ window' = [window EXCEPT ![w] = [Closed EXCEPT !.at = "opened"]]
    /\ stored' = SaveSnapshot
    /\ UNCHANGED <<vars, play, log, pump, input, typed, torn>>

\* replayStreamAttachHistory: what is recorded, in the order of its numbers.
Outputs == {e \in stored.events : e.what = "output"}

Recorded == CHOOSE s \in [1..Cardinality(Outputs) -> Outputs] : \A i, j \in DOMAIN s : i < j => s[i].seq < s[j].seq

\* Each is a frame, as in Framed; the queue, empty until then, takes the first of them.
Replay(w) ==
    /\ window[w].at = "opened"
    /\ LET n == Len(Recorded)
           taken == IF n < QueueMax THEN n ELSE QueueMax
       IN  window' = [window EXCEPT ![w].at = "replayed", ![w].frames = n,
                         ![w].queue = [i \in 1..taken |-> [n |-> i, chunk |-> Recorded[i].chunk, live |-> FALSE]]]
    /\ UNCHANGED <<vars, play, stored, log, pump, input, typed, left, torn>>

\* serveStreamAttach: from now on it hears what the pump tells.
Join(w) ==
    /\ window[w].at = "replayed"
    /\ window' = [window EXCEPT ![w].at = "live"]
    /\ UNCHANGED <<vars, play, stored, log, pump, input, typed, left, torn>>

\* pumpTerminalHub.
Show(w) ==
    /\ window[w].queue # <<>>
    /\ window' = [window EXCEPT ![w].queue = Tail(@), ![w].shown = Append(@, Head(window[w].queue))]
    /\ UNCHANGED <<vars, play, stored, log, pump, input, typed, left, torn>>

\* unregisterStreamPeer, unregisterTerminalStreamHub.
Close(w) ==
    /\ window[w].at # "closed"
    /\ window' = [window EXCEPT ![w] = Closed]
    /\ UNCHANGED <<vars, play, stored, log, pump, input, typed, left, torn>>

-----------------------------------------------------------------------------
(* Input of a device, under the lease that its window shows.                *)

\* As ValidateWrite, by the epoch alone.
EpochIsCurrent(from, row) ==
    ~privateMode /\ \E i \in Current : i # 0 /\ lease[i].epoch = lease[row].epoch

ValidateWrite(from, row) ==
    /\ ~privateMode
    /\ \E i \in Current : i = row /\ (lease[i].holder = from \/ from = Owner)

InputMoves(t, at) == input' = [input EXCEPT ![t] = IF at = "none" THEN NoInput ELSE [@ EXCEPT !.at = at]]

SendInput(t, d) ==
    /\ left.inputs > 0 /\ input[t].at = "none"
    /\ \E i \in DOMAIN lease :
          input' = [input EXCEPT ![t] = [at |-> "sent", from |-> d, row |-> i, late |-> lease[i].revoked]]
    /\ left' = [left EXCEPT !.inputs = @ - 1]
    /\ UNCHANGED <<vars, play, stored, log, pump, window, typed, torn>>

\* handleViewerFrame in the Core, then ipcInput in the host.
Checks(t, from, to) ==
    /\ input[t].at = from
    /\ InputMoves(t, IF ValidateWrite(input[t].from, input[t].row) THEN to ELSE "none")
    /\ UNCHANGED <<vars, play, stored, log, pump, window, typed, left, torn>>

HandleViewerFrame(t) == Checks(t, "sent", "forwarded")
ValidateLease(t)     == Checks(t, "forwarded", "valid")

\* The host looks at private mode once more.
CheckPrivateMode(t) ==
    /\ input[t].at = "valid"
    /\ InputMoves(t, IF privateMode THEN "none" ELSE "typing")
    /\ UNCHANGED <<vars, play, stored, log, pump, window, typed, left, torn>>

WriteInput(t) ==
    /\ input[t].at = "typing" /\ HostFree
    /\ typed' = typed \cup {[from |-> input[t].from, row |-> input[t].row, late |-> input[t].late]}
    /\ stored' = [stored EXCEPT !.last = @ + 1, !.events = Insert(stored.last + 1, "input", 0)]
    /\ InputMoves(t, "none")
    /\ UNCHANGED <<vars, play, log, pump, window, left, torn>>

-----------------------------------------------------------------------------
SessionInit ==
    /\ Init
    /\ play \in Play /\ enabled = play.ops
    /\ stored = [last |-> 0, paused |-> FALSE, events |-> {}]
    /\ log = [t \in Thread |-> NoLog]
    /\ pump = [at |-> "idle", chunk |-> 0, seq |-> 0]
    /\ window = [w \in Window |-> Closed]
    /\ input = [t \in Thread |-> NoInput]
    /\ typed = {}
    /\ left = [inputs |-> play.inputs, pauses |-> play.pauses, attaches |-> 2 * Cardinality(play.windows)]
    /\ torn = FALSE

SessionNext ==
    \/ LeaseMoves
    \/ \E t \in Thread :
          \/ SelectSequence(t) \/ UpdateSequence(t) \/ InsertEvent(t)
          \/ \E d \in Device : SendInput(t, d)
          \/ HandleViewerFrame(t) \/ ValidateLease(t) \/ CheckPrivateMode(t) \/ WriteInput(t)
    \/ ServeTerminalRecording
    \/ ReadPTY \/ NextSequence \/ SequenceIsBusy \/ RecordOutput \/ AppendEvent \/ BroadcastOutput
    \/ \E w \in Window : Attach(w) \/ Replay(w) \/ Join(w) \/ Show(w) \/ Close(w)

SessionSpec == SessionInit /\ [][SessionNext]_session
-----------------------------------------------------------------------------
(* Properties.                                                              *)

Frame == [n: Nat, chunk: Nat, live: BOOLEAN]

\* Every variable of the session, and of its lease, holds a value of its type.
\* (Every row a window queues fits its queue, and no event shares its number
\* with another.)
SessionTypeOK ==
    /\ TypeOK
    /\ play \in Play
    /\ stored.last \in Nat /\ stored.paused \in BOOLEAN
    /\ \A e, f \in stored.events : e.seq = f.seq => e = f
    /\ \A t \in Thread : log[t].at \in {"none", "select", "update", "insert"}
    /\ pump.at \in {"idle", "read", "numbered", "append", "tell"} /\ pump.chunk \in 0..play.chunks
    /\ \A w \in Window : /\ window[w].queue \in Seq(Frame) /\ Len(window[w].queue) <= QueueMax
                         /\ window[w].shown \in Seq(Frame)
    /\ \A t \in Thread : input[t].at \in {"none", "sent", "forwarded", "valid", "typing"}

\* SECURITY.md: a lease "rejects stale controllers".  Input that quotes a lease
\* which was already revoked when it was sent never reaches the shell, through
\* whichever grants, releases, and private modes come between the Core's check
\* and the host's, although private mode makes the epochs start again.
StaleControllersRejected == \A x \in typed : ~x.late

\* A window learns of output it missed: live frames with consecutive numbers
\* carry consecutive chunks, however slow the window and whenever it joined.
NoSilentGap ==
    \A w \in Window :
        LET got == window[w].shown \o window[w].queue
        IN  \A i \in 1..(Len(got) - 1) :
               got[i].live /\ got[i + 1].n = got[i].n + 1 => got[i + 1].chunk = got[i].chunk + 1
=============================================================================
