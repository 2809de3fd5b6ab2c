---------------------------- MODULE MessageQueue ----------------------------
(***************************************************************************)
(* The shared-memory queue of shm_broadcast.py, through which the executor *)
(* sends its calls to the workers and each worker its results back.        *)
(*                                                                         *)
(* One writer and NumReaders readers share a ring of chunks without a      *)
(* lock. A chunk has a written flag and one read flag per reader. A reader *)
(* that finds nothing spins for a while and then sleeps on a socket until  *)
(* the writer notifies it. A message too large for a chunk leaves a mark   *)
(* in the chunk and travels through a socket; remote readers get every     *)
(* message through one. An action is one access to a flag, and accesses    *)
(* happen in program order: a flag is one byte, the code fences the tests  *)
(* of the flags and the write of the written flag, and between its other   *)
(* writes (the written flag cleared, the data, the read flags cleared)     *)
(* there is no fence, only the order a TSO processor such as x86 keeps.    *)
(***************************************************************************)
EXTENDS Integers, Sequences

CONSTANTS NumReaders,     \* n_local_reader
          Remote,         \* the remote readers
          MaxChunks,
          NumMessages,    \* bound: the writer enqueues 1, 2, .. NumMessages
          Large,          \* the messages that do not fit in a chunk
          Impatient,      \* the processes that pass a timeout (0 is the writer)
          Stoppable       \* bound: the readers that may be shut down

ASSUME QueueAssumption ==
  /\ NumReaders \in Nat \ {0}
  /\ MaxChunks \in Nat \ {0}
  /\ NumMessages \in Nat
  /\ Large \subseteq 1 .. NumMessages
  /\ Impatient \subseteq 0 .. NumReaders
  /\ Stoppable \subseteq 1 .. NumReaders
  /\ Remote \cap (1 .. NumReaders) = {}

Reader == 1 .. NumReaders
Chunk == 0 .. MaxChunks - 1
Message == 1 .. NumMessages

\* What a chunk holds besides a message: the overflow mark, or bytes that are
\* being written.
Overflow == 0
Torn == -1

VARIABLES
  written, read, data,    \* the ring: flags and contents of the chunks
  wpc, widx, cleared,     \* the writer: place, current_idx, read flags reset so far
  log,                    \* history: messages the writer has made visible
  rpc, ridx, readFlag,    \* the readers: place, current_idx, flag read last
  notified,               \* a notification waits in the reader's socket
  sock,                   \* payloads in the reader's socket
  got,                    \* history: messages dequeue has returned
  shuttingDown, cancel,   \* flag of the queue; cancellation: "no", "due" or "sent"
  late                    \* history: recv of a payload has timed out

ring == <<written, read, data>>
writer == <<wpc, widx, cleared, log>>
reader == <<rpc, ridx, readFlag, got, late>>
stop == <<shuttingDown, cancel>>
vars == <<ring, writer, reader, notified, sock, stop>>

Init ==
  /\ written = [c \in Chunk |-> FALSE]
  /\ read = [c \in Chunk |-> [r \in Reader |-> FALSE]]
  /\ data = [c \in Chunk |-> Torn]
  /\ wpc = "idle" /\ widx = 0 /\ cleared = 0 /\ log = <<>>
  /\ rpc = [r \in Reader |-> "flag"]
  /\ ridx = [r \in Reader |-> 0]
  /\ readFlag = [r \in Reader |-> FALSE]
  /\ notified = [r \in Reader |-> FALSE]
  /\ sock = [p \in Reader \cup Remote |-> <<>>]
  /\ got = [p \in Reader \cup Remote |-> <<>>]
  /\ shuttingDown = [r \in Reader |-> FALSE]
  /\ cancel = [r \in Reader |-> "no"]
  /\ late = [r \in Reader |-> FALSE]

\* Mutant: the index does not wrap around.
AfterUnwrapped(c) == c + 1

After(c) == (c + 1) % MaxChunks

-----------------------------------------------------------------------------
(* The writer                                                              *)

Enqueuing == Len(log) + 1

StartEnqueue ==
  /\ wpc = "idle" /\ Enqueuing \in Message
  /\ wpc' = "acquire"
  /\ UNCHANGED <<ring, widx, cleared, log, reader, notified, sock, stop>>

\* Mutant: the chunk is taken as soon as one reader has read it.
CanWriteAny(c) == written[c] => \E r \in Reader : read[c][r]

CanWrite(c) == written[c] => \A r \in Reader : read[c][r]

\* Mutant: the written flag stays set while the chunk is overwritten.
AcquireWriteVisible ==
  /\ wpc = "acquire" /\ CanWrite(widx)
  /\ data' = [data EXCEPT ![widx] = Torn]
  /\ wpc' = "fill"
  /\ UNCHANGED <<written, read, widx, cleared, log, reader, notified, sock, stop>>

AcquireWrite ==
  /\ wpc = "acquire" /\ CanWrite(widx)
  /\ written' = [written EXCEPT ![widx] = FALSE]
  /\ data' = [data EXCEPT ![widx] = Torn]
  /\ wpc' = "fill"
  /\ UNCHANGED <<read, widx, cleared, log, reader, notified, sock, stop>>

\* The caller gives up, and nothing has changed.
WriteTimeout ==
  /\ 0 \in Impatient /\ wpc = "acquire" /\ ~CanWrite(widx)
  /\ wpc' = "idle"
  /\ UNCHANGED <<ring, widx, cleared, log, reader, notified, sock, stop>>

FillChunk ==
  /\ wpc = "fill"
  /\ data' = [data EXCEPT ![widx] = IF Enqueuing \in Large THEN Overflow ELSE Enqueuing]
  /\ cleared' = 0
  /\ wpc' = "reset"
  /\ UNCHANGED <<written, read, widx, log, reader, notified, sock, stop>>

ResetReadFlag ==
  /\ wpc = "reset" /\ cleared < NumReaders
  /\ cleared' = cleared + 1
  /\ read' = [read EXCEPT ![widx][cleared'] = FALSE]
  /\ UNCHANGED <<written, data, wpc, widx, log, reader, notified, sock, stop>>

MarkWritten ==
  /\ wpc = "reset" /\ cleared = NumReaders
  /\ written' = [written EXCEPT ![widx] = TRUE]
  /\ widx' = After(widx)
  /\ log' = Append(log, Enqueuing)
  /\ wpc' = IF Enqueuing \in Large THEN "send" ELSE "notify"
  /\ UNCHANGED <<read, data, cleared, reader, notified, sock, stop>>

\* log already ends with the message that is being enqueued.
SendTo(P) == sock' = [p \in DOMAIN sock |-> IF p \in P THEN Append(sock[p], Len(log)) ELSE sock[p]]

SendPayload ==
  /\ wpc = "send"
  /\ SendTo(Reader)
  /\ wpc' = "notify"
  /\ UNCHANGED <<ring, widx, cleared, log, reader, notified, stop>>

\* A notification is dropped only where another one is still waiting.
Notify ==
  /\ wpc = "notify"
  /\ notified' = [r \in Reader |-> TRUE]
  /\ wpc' = IF Remote = {} THEN "idle" ELSE "remote"
  /\ UNCHANGED <<ring, widx, cleared, log, reader, sock, stop>>

SendRemote ==
  /\ wpc = "remote"
  /\ SendTo(Remote)
  /\ wpc' = "idle"
  /\ UNCHANGED <<ring, widx, cleared, log, reader, notified, stop>>

WriterStep ==
  \/ AcquireWrite \/ FillChunk \/ ResetReadFlag \/ MarkWritten
  \/ SendPayload \/ Notify \/ SendRemote

-----------------------------------------------------------------------------
(* A local reader. It dequeues for ever, as the loop of a worker does.     *)

Goto(r, place) == rpc' = [rpc EXCEPT ![r] = place]

ReadReadFlag(r) ==
  /\ rpc[r] = "flag"
  /\ readFlag' = [readFlag EXCEPT ![r] = read[ridx[r]][r]]
  /\ Goto(r, "written")
  /\ UNCHANGED <<ring, writer, ridx, got, late, notified, sock, stop>>

ReadWrittenFlag(r) ==
  /\ rpc[r] = "written"
  /\ Goto(r, IF written[ridx[r]] /\ ~readFlag[r] THEN "copy" ELSE "wait")
  /\ UNCHANGED <<ring, writer, ridx, readFlag, got, late, notified, sock, stop>>

\* The end of the wait: the queue may have been shut down meanwhile.
Woken(r) == Goto(r, IF shuttingDown[r] THEN "cancelled" ELSE "flag")

\* The last read is recent: give up the processor and look again.
Spin(r) ==
  /\ rpc[r] = "wait"
  /\ Woken(r)
  /\ UNCHANGED <<ring, writer, ridx, readFlag, got, late, notified, sock, stop>>

\* Mutant: the socket is drained before the reader sleeps.
SleepDrained(r) ==
  /\ rpc[r] = "wait"
  /\ notified' = [notified EXCEPT ![r] = FALSE]
  /\ Goto(r, "sleep")
  /\ UNCHANGED <<ring, writer, ridx, readFlag, got, late, sock, stop>>

\* The last read is long ago: sleep on the sockets.
Sleep(r) ==
  /\ rpc[r] = "wait"
  /\ Goto(r, "sleep")
  /\ UNCHANGED <<ring, writer, ridx, readFlag, got, late, notified, sock, stop>>

WakeUp(r) ==
  /\ rpc[r] = "sleep" /\ (cancel[r] = "sent" \/ notified[r])
  /\ notified' = [notified EXCEPT ![r] = @ /\ cancel[r] = "sent"]
  /\ Woken(r)
  /\ UNCHANGED <<ring, writer, ridx, readFlag, got, late, sock, stop>>

\* The poll ends at the deadline, or to log a warning.
PollTimeout(r) ==
  /\ r \in Impatient /\ rpc[r] = "sleep"
  /\ Woken(r)
  /\ UNCHANGED <<ring, writer, ridx, readFlag, got, late, notified, sock, stop>>

\* The deadline of the caller has passed. Nothing was taken, it may try again.
ReadTimeout(r) ==
  /\ r \in Impatient /\ rpc[r] = "wait"
  /\ Goto(r, "flag")
  /\ UNCHANGED <<ring, writer, ridx, readFlag, got, late, notified, sock, stop>>

\* The message is unpacked, then the chunk is marked as read. Buffers inside the
\* message are copied by it; one of 1 MiB and more is handed out as a slice of
\* the chunk and not copied, so reading it later is no part of this action.
FinishRead(r) ==
  /\ rpc[r] = "copy"
  /\ read' = [read EXCEPT ![ridx[r]][r] = TRUE]
  /\ ridx' = [ridx EXCEPT ![r] = After(@)]
  /\ got' = IF data[ridx[r]] = Overflow THEN got
            ELSE [got EXCEPT ![r] = Append(@, data[ridx[r]])]
  /\ Goto(r, IF data[ridx[r]] = Overflow THEN "recv" ELSE "flag")
  /\ UNCHANGED <<written, data, writer, readFlag, late, notified, sock, stop>>

Take(p) ==
  /\ sock[p] # <<>>
  /\ sock' = [sock EXCEPT ![p] = Tail(@)]
  /\ got' = [got EXCEPT ![p] = Append(@, Head(sock[p]))]

RecvPayload(r) ==
  /\ rpc[r] = "recv" /\ Take(r)
  /\ Goto(r, "flag")
  /\ UNCHANGED <<ring, writer, ridx, readFlag, late, notified, stop>>

\* The chunk is already marked as read: the payload stays behind in the socket.
RecvTimeout(r) ==
  /\ r \in Impatient /\ rpc[r] = "recv" /\ sock[r] = <<>>
  /\ late' = [late EXCEPT ![r] = TRUE]
  /\ Goto(r, "flag")
  /\ UNCHANGED <<ring, writer, ridx, readFlag, got, notified, sock, stop>>

ReaderStep(r) ==
  \/ ReadReadFlag(r) \/ ReadWrittenFlag(r) \/ Spin(r) \/ Sleep(r) \/ WakeUp(r)
  \/ FinishRead(r) \/ RecvPayload(r)

RemoteDequeue(q) == Take(q) /\ UNCHANGED <<ring, writer, rpc, ridx, readFlag, late, notified, stop>>


\* shutdown() runs in a monitor thread of the reader's process: first the flag,
\* then the ping.
Shutdown(r) ==
  /\ r \in Stoppable /\ ~shuttingDown[r]
  /\ shuttingDown' = [shuttingDown EXCEPT ![r] = TRUE]
  /\ cancel' = [cancel EXCEPT ![r] = "due"]
  /\ UNCHANGED <<ring, writer, reader, notified, sock>>

\* Mutant: the ping is not sent to a reader that is not asleep yet.
CancelSleeping(r) ==
  /\ cancel[r] = "due"
  /\ cancel' = [cancel EXCEPT ![r] = IF rpc[r] = "sleep" THEN "sent" ELSE "no"]
  /\ UNCHANGED <<ring, writer, reader, notified, sock, shuttingDown>>

Cancel(r) ==
  /\ cancel[r] = "due"
  /\ cancel' = [cancel EXCEPT ![r] = "sent"]
  /\ UNCHANGED <<ring, writer, reader, notified, sock, shuttingDown>>

Next ==
  \/ StartEnqueue \/ WriterStep \/ WriteTimeout
  \/ \E r \in Reader : \/ ReaderStep(r) \/ PollTimeout(r) \/ ReadTimeout(r)
                       \/ RecvTimeout(r) \/ Shutdown(r) \/ Cancel(r)
  \/ \E q \in Remote : RemoteDequeue(q)

Spec == Init /\ [][Next]_vars

\* Every process goes on with what it has begun, and readers always read again.
\* A deadline lies ahead when a dequeue begins, so a reader that finds nothing
\* time and again waits at some time. Callers need not enqueue or shut down, and
\* no timeout has to expire.
Fairness ==
  /\ WF_vars(WriterStep)
  /\ \A r \in Reader : /\ WF_vars(ReaderStep(r)) /\ WF_vars(Cancel(r))
                       /\ SF_vars(Spin(r) \/ Sleep(r))
  /\ \A q \in Remote : WF_vars(RemoteDequeue(q))

FairSpec == Spec /\ Fairness

-----------------------------------------------------------------------------
(* Properties                                                              *)

\* The type of the state.
TypeOK ==
  /\ written \in [Chunk -> BOOLEAN]
  /\ read \in [Chunk -> [Reader -> BOOLEAN]]
  /\ data \in [Chunk -> Message \cup {Overflow, Torn}]
  /\ wpc \in {"idle", "acquire", "fill", "reset", "send", "notify", "remote"}
  /\ widx \in Chunk /\ cleared \in 0 .. NumReaders
  /\ log \in Seq(Message)
  /\ rpc \in [Reader -> {"flag", "written", "wait", "sleep", "copy", "recv", "cancelled"}]
  /\ ridx \in [Reader -> Chunk]
  /\ readFlag \in [Reader -> BOOLEAN]
  /\ notified \in [Reader -> BOOLEAN]
  /\ sock \in [Reader \cup Remote -> Seq(Message)]
  /\ got \in [Reader \cup Remote -> Seq(Message)]
  /\ shuttingDown \in [Reader -> BOOLEAN]
  /\ cancel \in [Reader -> {"no", "due", "sent"}]
  /\ late \in [Reader -> BOOLEAN]

\* The ring buffer needs no lock ("we don't need to synchronize the access to
\* the buffer"): while a reader unpacks a chunk, up to the read flag, the chunk
\* stays written and the writer is not at work in it. Nothing is claimed of what
\* a caller reads later through a slice of the chunk.
NoTornRead ==
  \A r \in Reader : rpc[r] = "copy" =>
    /\ written[ridx[r]] /\ data[ridx[r]] # Torn
    /\ ~(wpc \in {"fill", "reset"} /\ widx = ridx[r])

\* Every reader dequeues the messages in the order of enqueue, each once, and
\* the writer is never further ahead than the ring is long (plus the payload a
\* reader is about to receive), as long as no recv of a payload has timed out.
Queue == INSTANCE BroadcastQueue
  WITH Local <- Reader, Capacity <- MaxChunks + 1

BroadcastInOrder ==
  [][(\A r \in Reader : ~late'[r]) => [Queue!BQNext]_<<log, got>>]_vars

\* No wake-up is lost: every reader catches up with the writer, also one that
\* sleeps without a deadline, unless it is shut down or a recv has timed out.
EveryMessageDelivered ==
  \A p \in Reader \cup Remote :
    []<>(Len(got[p]) = Len(log) \/ (p \in Reader /\ (shuttingDown[p] \/ late[p])))

\* A reader that is shut down stops, wherever the shutdown finds it: spinning,
\* between the test of the flags and the sleep, or asleep.
ShutdownStopsReader ==
  \A r \in Reader : shuttingDown[r] ~> rpc[r] = "cancelled"
=============================================================================
