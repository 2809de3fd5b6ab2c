------------------------- MODULE MessageQueueProofs -------------------------
(***************************************************************************)
(* For every number of readers, chunks and messages: the state of the      *)
(* queue keeps its type, no reader ever copies a chunk the writer is at    *)
(* work in, and every reader dequeues all messages once and in order until *)
(* a recv of a payload times out.                                          *)
(***************************************************************************)
EXTENDS MessageQueue, TLAPS

\* What a reader relies on between its three looks at a chunk. Only the reader
\* itself sets its read flag, so a flag found clear stays clear; while it is, the
\* writer does not take a written chunk.
ReadersSafe ==
  \A r \in Reader :
    /\ rpc[r] = "written" /\ ~readFlag[r] => ~read[ridx[r]][r]
    /\ rpc[r] = "copy" => written[ridx[r]] /\ ~read[ridx[r]][r]

\* What the writer relies on: the chunk it works in is not written, a written
\* chunk is complete, and it has a message to write.
WriterSafe ==
  /\ wpc \in {"fill", "reset"} => ~written[widx]
  /\ wpc = "reset" => data[widx] # Torn
  /\ \A c \in Chunk : written[c] => data[c] # Torn
  /\ wpc \in {"acquire", "fill", "reset"} => Enqueuing \in Message
  /\ wpc \in {"send", "notify", "remote"} => Len(log) \in Message

\* The inductive invariant.
IInv == TypeOK /\ ReadersSafe /\ WriterSafe

\* The index of a chunk wraps around within the ring.
LEMMA AfterInChunk ==
  ASSUME NEW c \in Chunk
  PROVE  After(c) \in Chunk
  BY QueueAssumption DEF After, Chunk

\* A state of the queue that satisfies the invariant has no torn read.
LEMMA IInvNoTornRead == IInv => NoTornRead
  BY DEF IInv, TypeOK, ReadersSafe, WriterSafe, NoTornRead

\* The empty queue satisfies the invariant.
LEMMA InitIInv == Init => IInv
<1> SUFFICES ASSUME Init PROVE IInv
  OBVIOUS
<1>1. 0 \in Chunk
  BY QueueAssumption DEF Chunk
<1>2. TypeOK
  BY <1>1, QueueAssumption DEF Init, TypeOK, Torn, Overflow
<1>3. ReadersSafe /\ WriterSafe
  BY <1>1 DEF Init, ReadersSafe, WriterSafe
<1> QED
  BY <1>2, <1>3 DEF IInv

\* Every step of the writer, of a reader or of a shutdown preserves it.
LEMMA NextIInv == IInv /\ [Next]_vars => IInv'
<1> SUFFICES ASSUME IInv, [Next]_vars PROVE IInv'
  OBVIOUS
<1> USE DEF IInv
<1>1. CASE StartEnqueue
  BY <1>1 DEF StartEnqueue, TypeOK, ReadersSafe, WriterSafe, Enqueuing,
     ring, reader, stop
<1>2. CASE AcquireWrite
  <2> USE <1>2 DEF AcquireWrite, reader, stop
  <2>1. TypeOK'
    BY DEF TypeOK, Torn
  <2>2. ReadersSafe'
    <3> SUFFICES ASSUME NEW r \in Reader
                 PROVE  /\ rpc[r] = "written" /\ ~readFlag[r] => ~read[ridx[r]][r]
                        /\ rpc[r] = "copy" => written'[ridx[r]] /\ ~read[ridx[r]][r]
      BY DEF ReadersSafe
    <3>1. rpc[r] = "copy" => ridx[r] # widx
      BY DEF ReadersSafe, CanWrite
    <3> QED
      BY <3>1 DEF ReadersSafe, TypeOK
  <2>3. WriterSafe'
    BY DEF WriterSafe, TypeOK, Enqueuing
  <2> QED
    BY <2>1, <2>2, <2>3
<1>3. CASE WriteTimeout
  BY <1>3 DEF WriteTimeout, TypeOK, ReadersSafe, WriterSafe, ring, reader, stop
<1>4. CASE FillChunk
  <2> USE <1>4 DEF FillChunk, reader, stop
  <2>1. Enqueuing \in Message /\ Enqueuing # Torn /\ Overflow # Torn
    BY DEF WriterSafe, Message, Torn, Overflow
  <2>2. TypeOK'
    BY <2>1, QueueAssumption DEF TypeOK
  <2>3. ReadersSafe'
    BY DEF ReadersSafe
  <2>4. WriterSafe'
    BY <2>1 DEF WriterSafe, TypeOK, Enqueuing
  <2> QED
    BY <2>2, <2>3, <2>4
<1>5. CASE ResetReadFlag
  <2> USE <1>5 DEF ResetReadFlag, reader, stop
  <2>1. cleared' \in Reader
    BY QueueAssumption DEF TypeOK, Reader
  <2>2. TypeOK'
    BY <2>1, QueueAssumption DEF TypeOK, Reader
  <2>3. ReadersSafe'
    BY <2>1 DEF ReadersSafe, TypeOK
  <2>4. WriterSafe'
    BY DEF WriterSafe, Enqueuing
  <2> QED
    BY <2>2, <2>3, <2>4
<1>6. CASE MarkWritten
  <2> USE <1>6 DEF MarkWritten, reader, stop
  <2>1. After(widx) \in Chunk
    BY AfterInChunk DEF TypeOK
  <2>2. Enqueuing \in Message /\ log' \in Seq(Message) /\ Len(log') = Enqueuing
    BY DEF TypeOK, WriterSafe, Enqueuing
  <2>3. TypeOK'
    BY <2>1, <2>2 DEF TypeOK
  <2>4. ReadersSafe'
    BY DEF ReadersSafe, TypeOK
  <2>5. WriterSafe'
    BY <2>2 DEF WriterSafe, TypeOK
  <2> QED
    BY <2>3, <2>4, <2>5
<1>7. CASE SendPayload \/ SendRemote
  <2> USE <1>7 DEF SendPayload, SendRemote, SendTo, ring, reader, stop
  <2>1. Len(log) \in Message
    BY DEF WriterSafe
  <2>2. sock' \in [Reader \cup Remote -> Seq(Message)]
    <3>1. \A p \in Reader \cup Remote : Append(sock[p], Len(log)) \in Seq(Message)
      BY <2>1 DEF TypeOK
    <3>2. DOMAIN sock = Reader \cup Remote /\ \A p \in Reader \cup Remote : sock[p] \in Seq(Message)
      BY DEF TypeOK
    <3>3. CASE SendPayload
      BY <3>1, <3>2, <3>3
    <3>4. CASE SendRemote
      BY <3>1, <3>2, <3>4
    <3> QED
      BY <3>3, <3>4
  <2>3. TypeOK'
    BY <2>2 DEF TypeOK
  <2>4. ReadersSafe' /\ WriterSafe'
    BY <2>1 DEF ReadersSafe, WriterSafe
  <2> QED
    BY <2>3, <2>4
<1>8. CASE Notify
  BY <1>8 DEF Notify, TypeOK, ReadersSafe, WriterSafe, ring, reader, stop
<1> DEFINE Leaves(r) == \/ ReadReadFlag(r) \/ ReadWrittenFlag(r) \/ Spin(r) \/ Sleep(r)
                        \/ WakeUp(r) \/ PollTimeout(r) \/ ReadTimeout(r) \/ RecvTimeout(r)
<1>9. ASSUME NEW r \in Reader, Leaves(r) PROVE IInv'
  <2> USE <1>9 DEF Goto, Woken, ring, writer, stop,
        ReadReadFlag, ReadWrittenFlag, Spin, Sleep, WakeUp, PollTimeout, ReadTimeout, RecvTimeout
  <2> DEFINE Place == {"flag", "written", "wait", "sleep", "copy", "recv", "cancelled"}
  <2>1. TypeOK'
    <3>1. rpc' \in [Reader -> Place]
      BY ZenonT(30) DEF TypeOK
    <3>2. readFlag' \in [Reader -> BOOLEAN]
      <4>1. read[ridx[r]][r] \in BOOLEAN
        BY DEF TypeOK
      <4>2. readFlag' = readFlag \/ readFlag' = [readFlag EXCEPT ![r] = read[ridx[r]][r]]
        OBVIOUS
      <4> QED
        BY <4>1, <4>2 DEF TypeOK
    <3>3. notified' \in [Reader -> BOOLEAN]
      <4>1. notified' = notified \/ \E b \in BOOLEAN : notified' = [notified EXCEPT ![r] = b]
        BY DEF TypeOK
      <4> QED
        BY <4>1 DEF TypeOK
    <3>4. late' \in [Reader -> BOOLEAN]
      BY DEF TypeOK
    <3>5. UNCHANGED <<written, read, data, wpc, widx, cleared, log, ridx, sock, got,
                      shuttingDown, cancel>>
      OBVIOUS
    <3> QED
      BY <3>1, <3>2, <3>3, <3>4, <3>5 DEF TypeOK
  <2>2. ReadersSafe'
    BY DEF ReadersSafe, TypeOK
  <2>3. WriterSafe'
    BY DEF WriterSafe, Enqueuing
  <2> QED
    BY <2>1, <2>2, <2>3
<1>10. ASSUME NEW r \in Reader, FinishRead(r) PROVE IInv'
  <2> USE <1>10 DEF FinishRead, Goto, writer, stop
  <2>1. ridx[r] \in Chunk /\ After(ridx[r]) \in Chunk
    BY AfterInChunk DEF TypeOK
  <2>2. data[ridx[r]] # Overflow => data[ridx[r]] \in Message
    BY <2>1 DEF TypeOK, ReadersSafe, WriterSafe
  <2>3. TypeOK'
    BY <2>1, <2>2 DEF TypeOK
  <2>4. ReadersSafe'
    BY <2>1 DEF ReadersSafe, TypeOK
  <2>5. WriterSafe'
    BY DEF WriterSafe, Enqueuing
  <2> QED
    BY <2>3, <2>4, <2>5
<1>11. ASSUME NEW r \in Reader, RecvPayload(r) PROVE IInv'
  <2> USE <1>11 DEF RecvPayload, Take, Goto, ring, writer, stop
  <2>1. TypeOK'
    BY DEF TypeOK
  <2>2. ReadersSafe' /\ WriterSafe'
    BY DEF ReadersSafe, WriterSafe, TypeOK, Enqueuing
  <2> QED
    BY <2>1, <2>2
<1>12. ASSUME NEW r \in Reader, Shutdown(r) \/ Cancel(r) PROVE IInv'
  <2> USE <1>12 DEF Shutdown, Cancel, ring, writer, reader
  <2>1. shuttingDown' \in [Reader -> BOOLEAN] /\ cancel' \in [Reader -> {"no", "due", "sent"}]
    BY DEF TypeOK
  <2>2. TypeOK'
    BY <2>1 DEF TypeOK
  <2>3. ReadersSafe' /\ WriterSafe'
    BY DEF ReadersSafe, WriterSafe, Enqueuing
  <2> QED
    BY <2>2, <2>3
<1>13. ASSUME NEW q \in Remote, RemoteDequeue(q) PROVE IInv'
  BY <1>13 DEF RemoteDequeue, Take, TypeOK, ReadersSafe, WriterSafe, Enqueuing,
     ring, writer, stop
<1>14. CASE UNCHANGED vars
  BY <1>14 DEF vars, ring, writer, reader, stop, TypeOK, ReadersSafe, WriterSafe, Enqueuing
<1> QED
  BY <1>1, <1>2, <1>3, <1>4, <1>5, <1>6, <1>7, <1>8, <1>9, <1>10, <1>11, <1>12,
     <1>13, <1>14 DEF Next, WriterStep, ReaderStep

\* Every reachable state has its type, in which the indices stay in the ring.
THEOREM TypeCorrect == Spec => []TypeOK
<1>1. Spec => []IInv
  BY InitIInv, NextIInv, PTL DEF Spec
<1>2. IInv => TypeOK
  BY DEF IInv
<1> QED
  BY <1>1, <1>2, PTL

\* The ring needs no lock, whatever the number of readers and chunks.
THEOREM NoReaderSeesTornData == Spec => []NoTornRead
<1>1. Spec => []IInv
  BY InitIInv, NextIInv, PTL DEF Spec
<1> QED
  BY <1>1, IInvNoTornRead, PTL

-----------------------------------------------------------------------------
(* The ring as a queue: message i lies in chunk Slot(i)                    *)

Slot(i) == (i - 1) % MaxChunks

\* Quotient and remainder by the length of the ring.
LEMMA Division ==
  ASSUME NEW i \in Int
  PROVE  /\ i \div MaxChunks \in Int /\ i % MaxChunks \in Chunk
         /\ i = MaxChunks * (i \div MaxChunks) + (i % MaxChunks)
  BY QueueAssumption, SMT DEF Chunk

\* There is one way to write a number as a multiple of the length and a chunk.
LEMMA DivisionUnique ==
  ASSUME NEW q1 \in Int, NEW q2 \in Int, NEW a \in Chunk, NEW b \in Chunk,
         MaxChunks * q1 + a = MaxChunks * q2 + b
  PROVE  a = b /\ q1 = q2
<1> USE QueueAssumption DEF Chunk
<1>1. MaxChunks * (q1 - q2) = b - a
  BY SMT
<1>2. ~(q1 - q2 >= 1)
  <2> SUFFICES ASSUME q1 - q2 >= 1 PROVE FALSE
    OBVIOUS
  <2>1. MaxChunks * (q1 - q2) >= MaxChunks
    BY SMT
  <2> QED
    BY <2>1, <1>1, SMT
<1>3. ~(q2 - q1 >= 1)
  <2> SUFFICES ASSUME q2 - q1 >= 1 PROVE FALSE
    OBVIOUS
  <2>1. MaxChunks * (q2 - q1) >= MaxChunks
    BY SMT
  <2>2. MaxChunks * (q2 - q1) = a - b
    BY <1>1, SMT
  <2> QED
    BY <2>1, <2>2, SMT
<1>4. q1 = q2
  BY <1>2, <1>3
<1> QED
  BY <1>4, SMT

\* The writer and the readers move from the chunk of a message to the chunk of
\* the next one.
LEMMA SlotAfter ==
  ASSUME NEW i \in Int
  PROVE  Slot(i) \in Chunk /\ After(Slot(i)) = Slot(i + 1)
<1> DEFINE q == (i - 1) \div MaxChunks
           a == (i - 1) % MaxChunks
           p == (a + 1) \div MaxChunks
           b == (a + 1) % MaxChunks
           s == i \div MaxChunks
           c == i % MaxChunks
<1>1. q \in Int /\ a \in Chunk /\ i - 1 = MaxChunks * q + a
  BY Division, i - 1 \in Int
<1>2. a \in Int
  BY <1>1, QueueAssumption DEF Chunk
<1>3. p \in Int /\ b \in Chunk /\ a + 1 = MaxChunks * p + b
  BY <1>2, Division, a + 1 \in Int
<1>4. s \in Int /\ c \in Chunk /\ i = MaxChunks * s + c
  BY Division
<1>5. b \in Int /\ c \in Int
  BY <1>3, <1>4, QueueAssumption DEF Chunk
<1> HIDE DEF q, a, p, b, s, c
<1>6. MaxChunks * (q + p) + b = MaxChunks * s + c
  BY <1>1, <1>2, <1>3, <1>4, <1>5, QueueAssumption, SMT
<1>7. b = c
  BY <1>1, <1>3, <1>4, <1>6, q + p \in Int, DivisionUnique
<1> QED
  BY <1>1, <1>7 DEF Slot, After, a, b, c

\* Two messages fewer than MaxChunks apart lie in different chunks.
LEMMA SlotDistinct ==
  ASSUME NEW i \in Int, NEW j \in Int, i < j, j - i < MaxChunks
  PROVE  Slot(i) # Slot(j)
<1> SUFFICES ASSUME Slot(i) = Slot(j) PROVE FALSE
  OBVIOUS
<1> DEFINE q == (i - 1) \div MaxChunks
           p == (j - 1) \div MaxChunks
           a == (i - 1) % MaxChunks
<1>1. q \in Int /\ a \in Chunk /\ i - 1 = MaxChunks * q + a
  BY Division, i - 1 \in Int
<1>2. p \in Int /\ j - 1 = MaxChunks * p + a
  BY Division, j - 1 \in Int DEF Slot
<1>3. a \in Int
  BY <1>1, QueueAssumption DEF Chunk
<1> HIDE DEF q, p, a
<1>4. MaxChunks * 0 + (j - i) = MaxChunks * (p - q) + 0
  BY <1>1, <1>2, <1>3, QueueAssumption, SMT
<1>5. j - i \in Chunk /\ 0 \in Chunk /\ p - q \in Int
  BY <1>1, <1>2, QueueAssumption DEF Chunk
<1>6. j - i = 0
  BY <1>4, <1>5, DivisionUnique
<1> QED
  BY <1>6

\* The chunk of a message is the one of the message a ring's length earlier.
LEMMA SlotWraps ==
  ASSUME NEW i \in Int
  PROVE  Slot(i - MaxChunks) = Slot(i)
<1> DEFINE q == (i - 1) \div MaxChunks
           a == (i - 1) % MaxChunks
           j == i - MaxChunks - 1
           p == j \div MaxChunks
           b == j % MaxChunks
<1>1. q \in Int /\ a \in Chunk /\ i - 1 = MaxChunks * q + a
  BY Division, i - 1 \in Int
<1>2. j \in Int
  BY QueueAssumption
<1>3. p \in Int /\ b \in Chunk /\ j = MaxChunks * p + b
  BY <1>2, Division
<1>4. a \in Int /\ b \in Int
  BY <1>1, <1>3, QueueAssumption DEF Chunk
<1> HIDE DEF q, a, p, b
<1>5. MaxChunks * (q - 1) + a = MaxChunks * p + b
  BY <1>1, <1>3, <1>4, QueueAssumption, SMT
<1>6. a = b
  BY <1>1, <1>3, <1>5, q - 1 \in Int, DivisionUnique
<1> QED
  BY <1>6 DEF Slot, a, b

-----------------------------------------------------------------------------
(* Order of delivery. What follows holds until a recv of a payload times   *)
(* out: from then on the payloads of that reader lag behind its chunks.    *)

\* What the writer puts into the chunk of message i.
Content(i) == IF i \in Large THEN Overflow ELSE i

\* The number of chunks reader r has marked as read.
Taken(r) == Len(got[r]) + (IF rpc[r] = "recv" THEN 1 ELSE 0)

\* The writer is at work in its chunk.
Writing == wpc \in {"fill", "reset"}

\* The messages the ring holds: the last MaxChunks ones, but not the oldest of
\* them while it is overwritten.
Live == {i \in 1 .. Len(log) : Len(log) - i < IF Writing THEN MaxChunks - 1 ELSE MaxChunks}

\* The messages sent to the sockets of the local and of the remote readers.
Sent == IF wpc = "send" THEN Len(log) - 1 ELSE Len(log)
SentRemote == IF wpc \in {"send", "notify", "remote"} THEN Len(log) - 1 ELSE Len(log)

\* The payloads sent to reader r that it has not received.
Unreceived(r) == {m \in Large : Len(got[r]) < m /\ m <= Sent}

\* The position of every process counts the messages it has passed, and no
\* reader is further behind than the ring is long.
Indices ==
  /\ \A i \in 1 .. Len(log) : log[i] = i
  /\ widx = Slot(Len(log) + 1)
  /\ wpc = "send" => Len(log) \in Large
  /\ \A r \in Reader :
       /\ ridx[r] = Slot(Taken(r) + 1)
       /\ Taken(r) <= Len(log) /\ Len(got[r]) <= Sent
       /\ Len(log) - Taken(r) <= IF Writing THEN MaxChunks - 1 ELSE MaxChunks
       /\ rpc[r] = "recv" => Taken(r) \in Large

\* The written chunks are those of the messages the ring holds; a read flag tells
\* whether its reader is past the message. The chunk in work is prepared.
RingHolds ==
  /\ \A i \in Live : /\ written[Slot(i)] /\ data[Slot(i)] = Content(i)
                     /\ \A r \in Reader : read[Slot(i)][r] <=> i <= Taken(r)
  /\ \A c \in Chunk : written[c] => \E i \in Live : c = Slot(i)
  /\ wpc = "reset" => /\ data[widx] = Content(Enqueuing)
                      /\ \A r \in 1 .. cleared : ~read[widx][r]

\* The socket of a local reader holds the payloads it has not received, in order.
LocalSockets ==
  \A r \in Reader :
    /\ \A k \in 1 .. Len(sock[r]) : sock[r][k] \in Unreceived(r)
    /\ \A k, l \in 1 .. Len(sock[r]) : k < l => sock[r][k] < sock[r][l]
    /\ \A m \in Unreceived(r) : \E k \in 1 .. Len(sock[r]) : sock[r][k] = m

\* The socket of a remote reader holds all messages sent after those it has.
RemoteSockets ==
  \A q \in Remote :
    /\ Len(got[q]) + Len(sock[q]) = SentRemote
    /\ \A k \in 1 .. Len(sock[q]) : sock[q][k] = Len(got[q]) + k

Ordered == Indices /\ RingHolds /\ LocalSockets /\ RemoteSockets

\* The inductive invariant of the order of delivery.
OInv == IInv /\ ((\A r \in Reader : ~late[r]) => Ordered)

\* Lengths and counts are numbers.
LEMMA CountTypes ==
  ASSUME TypeOK
  PROVE  /\ Len(log) \in Nat /\ Enqueuing \in Nat
         /\ \A p \in Reader \cup Remote : /\ Len(got[p]) \in Nat /\ got[p] \in Seq(Message)
                                          /\ Len(sock[p]) \in Nat /\ sock[p] \in Seq(Message)
         /\ \A r \in Reader : Taken(r) \in Nat
         /\ Live \subseteq 1 .. Len(log)
         /\ Large \subseteq Int /\ MaxChunks \in Nat \ {0}
  BY QueueAssumption DEF TypeOK, Taken, Live, Enqueuing

\* A step that moves no message and no position leaves the order alone.
LEMMA OrderUntouched ==
  ASSUME Ordered,
         UNCHANGED <<written, read, data, widx, cleared, ridx, log, got, sock>>,
         \A r \in Reader : (rpc'[r] = "recv") <=> (rpc[r] = "recv"),
         \/ wpc' = wpc
         \/ /\ wpc \notin {"fill", "reset", "send"} /\ wpc' \notin {"fill", "reset", "send"}
            /\ Remote = {} \/ (wpc \in {"notify", "remote"} <=> wpc' \in {"notify", "remote"})
  PROVE  Ordered'
<1>1. Writing' = Writing /\ Sent' = Sent /\ Live' = Live
  <2>1. Writing' = Writing /\ Sent' = Sent
    BY DEF Writing, Sent
  <2> QED
    BY <2>1 DEF Live
<1>6. Remote = {} \/ SentRemote' = SentRemote
  BY DEF SentRemote
<1>7. \A r \in Reader : Taken(r)' = Taken(r) /\ Unreceived(r)' = Unreceived(r)
  BY <1>1 DEF Taken, Unreceived
<1>2. Indices'
  BY <1>1, <1>7 DEF Ordered, Indices
<1>3. RingHolds'
  BY <1>1, <1>7 DEF Ordered, RingHolds, Enqueuing
<1>4. LocalSockets'
  BY <1>7 DEF Ordered, LocalSockets
<1>5. RemoteSockets'
  BY <1>6 DEF Ordered, RemoteSockets
<1> QED
  BY <1>2, <1>3, <1>4, <1>5 DEF Ordered

\* The empty queue is in order.
LEMMA InitOrdered == Init => Ordered
<1> SUFFICES ASSUME Init PROVE Ordered
  OBVIOUS
<1>1. IInv
  BY InitIInv
<1>2. TypeOK
  BY <1>1 DEF IInv
<1>3. Len(log) = 0 /\ \A p \in Reader \cup Remote : Len(got[p]) = 0 /\ Len(sock[p]) = 0
  BY DEF Init
<1>4. Slot(1) = 0
  <2>1. (1 - 1) % MaxChunks = 0
    BY QueueAssumption, SMT
  <2> QED
    BY <2>1 DEF Slot
<1>5. Live = {} /\ Sent = 0 /\ SentRemote = 0 /\ ~Writing /\ \A r \in Reader : Taken(r) = 0
  BY <1>3 DEF Live, Sent, SentRemote, Taken, Init, Writing
<1>6. Indices
  BY <1>3, <1>4, <1>5, QueueAssumption DEF Indices, Init
<1>7. RingHolds
  BY <1>5 DEF RingHolds, Init
<1>8. ASSUME NEW r \in Reader, NEW m \in Unreceived(r) PROVE FALSE
  <2>1. Len(got[r]) = 0 /\ m \in Int
    BY <1>3, <1>8, QueueAssumption DEF Unreceived
  <2> QED
    BY <2>1, <1>5, <1>8 DEF Unreceived
<1>9. LocalSockets
  BY <1>3, <1>8 DEF LocalSockets
<1>10. RemoteSockets
  <2> SUFFICES ASSUME NEW q \in Remote
               PROVE  /\ Len(got[q]) + Len(sock[q]) = SentRemote
                      /\ \A k \in 1 .. Len(sock[q]) : sock[q][k] = Len(got[q]) + k
    BY DEF RemoteSockets
  <2>1. Len(got[q]) = 0 /\ Len(sock[q]) = 0
    BY <1>3
  <2> QED
    BY <2>1, <1>5
<1> QED
  BY <1>6, <1>7, <1>9, <1>10 DEF Ordered

\* The messages the ring holds lie in chunks of their own, apart from the chunk
\* the writer is at work in.
LEMMA LiveSlots ==
  ASSUME TypeOK, Indices
  PROVE  /\ \A i, j \in Live : Slot(i) = Slot(j) => i = j
         /\ \A i \in Live : Slot(i) \in Chunk
         /\ Writing => \A i \in Live : Slot(i) # widx
<1>1. /\ Len(log) \in Nat /\ MaxChunks \in Nat \ {0} /\ Live \subseteq 1 .. Len(log)
      /\ \A i \in Live : i \in Int /\ Len(log) - i < MaxChunks
      /\ Writing => \A i \in Live : Len(log) - i < MaxChunks - 1
  BY CountTypes DEF Live
<1>2. ASSUME NEW i \in Live, NEW j \in Live, Slot(i) = Slot(j) PROVE i = j
  <2>1. ~(i < j)
    BY <1>1, <1>2, SlotDistinct, j - i < MaxChunks
  <2>2. ~(j < i)
    BY <1>1, <1>2, SlotDistinct, i - j < MaxChunks
  <2> QED
    BY <1>1, <2>1, <2>2
<1>3. \A i \in Live : Slot(i) \in Chunk
  BY <1>1, SlotAfter
<1>4. ASSUME Writing, NEW i \in Live PROVE Slot(i) # widx
  <2>1. i \in Int /\ i <= Len(log) /\ Len(log) + 1 - i < MaxChunks
    BY <1>1, <1>4
  <2>2. Slot(i) # Slot(Len(log) + 1)
    BY <1>1, <2>1, SlotDistinct
  <2> QED
    BY <2>2 DEF Indices
<1> QED
  BY <1>2, <1>3, <1>4

\* A reader copies the chunk of the message after those it has taken.
LEMMA CopiesNext ==
  ASSUME IInv, Ordered, NEW r \in Reader, rpc[r] = "copy"
  PROVE  /\ Taken(r) = Len(got[r]) /\ Taken(r) + 1 \in Live
         /\ ridx[r] = Slot(Taken(r) + 1) /\ data[ridx[r]] = Content(Taken(r) + 1)
<1>1. TypeOK /\ Indices /\ RingHolds
  BY DEF IInv, Ordered
<1>2. /\ Len(log) \in Nat /\ MaxChunks \in Nat \ {0} /\ Taken(r) \in Nat
      /\ Live \subseteq 1 .. Len(log) /\ Len(got[r]) \in Nat
  BY <1>1, CountTypes
<1>3. written[ridx[r]] /\ ~read[ridx[r]][r] /\ ridx[r] \in Chunk
  BY <1>1 DEF IInv, ReadersSafe, TypeOK
<1>4. PICK i \in Live : ridx[r] = Slot(i)
  BY <1>1, <1>3 DEF RingHolds
<1>5. i > Taken(r) /\ i \in Int /\ i <= Len(log)
  BY <1>1, <1>2, <1>3, <1>4 DEF RingHolds
<1>6. ridx[r] = Slot(Taken(r) + 1) /\ Len(log) - Taken(r) <= MaxChunks
  BY <1>1, <1>2 DEF Indices
<1>7. ~(Taken(r) + 1 < i)
  <2>1. Taken(r) + 1 \in Int /\ i - (Taken(r) + 1) < MaxChunks
    BY <1>2, <1>5, <1>6
  <2> QED
    BY <1>4, <1>5, <1>6, <2>1, SlotDistinct
<1>8. i = Taken(r) + 1
  BY <1>2, <1>5, <1>7
<1>9. Taken(r) = Len(got[r])
  BY <1>2 DEF Taken
<1> QED
  BY <1>1, <1>4, <1>6, <1>8, <1>9 DEF RingHolds

\* The writer takes a chunk only when every reader is past the message in it.
LEMMA AcquireWriteOrdered ==
  ASSUME IInv, Ordered, AcquireWrite
  PROVE  Ordered'
<1> USE DEF AcquireWrite, reader, stop
<1> DEFINE n == Len(log)
<1>1. TypeOK /\ Indices /\ RingHolds
  BY DEF IInv, Ordered
<1>2. /\ n \in Nat /\ MaxChunks \in Nat \ {0} /\ Live \subseteq 1 .. n /\ \A r \in Reader : Taken(r) \in Nat
      /\ \A i \in Live : i \in Int
  BY <1>1, CountTypes
<1>3. ~Writing /\ Writing' /\ wpc' # "reset" /\ wpc # "send"
  BY DEF Writing
<1>4. /\ Sent' = Sent /\ SentRemote' = SentRemote /\ Len(log)' = Len(log)
      /\ \A r \in Reader : Taken(r)' = Taken(r)
  BY DEF Sent, SentRemote, Taken
<1>5. Live' = {i \in Live : n - i < MaxChunks - 1}
  BY <1>2, <1>3 DEF Live
<1>6. widx = Slot(n + 1) /\ widx \in Chunk
  BY <1>1 DEF Indices, TypeOK
<1>7. ASSUME NEW i \in Live' PROVE i \in Live /\ Slot(i) # widx
  <2>1. i \in Live /\ n + 1 - i < MaxChunks /\ i < n + 1 /\ i \in Int
    BY <1>2, <1>5, <1>7
  <2> QED
    BY <1>2, <1>6, <2>1, SlotDistinct
<1>8. ASSUME NEW r \in Reader PROVE n - Taken(r) <= MaxChunks - 1
  <2> SUFFICES ASSUME n - Taken(r) > MaxChunks - 1 PROVE FALSE
    BY <1>2
  <2> DEFINE i == Taken(r) + 1
  <2>1. n - Taken(r) <= MaxChunks
    BY <1>1, <1>3 DEF Indices
  <2>2. i \in Live /\ i = n + 1 - MaxChunks
    BY <1>2, <1>3, <2>1 DEF Live
  <2>3. Slot(i) = widx
    BY <1>2, <1>6, <2>2, SlotWraps
  <2>4. written[widx] /\ ~read[widx][r]
    BY <1>1, <1>2, <2>2, <2>3 DEF RingHolds
  <2> QED
    BY <2>4 DEF CanWrite
<1>9. Indices'
  BY <1>1, <1>3, <1>4, <1>8 DEF Indices
<1>10. RingHolds'
  <2>1. ASSUME NEW i \in Live'
        PROVE  /\ written'[Slot(i)] /\ data'[Slot(i)] = Content(i)
               /\ \A r \in Reader : read'[Slot(i)][r] <=> i <= Taken(r)'
    <3>1. written[Slot(i)] /\ data[Slot(i)] = Content(i)
          /\ \A r \in Reader : read[Slot(i)][r] <=> i <= Taken(r)
      BY <1>1, <1>7, <2>1 DEF RingHolds
    <3>2. Slot(i) \in Chunk /\ Slot(i) # widx
      BY <1>1, <1>7, <2>1, LiveSlots
    <3> QED
      BY <1>1, <1>4, <3>1, <3>2 DEF TypeOK
  <2>2. ASSUME NEW c \in Chunk, written'[c] PROVE \E i \in Live' : c = Slot(i)
    <3>1. c # widx /\ written[c]
      BY <1>1, <1>6, <2>2 DEF TypeOK
    <3>2. PICK i \in Live : c = Slot(i)
      BY <1>1, <3>1 DEF RingHolds
    <3>3. n - i < MaxChunks - 1
      <4> SUFFICES ASSUME n - i >= MaxChunks - 1 PROVE FALSE
        BY <1>2
      <4>1. i = n + 1 - MaxChunks
        BY <1>2, <1>3 DEF Live
      <4> QED
        BY <1>2, <1>6, <3>1, <3>2, <4>1, SlotWraps
    <3> QED
      BY <1>5, <3>2, <3>3
  <2> QED
    BY <1>3, <2>1, <2>2 DEF RingHolds
<1>11. \A r \in Reader : Unreceived(r)' = Unreceived(r)
  BY <1>4 DEF Unreceived
<1>12. LocalSockets'
  BY <1>11 DEF Ordered, LocalSockets
<1>13. RemoteSockets'
  BY <1>4 DEF Ordered, RemoteSockets
<1> QED
  BY <1>9, <1>10, <1>12, <1>13 DEF Ordered

\* The chunk in work is filled and its read flags are cleared.
LEMMA PrepareOrdered ==
  ASSUME IInv, Ordered, FillChunk \/ ResetReadFlag
  PROVE  Ordered'
<1> USE DEF FillChunk, ResetReadFlag, reader, stop
<1>1. TypeOK /\ Indices /\ RingHolds
  BY DEF IInv, Ordered
<1>2. Writing /\ Writing' /\ wpc # "send" /\ wpc' # "send" /\ wpc' = "reset"
  BY DEF Writing
<1>3. UNCHANGED <<written, widx, ridx, rpc, log, got, sock>>
  OBVIOUS
<1>4. Live' = Live /\ Sent' = Sent /\ SentRemote' = SentRemote /\ \A r \in Reader : Taken(r)' = Taken(r)
  <2>1. Live' = Live
    BY <1>2, <1>3 DEF Live
  <2>2. Sent' = Sent /\ SentRemote' = SentRemote
    BY <1>2, <1>3 DEF Sent, SentRemote
  <2>3. \A r \in Reader : Taken(r)' = Taken(r)
    BY <1>3 DEF Taken
  <2> QED
    BY <2>1, <2>2, <2>3
<1>5. Indices'
  BY <1>1, <1>2, <1>3, <1>4 DEF Indices
<1>6. widx \in Chunk /\ cleared \in 0 .. NumReaders /\ NumReaders \in Nat
  BY <1>1, QueueAssumption DEF TypeOK
<1>7. RingHolds'
  <2>1. ASSUME NEW i \in Live'
        PROVE  /\ written'[Slot(i)] /\ data'[Slot(i)] = Content(i)
               /\ \A r \in Reader : read'[Slot(i)][r] <=> i <= Taken(r)'
    <3>1. Slot(i) \in Chunk /\ Slot(i) # widx
      BY <1>1, <1>2, <1>4, <2>1, LiveSlots
    <3>2. written[Slot(i)] /\ data[Slot(i)] = Content(i)
          /\ \A r \in Reader : read[Slot(i)][r] <=> i <= Taken(r)
      BY <1>1, <1>4, <2>1 DEF RingHolds
    <3>3. data'[Slot(i)] = data[Slot(i)] /\ read'[Slot(i)] = read[Slot(i)]
      BY <1>1, <3>1 DEF TypeOK
    <3> QED
      BY <1>3, <1>4, <3>2, <3>3
  <2>2. \A c \in Chunk : written'[c] => \E i \in Live' : c = Slot(i)
    BY <1>1, <1>3, <1>4 DEF RingHolds
  <2>3. data'[widx] = Content(Enqueuing)
    BY <1>1, <1>6 DEF RingHolds, Content, TypeOK
  <2>4. \A r \in 1 .. cleared' : ~read'[widx][r]
    <3>1. CASE FillChunk
      BY <3>1
    <3>2. CASE ResetReadFlag
      <4>1. cleared' = cleared + 1 /\ cleared' \in Reader
        BY <3>2, <1>6 DEF Reader
      <4>2. \A r \in 1 .. cleared : ~read[widx][r] /\ r \in Reader
        BY <1>1, <1>6, <3>2 DEF RingHolds, Reader
      <4>3. read'[widx] = [read[widx] EXCEPT ![cleared'] = FALSE] /\ read[widx] \in [Reader -> BOOLEAN]
        BY <1>1, <1>6, <3>2 DEF TypeOK
      <4>4. ASSUME NEW r \in 1 .. cleared' PROVE ~read'[widx][r]
        <5>1. r = cleared' \/ r \in 1 .. cleared
          BY <1>6, <4>1
        <5> QED
          BY <4>1, <4>2, <4>3, <5>1
      <4> QED
        BY <4>4
    <3> QED
      BY <3>1, <3>2
  <2>5. Enqueuing' = Enqueuing
    BY <1>3 DEF Enqueuing
  <2> QED
    BY <1>3, <2>1, <2>2, <2>3, <2>4, <2>5 DEF RingHolds
<1>8. \A r \in Reader : Unreceived(r)' = Unreceived(r)
  BY <1>3, <1>4 DEF Unreceived
<1>9. LocalSockets'
  BY <1>3, <1>8 DEF Ordered, LocalSockets
<1>10. RemoteSockets'
  BY <1>3, <1>4 DEF Ordered, RemoteSockets
<1> QED
  BY <1>5, <1>7, <1>9, <1>10 DEF Ordered

\* The new message is the last one, and no reader has seen it.
LEMMA MarkWrittenOrdered ==
  ASSUME IInv, Ordered, MarkWritten
  PROVE  Ordered' /\ Queue!BQNext
<1> USE DEF MarkWritten, reader, stop
<1> DEFINE n == Len(log)
<1>1. TypeOK /\ Indices /\ RingHolds /\ WriterSafe
  BY DEF IInv, Ordered
<1>2. /\ n \in Nat /\ MaxChunks \in Nat \ {0} /\ Live \subseteq 1 .. n
      /\ \A r \in Reader : Taken(r) \in Nat /\ Len(got[r]) \in Nat
      /\ \A i \in Live : i \in Int
  BY <1>1, CountTypes
<1>3. Writing /\ ~Writing' /\ wpc = "reset" /\ cleared = NumReaders
  BY DEF Writing
<1>4. Enqueuing = n + 1 /\ Enqueuing \in Message /\ log \in Seq(Message)
  BY <1>1 DEF Enqueuing, WriterSafe, TypeOK
<1>5. /\ Len(log') = n + 1 /\ log'[n + 1] = n + 1 /\ \A i \in 1 .. n : log'[i] = log[i]
  BY <1>2, <1>4
<1>6. UNCHANGED <<read, data, rpc, ridx, got, sock>> /\ \A r \in Reader : Taken(r)' = Taken(r)
  BY DEF Taken
<1>7. Live' = Live \cup {n + 1}
  <2>1. Live' = {i \in 1 .. n + 1 : n + 1 - i < MaxChunks}
    BY <1>3, <1>5 DEF Live
  <2>2. Live = {i \in 1 .. n : n - i < MaxChunks - 1}
    BY <1>3 DEF Live
  <2> QED
    BY <1>2, <2>1, <2>2
<1>8. Sent' \in {n, n + 1} /\ (n + 1 \in Large => Sent' = n) /\ (n + 1 \notin Large => Sent' = n + 1)
      /\ Sent = n /\ SentRemote' = n /\ SentRemote = n
  BY <1>2, <1>3, <1>4, <1>5 DEF Sent, SentRemote
<1>9. widx = Slot(n + 1) /\ widx \in Chunk /\ widx' = Slot(n + 2)
  <2>1. widx = Slot(n + 1) /\ widx \in Chunk
    BY <1>1 DEF Indices, TypeOK
  <2>2. After(Slot(n + 1)) = Slot(n + 1 + 1)
    BY <1>2, SlotAfter
  <2> QED
    BY <1>2, <2>1, <2>2, n + 1 + 1 = n + 2
<1>10. ASSUME NEW r \in Reader
       PROVE  /\ ridx[r] = Slot(Taken(r) + 1) /\ Taken(r) <= n /\ Len(got[r]) <= n
              /\ n - Taken(r) <= MaxChunks - 1
              /\ rpc[r] = "recv" => Taken(r) \in Large
  BY <1>1, <1>3, <1>8 DEF Indices
<1>11. Indices'
  <2>1. \A i \in 1 .. Len(log') : log'[i] = i
    <3>1. \A i \in 1 .. n : log[i] = i
      BY <1>1 DEF Indices
    <3> QED
      BY <1>2, <1>5, <3>1
  <2>2. widx' = Slot(Len(log') + 1)
    BY <1>2, <1>5, <1>9, n + 1 + 1 = n + 2
  <2>3. wpc' = "send" => Len(log') \in Large
    BY <1>4, <1>5
  <2>4. ASSUME NEW r \in Reader
        PROVE  /\ ridx'[r] = Slot(Taken(r)' + 1)
               /\ Taken(r)' <= Len(log') /\ Len(got'[r]) <= Sent'
               /\ Len(log') - Taken(r)' <= MaxChunks
               /\ rpc'[r] = "recv" => Taken(r)' \in Large
    BY <1>2, <1>5, <1>6, <1>8, <1>10
  <2> QED
    BY <1>3, <2>1, <2>2, <2>3, <2>4 DEF Indices
<1>12. RingHolds'
  <2>1. ASSUME NEW i \in Live
        PROVE  /\ written'[Slot(i)] /\ data'[Slot(i)] = Content(i)
               /\ \A r \in Reader : read'[Slot(i)][r] <=> i <= Taken(r)'
    <3>1. Slot(i) \in Chunk /\ Slot(i) # widx
      BY <1>1, <1>3, LiveSlots
    <3>2. written[Slot(i)] /\ data[Slot(i)] = Content(i)
          /\ \A r \in Reader : read[Slot(i)][r] <=> i <= Taken(r)
      BY <1>1 DEF RingHolds
    <3> QED
      BY <1>1, <1>6, <3>1, <3>2 DEF TypeOK
  <2>2. /\ written'[widx] /\ data'[widx] = Content(n + 1)
        /\ \A r \in Reader : read'[widx][r] <=> n + 1 <= Taken(r)'
    <3>1. data[widx] = Content(n + 1) /\ \A r \in Reader : ~read[widx][r]
      BY <1>1, <1>3, <1>4 DEF RingHolds, Reader
    <3>2. \A r \in Reader : ~(n + 1 <= Taken(r))
      BY <1>2, <1>10
    <3> QED
      BY <1>1, <1>6, <1>9, <3>1, <3>2 DEF TypeOK
  <2>3. ASSUME NEW c \in Chunk, written'[c] PROVE \E i \in Live' : c = Slot(i)
    <3>1. CASE c = widx
      BY <1>7, <1>9, <3>1
    <3>2. CASE c # widx
      BY <1>1, <1>7, <2>3, <3>2 DEF TypeOK, RingHolds
    <3> QED
      BY <3>1, <3>2
  <2>4. wpc' # "reset"
    OBVIOUS
  <2>5. \A i \in Live' : /\ written'[Slot(i)] /\ data'[Slot(i)] = Content(i)
                         /\ \A r \in Reader : read'[Slot(i)][r] <=> i <= Taken(r)'
    BY <1>7, <1>9, <2>1, <2>2
  <2> QED
    BY <2>3, <2>4, <2>5 DEF RingHolds
<1>13. LocalSockets'
  <2>1. ASSUME NEW r \in Reader PROVE Unreceived(r)' = Unreceived(r)
    <3>1. Large \subseteq Int
      BY <1>1, CountTypes
    <3>2. \A m \in Large : m <= Sent' <=> m <= n
      BY <1>2, <1>8, <3>1
    <3>3. Unreceived(r)' = {m \in Large : Len(got[r]) < m /\ m <= Sent'}
      BY <1>6 DEF Unreceived
    <3> QED
      BY <1>8, <3>2, <3>3 DEF Unreceived
  <2> QED
    BY <1>6, <2>1 DEF Ordered, LocalSockets
<1>14. RemoteSockets'
  BY <1>6, <1>8 DEF Ordered, RemoteSockets
<1>15. Queue!BQNext
  <2>1. \A p \in Reader : Len(log) - Len(got[p]) < MaxChunks + 1
    <3> SUFFICES ASSUME NEW p \in Reader PROVE n - Len(got[p]) < MaxChunks + 1
      OBVIOUS
    <3>1. Taken(p) <= Len(got[p]) + 1
      BY <1>2 DEF Taken
    <3> QED
      BY <1>2, <1>10, <3>1
  <2>2. Queue!Enqueue(Enqueuing)
    BY <1>6, <2>1 DEF Queue!Enqueue
  <2> QED
    BY <1>4, <2>2 DEF Queue!BQNext
<1> QED
  BY <1>11, <1>12, <1>13, <1>14, <1>15 DEF Ordered

\* A payload joins the end of every local socket.
LEMMA SendPayloadOrdered ==
  ASSUME IInv, Ordered, SendPayload
  PROVE  Ordered'
<1> USE DEF SendPayload, ring, reader, stop
<1> DEFINE n == Len(log)
<1>1. TypeOK /\ Indices /\ RingHolds
  BY DEF IInv, Ordered
<1>2. /\ n \in Nat /\ Large \subseteq Int
      /\ \A p \in Reader \cup Remote : Len(got[p]) \in Nat /\ Len(sock[p]) \in Nat /\ sock[p] \in Seq(Message)
  BY <1>1, CountTypes
<1>3. Sent = n - 1 /\ Sent' = n /\ SentRemote' = SentRemote /\ n \in Large
  BY <1>1 DEF Sent, SentRemote, Indices
<1>4. UNCHANGED <<written, read, data, widx, rpc, ridx, log, got>> /\ wpc' \notin {"send", "reset"}
      /\ Live' = Live /\ Writing' = Writing /\ \A r \in Reader : Taken(r)' = Taken(r)
  <2>1. UNCHANGED <<written, read, data, widx, rpc, ridx, log, got>> /\ wpc' \notin {"send", "reset"}
        /\ Writing' = Writing
    BY DEF Writing
  <2> QED
    BY <2>1 DEF Live, Taken
<1>5. Indices'
  <2>1. \A r \in Reader : Len(got[r]) <= n
    BY <1>1, <1>2, <1>3 DEF Indices
  <2> QED
    BY <1>1, <1>3, <1>4, <2>1 DEF Indices
<1>6. RingHolds'
  BY <1>1, <1>4 DEF RingHolds
<1>7. LocalSockets'
  <2> SUFFICES ASSUME NEW r \in Reader
      PROVE  /\ \A k \in 1 .. Len(sock'[r]) : sock'[r][k] \in Unreceived(r)'
             /\ \A k, l \in 1 .. Len(sock'[r]) : k < l => sock'[r][k] < sock'[r][l]
             /\ \A m \in Unreceived(r)' : \E k \in 1 .. Len(sock'[r]) : sock'[r][k] = m
    BY DEF LocalSockets
  <2>1. sock'[r] = Append(sock[r], n) /\ sock[r] \in Seq(Message) /\ Len(sock[r]) \in Nat
    BY <1>1, <1>2 DEF SendTo, TypeOK
  <2> DEFINE L == Len(sock[r])
  <2>2. Len(sock'[r]) = L + 1 /\ sock'[r][L + 1] = n /\ \A k \in 1 .. L : sock'[r][k] = sock[r][k]
    BY <2>1
  <2>3. Unreceived(r)' = Unreceived(r) \cup {n}
    <3>1. Len(got[r]) <= n - 1 /\ Len(got[r]) \in Nat
      BY <1>1, <1>2, <1>3 DEF Indices
    <3>2. \A m \in Large : m <= n <=> (m <= n - 1 \/ m = n)
      BY <1>2
    <3>3. Unreceived(r)' = {m \in Large : Len(got[r]) < m /\ m <= n}
      BY <1>3, <1>4 DEF Unreceived
    <3>4. Unreceived(r) = {m \in Large : Len(got[r]) < m /\ m <= n - 1}
      BY <1>3 DEF Unreceived
    <3>5. Len(got[r]) < n
      BY <1>2, <3>1
    <3> QED
      BY <1>3, <3>2, <3>3, <3>4, <3>5
  <2>4. /\ \A k \in 1 .. L : sock[r][k] \in Unreceived(r)
        /\ \A k, l \in 1 .. L : k < l => sock[r][k] < sock[r][l]
        /\ \A m \in Unreceived(r) : \E k \in 1 .. L : sock[r][k] = m
    BY DEF Ordered, LocalSockets
  <2>5. \A m \in Unreceived(r) : m \in Int /\ m < n
    BY <1>2, <1>3 DEF Unreceived
  <2>6. \A k \in 1 .. L + 1 : k \in 1 .. L \/ k = L + 1
    BY <2>1
  <2> HIDE DEF L
  <2>7. \A k \in 1 .. L + 1 : sock'[r][k] \in Unreceived(r) \cup {n}
    BY <2>2, <2>4, <2>6
  <2>8. ASSUME NEW k \in 1 .. L + 1, NEW l \in 1 .. L + 1, k < l PROVE sock'[r][k] < sock'[r][l]
    <3>1. k \in 1 .. L
      BY <2>1, <2>8 DEF L
    <3> QED
      BY <2>2, <2>4, <2>5, <2>6, <2>8, <3>1
  <2>9. \A m \in Unreceived(r) \cup {n} : \E k \in 1 .. L + 1 : sock'[r][k] = m
    <3>1. L + 1 \in 1 .. L + 1 /\ 1 .. L \subseteq 1 .. L + 1
      BY <2>1 DEF L
    <3> QED
      BY <2>2, <2>4, <3>1
  <2> QED
    BY <2>2, <2>3, <2>7, <2>8, <2>9 DEF L
<1>8. RemoteSockets'
  <2>1. \A q \in Remote : sock'[q] = sock[q]
    BY <1>1, QueueAssumption DEF SendTo, TypeOK, Reader
  <2> QED
    BY <1>3, <1>4, <2>1 DEF Ordered, RemoteSockets
<1> QED
  BY <1>5, <1>6, <1>7, <1>8 DEF Ordered

\* A message joins the end of every remote socket.
LEMMA SendRemoteOrdered ==
  ASSUME IInv, Ordered, SendRemote
  PROVE  Ordered'
<1> USE DEF SendRemote, ring, reader, stop
<1> DEFINE n == Len(log)
<1>1. TypeOK /\ Indices /\ RingHolds
  BY DEF IInv, Ordered
<1>2. /\ n \in Nat
      /\ \A p \in Reader \cup Remote : Len(got[p]) \in Nat /\ Len(sock[p]) \in Nat /\ sock[p] \in Seq(Message)
  BY <1>1, CountTypes
<1>3. Sent' = Sent /\ SentRemote = n - 1 /\ SentRemote' = n
  BY DEF Sent, SentRemote
<1>4. UNCHANGED <<written, read, data, widx, rpc, ridx, log, got>> /\ wpc' \notin {"send", "reset"}
      /\ Live' = Live /\ Writing' = Writing
      /\ \A r \in Reader : Taken(r)' = Taken(r) /\ Unreceived(r)' = Unreceived(r)
  <2>1. UNCHANGED <<written, read, data, widx, rpc, ridx, log, got>> /\ wpc' \notin {"send", "reset"}
        /\ Writing' = Writing
    BY DEF Writing
  <2> QED
    BY <1>3, <2>1 DEF Live, Taken, Unreceived
<1>5. Indices'
  BY <1>1, <1>3, <1>4 DEF Indices
<1>6. RingHolds'
  BY <1>1, <1>4 DEF RingHolds
<1>7. LocalSockets'
  <2>1. \A r \in Reader : sock'[r] = sock[r]
    BY <1>1, QueueAssumption DEF SendTo, TypeOK, Reader
  <2> QED
    BY <1>4, <2>1 DEF Ordered, LocalSockets
<1>8. RemoteSockets'
  <2> SUFFICES ASSUME NEW q \in Remote
               PROVE  /\ Len(got[q]) + Len(sock'[q]) = n
                      /\ \A k \in 1 .. Len(sock'[q]) : sock'[q][k] = Len(got[q]) + k
    BY <1>3, <1>4 DEF RemoteSockets
  <2>1. sock'[q] = Append(sock[q], n) /\ sock[q] \in Seq(Message) /\ Len(got[q]) \in Nat /\ Len(sock[q]) \in Nat
    BY <1>1, <1>2 DEF SendTo, TypeOK
  <2>2. /\ Len(got[q]) + Len(sock[q]) = n - 1
        /\ \A k \in 1 .. Len(sock[q]) : sock[q][k] = Len(got[q]) + k
    BY <1>3 DEF Ordered, RemoteSockets
  <2> DEFINE L == Len(sock[q])
  <2>3. Len(sock'[q]) = L + 1 /\ sock'[q][L + 1] = n /\ \A k \in 1 .. L : sock'[q][k] = sock[q][k]
    BY <2>1
  <2>4. Len(got[q]) + (L + 1) = n
    <3> DEFINE g == Len(got[q])
    <3>1. n \in Nat /\ L \in Nat /\ g \in Nat /\ g + L = n - 1
      BY <1>2, <2>2
    <3> HIDE DEF n, L, g
    <3>2. g + (L + 1) = n
      BY <3>1
    <3> QED
      BY <3>2 DEF g
  <2>5. \A k \in 1 .. L + 1 : k \in 1 .. L \/ k = L + 1
    BY <2>1
  <2> HIDE DEF L
  <2> QED
    BY <2>2, <2>3, <2>4, <2>5 DEF L
<1> QED
  BY <1>5, <1>6, <1>7, <1>8 DEF Ordered

\* A reader marks the next chunk as read and returns its message, unless it is
\* only the mark of a payload.
LEMMA FinishReadOrdered ==
  ASSUME IInv, Ordered, NEW r \in Reader, FinishRead(r)
  PROVE  Ordered' /\ [Queue!BQNext]_<<log, got>>
<1> USE DEF FinishRead, Goto, writer, stop
<1> DEFINE n == Len(log)
           t == Taken(r)
           c == ridx[r]
<1>1. TypeOK /\ Indices /\ RingHolds
  BY DEF IInv, Ordered
<1>2. /\ n \in Nat /\ t \in Nat /\ Large \subseteq Int /\ Live \subseteq 1 .. n
      /\ \A p \in Reader \cup Remote : Len(got[p]) \in Nat /\ got[p] \in Seq(Message)
      /\ \A s \in Reader : Taken(s) \in Nat
  BY <1>1, CountTypes
<1>3. t = Len(got[r]) /\ t + 1 \in Live /\ c = Slot(t + 1) /\ data[c] = Content(t + 1) /\ c \in Chunk
  BY <1>1, CopiesNext DEF TypeOK
<1>4. t + 1 \in 1 .. n
  BY <1>2, <1>3
<1>5. (data[c] = Overflow) <=> (t + 1 \in Large)
  BY <1>3, <1>4 DEF Content, Overflow
<1>6. UNCHANGED <<written, data, wpc, widx, cleared, log, sock>> /\ Live' = Live
      /\ Writing' = Writing /\ Sent' = Sent /\ SentRemote' = SentRemote
  BY DEF Live, Writing, Sent, SentRemote
<1>7. \A p \in Reader \cup Remote : p # r => got'[p] = got[p]
  BY <1>1 DEF TypeOK
<1>8. /\ t + 1 \in Large => got' = got /\ rpc'[r] = "recv"
      /\ t + 1 \notin Large => /\ got' = [got EXCEPT ![r] = Append(@, t + 1)]
                               /\ Len(got'[r]) = t + 1 /\ rpc'[r] = "flag"
  <2>1. rpc'[r] = IF data[c] = Overflow THEN "recv" ELSE "flag"
    BY <1>1 DEF TypeOK
  <2>2. t + 1 \notin Large => data[c] = t + 1
    BY <1>3 DEF Content
  <2>3. got \in [Reader \cup Remote -> Seq(Message)] /\ got[r] \in Seq(Message)
    BY <1>1 DEF TypeOK
  <2>4. ASSUME t + 1 \notin Large
        PROVE  got' = [got EXCEPT ![r] = Append(@, t + 1)] /\ Len(got'[r]) = t + 1
    <3>1. got' = [got EXCEPT ![r] = Append(@, t + 1)]
      BY <1>5, <2>2, <2>4
    <3>2. got'[r] = Append(got[r], t + 1)
      BY <2>3, <3>1
    <3>3. Len(got'[r]) = Len(got[r]) + 1
      BY <2>3, <3>2
    <3> QED
      BY <1>3, <3>1, <3>3
  <2> QED
    BY <1>5, <2>1, <2>4
<1>9. Taken(r)' = t + 1 /\ \A s \in Reader : s # r => Taken(s)' = Taken(s) /\ rpc'[s] = rpc[s]
  <2>1. Taken(r)' = t + 1
    <3>1. CASE t + 1 \in Large
      <4>1. Taken(r)' = Len(got[r]) + 1
        BY <1>8, <3>1 DEF Taken
      <4> QED
        BY <1>3, <4>1
    <3>2. CASE t + 1 \notin Large
      <4>1. Len(got'[r]) = t + 1 /\ rpc'[r] # "recv"
        BY <1>8, <3>2
      <4>2. Taken(r)' = Len(got'[r]) + 0
        BY <4>1 DEF Taken
      <4>3. t + 1 + 0 = t + 1
        BY <1>2
      <4> QED
        BY <4>1, <4>2, <4>3
    <3> QED
      BY <3>1, <3>2
  <2>2. \A s \in Reader : s # r => rpc'[s] = rpc[s]
    BY <1>1 DEF TypeOK
  <2> QED
    BY <1>7, <2>1, <2>2 DEF Taken
<1>10. Indices'
  <2>1. ASSUME NEW s \in Reader
        PROVE  /\ ridx'[s] = Slot(Taken(s)' + 1)
               /\ Taken(s)' <= n /\ Len(got'[s]) <= Sent
               /\ n - Taken(s)' <= IF Writing THEN MaxChunks - 1 ELSE MaxChunks
               /\ rpc'[s] = "recv" => Taken(s)' \in Large
    <3>1. CASE s # r
      BY <1>1, <1>7, <1>9, <3>1 DEF Indices, TypeOK
    <3>2. CASE s = r
      <4>1. ridx'[r] = After(Slot(t + 1)) /\ After(Slot(t + 1)) = Slot(t + 1 + 1)
        BY <1>1, <1>2, <1>3, SlotAfter DEF TypeOK
      <4>2. Len(got'[r]) <= Sent
        <5>1. CASE t + 1 \in Large
          BY <1>1, <1>8, <5>1 DEF Indices
        <5>2. CASE t + 1 \notin Large
          BY <1>1, <1>2, <1>4, <1>8, <5>2 DEF Indices, Sent
        <5> QED
          BY <5>1, <5>2
      <4>3. n - t <= IF Writing THEN MaxChunks - 1 ELSE MaxChunks
        BY <1>1 DEF Indices
      <4>4. n - (t + 1) <= IF Writing THEN MaxChunks - 1 ELSE MaxChunks
        BY <1>2, <4>3, QueueAssumption
      <4> QED
        BY <1>4, <1>8, <1>9, <3>2, <4>1, <4>2, <4>4
    <3> QED
      BY <3>1, <3>2
  <2> QED
    BY <1>1, <1>6, <2>1 DEF Indices
<1>11. RingHolds'
  <2>1. ASSUME NEW i \in Live, NEW s \in Reader
        PROVE  read'[Slot(i)][s] <=> i <= Taken(s)'
    <3>1. read[Slot(i)][s] <=> i <= Taken(s)
      BY <1>1 DEF RingHolds
    <3>2. Slot(i) \in Chunk /\ (Slot(i) = c => i = t + 1) /\ i \in Int
      BY <1>1, <1>2, <1>3, LiveSlots
    <3>3. CASE s = r /\ i = t + 1
      BY <1>1, <1>2, <1>3, <1>9, <3>3 DEF TypeOK
    <3>4. CASE ~(s = r /\ i = t + 1)
      <4>1. read'[Slot(i)][s] = read[Slot(i)][s]
        BY <1>1, <1>3, <3>2, <3>4 DEF TypeOK
      <4>2. i <= Taken(s) <=> i <= Taken(s)'
        BY <1>2, <1>9, <3>2, <3>4
      <4> QED
        BY <3>1, <4>1, <4>2
    <3> QED
      BY <3>3, <3>4
  <2>2. ASSUME wpc = "reset", NEW s \in 1 .. cleared PROVE ~read'[widx][s]
    <3>1. widx # c /\ widx \in Chunk
      BY <1>1, <2>2 DEF IInv, WriterSafe, ReadersSafe, TypeOK
    <3> QED
      BY <1>1, <1>3, <2>2, <3>1 DEF RingHolds, TypeOK
  <2>3. Enqueuing' = Enqueuing
    BY <1>6 DEF Enqueuing
  <2> QED
    BY <1>1, <1>6, <2>1, <2>2, <2>3 DEF RingHolds
<1>12. LocalSockets'
  <2>1. ASSUME NEW s \in Reader PROVE Unreceived(s)' = Unreceived(s)
    <3>1. Unreceived(s)' = {m \in Large : Len(got'[s]) < m /\ m <= Sent}
      BY <1>6 DEF Unreceived
    <3>2. \A m \in Large : Len(got'[s]) < m <=> Len(got[s]) < m
      BY <1>2, <1>3, <1>7, <1>8
    <3> QED
      BY <3>1, <3>2 DEF Unreceived
  <2> QED
    BY <1>6, <2>1 DEF Ordered, LocalSockets
<1>13. RemoteSockets'
  <2>1. \A q \in Remote : got'[q] = got[q]
    BY <1>7, QueueAssumption DEF Reader
  <2> QED
    BY <1>6, <2>1, ZenonT(30) DEF Ordered, RemoteSockets
<1>14. [Queue!BQNext]_<<log, got>>
  <2>1. CASE t + 1 \in Large
    BY <1>6, <1>8, <2>1
  <2>2. CASE t + 1 \notin Large
    <3>1. log[t + 1] = t + 1 /\ Len(got[r]) < Len(log)
      BY <1>1, <1>2, <1>3, <1>4 DEF Indices
    <3>2. Queue!Dequeue(r)
      BY <1>3, <1>6, <1>8, <2>2, <3>1 DEF Queue!Dequeue
    <3> QED
      BY <3>2 DEF Queue!BQNext
  <2> QED
    BY <2>1, <2>2
<1> QED
  BY <1>10, <1>11, <1>12, <1>13, <1>14 DEF Ordered

\* The payload at the head of the socket is the one whose mark was read.
LEMMA RecvPayloadOrdered ==
  ASSUME IInv, Ordered, NEW r \in Reader, RecvPayload(r)
  PROVE  Ordered' /\ Queue!BQNext
<1> USE DEF RecvPayload, Goto, ring, writer, stop
<1> DEFINE g == Len(got[r])
           S == sock[r]
<1>1. TypeOK /\ Indices /\ RingHolds
  BY DEF IInv, Ordered
<1>2. /\ Len(log) \in Nat /\ g \in Nat /\ Large \subseteq Int /\ Taken(r) = g + 1
      /\ S \in Seq(Message) /\ Len(S) \in Nat /\ S # <<>> /\ Len(S) >= 1 /\ got[r] \in Seq(Message)
  <2>1. /\ Len(log) \in Nat /\ g \in Nat /\ Large \subseteq Int
        /\ S \in Seq(Message) /\ Len(S) \in Nat /\ got[r] \in Seq(Message)
    BY <1>1, CountTypes
  <2> QED
    BY <2>1 DEF Taken, Take
<1>3. /\ \A k \in 1 .. Len(S) : S[k] \in Unreceived(r)
      /\ \A k, l \in 1 .. Len(S) : k < l => S[k] < S[l]
      /\ \A m \in Unreceived(r) : \E k \in 1 .. Len(S) : S[k] = m
  BY DEF Ordered, LocalSockets
<1>4. \A m \in Unreceived(r) : m \in Int /\ g < m /\ m <= Sent /\ m \in Large
  BY <1>2 DEF Unreceived
<1>5. Head(S) = S[1] /\ Head(S) = g + 1
  <2>1. Head(S) = S[1]
    BY <1>2
  <2>2. S[1] \in Unreceived(r) /\ Sent \in Int
    BY <1>2, <1>3 DEF Sent
  <2>3. g + 1 \in Unreceived(r)
    <3>1. g + 1 \in Large
      BY <1>1, <1>2 DEF Indices
    <3>2. g + 1 <= S[1] /\ S[1] <= Sent /\ S[1] \in Int
      BY <1>2, <1>4, <2>2
    <3> QED
      BY <1>2, <2>2, <3>1, <3>2 DEF Unreceived
  <2>4. PICK k \in 1 .. Len(S) : S[k] = g + 1
    BY <1>3, <2>3
  <2>5. k = 1
    <3> SUFFICES ASSUME 1 < k PROVE FALSE
      BY <1>2
    <3>1. S[1] < g + 1 /\ g < S[1] /\ S[1] \in Int
      BY <1>2, <1>3, <1>4, <2>2, <2>4
    <3> QED
      BY <1>2, <3>1
  <2> QED
    BY <2>1, <2>4, <2>5
<1>6. UNCHANGED <<written, read, data, wpc, widx, cleared, ridx, log>> /\ Live' = Live
      /\ Writing' = Writing /\ Sent' = Sent /\ SentRemote' = SentRemote
  BY DEF Live, Writing, Sent, SentRemote
<1>7. \A p \in Reader \cup Remote : p # r => got'[p] = got[p] /\ sock'[p] = sock[p]
  BY <1>1 DEF TypeOK, Take
<1>8. got'[r] = Append(got[r], g + 1) /\ Len(got'[r]) = g + 1 /\ rpc'[r] = "flag" /\ sock'[r] = Tail(S)
  <2>1. got'[r] = Append(got[r], g + 1) /\ rpc'[r] = "flag" /\ sock'[r] = Tail(S)
    BY <1>1, <1>5 DEF TypeOK, Take
  <2> QED
    BY <1>2, <2>1
<1>9. \A s \in Reader : Taken(s)' = Taken(s) /\ (s # r => rpc'[s] = rpc[s])
  <2>1. \A s \in Reader : s # r => rpc'[s] = rpc[s]
    BY <1>1 DEF TypeOK
  <2>2. Taken(r)' = Taken(r)
    <3>1. Taken(r)' = Len(got'[r]) + 0
      BY <1>8 DEF Taken
    <3>2. g + 1 + 0 = g + 1
      BY <1>2
    <3> QED
      BY <1>2, <1>8, <3>1, <3>2
  <2> QED
    BY <1>7, <2>1, <2>2 DEF Taken
<1>10. Indices'
  <2>1. g + 1 <= Sent
    BY <1>2, <1>3, <1>4, <1>5
  <2>2. ASSUME NEW s \in Reader PROVE Len(got'[s]) <= Sent /\ (rpc'[s] = "recv" => Taken(s)' \in Large)
    BY <1>1, <1>7, <1>8, <1>9, <2>1 DEF Indices
  <2> QED
    BY <1>1, <1>6, <1>9, <2>2 DEF Indices
<1>11. RingHolds'
  <2>1. Enqueuing' = Enqueuing
    BY <1>6 DEF Enqueuing
  <2> QED
    BY <1>1, <1>6, <1>9, <2>1 DEF RingHolds
<1>12. LocalSockets'
  <2>1. ASSUME NEW s \in Reader
        PROVE  /\ \A k \in 1 .. Len(sock'[s]) : sock'[s][k] \in Unreceived(s)'
               /\ \A k, l \in 1 .. Len(sock'[s]) : k < l => sock'[s][k] < sock'[s][l]
               /\ \A m \in Unreceived(s)' : \E k \in 1 .. Len(sock'[s]) : sock'[s][k] = m
    <3>1. CASE s # r
      <4>1. Unreceived(s)' = Unreceived(s)
        BY <1>6, <1>7, <3>1 DEF Unreceived
      <4> QED
        BY <1>7, <3>1, <4>1 DEF Ordered, LocalSockets
    <3>2. CASE s = r
      <4>1. Unreceived(r)' = {m \in Large : g + 1 < m /\ m <= Sent}
        BY <1>6, <1>8 DEF Unreceived
      <4>2. Unreceived(r)' = Unreceived(r) \ {g + 1}
        <5>1. \A m \in Large : g + 1 < m <=> g < m /\ m # g + 1
          BY <1>2
        <5> QED
          BY <4>1, <5>1 DEF Unreceived
      <4> DEFINE T == sock'[r]
                 L == Len(S) - 1
      <4>3. Len(T) = L /\ L \in Nat /\ \A k \in 1 .. L : T[k] = S[k + 1]
        <5>1. Len(Tail(S)) = Len(S) - 1 /\ \A k \in 1 .. Len(S) - 1 : Tail(S)[k] = S[k + 1]
          BY <1>2
        <5> QED
          BY <1>2, <1>8, <5>1
      <4>4. \A k \in 1 .. L : k + 1 \in 1 .. Len(S) /\ 1 < k + 1 /\ k \in Int
        BY <1>2, <4>3
      <4>5. \A k \in 1 .. L : T[k] \in Unreceived(r) /\ T[k] # g + 1
        <5> SUFFICES ASSUME NEW k \in 1 .. L PROVE S[k + 1] \in Unreceived(r) /\ S[k + 1] # g + 1
          BY <4>3
        <5>1. S[k + 1] \in Unreceived(r) /\ S[1] < S[k + 1] /\ S[k + 1] \in Int
          <6>1. k + 1 \in 1 .. Len(S) /\ 1 \in 1 .. Len(S) /\ 1 < k + 1
            BY <1>2, <4>4
          <6> QED
            BY <1>3, <1>4, <6>1
        <5> QED
          BY <1>2, <1>5, <5>1
      <4>6. ASSUME NEW k \in 1 .. L, NEW l \in 1 .. L, k < l PROVE T[k] < T[l]
        <5>1. k + 1 < l + 1
          BY <4>3, <4>6
        <5> QED
          BY <1>3, <4>3, <4>4, <5>1
      <4>7. ASSUME NEW m \in Unreceived(r), m # g + 1 PROVE \E k \in 1 .. L : T[k] = m
        <5>1. PICK k \in 1 .. Len(S) : S[k] = m
          BY <1>3
        <5>2. k # 1
          BY <1>5, <4>7, <5>1
        <5>3. k - 1 \in 1 .. L /\ k - 1 + 1 = k
          BY <1>2, <5>1, <5>2
        <5> QED
          BY <4>3, <5>1, <5>3
      <4> HIDE DEF T, L
      <4>8. /\ \A k \in 1 .. Len(T) : T[k] \in Unreceived(r)'
            /\ \A k, l \in 1 .. Len(T) : k < l => T[k] < T[l]
            /\ \A m \in Unreceived(r)' : \E k \in 1 .. Len(T) : T[k] = m
        BY <4>2, <4>3, <4>5, <4>6, <4>7
      <4> QED
        BY <3>2, <4>8 DEF T
    <3> QED
      BY <3>1, <3>2
  <2> QED
    BY <2>1 DEF LocalSockets
<1>13. RemoteSockets'
  <2>1. \A q \in Remote : got'[q] = got[q] /\ sock'[q] = sock[q]
    BY <1>7, QueueAssumption DEF Reader
  <2> QED
    BY <1>6, <2>1 DEF Ordered, RemoteSockets
<1>14. Queue!BQNext
  <2>1. g + 1 \in 1 .. Len(log)
    <3>1. g + 1 <= Sent
      BY <1>2, <1>3, <1>4, <1>5
    <3> QED
      BY <1>2, <3>1 DEF Sent
  <2>2. log[g + 1] = g + 1 /\ Len(got[r]) < Len(log)
    BY <1>1, <1>2, <2>1 DEF Indices
  <2>3. Queue!Dequeue(r)
    BY <1>5, <1>6, <2>2 DEF Queue!Dequeue, Take
  <2> QED
    BY <2>3 DEF Queue!BQNext
<1> QED
  BY <1>10, <1>11, <1>12, <1>13, <1>14 DEF Ordered

\* A remote reader takes the message after those it has.
LEMMA RemoteDequeueOrdered ==
  ASSUME IInv, Ordered, NEW q \in Remote, RemoteDequeue(q)
  PROVE  Ordered' /\ Queue!BQNext
<1> USE DEF RemoteDequeue, ring, writer, stop
<1> DEFINE g == Len(got[q])
           S == sock[q]
<1>1. TypeOK /\ Indices /\ RingHolds
  BY DEF IInv, Ordered
<1>2. /\ Len(log) \in Nat /\ g \in Nat /\ S \in Seq(Message) /\ Len(S) \in Nat /\ Len(S) >= 1
      /\ got[q] \in Seq(Message)
  <2>1. /\ Len(log) \in Nat /\ g \in Nat /\ S \in Seq(Message) /\ Len(S) \in Nat /\ got[q] \in Seq(Message)
    BY <1>1, CountTypes
  <2> QED
    BY <2>1 DEF Take
<1>3. /\ g + Len(S) = SentRemote
      /\ \A k \in 1 .. Len(S) : S[k] = g + k
  BY DEF Ordered, RemoteSockets
<1>4. Head(S) = g + 1
  BY <1>2, <1>3
<1>5. UNCHANGED <<written, read, data, wpc, widx, cleared, rpc, ridx, log>> /\ Live' = Live
      /\ Writing' = Writing /\ Sent' = Sent /\ SentRemote' = SentRemote
  BY DEF Live, Writing, Sent, SentRemote
<1>6. \A p \in Reader \cup Remote : p # q => got'[p] = got[p] /\ sock'[p] = sock[p]
  BY <1>1 DEF TypeOK, Take
<1>7. \A r \in Reader : /\ got'[r] = got[r] /\ sock'[r] = sock[r]
                        /\ Taken(r)' = Taken(r) /\ Unreceived(r)' = Unreceived(r)
  <2>1. \A r \in Reader : got'[r] = got[r] /\ sock'[r] = sock[r]
    BY <1>6, QueueAssumption DEF Reader
  <2> QED
    BY <1>5, <2>1 DEF Taken, Unreceived
<1>8. got'[q] = Append(got[q], g + 1) /\ Len(got'[q]) = g + 1 /\ sock'[q] = Tail(S)
  <2>1. got'[q] = Append(got[q], g + 1) /\ sock'[q] = Tail(S)
    BY <1>1, <1>4 DEF TypeOK, Take
  <2> QED
    BY <1>2, <2>1
<1>9. Indices'
  BY <1>1, <1>5, <1>7 DEF Indices
<1>10. RingHolds'
  <2>1. Enqueuing' = Enqueuing
    BY <1>5 DEF Enqueuing
  <2> QED
    BY <1>1, <1>5, <1>7, <2>1 DEF RingHolds
<1>11. LocalSockets'
  <2>1. LocalSockets
    BY DEF Ordered
  <2> QED
    BY <1>7, <2>1 DEF LocalSockets
<1>12. RemoteSockets'
  <2>1. ASSUME NEW p \in Remote
        PROVE  /\ Len(got'[p]) + Len(sock'[p]) = SentRemote
               /\ \A k \in 1 .. Len(sock'[p]) : sock'[p][k] = Len(got'[p]) + k
    <3>1. CASE p # q
      BY <1>6, <3>1 DEF Ordered, RemoteSockets
    <3>2. CASE p = q
      <4>1. Len(Tail(S)) = Len(S) - 1 /\ \A k \in 1 .. Len(S) - 1 : Tail(S)[k] = S[k + 1]
        BY <1>2
      <4> DEFINE L == Len(S)
      <4>2. g \in Nat /\ L \in Nat /\ L >= 1 /\ g + L = SentRemote
        BY <1>2, <1>3
      <4> HIDE DEF g, L
      <4>3. (g + 1) + (L - 1) = SentRemote
        BY <4>2
      <4>4. \A k \in 1 .. L - 1 : k + 1 \in 1 .. L /\ g + (k + 1) = (g + 1) + k
        BY <4>2
      <4>5. Len(got'[q]) = g + 1 /\ Len(sock'[q]) = L - 1
        BY <1>8, <4>1 DEF L, g
      <4>6. \A k \in 1 .. L - 1 : sock'[q][k] = (g + 1) + k
        <5>1. \A k \in 1 .. L : S[k] = g + k
          BY <1>3 DEF L, g
        <5>2. \A k \in 1 .. L - 1 : sock'[q][k] = S[k + 1]
          BY <1>8, <4>1 DEF L
        <5> QED
          BY <4>4, <5>1, <5>2
      <4> QED
        BY <3>2, <4>3, <4>5, <4>6
    <3> QED
      BY <3>1, <3>2
  <2> QED
    BY <1>5, <2>1 DEF RemoteSockets
<1>13. Queue!BQNext
  <2>1. g + 1 \in 1 .. Len(log)
    <3> DEFINE L == Len(S)
               n == Len(log)
    <3>1. g \in Nat /\ L \in Nat /\ L >= 1 /\ n \in Nat /\ g + L = SentRemote /\ SentRemote \in {n - 1, n}
      BY <1>2, <1>3 DEF SentRemote
    <3> HIDE DEF g, L, n
    <3>2. g + 1 \in 1 .. n
      BY <3>1
    <3> QED
      BY <3>2 DEF n
  <2>2. log[g + 1] = g + 1 /\ Len(got[q]) < Len(log)
    BY <1>1, <1>2, <2>1 DEF Indices
  <2>3. Queue!Dequeue(q)
    BY <1>4, <1>5, <2>2 DEF Queue!Dequeue, Take
  <2> QED
    BY <2>3 DEF Queue!BQNext
<1> QED
  BY <1>9, <1>10, <1>11, <1>12, <1>13 DEF Ordered

\* Until a recv times out, every step keeps the order, and is a step of the
\* abstract queue or changes nothing a caller sees.
LEMMA NextOrdered ==
  ASSUME IInv, Ordered, [Next]_vars, \A r \in Reader : ~late'[r]
  PROVE  Ordered' /\ [Queue!BQNext]_<<log, got>>
<1>1. CASE StartEnqueue \/ WriteTimeout \/ Notify
  <2> USE <1>1 DEF StartEnqueue, WriteTimeout, Notify, ring, reader, stop
  <2>1. Ordered'
    BY OrderUntouched
  <2> QED
    BY <2>1
<1>2. CASE AcquireWrite
  BY <1>2, AcquireWriteOrdered DEF AcquireWrite, reader
<1>3. CASE FillChunk \/ ResetReadFlag
  BY <1>3, PrepareOrdered DEF FillChunk, ResetReadFlag, reader
<1>4. CASE MarkWritten
  BY <1>4, MarkWrittenOrdered
<1>5. CASE SendPayload
  BY <1>5, SendPayloadOrdered DEF SendPayload, reader
<1>6. CASE SendRemote
  BY <1>6, SendRemoteOrdered DEF SendRemote, reader
<1> DEFINE Leaves(r) == \/ ReadReadFlag(r) \/ ReadWrittenFlag(r) \/ Spin(r) \/ Sleep(r)
                        \/ WakeUp(r) \/ PollTimeout(r) \/ ReadTimeout(r)
<1>7. ASSUME NEW r \in Reader, Leaves(r) PROVE Ordered' /\ UNCHANGED <<log, got>>
  <2> USE <1>7 DEF Goto, Woken, ring, writer, stop,
        ReadReadFlag, ReadWrittenFlag, Spin, Sleep, WakeUp, PollTimeout, ReadTimeout
  <2>1. UNCHANGED <<written, read, data, wpc, widx, cleared, ridx, log, got, sock>>
    OBVIOUS
  <2>2. \A s \in Reader : (rpc'[s] = "recv") <=> (rpc[s] = "recv")
    <3>1. rpc = [s \in Reader |-> rpc[s]] /\ rpc[r] # "recv"
      BY DEF IInv, TypeOK
    <3>2. \E place \in {"flag", "written", "wait", "sleep", "copy", "cancelled"} :
            rpc' = [rpc EXCEPT ![r] = place]
      OBVIOUS
    <3> QED
      BY <3>1, <3>2
  <2> QED
    BY <2>1, <2>2, OrderUntouched
<1>8. ASSUME NEW r \in Reader, FinishRead(r) PROVE Ordered' /\ [Queue!BQNext]_<<log, got>>
  BY <1>8, FinishReadOrdered
<1>9. ASSUME NEW r \in Reader, RecvPayload(r) PROVE Ordered' /\ [Queue!BQNext]_<<log, got>>
  BY <1>9, RecvPayloadOrdered
<1>10. ASSUME NEW r \in Reader, RecvTimeout(r) PROVE FALSE
  BY <1>10 DEF RecvTimeout, IInv, TypeOK
<1>11. ASSUME NEW r \in Reader, Shutdown(r) \/ Cancel(r)
       PROVE  Ordered' /\ UNCHANGED <<log, got>>
  <2> USE <1>11 DEF Shutdown, Cancel, ring, writer, reader
  <2>1. UNCHANGED <<written, read, data, wpc, widx, cleared, ridx, rpc, log, got, sock>>
    OBVIOUS
  <2> QED
    BY <2>1, OrderUntouched
<1>12. ASSUME NEW q \in Remote, RemoteDequeue(q) PROVE Ordered' /\ [Queue!BQNext]_<<log, got>>
  BY <1>12, RemoteDequeueOrdered
<1>13. CASE UNCHANGED vars
  <2>1. UNCHANGED <<written, read, data, wpc, widx, cleared, ridx, rpc, log, got, sock>>
    BY <1>13 DEF vars, ring, writer, reader
  <2> QED
    BY <2>1, OrderUntouched
<1> QED
  BY <1>1, <1>2, <1>3, <1>4, <1>5, <1>6, <1>7, <1>8, <1>9, <1>10, <1>11, <1>12, <1>13
     DEF Next, WriterStep, ReaderStep

\* No step takes back that a recv has timed out.
LEMMA LateStays ==
  ASSUME TypeOK, [Next]_vars, NEW r \in Reader, late[r]
  PROVE  late'[r]
  BY DEF TypeOK, Next, WriterStep, ReaderStep, vars, ring, writer, reader, stop,
     StartEnqueue, WriteTimeout, AcquireWrite, FillChunk, ResetReadFlag, MarkWritten,
     SendPayload, Notify, SendRemote, ReadReadFlag, ReadWrittenFlag, Spin, Sleep, WakeUp,
     PollTimeout, ReadTimeout, FinishRead, RecvPayload, RecvTimeout, RemoteDequeue,
     Shutdown, Cancel

\* The invariant of the order of delivery is inductive.
LEMMA OrderInvariant == Spec => []OInv
<1>1. Init => OInv
  BY InitIInv, InitOrdered DEF OInv
<1>2. OInv /\ [Next]_vars => OInv'
  <2> SUFFICES ASSUME OInv, [Next]_vars PROVE OInv'
    OBVIOUS
  <2>1. IInv /\ IInv'
    BY NextIInv DEF OInv
  <2>2. (\A r \in Reader : ~late'[r]) => \A r \in Reader : ~late[r]
    BY <2>1, LateStays DEF IInv
  <2>3. (\A r \in Reader : ~late'[r]) => Ordered'
    BY <2>1, <2>2, NextOrdered DEF OInv
  <2> QED
    BY <2>1, <2>3 DEF OInv
<1> QED
  BY <1>1, <1>2, PTL DEF Spec

\* Every message is delivered to every reader once and in order, through the ring
\* or the socket, whatever the sizes of the ring and of the messages, until a
\* recv of a payload times out.
THEOREM DeliveredInOrder == Spec => BroadcastInOrder
<1>1. OInv /\ [Next]_vars => ((\A r \in Reader : ~late'[r]) => [Queue!BQNext]_<<log, got>>)
  <2> SUFFICES ASSUME OInv, [Next]_vars, \A r \in Reader : ~late'[r]
               PROVE  [Queue!BQNext]_<<log, got>>
    OBVIOUS
  <2>1. IInv /\ \A r \in Reader : ~late[r]
    BY LateStays DEF OInv, IInv
  <2> QED
    BY <2>1, NextOrdered DEF OInv
<1>2. OInv /\ [Next]_vars => [(\A r \in Reader : ~late'[r]) => [Queue!BQNext]_<<log, got>>]_vars
  BY <1>1
<1>3. []OInv /\ [][Next]_vars => [][(\A r \in Reader : ~late'[r]) => [Queue!BQNext]_<<log, got>>]_vars
  BY <1>2, PTL
<1> QED
  BY <1>3, OrderInvariant, PTL DEF Spec, BroadcastInOrder

\* A queue whose local readers wait without a deadline, as the workers do for the
\* calls of the executor, implements the abstract queue.
THEOREM ImplementsBroadcastQueue ==
  ASSUME Impatient \cap Reader = {}
  PROVE  Spec => Queue!BQSpec
<1> DEFINE NoneLate == \A r \in Reader : ~late[r]
<1>1. Init => NoneLate /\ Queue!BQInit
  BY DEF Init, Queue!BQInit
<1>2. OInv /\ NoneLate /\ [Next]_vars => NoneLate'
  <2> SUFFICES ASSUME OInv, NoneLate, [Next]_vars PROVE NoneLate'
    OBVIOUS
  <2>1. \A r \in Reader : ~RecvTimeout(r)
    BY DEF RecvTimeout
  <2>2. late' = late
    BY <2>1 DEF Next, WriterStep, ReaderStep, vars, ring, writer, reader, stop,
       StartEnqueue, WriteTimeout, AcquireWrite, FillChunk, ResetReadFlag, MarkWritten,
       SendPayload, Notify, SendRemote, ReadReadFlag, ReadWrittenFlag, Spin, Sleep, WakeUp,
       PollTimeout, ReadTimeout, FinishRead, RecvPayload, RemoteDequeue, Shutdown, Cancel
  <2> QED
    BY <2>2
<1>3. OInv /\ NoneLate /\ NoneLate' /\ [Next]_vars => [Queue!BQNext]_(Queue!BQvars)
  BY NextOrdered DEF OInv, Queue!BQvars
<1> HIDE DEF NoneLate
<1> QED
  BY <1>1, <1>2, <1>3, OrderInvariant, PTL DEF Spec, Queue!BQSpec
=============================================================================
