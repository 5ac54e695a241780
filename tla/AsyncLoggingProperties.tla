------------------------ MODULE AsyncLoggingProperties ------------------------
(***************************************************************************)
(* What the asynchronous logger must keep true: of its memory, of the      *)
(* order and the fate of the messages, of its start and of its shutdown.   *)
(***************************************************************************)
EXTENDS AsyncLogging, SequencesExt

Healthy == Running /\ wpc # "failed"

\* The buffers whose messages are still to be written, oldest first.
Queue == SubSeq(buffersToWrite, written + 1, Len(buffersToWrite))
           \o m_buffers \o <<m_curBuffer>>

InFile == {output[i] : i \in DOMAIN output} \ {Notice}
OnDisk == {output[i] : i \in 1..flushed} \ {Notice}

-----------------------------------------------------------------------------
BuffersTyped ==
  /\ m_curBuffer \in Buffer /\ m_nextBuffer \in Buffer /\ m_buffers \in Seq(Buffer)
  /\ newBuffer1 \in Buffer /\ newBuffer2 \in Buffer /\ buffersToWrite \in Seq(Buffer)
  /\ written \in 0..Len(buffersToWrite) /\ heap \in Int

FileTyped ==
  /\ output \in Seq(Nat) /\ flushed \in 0..Len(output) /\ dropped \in SUBSET Message

ThreadsTyped ==
  /\ m_thread \in {"null", "joinable", "joined"} /\ m_latch \in 0..1
  /\ cpc \in {"spawn", "assign", "latch", "returned", "threw"}
  /\ m_done \in BOOLEAN
  /\ dpc \in [Closers -> {"idle", "store", "notify", "join", "joining", "returned", "threw"}]
  /\ owed \in [Closers -> Nat]
  /\ ppc \in [Producers -> {"idle", "locking"}] /\ pushed \in Nat
  /\ wpc \in {"unborn", "start", "check", "lock", "wait", "drop", "write", "exited", "failed"}
  /\ woken \in BOOLEAN
  /\ process \in {"running", "aborted", "terminated", "crashed"}

\* Every variable keeps its type; the latch is counted down once only.
TypeOK == BuffersTyped /\ FileTyped /\ ThreadsTyped

Filled(b) == b.valid /\ Len(b.msgs) <= SIZE

\* No push writes through a null pointer or past the end of a block, although
\* avail() is positive on a moved-from buffer: whenever a buffer takes the
\* place of m_curBuffer it owns a block, and the queue holds only full blocks.
BuffersUsable ==
  /\ Filled(m_curBuffer)
  /\ \A i \in DOMAIN m_buffers : Filled(m_buffers[i]) /\ Len(m_buffers[i].msgs) = SIZE
  /\ \A i \in DOMAIN buffersToWrite : Filled(buffersToWrite[i])
  /\ m_nextBuffer.msgs = <<>> /\ newBuffer1.msgs = <<>> /\ newBuffer2.msgs = <<>>
  /\ wpc \in {"check", "lock", "wait"} => newBuffer1.valid

\* The move assignment of FixedBuffer does not delete the block it overwrites,
\* so every move must target an empty buffer: every block that was allocated
\* and not deleted is owned by exactly one buffer, and none is leaked.
HeapAccounted ==
  Healthy => heap = BlocksIn(<<m_curBuffer, m_nextBuffer, newBuffer1, newBuffer2>>
                               \o m_buffers \o buffersToWrite)

\* The log file holds the messages in the order of the pushes, each at most
\* once: swapping buffers between the threads and recycling their storage
\* never reorders or replays a message.
FileInOrder ==
  \A i, j \in DOMAIN output :
    i < j /\ output[i] # Notice /\ output[j] # Notice => output[i] < output[j]

\* Every accepted message is in exactly one place: in the file, in the queue,
\* or among those that were dropped with an overlong batch.
Conserved ==
  Healthy =>
    /\ InFile \cup MessagesOf(Queue) \cup dropped = 1..pushed
    /\ InFile \cap MessagesOf(Queue) = {}
    /\ dropped \cap (InFile \cup MessagesOf(Queue)) = {}

\* Messages are dropped only with a notice in the file, and the notice stands
\* where they are missing: older messages before it, except those of the two
\* buffers that were kept, and newer messages after these.
DropAnnounced ==
  \A t \in dropped : \E i \in DOMAIN output :
    /\ output[i] = Notice
    /\ \A j \in 1..(i - 1) : output[j] < t
    /\ \A j \in (i + 2 * SIZE + 1)..Len(output) : output[j] # Notice => output[j] > t

\* When the worker is gone, what it wrote is on disk, and together with what
\* it dropped that is an initial run of the accepted messages: a shutdown can
\* cut off the newest messages, it never leaves a hole.
ExitKeepsPrefix ==
  Healthy /\ wpc = "exited" =>
    \E k \in 0..pushed : OnDisk \cup dropped = 1..k

\* Nobody pushes before the worker owns its spare buffers and has opened the
\* file: the constructor returns only behind the latch.
WorkerReadyBeforeUse ==
  cpc = "returned" => wpc \notin {"unborn", "start"} /\ m_thread # "null"

\* waitDone() returns only when the worker has finished: its last flush is
\* done and nothing will touch the file or the buffers any more.
ReturnMeansStopped ==
  Running => \A c \in Closers : dpc[c] = "returned" => wpc = "exited" /\ flushed = Len(output)

\* However many threads shut the logger down: when the last of them has left
\* waitDone(), one of them has seen the worker out.
LastCallStops ==
  Running /\ m_done /\ (\A c \in Closers : dpc[c] \in {"idle", "returned", "threw"}) =>
    wpc \in {"unborn", "exited", "failed"}

\* What was accepted before waitDone() was called is on disk when it returns
\* (or was dropped with a notice).
WaitDoneFlushes ==
  Running => \A c \in Closers : dpc[c] = "returned" => 1..owed[c] \subseteq OnDisk \cup dropped

-----------------------------------------------------------------------------
InDoDone(c) == dpc[c] \in {"store", "notify", "join", "joining"}

\* A shutdown comes to an end even if its notification finds no waiter.
ShutdownCompletes ==
  \A c \in Closers : InDoDone(c) ~> (dpc[c] \in {"returned", "threw"} \/ ~Running)

Kept(t) == t \in OnDisk \cup dropped

\* The current buffer is exactly full and the message is in it.
Parked(t) == avail(m_curBuffer) = 0 /\ t \in MessagesOf(<<m_curBuffer>>)

\* While the logger runs, an accepted message reaches the disk within finitely
\* many flush intervals, without any further push: unless it sits for ever in
\* a current buffer that is exactly full, which the worker does not take.
FlushedUnlessParked ==
  \A t \in 1..MaxPushes :
    pushed >= t ~> (Kept(t) \/ m_done \/ ~Running \/ []Parked(t))

\* Every accepted message reaches the disk while the logger runs.
FlushedInTime ==
  \A t \in 1..MaxPushes : pushed >= t ~> (Kept(t) \/ m_done \/ ~Running)

\* A constructor whose worker could not start reports that to its caller.
ConstructorAnswers == cpc # "spawn" ~> cpc \in {"returned", "threw"}

-----------------------------------------------------------------------------
\* What LogStream keeps in one queue is spread over the batch that the worker
\* is writing, the filled buffers and the current buffer.
Backlog == FlattenSeq([i \in DOMAIN Queue |-> Queue[i].msgs])

LS == INSTANCE LogStream WITH accepted <- pushed, queue <- Backlog, file <- output

\* The threads, the buffers and the recycling of their storage implement one
\* queue drained from its head, where messages vanish only when a notice is
\* written.
ImplementsLogStream == LS!Spec
=============================================================================
