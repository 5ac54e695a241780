-------------------------- MODULE AsyncLoggingProofs --------------------------
(***************************************************************************)
(* AsyncLogging, for any number of threads and any sizes: type             *)
(* correctness, memory safety, the guarantee of the constructor, the       *)
(* accounting of the blocks and the last shutdown; then the order and the  *)
(* fate of the messages: the file and the backlog together ascend, nothing *)
(* is lost but what a notice announces, and the whole implements           *)
(* LogStream.                                                              *)
(***************************************************************************)
EXTENDS AsyncLoggingProperties, FiniteSetTheorems, SequenceLemmas

\* What the worker's position says of its batch.
WorkerShape ==
  /\ wpc \notin {"drop", "write"} => buffersToWrite = <<>>
  /\ wpc # "write" => written = 0

MemInv == TypeOK /\ WorkerShape /\ BuffersUsable

\* The operations on a block keep it a block, and a push stays inside of it
\* when there is room.
LEMMA BlockOps ==
  ASSUME NEW b \in Buffer, NEW m \in Message
  PROVE  /\ Fresh \in Buffer /\ MovedFrom \in Buffer
         /\ push(b, m) \in Buffer /\ reset(b) \in Buffer
         /\ avail(b) \in Int /\ Len(b.msgs) \in Nat
         /\ reset(b).msgs = <<>> /\ reset(b).valid = b.valid
         /\ push(b, m).valid = b.valid
         /\ Len(push(b, m).msgs) = Len(b.msgs) + 1
<1>1. b.valid \in BOOLEAN /\ b.msgs \in Seq(Message) /\ b = [valid |-> b.valid, msgs |-> b.msgs]
  BY DEF Buffer
<1>2. Fresh \in Buffer /\ MovedFrom \in Buffer
  BY DEF Buffer, Fresh, MovedFrom
<1>3. Append(b.msgs, m) \in Seq(Message) /\ Len(Append(b.msgs, m)) = Len(b.msgs) + 1
  BY <1>1
<1>4. push(b, m) = [valid |-> b.valid, msgs |-> Append(b.msgs, m)]
  BY DEF push, Buffer
<1>5. reset(b) = [valid |-> b.valid, msgs |-> <<>>]
  BY DEF reset, Buffer
<1>6. avail(b) \in Int /\ Len(b.msgs) \in Nat
  BY <1>1, SizeAssumption DEF avail
<1>7. push(b, m) \in Buffer /\ reset(b) \in Buffer
  BY <1>1, <1>3, <1>4, <1>5 DEF Buffer
<1> QED
  BY <1>1, <1>2, <1>3, <1>4, <1>5, <1>6, <1>7

\* resize(2) leaves at least two blocks, the old ones and fresh ones.
LEMMA GrownBlocks ==
  ASSUME NEW bs \in Seq(Buffer)
  PROVE  /\ Grown(bs) \in Seq(Buffer) /\ Len(Grown(bs)) >= 2
         /\ \A i \in DOMAIN Grown(bs) :
              Grown(bs)[i] = Fresh \/ \E j \in DOMAIN bs : Grown(bs)[i] = bs[j]
<1> DEFINE k == IF Len(bs) < 2 THEN 2 - Len(bs) ELSE 0
           new == [i \in 1..k |-> Fresh]
<1>1. k \in Nat /\ Fresh \in Buffer
  BY DEF Fresh, Buffer
<1>2. new \in Seq(Buffer) /\ Len(new) = k
  BY <1>1
<1>3. Grown(bs) = bs \o new
  BY DEF Grown
<1> HIDE DEF k, new
<1>4. Len(bs) + k >= 2
  BY DEF k
<1>5. \A i \in 1..k : new[i] = Fresh
  BY DEF new
<1> QED
  BY <1>1, <1>2, <1>3, <1>4, <1>5

\* Without its last element, a sequence of two or more blocks is still a
\* sequence of blocks with an element at its end.
LEMMA FrontBlocks ==
  ASSUME NEW bs \in Seq(Buffer), Len(bs) >= 1
  PROVE  /\ FrontOf(bs) \in Seq(Buffer) /\ Len(FrontOf(bs)) = Len(bs) - 1
         /\ \A i \in DOMAIN FrontOf(bs) : i \in DOMAIN bs /\ FrontOf(bs)[i] = bs[i]
<1>1. /\ 1 \in Int /\ Len(bs) - 1 \in Int /\ Len(bs) \in Nat /\ DOMAIN bs = 1..Len(bs)
      /\ \A i \in 1..(Len(bs) - 1) : bs[i] \in Buffer
  OBVIOUS
<1>2. /\ SubSeq(bs, 1, Len(bs) - 1) \in Seq(Buffer)
      /\ Len(SubSeq(bs, 1, Len(bs) - 1)) = Len(bs) - 1
      /\ \A i \in 1..(Len(bs) - 1) : SubSeq(bs, 1, Len(bs) - 1)[i] = bs[i]
  BY <1>1, SubSeqProperties, Z3
<1>3. DOMAIN SubSeq(bs, 1, Len(bs) - 1) = 1..(Len(bs) - 1)
  BY <1>1, <1>2
<1> QED
  BY <1>1, <1>2, <1>3 DEF FrontOf

\* The messages of a sequence of blocks are messages.
LEMMA MessagesOfBlocks ==
  ASSUME NEW bs \in Seq(Buffer)
  PROVE  MessagesOf(bs) \subseteq Message
<1>1. ASSUME NEW i \in DOMAIN bs, NEW k \in DOMAIN bs[i].msgs
      PROVE  bs[i].msgs[k] \in Message
  <2>1. bs[i] \in Buffer
    OBVIOUS
  <2>2. bs[i].msgs \in Seq(Message)
    BY <2>1 DEF Buffer
  <2> QED
    BY <2>2
<1> QED
  BY <1>1 DEF MessagesOf

\* The number of blocks in a sequence of buffers is a number.
LEMMA BlocksInType ==
  ASSUME NEW bs \in Seq(Buffer)
  PROVE  BlocksIn(bs) \in Nat
<1>1. DOMAIN bs = 1..Len(bs) /\ Len(bs) \in Nat
  OBVIOUS
<1>2. IsFiniteSet(1..Len(bs))
  BY <1>1, FS_Interval
<1>3. {i \in DOMAIN bs : bs[i].valid} \subseteq 1..Len(bs)
  BY <1>1
<1>4. IsFiniteSet({i \in DOMAIN bs : bs[i].valid})
  BY <1>2, <1>3, FS_Subset
<1> QED
  BY <1>4, FS_CardinalityType DEF BlocksIn

-----------------------------------------------------------------------------
LEMMA ThreadsInit == Init => ThreadsTyped
<1> SUFFICES ASSUME Init PROVE ThreadsTyped
  OBVIOUS
<1>1. m_done \in BOOLEAN /\ woken \in BOOLEAN
  BY DEF Init
<1>2. m_latch \in 0..1 /\ pushed \in Nat
  BY DEF Init
<1> QED
  BY <1>1, <1>2 DEF Init, ThreadsTyped

\* A notification leaves woken a Boolean.
LEMMA NotifyTyped == NotifyWorker => woken' \in BOOLEAN
  BY DEF NotifyWorker

\* Every action moves the program counters within their types.
LEMMA ThreadsStep == ThreadsTyped /\ [Next]_vars => ThreadsTyped'
<1> SUFFICES ASSUME ThreadsTyped, [Next]_vars PROVE ThreadsTyped'
  OBVIOUS
<1> USE DEF ThreadsTyped, startVars, stopVars, pushVars
<1>1. CASE Constructor
  <2>1. CASE SpawnThread
    BY <2>1 DEF SpawnThread
  <2>2. CASE SpawnFails
    BY <2>2 DEF SpawnFails
  <2>3. CASE AssignThread
    BY <2>3 DEF AssignThread
  <2>4. CASE AwaitLatch
    BY <2>4 DEF AwaitLatch
  <2> QED
    BY <1>1, <2>1, <2>2, <2>3, <2>4 DEF Constructor
<1>2. CASE Worker
  <2>1. CASE WorkerStart \/ CheckDone \/ WorkerExit
    BY <2>1 DEF WorkerStart, CheckDone, WorkerExit
  <2>2. CASE WaitForWork
    <3>1. woken' \in BOOLEAN
      BY <2>2 DEF WaitForWork
    <3>2. m_latch' \in 0..1
      BY <2>2 DEF WaitForWork, CountDownOnce
    <3> QED
      BY <2>2, <3>1, <3>2 DEF WaitForWork
  <2>3. CASE TimeOut
    BY <2>3 DEF TimeOut
  <2>4. CASE Collect \/ DropExcess
    BY <2>4 DEF Collect, DropExcess
  <2>5. CASE WriteBuffer \/ Recycle
    BY <2>5 DEF WriteBuffer, Recycle
  <2>6. CASE WorkerThrows \/ WorkerCrashes
    BY <2>6 DEF WorkerThrows, WorkerCrashes
  <2> QED
    BY <1>2, <2>1, <2>2, <2>3, <2>4, <2>5, <2>6 DEF Worker
<1>3. ASSUME NEW p \in Producers, BeginPush(p) \/ Push(p) PROVE ThreadsTyped'
  <2>1. CASE BeginPush(p)
    BY <2>1 DEF BeginPush
  <2>2. CASE Push(p)
    <3>1. woken' \in BOOLEAN
      BY <2>2, NotifyTyped DEF Push
    <3> QED
      BY <2>2, <3>1 DEF Push
  <2> QED
    BY <1>3, <2>1, <2>2
<1>4. ASSUME NEW c \in Closers, CallWaitDone(c) \/ DoDone(c) PROVE ThreadsTyped'
  <2>1. CASE CallWaitDone(c)
    BY <2>1 DEF CallWaitDone
  <2>2. CASE StoreDone(c)
    BY <2>2 DEF StoreDone
  <2>3. CASE NotifyDone(c)
    <3>1. woken' \in BOOLEAN
      BY <2>3, NotifyTyped DEF NotifyDone
    <3> QED
      BY <2>3, <3>1 DEF NotifyDone
  <2>4. CASE BeginJoin(c)
    BY <2>4 DEF BeginJoin, AfterJoinable
  <2>5. CASE JoinReleased(c) \/ EndJoin(c)
    BY <2>5 DEF JoinReleased, EndJoin
  <2> QED
    BY <1>4, <2>1, <2>2, <2>3, <2>4, <2>5 DEF DoDone
<1>5. CASE UNCHANGED vars
  BY <1>5 DEF vars
<1> QED
  BY <1>1, <1>2, <1>3, <1>4, <1>5 DEF Next, Step, Terminated

-----------------------------------------------------------------------------
\* The latch opens only when the worker has come to its first wait, and the
\* constructor passes the latch only after it has stored the thread.
StartInv ==
  /\ ThreadsTyped
  /\ m_latch = 0 => wpc \notin {"unborn", "start"}
  /\ cpc = "spawn" => wpc = "unborn"
  /\ cpc \in {"latch", "returned"} => m_thread # "null"
  /\ cpc = "returned" => m_latch = 0

LEMMA StartInit == Init => StartInv
  BY ThreadsInit DEF Init, StartInv

LEMMA StartStep == StartInv /\ [Next]_vars => StartInv'
<1> SUFFICES ASSUME StartInv, [Next]_vars PROVE StartInv'
  OBVIOUS
<1>1. ThreadsTyped'
  BY ThreadsStep DEF StartInv
<1> USE <1>1 DEF StartInv, startVars
<1>2. CASE Constructor
  <2>1. CASE SpawnThread
    BY <2>1 DEF SpawnThread
  <2>2. CASE SpawnFails
    BY <2>2 DEF SpawnFails
  <2>3. CASE AssignThread
    BY <2>3 DEF AssignThread
  <2>4. CASE AwaitLatch
    BY <2>4 DEF AwaitLatch, LatchOpen
  <2> QED
    BY <1>2, <2>1, <2>2, <2>3, <2>4 DEF Constructor
<1>3. CASE Worker
  <2>1. CASE WaitForWork
    BY <2>1 DEF WaitForWork, CountDownOnce
  <2>2. CASE WorkerStart \/ CheckDone \/ WorkerExit \/ TimeOut \/ Collect
    BY <2>2 DEF WorkerStart, CheckDone, SeesRunning, WorkerExit, SeesDone, TimeOut, Collect
  <2>3. CASE DropExcess \/ WriteBuffer \/ Recycle
    BY <2>3 DEF DropExcess, WriteBuffer, Recycle
  <2>4. CASE WorkerThrows \/ WorkerCrashes
    BY <2>4 DEF WorkerThrows, WorkerCrashes, Failing
  <2> QED
    BY <1>3, <2>1, <2>2, <2>3, <2>4 DEF Worker
<1>4. ASSUME NEW p \in Producers, BeginPush(p) \/ Push(p) PROVE StartInv'
  BY <1>4 DEF BeginPush, Push
<1>5. ASSUME NEW c \in Closers, CallWaitDone(c) \/ DoDone(c) PROVE StartInv'
  BY <1>5 DEF CallWaitDone, DoDone, StoreDone, NotifyDone, BeginJoin, JoinReleased, EndJoin
<1>6. CASE UNCHANGED vars
  BY <1>6 DEF vars
<1> QED
  BY <1>2, <1>3, <1>4, <1>5, <1>6 DEF Next, Step, Terminated

\* When the constructor has returned, the worker owns its spares and has
\* opened the file, in every interleaving of their start.
THEOREM StartsReady == Spec => []WorkerReadyBeforeUse
<1>1. Init => StartInv
  BY StartInit
<1>2. StartInv => WorkerReadyBeforeUse
  BY DEF StartInv, WorkerReadyBeforeUse
<1> QED
  BY <1>1, <1>2, StartStep, PTL DEF Spec

-----------------------------------------------------------------------------
\* In the initial state both buffers of the object own a block.
LEMMA MemInit == Init => MemInv
<1> SUFFICES ASSUME Init PROVE MemInv
  OBVIOUS
<1>1. /\ Fresh \in Buffer /\ Fresh.valid /\ Fresh.msgs = <<>>
      /\ MovedFrom \in Buffer /\ MovedFrom.msgs = <<>>
  BY DEF Buffer, Fresh, MovedFrom
<1>2. BuffersTyped
  BY <1>1 DEF Init, BuffersTyped
<1>3. FileTyped
  BY DEF Init, FileTyped
<1>4. WorkerShape
  BY DEF Init, WorkerShape
<1>5. BuffersUsable
  BY <1>1, SizeAssumption DEF Init, BuffersUsable, Filled
<1> QED
  BY <1>2, <1>3, <1>4, <1>5, ThreadsInit DEF MemInv, TypeOK

\* A push finds room, or puts the full buffer aside for one that has room.
LEMMA MemPush ==
  ASSUME MemInv, NEW p \in Producers, Push(p)
  PROVE  BuffersTyped' /\ FileTyped' /\ WorkerShape' /\ BuffersUsable'
<1> USE DEF MemInv, TypeOK
<1> DEFINE t == pushed + 1
<1>1. t \in Message
  BY DEF ThreadsTyped, Message
<1>2. /\ Fresh \in Buffer /\ Fresh.valid /\ Fresh.msgs = <<>>
      /\ MovedFrom \in Buffer /\ MovedFrom.msgs = <<>>
  BY DEF Buffer, Fresh, MovedFrom
<1>3. FileTyped' /\ WorkerShape'
  BY DEF Push, FileTyped, WorkerShape, fileVars
<1> HIDE DEF t
<1>4. CASE /\ avail(m_curBuffer) > 0 /\ m_curBuffer' = push(m_curBuffer, t)
           /\ UNCHANGED <<m_nextBuffer, m_buffers, heap, woken>>
  <2>1. m_curBuffer' \in Buffer /\ Filled(m_curBuffer')
    BY <1>1, <1>4, BlockOps, SizeAssumption DEF BuffersTyped, BuffersUsable, Filled, avail
  <2>2. BuffersTyped'
    BY <1>4, <2>1 DEF BuffersTyped, Push
  <2>3. BuffersUsable'
    BY <1>4, <2>1 DEF BuffersUsable, Filled, Push
  <2> QED
    BY <1>3, <2>2, <2>3
<1>5. CASE avail(m_curBuffer) <= 0 /\ SwitchBuffer(t) /\ NotifyWorker
  <2>1. /\ m_curBuffer' \in Buffer /\ Filled(m_curBuffer')
        /\ m_nextBuffer' \in Buffer /\ m_nextBuffer'.msgs = <<>> /\ heap' \in Int
    <3>1. CASE m_nextBuffer.valid
      <4>1. m_curBuffer' = push(m_nextBuffer, t) /\ m_nextBuffer' = MovedFrom /\ heap' = heap
        BY <1>5, <3>1 DEF SwitchBuffer
      <4>2. m_nextBuffer \in Buffer /\ Len(m_nextBuffer.msgs) = 0
        BY DEF BuffersTyped, BuffersUsable
      <4> QED
        BY <1>1, <1>2, <3>1, <4>1, <4>2, BlockOps, SizeAssumption DEF BuffersTyped, Filled
    <3>2. CASE ~m_nextBuffer.valid
      <4>1. m_curBuffer' = push(Fresh, t) /\ m_nextBuffer' = m_nextBuffer /\ heap' = heap + 1
        BY <1>5, <3>2 DEF SwitchBuffer
      <4> QED
        BY <1>1, <1>2, <4>1, BlockOps, SizeAssumption DEF BuffersTyped, BuffersUsable, Filled
    <3> QED
      BY <3>1, <3>2
  <2>2. m_buffers' = Append(m_buffers, m_curBuffer)
    BY <1>5 DEF SwitchBuffer, SaveCurrent
  <2>3. Len(m_curBuffer.msgs) = SIZE /\ Filled(m_curBuffer) /\ m_curBuffer \in Buffer
    BY <1>1, <1>5, BlockOps, SizeAssumption DEF BuffersTyped, BuffersUsable, Filled, avail
  <2>4. BuffersTyped'
    BY <2>1, <2>2, <2>3 DEF BuffersTyped, Push
  <2>5. \A i \in DOMAIN m_buffers' : Filled(m_buffers'[i]) /\ Len(m_buffers'[i].msgs) = SIZE
    BY <2>2, <2>3 DEF BuffersTyped, BuffersUsable
  <2>6. BuffersUsable'
    BY <2>1, <2>5 DEF BuffersUsable, Filled, Push
  <2> QED
    BY <1>3, <2>4, <2>6
<1> QED
  BY <1>4, <1>5 DEF Push, t

\* The critical section of the worker: the current buffer goes only when the
\* first spare can take its place, and the spares stay empty.
LEMMA MemCollect ==
  ASSUME MemInv, Collect
  PROVE  BuffersTyped' /\ FileTyped' /\ WorkerShape' /\ BuffersUsable'
<1> USE DEF MemInv, TypeOK
<1>1. MovedFrom \in Buffer /\ MovedFrom.msgs = <<>>
  BY DEF Buffer, MovedFrom
<1>2. /\ wpc \in {"lock", "wait"} /\ newBuffer1.valid
      /\ buffersToWrite = <<>> /\ written = 0
  BY DEF Collect, WorkerShape, BuffersUsable
<1>3. /\ NextBatch \in Seq(Buffer)
      /\ \A i \in DOMAIN NextBatch : Filled(NextBatch[i])
  BY DEF NextBatch, BuffersTyped, BuffersUsable
<1>4. /\ m_curBuffer' \in Buffer /\ Filled(m_curBuffer')
      /\ newBuffer1' \in Buffer /\ newBuffer1'.msgs = <<>>
  <2>1. newBuffer1 \in Buffer /\ Filled(newBuffer1)
    BY <1>2, SizeAssumption DEF BuffersTyped, BuffersUsable, Filled
  <2>2. m_curBuffer \in Buffer /\ Filled(m_curBuffer) /\ newBuffer1.msgs = <<>>
    BY DEF BuffersTyped, BuffersUsable
  <2>3. \/ m_curBuffer' = newBuffer1 /\ newBuffer1' = MovedFrom
        \/ m_curBuffer' = m_curBuffer /\ newBuffer1' = newBuffer1
    BY DEF Collect
  <2> QED
    BY <1>1, <2>1, <2>2, <2>3
<1>5. /\ m_nextBuffer' \in Buffer /\ m_nextBuffer'.msgs = <<>>
      /\ newBuffer2' \in Buffer /\ newBuffer2'.msgs = <<>>
  BY <1>1 DEF Collect, RefillNext, BuffersTyped, BuffersUsable
<1>6. /\ buffersToWrite' = NextBatch /\ m_buffers' = <<>> /\ written' = 0 /\ heap' = heap
      /\ wpc' \in {"check", "drop"} /\ (wpc' = "check" => NextBatch = <<>>)
  BY <1>2 DEF Collect
<1>7. wpc' = "check" => newBuffer1'.valid
  <2>1. NextBatch = <<>> => ~TakesCurrent
    BY DEF NextBatch, BuffersTyped
  <2> QED
    BY <1>2, <1>6, <2>1 DEF Collect
<1>8. FileTyped'
  BY DEF Collect, FileTyped, fileVars
<1>9. BuffersTyped'
  BY <1>3, <1>4, <1>5, <1>6 DEF BuffersTyped
<1>10. WorkerShape'
  BY <1>6 DEF WorkerShape
<1>11. BuffersUsable'
  BY <1>3, <1>4, <1>5, <1>6, <1>7 DEF BuffersUsable, Filled
<1> QED
  BY <1>8, <1>9, <1>10, <1>11

\* Cutting a batch down keeps blocks only, and loses messages only.
LEMMA MemDrop ==
  ASSUME MemInv, DropExcess
  PROVE  BuffersTyped' /\ FileTyped' /\ WorkerShape' /\ BuffersUsable'
<1> USE DEF MemInv, TypeOK
<1>1. CASE Len(buffersToWrite) > DropLimit
  <2> DEFINE erased == SubSeq(buffersToWrite, 3, Len(buffersToWrite))
             kept   == SubSeq(buffersToWrite, 1, 2)
  <2>1. /\ buffersToWrite \in Seq(Buffer) /\ Len(buffersToWrite) \in Nat
        /\ \A i \in 1..Len(buffersToWrite) :
             buffersToWrite[i] \in Buffer /\ Filled(buffersToWrite[i])
    BY DEF BuffersTyped, BuffersUsable
  <2>2. erased \in Seq(Buffer)
    BY <2>1, SubSeqProperties, Z3
  <2>3. kept \in Seq(Buffer) /\ Len(kept) = 2 /\ kept[1] = buffersToWrite[1]
        /\ kept[2] = buffersToWrite[2]
    BY <1>1, <2>1, ConstantsAssumption
  <2>4. BlocksIn(erased) \in Int
    <3> HIDE DEF erased
    <3> QED
      BY <2>2, BlocksInType
  <2>5. /\ buffersToWrite' = kept /\ dropped' = dropped \cup MessagesOf(erased)
        /\ output' = Append(output, Notice) /\ heap' = heap - BlocksIn(erased)
        /\ wpc' = "write" /\ written' = written /\ written = 0 /\ flushed' = flushed
        /\ UNCHANGED <<m_curBuffer, m_nextBuffer, m_buffers, newBuffer1, newBuffer2>>
    BY <1>1 DEF DropExcess, WithNotice, WorkerShape
  <2> HIDE DEF erased, kept
  <2>6. BuffersTyped'
    BY <2>3, <2>4, <2>5 DEF BuffersTyped
  <2>7. FileTyped'
    <3>1. dropped' \subseteq Message
      BY <2>2, <2>5, MessagesOfBlocks DEF FileTyped
    <3>2. output' \in Seq(Nat) /\ flushed' \in 0..Len(output')
      BY <2>5 DEF FileTyped, Notice
    <3> QED
      BY <3>1, <3>2 DEF FileTyped
  <2>8. WorkerShape'
    BY <2>5 DEF WorkerShape
  <2>9. BuffersUsable'
    <3>1. \A i \in DOMAIN buffersToWrite' : Filled(buffersToWrite'[i])
      BY <1>1, <2>1, <2>3, <2>5, ConstantsAssumption
    <3> QED
      BY <2>5, <3>1 DEF BuffersUsable, Filled
  <2> QED
    BY <2>6, <2>7, <2>8, <2>9
<1>2. CASE ~(Len(buffersToWrite) > DropLimit)
  <2>1. UNCHANGED <<memVars, fileVars>> /\ wpc = "drop" /\ wpc' = "write"
    BY <1>2 DEF DropExcess, memVars, fileVars
  <2> QED
    BY <2>1 DEF memVars, fileVars, BuffersTyped, FileTyped, WorkerShape, BuffersUsable, Filled
<1> QED
  BY <1>1, <1>2

\* Writing a buffer leaves the buffers alone.
LEMMA MemWrite ==
  ASSUME MemInv, WriteBuffer
  PROVE  BuffersTyped' /\ FileTyped' /\ WorkerShape' /\ BuffersUsable'
<1> USE DEF MemInv, TypeOK
<1>1. /\ written + 1 \in DOMAIN buffersToWrite
      /\ written' = written + 1 /\ written' \in 0..Len(buffersToWrite)
      /\ output' = output \o buffersToWrite[written + 1].msgs
      /\ wpc = "write" /\ wpc' = "write"
      /\ UNCHANGED <<m_curBuffer, m_nextBuffer, m_buffers, newBuffer1, newBuffer2,
                     buffersToWrite, heap, flushed, dropped>>
  BY DEF WriteBuffer, BuffersTyped
<1>2. buffersToWrite[written + 1].msgs \in Seq(Nat)
  <2>1. buffersToWrite[written + 1].msgs \in Seq(Message)
    <3>1. buffersToWrite[written + 1] \in Buffer
      BY <1>1 DEF BuffersTyped
    <3> QED
      BY <3>1 DEF Buffer
  <2> QED
    BY <2>1, SeqMonotonic DEF Message
<1>3. output' \in Seq(Nat) /\ Len(output') >= Len(output)
  BY <1>1, <1>2 DEF FileTyped
<1>4. FileTyped'
  BY <1>1, <1>3 DEF FileTyped
<1>5. BuffersTyped' /\ WorkerShape' /\ BuffersUsable'
  BY <1>1 DEF BuffersTyped, WorkerShape, BuffersUsable, Filled
<1> QED
  BY <1>4, <1>5

\* However short the batch and whichever spares are gone, both spares own an
\* empty block afterwards.
LEMMA MemRecycle ==
  ASSUME MemInv, Recycle
  PROVE  BuffersTyped' /\ FileTyped' /\ WorkerShape' /\ BuffersUsable'
<1> USE DEF MemInv, TypeOK
<1> DEFINE batch0 == Grown(buffersToWrite)
           batch1 == IF newBuffer1.valid THEN batch0 ELSE FrontOf(batch0)
           batch2 == IF newBuffer2.valid THEN batch1 ELSE FrontOf(batch1)
<1>1. Fresh \in Buffer /\ Fresh.valid /\ 1 \in Message
  BY DEF Buffer, Fresh, Message
<1>2. /\ buffersToWrite \in Seq(Buffer) /\ newBuffer1 \in Buffer /\ newBuffer2 \in Buffer
      /\ \A i \in DOMAIN buffersToWrite : buffersToWrite[i].valid
  BY DEF BuffersTyped, BuffersUsable, Filled
<1>3. /\ batch0 \in Seq(Buffer) /\ Len(batch0) >= 2
      /\ \A i \in DOMAIN batch0 : batch0[i].valid
  BY <1>1, <1>2, GrownBlocks
<1>4. /\ batch1 \in Seq(Buffer) /\ Len(batch1) >= 1
      /\ \A i \in DOMAIN batch1 : batch1[i].valid
  <2> HIDE DEF batch0
  <2>1. FrontOf(batch0) \in Seq(Buffer) /\ Len(FrontOf(batch0)) >= 1
        /\ \A i \in DOMAIN FrontOf(batch0) : FrontOf(batch0)[i].valid
    BY <1>3, FrontBlocks
  <2> QED
    BY <1>3, <2>1
<1>5. batch2 \in Seq(Buffer)
  BY <1>4, FrontBlocks
<1> HIDE DEF batch0, batch1, batch2
<1>6. /\ batch0[Len(batch0)] \in Buffer /\ batch0[Len(batch0)].valid
      /\ batch1[Len(batch1)] \in Buffer /\ batch1[Len(batch1)].valid
  BY <1>3, <1>4
<1>7. /\ newBuffer1' = IF newBuffer1.valid THEN newBuffer1 ELSE reset(batch0[Len(batch0)])
      /\ newBuffer2' = IF newBuffer2.valid THEN newBuffer2 ELSE reset(batch1[Len(batch1)])
      /\ heap' = heap + (Len(batch0) - Len(buffersToWrite)) - BlocksIn(batch2)
      /\ buffersToWrite' = <<>> /\ written' = 0 /\ flushed' = Len(output) /\ wpc' = "check"
      /\ UNCHANGED <<m_curBuffer, m_nextBuffer, m_buffers, output, dropped>>
  BY DEF Recycle, batch0, batch1, batch2
<1>8. /\ newBuffer1' \in Buffer /\ newBuffer1'.valid /\ newBuffer1'.msgs = <<>>
      /\ newBuffer2' \in Buffer /\ newBuffer2'.msgs = <<>>
  <2>1. newBuffer1.msgs = <<>> /\ newBuffer2.msgs = <<>>
    BY DEF BuffersUsable
  <2> QED
    BY <1>1, <1>2, <1>6, <1>7, <2>1, BlockOps
<1>9. heap' \in Int
  BY <1>2, <1>3, <1>5, <1>7, BlocksInType DEF BuffersTyped
<1>10. BuffersTyped'
  BY <1>7, <1>8, <1>9 DEF BuffersTyped
<1>11. FileTyped'
  BY <1>7 DEF FileTyped
<1>12. WorkerShape'
  BY <1>7 DEF WorkerShape
<1>13. BuffersUsable'
  BY <1>7, <1>8 DEF BuffersUsable, Filled
<1> QED
  BY <1>10, <1>11, <1>12, <1>13

\* A failing worker gives up its buffers, or takes the process down.
LEMMA MemFail ==
  ASSUME MemInv, WorkerThrows \/ WorkerCrashes
  PROVE  BuffersTyped' /\ FileTyped' /\ WorkerShape' /\ BuffersUsable'
<1> USE DEF MemInv, TypeOK
<1>1. Failing
  BY DEF WorkerThrows, WorkerCrashes
<1>2. /\ output' \in Seq(Nat) /\ Len(output') >= Len(output)
      /\ wpc \in {"start", "drop", "write"}
  <2>1. CASE wpc = "write" /\ written < Len(buffersToWrite)
             /\ \E k \in 0..Len(buffersToWrite[written + 1].msgs) :
                  output' = output \o SubSeq(buffersToWrite[written + 1].msgs, 1, k)
    <3> DEFINE msgs == buffersToWrite[written + 1].msgs
    <3>1. buffersToWrite[written + 1] \in Buffer
      BY <2>1 DEF BuffersTyped
    <3>2. msgs \in Seq(Nat)
      BY <3>1, SeqMonotonic DEF Buffer, Message
    <3>3. PICK k \in 0..Len(msgs) : output' = output \o SubSeq(msgs, 1, k)
      BY <2>1
    <3> HIDE DEF msgs
    <3>4. SubSeq(msgs, 1, k) \in Seq(Nat)
      BY <3>2, SubSeqProperties, Z3
    <3> DEFINE part == SubSeq(msgs, 1, k)
    <3>5. Len(output) \in Nat /\ Len(part) \in Nat /\ output \in Seq(Nat)
      BY <3>4 DEF FileTyped
    <3> HIDE DEF part
    <3>6. output \o part \in Seq(Nat) /\ Len(output \o part) = Len(output) + Len(part)
      BY <3>4, <3>5, ConcatProperties DEF part
    <3>7. output' = output \o part
      BY <3>3 DEF part
    <3>8. output' \in Seq(Nat) /\ Len(output') = Len(output) + Len(part)
      BY <3>6, <3>7
    <3>9. Len(output') >= Len(output)
      BY <3>5, <3>8
    <3> QED
      BY <2>1, <3>8, <3>9
  <2>2. CASE wpc = "drop" /\ output' = Append(output, Notice)
    BY <2>2 DEF FileTyped, Notice
  <2>3. CASE wpc = "start" /\ output' = output
    BY <2>3 DEF FileTyped
  <2> QED
    BY <1>1, <2>1, <2>2, <2>3 DEF Failing, WithNotice
<1>3. CASE WorkerThrows
  <2>1. /\ MovedFrom \in Buffer /\ MovedFrom.msgs = <<>>
    BY DEF Buffer, MovedFrom
  <2>2. <<newBuffer1, newBuffer2>> \o buffersToWrite \in Seq(Buffer)
    BY DEF BuffersTyped
  <2>3. heap' \in Int
    BY <1>3, <2>2, BlocksInType DEF WorkerThrows, BuffersTyped
  <2>4. BuffersTyped'
    BY <1>3, <2>1, <2>3 DEF WorkerThrows, BuffersTyped
  <2>5. FileTyped'
    BY <1>2, <1>3 DEF WorkerThrows, FileTyped
  <2>6. WorkerShape' /\ BuffersUsable'
    BY <1>3, <2>1 DEF WorkerThrows, WorkerShape, BuffersUsable, Filled
  <2> QED
    BY <2>4, <2>5, <2>6
<1>4. CASE WorkerCrashes
  <2>1. FileTyped'
    BY <1>2, <1>4 DEF WorkerCrashes, FileTyped
  <2> QED
    BY <1>4, <2>1 DEF WorkerCrashes, memVars, BuffersTyped, WorkerShape, BuffersUsable, Filled
<1> QED
  BY <1>3, <1>4

\* The steps that leave the buffers and the file alone.
LEMMA MemOther ==
  ASSUME MemInv, UNCHANGED <<memVars, fileVars>>,
         \/ wpc' = wpc
         \/ wpc' = "start" /\ wpc \notin {"drop", "write"}
         \/ wpc' = "lock" /\ wpc = "check"
         \/ wpc' = "wait" /\ wpc = "lock"
  PROVE  BuffersTyped' /\ FileTyped' /\ WorkerShape' /\ BuffersUsable'
<1> USE DEF MemInv, TypeOK
<1>1. BuffersTyped' /\ FileTyped'
  BY DEF memVars, fileVars, BuffersTyped, FileTyped
<1>2. WorkerShape'
  BY DEF memVars, WorkerShape
<1>3. /\ UNCHANGED <<m_curBuffer, m_buffers, m_nextBuffer, newBuffer1, newBuffer2, buffersToWrite>>
      /\ wpc' \in {"check", "lock", "wait"} => wpc \in {"check", "lock", "wait"}
  BY DEF memVars
<1>4. BuffersUsable'
  BY <1>3 DEF BuffersUsable, Filled
<1> QED
  BY <1>1, <1>2, <1>4

LEMMA MemStepParts ==
  ASSUME MemInv, StartInv, [Next]_vars
  PROVE  BuffersTyped' /\ FileTyped' /\ WorkerShape' /\ BuffersUsable'
<1>1. CASE Constructor
  BY <1>1, MemOther DEF Constructor, SpawnThread, SpawnFails, AssignThread, AwaitLatch, StartInv
<1>2. CASE Worker
  <2>1. CASE WorkerStart
    <3>1. Fresh \in Buffer /\ Fresh.valid /\ Fresh.msgs = <<>>
      BY DEF Buffer, Fresh
    <3> QED
      BY <2>1, <3>1 DEF WorkerStart, MemInv, TypeOK, BuffersTyped, FileTyped, fileVars,
                        WorkerShape, BuffersUsable, Filled
  <2>2. CASE CheckDone
    BY <2>2, MemOther DEF CheckDone, SeesRunning
  <2>3. CASE WorkerExit
    <3>1. MovedFrom \in Buffer /\ MovedFrom.msgs = <<>>
      BY DEF Buffer, MovedFrom
    <3>2. <<newBuffer1, newBuffer2>> \in Seq(Buffer)
      BY DEF MemInv, TypeOK, BuffersTyped
    <3>3. heap' \in Int
      BY <2>3, <3>2, BlocksInType DEF WorkerExit, MemInv, TypeOK, BuffersTyped
    <3> QED
      BY <2>3, <3>1, <3>3 DEF WorkerExit, SeesDone, MemInv, TypeOK, BuffersTyped, FileTyped,
                              WorkerShape, BuffersUsable, Filled
  <2>4. CASE WaitForWork \/ TimeOut
    BY <2>4, MemOther DEF WaitForWork, TimeOut
  <2>5. CASE Collect
    BY <2>5, MemCollect
  <2>6. CASE DropExcess
    BY <2>6, MemDrop
  <2>7. CASE WriteBuffer
    BY <2>7, MemWrite
  <2>8. CASE Recycle
    BY <2>8, MemRecycle
  <2>9. CASE WorkerThrows \/ WorkerCrashes
    BY <2>9, MemFail
  <2> QED
    BY <1>2, <2>1, <2>2, <2>3, <2>4, <2>5, <2>6, <2>7, <2>8, <2>9 DEF Worker
<1>3. ASSUME NEW p \in Producers, BeginPush(p) \/ Push(p)
      PROVE  BuffersTyped' /\ FileTyped' /\ WorkerShape' /\ BuffersUsable'
  BY <1>3, MemPush, MemOther DEF BeginPush
<1>4. ASSUME NEW c \in Closers, CallWaitDone(c) \/ DoDone(c)
      PROVE  BuffersTyped' /\ FileTyped' /\ WorkerShape' /\ BuffersUsable'
  BY <1>4, MemOther DEF CallWaitDone, DoDone, StoreDone, NotifyDone, BeginJoin, JoinReleased, EndJoin
<1>5. CASE UNCHANGED vars
  BY <1>5, MemOther DEF vars
<1> QED
  BY <1>1, <1>2, <1>3, <1>4, <1>5 DEF Next, Step, Terminated

\* Every variable keeps its type, and no push writes through a null pointer
\* or past the end of its block, whatever the sizes, the number of threads
\* and the failures.
THEOREM MemorySafety == Spec => [](TypeOK /\ BuffersUsable)
<1>1. Init => MemInv /\ StartInv
  BY MemInit, StartInit
<1>2. MemInv /\ StartInv /\ [Next]_vars => (MemInv /\ StartInv)'
  BY MemStepParts, ThreadsStep, StartStep DEF MemInv, TypeOK
<1>3. MemInv => TypeOK /\ BuffersUsable
  BY DEF MemInv
<1> QED
  BY <1>1, <1>2, <1>3, PTL DEF Spec

-----------------------------------------------------------------------------
(***************************************************************************)
(* Counting the blocks.                                                    *)
(***************************************************************************)
Owns(b) == IF b.valid THEN 1 ELSE 0

LEMMA OwnsType ==
  ASSUME NEW b
  PROVE  Owns(b) \in Nat /\ (b.valid => Owns(b) = 1) /\ (~b.valid => Owns(b) = 0)
  BY DEF Owns

\* One more buffer.
LEMMA BlocksInAppend ==
  ASSUME NEW bs \in Seq(Buffer), NEW b \in Buffer
  PROVE  /\ Append(bs, b) \in Seq(Buffer)
         /\ BlocksIn(Append(bs, b)) = BlocksIn(bs) + Owns(b)
<1> DEFINE n == Len(bs)
           S == {i \in DOMAIN bs : bs[i].valid}
           T == {i \in DOMAIN Append(bs, b) : Append(bs, b)[i].valid}
<1>1. /\ n \in Nat /\ DOMAIN bs = 1..n /\ Append(bs, b) \in Seq(Buffer)
      /\ DOMAIN Append(bs, b) = 1..(n + 1) /\ Append(bs, b)[n + 1] = b
      /\ \A i \in 1..n : Append(bs, b)[i] = bs[i]
  OBVIOUS
<1>2. 1..(n + 1) = (1..n) \cup {n + 1} /\ n + 1 \notin 1..n
  BY <1>1
<1>3. T = IF b.valid THEN S \cup {n + 1} ELSE S
  BY <1>1, <1>2
<1>4. IsFiniteSet(S) /\ n + 1 \notin S
  <2>1. IsFiniteSet(1..n) /\ S \subseteq 1..n
    BY <1>1, FS_Interval
  <2> QED
    BY <1>2, <2>1, FS_Subset
<1> HIDE DEF S, T, n
<1>5. Cardinality(S) \in Nat /\ Cardinality(S \cup {n + 1}) = Cardinality(S) + 1
  BY <1>4, FS_CardinalityType, FS_AddElement
<1>6. Cardinality(T) = Cardinality(S) + Owns(b)
  BY <1>3, <1>5 DEF Owns
<1>7. BlocksIn(bs) = Cardinality(S) /\ BlocksIn(Append(bs, b)) = Cardinality(T)
  BY DEF BlocksIn, S, T
<1> QED
  BY <1>1, <1>6, <1>7

\* The spares of the worker.
LEMMA BlocksInPair ==
  ASSUME NEW a \in Buffer, NEW b \in Buffer
  PROVE  <<a, b>> \in Seq(Buffer) /\ BlocksIn(<<a, b>>) = Owns(a) + Owns(b)
<1>1. BlocksIn(<<>>) = 0 /\ <<>> \in Seq(Buffer)
  <2>1. {i \in DOMAIN <<>> : <<>>[i].valid} = {}
    OBVIOUS
  <2> QED
    BY <2>1, FS_EmptySet DEF BlocksIn
<1>2. <<a>> = Append(<<>>, a) /\ <<a, b>> = Append(<<a>>, b)
  OBVIOUS
<1>3. <<a>> \in Seq(Buffer) /\ BlocksIn(<<a>>) = 0 + Owns(a)
  BY <1>1, <1>2, BlocksInAppend
<1>4. <<a, b>> \in Seq(Buffer) /\ BlocksIn(<<a, b>>) = 0 + Owns(a) + Owns(b)
  BY <1>2, <1>3, BlocksInAppend
<1>5. 0 + Owns(a) = Owns(a)
  BY OwnsType
<1> QED
  BY <1>4, <1>5

\* The buffers of the object and the spares of the worker.
LEMMA BlocksInFour ==
  ASSUME NEW a \in Buffer, NEW b \in Buffer, NEW c \in Buffer, NEW d \in Buffer
  PROVE  BlocksIn(<<a, b, c, d>>) = Owns(a) + Owns(b) + Owns(c) + Owns(d)
<1>1. <<a, b, c>> = Append(<<a, b>>, c)
  OBVIOUS
<1>2. <<a, b, c, d>> = Append(<<a, b, c>>, d)
  OBVIOUS
<1>3. <<a, b>> \in Seq(Buffer) /\ BlocksIn(<<a, b>>) = Owns(a) + Owns(b)
  BY BlocksInPair
<1>4. /\ Append(<<a, b>>, c) \in Seq(Buffer)
      /\ BlocksIn(Append(<<a, b>>, c)) = Owns(a) + Owns(b) + Owns(c)
  BY <1>3, BlocksInAppend
<1>5. <<a, b, c>> \in Seq(Buffer) /\ BlocksIn(<<a, b, c>>) = Owns(a) + Owns(b) + Owns(c)
  BY <1>1, <1>4
<1>6. BlocksIn(Append(<<a, b, c>>, d)) = Owns(a) + Owns(b) + Owns(c) + Owns(d)
  BY <1>5, BlocksInAppend
<1> QED
  BY <1>2, <1>6

\* Buffers behind others, each of them with a block.
LEMMA BlocksInConcat ==
  ASSUME NEW aa \in Seq(Buffer), NEW bb \in Seq(Buffer), \A i \in DOMAIN bb : bb[i].valid
  PROVE  aa \o bb \in Seq(Buffer) /\ BlocksIn(aa \o bb) = BlocksIn(aa) + Len(bb)
<1> DEFINE m == Len(aa)
           n == Len(bb)
           S == {i \in DOMAIN aa : aa[i].valid}
           T == {i \in DOMAIN (aa \o bb) : (aa \o bb)[i].valid}
           R == (m + 1)..(m + n)
<1>1. /\ m \in Nat /\ n \in Nat /\ DOMAIN aa = 1..m /\ DOMAIN bb = 1..n
      /\ aa \o bb \in Seq(Buffer) /\ DOMAIN (aa \o bb) = 1..(m + n)
      /\ \A i \in 1..m : (aa \o bb)[i] = aa[i]
      /\ \A i \in 1..n : (aa \o bb)[m + i] = bb[i]
  OBVIOUS
<1>2. 1..(m + n) = (1..m) \cup R /\ (1..m) \cap R = {}
  BY <1>1
<1>3. \A i \in R : (aa \o bb)[i].valid
  <2> SUFFICES ASSUME NEW i \in R PROVE (aa \o bb)[i].valid
    OBVIOUS
  <2>1. i - m \in 1..n /\ i = m + (i - m)
    BY <1>1
  <2>2. (aa \o bb)[i] = bb[i - m]
    BY <1>1, <2>1
  <2> QED
    BY <1>1, <2>1, <2>2
<1>4. T = S \cup R /\ S \cap R = {}
  BY <1>1, <1>2, <1>3
<1>5. IsFiniteSet(S)
  <2>1. IsFiniteSet(1..m)
    <3>1. 1 \in Int /\ m \in Int
      BY <1>1
    <3> QED
      BY <3>1, FS_Interval
  <2>2. S \subseteq 1..m
    BY <1>1
  <2> QED
    BY <2>1, <2>2, FS_Subset
<1>6. IsFiniteSet(R) /\ Cardinality(R) = n
  <2>1. /\ m + 1 \in Int /\ m + n \in Int
        /\ (IF m + 1 > m + n THEN 0 ELSE (m + n) - (m + 1) + 1) = n
    BY <1>1
  <2> QED
    BY <2>1, FS_Interval
<1> HIDE DEF S, T, R
<1>7. Cardinality(S \cup R) = Cardinality(S) + Cardinality(R) - Cardinality({})
  BY <1>4, <1>5, <1>6, FS_Union
<1>8. Cardinality({}) = 0 /\ Cardinality(S) \in Nat
  BY <1>5, FS_EmptySet, FS_CardinalityType
<1>9. Cardinality(T) = Cardinality(S) + n
  BY <1>1, <1>4, <1>6, <1>7, <1>8
<1>10. BlocksIn(aa) = Cardinality(S) /\ BlocksIn(aa \o bb) = Cardinality(T)
  BY DEF BlocksIn, S, T
<1> QED
  BY <1>1, <1>9, <1>10

LEMMA BlocksInFull ==
  ASSUME NEW bs \in Seq(Buffer), \A i \in DOMAIN bs : bs[i].valid
  PROVE  BlocksIn(bs) = Len(bs)
<1>1. {i \in DOMAIN bs : bs[i].valid} = 1..Len(bs) /\ Len(bs) \in Nat
  OBVIOUS
<1>2. Cardinality(1..Len(bs)) = Len(bs)
  <2>1. Len(bs) \in Int /\ (IF 1 > Len(bs) THEN 0 ELSE Len(bs) - 1 + 1) = Len(bs)
    BY <1>1
  <2> QED
    BY <2>1, FS_Interval
<1> QED
  BY <1>1, <1>2 DEF BlocksIn

\* Nothing brings a logger back once it has failed.
LEMMA HealthyBefore ==
  ASSUME StartInv, [Next]_vars, Healthy'
  PROVE  Healthy
<1>1. CASE Running /\ Step
  <2>1. wpc # "failed"
    <3>1. CASE Constructor
      BY <1>1, <3>1 DEF Constructor, SpawnThread, SpawnFails, AssignThread, AwaitLatch, StartInv,
                        Healthy
    <3>2. CASE Worker
      BY <1>1, <3>2 DEF Worker, WorkerStart, CheckDone, SeesRunning, WorkerExit, SeesDone,
           WaitForWork, TimeOut, Collect, DropExcess, WriteBuffer, Recycle, WorkerThrows,
           WorkerCrashes, Failing, Healthy
    <3>3. CASE \E p \in Producers : BeginPush(p) \/ Push(p)
      BY <1>1, <3>3 DEF BeginPush, Push, Healthy
    <3>4. CASE \E c \in Closers : CallWaitDone(c) \/ DoDone(c)
      BY <1>1, <3>4 DEF CallWaitDone, DoDone, StoreDone, NotifyDone, BeginJoin, JoinReleased,
                        EndJoin, Healthy
    <3> QED
      BY <1>1, <3>1, <3>2, <3>3, <3>4 DEF Step
  <2> QED
    BY <1>1, <2>1 DEF Healthy
<1>2. CASE UNCHANGED vars
  BY <1>2 DEF vars, Healthy, Running
<1> QED
  BY <1>1, <1>2 DEF Next, Terminated

\* Every block has an owner, told by place.
HeapInv ==
  /\ wpc \in {"unborn", "start"} => newBuffer1 = MovedFrom /\ newBuffer2 = MovedFrom
  /\ Healthy => heap = Owns(m_curBuffer) + Owns(m_nextBuffer) + Owns(newBuffer1)
                         + Owns(newBuffer2) + Len(m_buffers) + Len(buffersToWrite)

LEMMA HeapInit == Init => HeapInv
  BY DEF Init, HeapInv, Owns, Fresh, MovedFrom

LEMMA HeapPush ==
  ASSUME MemInv, HeapInv, Healthy, NEW p \in Producers, Push(p)
  PROVE  HeapInv'
<1> DEFINE t == pushed + 1
<1>1. /\ m_curBuffer \in Buffer /\ m_nextBuffer \in Buffer /\ m_buffers \in Seq(Buffer)
      /\ buffersToWrite \in Seq(Buffer) /\ t \in Message /\ m_curBuffer.valid
  BY DEF MemInv, TypeOK, BuffersTyped, ThreadsTyped, Message, BuffersUsable, Filled
<1>2. wpc' = wpc /\ UNCHANGED <<newBuffer1, newBuffer2, buffersToWrite>>
  BY DEF Push
<1>3. /\ heap = Owns(m_curBuffer) + Owns(m_nextBuffer) + Owns(newBuffer1) + Owns(newBuffer2)
                  + Len(m_buffers) + Len(buffersToWrite)
      /\ wpc' \in {"unborn", "start"} => newBuffer1' = MovedFrom /\ newBuffer2' = MovedFrom
      /\ Owns(newBuffer1') = Owns(newBuffer1) /\ Owns(newBuffer2') = Owns(newBuffer2)
      /\ Len(buffersToWrite') = Len(buffersToWrite)
  BY <1>2 DEF HeapInv
<1>4. /\ Owns(newBuffer1) \in Nat /\ Owns(newBuffer2) \in Nat /\ Owns(m_nextBuffer) \in Nat
      /\ Len(m_buffers) \in Nat /\ Len(buffersToWrite) \in Nat
  BY <1>1, OwnsType
<1> HIDE DEF t
<1>5. CASE /\ m_curBuffer' = push(m_curBuffer, t)
           /\ UNCHANGED <<m_nextBuffer, m_buffers, heap>>
  <2>1. m_curBuffer'.valid
    BY <1>1, <1>5, BlockOps
  <2> QED
    BY <1>1, <1>2, <1>5, <2>1, OwnsType DEF HeapInv
<1>6. CASE SwitchBuffer(t)
  <2>1. Fresh \in Buffer /\ Fresh.valid /\ ~MovedFrom.valid
    BY DEF Fresh, MovedFrom, Buffer
  <2>2. Len(m_buffers') = Len(m_buffers) + 1
    BY <1>1, <1>6 DEF SwitchBuffer, SaveCurrent
  <2>3. Owns(m_curBuffer) = 1 /\ Owns(MovedFrom) = 0
    BY <1>1, <2>1, OwnsType
  <2>4. PICK y \in Nat, z \in Nat, m \in Nat, w \in Nat :
          /\ y = Owns(newBuffer1) /\ z = Owns(newBuffer2)
          /\ m = Len(m_buffers) /\ w = Len(buffersToWrite)
    BY <1>4
  <2>5. Owns(m_curBuffer') = 1 /\ Owns(m_nextBuffer') = 0 /\ heap' = 1 + 0 + y + z + (m + 1) + w
    <3>1. CASE m_nextBuffer.valid
      <4>1. m_curBuffer' = push(m_nextBuffer, t) /\ m_nextBuffer' = MovedFrom /\ heap' = heap
        BY <1>6, <3>1 DEF SwitchBuffer
      <4>2. Owns(m_curBuffer') = 1 /\ Owns(m_nextBuffer) = 1 /\ Owns(m_nextBuffer') = 0
        BY <1>1, <2>3, <3>1, <4>1, BlockOps, OwnsType
      <4>3. 1 + 1 + y + z + m + w = 1 + 0 + y + z + (m + 1) + w
        OBVIOUS
      <4> QED
        BY <1>3, <2>3, <2>4, <4>1, <4>2, <4>3
    <3>2. CASE ~m_nextBuffer.valid
      <4>1. m_curBuffer' = push(Fresh, t) /\ m_nextBuffer' = m_nextBuffer /\ heap' = heap + 1
        BY <1>6, <3>2 DEF SwitchBuffer
      <4>2. Owns(m_curBuffer') = 1 /\ Owns(m_nextBuffer) = 0 /\ Owns(m_nextBuffer') = 0
        BY <1>1, <2>1, <3>2, <4>1, BlockOps, OwnsType
      <4>3. (1 + 0 + y + z + m + w) + 1 = 1 + 0 + y + z + (m + 1) + w
        OBVIOUS
      <4>4. heap = 1 + 0 + y + z + m + w
        BY <1>3, <2>3, <2>4, <4>2
      <4> QED
        BY <4>1, <4>2, <4>3, <4>4
    <3> QED
      BY <3>1, <3>2
  <2>6. heap' = Owns(m_curBuffer') + Owns(m_nextBuffer') + Owns(newBuffer1') + Owns(newBuffer2')
                  + Len(m_buffers') + Len(buffersToWrite')
    BY <1>3, <2>2, <2>4, <2>5
  <2> QED
    BY <1>3, <2>6 DEF HeapInv
<1> QED
  BY <1>5, <1>6 DEF Push, t

LEMMA HeapCollect ==
  ASSUME MemInv, HeapInv, Healthy, Collect
  PROVE  HeapInv'
<1>1. /\ m_curBuffer \in Buffer /\ m_nextBuffer \in Buffer /\ newBuffer1 \in Buffer
      /\ newBuffer2 \in Buffer /\ m_buffers \in Seq(Buffer) /\ m_curBuffer.valid
      /\ buffersToWrite = <<>> /\ newBuffer1.valid /\ wpc \in {"lock", "wait"}
  BY DEF MemInv, TypeOK, BuffersTyped, BuffersUsable, Filled, WorkerShape, Collect
<1>2. ~MovedFrom.valid /\ Owns(MovedFrom) = 0
  BY DEF MovedFrom, Owns
<1>3. /\ heap = Owns(m_curBuffer) + Owns(m_nextBuffer) + Owns(newBuffer1) + Owns(newBuffer2)
                  + Len(m_buffers) + Len(buffersToWrite)
      /\ Owns(m_nextBuffer) \in Nat /\ Owns(newBuffer2) \in Nat /\ Len(m_buffers) \in Nat
      /\ Owns(m_curBuffer) = 1 /\ Owns(newBuffer1) = 1 /\ Len(buffersToWrite) = 0
  BY <1>1, OwnsType DEF HeapInv
<1>4. Owns(m_nextBuffer') + Owns(newBuffer2') = Owns(m_nextBuffer) + Owns(newBuffer2)
      /\ Owns(m_nextBuffer') \in Nat /\ Owns(newBuffer2') \in Nat
  <2>1. CASE m_nextBuffer.valid
    BY <2>1, OwnsType DEF Collect, RefillNext
  <2>2. CASE ~m_nextBuffer.valid
    <3>1. m_nextBuffer' = newBuffer2 /\ newBuffer2' = MovedFrom
      BY <2>2 DEF Collect, RefillNext
    <3>2. Owns(MovedFrom) = 0 /\ Owns(m_nextBuffer) = 0
      BY <1>2, <2>2, OwnsType
    <3>3. Owns(m_nextBuffer') = Owns(newBuffer2) /\ Owns(newBuffer2') = 0
      BY <3>1, <3>2
    <3>4. Owns(newBuffer2) \in Nat
      BY <1>3
    <3> QED
      BY <3>2, <3>3, <3>4
  <2> QED
    BY <2>1, <2>2
<1>5. /\ m_buffers' = <<>> /\ buffersToWrite' = NextBatch /\ heap' = heap
      /\ wpc' \notin {"unborn", "start"}
  BY <1>1 DEF Collect
<1>6. Owns(newBuffer1') + Len(NextBatch) = 1 + Len(m_buffers) /\ Owns(m_curBuffer') = 1
      /\ Owns(newBuffer1') \in Nat /\ Len(NextBatch) \in Nat
  <2>1. CASE TakesCurrent
    <3>1. m_curBuffer' = newBuffer1 /\ newBuffer1' = MovedFrom
      BY <2>1 DEF Collect
    <3>2. Len(NextBatch) = Len(m_buffers) + 1
      BY <1>1, <2>1 DEF NextBatch
    <3> QED
      BY <1>2, <1>3, <3>1, <3>2
  <2>2. CASE ~TakesCurrent
    <3>1. m_curBuffer' = m_curBuffer /\ newBuffer1' = newBuffer1 /\ NextBatch = m_buffers
      BY <2>2 DEF Collect, NextBatch
    <3> QED
      BY <1>3, <3>1
  <2> QED
    BY <2>1, <2>2
<1>7. Len(m_buffers') = 0
  BY <1>5
<1>8. heap' = Owns(m_curBuffer') + Owns(m_nextBuffer') + Owns(newBuffer1') + Owns(newBuffer2')
                + Len(m_buffers') + Len(buffersToWrite')
  <2>1. PICK x \in Nat, z \in Nat, m \in Nat :
          x = Owns(m_nextBuffer) /\ z = Owns(newBuffer2) /\ m = Len(m_buffers)
    BY <1>3
  <2>2. PICK xx \in Nat, yy \in Nat, zz \in Nat, w \in Nat :
          /\ xx = Owns(m_nextBuffer') /\ yy = Owns(newBuffer1') /\ zz = Owns(newBuffer2')
          /\ w = Len(NextBatch)
    BY <1>4, <1>6
  <2>3. xx + zz = x + z /\ yy + w = 1 + m
    BY <1>4, <1>6, <2>1, <2>2
  <2>4. 1 + x + 1 + z + m + 0 = 1 + xx + yy + zz + 0 + w
    BY <2>3
  <2>5. heap = 1 + x + 1 + z + m + 0
    BY <1>3, <2>1
  <2> QED
    BY <1>5, <1>6, <1>7, <2>2, <2>4, <2>5
<1> QED
  BY <1>5, <1>8 DEF HeapInv

LEMMA HeapDrop ==
  ASSUME MemInv, HeapInv, Healthy, DropExcess
  PROVE  HeapInv'
<1>1. /\ buffersToWrite \in Seq(Buffer) /\ \A i \in DOMAIN buffersToWrite : buffersToWrite[i].valid
      /\ m_buffers \in Seq(Buffer) /\ wpc' = "write"
      /\ UNCHANGED <<m_curBuffer, m_nextBuffer, m_buffers, newBuffer1, newBuffer2>>
  BY DEF MemInv, TypeOK, BuffersTyped, BuffersUsable, Filled, DropExcess
<1>2. heap = Owns(m_curBuffer) + Owns(m_nextBuffer) + Owns(newBuffer1) + Owns(newBuffer2)
               + Len(m_buffers) + Len(buffersToWrite)
  BY DEF HeapInv
<1>3. CASE Len(buffersToWrite) > DropLimit
  <2> DEFINE erased == SubSeq(buffersToWrite, 3, Len(buffersToWrite))
             n == Len(buffersToWrite)
  <2>1. n \in Nat /\ n > 2
    BY <1>1, <1>3, ConstantsAssumption
  <2>2. 3 \in Int /\ n \in Int /\ \A i \in 3..n : buffersToWrite[i] \in Buffer
    BY <1>1, <2>1
  <2>3. /\ erased \in Seq(Buffer) /\ Len(erased) = n - 2
        /\ \A i \in 1..(n - 2) : erased[i] = buffersToWrite[2 + i]
    <3>1. /\ SubSeq(buffersToWrite, 3, n) \in Seq(Buffer)
          /\ Len(SubSeq(buffersToWrite, 3, n)) = IF 3 <= n THEN n - 3 + 1 ELSE 0
          /\ \A i \in 1..(n - 3 + 1) : SubSeq(buffersToWrite, 3, n)[i] = buffersToWrite[3 + i - 1]
      BY <2>2, SubSeqProperties
    <3>2. (IF 3 <= n THEN n - 3 + 1 ELSE 0) = n - 2
          /\ \A i \in 1..(n - 2) : i \in 1..(n - 3 + 1) /\ 3 + i - 1 = 2 + i
      BY <2>1
    <3> QED
      BY <3>1, <3>2
  <2>4. \A i \in DOMAIN erased : erased[i].valid
    <3>1. \A i \in 1..(n - 2) : 2 + i \in DOMAIN buffersToWrite
      BY <1>1, <2>1
    <3> HIDE DEF erased
    <3>2. DOMAIN erased = 1..(n - 2)
      BY <2>3
    <3> QED
      BY <1>1, <2>3, <3>1, <3>2
  <2> HIDE DEF erased
  <2>5. BlocksIn(erased) = n - 2
    BY <2>3, <2>4, BlocksInFull
  <2>6. buffersToWrite' = SubSeq(buffersToWrite, 1, 2) /\ heap' = heap - BlocksIn(erased)
    BY <1>3 DEF DropExcess, erased
  <2>7. Len(buffersToWrite') = 2
    BY <1>1, <2>1, <2>6
  <2> HIDE DEF n
  <2>8. heap' = heap - (n - 2) /\ Len(buffersToWrite) = n
    BY <2>5, <2>6 DEF n
  <2>9. Owns(m_curBuffer) + Owns(m_nextBuffer) + Owns(newBuffer1) + Owns(newBuffer2)
          + Len(m_buffers) \in Nat
    BY <1>1, OwnsType
  <2>10. heap' = Owns(m_curBuffer) + Owns(m_nextBuffer) + Owns(newBuffer1) + Owns(newBuffer2)
                   + Len(m_buffers) + Len(buffersToWrite')
    BY <1>2, <2>1, <2>7, <2>8, <2>9
  <2> QED
    BY <1>1, <2>10 DEF HeapInv
<1>4. CASE ~(Len(buffersToWrite) > DropLimit)
  <2>1. UNCHANGED <<heap, buffersToWrite>>
    BY <1>4 DEF DropExcess
  <2> QED
    BY <1>1, <1>2, <2>1 DEF HeapInv
<1> QED
  BY <1>3, <1>4

LEMMA HeapRecycle ==
  ASSUME MemInv, HeapInv, Healthy, Recycle
  PROVE  HeapInv'
<1> DEFINE batch0 == Grown(buffersToWrite)
           batch1 == IF newBuffer1.valid THEN batch0 ELSE FrontOf(batch0)
           batch2 == IF newBuffer2.valid THEN batch1 ELSE FrontOf(batch1)
<1>1. /\ m_curBuffer \in Buffer /\ m_nextBuffer \in Buffer /\ m_buffers \in Seq(Buffer)
      /\ buffersToWrite \in Seq(Buffer) /\ newBuffer1 \in Buffer /\ newBuffer2 \in Buffer
      /\ \A i \in DOMAIN buffersToWrite : buffersToWrite[i].valid
      /\ Fresh \in Buffer /\ Fresh.valid /\ 1 \in Message
  BY DEF MemInv, TypeOK, BuffersTyped, BuffersUsable, Filled, Fresh, Buffer, Message
<1>2. /\ batch0 \in Seq(Buffer) /\ Len(batch0) >= 2
      /\ \A i \in DOMAIN batch0 : batch0[i].valid
  BY <1>1, GrownBlocks
<1> HIDE DEF batch0
<1>3. /\ batch1 \in Seq(Buffer) /\ Len(batch1) = Len(batch0) - 1 + Owns(newBuffer1)
      /\ Len(batch1) >= 1 /\ \A i \in DOMAIN batch1 : batch1[i].valid
  <2>1. Len(batch0) \in Nat /\ Len(batch0) >= 1
    BY <1>2
  <2>2. /\ FrontOf(batch0) \in Seq(Buffer) /\ Len(FrontOf(batch0)) = Len(batch0) - 1
        /\ \A i \in DOMAIN FrontOf(batch0) : FrontOf(batch0)[i].valid
    BY <1>2, <2>1, FrontBlocks
  <2>3. CASE newBuffer1.valid
    <3>1. batch1 = batch0 /\ Owns(newBuffer1) = 1
      BY <2>3, OwnsType
    <3> QED
      BY <1>2, <2>1, <3>1
  <2>4. CASE ~newBuffer1.valid
    <3>1. batch1 = FrontOf(batch0) /\ Owns(newBuffer1) = 0
      BY <2>4, OwnsType
    <3> HIDE DEF batch1
    <3> QED
      BY <1>2, <2>1, <2>2, <3>1
  <2> QED
    BY <2>3, <2>4
<1> HIDE DEF batch1
<1>4. /\ batch2 \in Seq(Buffer) /\ Len(batch2) = Len(batch1) - 1 + Owns(newBuffer2)
      /\ \A i \in DOMAIN batch2 : batch2[i].valid
  <2>1. Len(batch1) \in Nat
    BY <1>3
  <2>2. /\ FrontOf(batch1) \in Seq(Buffer) /\ Len(FrontOf(batch1)) = Len(batch1) - 1
        /\ \A i \in DOMAIN FrontOf(batch1) : FrontOf(batch1)[i].valid
    BY <1>3, FrontBlocks
  <2>3. CASE newBuffer2.valid
    <3>1. batch2 = batch1 /\ Owns(newBuffer2) = 1
      BY <2>3, OwnsType
    <3> QED
      BY <1>3, <2>1, <3>1
  <2>4. CASE ~newBuffer2.valid
    <3>1. batch2 = FrontOf(batch1) /\ Owns(newBuffer2) = 0
      BY <2>4, OwnsType
    <3> HIDE DEF batch2
    <3> QED
      BY <2>1, <2>2, <3>1
  <2> QED
    BY <2>3, <2>4
<1> HIDE DEF batch2
<1>5. BlocksIn(batch2) = Len(batch2)
  BY <1>4, BlocksInFull
<1>6. /\ newBuffer1' = IF newBuffer1.valid THEN newBuffer1 ELSE reset(batch0[Len(batch0)])
      /\ newBuffer2' = IF newBuffer2.valid THEN newBuffer2 ELSE reset(batch1[Len(batch1)])
      /\ heap' = heap + (Len(batch0) - Len(buffersToWrite)) - BlocksIn(batch2)
      /\ buffersToWrite' = <<>> /\ wpc' = "check"
      /\ UNCHANGED <<m_curBuffer, m_nextBuffer, m_buffers>>
  BY DEF Recycle, batch0, batch1, batch2
<1>7. Owns(newBuffer1') = 1 /\ Owns(newBuffer2') = 1
  <2>1. /\ batch0[Len(batch0)] \in Buffer /\ batch0[Len(batch0)].valid
        /\ batch1[Len(batch1)] \in Buffer /\ batch1[Len(batch1)].valid
    BY <1>2, <1>3
  <2>2. newBuffer1'.valid /\ newBuffer2'.valid
    BY <1>1, <1>6, <2>1, BlockOps
  <2> QED
    BY <2>2, OwnsType
<1>8. PICK c \in Nat, x \in Nat, y \in Nat, z \in Nat, m \in Nat, w \in Nat :
        /\ c = Owns(m_curBuffer) /\ x = Owns(m_nextBuffer)
        /\ y = Owns(newBuffer1) /\ z = Owns(newBuffer2)
        /\ m = Len(m_buffers) /\ w = Len(buffersToWrite)
  <2>1. /\ Owns(m_curBuffer) \in Nat /\ Owns(m_nextBuffer) \in Nat /\ Owns(newBuffer1) \in Nat
        /\ Owns(newBuffer2) \in Nat
    BY OwnsType
  <2>2. Len(m_buffers) \in Nat /\ Len(buffersToWrite) \in Nat
    BY <1>1
  <2> QED
    BY <2>1, <2>2
<1>9. PICK n \in Nat, n1 \in Nat, n2 \in Nat :
         n = Len(batch0) /\ n1 = Len(batch1) /\ n2 = Len(batch2)
  <2>1. Len(batch0) \in Nat /\ Len(batch1) \in Nat /\ Len(batch2) \in Nat
    BY <1>2, <1>3, <1>4
  <2> QED
    BY <2>1
<1>10. heap' = c + x + 1 + 1 + m + 0
  <2>1. n1 = n - 1 + y /\ n2 = n1 - 1 + z
    BY <1>3, <1>4, <1>8, <1>9
  <2>2. (c + x + y + z + m + w) + (n - w) - n2 = c + x + 1 + 1 + m + 0
    BY <2>1
  <2>3. heap = c + x + y + z + m + w
    BY <1>8 DEF HeapInv
  <2> QED
    BY <1>5, <1>6, <1>8, <1>9, <2>2, <2>3
<1>11. Len(buffersToWrite') = 0 /\ Owns(m_curBuffer') = Owns(m_curBuffer)
       /\ Owns(m_nextBuffer') = Owns(m_nextBuffer) /\ Len(m_buffers') = Len(m_buffers)
  BY <1>6
<1> QED
  <2>1. heap' = Owns(m_curBuffer') + Owns(m_nextBuffer') + Owns(newBuffer1') + Owns(newBuffer2')
                  + Len(m_buffers') + Len(buffersToWrite')
    BY <1>7, <1>8, <1>10, <1>11
  <2> QED
    BY <1>6, <2>1 DEF HeapInv

\* The steps that leave the blocks where they are, or end the healthy life.
LEMMA HeapOther ==
  ASSUME HeapInv, Healthy' => Healthy,
         Healthy' => UNCHANGED <<m_curBuffer, m_nextBuffer, m_buffers, buffersToWrite, heap>>,
         wpc' \in {"unborn", "start"} => wpc \in {"unborn", "start"},
         Healthy' \/ wpc' \in {"unborn", "start"} => UNCHANGED <<newBuffer1, newBuffer2>>
  PROVE  HeapInv'
  BY DEF HeapInv

LEMMA HeapStep ==
  ASSUME MemInv, StartInv, HeapInv, [Next]_vars
  PROVE  HeapInv'
<1>1. Healthy' => Healthy
  BY HealthyBefore
<1>2. CASE UNCHANGED <<memVars, wpc>>
  BY <1>1, <1>2, HeapOther DEF memVars
<1>3. CASE Constructor
  <2>1. CASE SpawnThread
    <3>1. /\ UNCHANGED <<m_curBuffer, m_nextBuffer, m_buffers, buffersToWrite, heap>>
          /\ UNCHANGED <<newBuffer1, newBuffer2>> /\ wpc = "unborn"
      BY <2>1 DEF SpawnThread, memVars, StartInv
    <3> QED
      BY <1>1, <3>1, HeapOther
  <2>2. CASE SpawnFails \/ AssignThread \/ AwaitLatch
    BY <1>2, <2>2 DEF SpawnFails, AssignThread, AwaitLatch
  <2> QED
    BY <1>3, <2>1, <2>2 DEF Constructor
<1>4. CASE Running /\ Worker
  <2>1. wpc # "failed" => Healthy
    BY <1>4 DEF Healthy
  <2>2. CASE WorkerStart
    <3>1. /\ Healthy /\ newBuffer1 = MovedFrom /\ newBuffer2 = MovedFrom
          /\ heap = Owns(m_curBuffer) + Owns(m_nextBuffer) + Owns(newBuffer1) + Owns(newBuffer2)
                      + Len(m_buffers) + Len(buffersToWrite)
      BY <2>1, <2>2 DEF WorkerStart, HeapInv
    <3>2. Owns(MovedFrom) = 0 /\ Owns(Fresh) = 1
      BY DEF Owns, Fresh, MovedFrom
    <3>3. /\ newBuffer1' = Fresh /\ newBuffer2' = Fresh /\ heap' = heap + 2 /\ wpc' = "check"
          /\ UNCHANGED <<m_curBuffer, m_nextBuffer, m_buffers, buffersToWrite>>
      BY <2>2 DEF WorkerStart
    <3>4. PICK c \in Nat, x \in Nat, m \in Nat, w \in Nat :
            /\ c = Owns(m_curBuffer) /\ x = Owns(m_nextBuffer)
            /\ m = Len(m_buffers) /\ w = Len(buffersToWrite)
      BY OwnsType DEF MemInv, TypeOK, BuffersTyped
    <3>5. (c + x + 0 + 0 + m + w) + 2 = c + x + 1 + 1 + m + w
      OBVIOUS
    <3>6. heap' = c + x + 1 + 1 + m + w
      BY <3>1, <3>2, <3>3, <3>4, <3>5
    <3>7. heap' = Owns(m_curBuffer') + Owns(m_nextBuffer') + Owns(newBuffer1') + Owns(newBuffer2')
                    + Len(m_buffers') + Len(buffersToWrite')
      BY <3>2, <3>3, <3>4, <3>6
    <3> QED
      BY <3>3, <3>7 DEF HeapInv
  <2>3. CASE CheckDone \/ WaitForWork \/ TimeOut
    <3>1. /\ UNCHANGED <<m_curBuffer, m_nextBuffer, m_buffers, buffersToWrite, heap>>
          /\ UNCHANGED <<newBuffer1, newBuffer2>>
          /\ wpc' \in {"unborn", "start"} => wpc \in {"unborn", "start"}
      BY <2>3 DEF CheckDone, WaitForWork, TimeOut, memVars
    <3> QED
      BY <1>1, <3>1, HeapOther
  <2>4. CASE WorkerExit
    <3>1. /\ Healthy
          /\ heap = Owns(m_curBuffer) + Owns(m_nextBuffer) + Owns(newBuffer1) + Owns(newBuffer2)
                      + Len(m_buffers) + Len(buffersToWrite)
      BY <2>1, <2>4 DEF WorkerExit, SeesDone, HeapInv
    <3>2. Owns(MovedFrom) = 0
      BY DEF Owns, MovedFrom
    <3>3. /\ newBuffer1' = MovedFrom /\ newBuffer2' = MovedFrom /\ wpc' = "exited"
          /\ heap' = heap - BlocksIn(<<newBuffer1, newBuffer2>>)
          /\ UNCHANGED <<m_curBuffer, m_nextBuffer, m_buffers, buffersToWrite>>
      BY <2>4 DEF WorkerExit
    <3>4. PICK c \in Nat, x \in Nat, y \in Nat, z \in Nat, m \in Nat, w \in Nat :
            /\ c = Owns(m_curBuffer) /\ x = Owns(m_nextBuffer)
            /\ y = Owns(newBuffer1) /\ z = Owns(newBuffer2)
            /\ m = Len(m_buffers) /\ w = Len(buffersToWrite)
      <4>1. /\ Owns(m_curBuffer) \in Nat /\ Owns(m_nextBuffer) \in Nat
            /\ Owns(newBuffer1) \in Nat /\ Owns(newBuffer2) \in Nat
        BY OwnsType
      <4>2. Len(m_buffers) \in Nat /\ Len(buffersToWrite) \in Nat
        BY DEF MemInv, TypeOK, BuffersTyped
      <4> QED
        BY <4>1, <4>2
    <3>5. BlocksIn(<<newBuffer1, newBuffer2>>) = y + z
      BY <3>4, BlocksInPair DEF MemInv, TypeOK, BuffersTyped
    <3>6. (c + x + y + z + m + w) - (y + z) = c + x + 0 + 0 + m + w
      OBVIOUS
    <3>7. heap' = c + x + 0 + 0 + m + w
      BY <3>1, <3>3, <3>4, <3>5, <3>6
    <3>8. heap' = Owns(m_curBuffer') + Owns(m_nextBuffer') + Owns(newBuffer1') + Owns(newBuffer2')
                    + Len(m_buffers') + Len(buffersToWrite')
      BY <3>2, <3>3, <3>4, <3>7
    <3> QED
      BY <3>3, <3>8 DEF HeapInv
  <2>5. CASE Collect
    BY <2>1, <2>5, HeapCollect DEF Collect
  <2>6. CASE DropExcess
    BY <2>1, <2>6, HeapDrop DEF DropExcess
  <2>7. CASE WriteBuffer
    <3>1. /\ UNCHANGED <<m_curBuffer, m_nextBuffer, m_buffers, buffersToWrite, heap>>
          /\ UNCHANGED <<newBuffer1, newBuffer2>> /\ wpc' = wpc
      BY <2>7 DEF WriteBuffer
    <3> QED
      BY <1>1, <3>1, HeapOther
  <2>8. CASE Recycle
    BY <2>1, <2>8, HeapRecycle DEF Recycle
  <2>9. CASE WorkerThrows
    <3>1. ~Healthy' /\ wpc' = "failed"
      BY <2>9 DEF WorkerThrows, Healthy
    <3> QED
      BY <3>1, HeapOther
  <2>10. CASE WorkerCrashes
    BY <1>2, <2>10 DEF WorkerCrashes
  <2> QED
    BY <1>4, <2>2, <2>3, <2>4, <2>5, <2>6, <2>7, <2>8, <2>9, <2>10 DEF Worker
<1>5. ASSUME NEW p \in Producers, BeginPush(p) \/ Push(p) PROVE HeapInv'
  <2>1. CASE BeginPush(p)
    BY <1>2, <2>1 DEF BeginPush
  <2>2. CASE Push(p) /\ Healthy
    BY <2>2, HeapPush
  <2>3. CASE Push(p) /\ ~Healthy
    <3>1. ~Healthy' /\ wpc' = wpc /\ UNCHANGED <<newBuffer1, newBuffer2>>
      BY <1>1, <2>3 DEF Push
    <3> QED
      BY <3>1, HeapOther
  <2> QED
    BY <1>5, <2>1, <2>2, <2>3
<1>6. ASSUME NEW c \in Closers, CallWaitDone(c) \/ DoDone(c) PROVE HeapInv'
  BY <1>2, <1>6 DEF CallWaitDone, DoDone, StoreDone, NotifyDone, BeginJoin, JoinReleased, EndJoin
<1>7. CASE UNCHANGED vars
  BY <1>2, <1>7 DEF vars
<1> QED
  BY <1>3, <1>4, <1>5, <1>6, <1>7 DEF Next, Step, Terminated

\* Every block that was allocated and not deleted has exactly one owner while
\* the worker lives: no move overwrites a block, none is leaked.
THEOREM NoBlockLeaks == Spec => []HeapAccounted
<1>1. Init => MemInv /\ StartInv /\ HeapInv
  BY MemInit, StartInit, HeapInit
<1>2. MemInv /\ StartInv /\ HeapInv /\ [Next]_vars => (MemInv /\ StartInv /\ HeapInv)'
  BY MemStepParts, ThreadsStep, StartStep, HeapStep DEF MemInv, TypeOK
<1>3. MemInv /\ HeapInv => HeapAccounted
  <2> SUFFICES ASSUME MemInv, HeapInv, Healthy
               PROVE  heap = BlocksIn(<<m_curBuffer, m_nextBuffer, newBuffer1, newBuffer2>>
                                        \o m_buffers \o buffersToWrite)
    BY DEF HeapAccounted
  <2> DEFINE four == <<m_curBuffer, m_nextBuffer, newBuffer1, newBuffer2>>
             five == four \o m_buffers
  <2>1. /\ m_curBuffer \in Buffer /\ m_nextBuffer \in Buffer /\ newBuffer1 \in Buffer
        /\ newBuffer2 \in Buffer /\ m_buffers \in Seq(Buffer) /\ buffersToWrite \in Seq(Buffer)
        /\ \A i \in DOMAIN m_buffers : m_buffers[i].valid
        /\ \A i \in DOMAIN buffersToWrite : buffersToWrite[i].valid
    BY DEF MemInv, TypeOK, BuffersTyped, BuffersUsable, Filled
  <2>2. four \in Seq(Buffer)
    BY <2>1
  <2>3. BlocksIn(four) = Owns(m_curBuffer) + Owns(m_nextBuffer) + Owns(newBuffer1)
                           + Owns(newBuffer2)
    BY <2>1, BlocksInFour
  <2> HIDE DEF four
  <2>4. five \in Seq(Buffer) /\ BlocksIn(five) = BlocksIn(four) + Len(m_buffers)
    BY <2>1, <2>2, BlocksInConcat
  <2> HIDE DEF five
  <2>5. BlocksIn(five \o buffersToWrite) = BlocksIn(five) + Len(buffersToWrite)
    BY <2>1, <2>4, BlocksInConcat
  <2>6. heap = BlocksIn(five \o buffersToWrite)
    BY <2>4, <2>5, <2>3 DEF HeapInv
  <2> QED
    BY <2>6 DEF five, four
<1> QED
  BY <1>1, <1>2, <1>3, PTL DEF Spec

-----------------------------------------------------------------------------
(***************************************************************************)
(* Who answers for the shutdown.                                           *)
(***************************************************************************)
\* The closers that have stored m_done and have still to join, or to see that
\* somebody else has.
Stopping == \E c \in Closers : dpc[c] \in {"notify", "join", "joining"}

\* Once m_done is set, the worker has finished or some closer is on its way to
\* join it: a closer that finds m_done set, or that pthread_join refuses,
\* leaves the join to another one.
StopInv ==
  /\ \A c \in Closers : dpc[c] # "idle" => cpc = "returned"
  /\ cpc = "threw" => wpc = "unborn"
  /\ m_thread = "joined" => wpc \in {"exited", "failed"}
  /\ Running /\ m_done /\ cpc # "threw" => wpc \in {"exited", "failed"} \/ Stopping

LEMMA StopInit == Init => StopInv
  BY DEF Init, StopInv

\* A closer moves on: it stays on the way to the join, or the worker is out.
LEMMA StopCloser ==
  ASSUME StartInv, StopInv, Running, NEW c \in Closers, CallWaitDone(c) \/ DoDone(c)
  PROVE  StopInv'
<1> USE DEF StartInv, ThreadsTyped, startVars, stopVars, pushVars
<1>1. CASE CallWaitDone(c)
  <2>1. /\ cpc = "returned" /\ dpc[c] = "idle"
        /\ dpc' = [dpc EXCEPT ![c] = IF m_done THEN "returned" ELSE "store"]
        /\ UNCHANGED <<startVars, m_done, wpc, process>>
    BY <1>1 DEF CallWaitDone
  <2>2. Stopping => Stopping'
    BY <2>1 DEF Stopping
  <2> QED
    BY <2>1, <2>2 DEF StopInv, Running
<1>2. CASE StoreDone(c)
  <2>1. dpc[c] = "store" /\ dpc' = [dpc EXCEPT ![c] = "notify"] /\ UNCHANGED <<startVars, wpc>>
    BY <1>2 DEF StoreDone
  <2>2. Stopping'
    BY <2>1 DEF Stopping
  <2> QED
    BY <2>1, <2>2 DEF StopInv
<1>3. CASE NotifyDone(c)
  <2>1. dpc[c] = "notify" /\ dpc' = [dpc EXCEPT ![c] = "join"] /\ UNCHANGED <<startVars, wpc>>
    BY <1>3 DEF NotifyDone
  <2>2. Stopping'
    BY <2>1 DEF Stopping
  <2> QED
    BY <2>1, <2>2 DEF StopInv
<1>4. CASE BeginJoin(c)
  <2>1. /\ dpc[c] = "join" /\ UNCHANGED <<startVars, m_done, wpc, process>>
        /\ dpc' = [dpc EXCEPT ![c] = IF m_thread = "joinable" THEN AfterJoinable(c) ELSE "returned"]
    BY <1>4 DEF BeginJoin
  <2>2. cpc = "returned" /\ m_thread # "null"
    BY <2>1 DEF StopInv
  <2>3. CASE m_thread = "joinable" /\ Joining
    <3>1. PICK d \in Closers : dpc[d] = "joining"
      BY <2>3 DEF Joining
    <3>2. d # c /\ dpc'[d] = "joining"
      BY <2>1, <3>1
    <3>3. Stopping'
      BY <3>2 DEF Stopping
    <3> QED
      BY <2>1, <2>2, <3>3 DEF StopInv
  <2>4. CASE m_thread = "joinable" /\ ~Joining
    <3>1. dpc'[c] = "joining"
      BY <2>1, <2>4 DEF AfterJoinable
    <3>2. Stopping'
      BY <3>1 DEF Stopping
    <3> QED
      BY <2>1, <2>2, <3>2 DEF StopInv
  <2>5. CASE m_thread = "joined"
    BY <2>1, <2>2, <2>5 DEF StopInv
  <2> QED
    BY <2>2, <2>3, <2>4, <2>5
<1>5. CASE JoinReleased(c)
  BY <1>5 DEF JoinReleased, StopInv, Running
<1>6. CASE EndJoin(c)
  <2>1. /\ dpc[c] = "joining" /\ wpc \in {"exited", "failed"} /\ wpc' = wpc /\ cpc' = cpc
        /\ dpc' = [dpc EXCEPT ![c] = "returned"]
    BY <1>6 DEF EndJoin
  <2> QED
    BY <2>1 DEF StopInv
<1> QED
  BY <1>1, <1>2, <1>3, <1>4, <1>5, <1>6 DEF DoDone

LEMMA StopStep ==
  ASSUME StartInv, StopInv, [Next]_vars
  PROVE  StopInv'
<1> USE DEF startVars, stopVars, pushVars
<1>1. CASE Running /\ Constructor
  <2>1. CASE SpawnThread
    BY <2>1 DEF SpawnThread, StopInv, StartInv, Running, Stopping
  <2>2. CASE SpawnFails
    BY <2>2 DEF SpawnFails, StopInv, StartInv
  <2>3. CASE AssignThread \/ AwaitLatch
    BY <2>3 DEF AssignThread, AwaitLatch, StopInv, Running, Stopping
  <2> QED
    BY <1>1, <2>1, <2>2, <2>3 DEF Constructor
<1>2. CASE Running /\ Worker
  <2>1. UNCHANGED <<startVars, stopVars>> \/ (UNCHANGED <<stopVars, m_thread, cpc>>)
    BY <1>2 DEF Worker, WorkerStart, CheckDone, WorkerExit, WaitForWork, TimeOut, Collect, DropExcess,
       WriteBuffer, Recycle, WorkerThrows, WorkerCrashes
  <2>2. /\ wpc \notin {"unborn", "exited", "failed"} \/ wpc' = wpc
        /\ wpc = "unborn" => wpc' = wpc
    BY <1>2 DEF Worker, WorkerStart, CheckDone, SeesRunning, WorkerExit, SeesDone, WaitForWork, TimeOut,
       Collect, DropExcess, WriteBuffer, Recycle, WorkerThrows, WorkerCrashes, Failing
  <2> QED
    BY <1>2, <2>1, <2>2 DEF StopInv, Running, Stopping
<1>3. ASSUME NEW p \in Producers, BeginPush(p) \/ Push(p), Running PROVE StopInv'
  <2>1. UNCHANGED <<startVars, stopVars, wpc>>
    BY <1>3 DEF BeginPush, Push
  <2> QED
    BY <1>3, <2>1 DEF StopInv, Running, Stopping
<1>4. ASSUME NEW c \in Closers, CallWaitDone(c) \/ DoDone(c), Running PROVE StopInv'
  BY <1>4, StopCloser
<1>5. CASE UNCHANGED vars
  BY <1>5 DEF vars, StopInv, Running, Stopping
<1> QED
  BY <1>1, <1>2, <1>3, <1>4, <1>5 DEF Next, Step, Terminated

\* When the last of the threads that shut the logger down has left waitDone(),
\* the worker is out: the closers that return early, because m_done was set or
\* because the join was refused, rely on one that joins.
THEOREM LastCallJoins == Spec => []LastCallStops
<1>1. Init => StartInv /\ StopInv
  BY StartInit, StopInit
<1>2. StartInv /\ StopInv /\ [Next]_vars => (StartInv /\ StopInv)'
  BY StartStep, StopStep
<1>3. StartInv /\ StopInv => LastCallStops
  <2> SUFFICES ASSUME StopInv, Running, m_done,
                      \A c \in Closers : dpc[c] \in {"idle", "returned", "threw"}
               PROVE  wpc \in {"unborn", "exited", "failed"}
    BY DEF LastCallStops
  <2>1. ~Stopping
    BY DEF Stopping
  <2> QED
    BY <2>1 DEF StopInv
<1> QED
  BY <1>1, <1>2, <1>3, PTL DEF Spec

\* Every variable keeps its type, in every interleaving.
THEOREM TypesKept == Spec => []TypeOK
<1>1. TypeOK /\ BuffersUsable => TypeOK
  OBVIOUS
<1> QED
  BY <1>1, MemorySafety, PTL

-----------------------------------------------------------------------------
(***************************************************************************)
(* The order and the fate of the messages.                                 *)
(***************************************************************************)

\* The messages of a sequence of buffers, in one sequence.
Flat(bs) == FlattenSeq([i \in DOMAIN bs |-> bs[i].msgs])

\* The backlog in two parts: what the worker has taken and not yet written,
\* and what waits in the queue and in the current buffer.
Remaining == SubSeq(buffersToWrite, written + 1, Len(buffersToWrite))
Taken     == Flat(Remaining)
Waiting   == Flat(m_buffers \o <<m_curBuffer>>)

Elems(s) == {s[i] : i \in DOMAIN s}

\* The messages of s ascend; those of t are greater than all of s.
Ascending(s) == \A i, j \in DOMAIN s : i < j /\ s[j] # Notice => s[i] < s[j]
Before(s, t) == \A i \in DOMAIN s, j \in DOMAIN t : t[j] # Notice => s[i] < t[j]

\* Position i of the file holds a notice that accounts for t.
Announces(i, t) ==
  /\ output[i] = Notice
  /\ \A j \in 1..(i - 1) : output[j] < t
  /\ \A j \in (i + 2 * SIZE + 1)..Len(output) : output[j] # Notice => output[j] > t

\* What is still to be written behind the notice stays within two buffers, or
\* is newer than t.
Pending(i, t) ==
  /\ \A m \in Elems(Waiting) : m > t
  /\ \/ \A m \in Elems(Taken) : m > t
     \/ wpc = "write" /\ Len(output) + Len(Taken) <= i + 2 * SIZE

\* What holds while the worker is alive.
StreamInv ==
  /\ Ascending(output \o (Taken \o Waiting))
  /\ InFile \cup Elems(Taken \o Waiting) \cup dropped = 1..pushed
  /\ dropped \cap (InFile \cup Elems(Taken \o Waiting)) = {}
  /\ \A t \in dropped : \E i \in DOMAIN output : Announces(i, t) /\ Pending(i, t)
  /\ wpc = "exited" => flushed = Len(output)

OrderInv ==
  /\ Ascending(output)
  /\ \A t \in dropped : \E i \in DOMAIN output : Announces(i, t)
  /\ Healthy => StreamInv

-----------------------------------------------------------------------------
(***************************************************************************)
(* Sequences of messages and notices.                                      *)
(***************************************************************************)
LEMMA ConcatParts ==
  ASSUME NEW S, NEW s \in Seq(S), NEW t \in Seq(S)
  PROVE  /\ Len(s) \in Nat /\ Len(t) \in Nat
         /\ s \o t \in Seq(S)
         /\ DOMAIN s = 1..Len(s) /\ DOMAIN t = 1..Len(t)
         /\ DOMAIN (s \o t) = 1..(Len(s) + Len(t))
         /\ \A i \in 1..Len(s) : (s \o t)[i] = s[i]
         /\ \A i \in 1..Len(t) : (s \o t)[Len(s) + i] = t[i]
  OBVIOUS

\* Every position of a concatenation is one of its parts.
LEMMA ConcatCases ==
  ASSUME NEW m \in Nat, NEW n \in Nat, NEW i \in 1..(m + n)
  PROVE  i \in 1..m \/ \E k \in 1..n : i = m + k
<1>1. CASE i <= m
  BY <1>1
<1>2. CASE ~(i <= m)
  <2>1. i - m \in 1..n /\ i = m + (i - m)
    BY <1>2
  <2> QED
    BY <2>1
<1> QED
  BY <1>1, <1>2

LEMMA ElemsConcat ==
  ASSUME NEW S, NEW s \in Seq(S), NEW t \in Seq(S)
  PROVE  Elems(s \o t) = Elems(s) \cup Elems(t)
<1> DEFINE st == s \o t
           m == Len(s)
           n == Len(t)
<1>1. /\ m \in Nat /\ n \in Nat /\ DOMAIN s = 1..m /\ DOMAIN t = 1..n /\ DOMAIN st = 1..(m + n)
      /\ \A i \in 1..m : st[i] = s[i]
      /\ \A i \in 1..n : st[m + i] = t[i]
  BY ConcatParts
<1> HIDE DEF st, m, n
<1>2. ASSUME NEW i \in DOMAIN st PROVE st[i] \in Elems(s) \cup Elems(t)
  <2>1. m \in Nat /\ n \in Nat /\ i \in 1..(m + n)
    BY <1>1
  <2>2. i \in 1..m \/ \E k \in 1..n : i = m + k
    BY <2>1, ConcatCases
  <2> QED
    BY <1>1, <2>2 DEF Elems
<1>3. ASSUME NEW i \in DOMAIN s PROVE s[i] \in Elems(st)
  BY <1>1 DEF Elems
<1>4. ASSUME NEW i \in DOMAIN t PROVE t[i] \in Elems(st)
  <2>1. m + i \in DOMAIN st /\ st[m + i] = t[i]
    BY <1>1
  <2> QED
    BY <2>1 DEF Elems
<1>5. Elems(st) \subseteq Elems(s) \cup Elems(t)
  BY <1>2 DEF Elems
<1>6. Elems(s) \subseteq Elems(st) /\ Elems(t) \subseteq Elems(st)
  BY <1>3, <1>4 DEF Elems
<1>7. Elems(st) = Elems(s) \cup Elems(t)
  BY <1>5, <1>6
<1> QED
  BY <1>7 DEF st

LEMMA ElemsOne == ASSUME NEW x PROVE Elems(<<x>>) = {x} /\ Elems(<<>>) = {}
  BY DEF Elems

\* Order, in terms of the elements alone.
LEMMA BeforeElems ==
  ASSUME NEW s, NEW t
  PROVE  Before(s, t) <=> \A a \in Elems(s), b \in Elems(t) : b # Notice => a < b
  BY DEF Before, Elems

LEMMA AscendingConcat ==
  ASSUME NEW s \in Seq(Nat), NEW t \in Seq(Nat)
  PROVE  Ascending(s \o t) <=> Ascending(s) /\ Ascending(t) /\ Before(s, t)
<1> DEFINE st == s \o t
           m == Len(s)
           n == Len(t)
<1>1. /\ m \in Nat /\ n \in Nat /\ DOMAIN s = 1..m /\ DOMAIN t = 1..n /\ DOMAIN st = 1..(m + n)
      /\ \A i \in 1..m : st[i] = s[i]
      /\ \A i \in 1..n : st[m + i] = t[i]
  BY ConcatParts
<1> HIDE DEF st, m, n
<1>2. ASSUME Ascending(st) PROVE Ascending(s) /\ Ascending(t) /\ Before(s, t)
  <2>1. Ascending(s)
    <3>1. \A i \in DOMAIN s : i \in DOMAIN st /\ st[i] = s[i]
      BY <1>1
    <3> QED
      BY <1>2, <3>1 DEF Ascending
  <2>2. Ascending(t)
    <3> SUFFICES ASSUME NEW i \in DOMAIN t, NEW j \in DOMAIN t, i < j, t[j] # Notice PROVE t[i] < t[j]
      BY DEF Ascending
    <3>1. /\ m + i \in DOMAIN st /\ m + j \in DOMAIN st /\ m + i < m + j
          /\ st[m + i] = t[i] /\ st[m + j] = t[j]
      <4>1. i \in 1..n /\ j \in 1..n /\ m \in Nat /\ n \in Nat
        BY <1>1
      <4>2. m + i \in 1..(m + n) /\ m + j \in 1..(m + n) /\ m + i < m + j
        BY <4>1
      <4>3. st[m + i] = t[i] /\ st[m + j] = t[j]
        BY <1>1, <4>1
      <4> QED
        BY <1>1, <4>2, <4>3
    <3> QED
      BY <1>2, <3>1 DEF Ascending
  <2>3. Before(s, t)
    <3> SUFFICES ASSUME NEW i \in DOMAIN s, NEW j \in DOMAIN t, t[j] # Notice PROVE s[i] < t[j]
      BY DEF Before
    <3>1. i \in 1..m /\ j \in 1..n /\ m \in Nat /\ n \in Nat
      BY <1>1
    <3>2. i \in 1..(m + n) /\ m + j \in 1..(m + n) /\ i < m + j
      BY <3>1
    <3>3. /\ i \in DOMAIN st /\ m + j \in DOMAIN st
          /\ st[i] = s[i] /\ st[m + j] = t[j]
      BY <1>1, <3>1, <3>2
    <3> QED
      BY <1>2, <3>2, <3>3 DEF Ascending
  <2> QED
    BY <2>1, <2>2, <2>3
<1>3. ASSUME Ascending(s), Ascending(t), Before(s, t) PROVE Ascending(st)
  <2> SUFFICES ASSUME NEW i \in DOMAIN st, NEW j \in DOMAIN st, i < j, st[j] # Notice
               PROVE  st[i] < st[j]
    BY DEF Ascending
  <2>1. i \in 1..m \/ \E k \in 1..n : i = m + k
    BY <1>1, ConcatCases
  <2>2. j \in 1..m \/ \E k \in 1..n : j = m + k
    BY <1>1, ConcatCases
  <2>3. CASE j \in 1..m
    <3>1. i \in 1..m
      BY <1>1, <2>3
    <3> QED
      BY <1>1, <1>3, <2>3, <3>1 DEF Ascending
  <2>4. ASSUME NEW k \in 1..n, j = m + k PROVE st[i] < st[j]
    <3>1. CASE i \in 1..m
      BY <1>1, <1>3, <2>4, <3>1 DEF Before
    <3>2. ASSUME NEW h \in 1..n, i = m + h PROVE st[i] < st[j]
      <4>1. h < k /\ h \in DOMAIN t /\ k \in DOMAIN t
        BY <1>1, <2>4, <3>2
      <4>2. st[i] = t[h] /\ st[j] = t[k]
        BY <1>1, <2>4, <3>2
      <4> QED
        BY <1>3, <4>1, <4>2 DEF Ascending
    <3> QED
      BY <2>1, <3>1, <3>2
  <2> QED
    BY <2>2, <2>3, <2>4
<1>4. Ascending(st) <=> Ascending(s) /\ Ascending(t) /\ Before(s, t)
  BY <1>2, <1>3
<1> QED
  BY <1>4 DEF st

LEMMA AscendingOne == Ascending(<<>>) /\ \A x : Ascending(<<x>>)
  BY DEF Ascending

-----------------------------------------------------------------------------
(***************************************************************************)
(* Flattened buffers.                                                      *)
(***************************************************************************)
LEMMA MsgsType ==
  ASSUME NEW bs \in Seq(Buffer)
  PROVE  /\ [i \in DOMAIN bs |-> bs[i].msgs] \in Seq(Seq(Message))
         /\ Len([i \in DOMAIN bs |-> bs[i].msgs]) = Len(bs)
<1>1. Len(bs) \in Nat /\ DOMAIN bs = 1..Len(bs) /\ \A i \in 1..Len(bs) : bs[i] \in Buffer
  OBVIOUS
<1>2. \A i \in 1..Len(bs) : bs[i].msgs \in Seq(Message)
  BY <1>1 DEF Buffer
<1> DEFINE n == Len(bs)
           e(i) == bs[i].msgs
<1>3. n \in Nat /\ \A i \in 1..n : e(i) \in Seq(Message)
  BY <1>1, <1>2
<1>4. [i \in 1..n |-> e(i)] \in Seq(Seq(Message)) /\ Len([i \in 1..n |-> e(i)]) = n
  <2> HIDE DEF n, e
  <2> QED
    BY <1>3
<1> QED
  BY <1>1, <1>4

LEMMA FlatType ==
  ASSUME NEW bs \in Seq(Buffer)
  PROVE  Flat(bs) \in Seq(Message) /\ Flat(bs) \in Seq(Nat)
<1>1. Flat(bs) \in Seq(Message)
  BY MsgsType, FlattenType DEF Flat
<1> QED
  BY <1>1, SeqMonotonic DEF Message

LEMMA FlatConcat ==
  ASSUME NEW aa \in Seq(Buffer), NEW bb \in Seq(Buffer)
  PROVE  Flat(aa \o bb) = Flat(aa) \o Flat(bb)
<1> DEFINE ma == [i \in DOMAIN aa |-> aa[i].msgs]
           mb == [i \in DOMAIN bb |-> bb[i].msgs]
           mm == [i \in DOMAIN (aa \o bb) |-> (aa \o bb)[i].msgs]
           m  == Len(aa)
           n  == Len(bb)
<1>1. ma \in Seq(Seq(Message)) /\ mb \in Seq(Seq(Message)) /\ Len(ma) = m /\ Len(mb) = n
  BY MsgsType
<1>2. mm \in Seq(Seq(Message)) /\ Len(mm) = m + n
  BY MsgsType, ConcatProperties
<1>3. /\ m \in Nat /\ n \in Nat
      /\ \A i \in 1..m : ma[i] = aa[i].msgs /\ mm[i] = aa[i].msgs
      /\ \A i \in 1..n : mb[i] = bb[i].msgs /\ mm[m + i] = bb[i].msgs
  <2>1. /\ m \in Nat /\ n \in Nat /\ DOMAIN aa = 1..m /\ DOMAIN bb = 1..n
        /\ DOMAIN (aa \o bb) = 1..(m + n)
        /\ \A i \in 1..m : (aa \o bb)[i] = aa[i]
        /\ \A i \in 1..n : (aa \o bb)[m + i] = bb[i]
    BY ConcatParts
  <2>2. /\ \A i \in 1..m : i \in 1..(m + n)
        /\ \A i \in 1..n : m + i \in 1..(m + n)
    BY <2>1
  <2> QED
    BY <2>1, <2>2
<1>4. mm = ma \o mb
  <2> HIDE DEF ma, mb, mm, m, n
  <2>1. ma \o mb \in Seq(Seq(Message)) /\ Len(ma \o mb) = m + n
    BY <1>1, ConcatProperties
  <2>2. ASSUME NEW i \in 1..(m + n) PROVE mm[i] = (ma \o mb)[i]
    <3>1. i \in 1..m \/ \E k \in 1..n : i = m + k
      BY <1>3, ConcatCases
    <3>2. /\ \A k \in 1..m : (ma \o mb)[k] = ma[k]
          /\ \A k \in 1..n : (ma \o mb)[m + k] = mb[k]
      BY <1>1, ConcatParts
    <3> QED
      BY <1>3, <3>1, <3>2
  <2> QED
    BY <1>2, <2>1, <2>2, SeqEqual
<1> HIDE DEF ma, mb, mm
<1>5. FlattenSeq(mm) = FlattenSeq(ma) \o FlattenSeq(mb)
  BY <1>1, <1>4, FlattenConcat
<1> QED
  BY <1>5 DEF Flat, ma, mb, mm

LEMMA FlatOne ==
  ASSUME NEW b \in Buffer
  PROVE  Flat(<<b>>) = b.msgs /\ Flat(<<>>) = <<>> /\ b.msgs \in Seq(Message) /\ b.msgs \in Seq(Nat)
<1>1. b.msgs \in Seq(Message)
  BY DEF Buffer
<1>2. [i \in DOMAIN <<b>> |-> <<b>>[i].msgs] = <<b.msgs>>
  OBVIOUS
<1>3. [i \in DOMAIN <<>> |-> <<>>[i].msgs] = <<>>
  OBVIOUS
<1>4. <<b.msgs>> = Append(<<>>, b.msgs) /\ <<>> \in Seq(Seq(Message))
  BY <1>1
<1>5. FlattenSeq(Append(<<>>, b.msgs)) = FlattenSeq(<<>>) \o b.msgs
  BY <1>1, <1>4, FlattenAppend
<1>6. <<>> \o b.msgs = b.msgs
  BY <1>1, ConcatEmptySeq
<1>7. b.msgs \in Seq(Nat)
  BY <1>1, SeqMonotonic DEF Message
<1> QED
  BY <1>1, <1>2, <1>3, <1>4, <1>5, <1>6, <1>7, FlattenEmpty DEF Flat

\* The set of the messages of buffers is the set of the flattened ones.
LEMMA FlatMessages ==
  ASSUME NEW bs \in Seq(Buffer)
  PROVE  MessagesOf(bs) = Elems(Flat(bs))
<1> DEFINE part(k) == SubSeq(bs, 1, k)
           Same(k) == MessagesOf(part(k)) = Elems(Flat(part(k)))
           T == {k \in 0..Len(bs) : ~ Same(k)}
<1>1. Len(bs) \in Nat /\ \A i \in 1..Len(bs) : bs[i] \in Buffer
  OBVIOUS
<1>2. ASSUME NEW k \in 0..Len(bs)
      PROVE  part(k) \in Seq(Buffer) /\ Len(part(k)) = k /\ \A i \in 1..k : part(k)[i] = bs[i]
  <2>1. 1 \in Int /\ k \in Int /\ \A i \in 1..k : bs[i] \in Buffer
    BY <1>1
  <2>2. /\ SubSeq(bs, 1, k) \in Seq(Buffer)
        /\ Len(SubSeq(bs, 1, k)) = IF 1 <= k THEN k - 1 + 1 ELSE 0
        /\ \A i \in 1..(k - 1 + 1) : SubSeq(bs, 1, k)[i] = bs[1 + i - 1]
    BY <2>1, SubSeqProperties
  <2>3. (IF 1 <= k THEN k - 1 + 1 ELSE 0) = k /\ k - 1 + 1 = k
    OBVIOUS
  <2> QED
    BY <2>2, <2>3
<1>3. \A k \in 0..Len(bs) : MessagesOf(part(k)) = UNION {{bs[i].msgs[j] : j \in DOMAIN bs[i].msgs} : i \in 1..k}
  <2> TAKE k \in 0..Len(bs)
  <2> DEFINE p == part(k)
  <2>1. p \in Seq(Buffer) /\ Len(p) = k /\ \A i \in 1..k : p[i] = bs[i]
    BY <1>2
  <2> HIDE DEF p
  <2>2. DOMAIN p = 1..k
    BY <2>1
  <2> QED
    BY <2>1, <2>2 DEF MessagesOf, p
<1>4. Same(0)
  <2>1. part(0) = <<>>
    BY SubSeqEmpty
  <2>2. MessagesOf(<<>>) = {} /\ Elems(<<>>) = {} /\ Fresh \in Buffer
    BY DEF MessagesOf, Elems, Fresh, Buffer
  <2>3. Flat(<<>>) = <<>>
    BY <2>2, FlatOne
  <2> QED
    BY <2>1, <2>2, <2>3
<1>5. ASSUME NEW k \in 1..Len(bs), Same(k - 1) PROVE Same(k)
  <2> DEFINE p == part(k - 1)
             b == bs[k]
  <2>1. k - 1 \in 0..Len(bs) /\ k \in 0..Len(bs) /\ b \in Buffer /\ 1..k = (1..(k - 1)) \cup {k}
    BY <1>1
  <2>2. p \in Seq(Buffer)
    BY <1>2, <2>1
  <2>3. part(k) = p \o <<b>>
    BY <1>1, SubSeqRecursiveSecond
  <2>4. Flat(p \o <<b>>) = Flat(p) \o b.msgs /\ Flat(p) \in Seq(Message) /\ b.msgs \in Seq(Message)
    <3> HIDE DEF p, b
    <3>1. <<b>> \in Seq(Buffer)
      BY <2>1
    <3> QED
      BY <2>1, <2>2, <3>1, FlatConcat, FlatOne, FlatType
  <2>5. Elems(Flat(p) \o b.msgs) = Elems(Flat(p)) \cup Elems(b.msgs)
    <3> HIDE DEF p, b
    <3> QED
      BY <2>4, ElemsConcat
  <2>6. MessagesOf(part(k)) = MessagesOf(part(k - 1)) \cup {bs[k].msgs[j] : j \in DOMAIN bs[k].msgs}
    BY <1>3, <2>1
  <2> QED
    BY <1>5, <2>3, <2>4, <2>5, <2>6 DEF Elems
<1>6. T = {}
  <2> SUFFICES ASSUME T # {} PROVE FALSE
    OBVIOUS
  <2> HIDE DEF Same
  <2>1. T \in SUBSET Nat
    BY <1>1
  <2>2. PICK m \in T : \A k \in T : m <= k
    BY <2>1, LeastNumber
  <2>3. m \in 0..Len(bs) /\ ~Same(m) /\ m # 0
    BY <1>4
  <2>4. m \in 1..Len(bs) /\ m - 1 \in 0..Len(bs) /\ ~(m <= m - 1)
    BY <1>1, <2>3
  <2>5. Same(m - 1)
    BY <2>2, <2>4
  <2> QED
    BY <1>5, <2>3, <2>4, <2>5
<1>7. Same(Len(bs))
  <2> HIDE DEF Same
  <2> QED
    BY <1>1, <1>6
<1>8. part(Len(bs)) = bs
  BY SubSeqFull
<1> QED
  BY <1>7, <1>8

-----------------------------------------------------------------------------
(***************************************************************************)
(* What each action does to the backlog.                                   *)
(***************************************************************************)
LEMMA RestOfBatch ==
  ASSUME NEW batch \in Seq(Buffer), NEW w \in 0..Len(batch)
  PROVE  LET rest == SubSeq(batch, w + 1, Len(batch))
         IN  /\ rest \in Seq(Buffer) /\ Len(rest) = Len(batch) - w
             /\ \A i \in 1..(Len(batch) - w) : rest[i] = batch[w + i]
             /\ Flat(rest) \in Seq(Message) /\ Flat(rest) \in Seq(Nat)
<1> DEFINE rest == SubSeq(batch, w + 1, Len(batch))
           n == Len(batch)
<1>1. n \in Nat /\ w + 1 \in Int /\ n \in Int /\ \A i \in (w + 1)..n : batch[i] \in Buffer
  OBVIOUS
<1>2. /\ SubSeq(batch, w + 1, n) \in Seq(Buffer)
      /\ Len(SubSeq(batch, w + 1, n)) = IF w + 1 <= n THEN n - (w + 1) + 1 ELSE 0
      /\ \A i \in 1..(n - (w + 1) + 1) : SubSeq(batch, w + 1, n)[i] = batch[(w + 1) + i - 1]
  BY <1>1, SubSeqProperties
<1>3. rest \in Seq(Buffer) /\ Len(rest) = n - w
  BY <1>1, <1>2
<1>4. ASSUME NEW i \in 1..(n - w) PROVE rest[i] = batch[w + i]
  <2>1. i \in 1..(n - (w + 1) + 1) /\ (w + 1) + i - 1 = w + i
    BY <1>1
  <2> QED
    BY <1>2, <2>1
<1> HIDE DEF rest
<1>5. Flat(rest) \in Seq(Message) /\ Flat(rest) \in Seq(Nat)
  BY <1>3, FlatType
<1> QED
  BY <1>3, <1>4, <1>5 DEF rest

LEMMA EmptyRest ==
  ASSUME NEW batch \in Seq(Buffer)
  PROVE  /\ SubSeq(batch, Len(batch) + 1, Len(batch)) = <<>>
         /\ SubSeq(batch, 1, Len(batch)) = batch
<1>1. Len(batch) \in Int /\ Len(batch) + 1 \in Int /\ Len(batch) < Len(batch) + 1
  OBVIOUS
<1> QED
  BY <1>1, SubSeqEmpty, SubSeqFull

LEMMA WaitingParts ==
  ASSUME NEW bs \in Seq(Buffer), NEW cur \in Buffer
  PROVE  /\ bs \o <<cur>> \in Seq(Buffer)
         /\ Flat(bs \o <<cur>>) = Flat(bs) \o cur.msgs
         /\ Flat(bs \o <<cur>>) \in Seq(Message) /\ Flat(bs \o <<cur>>) \in Seq(Nat)
<1>1. <<cur>> \in Seq(Buffer)
  OBVIOUS
<1>2. bs \o <<cur>> \in Seq(Buffer)
  BY <1>1, ConcatProperties
<1>3. Flat(bs \o <<cur>>) = Flat(bs) \o Flat(<<cur>>)
  BY <1>1, FlatConcat
<1> QED
  BY <1>2, <1>3, FlatOne, FlatType

LEMMA QueueParts ==
  ASSUME NEW r \in Seq(Buffer), NEW bs \in Seq(Buffer), NEW cur \in Buffer
  PROVE  /\ (r \o bs) \o <<cur>> \in Seq(Buffer)
         /\ Flat((r \o bs) \o <<cur>>) = Flat(r) \o Flat(bs \o <<cur>>)
<1>1. <<cur>> \in Seq(Buffer)
  OBVIOUS
<1>2. bs \o <<cur>> \in Seq(Buffer) /\ r \o bs \in Seq(Buffer) /\ (r \o bs) \o <<cur>> \in Seq(Buffer)
  BY <1>1, ConcatProperties
<1>3. (r \o bs) \o <<cur>> = r \o (bs \o <<cur>>)
  <2> DEFINE one == <<cur>>
  <2> HIDE DEF one
  <2>1. (r \o bs) \o one = r \o (bs \o one)
    BY <1>1, ConcatAssociative DEF one
  <2> QED
    BY <2>1 DEF one
<1>4. Flat(r \o (bs \o <<cur>>)) = Flat(r) \o Flat(bs \o <<cur>>)
  BY <1>2, FlatConcat
<1> QED
  BY <1>2, <1>3, <1>4

\* The backlog in its two parts.
LEMMA StreamTypes ==
  ASSUME MemInv
  PROVE  /\ Taken \in Seq(Message) /\ Taken \in Seq(Nat)
         /\ Waiting \in Seq(Message) /\ Waiting \in Seq(Nat)
         /\ Backlog = Taken \o Waiting
         /\ MessagesOf(Queue) = Elems(Taken \o Waiting)
         /\ output \in Seq(Nat) /\ written \in 0..Len(buffersToWrite)
         /\ wpc \notin {"drop", "write"} => Taken = <<>>
<1>1. /\ buffersToWrite \in Seq(Buffer) /\ written \in 0..Len(buffersToWrite)
      /\ m_buffers \in Seq(Buffer) /\ m_curBuffer \in Buffer /\ output \in Seq(Nat)
  BY DEF MemInv, TypeOK, BuffersTyped, FileTyped
<1>2. Remaining \in Seq(Buffer)
  BY <1>1, RestOfBatch DEF Remaining
<1>3. Taken \in Seq(Message) /\ Taken \in Seq(Nat)
  BY <1>2, FlatType DEF Taken
<1>4. Queue = (Remaining \o m_buffers) \o <<m_curBuffer>>
  BY DEF Queue, Remaining
<1>5. /\ Queue \in Seq(Buffer) /\ Flat(Queue) = Taken \o Waiting
      /\ Waiting \in Seq(Message) /\ Waiting \in Seq(Nat)
  BY <1>1, <1>2, <1>4, QueueParts, WaitingParts DEF Taken, Waiting
<1>6. Backlog = Flat(Queue)
  BY DEF Backlog, Flat
<1>7. MessagesOf(Queue) = Elems(Flat(Queue))
  BY <1>5, FlatMessages
<1>8. wpc \notin {"drop", "write"} => Taken = <<>>
  <2> SUFFICES ASSUME wpc \notin {"drop", "write"} PROVE Taken = <<>>
    OBVIOUS
  <2>1. buffersToWrite = <<>> /\ written = 0
    BY DEF MemInv, WorkerShape
  <2>2. Remaining = <<>>
    BY <1>1, <2>1, EmptyRest DEF Remaining
  <2> QED
    BY <1>1, <2>2, FlatOne DEF Taken
<1> QED
  BY <1>1, <1>3, <1>5, <1>6, <1>7, <1>8

\* A push appends its message to the backlog.
LEMMA StreamPush ==
  ASSUME MemInv, NEW p \in Producers, Push(p)
  PROVE  Taken' = Taken /\ Waiting' = Waiting \o <<pushed + 1>>
<1> DEFINE t == pushed + 1
           C == m_curBuffer.msgs
           F == Flat(m_buffers)
<1>1. /\ m_buffers \in Seq(Buffer) /\ m_curBuffer \in Buffer /\ t \in Message
      /\ m_nextBuffer \in Buffer /\ m_nextBuffer.msgs = <<>>
  BY DEF MemInv, TypeOK, BuffersTyped, ThreadsTyped, Message, BuffersUsable
<1>2. Taken' = Taken
  BY DEF Push, Taken, Remaining, Flat
<1>3. C \in Seq(Message) /\ F \in Seq(Message) /\ Waiting = F \o C
  BY <1>1, WaitingParts, FlatOne, FlatType DEF Waiting
<1>4. CASE /\ avail(m_curBuffer) > 0 /\ m_curBuffer' = push(m_curBuffer, t)
           /\ UNCHANGED <<m_nextBuffer, m_buffers, heap, woken>>
  <2>1. m_curBuffer' \in Buffer /\ m_curBuffer'.msgs = Append(C, t)
    BY <1>1, <1>4, BlockOps DEF push, Buffer
  <2>2. Waiting' = F \o Append(C, t)
    <3>1. Flat(m_buffers \o <<m_curBuffer'>>) = Flat(m_buffers) \o m_curBuffer'.msgs
      BY <1>1, <2>1, WaitingParts
    <3>2. Waiting' = Flat(m_buffers \o <<m_curBuffer'>>)
      BY <1>4 DEF Waiting, Flat
    <3> QED
      BY <2>1, <3>1, <3>2
  <2> HIDE DEF F, C, t
  <2>3. F \o Append(C, t) = Append(F \o C, t) /\ F \o C \in Seq(Message)
    BY <1>1, <1>3, AppendToConcat, ConcatProperties
  <2>4. Append(Waiting, t) = Waiting \o <<t>>
    BY <1>1, <1>3, <2>3, AppendIsConcat
  <2> QED
    BY <1>2, <1>3, <2>2, <2>3, <2>4 DEF t
<1>5. CASE avail(m_curBuffer) <= 0 /\ SwitchBuffer(t) /\ NotifyWorker
  <2>1. m_curBuffer' \in Buffer /\ m_curBuffer'.msgs = <<t>>
    <3>1. Fresh \in Buffer /\ Fresh.msgs = <<>>
      BY DEF Fresh, Buffer
    <3>2. m_curBuffer' = push(m_nextBuffer, t) \/ m_curBuffer' = push(Fresh, t)
      BY <1>5 DEF SwitchBuffer
    <3>3. ASSUME NEW b \in Buffer, b.msgs = <<>>, m_curBuffer' = push(b, t)
          PROVE  m_curBuffer' \in Buffer /\ m_curBuffer'.msgs = <<t>>
      <4>1. push(b, t) \in Buffer
        BY <1>1, <3>3, BlockOps
      <4>2. push(b, t).msgs = Append(b.msgs, t)
        BY DEF push, Buffer
      <4>3. Append(<<>>, t) = <<t>>
        OBVIOUS
      <4> QED
        BY <3>3, <4>1, <4>2, <4>3
    <3> QED
      BY <1>1, <3>1, <3>2, <3>3
  <2>2. m_buffers' = Append(m_buffers, m_curBuffer) /\ Append(m_buffers, m_curBuffer) = m_buffers \o <<m_curBuffer>>
    BY <1>1, <1>5, AppendIsConcat DEF SwitchBuffer, SaveCurrent
  <2>3. Flat(m_buffers') = Waiting /\ m_buffers' \in Seq(Buffer)
    BY <1>1, <2>2, <1>3, WaitingParts DEF Waiting, Flat
  <2>4. Waiting' = Flat(m_buffers') \o m_curBuffer'.msgs
    <3>1. Flat(m_buffers' \o <<m_curBuffer'>>) = Flat(m_buffers') \o m_curBuffer'.msgs
      BY <2>1, <2>3, WaitingParts
    <3> QED
      BY <3>1 DEF Waiting, Flat
  <2> QED
    BY <1>2, <2>1, <2>3, <2>4
<1> QED
  BY <1>4, <1>5 DEF Push

\* The worker takes the queue, and the current buffer if it has room left: the
\* backlog as a whole is the same.
LEMMA StreamCollect ==
  ASSUME MemInv, Collect
  PROVE  Taken = <<>> /\ Taken' \o Waiting' = Waiting
<1>1. /\ m_buffers \in Seq(Buffer) /\ m_curBuffer \in Buffer /\ newBuffer1 \in Buffer
      /\ newBuffer1.msgs = <<>>
  BY DEF MemInv, TypeOK, BuffersTyped, BuffersUsable
<1>2. buffersToWrite = <<>> /\ written = 0 /\ wpc \in {"lock", "wait"}
  BY DEF Collect, MemInv, WorkerShape
<1>3. Taken = <<>>
  BY <1>2, StreamTypes
<1>4. m_buffers' = <<>> /\ buffersToWrite' = NextBatch /\ written' = 0
  BY <1>2 DEF Collect
<1>5. NextBatch \in Seq(Buffer)
  BY <1>1 DEF NextBatch
<1>6. Remaining' = NextBatch
  <2>1. SubSeq(NextBatch, 1, Len(NextBatch)) = NextBatch
    BY <1>5, EmptyRest
  <2> QED
    BY <1>4, <2>1 DEF Remaining
<1>7. Taken' = Flat(NextBatch)
  BY <1>6 DEF Taken, Flat
<1>8. Waiting' = m_curBuffer'.msgs /\ m_curBuffer' \in Buffer
  <2>1. m_curBuffer' \in Buffer
    BY <1>1 DEF Collect
  <2>2. Waiting' = Flat(<<>> \o <<m_curBuffer'>>)
    BY <1>4 DEF Waiting, Flat
  <2>3. <<>> \o <<m_curBuffer'>> = <<m_curBuffer'>>
    OBVIOUS
  <2> QED
    BY <2>1, <2>2, <2>3, FlatOne
<1>9. Waiting = Flat(m_buffers) \o m_curBuffer.msgs /\ Waiting \in Seq(Message)
  BY <1>1, WaitingParts DEF Waiting
<1>10. CASE TakesCurrent
  <2>1. NextBatch = m_buffers \o <<m_curBuffer>>
    BY <1>1, <1>10, AppendIsConcat DEF NextBatch
  <2>2. Taken' = Waiting
    BY <1>7, <2>1 DEF Waiting
  <2>3. Waiting' = <<>>
    BY <1>1, <1>8, <1>10 DEF Collect
  <2>4. Waiting \o <<>> = Waiting
    BY <1>9, ConcatEmptySeq
  <2> QED
    BY <1>3, <2>2, <2>3, <2>4
<1>11. CASE ~TakesCurrent
  <2>1. NextBatch = m_buffers /\ m_curBuffer' = m_curBuffer
    BY <1>11 DEF NextBatch, Collect
  <2> QED
    BY <1>3, <1>7, <1>8, <1>9, <2>1
<1> QED
  BY <1>10, <1>11

LEMMA TwoBounds ==
  ASSUME NEW x \in Nat, NEW y \in Nat, NEW z \in Nat, x <= z, y <= z
  PROVE  x + y <= 2 * z
  OBVIOUS

\* The first two buffers of a batch, and the rest of it.
LEMMA CutBatch ==
  ASSUME NEW batch \in Seq(Buffer), Len(batch) > 2,
         \A i \in 1..Len(batch) : Len(batch[i].msgs) <= SIZE
  PROVE  LET kept   == SubSeq(batch, 1, 2)
             erased == SubSeq(batch, 3, Len(batch))
         IN  /\ kept \in Seq(Buffer) /\ erased \in Seq(Buffer)
             /\ Flat(batch) = Flat(kept) \o Flat(erased)
             /\ Flat(kept) \in Seq(Message) /\ Flat(erased) \in Seq(Message)
             /\ Len(Flat(kept)) <= 2 * SIZE
             /\ SubSeq(kept, 1, Len(kept)) = kept
<1> DEFINE kept   == SubSeq(batch, 1, 2)
           erased == SubSeq(batch, 3, Len(batch))
           a == batch[1]
           b == batch[2]
<1>1. a \in Buffer /\ b \in Buffer /\ Len(a.msgs) <= SIZE /\ Len(b.msgs) <= SIZE
  OBVIOUS
<1>2. kept = <<a>> \o <<b>>
  OBVIOUS
<1>3. erased \in Seq(Buffer)
  <2>1. 3 \in Int /\ Len(batch) \in Int /\ \A i \in 3..Len(batch) : batch[i] \in Buffer
    OBVIOUS
  <2> QED
    BY <2>1, SubSeqProperties
<1>4. batch = kept \o erased
  <2>1. 1 \in 1..(Len(batch) + 1) /\ 2 \in (1 - 1)..Len(batch) /\ Len(batch) \in 2..Len(batch)
    OBVIOUS
  <2>2. SubSeq(batch, 1, 2) \o SubSeq(batch, 2 + 1, Len(batch)) = SubSeq(batch, 1, Len(batch))
    BY <2>1, ConcatAdjacentSubSeq
  <2> QED
    BY <2>2, SubSeqFull
<1> HIDE DEF kept, erased, a, b
<1>5. <<a>> \in Seq(Buffer) /\ <<b>> \in Seq(Buffer)
  BY <1>1
<1>6. kept \in Seq(Buffer) /\ Flat(kept) = a.msgs \o b.msgs
  BY <1>1, <1>2, <1>5, FlatConcat, FlatOne, ConcatProperties
<1>7. Flat(batch) = Flat(kept) \o Flat(erased)
  BY <1>3, <1>4, <1>6, FlatConcat
<1>8. Len(Flat(kept)) <= 2 * SIZE
  <2>1. a.msgs \in Seq(Message) /\ b.msgs \in Seq(Message)
    BY <1>1, FlatOne
  <2>2. Len(a.msgs \o b.msgs) = Len(a.msgs) + Len(b.msgs) /\ Len(a.msgs) \in Nat /\ Len(b.msgs) \in Nat
    BY <2>1
  <2>3. SIZE \in Nat /\ Len(Flat(kept)) = Len(a.msgs) + Len(b.msgs)
    BY <1>6, <2>2, SizeAssumption
  <2>4. Len(a.msgs) + Len(b.msgs) <= 2 * SIZE
    BY <1>1, <2>2, <2>3, TwoBounds
  <2> QED
    BY <2>3, <2>4
<1>9. SubSeq(kept, 1, Len(kept)) = kept
  BY <1>6, SubSeqFull
<1>10. Flat(kept) \in Seq(Message) /\ Flat(erased) \in Seq(Message)
  BY <1>3, <1>6, FlatType
<1> QED
  BY <1>3, <1>6, <1>7, <1>8, <1>9, <1>10 DEF kept, erased

\* A batch that is too long loses what follows its first two buffers.
LEMMA StreamDrop ==
  ASSUME MemInv, DropExcess
  PROVE  /\ Waiting' = Waiting
         /\ \/ UNCHANGED <<output, dropped>> /\ Taken' = Taken
            \/ \E lost \in Seq(Message) :
                 /\ Taken = Taken' \o lost /\ Taken' \in Seq(Message)
                 /\ Len(Taken') <= 2 * SIZE
                 /\ output' = output \o <<Notice>>
                 /\ dropped' = dropped \cup Elems(lost)
<1>1. /\ buffersToWrite \in Seq(Buffer) /\ written = 0 /\ written' = 0
      /\ \A i \in 1..Len(buffersToWrite) : Len(buffersToWrite[i].msgs) <= SIZE
  BY DEF MemInv, TypeOK, BuffersTyped, DropExcess, WorkerShape, BuffersUsable, Filled
<1>2. Waiting' = Waiting
  BY DEF DropExcess, Waiting, Flat
<1>3. Remaining = buffersToWrite
  BY <1>1, EmptyRest DEF Remaining
<1>4. CASE Len(buffersToWrite) > DropLimit
  <2> DEFINE kept   == SubSeq(buffersToWrite, 1, 2)
             erased == SubSeq(buffersToWrite, 3, Len(buffersToWrite))
  <2>1. Len(buffersToWrite) > 2
    BY <1>1, <1>4, ConstantsAssumption
  <2>2. /\ kept \in Seq(Buffer) /\ erased \in Seq(Buffer)
        /\ Flat(buffersToWrite) = Flat(kept) \o Flat(erased)
        /\ Flat(kept) \in Seq(Message) /\ Flat(erased) \in Seq(Message)
        /\ Len(Flat(kept)) <= 2 * SIZE
        /\ SubSeq(kept, 1, Len(kept)) = kept
    BY <1>1, <2>1, CutBatch
  <2>3. /\ buffersToWrite' = kept /\ dropped' = dropped \cup MessagesOf(erased)
        /\ output' = Append(output, Notice)
    BY <1>4 DEF DropExcess, WithNotice
  <2> HIDE DEF kept, erased
  <2>4. Taken = Flat(kept) \o Flat(erased)
    BY <1>3, <2>2 DEF Taken
  <2>5. Taken' = Flat(kept)
    <3>1. Remaining' = kept
      BY <1>1, <2>2, <2>3 DEF Remaining
    <3> QED
      BY <3>1 DEF Taken, Flat
  <2>6. MessagesOf(erased) = Elems(Flat(erased))
    BY <2>2, FlatMessages
  <2>7. output' = output \o <<Notice>>
    <3>1. output \in Seq(Nat) /\ Notice \in Nat
      BY StreamTypes DEF Notice
    <3> QED
      BY <2>3, <3>1, AppendIsConcat
  <2> QED
    BY <1>2, <2>2, <2>3, <2>4, <2>5, <2>6, <2>7
<1>5. CASE ~(Len(buffersToWrite) > DropLimit)
  <2>1. UNCHANGED <<output, dropped, buffersToWrite, written>>
    BY <1>5 DEF DropExcess
  <2>2. Taken' = Taken
    BY <2>1 DEF Taken, Remaining, Flat
  <2> QED
    BY <1>2, <2>1, <2>2
<1> QED
  BY <1>4, <1>5

\* While a buffer is left, it is the head of what is taken.
LEMMA HeadOfTaken ==
  ASSUME MemInv, written < Len(buffersToWrite)
  PROVE  LET msgs == buffersToWrite[written + 1].msgs
             rest == SubSeq(buffersToWrite, written + 2, Len(buffersToWrite))
         IN  /\ msgs \in Seq(Message) /\ Flat(rest) \in Seq(Message)
             /\ Taken = msgs \o Flat(rest)
<1> DEFINE b == buffersToWrite[written + 1]
           n == Len(buffersToWrite)
           rest == SubSeq(buffersToWrite, written + 2, n)
<1>1. buffersToWrite \in Seq(Buffer) /\ written \in 0..n /\ n \in Nat
  BY DEF MemInv, TypeOK, BuffersTyped
<1>2. written + 1 \in 1..n /\ n \in (written + 1)..n /\ (written + 1) + 1 = written + 2
      /\ written + 1 \in 0..n
  BY <1>1
<1>3. b \in Buffer
  BY <1>1, <1>2
<1>4. SubSeq(buffersToWrite, written + 1, n) = <<b>> \o SubSeq(buffersToWrite, (written + 1) + 1, n)
  BY <1>1, <1>2, SubSeqRecursiveFirst
<1>5. Remaining = <<b>> \o rest
  BY <1>2, <1>4 DEF Remaining
<1>6. rest \in Seq(Buffer) /\ Flat(rest) \in Seq(Message)
  BY <1>1, <1>2, RestOfBatch
<1> HIDE DEF b, rest, n
<1>7. <<b>> \in Seq(Buffer)
  BY <1>3
<1>8. Flat(<<b>> \o rest) = b.msgs \o Flat(rest)
  BY <1>3, <1>6, <1>7, FlatConcat, FlatOne
<1>9. b.msgs \in Seq(Message)
  BY <1>3, FlatOne
<1> QED
  BY <1>5, <1>6, <1>8, <1>9 DEF Taken, b, rest, n

\* A buffer goes from the head of what is taken to the end of the file.
LEMMA StreamWrite ==
  ASSUME MemInv, WriteBuffer
  PROVE  /\ Waiting' = Waiting /\ Taken' \in Seq(Message)
         /\ \E x \in Seq(Message) : Taken = x \o Taken' /\ output' = output \o x
<1>1. Waiting' = Waiting
  BY DEF WriteBuffer, Waiting, Flat
<1>2. /\ written < Len(buffersToWrite) /\ written' = written + 1 /\ buffersToWrite' = buffersToWrite
      /\ output' = output \o buffersToWrite[written + 1].msgs /\ written \in Nat
  BY DEF WriteBuffer, MemInv, TypeOK, BuffersTyped
<1>3. Taken' = Flat(SubSeq(buffersToWrite, written + 2, Len(buffersToWrite)))
  <2>1. written' + 1 = written + 2
    BY <1>2
  <2> QED
    BY <1>2, <2>1 DEF Taken, Remaining, Flat
<1> QED
  BY <1>1, <1>2, <1>3, HeadOfTaken

\* When the batch is written, nothing that was taken is left.
LEMMA StreamRecycle ==
  ASSUME MemInv, Recycle
  PROVE  Taken = <<>> /\ Taken' = <<>> /\ Waiting' = Waiting
<1>1. buffersToWrite \in Seq(Buffer) /\ written = Len(buffersToWrite) /\ Fresh \in Buffer
  BY DEF Recycle, MemInv, TypeOK, BuffersTyped, Fresh, Buffer
<1>2. Flat(<<>>) = <<>> /\ SubSeq(<<>>, 1, 0) = <<>>
  <2>1. Flat(<<>>) = <<>>
    BY <1>1, FlatOne
  <2>2. SubSeq(<<>>, 1, 0) = <<>>
    BY SubSeqEmpty
  <2> QED
    BY <2>1, <2>2
<1>3. Taken = <<>>
  BY <1>1, <1>2, EmptyRest DEF Taken, Remaining
<1>4. buffersToWrite' = <<>> /\ written' = 0
  BY DEF Recycle
<1>5. Taken' = <<>>
  <2>1. Remaining' = SubSeq(<<>>, 1, 0)
    BY <1>4 DEF Remaining
  <2> QED
    BY <1>2, <2>1 DEF Taken, Flat
<1>6. Waiting' = Waiting
  BY DEF Recycle, Waiting, Flat
<1> QED
  BY <1>3, <1>5, <1>6

\* A failing worker has appended a notice, or a beginning of what it had taken.
LEMMA StreamFail ==
  ASSUME MemInv, Failing
  PROVE  \/ output' = output
         \/ wpc = "drop" /\ output' = output \o <<Notice>>
         \/ \E x, y \in Seq(Message) :
              wpc = "write" /\ Taken = x \o y /\ output' = output \o x
<1>1. output \in Seq(Nat) /\ Notice \in Nat
  BY StreamTypes DEF Notice
<1>2. CASE wpc = "start" /\ UNCHANGED output
  BY <1>2
<1>3. CASE wpc = "drop" /\ output' = WithNotice
  BY <1>1, <1>3, AppendIsConcat DEF WithNotice
<1>4. CASE wpc = "write" /\ written < Len(buffersToWrite)
           /\ \E k \in 0..Len(buffersToWrite[written + 1].msgs) :
                output' = output \o SubSeq(buffersToWrite[written + 1].msgs, 1, k)
  <2> DEFINE msgs == buffersToWrite[written + 1].msgs
             rest == Flat(SubSeq(buffersToWrite, written + 2, Len(buffersToWrite)))
  <2>1. msgs \in Seq(Message) /\ rest \in Seq(Message) /\ Taken = msgs \o rest
    BY <1>4, HeadOfTaken
  <2>2. PICK k \in 0..Len(msgs) : output' = output \o SubSeq(msgs, 1, k)
    BY <1>4
  <2> DEFINE x == SubSeq(msgs, 1, k)
             z == SubSeq(msgs, k + 1, Len(msgs))
  <2> HIDE DEF msgs, rest
  <2>3. x \in Seq(Message) /\ z \in Seq(Message) /\ msgs = x \o z
    <3>1. Len(msgs) \in Nat /\ k \in Int /\ k + 1 \in Int /\ \A i \in 1..Len(msgs) : msgs[i] \in Message
      BY <2>1
    <3>2. x \in Seq(Message) /\ z \in Seq(Message)
      BY <3>1, SubSeqProperties
    <3>3. 1 \in 1..(Len(msgs) + 1) /\ k \in (1 - 1)..Len(msgs) /\ Len(msgs) \in k..Len(msgs)
      BY <3>1
    <3>4. SubSeq(msgs, 1, k) \o SubSeq(msgs, k + 1, Len(msgs)) = SubSeq(msgs, 1, Len(msgs))
      BY <2>1, <3>3, ConcatAdjacentSubSeq
    <3> QED
      BY <2>1, <3>2, <3>4, SubSeqFull
  <2> HIDE DEF x, z
  <2>4. Taken = x \o (z \o rest) /\ z \o rest \in Seq(Message)
    BY <2>1, <2>3, ConcatAssociative, ConcatProperties
  <2>5. output' = output \o x
    BY <2>2 DEF x
  <2> QED
    BY <1>4, <2>3, <2>4, <2>5
<1> QED
  BY <1>2, <1>3, <1>4 DEF Failing

\* The steps that leave the queues alone.
LEMMA StreamSame ==
  ASSUME UNCHANGED <<m_curBuffer, m_buffers, buffersToWrite, written>>
  PROVE  Taken' = Taken /\ Waiting' = Waiting /\ Backlog' = Backlog
  BY DEF Taken, Remaining, Waiting, Flat, Backlog, Queue

-----------------------------------------------------------------------------
(***************************************************************************)
(* The invariant.                                                          *)
(***************************************************************************)
LEMMA ElemsType ==
  ASSUME NEW S, NEW s \in Seq(S)
  PROVE  Elems(s) \subseteq S
  BY DEF Elems

\* The order of the file and the two parts of the backlog, part by part.
LEMMA AscendingParts ==
  ASSUME NEW o \in Seq(Nat), NEW k \in Seq(Nat), NEW w \in Seq(Nat)
  PROVE  /\ Ascending(o \o (k \o w)) <=>
              /\ Ascending(o) /\ Ascending(k) /\ Ascending(w)
              /\ Before(o, k) /\ Before(o, w) /\ Before(k, w)
         /\ Elems(k \o w) = Elems(k) \cup Elems(w)
<1>1. k \o w \in Seq(Nat) /\ Elems(k \o w) = Elems(k) \cup Elems(w)
  BY ConcatProperties, ElemsConcat
<1>2. Ascending(k \o w) <=> Ascending(k) /\ Ascending(w) /\ Before(k, w)
  BY AscendingConcat
<1>3. Ascending(o \o (k \o w)) <=> Ascending(o) /\ Ascending(k \o w) /\ Before(o, k \o w)
  <2> DEFINE kw == k \o w
  <2> HIDE DEF kw
  <2>1. Ascending(o \o kw) <=> Ascending(o) /\ Ascending(kw) /\ Before(o, kw)
    BY <1>1, AscendingConcat DEF kw
  <2> QED
    BY <2>1 DEF kw
<1>4. Before(o, k \o w) <=> Before(o, k) /\ Before(o, w)
  BY <1>1, BeforeElems
<1> QED
  BY <1>1, <1>2, <1>3, <1>4

\* What the invariant says of a healthy logger, in terms of the parts.
LEMMA StreamFacts ==
  ASSUME MemInv, OrderInv, Healthy
  PROVE  /\ Ascending(output) /\ Ascending(Taken) /\ Ascending(Waiting)
         /\ Before(output, Taken) /\ Before(output, Waiting) /\ Before(Taken, Waiting)
         /\ InFile \cup Elems(Taken) \cup Elems(Waiting) \cup dropped = 1..pushed
         /\ dropped \cap (InFile \cup Elems(Taken) \cup Elems(Waiting)) = {}
         /\ \A t \in dropped : \E i \in DOMAIN output : Announces(i, t) /\ Pending(i, t)
         /\ wpc = "exited" => flushed = Len(output)
         /\ InFile = Elems(output) \ {Notice} /\ pushed \in Nat
         /\ Elems(Taken) \subseteq Message /\ Elems(Waiting) \subseteq Message
         /\ Elems(output) \subseteq Nat
         /\ Elems(Taken \o Waiting) = Elems(Taken) \cup Elems(Waiting)
<1>1. /\ Taken \in Seq(Message) /\ Taken \in Seq(Nat)
      /\ Waiting \in Seq(Message) /\ Waiting \in Seq(Nat) /\ output \in Seq(Nat)
  BY StreamTypes
<1>2. StreamInv
  BY DEF OrderInv
<1>3. Elems(Taken \o Waiting) = Elems(Taken) \cup Elems(Waiting)
  BY <1>1, ElemsConcat
<1>4. /\ Ascending(output) /\ Ascending(Taken) /\ Ascending(Waiting)
      /\ Before(output, Taken) /\ Before(output, Waiting) /\ Before(Taken, Waiting)
  BY <1>1, <1>2, AscendingParts DEF StreamInv
<1>5. /\ InFile \cup Elems(Taken) \cup Elems(Waiting) \cup dropped = 1..pushed
      /\ dropped \cap (InFile \cup Elems(Taken) \cup Elems(Waiting)) = {}
  BY <1>2, <1>3 DEF StreamInv
<1>6. /\ \A t \in dropped : \E i \in DOMAIN output : Announces(i, t) /\ Pending(i, t)
      /\ wpc = "exited" => flushed = Len(output)
  BY <1>2 DEF StreamInv
<1>7. InFile = Elems(output) \ {Notice}
  BY DEF InFile, Elems
<1>8. pushed \in Nat
  BY DEF MemInv, TypeOK, ThreadsTyped
<1>9. Elems(Taken) \subseteq Message /\ Elems(Waiting) \subseteq Message /\ Elems(output) \subseteq Nat
  BY <1>1, ElemsType
<1> QED
  BY <1>3, <1>4, <1>5, <1>6, <1>7, <1>8, <1>9

\* The way back: these facts about the next state are the invariant there.
LEMMA StreamBack ==
  ASSUME NEW o \in Seq(Nat), NEW k \in Seq(Nat), NEW w \in Seq(Nat),
         Ascending(o), Ascending(k), Ascending(w), Before(o, k), Before(o, w), Before(k, w)
  PROVE  Ascending(o \o (k \o w)) /\ Elems(k \o w) = Elems(k) \cup Elems(w)
  BY AscendingParts

\* A notice that accounts for t still does when newer messages follow it, or
\* when what follows stays within two buffers.
LEMMA StillAnnounces ==
  ASSUME NEW o \in Seq(Nat), NEW x \in Seq(Nat), NEW t \in Nat, NEW i \in DOMAIN o,
         o[i] = Notice,
         \A j \in 1..(i - 1) : o[j] < t,
         \A j \in (i + 2 * SIZE + 1)..Len(o) : o[j] # Notice => o[j] > t,
         \/ \A m \in Elems(x) : m # Notice => m > t
         \/ Len(o) + Len(x) <= i + 2 * SIZE
  PROVE  LET ox == o \o x
         IN  /\ i \in DOMAIN ox /\ ox[i] = Notice
             /\ \A j \in 1..(i - 1) : ox[j] < t
             /\ \A j \in (i + 2 * SIZE + 1)..Len(ox) : ox[j] # Notice => ox[j] > t
<1> DEFINE ox == o \o x
           m == Len(o)
           n == Len(x)
           d == 2 * SIZE
<1>1. /\ m \in Nat /\ n \in Nat /\ DOMAIN o = 1..m /\ DOMAIN x = 1..n /\ DOMAIN ox = 1..(m + n)
      /\ Len(ox) = m + n
      /\ \A j \in 1..m : ox[j] = o[j]
      /\ \A j \in 1..n : ox[m + j] = x[j]
  BY ConcatParts, ConcatProperties
<1>2. d \in Nat
  BY SizeAssumption
<1>3. \A j \in (i + d + 1)..m : o[j] # Notice => o[j] > t
  OBVIOUS
<1>4. (\A e \in Elems(x) : e # Notice => e > t) \/ m + n <= i + d
  OBVIOUS
<1> HIDE DEF ox, m, n, d
<1>5. i \in 1..m /\ i \in DOMAIN ox /\ ox[i] = Notice
  BY <1>1
<1>6. \A j \in 1..(i - 1) : ox[j] < t
  BY <1>1, <1>5
<1>7. ASSUME NEW j \in (i + d + 1)..(m + n), ox[j] # Notice PROVE ox[j] > t
  <2>1. j \in 1..(m + n) /\ j > i + d
    BY <1>1, <1>2, <1>5
  <2>2. j \in 1..m \/ \E k \in 1..n : j = m + k
    BY <1>1, <2>1, ConcatCases
  <2>3. CASE j \in 1..m
    <3>1. j \in (i + d + 1)..m
      BY <1>1, <1>2, <1>5, <2>1, <2>3
    <3>2. ox[j] = o[j]
      BY <1>1, <2>3
    <3> QED
      BY <1>7, <1>3, <3>1, <3>2
  <2>4. ASSUME NEW k \in 1..n, j = m + k PROVE ox[j] > t
    <3>1. ~(m + n <= i + d)
      BY <1>1, <1>2, <1>5, <2>1
    <3>2. ox[j] \in Elems(x)
      BY <1>1, <2>4 DEF Elems
    <3> QED
      BY <1>7, <1>4, <3>1, <3>2
  <2> QED
    BY <2>2, <2>3, <2>4
<1>8. \A j \in (i + d + 1)..Len(ox) : ox[j] # Notice => ox[j] > t
  BY <1>1, <1>7
<1> QED
  BY <1>1, <1>5, <1>6, <1>8 DEF ox, d

LEMMA StreamTypesNext ==
  ASSUME MemInv'
  PROVE  /\ Taken' \in Seq(Message) /\ Taken' \in Seq(Nat)
         /\ Waiting' \in Seq(Message) /\ Waiting' \in Seq(Nat)
         /\ output' \in Seq(Nat)
         /\ Backlog' = Taken' \o Waiting'
<1>1. /\ buffersToWrite' \in Seq(Buffer) /\ written' \in 0..Len(buffersToWrite')
      /\ m_buffers' \in Seq(Buffer) /\ m_curBuffer' \in Buffer /\ output' \in Seq(Nat)
  BY DEF MemInv, TypeOK, BuffersTyped, FileTyped
<1>2. Taken' = Flat(SubSeq(buffersToWrite', written' + 1, Len(buffersToWrite')))
  BY DEF Taken, Remaining, Flat
<1>3. Taken' \in Seq(Message) /\ Taken' \in Seq(Nat)
  BY <1>1, <1>2, RestOfBatch
<1>4. Waiting' = Flat(m_buffers' \o <<m_curBuffer'>>)
  BY DEF Waiting, Flat
<1>5. Waiting' \in Seq(Message) /\ Waiting' \in Seq(Nat)
  BY <1>1, <1>4, WaitingParts
<1>6. Backlog' = Taken' \o Waiting'
  <2> DEFINE r == SubSeq(buffersToWrite', written' + 1, Len(buffersToWrite'))
  <2>1. r \in Seq(Buffer)
    BY <1>1, RestOfBatch
  <2>2. Backlog' = Flat((r \o m_buffers') \o <<m_curBuffer'>>)
    BY DEF Backlog, Queue, Flat
  <2> HIDE DEF r
  <2>3. Backlog' = Flat(r) \o Flat(m_buffers' \o <<m_curBuffer'>>)
    BY <1>1, <2>1, <2>2, QueueParts
  <2> QED
    BY <1>2, <1>4, <2>3 DEF r
<1> QED
  BY <1>1, <1>3, <1>5, <1>6

\* The way back for a step: its parts are the invariant of the next state.
LEMMA OrderFromParts ==
  ASSUME output' \in Seq(Nat), Taken' \in Seq(Nat), Waiting' \in Seq(Nat),
         Ascending(output'), Ascending(Taken'), Ascending(Waiting'),
         Before(output', Taken'), Before(output', Waiting'), Before(Taken', Waiting'),
         InFile' \cup Elems(Taken') \cup Elems(Waiting') \cup dropped' = 1..pushed',
         dropped' \cap (InFile' \cup Elems(Taken') \cup Elems(Waiting')) = {},
         \A t \in dropped' : \E i \in DOMAIN output' : Announces(i, t)' /\ Pending(i, t)',
         wpc' = "exited" => flushed' = Len(output')
  PROVE  OrderInv'
<1>1. Ascending(output' \o (Taken' \o Waiting'))
  BY StreamBack
<1>2. Elems(Taken' \o Waiting') = Elems(Taken') \cup Elems(Waiting')
  BY StreamBack
<1>3. StreamInv'
  BY <1>1, <1>2 DEF StreamInv
<1>4. \A t \in dropped' : \E i \in DOMAIN output' : Announces(i, t)'
  OBVIOUS
<1> QED
  BY <1>3, <1>4 DEF OrderInv

LEMMA OrderInit == Init => OrderInv
<1> SUFFICES ASSUME Init PROVE OrderInv
  OBVIOUS
<1>1. /\ m_curBuffer = Fresh /\ m_buffers = <<>> /\ buffersToWrite = <<>> /\ written = 0
      /\ output = <<>> /\ dropped = {} /\ pushed = 0 /\ wpc = "unborn"
  BY DEF Init
<1>2. Fresh \in Buffer /\ Fresh.msgs = <<>>
  BY DEF Fresh, Buffer
<1>3. Taken = <<>>
  BY <1>1, MemInit, StreamTypes
<1>4. Waiting = <<>>
  <2>1. <<>> \o <<m_curBuffer>> = <<m_curBuffer>>
    OBVIOUS
  <2> QED
    BY <1>1, <1>2, <2>1, FlatOne DEF Waiting
<1>5. output \o (Taken \o Waiting) = <<>> /\ Taken \o Waiting = <<>>
  BY <1>1, <1>3, <1>4
<1>6. InFile = {} /\ Elems(Taken \o Waiting) = {} /\ 1..pushed = {}
  BY <1>1, <1>5 DEF InFile, Elems
<1> QED
  BY <1>1, <1>5, <1>6, AscendingOne DEF OrderInv, StreamInv

\* A step that keeps the file and the backlog, or ends the healthy life of the
\* logger without touching the file.
LEMMA OrderQuiet ==
  ASSUME MemInv, OrderInv, UNCHANGED <<output, dropped>>,
         Healthy' => /\ Healthy /\ UNCHANGED <<pushed, Taken, Waiting>>
                     /\ wpc' = wpc \/ wpc # "write" \/ Taken = <<>>
                     /\ wpc' = "exited" =>
                          flushed' = Len(output) \/ (wpc = "exited" /\ flushed' = flushed)
  PROVE  OrderInv'
<1>1. CASE ~Healthy'
  BY <1>1 DEF OrderInv, Announces
<1>2. CASE Healthy'
  <2>1. StreamInv
    BY <1>2 DEF OrderInv
  <2>2. UNCHANGED <<pushed, Taken, Waiting, output, dropped>>
    BY <1>2
  <2>3. ASSUME NEW t \in dropped, NEW i \in DOMAIN output, Pending(i, t) PROVE Pending(i, t)'
    <3>1. CASE Taken = <<>>
      BY <2>2, <2>3, <3>1, ElemsOne DEF Pending
    <3>2. CASE wpc' = wpc \/ wpc # "write"
      BY <2>2, <2>3, <3>2 DEF Pending
    <3> QED
      BY <1>2, <3>1, <3>2
  <2>4. ASSUME NEW t \in dropped, NEW i \in DOMAIN output, Announces(i, t) PROVE Announces(i, t)'
    BY <2>2, <2>4 DEF Announces
  <2>5. \A t \in dropped' : \E i \in DOMAIN output' : Announces(i, t)' /\ Pending(i, t)'
    BY <2>1, <2>2, <2>3, <2>4 DEF StreamInv
  <2>6. wpc' = "exited" => flushed' = Len(output')
    BY <1>2, <2>1, <2>2 DEF StreamInv
  <2>7. InFile' = InFile
    BY <2>2 DEF InFile
  <2>8. StreamInv'
    BY <2>1, <2>2, <2>5, <2>6, <2>7 DEF StreamInv
  <2> QED
    BY <1>2, <2>5, <2>2, <2>8 DEF OrderInv
<1> QED
  BY <1>1, <1>2

\* The message of a push is newer than all others.
LEMMA OrderPush ==
  ASSUME MemInv, MemInv', OrderInv, Healthy, NEW p \in Producers, Push(p)
  PROVE  OrderInv'
<1> DEFINE n == pushed + 1
           new == <<n>>
<1>1. /\ Taken' = Taken /\ Waiting' = Waiting \o new /\ pushed' = n
      /\ UNCHANGED <<output, dropped, wpc, flushed>>
  BY StreamPush DEF Push, fileVars
<1>2. pushed \in Nat /\ n \in Nat /\ new \in Seq(Nat) /\ Elems(new) = {n}
  BY StreamFacts, ElemsOne
<1>3. output \in Seq(Nat) /\ Taken \in Seq(Nat) /\ Waiting \in Seq(Nat)
  BY StreamTypes
<1> HIDE DEF new
<1>4. Elems(Waiting') = Elems(Waiting) \cup {n}
  BY <1>1, <1>2, <1>3, ElemsConcat
<1>5. \A a \in Elems(output) \cup Elems(Taken) \cup Elems(Waiting) \cup dropped : a < n
  BY <1>2, StreamFacts DEF Notice
<1>6. Before(output, new) /\ Before(Taken, new) /\ Before(Waiting, new)
  BY <1>2, <1>5, BeforeElems
<1>7. Ascending(Waiting')
  BY <1>1, <1>2, <1>3, <1>6, AscendingConcat, AscendingOne, StreamFacts DEF new
<1>8. Before(output, Waiting') /\ Before(Taken, Waiting')
  BY <1>2, <1>4, <1>6, BeforeElems, StreamFacts
<1>9. InFile' \cup Elems(Taken') \cup Elems(Waiting') \cup dropped' = 1..pushed'
  <2>1. 1..n = (1..pushed) \cup {n}
    BY <1>2
  <2>2. InFile' = InFile
    BY <1>1 DEF InFile
  <2> QED
    BY <1>1, <1>4, <2>1, <2>2, StreamFacts
<1>10. dropped' \cap (InFile' \cup Elems(Taken') \cup Elems(Waiting')) = {}
  <2>1. n \notin dropped
    BY <1>2, <1>5
  <2>2. InFile' = InFile
    BY <1>1 DEF InFile
  <2> QED
    BY <1>1, <1>4, <2>1, <2>2, StreamFacts
<1>11. \A t \in dropped' : \E i \in DOMAIN output' : Announces(i, t)' /\ Pending(i, t)'
  <2> SUFFICES ASSUME NEW t \in dropped
               PROVE  \E i \in DOMAIN output' : Announces(i, t)' /\ Pending(i, t)'
    BY <1>1
  <2>1. PICK i \in DOMAIN output : Announces(i, t) /\ Pending(i, t)
    BY StreamFacts
  <2>2. n > t
    <3>1. t < n /\ t \in 1..pushed
      BY <1>5, StreamFacts
    <3> QED
      BY <1>2, <3>1
  <2>3. Announces(i, t)'
    BY <1>1, <2>1 DEF Announces
  <2>4. Pending(i, t)'
    BY <1>1, <1>4, <2>1, <2>2 DEF Pending
  <2> QED
    BY <1>1, <2>3, <2>4
<1>12. wpc' = "exited" => flushed' = Len(output')
  BY <1>1, StreamFacts
<1>13. /\ output' \in Seq(Nat) /\ Taken' \in Seq(Nat) /\ Waiting' \in Seq(Nat)
       /\ Ascending(output') /\ Ascending(Taken')
       /\ Before(output', Taken') /\ Before(output', Waiting') /\ Before(Taken', Waiting')
  BY <1>1, <1>3, <1>8, StreamFacts, StreamTypesNext
<1> QED
  BY <1>7, <1>9, <1>10, <1>11, <1>12, <1>13, OrderFromParts

\* What the worker collects is the head of what waited.
LEMMA OrderCollect ==
  ASSUME MemInv, MemInv', OrderInv, Healthy, Collect
  PROVE  OrderInv'
<1>1. /\ Taken = <<>> /\ Waiting = Taken' \o Waiting'
      /\ UNCHANGED <<output, dropped, flushed, pushed>>
      /\ wpc' # "exited" /\ wpc # "write"
  BY StreamCollect DEF Collect, fileVars, pushVars
<1>2. output \in Seq(Nat) /\ Taken' \in Seq(Nat) /\ Waiting' \in Seq(Nat)
  BY StreamTypes, StreamTypesNext
<1>3. /\ Elems(Waiting) = Elems(Taken') \cup Elems(Waiting') /\ Elems(Taken) = {}
      /\ Ascending(Taken') /\ Ascending(Waiting') /\ Before(Taken', Waiting')
  <2>1. Elems(Taken' \o Waiting') = Elems(Taken') \cup Elems(Waiting')
    BY <1>2, ElemsConcat
  <2>2. Ascending(Taken' \o Waiting') <=>
          Ascending(Taken') /\ Ascending(Waiting') /\ Before(Taken', Waiting')
    BY <1>2, AscendingConcat
  <2>3. Ascending(Waiting)
    BY StreamFacts
  <2> QED
    BY <1>1, <2>1, <2>2, <2>3, ElemsOne
<1>4. Before(output', Taken') /\ Before(output', Waiting')
  BY <1>1, <1>3, BeforeElems, StreamFacts
<1>5. InFile' = InFile
  BY <1>1 DEF InFile
<1>6. /\ InFile' \cup Elems(Taken') \cup Elems(Waiting') \cup dropped' = 1..pushed'
      /\ dropped' \cap (InFile' \cup Elems(Taken') \cup Elems(Waiting')) = {}
  BY <1>1, <1>3, <1>5, StreamFacts
<1>7. \A t \in dropped' : \E i \in DOMAIN output' : Announces(i, t)' /\ Pending(i, t)'
  <2> SUFFICES ASSUME NEW t \in dropped
               PROVE  \E i \in DOMAIN output' : Announces(i, t)' /\ Pending(i, t)'
    BY <1>1
  <2>1. PICK i \in DOMAIN output : Announces(i, t) /\ Pending(i, t)
    BY StreamFacts
  <2>2. Announces(i, t)'
    BY <1>1, <2>1 DEF Announces
  <2>3. \A m \in Elems(Waiting) : m > t
    BY <2>1 DEF Pending
  <2>4. Pending(i, t)'
    BY <1>3, <2>3 DEF Pending
  <2> QED
    BY <1>1, <2>2, <2>4
<1> QED
  BY <1>1, <1>2, <1>3, <1>4, <1>6, <1>7, OrderFromParts, StreamFacts

\* A notice that still stands when x has been appended to the file.
LEMMA AnnouncesOn ==
  ASSUME output \in Seq(Nat), NEW x \in Seq(Nat), output' = output \o x,
         NEW t \in Nat, NEW i \in DOMAIN output, Announces(i, t),
         \/ \A m \in Elems(x) : m # Notice => m > t
         \/ Len(output) + Len(x) <= i + 2 * SIZE
  PROVE  i \in DOMAIN output' /\ Announces(i, t)'
<1> DEFINE o == output
           ox == o \o x
<1>1. /\ o \in Seq(Nat) /\ i \in DOMAIN o /\ o[i] = Notice
      /\ \A j \in 1..(i - 1) : o[j] < t
      /\ \A j \in (i + 2 * SIZE + 1)..Len(o) : o[j] # Notice => o[j] > t
      /\ \/ \A m \in Elems(x) : m # Notice => m > t
         \/ Len(o) + Len(x) <= i + 2 * SIZE
  BY DEF Announces
<1> HIDE DEF o
<1>2. /\ i \in DOMAIN ox /\ ox[i] = Notice
      /\ \A j \in 1..(i - 1) : ox[j] < t
      /\ \A j \in (i + 2 * SIZE + 1)..Len(ox) : ox[j] # Notice => ox[j] > t
  BY <1>1, StillAnnounces
<1>3. output' = ox
  BY DEF o
<1> QED
  BY <1>2, <1>3 DEF Announces

\* The file with a notice at its end.
LEMMA NoticeAppended ==
  ASSUME NEW o \in Seq(Nat)
  PROVE  LET on == o \o <<Notice>>
             n  == Len(o)
         IN  /\ on \in Seq(Nat) /\ Len(on) = n + 1 /\ n \in Nat
             /\ DOMAIN o = 1..n /\ DOMAIN on = 1..(n + 1)
             /\ \A j \in 1..n : on[j] = o[j]
             /\ on[n + 1] = Notice
             /\ Elems(on) = Elems(o) \cup {Notice}
             /\ Ascending(o) => Ascending(on)
<1> DEFINE x == <<Notice>>
           on == o \o x
           n == Len(o)
<1>1. Len(x) = 1 /\ x[1] = Notice /\ Elems(x) = {Notice} /\ Ascending(x)
  BY ElemsOne, AscendingOne DEF Notice
<1>2. x \in Seq(Nat)
  BY DEF Notice
<1> HIDE DEF x
<1>3. /\ n \in Nat /\ DOMAIN o = 1..n /\ DOMAIN on = 1..(n + Len(x)) /\ on \in Seq(Nat)
      /\ \A j \in 1..n : on[j] = o[j]
      /\ \A j \in 1..Len(x) : on[n + j] = x[j]
  BY <1>2, ConcatParts
<1>4. Len(on) = n + 1
  <2>1. Len(on) = n + Len(x)
    BY <1>2, ConcatProperties
  <2> QED
    BY <1>1, <2>1
<1>5. Elems(on) = Elems(o) \cup {Notice}
  BY <1>1, <1>2, ElemsConcat
<1>6. Ascending(o) => Ascending(on)
  <2>1. Before(o, x)
    BY <1>1, BeforeElems
  <2> QED
    BY <1>1, <1>2, <2>1, AscendingConcat
<1> HIDE DEF on, n
<1>7. DOMAIN on = 1..(n + 1) /\ on[n + 1] = Notice
  BY <1>1, <1>3
<1> QED
  BY <1>3, <1>4, <1>5, <1>6, <1>7 DEF on, n, x

\* A new notice accounts for whatever is newer than all of the file.
LEMMA NewNotice ==
  ASSUME NEW o \in Seq(Nat), NEW t \in Nat, \A m \in Elems(o) : m < t
  PROVE  LET on == o \o <<Notice>>
             i  == Len(o) + 1
         IN  /\ i \in DOMAIN on /\ on[i] = Notice /\ Len(on) = i
             /\ \A j \in 1..(i - 1) : on[j] < t
             /\ \A j \in (i + 2 * SIZE + 1)..Len(on) : on[j] # Notice => on[j] > t
<1> DEFINE on == o \o <<Notice>>
           m == Len(o)
           d == 2 * SIZE
<1>1. /\ m \in Nat /\ DOMAIN o = 1..m /\ DOMAIN on = 1..(m + 1) /\ Len(on) = m + 1
      /\ on[m + 1] = Notice
      /\ \A j \in 1..m : on[j] = o[j]
  BY NoticeAppended
<1>2. d \in Nat
  BY SizeAssumption
<1> HIDE DEF on, m, d
<1>3. \A j \in 1..m : on[j] < t
  BY <1>1 DEF Elems
<1>4. m + 1 \in DOMAIN on /\ (m + 1) - 1 = m
  BY <1>1
<1>5. \A j \in (m + 1 + d + 1)..Len(on) : FALSE
  BY <1>1, <1>2
<1> QED
  BY <1>1, <1>3, <1>4, <1>5 DEF on, m, d

\* A notice goes to the file and the messages it stands for are erased: those
\* behind the part of the batch that is kept.
LEMMA OrderDrop ==
  ASSUME MemInv, MemInv', OrderInv, Healthy, DropExcess
  PROVE  OrderInv'
<1>1. /\ Waiting' = Waiting /\ wpc = "drop" /\ wpc' = "write" /\ UNCHANGED <<pushed, flushed>>
  BY StreamDrop DEF DropExcess, pushVars
<1>2. CASE UNCHANGED <<output, dropped>> /\ Taken' = Taken
  BY <1>1, <1>2, OrderQuiet
<1>3. ASSUME NEW lost \in Seq(Message), Taken = Taken' \o lost, Taken' \in Seq(Message),
             Len(Taken') <= 2 * SIZE, output' = output \o <<Notice>>,
             dropped' = dropped \cup Elems(lost)
      PROVE  OrderInv'
  <2>1. /\ output \in Seq(Nat) /\ Taken' \in Seq(Nat) /\ Waiting \in Seq(Nat)
        /\ lost \in Seq(Nat) /\ Elems(lost) \subseteq Message /\ Elems(Taken') \subseteq Message
    BY <1>3, StreamTypes, StreamTypesNext, SeqMonotonic, ElemsType DEF Message
  <2>2. Elems(Taken) = Elems(Taken') \cup Elems(lost)
    <3>1. Elems(Taken' \o lost) = Elems(Taken') \cup Elems(lost)
      BY <2>1, ElemsConcat
    <3> QED
      BY <1>3, <3>1
  <2>3. Ascending(Taken') /\ Before(Taken', lost)
    <3>1. Ascending(Taken' \o lost) => Ascending(Taken') /\ Before(Taken', lost)
      BY <2>1, AscendingConcat
    <3> QED
      BY <1>3, <3>1, StreamFacts
  <2>4. Elems(output') = Elems(output) \cup {Notice} /\ Ascending(output') /\ output' \in Seq(Nat)
    <3>1. output \in Seq(Nat) /\ Ascending(output)
      BY <2>1, StreamFacts
    <3> QED
      BY <1>3, <3>1, NoticeAppended
  <2>5. Before(output', Taken') /\ Before(output', Waiting) /\ Before(Taken', Waiting)
    <3>1. /\ \A a \in Elems(output), b \in Elems(Taken) \cup Elems(Waiting) : b # Notice => a < b
          /\ \A a \in Elems(Taken), b \in Elems(Waiting) : b # Notice => a < b
      BY BeforeElems, StreamFacts
    <3>2. \A b \in Elems(Taken) \cup Elems(Waiting) : Notice < b
      BY StreamFacts DEF Message, Notice
    <3> QED
      BY <2>2, <2>4, <3>1, <3>2, BeforeElems
  <2>6. InFile' = InFile
    <3>1. InFile' = Elems(output') \ {Notice}
      BY DEF InFile, Elems
    <3> QED
      BY <2>4, <3>1, StreamFacts
  <2>7. /\ \A a \in Elems(output), b \in Elems(lost) : a < b
        /\ \A a \in Elems(Taken'), b \in Elems(lost) : a < b
        /\ \A a \in Elems(lost), b \in Elems(Waiting) : a < b
    <3>1. /\ \A a \in Elems(output), b \in Elems(Taken) : b # Notice => a < b
          /\ \A a \in Elems(Taken), b \in Elems(Waiting) : b # Notice => a < b
          /\ \A a \in Elems(Taken'), b \in Elems(lost) : b # Notice => a < b
      BY <2>3, BeforeElems, StreamFacts
    <3>2. \A b \in Elems(lost) \cup Elems(Waiting) : b # Notice
      BY <2>1, StreamFacts DEF Message, Notice
    <3> QED
      BY <2>2, <3>1, <3>2
  <2>8. InFile' \cup Elems(Taken') \cup Elems(Waiting') \cup dropped' = 1..pushed'
    BY <1>1, <1>3, <2>2, <2>6, StreamFacts
  <2>9. dropped' \cap (InFile' \cup Elems(Taken') \cup Elems(Waiting')) = {}
    <3>1. \A b \in Elems(lost) : b \in Nat /\ ~(b < b)
      BY <2>1 DEF Message
    <3>2. Elems(lost) \cap (Elems(output) \cup Elems(Taken') \cup Elems(Waiting)) = {}
      BY <2>7, <3>1
    <3>3. InFile \subseteq Elems(output)
      BY StreamFacts
    <3> QED
      BY <1>1, <1>3, <2>2, <2>6, <3>2, <3>3, StreamFacts
  <2>10. ASSUME NEW t \in dropped
         PROVE  \E i \in DOMAIN output' : Announces(i, t)' /\ Pending(i, t)'
    <3>1. PICK i \in DOMAIN output : Announces(i, t) /\ Pending(i, t)
      BY StreamFacts
    <3>2. t \in Nat
      BY StreamFacts
    <3>3. <<Notice>> \in Seq(Nat) /\ Elems(<<Notice>>) = {Notice}
      BY ElemsOne DEF Notice
    <3>4. i \in DOMAIN output' /\ Announces(i, t)'
      BY <1>3, <2>1, <3>1, <3>2, <3>3, AnnouncesOn
    <3>5. Pending(i, t)'
      BY <1>1, <2>2, <3>1 DEF Pending
    <3> QED
      BY <3>4, <3>5
  <2>11. ASSUME NEW t \in Elems(lost)
         PROVE  \E i \in DOMAIN output' : Announces(i, t)' /\ Pending(i, t)'
    <3>1. t \in Nat /\ \A m \in Elems(output) : m < t
      BY <2>1, <2>7 DEF Message
    <3>2. PICK i : i = Len(output) + 1
      OBVIOUS
    <3>3. /\ i \in DOMAIN output' /\ output'[i] = Notice /\ Len(output') = i
          /\ \A j \in 1..(i - 1) : output'[j] < t
          /\ \A j \in (i + 2 * SIZE + 1)..Len(output') : output'[j] # Notice => output'[j] > t
      BY <1>3, <2>1, <3>1, <3>2, NewNotice
    <3>4. Announces(i, t)'
      BY <3>3 DEF Announces
    <3>5. \A m \in Elems(Waiting) : m > t
      BY <2>7, <3>1, StreamFacts DEF Message
    <3>6. Len(output') + Len(Taken') <= i + 2 * SIZE
      <4>1. Len(Taken') \in Nat /\ i \in Nat /\ 2 * SIZE \in Nat
        BY <2>1, <3>2, SizeAssumption
      <4> QED
        BY <1>3, <3>3, <4>1
    <3>7. Pending(i, t)'
      BY <1>1, <3>5, <3>6 DEF Pending
    <3> QED
      BY <3>3, <3>4, <3>7
  <2>12. \A t \in dropped' : \E i \in DOMAIN output' : Announces(i, t)' /\ Pending(i, t)'
    BY <1>3, <2>10, <2>11
  <2>13. Ascending(Waiting') /\ Waiting' \in Seq(Nat) /\ Before(output', Waiting')
         /\ Before(Taken', Waiting')
    BY <1>1, <2>1, <2>5, StreamFacts
  <2> QED
    BY <1>1, <2>1, <2>3, <2>4, <2>5, <2>8, <2>9, <2>12, <2>13, OrderFromParts
<1> QED
  BY <1>2, <1>3, StreamDrop

\* A buffer moves from the head of the backlog to the end of the file.
LEMMA OrderWrite ==
  ASSUME MemInv, MemInv', OrderInv, Healthy, WriteBuffer
  PROVE  OrderInv'
<1>1. /\ Waiting' = Waiting /\ wpc = "write" /\ wpc' = "write"
      /\ UNCHANGED <<pushed, flushed, dropped>>
  BY StreamWrite DEF WriteBuffer, pushVars
<1>2. PICK x \in Seq(Message) : Taken = x \o Taken' /\ output' = output \o x
  BY StreamWrite
<1>3. /\ output \in Seq(Nat) /\ output' \in Seq(Nat) /\ Taken' \in Seq(Nat) /\ Waiting \in Seq(Nat)
      /\ x \in Seq(Nat) /\ Elems(x) \subseteq Message
  BY StreamTypes, StreamTypesNext, SeqMonotonic, ElemsType DEF Message
<1>4. Elems(Taken) = Elems(x) \cup Elems(Taken') /\ Elems(output') = Elems(output) \cup Elems(x)
  <2>1. Elems(x \o Taken') = Elems(x) \cup Elems(Taken')
    BY <1>3, ElemsConcat
  <2>2. Elems(output \o x) = Elems(output) \cup Elems(x)
    BY <1>3, ElemsConcat
  <2> QED
    BY <1>2, <2>1, <2>2
<1>5. Ascending(x) /\ Ascending(Taken') /\ Before(x, Taken')
  <2>1. Ascending(x \o Taken') => Ascending(x) /\ Ascending(Taken') /\ Before(x, Taken')
    BY <1>3, AscendingConcat
  <2> QED
    BY <1>2, <2>1, StreamFacts
<1>6. Before(output, x) /\ Before(output', Taken') /\ Before(output', Waiting)
      /\ Before(Taken', Waiting)
  <2>1. /\ \A a \in Elems(output), b \in Elems(Taken) \cup Elems(Waiting) : b # Notice => a < b
        /\ \A a \in Elems(Taken), b \in Elems(Waiting) : b # Notice => a < b
        /\ \A a \in Elems(x), b \in Elems(Taken') : b # Notice => a < b
    BY <1>5, BeforeElems, StreamFacts
  <2> QED
    BY <1>4, <2>1, BeforeElems
<1>7. Ascending(output')
  <2>1. Ascending(output \o x)
    BY <1>3, <1>5, <1>6, AscendingConcat, StreamFacts
  <2> QED
    BY <1>2, <2>1
<1>8. InFile' = InFile \cup Elems(x)
  <2>1. InFile' = Elems(output') \ {Notice}
    BY DEF InFile, Elems
  <2>2. Notice \notin Elems(x)
    BY <1>3 DEF Notice, Message
  <2> QED
    BY <1>4, <2>1, <2>2, StreamFacts
<1>9. /\ InFile' \cup Elems(Taken') \cup Elems(Waiting') \cup dropped' = 1..pushed'
      /\ dropped' \cap (InFile' \cup Elems(Taken') \cup Elems(Waiting')) = {}
  <2>1. InFile' \cup Elems(Taken') \cup Elems(Waiting')
          = InFile \cup Elems(Taken) \cup Elems(Waiting)
    BY <1>1, <1>4, <1>8
  <2> QED
    BY <1>1, <2>1, StreamFacts
<1>10. ASSUME NEW t \in dropped
       PROVE  \E i \in DOMAIN output' : Announces(i, t)' /\ Pending(i, t)'
  <2>1. PICK i \in DOMAIN output : Announces(i, t) /\ Pending(i, t)
    BY StreamFacts
  <2>2. t \in Nat
    BY StreamFacts
  <2>3. CASE \A m \in Elems(Taken) : m > t
    <3>1. i \in DOMAIN output' /\ Announces(i, t)'
      <4>1. \A m \in Elems(x) : m # Notice => m > t
        BY <1>4, <2>3
      <4> QED
        BY <1>2, <1>3, <2>1, <2>2, <4>1, AnnouncesOn
    <3>2. Pending(i, t)'
      BY <1>1, <1>4, <2>1, <2>3 DEF Pending
    <3> QED
      BY <3>1, <3>2
  <2>4. CASE Len(output) + Len(Taken) <= i + 2 * SIZE
    <3>1. /\ Len(Taken) = Len(x) + Len(Taken') /\ Len(output') = Len(output) + Len(x)
          /\ Len(x) \in Nat /\ Len(Taken') \in Nat /\ Len(output) \in Nat
      <4>1. Len(x \o Taken') = Len(x) + Len(Taken') /\ Len(output \o x) = Len(output) + Len(x)
        BY <1>3, ConcatProperties
      <4>2. Len(x) \in Nat /\ Len(Taken') \in Nat /\ Len(output) \in Nat
        BY <1>3
      <4> QED
        BY <1>2, <4>1, <4>2
    <3>2. i \in Nat /\ 2 * SIZE \in Nat
      <4>1. DOMAIN output \subseteq Nat
        BY <1>3
      <4> QED
        BY <4>1, SizeAssumption
    <3>3. Len(output) + Len(x) <= i + 2 * SIZE /\ Len(output') + Len(Taken') <= i + 2 * SIZE
      BY <2>4, <3>1, <3>2
    <3>4. i \in DOMAIN output' /\ Announces(i, t)'
      BY <1>2, <1>3, <2>1, <2>2, <3>3, AnnouncesOn
    <3>5. Pending(i, t)'
      BY <1>1, <2>1, <3>3 DEF Pending
    <3> QED
      BY <3>4, <3>5
  <2> QED
    BY <2>1, <2>3, <2>4 DEF Pending
<1>11. \A t \in dropped' : \E i \in DOMAIN output' : Announces(i, t)' /\ Pending(i, t)'
  BY <1>1, <1>10
<1>12. /\ Ascending(Waiting') /\ Waiting' \in Seq(Nat) /\ Before(output', Waiting')
       /\ Before(Taken', Waiting')
  BY <1>1, <1>3, <1>6, StreamFacts
<1> QED
  BY <1>1, <1>3, <1>5, <1>6, <1>7, <1>9, <1>11, <1>12, OrderFromParts

\* A failing worker may leave a notice or a part of a buffer in the file: what
\* is there is still in order, and every notice still stands.
LEMMA OrderFail ==
  ASSUME MemInv, MemInv', OrderInv, Healthy, Failing, dropped' = dropped, ~Healthy'
  PROVE  OrderInv'
<1>1. output \in Seq(Nat)
  BY StreamTypes
<1>2. CASE output' = output
  BY <1>2, OrderQuiet
<1>3. ASSUME NEW x \in Seq(Nat), output' = output \o x, Ascending(output \o x),
             \A i \in DOMAIN output : \A t \in dropped :
               Announces(i, t) /\ Pending(i, t) =>
                 \/ \A m \in Elems(x) : m # Notice => m > t
                 \/ Len(output) + Len(x) <= i + 2 * SIZE
      PROVE  OrderInv'
  <2>1. ASSUME NEW t \in dropped PROVE \E i \in DOMAIN output' : Announces(i, t)'
    <3>1. PICK i \in DOMAIN output : Announces(i, t) /\ Pending(i, t)
      BY StreamFacts
    <3>2. t \in Nat
      BY StreamFacts
    <3>3. i \in DOMAIN output' /\ Announces(i, t)'
      BY <1>1, <1>3, <3>1, <3>2, AnnouncesOn
    <3> QED
      BY <3>3
  <2> QED
    BY <1>3, <2>1 DEF OrderInv
<1>4. CASE output' = output \o <<Notice>>
  <2> DEFINE x == <<Notice>>
  <2>1. x \in Seq(Nat) /\ Elems(x) = {Notice}
    BY ElemsOne DEF Notice
  <2>2. Ascending(output \o x)
    BY <1>1, NoticeAppended, StreamFacts
  <2> HIDE DEF x
  <2> QED
    BY <1>3, <1>4, <2>1, <2>2 DEF x
<1>5. ASSUME NEW x \in Seq(Message), NEW y \in Seq(Message),
             wpc = "write", Taken = x \o y, output' = output \o x
      PROVE  OrderInv'
  <2>1. x \in Seq(Nat) /\ y \in Seq(Nat)
    BY <1>5, SeqMonotonic DEF Message
  <2>2. Elems(Taken) = Elems(x) \cup Elems(y) /\ Len(Taken) = Len(x) + Len(y)
    BY <1>5, <2>1, ElemsConcat, ConcatProperties
  <2>3. Ascending(x)
    <3>1. Ascending(x \o y) => Ascending(x)
      BY <2>1, AscendingConcat
    <3> QED
      BY <1>5, <3>1, StreamFacts
  <2>4. Before(output, x)
    BY <2>2, BeforeElems, StreamFacts
  <2>5. Ascending(output \o x)
    BY <1>1, <2>1, <2>3, <2>4, AscendingConcat, StreamFacts
  <2>6. ASSUME NEW i \in DOMAIN output, NEW t \in dropped, Pending(i, t)
        PROVE  \/ \A m \in Elems(x) : m # Notice => m > t
               \/ Len(output) + Len(x) <= i + 2 * SIZE
    <3>1. CASE \A m \in Elems(Taken) : m > t
      BY <2>2, <3>1
    <3>2. CASE Len(output) + Len(Taken) <= i + 2 * SIZE
      <4>1. Len(output) \in Nat /\ Len(x) \in Nat /\ Len(y) \in Nat /\ i \in Nat /\ 2 * SIZE \in Nat
        <5>1. DOMAIN output \subseteq Nat
          BY <1>1
        <5> QED
          BY <1>1, <2>1, <5>1, SizeAssumption
      <4>2. Len(output) + Len(x) <= i + 2 * SIZE
        BY <2>2, <3>2, <4>1
      <4> QED
        BY <4>2
    <3> QED
      BY <2>6, <3>1, <3>2 DEF Pending
  <2> QED
    BY <1>3, <1>5, <2>1, <2>5, <2>6
<1> QED
  BY <1>2, <1>4, <1>5, StreamFail

\* The steps that move neither a buffer nor a message.
LEMMA OrderOther ==
  ASSUME MemInv, StartInv, OrderInv, [Next]_vars, UNCHANGED <<output, dropped>>,
         UNCHANGED <<m_curBuffer, m_buffers, buffersToWrite, written, pushed>>,
         \/ wpc' = wpc /\ flushed' = flushed
         \/ wpc # "write" /\ wpc' # "exited"
         \/ wpc # "write" /\ flushed' = Len(output)
  PROVE  OrderInv'
<1>1. UNCHANGED <<Taken, Waiting>>
  BY StreamSame
<1>2. Healthy' => Healthy
  BY HealthyBefore
<1>3. /\ wpc' = wpc \/ wpc # "write" \/ Taken = <<>>
      /\ wpc' = "exited" => flushed' = Len(output) \/ (wpc = "exited" /\ flushed' = flushed)
  OBVIOUS
<1>4. UNCHANGED <<pushed, Taken, Waiting>>
  BY <1>1
<1> QED
  BY <1>2, <1>3, <1>4, OrderQuiet

LEMMA OrderStep ==
  ASSUME MemInv, MemInv', StartInv, OrderInv, [Next]_vars
  PROVE  OrderInv'
<1>1. CASE UNCHANGED vars
  BY <1>1, OrderOther DEF vars, memVars, fileVars, pushVars
<1>2. CASE Running /\ Constructor
  <2>1. /\ UNCHANGED <<memVars, fileVars, pushVars>>
        /\ wpc' = wpc \/ (wpc = "unborn" /\ wpc' = "start")
    <3>1. CASE SpawnThread
      BY <3>1 DEF SpawnThread, StartInv
    <3>2. CASE SpawnFails \/ AssignThread \/ AwaitLatch
      BY <3>2 DEF SpawnFails, AssignThread, AwaitLatch
    <3> QED
      BY <1>2, <3>1, <3>2 DEF Constructor
  <2> QED
    BY <2>1, OrderOther DEF memVars, fileVars, pushVars
<1>3. CASE Running /\ Worker
  <2>1. wpc # "failed" => Healthy
    BY <1>3 DEF Healthy
  <2>2. CASE WorkerStart \/ CheckDone \/ WaitForWork \/ TimeOut
    <3>1. /\ UNCHANGED <<m_curBuffer, m_buffers, buffersToWrite, written, fileVars, pushVars>>
          /\ \/ wpc' = wpc
             \/ wpc # "write" /\ wpc' # "exited"
      BY <2>2 DEF WorkerStart, CheckDone, SeesRunning, WaitForWork, TimeOut, memVars
    <3> QED
      BY <3>1, OrderOther DEF fileVars, pushVars
  <2>3. CASE WorkerExit
    BY <2>3, OrderOther DEF WorkerExit, SeesDone, pushVars
  <2>4. CASE Collect
    BY <2>1, <2>4, OrderCollect DEF Collect
  <2>5. CASE DropExcess
    BY <2>1, <2>5, OrderDrop DEF DropExcess
  <2>6. CASE WriteBuffer
    BY <2>1, <2>6, OrderWrite DEF WriteBuffer
  <2>7. CASE Recycle
    <3>1. Taken = <<>> /\ UNCHANGED <<Taken, Waiting>>
      BY <2>7, StreamRecycle
    <3>2. Healthy /\ wpc' # "exited" /\ UNCHANGED <<output, dropped, pushed>>
      BY <2>1, <2>7 DEF Recycle, pushVars
    <3> QED
      BY <3>1, <3>2, OrderQuiet
  <2>8. CASE WorkerThrows \/ WorkerCrashes
    <3>1. wpc # "failed" /\ Failing /\ dropped' = dropped /\ ~Healthy'
      BY <2>8 DEF WorkerThrows, WorkerCrashes, Failing, Healthy, Running
    <3> QED
      BY <2>1, <3>1, OrderFail
  <2> QED
    BY <1>3, <2>2, <2>3, <2>4, <2>5, <2>6, <2>7, <2>8 DEF Worker
<1>4. ASSUME Running, NEW p \in Producers, BeginPush(p) \/ Push(p) PROVE OrderInv'
  <2>1. CASE BeginPush(p)
    BY <2>1, OrderOther DEF BeginPush, memVars, fileVars
  <2>2. CASE Push(p) /\ Healthy
    BY <2>2, OrderPush
  <2>3. CASE Push(p) /\ ~Healthy
    <3>1. ~Healthy' /\ UNCHANGED <<output, dropped>>
      BY <2>3, HealthyBefore DEF Push, fileVars
    <3> QED
      BY <3>1, OrderQuiet
  <2> QED
    BY <1>4, <2>1, <2>2, <2>3
<1>5. ASSUME NEW c \in Closers, CallWaitDone(c) \/ DoDone(c) PROVE OrderInv'
  <2>1. UNCHANGED <<memVars, fileVars, pushVars, wpc>>
    BY <1>5 DEF CallWaitDone, DoDone, StoreDone, NotifyDone, BeginJoin, JoinReleased, EndJoin
  <2> QED
    BY <2>1, OrderOther DEF memVars, fileVars, pushVars
<1> QED
  BY <1>1, <1>2, <1>3, <1>4, <1>5 DEF Next, Step, Terminated

\* The whole invariant of AsyncLogging.
LoggingInv == MemInv /\ StartInv /\ OrderInv

LEMMA LoggingInvariant == Spec => []LoggingInv
<1>1. Init => LoggingInv
  BY MemInit, StartInit, OrderInit DEF LoggingInv
<1>2. LoggingInv /\ [Next]_vars => LoggingInv'
  <2> SUFFICES ASSUME LoggingInv, [Next]_vars PROVE LoggingInv'
    OBVIOUS
  <2>1. MemInv' /\ StartInv'
    BY MemStepParts, ThreadsStep, StartStep DEF LoggingInv, MemInv, TypeOK
  <2>2. OrderInv'
    BY <2>1, OrderStep DEF LoggingInv
  <2> QED
    BY <2>1, <2>2 DEF LoggingInv
<1> QED
  BY <1>1, <1>2, PTL DEF Spec

-----------------------------------------------------------------------------
\* The file holds the messages in the order of their pushes, each at most
\* once, for any number of producers and any sizes, failures included.
THEOREM KeepsOrder == Spec => []FileInOrder
<1>1. LoggingInv => FileInOrder
  BY DEF LoggingInv, OrderInv, Ascending, FileInOrder
<1> QED
  BY <1>1, LoggingInvariant, PTL

\* Every accepted message is in the file, in the queue or among the dropped
\* ones, and in one of them only, while the worker lives.
THEOREM LosesNothing == Spec => []Conserved
<1>1. LoggingInv => Conserved
  <2> SUFFICES ASSUME LoggingInv, Healthy
               PROVE  /\ InFile \cup MessagesOf(Queue) \cup dropped = 1..pushed
                      /\ InFile \cap MessagesOf(Queue) = {}
                      /\ dropped \cap (InFile \cup MessagesOf(Queue)) = {}
    BY DEF Conserved
  <2> USE DEF LoggingInv
  <2>1. MessagesOf(Queue) = Elems(Taken) \cup Elems(Waiting)
    BY StreamTypes, StreamFacts
  <2>2. \A a \in InFile, b \in MessagesOf(Queue) : a < b /\ b \in Nat
    BY <2>1, StreamFacts, BeforeElems DEF Message, Notice
  <2>3. InFile \cap MessagesOf(Queue) = {}
    BY <2>2
  <2> QED
    BY <2>1, <2>3, StreamFacts
<1> QED
  BY <1>1, LoggingInvariant, PTL

\* Whatever was dropped has a notice in the file, and the notice stands where
\* the messages are missing, within the two buffers that were kept.
THEOREM AnnouncesDrops == Spec => []DropAnnounced
<1>1. LoggingInv => DropAnnounced
  BY DEF LoggingInv, OrderInv, Announces, DropAnnounced
<1> QED
  BY <1>1, LoggingInvariant, PTL

\* What lies below all of W, where the two make up an initial run of numbers,
\* is an initial run itself.
LEMMA InitialRun ==
  ASSUME NEW n \in Nat, NEW D, NEW W, D \cup W = 1..n, \A d \in D, w \in W : d < w
  PROVE  \E k \in 0..n : D = 1..k
<1>1. CASE W = {}
  BY <1>1
<1>2. CASE W # {}
  <2>1. W \in SUBSET Nat /\ D \subseteq 1..n /\ W \subseteq 1..n
    OBVIOUS
  <2>2. PICK m \in W : \A w \in W : m <= w
    BY <1>2, <2>1, LeastNumber
  <2>3. m \in 1..n /\ m - 1 \in 0..n
    BY <2>1
  <2>4. \A d \in 1..n : d \in D => d <= m - 1
    BY <2>2, <2>3
  <2>5. \A d \in 1..(m - 1) : d \in 1..n /\ d \notin W
    BY <2>2, <2>3
  <2>6. D = 1..(m - 1)
    <3>1. \A d \in D : d \in 1..(m - 1)
      BY <2>1, <2>3, <2>4
    <3>2. \A d \in 1..(m - 1) : d \in D
      BY <2>5
    <3> QED
      BY <3>1, <3>2
  <2> QED
    BY <2>3, <2>6
<1> QED
  BY <1>1, <1>2

\* A worker that has finished leaves an initial run of the accepted messages
\* on disk or announced as dropped, never a hole.
THEOREM ExitsWithoutHole == Spec => []ExitKeepsPrefix
<1>1. LoggingInv => ExitKeepsPrefix
  <2> SUFFICES ASSUME LoggingInv, Healthy, wpc = "exited"
               PROVE  \E k \in 0..pushed : OnDisk \cup dropped = 1..k
    BY DEF ExitKeepsPrefix
  <2> USE DEF LoggingInv
  <2>1. Elems(Taken) = {}
    BY StreamTypes, ElemsOne
  <2>2. OnDisk = InFile
    <3>1. flushed = Len(output) /\ DOMAIN output = 1..Len(output)
      BY StreamFacts, StreamTypes
    <3> QED
      BY <3>1 DEF OnDisk, InFile
  <2>3. (InFile \cup dropped) \cup Elems(Waiting) = 1..pushed /\ pushed \in Nat
    BY <2>1, StreamFacts
  <2>4. \A d \in InFile, w \in Elems(Waiting) : d < w
    BY StreamFacts, BeforeElems DEF Message, Notice
  <2>5. \A d \in dropped, w \in Elems(Waiting) : d < w
    <3> SUFFICES ASSUME NEW d \in dropped, NEW w \in Elems(Waiting) PROVE d < w
      OBVIOUS
    <3>1. w > d /\ d \in Nat /\ w \in Nat
      BY StreamFacts DEF Pending, Message
    <3> QED
      BY <3>1
  <2>6. \E k \in 0..pushed : InFile \cup dropped = 1..k
    <3> DEFINE D == InFile \cup dropped
               W == Elems(Waiting)
    <3>1. D \cup W = 1..pushed /\ \A d \in D, w \in W : d < w
      BY <2>3, <2>4, <2>5
    <3> HIDE DEF D, W
    <3>2. \E k \in 0..pushed : D = 1..k
      BY <2>3, <3>1, InitialRun
    <3> QED
      BY <3>2 DEF D
  <2> QED
    BY <2>2, <2>6
<1> QED
  BY <1>1, LoggingInvariant, PTL

-----------------------------------------------------------------------------
(***************************************************************************)
(* AsyncLogging implements LogStream.                                      *)
(***************************************************************************)
LEMMA SplitConcat ==
  ASSUME NEW S, NEW s \in Seq(S), NEW t \in Seq(S)
  PROVE  /\ SubSeq(s \o t, 1, Len(s)) = s
         /\ SubSeq(s \o t, Len(s) + 1, Len(s \o t)) = t
<1> DEFINE st == s \o t
           m == Len(s)
           n == Len(t)
<1>1. /\ m \in Nat /\ n \in Nat /\ st \in Seq(S) /\ Len(st) = m + n
      /\ \A i \in 1..m : st[i] = s[i]
      /\ \A i \in 1..n : st[m + i] = t[i]
  BY ConcatParts, ConcatProperties
<1> HIDE DEF st, m, n
<1>2. \A i \in 1..(m + n) : st[i] \in S
  BY <1>1, ElementOfSeq
<1>3. SubSeq(st, 1, m) = s
  <2>1. 1 \in Int /\ m \in Int /\ \A i \in 1..m : st[i] \in S
    BY <1>1, <1>2
  <2>2. /\ SubSeq(st, 1, m) \in Seq(S)
        /\ Len(SubSeq(st, 1, m)) = IF 1 <= m THEN m - 1 + 1 ELSE 0
        /\ \A i \in 1..(m - 1 + 1) : SubSeq(st, 1, m)[i] = st[1 + i - 1]
    BY <2>1, SubSeqProperties
  <2>3. Len(SubSeq(st, 1, m)) = m /\ \A i \in 1..m : i \in 1..(m - 1 + 1) /\ 1 + i - 1 = i
    BY <1>1, <2>2
  <2>4. \A i \in 1..m : SubSeq(st, 1, m)[i] = s[i]
    BY <1>1, <2>2, <2>3
  <2> QED
    BY <2>2, <2>3, <2>4, SeqEqual DEF m
<1>4. SubSeq(st, m + 1, Len(st)) = t
  <2>1. m + 1 \in Int /\ m + n \in Int /\ \A i \in (m + 1)..(m + n) : st[i] \in S
    BY <1>1, <1>2
  <2>2. /\ SubSeq(st, m + 1, m + n) \in Seq(S)
        /\ Len(SubSeq(st, m + 1, m + n)) = IF m + 1 <= m + n THEN (m + n) - (m + 1) + 1 ELSE 0
        /\ \A i \in 1..((m + n) - (m + 1) + 1) :
             SubSeq(st, m + 1, m + n)[i] = st[(m + 1) + i - 1]
    BY <2>1, SubSeqProperties
  <2>3. /\ Len(SubSeq(st, m + 1, m + n)) = n
        /\ \A i \in 1..n : i \in 1..((m + n) - (m + 1) + 1) /\ (m + 1) + i - 1 = m + i
    BY <1>1, <2>2
  <2>4. \A i \in 1..n : SubSeq(st, m + 1, m + n)[i] = t[i]
    BY <1>1, <2>2, <2>3
  <2>5. SubSeq(st, m + 1, m + n) = t
    BY <2>2, <2>3, <2>4, SeqEqual DEF n
  <2> QED
    BY <1>1, <2>5
<1> QED
  BY <1>3, <1>4 DEF st, m

LEMMA MapsInit == Init => LS!Init
<1> SUFFICES ASSUME Init PROVE LS!Init
  OBVIOUS
<1>1. pushed = 0 /\ output = <<>>
  BY DEF Init
<1>2. Backlog = <<>>
  <2>1. /\ m_curBuffer = Fresh /\ m_buffers = <<>> /\ Fresh \in Buffer /\ Fresh.msgs = <<>>
    BY DEF Init, Fresh, Buffer
  <2>2. <<>> \o <<m_curBuffer>> = <<m_curBuffer>>
    OBVIOUS
  <2>3. Waiting = <<>>
    BY <2>1, <2>2, FlatOne DEF Waiting
  <2>4. Taken = <<>>
    BY MemInit, StreamTypes DEF Init
  <2>5. Backlog = Taken \o Waiting
    BY MemInit, StreamTypes
  <2> QED
    BY <2>3, <2>4, <2>5
<1> QED
  BY <1>1, <1>2 DEF LS!Init

\* A push is Accept.
LEMMA MapsPush ==
  ASSUME MemInv, MemInv', NEW p \in Producers, Push(p)
  PROVE  LS!Accept
<1> DEFINE n == pushed + 1
<1>1. Taken' = Taken /\ Waiting' = Waiting \o <<n>> /\ pushed' = n /\ output' = output
  BY StreamPush DEF Push, fileVars
<1>2. n \in Nat
  BY DEF MemInv, TypeOK, ThreadsTyped
<1>3. Taken \in Seq(Nat) /\ Waiting \in Seq(Nat) /\ Backlog = Taken \o Waiting
      /\ Backlog' = Taken' \o Waiting'
  BY StreamTypes, StreamTypesNext
<1> HIDE DEF n
<1>4. Waiting \o <<n>> = Append(Waiting, n)
  BY <1>2, <1>3, AppendIsConcat
<1>5. Taken \o Append(Waiting, n) = Append(Taken \o Waiting, n)
  BY <1>2, <1>3, AppendToConcat
<1>6. Backlog' = Append(Backlog, n)
  BY <1>1, <1>3, <1>4, <1>5
<1> QED
  BY <1>1, <1>6 DEF LS!Accept, n

\* Collecting the filled buffers changes nothing for an observer.
LEMMA MapsCollect ==
  ASSUME MemInv, MemInv', Collect
  PROVE  UNCHANGED <<pushed, Backlog, output>>
<1>1. Taken = <<>> /\ Taken' \o Waiting' = Waiting
  BY StreamCollect
<1>2. Waiting \in Seq(Nat) /\ Backlog = Taken \o Waiting /\ Backlog' = Taken' \o Waiting'
  BY StreamTypes, StreamTypesNext
<1>3. <<>> \o Waiting = Waiting
  BY <1>2, ConcatEmptySeq
<1>4. Backlog' = Backlog
  BY <1>1, <1>2, <1>3
<1> QED
  BY <1>4 DEF Collect, fileVars, pushVars

\* Cutting a batch down is Cut: behind what is kept of the batch, as long as
\* what is erased.
LEMMA MapsDrop ==
  ASSUME MemInv, MemInv', DropExcess
  PROVE  \/ UNCHANGED <<pushed, Backlog, output>>
         \/ \E i \in 0..Len(Backlog) : \E j \in i..Len(Backlog) : LS!Cut(i, j)
<1>1. Waiting' = Waiting /\ pushed' = pushed
  BY StreamDrop DEF DropExcess, pushVars
<1>2. /\ Taken \in Seq(Message) /\ Waiting \in Seq(Message) /\ output \in Seq(Nat)
      /\ Backlog = Taken \o Waiting /\ Backlog' = Taken' \o Waiting'
  BY StreamTypes, StreamTypesNext
<1>3. CASE UNCHANGED <<output, dropped>> /\ Taken' = Taken
  BY <1>1, <1>2, <1>3
<1>4. ASSUME NEW lost \in Seq(Message), Taken = Taken' \o lost, Taken' \in Seq(Message),
             output' = output \o <<Notice>>
      PROVE  \E i \in 0..Len(Backlog) : \E j \in i..Len(Backlog) : LS!Cut(i, j)
  <2>1. PICK i : i = Len(Taken')
    OBVIOUS
  <2>2. PICK j : j = Len(Taken') + Len(lost)
    OBVIOUS
  <2>3. Backlog = Taken' \o (lost \o Waiting) /\ lost \o Waiting \in Seq(Message)
    <3>1. (Taken' \o lost) \o Waiting = Taken' \o (lost \o Waiting)
      BY <1>2, <1>4, ConcatAssociative
    <3>2. lost \o Waiting \in Seq(Message)
      BY <1>2, ConcatProperties
    <3> QED
      BY <1>2, <1>4, <3>1, <3>2
  <2>4. SubSeq(Backlog, 1, i) = Taken'
    <3> DEFINE behind == lost \o Waiting
    <3>1. behind \in Seq(Message) /\ Backlog = Taken' \o behind
      BY <2>3
    <3> HIDE DEF behind
    <3> QED
      BY <1>4, <2>1, <3>1, SplitConcat
  <2>5. SubSeq(Backlog, j + 1, Len(Backlog)) = Waiting
    <3>1. Len(Taken) = j
      <4>1. Len(Taken' \o lost) = Len(Taken') + Len(lost)
        BY <1>4, ConcatProperties
      <4> QED
        BY <1>4, <2>2, <4>1
    <3> QED
      BY <1>2, <3>1, SplitConcat
  <2>6. i \in 0..Len(Backlog) /\ j \in i..Len(Backlog)
    <3>1. Len(Taken \o Waiting) = Len(Taken) + Len(Waiting) /\ Len(Taken' \o lost) = j
      BY <1>2, <1>4, <2>2, ConcatProperties
    <3>2. /\ Len(Taken') \in Nat /\ Len(lost) \in Nat /\ Len(Waiting) \in Nat
          /\ Len(Backlog) = j + Len(Waiting)
      BY <1>2, <1>4, <3>1
    <3> QED
      BY <2>1, <2>2, <3>2
  <2>7. output' = Append(output, Notice)
    <3>1. Notice \in Nat
      BY DEF Notice
    <3> QED
      BY <1>2, <1>4, <3>1, AppendIsConcat
  <2>8. LS!Cut(i, j)
    BY <1>1, <1>2, <2>4, <2>7, <2>5 DEF LS!Cut
  <2> QED
    BY <2>8, <2>6
<1> QED
  BY <1>3, <1>4, StreamDrop

\* Writing a buffer is Write, as far as the buffer goes; an empty one does not
\* show.
LEMMA MapsWrite ==
  ASSUME MemInv, MemInv', WriteBuffer
  PROVE  \/ UNCHANGED <<pushed, Backlog, output>>
         \/ \E n \in 1..Len(Backlog) : LS!Write(n)
<1>1. Waiting' = Waiting /\ pushed' = pushed /\ Taken' \in Seq(Message)
  BY StreamWrite DEF WriteBuffer, pushVars
<1>2. PICK x \in Seq(Message) : Taken = x \o Taken' /\ output' = output \o x
  BY StreamWrite
<1>3. /\ Waiting \in Seq(Message) /\ output \in Seq(Nat)
      /\ Backlog = Taken \o Waiting /\ Backlog' = Taken' \o Waiting'
  BY StreamTypes, StreamTypesNext
<1> DEFINE rest == Taken' \o Waiting
           n == Len(x)
<1>4. rest \in Seq(Message) /\ Backlog = x \o rest /\ Backlog' = rest
  <2>1. (x \o Taken') \o Waiting = x \o (Taken' \o Waiting)
    <3>1. x \in Seq(Message) /\ Taken' \in Seq(Message) /\ Waiting \in Seq(Message)
      BY <1>1, <1>3
    <3> QED
      BY ONLY <3>1, ConcatAssociative
  <2>2. rest \in Seq(Message)
    BY <1>1, <1>3, ConcatProperties
  <2> QED
    BY <1>1, <1>2, <1>3, <2>1, <2>2
<1> HIDE DEF rest
<1>5. SubSeq(Backlog, 1, n) = x /\ SubSeq(Backlog, n + 1, Len(Backlog)) = rest
  BY <1>4, SplitConcat
<1>6. n \in 0..Len(Backlog)
  <2>1. Len(x \o rest) = Len(x) + Len(rest) /\ Len(x) \in Nat /\ Len(rest) \in Nat
    BY <1>4, ConcatProperties
  <2> QED
    BY <1>4, <2>1
<1>7. CASE n = 0
  <2>1. x = <<>>
    BY <1>7
  <2>2. output \o <<>> = output /\ <<>> \o rest = rest
    BY <1>3, <1>4, ConcatEmptySeq
  <2> QED
    BY <1>1, <1>2, <1>4, <2>1, <2>2
<1>8. CASE n # 0
  <2>1. LS!Write(n)
    BY <1>1, <1>2, <1>4, <1>5 DEF LS!Write
  <2>2. n \in 1..Len(Backlog)
    BY <1>6, <1>8
  <2> QED
    BY <2>1, <2>2
<1> QED
  BY <1>7, <1>8

LEMMA MapsStep ==
  ASSUME ~Failures, MemInv, MemInv', [Next]_vars
  PROVE  [LS!Next]_LS!vars
<1>1. CASE UNCHANGED <<pushed, Backlog, output>>
  BY <1>1 DEF LS!vars
<1>2. CASE \E p \in Producers : Push(p)
  BY <1>2, MapsPush DEF LS!Next
<1>3. CASE DropExcess
  BY <1>1, <1>3, MapsDrop DEF LS!Next
<1>4. CASE WriteBuffer
  BY <1>1, <1>4, MapsWrite DEF LS!Next
<1>5. CASE Collect
  BY <1>1, <1>5, MapsCollect
<1>6. CASE Recycle
  <2>1. Taken = <<>> /\ Taken' = <<>> /\ Waiting' = Waiting
    BY <1>6, StreamRecycle
  <2>2. Backlog = Taken \o Waiting /\ Backlog' = Taken' \o Waiting'
    BY StreamTypes, StreamTypesNext
  <2>3. UNCHANGED <<pushed, output>>
    BY <1>6 DEF Recycle, pushVars
  <2> QED
    BY <1>1, <2>1, <2>2, <2>3
<1>7. CASE UNCHANGED <<m_curBuffer, m_buffers, buffersToWrite, written, pushed, output>>
  <2>1. Backlog' = Backlog
    BY <1>7, StreamSame
  <2> QED
    BY <1>1, <1>7, <2>1
<1>8. CASE Constructor
  BY <1>7, <1>8 DEF Constructor, SpawnThread, SpawnFails, AssignThread, AwaitLatch, memVars,
                    fileVars, pushVars
<1>9. CASE WorkerStart \/ CheckDone \/ WorkerExit \/ WaitForWork \/ TimeOut
  BY <1>7, <1>9 DEF WorkerStart, CheckDone, WorkerExit, WaitForWork, TimeOut, memVars, fileVars,
                    pushVars
<1>10. CASE WorkerThrows \/ WorkerCrashes
  BY <1>10 DEF WorkerThrows, WorkerCrashes
<1>11. CASE \E p \in Producers : BeginPush(p)
  BY <1>7, <1>11 DEF BeginPush, memVars, fileVars
<1>12. CASE \E c \in Closers : CallWaitDone(c) \/ DoDone(c)
  BY <1>7, <1>12 DEF CallWaitDone, DoDone, StoreDone, NotifyDone, BeginJoin, JoinReleased, EndJoin,
                     memVars, fileVars, pushVars
<1>13. CASE UNCHANGED vars
  BY <1>7, <1>13 DEF vars, memVars, fileVars, pushVars
<1> QED
  BY <1>2, <1>3, <1>4, <1>5, <1>6, <1>8, <1>9, <1>10, <1>11, <1>12, <1>13
     DEF Next, Step, Worker, Terminated

\* As long as nothing fails, the threads, the buffers and the recycling of
\* their storage implement one queue that is drained from its head, from which
\* messages vanish only when a notice is written.
THEOREM RefinesLogStream ==
  ASSUME ~Failures
  PROVE  Spec => ImplementsLogStream
<1>1. Init => LS!Init
  BY MapsInit
<1>2. LoggingInv /\ LoggingInv' /\ [Next]_vars => [LS!Next]_LS!vars
  BY MapsStep DEF LoggingInv
<1> QED
  BY <1>1, <1>2, LoggingInvariant, PTL DEF Spec, ImplementsLogStream, LS!Spec
=============================================================================
