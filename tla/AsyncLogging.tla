----------------------------- MODULE AsyncLogging -----------------------------
(***************************************************************************)
(* AsyncLogging (src/async_logging.cc): producer threads push messages     *)
(* into a current buffer under m_mtx; one worker thread takes the filled   *)
(* buffers, formats them into the log file and recycles their storage;     *)
(* waitDone() and the destructor stop the worker and join it.              *)
(*                                                                         *)
(* A critical section of m_mtx holds no blocking call but wait_for, so it  *)
(* is one action.  m_done is read and written outside of m_mtx, in actions *)
(* of its own.                                                             *)
(***************************************************************************)
EXTENDS FixedBuffer, FiniteSets

CONSTANTS
  Producers,   \* threads that call pushMsg
  Closers,     \* threads that call waitDone or the destructor
  DropLimit,   \* a batch of more buffers than this is cut down (100)
  MaxPushes,   \* bound on the calls of pushMsg
  NDEBUG,      \* TRUE: assert() is compiled out
  Failures     \* TRUE: creating the thread, opening or writing a file may fail

ASSUME ConstantsAssumption ==
  /\ DropLimit \in Nat /\ DropLimit >= 2
  /\ MaxPushes \in Nat
  /\ NDEBUG \in BOOLEAN /\ Failures \in BOOLEAN

VARIABLES
  m_curBuffer, m_nextBuffer, m_buffers,     \* guarded by m_mtx
  newBuffer1, newBuffer2, buffersToWrite,   \* locals of thread_worker
  written,     \* buffers of buffersToWrite the range-for has passed
  heap,        \* blocks allocated with new[] and not yet deleted
  output,      \* what was appended to the log file: messages and notices
  flushed,     \* length of the prefix of output that flush() handed over
  dropped,     \* messages erased from an overlong batch
  m_thread, m_latch,
  cpc,         \* where the constructor is
  m_done,
  dpc,         \* where each closer is
  owed,        \* value of pushed when the closer's call began
  ppc,         \* where each producer is
  pushed,      \* number of messages accepted by pushMsg
  wpc, woken,  \* where the worker is; whether its wait_for has returned
  process      \* "running", or how it died: "aborted" (by assert), "terminated"
               \* (by ~thread) or "crashed"

memVars   == <<m_curBuffer, m_nextBuffer, m_buffers, newBuffer1, newBuffer2,
               buffersToWrite, written, heap>>
fileVars  == <<output, flushed, dropped>>
startVars == <<m_thread, m_latch, cpc>>
stopVars  == <<m_done, dpc, owed>>
pushVars  == <<ppc, pushed>>
vars == <<memVars, fileVars, startVars, stopVars, pushVars, wpc, woken, process>>

Notice == 0      \* the "Dropped log messages" line

Init ==
  /\ m_curBuffer = Fresh /\ m_nextBuffer = Fresh /\ m_buffers = <<>>
  /\ newBuffer1 = MovedFrom /\ newBuffer2 = MovedFrom
  /\ buffersToWrite = <<>> /\ written = 0 /\ heap = 2
  /\ output = <<>> /\ flushed = 0 /\ dropped = {}
  /\ m_thread = "null" /\ m_latch = 1 /\ cpc = "spawn" /\ m_done = FALSE
  /\ dpc = [c \in Closers |-> "idle"] /\ owed = [c \in Closers |-> 0]
  /\ ppc = [p \in Producers |-> "idle"] /\ pushed = 0
  /\ wpc = "unborn" /\ woken = FALSE /\ process = "running"

(***************************************************************************)
(* The constructor.  The thread runs before m_thread holds it.             *)
(***************************************************************************)
SpawnThread ==
  /\ cpc = "spawn"
  /\ cpc' = "assign" /\ wpc' = "start"
  /\ UNCHANGED <<memVars, fileVars, stopVars, pushVars, m_thread, m_latch, woken, process>>

\* No thread could be created: catch (...), do_done(), throw.
SpawnFails ==
  /\ Failures /\ cpc = "spawn"
  /\ cpc' = "threw" /\ m_done' = TRUE
  /\ UNCHANGED <<memVars, fileVars, pushVars, m_thread, m_latch, dpc, owed, wpc, woken, process>>

AssignThread ==
  /\ cpc = "assign"
  /\ cpc' = "latch" /\ m_thread' = "joinable"
  /\ UNCHANGED <<memVars, fileVars, stopVars, pushVars, m_latch, wpc, woken, process>>

MutantNoWait == TRUE
LatchOpen    == m_latch = 0

AwaitLatch ==
  /\ cpc = "latch" /\ LatchOpen
  /\ cpc' = "returned"
  /\ UNCHANGED <<memVars, fileVars, stopVars, pushVars, m_thread, m_latch, wpc, woken, process>>

Constructor == SpawnThread \/ SpawnFails \/ AssignThread \/ AwaitLatch

(***************************************************************************)
(* pushMsg: the assertion, then the critical section.                      *)
(***************************************************************************)
BeginPush(p) ==
  /\ cpc = "returned" /\ ppc[p] = "idle"
  /\ pushed + Cardinality({q \in Producers : ppc[q] = "locking"}) < MaxPushes
  /\ IF NDEBUG \/ ~m_done
     THEN ppc' = [ppc EXCEPT ![p] = "locking"] /\ UNCHANGED process
     ELSE process' = "aborted" /\ UNCHANGED ppc
  /\ UNCHANGED <<memVars, fileVars, startVars, stopVars, pushed, wpc, woken>>

NotifyWorker == woken' = (woken \/ wpc = "wait")

MutantNoSave == UNCHANGED m_buffers
SaveCurrent  == m_buffers' = Append(m_buffers, m_curBuffer)

\* Replace the full current buffer by the spare one, or by a new one.
SwitchBuffer(msg) ==
  /\ SaveCurrent
  /\ IF m_nextBuffer.valid
     THEN /\ m_curBuffer' = push(m_nextBuffer, msg)
          /\ m_nextBuffer' = MovedFrom
          /\ UNCHANGED heap
     ELSE /\ m_curBuffer' = push(Fresh, msg)
          /\ heap' = heap + 1
          /\ UNCHANGED m_nextBuffer

Push(p) ==
  /\ ppc[p] = "locking"
  /\ \/ /\ avail(m_curBuffer) > 0
        /\ m_curBuffer' = push(m_curBuffer, pushed + 1)
        /\ UNCHANGED <<m_nextBuffer, m_buffers, heap, woken>>
     \/ /\ avail(m_curBuffer) <= 0
        /\ SwitchBuffer(pushed + 1)
        /\ NotifyWorker
  /\ pushed' = pushed + 1 /\ ppc' = [ppc EXCEPT ![p] = "idle"]
  /\ UNCHANGED <<newBuffer1, newBuffer2, buffersToWrite, written, fileVars, startVars, stopVars,
                 wpc, process>>

(***************************************************************************)
(* thread_worker.                                                          *)
(***************************************************************************)
BlocksIn(bs) == Cardinality({i \in DOMAIN bs : bs[i].valid})

WorkerStart ==
  /\ wpc = "start"
  /\ newBuffer1' = Fresh /\ newBuffer2' = Fresh /\ heap' = heap + 2
  /\ wpc' = "check"
  /\ UNCHANGED <<m_curBuffer, m_nextBuffer, m_buffers, buffersToWrite, written, fileVars,
                 startVars, stopVars, pushVars, woken, process>>

MutantLoopOn  == wpc = "check"
SeesRunning   == wpc = "check" /\ ~m_done
MutantQuit    == wpc \in {"check", "write"} /\ m_done
SeesDone      == wpc = "check" /\ m_done

CheckDone ==
  /\ SeesRunning
  /\ wpc' = "lock"
  /\ UNCHANGED <<memVars, fileVars, startVars, stopVars, pushVars, woken, process>>

\* m_done was seen: the last flush, then the locals are destroyed.
WorkerExit ==
  /\ SeesDone
  /\ flushed' = Len(output)
  /\ newBuffer1' = MovedFrom /\ newBuffer2' = MovedFrom
  /\ heap' = heap - BlocksIn(<<newBuffer1, newBuffer2>>)
  /\ wpc' = "exited"
  /\ UNCHANGED <<m_curBuffer, m_nextBuffer, m_buffers, buffersToWrite, written, output, dropped,
                 startVars, stopVars, pushVars, woken, process>>

MutantCountAgain == m_latch' = m_latch - 1
CountDownOnce    == m_latch' = 0

\* Nothing queued: count the latch down once, release m_mtx and wait.
WaitForWork ==
  /\ wpc = "lock" /\ m_buffers = <<>>
  /\ CountDownOnce /\ woken' = FALSE
  /\ wpc' = "wait"
  /\ UNCHANGED <<memVars, fileVars, m_thread, cpc, stopVars, pushVars, process>>

\* m_flushInterval elapses (or the wait ends spuriously).
TimeOut ==
  /\ wpc = "wait" /\ ~woken
  /\ woken' = TRUE
  /\ UNCHANGED <<memVars, fileVars, startVars, stopVars, pushVars, wpc, process>>

MutantRefillNext == m_nextBuffer' = newBuffer2 /\ newBuffer2' = MovedFrom

\* Storage for the next switch of the producers.
RefillNext ==
  IF m_nextBuffer.valid
  THEN UNCHANGED <<m_nextBuffer, newBuffer2>>
  ELSE m_nextBuffer' = newBuffer2 /\ newBuffer2' = MovedFrom

MutantTakes     == avail(m_curBuffer) > 0 /\ m_buffers # <<>>
TakesCurrent    == avail(m_curBuffer) > 0
MutantNextBatch == IF TakesCurrent THEN <<m_curBuffer>> \o m_buffers ELSE m_buffers
NextBatch       == IF TakesCurrent THEN Append(m_buffers, m_curBuffer) ELSE m_buffers

\* The rest of the critical section: swap the queue for the empty batch.
Collect ==
  /\ \/ wpc = "lock" /\ m_buffers # <<>>
     \/ wpc = "wait" /\ woken
  /\ m_curBuffer' = IF TakesCurrent THEN newBuffer1 ELSE m_curBuffer
  /\ newBuffer1' = IF TakesCurrent THEN MovedFrom ELSE newBuffer1
  /\ buffersToWrite' = NextBatch /\ m_buffers' = buffersToWrite
  /\ RefillNext
  /\ wpc' = IF NextBatch = <<>> THEN "check" ELSE "drop"
  /\ UNCHANGED <<written, heap, fileVars, startVars, stopVars, pushVars, woken, process>>

MessagesOf(bs) == UNION {{bs[i].msgs[k] : k \in DOMAIN bs[i].msgs} : i \in DOMAIN bs}

MutantNotice == output
WithNotice   == Append(output, Notice)

DropExcess ==
  /\ wpc = "drop"
  /\ IF Len(buffersToWrite) > DropLimit
     THEN LET erased == SubSeq(buffersToWrite, 3, Len(buffersToWrite))
          IN  /\ output' = WithNotice
              /\ buffersToWrite' = SubSeq(buffersToWrite, 1, 2)
              /\ dropped' = dropped \cup MessagesOf(erased)
              /\ heap' = heap - BlocksIn(erased)
     ELSE UNCHANGED <<output, buffersToWrite, dropped, heap>>
  /\ wpc' = "write"
  /\ UNCHANGED <<m_curBuffer, m_nextBuffer, m_buffers, newBuffer1, newBuffer2, written, flushed,
                 startVars, stopVars, pushVars, woken, process>>

\* One round of the outer range-for: format and append a whole buffer.
WriteBuffer ==
  /\ wpc = "write" /\ written < Len(buffersToWrite)
  /\ output' = output \o buffersToWrite[written + 1].msgs
  /\ written' = written + 1
  /\ UNCHANGED <<m_curBuffer, m_nextBuffer, m_buffers, newBuffer1, newBuffer2, buffersToWrite,
                 heap, flushed, dropped, startVars, stopVars, pushVars, wpc, woken, process>>

(***************************************************************************)
(* resize(2), refill the invalid spares from the back, clear(), flush().   *)
(***************************************************************************)
MutantGrown(bs) == bs \o [i \in 1..(IF Len(bs) < 2 THEN 2 - Len(bs) ELSE 0) |-> MovedFrom]
Grown(bs)   == bs \o [i \in 1..(IF Len(bs) < 2 THEN 2 - Len(bs) ELSE 0) |-> Fresh]
FrontOf(bs) == SubSeq(bs, 1, Len(bs) - 1)

Recycle ==
  /\ wpc = "write" /\ written >= Len(buffersToWrite)
  /\ LET batch0 == Grown(buffersToWrite)
         batch1 == IF newBuffer1.valid THEN batch0 ELSE FrontOf(batch0)
         batch2 == IF newBuffer2.valid THEN batch1 ELSE FrontOf(batch1)
     IN  /\ newBuffer1' = IF newBuffer1.valid THEN newBuffer1 ELSE reset(batch0[Len(batch0)])
         /\ newBuffer2' = IF newBuffer2.valid THEN newBuffer2 ELSE reset(batch1[Len(batch1)])
         /\ heap' = heap + (Len(batch0) - Len(buffersToWrite)) - BlocksIn(batch2)
  /\ buffersToWrite' = <<>> /\ written' = 0
  /\ flushed' = Len(output)
  /\ wpc' = "check"
  /\ UNCHANGED <<m_curBuffer, m_nextBuffer, m_buffers, output, dropped, startVars, stopVars,
                 pushVars, woken, process>>

(***************************************************************************)
(* A failure at start (no directory, no memory), after an append that had  *)
(* to roll the file, or while a message is formatted.  When fopen fails,   *)
(* FileAppender calls ferror on the null FILE before it throws: the        *)
(* process may crash.  An exception closes the file, destroys the locals   *)
(* and resets m_thread: destroying a joinable std::thread terminates.      *)
(***************************************************************************)
Failing ==
  \/ wpc = "start" /\ UNCHANGED output
  \/ /\ wpc = "drop" /\ Len(buffersToWrite) > DropLimit
     /\ output' = WithNotice
  \/ /\ wpc = "write" /\ written < Len(buffersToWrite)
     /\ LET msgs == buffersToWrite[written + 1].msgs
        IN  msgs # <<>> /\ \E k \in 0..Len(msgs) : output' = output \o SubSeq(msgs, 1, k)

WorkerThrows ==
  /\ Failures /\ Failing
  /\ flushed' = Len(output')
  /\ heap' = heap - BlocksIn(<<newBuffer1, newBuffer2>> \o buffersToWrite)
  /\ newBuffer1' = MovedFrom /\ newBuffer2' = MovedFrom
  /\ buffersToWrite' = <<>> /\ written' = 0
  /\ process' = IF m_thread = "null" THEN process ELSE "terminated"
  /\ wpc' = "failed"
  /\ UNCHANGED <<m_curBuffer, m_nextBuffer, m_buffers, dropped, startVars, stopVars, pushVars, woken>>

WorkerCrashes ==
  /\ Failures /\ Failing
  /\ process' = "crashed"
  /\ UNCHANGED <<memVars, flushed, dropped, startVars, stopVars, pushVars, wpc, woken>>

Worker ==
  \/ WorkerStart \/ CheckDone \/ WorkerExit \/ WaitForWork \/ TimeOut
  \/ Collect \/ DropExcess \/ WriteBuffer \/ Recycle
  \/ WorkerThrows \/ WorkerCrashes

(***************************************************************************)
(* waitDone() and ~AsyncLogging(): test m_done, then do_done().            *)
(***************************************************************************)
CallWaitDone(c) ==
  /\ cpc = "returned" /\ dpc[c] = "idle"
  /\ dpc' = [dpc EXCEPT ![c] = IF m_done THEN "returned" ELSE "store"]
  /\ owed' = [owed EXCEPT ![c] = pushed]
  /\ UNCHANGED <<memVars, fileVars, startVars, m_done, pushVars, wpc, woken, process>>

StoreDone(c) ==
  /\ dpc[c] = "store"
  /\ m_done' = TRUE
  /\ dpc' = [dpc EXCEPT ![c] = "notify"]
  /\ UNCHANGED <<memVars, fileVars, startVars, owed, pushVars, wpc, woken, process>>

\* notify_one() without m_mtx: it is lost unless the worker waits already.
NotifyDone(c) ==
  /\ dpc[c] = "notify"
  /\ NotifyWorker
  /\ dpc' = [dpc EXCEPT ![c] = "join"]
  /\ UNCHANGED <<memVars, fileVars, startVars, m_done, owed, pushVars, wpc, process>>

Joining == \E d \in Closers : dpc[d] = "joining"

MutantDetach(c) == "returned"
AfterJoinable(c) == IF Joining THEN "threw" ELSE "joining"

\* joinable() and the call of join(); pthread_join refuses a second joiner,
\* and join() turns that into a system_error.
BeginJoin(c) ==
  /\ dpc[c] = "join"
  /\ dpc' = [dpc EXCEPT ![c] = IF m_thread = "joinable" THEN AfterJoinable(c) ELSE "returned"]
  /\ UNCHANGED <<memVars, fileVars, startVars, m_done, owed, pushVars, wpc, woken, process>>

\* The first joiner has released the thread but m_thread still names it.
JoinReleased(c) ==
  /\ dpc[c] = "join" /\ m_thread = "joinable" /\ Joining /\ wpc \in {"exited", "failed"}
  /\ process' = "crashed"
  /\ UNCHANGED <<memVars, fileVars, startVars, stopVars, pushVars, wpc, woken>>

EndJoin(c) ==
  /\ dpc[c] = "joining" /\ wpc \in {"exited", "failed"}
  /\ m_thread' = "joined"
  /\ dpc' = [dpc EXCEPT ![c] = "returned"]
  /\ UNCHANGED <<memVars, fileVars, m_latch, cpc, m_done, owed, pushVars, wpc, woken, process>>

DoDone(c) ==
  StoreDone(c) \/ NotifyDone(c) \/ BeginJoin(c) \/ JoinReleased(c) \/ EndJoin(c)

-----------------------------------------------------------------------------
Running == process = "running"

\* Everything has come to rest.
Terminated ==
  /\ \/ ~Running
     \/ cpc = "threw"
     \/ /\ wpc = "exited" /\ pushed = MaxPushes
        /\ \A p \in Producers : ppc[p] = "idle"
        /\ \A c \in Closers : dpc[c] \in {"returned", "threw"}
  /\ UNCHANGED vars

Step ==
  \/ Constructor
  \/ Worker
  \/ \E p \in Producers : BeginPush(p) \/ Push(p)
  \/ \E c \in Closers : CallWaitDone(c) \/ DoDone(c)

Next == (Running /\ Step) \/ Terminated

Spec == Init /\ [][Next]_vars

\* The scheduler runs every thread that is inside a call, and the timer of
\* wait_for elapses; nothing makes a thread start a call.
Fairness ==
  /\ WF_vars(Running /\ Constructor)
  /\ WF_vars(Running /\ Worker)
  /\ \A p \in Producers : WF_vars(Running /\ Push(p))
  /\ \A c \in Closers : WF_vars(Running /\ DoDone(c))

FairSpec == Spec /\ Fairness
=============================================================================
