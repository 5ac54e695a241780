# Verification of elog4cpp in TLA+

elog4cpp is an asynchronous logging library for C++11. Application threads hand log
messages to a static front end (`Log`, the `ELG_*` macros), which dispatches them to the
console and, through a double-buffered queue, to one background thread that formats them
into a rolling log file. This directory holds TLA+ modules of the parts that carry that
logic, TLC runs that check them on small instances, and TLAPS proofs of what matters most
for every size of them.

- [Inventory](#inventory)
- [Modules](#modules)
- [Runs](#runs)
- [Fairness](#fairness)
- [Proofs](#proofs)
- [Disagreements between the code and what is said of it](#disagreements)
- [What is not modelled](#what-is-not-modelled)
- [Plan](#plan)

## Inventory

| component | state | operations | interacts with |
|---|---|---|---|
| `Log`, `logger_helper` (`include/elog/logger.h`) | a `thread_local` `Log` with a level, `Log` objects with a level and a config | `Log::info`...`fatal`, `printf`, `println`, `Get`, `ELG_CHECK` | calls `LoggerImpl::DoConfigLog` |
| `LoggerImpl` (`src/logger.cc`) | registered configs, the `AsyncLogging`, the console mutex | its creation by the first call, `DoConfigLog`, `LogFile`, `LogConsole`, `registerConfig`, `getConfig`, `waitForDone`, destruction at exit | calls `AsyncLogging::pushMsg`, `waitDone`; writes stdout |
| `AsyncLogging` (`src/async_logging.cc`) | three buffers and a vector under `m_mtx`, `m_done`, a condition variable, a latch, the worker thread | constructor, `pushMsg`, `thread_worker`, `waitDone`, destructor | the worker owns a `LogFile` |
| `FixedBuffer` (`include/elog/async_logging.h`) | a block of 65536 message slots, a cursor | moves, `avail`, `push`, `reset` | used by `AsyncLogging` |
| `CountDownLatch` (`src/count_down_latch.cc`) | a counter | `wait`, `countDown` | constructor waits, worker counts down |
| `LogFile` (`src/log_file.cc`) | the current `FileAppender`, times of the last roll, flush and day, an append counter | `append`, `flush`, `rollFile` | owns the `FileAppender`, reads the clock |
| `FileAppender` (`src/file_appender.cc`) | a `FILE` with its 64 KB buffer, a byte counter | `append`, `flush`, destructor | stdio |
| `Util` (`src/logger_util.cc`) | of each thread: text buffers, the cached second with its broken-down time, the zone, the error text | `getCurDateTime`, `getLogFileName`, `getErrorInfo` | file names for `LogFile`, time for formatters |
| `Config`, `GlobalConfig` (`src/config.cc`) | flags, level, name, callbacks, formatter, roll size, path | setters, `loadFromJSON`, `loadToJSON` | read by `LoggerImpl`, by the worker and by formatters |
| formatters (`src/formatter.cc`, `include/elog/output_buffer.h`) | the line being built, with a context for the callbacks | default, colorful, json, custom string; before and after callbacks | called by the worker and by `LogConsole`; callbacks may log |
| `ProcessInfo`, `context`, wrappers | cached pid, tid, host name | reads | context of a message |

### What is hard

- **Concurrency.** Producers share `m_curBuffer`, `m_nextBuffer` and `m_buffers` with the
  worker under `m_mtx`, and move ownership of blocks across it. `m_done` is stored and
  tested outside of the mutex, `notify_one` is called without it, and `m_thread` is
  written by the constructor, by the worker's exception handler and used by `do_done`.
- **Shutdown.** `waitDone` may be called by any thread (the fatal path of every logging
  thread calls it) and again by the destructor.
- **Ordering.** One message travels through the current buffer, the filled buffers, the
  batch and the `FILE`; a recycled block must not bring an old message back.
- **Limits.** An exactly full buffer; a batch of more than 100 buffers; two rolls within a
  second; a counter that decides when the day and the flush age are looked at.
- **Failure.** No thread, no directory, no file, a failed write; an exception in the worker
  before or after the constructor returned.
- **Time.** `wait_for` with a timeout; the clock set back; local time in file names; the
  broken-down time and the zone cached for each thread.
- **Lifetime.** Messages and `Log` objects hold plain pointers to configurations that
  `LoggerImpl` owns, while names are registered again and while the program exits; the path
  may be an array of a thread that has exited.
- **Re-entry.** Arguments and callbacks are code of the program: they log while a line is
  being made, on the same thread, and they throw.

### What makes each component correct

- `AsyncLogging`: no write through a null or past the end of a block; no block leaked; the
  file holds the accepted messages in order, at most once; whatever is missing was dropped
  with a notice or cut off at the end by a shutdown; nobody pushes before the worker is
  ready; a shutdown ends, and means that the worker has stopped; what is accepted reaches
  the disk.
- `LogFile`: only the newest file grows, a roll opens a new name, what a file takes past its
  size, its day and its flush interval is bounded.
- `Log`/`LoggerImpl`: a message is recorded with the level it was logged with; a message that
  passed the filter is not lost; a line on the console is whole; a fatal call never returns.
- `LoggerImpl`: no configuration is used after its destruction; a name stands for one
  configuration; the end of `main` is not held up.
- the disk: whatever instant the process is killed, the files read one after the other are an
  initial run of what was written.
- `Config`: what is loaded is what the file says; what is saved and loaded again is what it was; a
  load that fails changes nothing. The first two do not hold as they stand
  ([Disagreements](#disagreements)), nor does the third, of which no document speaks; the properties
  say how much of each does.
- formatters: each directive of a format string contributes its field, for every string; the file
  and the console say the same of what belongs to the message; the callbacks of a line see the
  context of that line.

`PROJECT.json` lists, under `hazards`, the lines where these properties are at risk.

## Modules

| module | models | source |
|---|---|---|
| `FixedBuffer` | the block of slots: `Fresh`, `MovedFrom`, `avail`, `push`, `reset` | `async_logging.h` |
| `AsyncLogging` | producers, the worker, the constructor and the callers of `waitDone` | `async_logging.cc`, `count_down_latch.cc` |
| `AsyncLoggingProperties` | its properties, and the refinement mapping onto `LogStream` | |
| `LogStream` | the abstract queue that `AsyncLogging` implements | |
| `MCAsyncLogging` | symmetry, for TLC | |
| `AsyncLoggingProofs` | TLAPS proofs: start, memory, blocks, shutdown; then order, drops, exit, the refinement | |
| `SequenceLemmas` | facts on numbers and on `FlattenSeq` that proofs cite | |
| `LogFile` | `LogFile` over `FileAppender`, the clock, and its properties | `log_file.cc`, `file_appender.cc`, `logger_util.cc` |
| `MCLogFile` | a zone for TLC | |
| `LogFileProofs` | TLAPS proofs | |
| `BackEnd`, `MCBackEnd` | the composition: `LogStream` drained into `LogFile`, what each file holds, write errors, kills; zones for TLC | `async_logging.cc`, `log_file.cc`, `file_appender.cc` |
| `BackEndProofs` | TLAPS proofs, over those of `LogFileProofs` | |
| `Logger` | the calls of `Log` and of `Log` objects, their dispatch, and its properties | `logger.h`, `logger.cc` |
| `MCLogger`, `LoggerProofs` | symmetry for TLC; TLAPS proofs | |
| `LoggerImpl`, `MCLoggerImpl` | the objects behind the front end, from the first call to the end of the program, and its properties | `logger.cc`, `logger.h` |
| `LoggerImplProofs` | TLAPS proofs | |
| `Formatter` | the four formatters as functions, and the reference reading of a format | `formatter.cc` |
| `Formatting` | lines being formatted, with callbacks and caches, and its properties | `output_buffer.h`, `logger_util.cc`, `formatter.cc` |
| `MCFormatting`, `FormattingProofs` | configurations, messages and zones for TLC; TLAPS proofs | |
| `GlobalConfig` | the setters, loading and saving, and its properties | `config.cc`, `config.h` |
| `MCGlobalConfig`, `GlobalConfigProofs` | files and literals for TLC; TLAPS proofs | |

### AsyncLogging

A message is the number of its push. A buffer is a record `[valid, msgs]`: `valid` is
`m_data != nullptr`, `msgs` is what lies between `m_data` and `m_current`, so a moved-from
buffer has `valid = FALSE` and yet `avail` = `SIZE`, as in the code. `heap` counts the
blocks that `new[]` has given and no destructor has taken; moves that overwrite a block
without deleting it show as a difference between `heap` and the blocks that buffers own.
`output` is what was appended to the log file, `flushed` the length of its prefix that
`flush()` has handed to the operating system, `dropped` the messages erased with an
overlong batch: `output` and `dropped` are history the code keeps only as file contents.

A critical section of `m_mtx` is one action (`Push`; `WaitForWork` up to the wait;
`Collect` after it, or without a wait), for no other shared variable is read or written in
it except `m_latch`. Everything outside of it is a step of its own: the test of `m_done`
(`CheckDone`/`WorkerExit`), the store (`StoreDone`), the notification (`NotifyDone`), the
test of `joinable()` with the beginning of the join (`BeginJoin`), its end (`EndJoin`), the
assertion of `pushMsg` (`BeginPush`), the drop of an overlong batch (`DropExcess`), the
writing of each buffer (`WriteBuffer`), the recycling with the flush (`Recycle`).
`wpc` is the place of the worker, `ppc`, `dpc`, `cpc` those of producers, of callers of
`waitDone`/the destructor, and of the constructor.

Conditions on the condition variable: `woken` is set by the timer (`TimeOut`), by
`notify_one` if the worker waits (`NotifyWorker`), and by a spurious wakeup, which is not
told apart from the timer. A notification while the worker does not wait is lost.

With `Failures`, the thread may not be created (`SpawnFails`), and the worker may throw
(`WorkerThrows`) at its start, in the drop notice or while it writes: the `catch` closes the
file (the appended text is flushed by `~FileAppender`), destroys the locals and resets
`m_thread`, which terminates the process if `m_thread` already holds the running thread.
`WorkerCrashes` is `ferror(nullptr)` in `FileAppender::init`. Joining a thread
that another caller joins already is what glibc makes of it: `pthread_join` refuses, `join`
throws; after the first join released the thread, `m_thread` is stale and the process may
crash (`JoinReleased`). With `NDEBUG = FALSE` a failed assertion of `pushMsg` aborts.

The refinement mapping onto `LogStream` makes one queue out of the batch, the filled buffers
and the current buffer: `Collect` and `Recycle` are stutters, `Push` is `Accept`,
`WriteBuffer` (and the partial write of `WorkerThrows`) is `Write(n)`, `DropExcess` is `Cut`.

### LogFile

`LogFile` is used by one thread (the worker) or locks its mutex, so a call is one action. A
file is identified by the local time in its name. Of its contents the model keeps three
numbers: bytes written in the second of its creation (`early`), bytes written after it
(`late`), messages written after the end of its day (`stale`). `oldest` and `overdue`
describe the stdio buffer: when the oldest message that is not flushed was appended, and how
many appends have gone by since it is older than the flush interval. `append()` is split by
its branches: the roll by size (`AppendAndRoll`), below the check period (`Append`), the
check that finds a new day (`AppendAndChangeDay`) or not (`AppendAndFlush`). A write error
leaves any part of the message in the file, and counts nothing of it; a roll may throw
(`RollThrows`), after `m_lastRoll`, `m_lastFlush` and `m_lastPeriod` are set. A negative roll
size is not modelled (the comparison with an unsigned counter would make it huge).

### BackEnd

`BackEnd` instantiates `LogStream` and `LogFile` and joins their actions: `Accept` is a step of the
first, `WriteMessage` is `LogStream!Write(1)` together with one of the `append()` actions of
`LogFile`, `DropExcess` is `Cut` with the append of the notice, `EndRound` is `LogFile!Flush`. That
the queue may stand for `AsyncLogging` is what the refinement in `async_safety` shows. The rounds
are those of `thread_worker`: `Collect` takes all that is queued, or leaves the end of it in a
current buffer that is exactly full, so any number.

Over `LogFile`, which counts bytes, the module keeps what each file holds (`contents`), how much
of it the system has for certain (`synced`), whether anything has failed (`error`), and the length
of `output` at the end of the last round (`finished`, history). When the file in use is flushed is
not said again: it is when `LogFile` sets `oldest` back. `Synchronise` is the `FILE`: without an
error it holds one more entry; with one (of the write or of the flush, which the code does
not look at) the C library discards what it could not write, and any part of the unflushed
entries, to the middle of one, remains. `Crash` leaves any such part in every file.

### Logger

Every thread has a stack of the calls it is in, because formatting an argument runs user code that
may log again. A call is a record: the level it `asked` for, whether it goes through the thread's
own `Log` or through a `Log` object or `logger_helper` (`own`), its place `pc`, the `level` that
`log_it_` read for it, and whether another call has been made inside it (`undisturbed`, history).
`CallStatic` is `Log::Get()` behind the static filter, as `Log::info` and its like call it (a
program that calls the public `Get()` itself is not modelled): it stores the level in the thread's
`Log` before the message is formatted; `LogIt` reads it back after. Then follow, one step each,
`pushMsg`, the console write under `m_mutex`, `fflush` outside of it in two steps (the hand-over to
the system, the reset of the buffer), and the test for `fatal`, which stops the back end and throws.
An exception leaves the calls one by one (`Unwind`) and may be caught below any of them. `CallCheck`
is an `ELG_CHECK` or an assertion whose condition is false: its `logger_helper` logs with a level
and a `Log` of its own and the global configuration, whose threshold is then the `limit` of the
call.

The back end is the one that callers of `AsyncLogging` see: a queue that accepts, until
`waitDone`. That a console line is lost between the two steps of `fflush` rests on
`fwrite_unlocked` not taking the lock of the `FILE`, as its documentation says.

### LoggerImpl

One thread, `main`, registers configurations, makes `Log` objects, logs, calls `waitForDone` and
returns; one more may load a file and exit. `state` says of each `Config` whether it exists; `logs`,
`current`, `queue` and `batch` are the places that hold pointers to one. `GetInstance` is part of
every action that needs the `LoggerImpl`, a message that `DoConfigLog` filters included: the first
one makes it and, if there is a path, the `AsyncLogging`. `Register` keeps the configuration that a
name has, which it looks up with `count()`, and the new one ends with the `unique_ptr` it came in.
After `Exit` the destructors follow: `DestroyLogging` (`do_done` and the join, or nothing if a fatal
message or `waitForDone` came before), `DestroyConfigs`, `DestroyGlobal`, in the order of the
members and of the static objects. Of the worker the module has the test of `m_done`, the swap and
the formatting, one message at a time; a callback that it runs may log (`CallbackLogs`), at a fatal
level too, which makes the worker join itself.

### Formatter and Formatting

`Formatter` has no state. A line is a sequence of fields; `defaultFormatter`,
`colorfulFormatter` and `jsonFormatter` say which fields, in which order, under which flags.
`customStringFormatter` is the loop of the code as a recursive function over the positions of
the format: the text up to a `%`, one operation of two characters or what is left of them, and
so on. `Reading` is written independently of it: a position belongs to a directive iff the run
of `%` before it has the right parity. `Directive` keeps the order of the `case`s, and what is
found for an unknown letter.

`Formatting` runs them. A message goes into the queue of the worker and is then formatted for the
console, whatever the worker does meanwhile.
Each thread has a stack of the formatters in progress; a formatter goes through the before
callback, its fields one by one, the after callback and the write. `m_ctx` is the context in its
output buffer, `seen` what the after callback found there. `getCurDateTime` and `getErrorInfo`
read and write the caches of the thread that formats: `t_tm`, by the second it belongs to,
`t_timezone` and `t_errnobuf`. Every time field keeps the time at which it was made, every
error field the number it is about (history). An exception of a before callback leaves the
formatters up to where it is caught; one that would leave an after callback, or the worker, ends the
program.

### GlobalConfig

One thread calls setters, loads files and saves. `config` has the fields of the struct;
`std::function` is reduced to the name of the style and, for a custom one, the pointer to its format
string that the lambda has captured. A pointer is null, to a string of the program, or to one of the
three `thread_local` arrays of `loadFromJSON`. An array is modelled by what it holds up to the last
character ever written: `Copy` is `strncpy` with the size of the text, which neither clears the tail
nor terminates. `LoadFails` has one disjunct for each text that may be too long, with what has been
assigned by then; `LoadSucceeds` is the rest of the function. `saved` is the file that `loadToJSON`
wrote, with the settings it was written from, and `asked` the `roll_size` of the file that was
loaded last, until a setter is called (both history). `Settings` is what is in effect, the pointers
followed. `init_data` is the creation of `LoggerImpl`, which keeps the path as a pointer. Integers
wrap at `IntMax` (`AsInt`). `OP_INT`, by which the code switches over words, is a sum of characters,
so some words are the same to it (`SameSum`). A text is a sequence over `Characters`, the word
`null`, and `?`, which stands for whatever lies behind an array that is not terminated. `SameSum`
names no level and no style: their ten words have ten different sums (of one `switch` they must, or
it would not compile).

## Runs

All bounds are constants in the `.cfg` files. `DropLimit` is 100 in the code and 2 here,
`SIZE` is 65536 and 2 here: with `MaxPushes` = 7 a batch grows to four buffers, so it is cut
down, recycled and refilled, the current buffer is exactly full in some states and partly
filled in others, and the spare buffer is present, absent, and replaced. 2 is the smallest
`SIZE` that tells a full buffer from a used one, and the smallest `DropLimit` at which
`erase(begin() + 2, end())` removes something.

| run | question | result |
|---|---|---|
| `async_safety` | memory, order, conservation, notices, the end of the worker, `LogStream` implemented; one caller of `waitDone`, two producers, 7 pushes, assertions on | holds |
| `async_start` | start-up with failures, two callers of `waitDone`, 5 pushes | holds |
| `async_live` | does each shutdown end, does each message reach the disk unless parked? 4 pushes | holds |
| `async_waitdone` | is everything accepted before `waitDone` on disk when it returns? | violated |
| `async_failstart` | does the constructor answer when the worker fails? | violated |
| `logfile_bounds` | how late is a roll, a day change, a flush? 4 seconds in days of 3, 3 appends per check | holds |
| `backend_disk` | which files grow, and what is on the disk, with the clock set back, errors and a kill at any point? 3 messages | holds |
| `logger_calls` | levels, acceptance, shutdown and failed assertions under nested calls: two threads, three calls, nesting up to three | holds |
| `logger_fatal` | does a fatal call never return? | violated |
| `config_load` | sizes, saving and loading, failed loads: any four calls over nine files | holds |
| `lifecycle` | which objects exist when they are used, from the first call to the end of the program? | holds |
| `format_lines` | what does a line say, in the file and on the console? 360 configurations, each from two times | holds |

`async_start` and `async_failstart` switch TLC's deadlock check off because the constructor
can hang there (which is the finding); `logfile_bounds` and `backend_disk` because a destroyed or crashed
`LogFile` and a clock at its bound have no further step. `async_safety` and `async_start`
use the symmetry of producers and of callers, also with the refinement, which is a property of
single steps and treats the threads alike; runs with liveness properties use none. The
refinement is not checked with `Failures`: a worker that fails takes its batch with it, which
`LogStream` does not allow.

In `logfile_bounds` `MaxUse` bounds what the file in use has taken; it is above every bound
the properties state, so a violation would be reached before it. Opening a new file may fail, writing
does not, as a write error loses count of bytes (`backend_disk` has them). A zone one second ahead of
UTC (`LocalAhead`) makes the day of a name differ from the day of `Period`.

`logger_calls` uses the levels trace, error and fatal: one below both thresholds, one between
them (the static functions pass it, an own config does not), one above. Three calls are the
fewest that let a nested call be itself nested or be followed by another; a thread with no
call left and an aborted process have no step, so the deadlock check is off.

`GlobalConfig` has arrays of 3 characters for 1024 and a megabyte of 16 bytes with an `int` of 16
bits, so that 2048 MB overflow as they do with 32 bits. Its files hold texts shorter than, as long
as and longer than an array, sizes below, at and above the limit of 128, one that would overflow,
one below zero and the first whose product does not fit an `int`, known and unknown levels and
flags, custom styles with and without a format. Four calls are enough for load, save, load in any
order with a setter or another load among them; the deadlock check is off because the calls are
bounded.

`backend_disk` has three seconds in days of two, a roll size that the second message exceeds, a
check on every second append and a flush interval of 0, so that each of the four branches of
`append()` is taken before and after each other; three messages and the notices for those that
are cut out, spread over up to three files. `MaxUse` is above what three messages and their
notices can make of a file.

`lifecycle` has one name and two configurations, so that a name can be registered twice, one
`Log`, and three messages, so that a callback can log while another message is queued and a third
is formatted; the levels are one below the global threshold, one above it, and fatal. The
program ends, so the deadlock check is off.

`format_lines` has all custom formats of up to four characters over `%`, two directives and a
letter that is none: every way in which two directives can touch, be doubled, be unknown or be cut
off fits into four. One format has every directive; the fixed formatters are run under five sets
of flags; two configurations have callbacks. One thread and the worker, two messages (one at
fatal level with a known error number and call site, one at error level with an unknown one and without)
and two formatters in progress on a thread are enough for a callback that logs into the middle of
another line. Two seconds, one of them in summer time half an hour off the hour, let the
clock go forth and back between any two fields. The calls are bounded, so the deadlock check
is off.

Each property of a passing run has a mutant in `PROJECT.json`: a plausible bug in the code
under which TLC finds the property violated.

## Fairness

`FairSpec` assumes weak fairness of the worker, the constructor, a producer inside
`pushMsg`, and a caller inside `do_done`: the scheduler runs a thread that can run, a mutex
is held only for a few instructions and so is had in the end, and the timer of `wait_for`
elapses. Nothing is assumed of starting a call: producers need not push, nobody need shut
the logger down. `ShutdownCompletes` depends on the timer: the notification may be lost.

`LoggerImpl!FairSpec` assumes weak fairness of the worker and of what `main` has begun: the rest of
a log call, a join whose thread has ended, and the destructors. Nobody need begin a call, and
`main` need not return. A callback may log again and again only up to `MaxMessages`; with an
endless stream of messages from callbacks the worker still tests `m_done` once a batch.

## Proofs

Every safety invariant and every action property that a passing run checks is the conclusion of
a theorem. The theorems hold for all values of the constants that
their modules' `ConstantsAssumption` admits; what a theorem assumes beyond it is said here and in
its statement. Each follows from an inductive invariant: one lemma says that it holds
initially, one for every action (or group of actions that touch the same part) that it is kept.

### AsyncLogging

`AsyncLoggingProofs`, for all values of `SIZE`, `DropLimit`,
`MaxPushes`, all sets of producers and callers, with and without failures and assertions:

- `StartsReady`: `Spec => []WorkerReadyBeforeUse`. The invariant `StartInv` adds that the
  latch is open only after the worker left its start, and that the constructor's place
  fits `m_thread` and the worker's birth.
- `MemorySafety`, `TypesKept`: `Spec => [](TypeOK /\ BuffersUsable)`. `BuffersUsable` alone is not
  inductive: that `newBuffer1` owns a block whenever the current buffer may be taken rests on
  where the worker is, hence `WorkerShape` (the batch is empty and nothing is written of
  it while the worker is outside of the write phase). `MemInv` is the conjunction; there is one
  lemma for every action that touches memory, over lemmas on what the operators of
  `FixedBuffer`, `Grown`, `FrontOf` and `MessagesOf` return.
- `NoBlockLeaks`: `Spec => []HeapAccounted`. `HeapInv` adds that the spares own nothing before
  the worker has started; with `MemInv` the moves of the recycling are then the only places
  where a block could be overwritten.
- `LastCallJoins`: `Spec => []LastCallStops`, with any number of callers. `StopInv` follows the
  duty to join: once `m_done` is set, some caller is on the way to the join, or the worker is out.
- `KeepsOrder` (`FileInOrder`), `LosesNothing` (`Conserved`), `AnnouncesDrops` (`DropAnnounced`) and
  `ExitsWithoutHole` (`ExitKeepsPrefix`) rest on one invariant, `OrderInv`. While the worker is
  healthy, the file, the rest of the batch, the filled buffers and the current buffer, read in this
  order, ascend (`StreamInv`), they and the dropped messages make up all that was pushed, and the
  notice of a dropped message stands where it is missing: all before it is older, and what is
  older behind it, written or still to be written, lies within two buffers (`Announces`, `Pending`). A
  worker that fails leaves of this that the file ascends and that the notices are in it, which
  is why these two are proved with failures, too. Here the messages of a
  list of buffers are a `FlattenSeq`; `SequenceLemmas` proves what flattening does to concatenation.
- `RefinesLogStream`: `Spec => ImplementsLogStream`, assuming `~Failures`. Step by step: `Push` is
  `Accept`, `DropExcess` is `Cut`, `WriteBuffer` is `Write(n)` with `n` the length of the buffer,
  everything else leaves the abstract queue alone, the recycling and the hand-over of the
  buffers included (`MapsStep`). Without the assumption it is false: a worker that throws takes its
  batch with it.

### LogFile

`LogFileProofs`, for all roll sizes, intervals, check periods, message lengths and clocks:

- `FileTypesKept`: `Spec => []TypeOK`, which says that the period in use is that of the last
  roll. No further assumption: the clock and the zone may jump, writes and rolls may fail.
- `NewestFileGrows`: `Spec => OnlyNewestGrows`, assuming that local time grows with time
  (`LocalTimeMonotone`): where the zone falls back by an hour, two rolls can share a name.
- `FlushDelayed`: `Spec => []OverdueBounded`, assuming that the clock is not set back. The invariant
  `DelayInv` ties the overdue appends to `m_count`, which the flush resets.
- `StaleMessages`: `Spec => []StaleBounded`, assuming both. `BoundsInv` adds that the open file has
  stale messages only if the day has changed since the last roll, and no more than `m_count`.
- `LateBytes`: `Spec => []LateBytesBounded`, assuming besides that no write fails: a write error is
  not counted in `m_writenBytes`, so a file whose disk is full and then is not may outgrow the bound.

### BackEnd

`BackEndProofs`, for all of that and any number of messages, with errors and kills at any point.
It instantiates `LogFileProofs`: every step of `BackEnd` is a step of `LogFile`, leaves its
variables alone, or is a kill (`FileStep`), so that its invariants carry over.

- `TypesKept`: `Spec => []TypeOK`, without further assumptions. The others assume
  `LocalTimeMonotone`.
- `NewestFileGrows`: `Spec => OnlyNewestGrows`, the property that `backend_disk` checks.
- `MessagesInOrder`: `Spec => []FilesInOrder`. The order alone is not inductive: the invariant
  `OrderInv` adds that the queue is ascending with the batch at its head, that every message in
  a file is below all that are queued (`WrittenFirst`), and that the open file has the latest
  name, so that a new entry comes behind all others (`AppendKeepsOrder`). What an error or a kill
  leaves of a file is an initial run of it (`PartsKeepIds`), and taking entries from the end
  of files disturbs no order.
- `KillsKeepPrefix`: `Spec => []CrashKeepsPrefix`. The invariant `CrashInv` says what the files of an
  open back end without an error hold: read in the order of their names, exactly what went out,
  every entry whole; all but the newest are synchronised to their end; and at most that part of the
  newest that came after the last finished round is not (`Written`). A kill may then cut
  only the newest file, behind the finished rounds (`CompleteKilled`). The order of the names is a
  `CHOOSE`; `OrderUnique` proves that it has one value, `OrderAppend` that a roll adds to its end.

### Logger

`LoggerProofs`, for any number of threads, calls and any depth of nesting:

- `LevelsKept`: `Spec => []LevelKept`. The invariant adds that the level of the thread's
  `Log` is the one asked for by the innermost static call that is still formatting, as long as
  nothing has been logged inside it.
- `TypesKept` (`TypeOK`), `PassedAccepted` (`PassedIsAccepted`), `FatalStops` (`StoppedByFatal`) and
  `AssertionsThrow` (`AssertionThrows`). `FrontInv` says of every call in progress what is true at
  its place (`Good`): the level in the `Log` of a thread with a static call in progress is never
  below the threshold, whatever has been logged inside; a call that is past its push is in the
  queue; a call through a `Log` object or an assertion has the level asked for, and is not at its
  return if that is fatal. A step changes one call, and the queue only grows, so what holds of the
  others stays (`GoodStays`).

### LoggerImpl

`LoggerImplProofs`, for any number of names, configurations, `Log` objects and messages:

- `PointersValid`: `Spec => []ConfigAlive`, `NamesKept`: `Spec => []ByName`, and `TypesKept`.
  `LifeInv` joins three parts: the destructors run only when the worker is out or was never there
  (`PlaceInv`), what the `LoggerImpl` owns is alive as long as it is (`OwnInv`), and every pointer in
  a `Log`, the queue, the batch or a call leads to the global configuration or to a registered one
  (`RefInv`).

### Formatter and Formatting

`FormattingProofs`, for all threads, configurations, messages, clocks and zones, all formats, and any
depth of callbacks that log and throw. It assumes of a configuration what its types say: a name is
a string, a format a sequence of characters (`ConstantsAssumption`).

`FormattingInv` says of each formatter in progress and of each line that what is printed and what
is still to be printed are together what the formatter names (`Keeps`): up to callbacks' marks,
times and error texts its fields in their order, and its escape sequences exactly. It adds that
the context is in the output buffer from the before callback on, that the worker's outermost
formatter is the only one for the file, that a second in a cache is that of its broken-down time, and
that a number belongs to one message, wherever that is (`OneMessage`). From it follow

- `FormattingTypes` (`TypeOK`), `ContextsAreOwn` (`ContextOfOwn`) and `TimesAreCurrent`
  (`TimeIsCurrent`) at once;
- `ColorfulIsDefault` (`ColorfulAsDefault`) and `ColoursStayAlways` (`ColoursStay`), with what the
  formatters themselves name: taking the colours out goes through concatenation (`KindsConcat`), and a
  coloured part is a beginning, the part and an end (`PaintKinds`, `ColorfulIs`);
- `SinksAlwaysAgree` (`SinksAgree`): of every formatter the fields that it names for the two
  destinations differ in colours only (`SinksSame`), and the two lines are of the same context by
  `OneMessage`. As `Keeps`, it says nothing of callbacks' marks, times and error texts: in the code
  they differ, since the worker has caches of its own;
- `CustomAlwaysAsRead` (`CustomAsRead`). `CustomIs` says that the recursive function in
  `customStringFormatter` exists and is the only one that satisfies its equation. What it appends
  from a `%` at which a directive may begin is `Rest`, the reading of what is left (`CustomReads`):
  one turn of the loop reads the `%` and what is behind it (`TurnRest`), the literal after it reads
  up to the next `%`, which begins something again since nothing before it does (`LiteralRest`,
  `Heads`). The induction goes from the end of the format to its beginning (`Downward`).

### GlobalConfig

`GlobalConfigProofs`, for all files, literals, limits and any number of calls:

- `LoadedSizes`: `Spec => []RollSizeInRange`, of files that ask for no size below zero, among others that
  do. A saved file may be loaded, so the invariant adds that the size in it is an integer.
- `FailedLoads`: `Spec => FailedLoadKeeps`, over `Settings`. If the path is refused, nothing in
  effect changes; otherwise the path may; if the name alone is refused, the text of a custom format
  that an earlier load put into effect changes too, as it is in the array that the load has written
  by then (config.cc:285). `FailedLoadLeaves` says what a load has done to the pointers and the
  arrays when it throws.
- `TypesKept` (`TypeOK`: no array is overrun) and `SavesLoad` (`LoadSaveLoad`): level, style, interval and
  console switch come back from a saved file, the beginning of the path (unless it is the word `null`),
  and the roll size if it came from a file that asks for none below zero. The flags and the name do not,
  and are not in the statement. `ConfigInv` adds that all texts are texts and all words are words of the
  library, and, of a saved file, that it says what the settings it was made from say. That
  a text which was read through an array comes back from a second load is a fact on `Copy` and
  `ReadArray` (`CopyFits`).

### What is left to TLC

All liveness (`ShutdownCompletes`, `FlushedUnlessParked`, `ExitCompletes`): it rests on fairness and
`ENABLED`, which TLAPS as used here does not handle.

No rule of induction with a predicate of the module as its parameter can be used. Where an
induction over a set of numbers is enough, as for `FlattenSeq`, the sequences of fields and the loop of a
custom format, the proofs take a least counterexample instead (`LeastNumber`, `Downward`, `AllSeqs`).

Every property of a passing run, proved or not, is checked by TLC; `OnlyNewestGrows` of `LogFile` is
checked through `BackEnd`.

## Disagreements

Found while modelling. Where a run is named, its counterexample shows it and `findings` in
`PROJECT.json` quotes the lines. The others are not repeated by a run of their own: each names the
property that states what is promised, defined with its source in the module, and the
configuration in which TLC finds it violated once it is put in place of that configuration's
own properties.

1. `waitDone` does not drain: the worker leaves at the head of its loop with messages queued
   (run `async_waitdone`). What is written is still an initial run (`ExitKeepsPrefix`).
2. A second caller of `waitDone` returns before the worker has stopped
   (`ReturnMeansStopped` in `MCAsync_start.cfg`; with one caller, in `MCAsync_safety.cfg`, it
   holds).
3. A current buffer that is exactly full is not flushed until the next push
   (`FlushedInTime` in `MCAsync_live.cfg`; `FlushedUnlessParked` says that nothing else delays it).
4. If the worker fails at its start, the constructor hangs (or the process terminates)
   instead of throwing (run `async_failstart`).
5. A file grows past the roll size without limit in the second of its creation, as the
   counter restarts though no new file is opened (`SizeBounded` in `MCLogFile_bounds.cfg`).
6. A fatal message whose formatting logs at another level is recorded at that level, and the
   call returns (run `logger_fatal`).
7. The flush of stdout outside of the lock may discard another thread's line
   (`ConsoleComplete` in `MCLogger_calls.cfg`).
8. A shorter path or name loaded after a longer one keeps the end of the longer one
   (`LoadedAsWritten` in `MCGlobalConfig_load.cfg`, with `Files <- ShortFiles` to leave out texts
   that fill an array); one of exactly 1024 characters is not terminated (`TextsEnd` in that
   configuration, and so for 9 to 12).
9. Saving writes all flags, whatever is set (`FlagsSurvive`), loses the name (`NameSurvives`), and
   reads through a null pointer with a custom formatter (`SaveSurvives`).
10. `setRollSize` takes bytes, not megabytes, and a small size is saved as 0 (`SizeSurvives`). The
    check of `roll_size` has no lower bound: below -2048 the product overflows, to a size above the
    limit where an `int` wraps (`SizeClamped`).
11. A load after the first log call redirects the running log (`OneTimePath`).
12. A word of a file that is not a level may be taken for one: `OP_INT` adds characters up, and
    config.cc:225 promises the level debug for any other (`UnknownIsDebug`).
13. A path that is set after the first call that needs the `LoggerImpl`, a registration for
    instance, has no effect for the whole process (`FileChosen` in `MCLoggerImpl_exit.cfg`, and so
    for 14 and 15).
14. A path loaded by a thread that has exited dangles, while the worker rolls files with it
    (`PathAlive`).
15. When `main` returns while the worker runs a callback that logs, the assertion of `pushMsg` ends
    the program (`NotStoppedByExit`).
16. The zone in a line is that of winter, in whole hours (`ZoneIsCurrent` in
    `MCFormatting_lines.cfg`, and so for 17 to 19); in a zone of UTC-10 or beyond the assertion on the
    length of a time ends the program (`NeverAborts`, with `Standard <- West`, `Offset <- InWest`).
17. The text of `%e` is not that of the error: with the `strerror_r` of the GNU library the buffer
    that is printed holds what an earlier unknown number left there (`ErrorIsOwn`).
18. The line number is printed whether or not `kLine` is set (`LineIfAsked`).
19. JSON lines and `%T` have the date whether or not `kDate` is set (`DateIfAsked`).

## What is not modelled

- The text of messages, notices, times and file names beyond what distinguishes files. A line is
  a sequence of fields; that `jsonFormatter` does not escape texts is therefore not seen, nor
  that an assertion's text is used as a format string: braces in it make `fmt` throw
  (`FormatThrows`, so that the assertion still throws, but is not logged).
- Setters called while the worker formats, and configurations registered while other threads log
  (logger.h:30 asks for registering first): data races, of which nothing is promised. `Config`
  has its setters for callbacks in `Formatting` as a fixed choice.
- Static objects of the program that log after the `LoggerImpl` is gone, and threads that log while
  it is destroyed: the object's lifetime ends, everything is undefined.
- Memory orders: `m_done` is release/acquire and guards no data that is not under `m_mtx`.
- A `CountDownLatch` with more than one waiter or a count above one, which the library never
  has; vendored `fmt` and `ejson4cpp`; tests, benchmarks, examples; `ProcessInfo` and the
  system call wrappers (reads only); `LoggerImpl::DoInternalLog`,
  which only a debugging macro that nothing includes names, and `LogConsoleUnsafe`.
- Several threads that load files; errors of the JSON parser; a `LogFile` with a negative roll size,
  which files and setters may give it.
- `Log::Get(level)` called by the program itself. It is public (logger.h:273), but the filter is in the
  functions that call it, and no document, test or example uses it without them.
- A roll killed between the creation of the new file and the flush of the old: it leaves what a
  kill just before it leaves, and an empty file.
- A zone that falls back, in the listed runs: with `LocalFallsBack` for `LocalTime` in
  `MCBackEnd_disk.cfg`, `OnlyNewestGrows` and `FilesInOrder` are violated, as two rolls share a name
  or sort the wrong way.

## Plan

In the order of importance; all of it is built as far as the models go.

1. `AsyncLogging` with `FixedBuffer`, `LogStream`: all safety properties and the refinement are
   proved. Next: what of the refinement survives a failing worker, with a `LogStream` that may lose
   its batch.
2. `LogFile`, and `BackEnd` over it: all properties are proved.
3. `Logger`: all properties are proved.
4. `LoggerImpl`: all safety properties are proved.
5. `GlobalConfig`: all properties are proved. Next: several loading threads.
6. `Formatter`, `Formatting`: all properties are proved.
