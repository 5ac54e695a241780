-------------------------------- MODULE Logger --------------------------------
(***************************************************************************)
(* The front end (include/elog/logger.h, src/logger.cc): a call of Log     *)
(* formats its message, which may run user code that logs again on the     *)
(* same thread, and hands it to the file back end and to the console.      *)
(* Every thread has one Log that all calls of the static functions share;  *)
(* a Log object of the program's own keeps its own level and config.       *)
(*                                                                         *)
(* The back end is seen as AsyncLogging's callers see it: pushMsg accepts  *)
(* a message, waitDone stops it.                                           *)
(***************************************************************************)
EXTENDS Integers, SequencesExt

CONSTANTS
  Threads,
  Levels,       \* the levels the program uses
  Threshold,    \* log_level of the global config
  OwnThreshold, \* log_level of the config of a Log object of its own
  FileLogging,  \* log_filepath is set: there is an AsyncLogging
  Console,      \* log_console
  NDEBUG,       \* TRUE: assert() is compiled out
  MaxCalls,     \* bound on the calls of Log
  MaxDepth      \* bound on the calls in progress on one thread

kTrace == 0
kError == 4
kFatal == 5

ASSUME ConstantsAssumption ==
  /\ Levels \subseteq kTrace..kFatal
  /\ Threshold \in kTrace..kFatal /\ OwnThreshold \in kTrace..kFatal
  /\ FileLogging \in BOOLEAN /\ Console \in BOOLEAN /\ NDEBUG \in BOOLEAN
  /\ MaxCalls \in Nat /\ MaxDepth \in Nat

VARIABLES
  t_level,    \* m_level of each thread's Log
  calls,      \* the calls in progress on each thread, the innermost last
  thrown,     \* whether an exception is on its way out of them
  started,    \* number of calls so far: the identity of the last one
  ended,      \* the calls that have returned without an exception
  queue,      \* what pushMsg has accepted: calls with the recorded level
  m_done,     \* whether waitDone has stopped the back end
  waited,     \* whether the program has called WaitForDone
  stdoutBuf,  \* the buffer of stdout: identities of calls
  device,     \* what left that buffer
  printed,    \* the lines that were written to stdout
  flushing,   \* the threads that hold the lock of stdout, in fflush
  aborted     \* an assertion has failed

callVars    == <<t_level, calls, thrown, started, ended>>
consoleVars == <<stdoutBuf, device, printed, flushing>>
vars == <<callVars, queue, m_done, waited, consoleVars, aborted>>

MutantFirstLevel == -1
FirstLevel       == kTrace      \* m_level{}

Init ==
  /\ t_level = [t \in Threads |-> FirstLevel]
  /\ calls = [t \in Threads |-> <<>>] /\ thrown = [t \in Threads |-> FALSE]
  /\ started = 0 /\ ended = {}
  /\ queue = <<>> /\ m_done = FALSE /\ waited = FALSE
  /\ stdoutBuf = <<>> /\ device = <<>> /\ printed = {} /\ flushing = {}
  /\ aborted = FALSE

Top(t)   == Last(calls[t])
At(t, p) == ~aborted /\ ~thrown[t] /\ calls[t] # <<>> /\ Top(t).pc = p

\* The program itself runs: outside of any call, or in a formatter.
InProgram(t) == ~aborted /\ ~thrown[t] /\ (calls[t] # <<>> => Top(t).pc = "format")

GoTo(t, p) == calls' = [calls EXCEPT ![t] = Append(Front(@), [Top(t) EXCEPT !.pc = p])]

\* A new call on top; the calls below it are no longer undisturbed.
Enter(t, asked, own, limit) ==
  /\ Len(calls[t]) < MaxDepth /\ started < MaxCalls
  /\ started' = started + 1
  /\ calls' = [calls EXCEPT ![t] =
       Append([i \in DOMAIN @ |-> [@[i] EXCEPT !.undisturbed = FALSE]],
              [id |-> started + 1, asked |-> asked, own |-> own, limit |-> limit,
               level |-> asked, undisturbed |-> TRUE, pc |-> "format"])]

ShouldLog(level) == Threshold <= level

MutantInstances(t) == Threads
Instances(t)       == {t}       \* thread_local

MutantLevelSet(t, asked) == asked
LevelSet(t, asked)       == IF ShouldLog(asked) THEN asked ELSE t_level[t]

\* Log::info and the like: Get() stores the level in the thread's Log, after the
\* test of the level.  That Get() is public and may be called without the test
\* is not modelled: no document, test or example does it.
CallStatic(t, asked) ==
  /\ InProgram(t)
  /\ t_level' = [u \in Threads |-> IF u \in Instances(t) THEN LevelSet(t, asked) ELSE t_level[u]]
  /\ IF ShouldLog(asked) THEN Enter(t, asked, FALSE, Threshold) ELSE UNCHANGED <<calls, started>>
  /\ UNCHANGED <<thrown, ended, queue, m_done, waited, consoleVars, aborted>>

\* printf or println of a Log object with a configuration of its own.
CallOwn(t, asked) ==
  /\ InProgram(t)
  /\ Enter(t, asked, TRUE, OwnThreshold)
  /\ UNCHANGED <<t_level, thrown, ended, queue, m_done, waited, consoleVars, aborted>>

\* The condition of ELG_CHECK or of an assertion is false: the logger_helper
\* logs with a Log of its own and the global config.  It does nothing if the
\* condition is true.
CallCheck(t, asked) ==
  /\ InProgram(t)
  /\ Enter(t, asked, TRUE, Threshold)
  /\ UNCHANGED <<t_level, thrown, ended, queue, m_done, waited, consoleVars, aborted>>

FormatThrows(t) ==
  /\ At(t, "format")
  /\ thrown' = [thrown EXCEPT ![t] = TRUE]
  /\ UNCHANGED <<t_level, calls, started, ended, queue, m_done, waited, consoleVars, aborted>>

Filtered(call, level) == level < call.limit

MutantRecorded(t) == t_level[t]

\* log_it_ reads m_level now, when the message is formatted.
Recorded(t) == IF Top(t).own THEN Top(t).asked ELSE t_level[t]

LogIt(t) ==
  /\ At(t, "format")
  /\ calls' = [calls EXCEPT ![t] =
       Append(Front(@), [Top(t) EXCEPT !.level = Recorded(t),
                                       !.pc = IF Filtered(Top(t), Recorded(t)) THEN "end" ELSE "file"])]
  /\ UNCHANGED <<t_level, thrown, started, ended, queue, m_done, waited, consoleVars, aborted>>

\* LogFile: pushMsg asserts that the back end has not been stopped.
PushToFile(t) ==
  /\ At(t, "file")
  /\ IF FileLogging /\ m_done /\ ~NDEBUG
     THEN aborted' = TRUE /\ UNCHANGED <<queue, calls>>
     ELSE /\ queue' = IF FileLogging THEN Append(queue, [id |-> Top(t).id, level |-> Top(t).level])
                                     ELSE queue
          /\ GoTo(t, IF Console THEN "console" ELSE "fatal")
          /\ UNCHANGED aborted
  /\ UNCHANGED <<t_level, thrown, started, ended, m_done, waited, consoleVars>>

\* LogConsole: fwrite_unlocked in the critical section of m_mutex.
WriteConsole(t) ==
  /\ At(t, "console")
  /\ stdoutBuf' = Append(stdoutBuf, Top(t).id) /\ printed' = printed \cup {Top(t).id}
  /\ GoTo(t, "fflush")
  /\ UNCHANGED <<t_level, thrown, started, ended, queue, m_done, waited, device, flushing, aborted>>

\* fflush locks the FILE, which fwrite_unlocked does not: write() hands the
\* buffer over, then the buffer is reset.
BeginFlush(t) ==
  /\ At(t, "fflush") /\ flushing = {}
  /\ flushing' = {t} /\ device' = device \o stdoutBuf
  /\ UNCHANGED <<callVars, queue, m_done, waited, stdoutBuf, printed, aborted>>

EndFlush(t) ==
  /\ At(t, "fflush") /\ t \in flushing
  /\ flushing' = {} /\ stdoutBuf' = <<>>
  /\ GoTo(t, "fatal")
  /\ UNCHANGED <<t_level, thrown, started, ended, queue, m_done, waited, device, printed, aborted>>

MutantStops(level) == level >= kError
Stops(level)       == level = kFatal

\* The end of DoConfigLog.
CheckFatal(t) ==
  /\ At(t, "fatal")
  /\ IF Stops(Top(t).level)
     THEN /\ m_done' = (m_done \/ FileLogging)
          /\ thrown' = [thrown EXCEPT ![t] = TRUE]
          /\ UNCHANGED calls
     ELSE GoTo(t, "end") /\ UNCHANGED <<m_done, thrown>>
  /\ UNCHANGED <<t_level, started, ended, queue, waited, consoleVars, aborted>>

\* The program calls WaitForDone.
WaitForDone(t) ==
  /\ InProgram(t) /\ ~waited
  /\ waited' = TRUE /\ m_done' = FileLogging
  /\ UNCHANGED <<callVars, queue, consoleVars, aborted>>

Return(t) ==
  /\ At(t, "end")
  /\ ended' = ended \cup {Top(t)}
  /\ calls' = [calls EXCEPT ![t] = Front(@)]
  /\ UNCHANGED <<t_level, thrown, started, queue, m_done, waited, consoleVars, aborted>>

\* The exception leaves a call; the formatter below, or the program, may
\* catch it.
Unwind(t) ==
  /\ ~aborted /\ thrown[t]
  /\ calls' = [calls EXCEPT ![t] = Front(@)]
  /\ \E caught \in {TRUE, Len(calls[t]) = 1} : thrown' = [thrown EXCEPT ![t] = ~caught]
  /\ UNCHANGED <<t_level, started, ended, queue, m_done, waited, consoleVars, aborted>>

Next ==
  \E t \in Threads :
    \/ \E l \in Levels : CallStatic(t, l) \/ CallOwn(t, l) \/ CallCheck(t, l)
    \/ FormatThrows(t) \/ LogIt(t) \/ PushToFile(t)
    \/ WriteConsole(t) \/ BeginFlush(t) \/ EndFlush(t)
    \/ CheckFatal(t) \/ Return(t) \/ Unwind(t) \/ WaitForDone(t)

Spec == Init /\ [][Next]_vars

-----------------------------------------------------------------------------
Frame == [id : Nat, asked : Levels, own : BOOLEAN, limit : kTrace..kFatal,
          level : kTrace..kFatal, undisturbed : BOOLEAN,
          pc : {"format", "file", "console", "fflush", "fatal", "end"}]

\* Every variable keeps its type, and the exception is in a call.
TypeOK ==
  /\ t_level \in [Threads -> kTrace..kFatal]
  /\ calls \in [Threads -> Seq(Frame)] /\ thrown \in [Threads -> BOOLEAN]
  /\ \A t \in Threads : thrown[t] => calls[t] # <<>>
  /\ started \in Nat /\ ended \subseteq Frame
  /\ queue \in Seq([id : Nat, level : kTrace..kFatal])
  /\ stdoutBuf \in Seq(Nat) /\ device \in Seq(Nat) /\ printed \subseteq Nat
  /\ flushing \subseteq Threads
  /\ m_done \in BOOLEAN /\ waited \in BOOLEAN /\ aborted \in BOOLEAN

Past(call) == call.pc # "format"

\* A message is recorded with the level it was logged with, whatever other
\* threads log meanwhile, unless its own formatting has logged.
LevelKept ==
  /\ \A t \in Threads : \A i \in DOMAIN calls[t] :
       Past(calls[t][i]) /\ calls[t][i].undisturbed => calls[t][i].level = calls[t][i].asked
  /\ \A call \in ended : call.undisturbed => call.level = call.asked

\* A message that the static functions let pass is never filtered out later:
\* when the call returns it has been accepted for the file, even if nested
\* calls, let pass or not, have used the thread's Log in between.
PassedIsAccepted ==
  FileLogging =>
    \A call \in ended : ~call.own => \E i \in DOMAIN queue : queue[i].id = call.id

\* The back end is stopped, and the assertion of pushMsg fails, only after a
\* message that was recorded as fatal has been accepted, or the program has
\* called WaitForDone: until then every thread may log.
StoppedByFatal ==
  (m_done \/ aborted) /\ ~waited => \E i \in DOMAIN queue : queue[i].level = kFatal

\* An assertion that fails never returns to its caller, and no more does a
\* fatal message of a Log object: it throws, whatever is logged while it is
\* formatted.  README.md:469: "Assertion macro that throws an exception if the
\* condition is not met."
AssertionThrows == \A call \in ended : call.own => call.asked # kFatal

\* No call at fatal level returns to its caller: it throws.
FatalThrows == \A call \in ended : call.asked # kFatal

\* What was written to the console under the lock comes out on the device.
ConsoleComplete == printed \subseteq Range(stdoutBuf) \cup Range(device)
=============================================================================
