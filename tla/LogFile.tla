------------------------------- MODULE LogFile -------------------------------
(***************************************************************************)
(* LogFile (src/log_file.cc) over FileAppender (src/file_appender.cc): one *)
(* growing log file, replaced by a new one when it gets too large or when  *)
(* the day changes, and flushed when the last flush is too long ago.  Both *)
(* are looked at while a message is appended, the day and the age of the   *)
(* flush only on every CheckEveryN-th append.                              *)
(*                                                                         *)
(* A call is one action: LogFile has a mutex or a single user, the worker  *)
(* of AsyncLogging.  A file is known by what distinguishes its name: the   *)
(* local time of its creation, in seconds.                                 *)
(***************************************************************************)
EXTENDS Integers

CONSTANTS
  RollSize,        \* m_rollSize, bytes
  FlushInterval,   \* m_flushInterval, seconds
  CheckEveryN,     \* m_checkEveryN, appends
  RollPerSeconds,  \* kRollPerSeconds, the length of a day
  Lengths,         \* the lengths messages may have
  MaxLen,          \* the largest of them
  MaxUse,          \* bound on what a file takes while it stays open
  StartTime,       \* bounds on the clock
  MaxTime,
  LocalTime(_),    \* the local time of a second, as it appears in a file name
  ClockStepsBack,  \* TRUE: the clock may be set back
  Failures         \* TRUE: writing to a file may fail

Times == StartTime..MaxTime

ASSUME ConstantsAssumption ==
  /\ RollSize \in Nat /\ FlushInterval \in Nat
  /\ CheckEveryN \in Nat \ {0} /\ RollPerSeconds \in Nat \ {0}
  /\ MaxLen \in Nat /\ Lengths \subseteq 0..MaxLen /\ MaxUse \in Nat
  /\ StartTime \in Nat \ {0} /\ MaxTime \in Nat
  /\ \A t \in Times : LocalTime(t) \in Int
  /\ ClockStepsBack \in BOOLEAN /\ Failures \in BOOLEAN

VARIABLES
  clock,           \* time(nullptr)
  m_lastPeriod, m_lastRoll, m_lastFlush, m_count,
  m_file,          \* the file the FileAppender has open
  m_writenBytes,
  files,           \* every file created, with what was appended to it: bytes
                   \* up to the second of its creation (early) and after it
                   \* (late), messages after the end of its day (stale)
  oldest,          \* when the oldest message not yet flushed was appended
  overdue,         \* appends since that message is older than FlushInterval
  state            \* "open", "closed" (destroyed) or "crashed"

rollVars == <<m_lastPeriod, m_lastRoll, m_lastFlush, m_count>>
fileVars == <<m_file, m_writenBytes, files, oldest, overdue>>
vars == <<clock, rollVars, fileVars, state>>

Clean == MaxTime + 1      \* value of oldest when all is flushed

Period(t) == (t \div RollPerSeconds) * RollPerSeconds

Name(t) == LocalTime(t)

NewFile == [early |-> 0, late |-> 0, stale |-> 0]

\* fopen(.., "a"): a file of that name is continued, not truncated.
WithFile(fs, name) ==
  [f \in DOMAIN fs \cup {name} |-> IF f \in DOMAIN fs THEN fs[f] ELSE NewFile]

\* The constructor: rollFile() with m_lastRoll = 0.
Init ==
  /\ clock \in Times
  /\ m_lastPeriod = Period(clock) /\ m_lastRoll = clock /\ m_lastFlush = clock
  /\ m_count = 0
  /\ m_file = Name(clock) /\ m_writenBytes = 0
  /\ files = [f \in {Name(clock)} |-> NewFile]
  /\ oldest = Clean /\ overdue = 0
  /\ state = "open"

\* The file after a message of len bytes went into it.
Grow(file, len) ==
  [early |-> file.early + (IF clock > m_lastRoll THEN 0 ELSE len),
   late  |-> file.late + (IF clock > m_lastRoll THEN len ELSE 0),
   stale |-> file.stale + (IF Period(clock) # m_lastPeriod THEN 1 ELSE 0)]

Grown(len) == [files EXCEPT ![m_file] = Grow(@, len)]

\* The message stays in the buffer of the FILE.
Buffered ==
  /\ oldest' = IF oldest = Clean THEN clock ELSE oldest
  /\ overdue' = IF oldest # Clean /\ clock - oldest > FlushInterval THEN overdue + 1 ELSE overdue

Flushed == oldest' = Clean /\ overdue' = 0

MutantMayRoll == TRUE
MayRoll       == clock > m_lastRoll

\* rollFile() after the write w: the FileAppender for the new file is created,
\* then the old one is destroyed, which flushes it.
RollFile(w) ==
  IF MayRoll
  THEN /\ m_lastRoll' = clock /\ m_lastFlush' = clock /\ m_lastPeriod' = Period(clock)
       /\ m_file' = Name(clock)
       /\ files' = WithFile(Grown(w.got), Name(clock))
       /\ Flushed
  ELSE /\ files' = Grown(w.got)
       /\ Buffered
       /\ UNCHANGED <<m_lastRoll, m_lastFlush, m_lastPeriod, m_file>>

MutantTooLarge(w) == w.counted > RollSize
TooLarge(w)       == m_writenBytes + w.counted > RollSize
MutantCheckDue    == m_count + 1 > CheckEveryN
CheckDue          == m_count + 1 >= CheckEveryN
NewDay            == Period(clock) # m_lastPeriod
MutantFlushDue    == clock - m_lastFlush > RollPerSeconds
FlushDue          == clock - m_lastFlush > FlushInterval

(***************************************************************************)
(* append().  The FILE takes the whole message, or, on an error, part of   *)
(* it, of which FileAppender then counts nothing.                          *)
(***************************************************************************)
Writes ==
  {[got |-> len, counted |-> len] : len \in Lengths} \cup
  (IF Failures THEN {[got |-> part, counted |-> 0] : part \in 0..(MaxLen - 1)} ELSE {})

MayAppend ==
  /\ state = "open"
  /\ files[m_file].early + files[m_file].late + files[m_file].stale + overdue < MaxUse

\* The counter restarts even when no new file could be opened this second.
AppendAndRoll(w) ==
  /\ MayAppend /\ TooLarge(w)
  /\ RollFile(w)
  /\ m_writenBytes' = 0
  /\ UNCHANGED <<clock, m_count, state>>

Append(w) ==
  /\ MayAppend /\ ~TooLarge(w) /\ ~CheckDue
  /\ files' = Grown(w.got) /\ Buffered
  /\ m_writenBytes' = m_writenBytes + w.counted
  /\ m_count' = m_count + 1
  /\ UNCHANGED <<clock, m_lastPeriod, m_lastRoll, m_lastFlush, m_file, state>>

AppendAndChangeDay(w) ==
  /\ MayAppend /\ ~TooLarge(w) /\ CheckDue /\ NewDay
  /\ RollFile(w)
  /\ m_writenBytes' = IF MayRoll THEN 0 ELSE m_writenBytes + w.counted
  /\ m_count' = 0
  /\ UNCHANGED <<clock, state>>

AppendAndFlush(w) ==
  /\ MayAppend /\ ~TooLarge(w) /\ CheckDue /\ ~NewDay
  /\ files' = Grown(w.got)
  /\ m_writenBytes' = m_writenBytes + w.counted
  /\ m_count' = 0
  /\ IF FlushDue THEN m_lastFlush' = clock /\ Flushed
                 ELSE Buffered /\ UNCHANGED m_lastFlush
  /\ UNCHANGED <<clock, m_lastPeriod, m_lastRoll, m_file, state>>

\* The new file cannot be opened.  ferror on the null FILE may crash the
\* process; the exception makes the owner destroy the LogFile, which still
\* holds the old file.
RollThrows(w) ==
  /\ MayAppend /\ MayRoll
  /\ TooLarge(w) \/ (CheckDue /\ NewDay)
  /\ m_lastRoll' = clock /\ m_lastFlush' = clock /\ m_lastPeriod' = Period(clock)
  /\ files' = Grown(w.got)
  /\ m_writenBytes' = m_writenBytes + w.counted
  /\ m_count' = IF TooLarge(w) THEN m_count ELSE 0
  /\ \/ state' = "closed" /\ Flushed
     \/ state' = "crashed" /\ Buffered
  /\ UNCHANGED <<clock, m_file>>

\* flush() does not touch m_lastFlush.
Flush ==
  /\ state = "open"
  /\ Flushed
  /\ UNCHANGED <<clock, rollVars, m_file, m_writenBytes, files, state>>

\* The destructor flushes and closes the file.
Close ==
  /\ state = "open"
  /\ state' = "closed" /\ Flushed
  /\ UNCHANGED <<clock, rollVars, m_file, m_writenBytes, files>>

Tick ==
  /\ \E t \in Times : (ClockStepsBack \/ t > clock) /\ clock' = t
  /\ UNCHANGED <<rollVars, fileVars, state>>

Next ==
  \/ \E w \in Writes :
       AppendAndRoll(w) \/ Append(w) \/ AppendAndChangeDay(w) \/ AppendAndFlush(w) \/ RollThrows(w)
  \/ Flush \/ Close \/ Tick

Spec == Init /\ [][Next]_vars

-----------------------------------------------------------------------------
TypeOK ==
  /\ clock \in Times
  /\ m_lastRoll \in Times /\ m_lastFlush \in Times
  /\ m_lastPeriod = Period(m_lastRoll)
  /\ m_count \in 0..(CheckEveryN - 1) /\ m_writenBytes \in Nat
  /\ m_file \in DOMAIN files
  /\ DOMAIN files \subseteq {Name(t) : t \in Times}
  /\ \A f \in DOMAIN files : files[f] \in [early : Nat, late : Nat, stale : Nat]
  /\ oldest \in Times \cup {Clean} /\ overdue \in Nat
  /\ state \in {"open", "closed", "crashed"}

\* A file may take any amount in the second of its creation, for rollFile()
\* creates no second file then, but restarts the counter.  What it takes
\* afterwards is bounded by RollSize and the message that goes beyond it.
LateBytesBounded ==
  \A f \in DOMAIN files : files[f].late <= RollSize + MaxLen

\* The day is looked at only now and then: no more than CheckEveryN messages
\* of a new day go into the file of an earlier day, however the size checks,
\* which leave m_count alone, fall between.
StaleBounded ==
  \A f \in DOMAIN files : files[f].stale <= CheckEveryN

\* A message may wait in the buffer of the FILE for more than FlushInterval,
\* but fewer than CheckEveryN further appends go by before it is flushed: no
\* path through append() puts off the check of m_lastFlush. (A crash while
\* rolling flushes nothing.)
OverdueBounded == state # "crashed" => overdue < CheckEveryN

\* Only the file with the latest name ever grows, and a roll opens a file
\* with a later name: no older file is reopened, even if the clock is set
\* back, for rollFile() compares with m_lastRoll and not with the last look.
OnlyNewestGrows ==
  [][/\ \A f \in DOMAIN files :
          f \in DOMAIN files' /\ (files'[f] # files[f] => f = m_file)
     /\ \A f \in DOMAIN files : f <= m_file
     /\ m_file' # m_file => m_file' > m_file /\ m_file' \notin DOMAIN files]_vars

\* A file never exceeds the size at which a new one is due by more than the
\* message that went over it.
SizeBounded ==
  \A f \in DOMAIN files : files[f].early + files[f].late <= RollSize + MaxLen
=============================================================================
