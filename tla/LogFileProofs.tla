----------------------------- MODULE LogFileProofs -----------------------------
(***************************************************************************)
(* What LogFile guarantees for every roll size, check interval and length  *)
(* of the day.  Two things about time are assumed where they are needed:   *)
(* that local time moves forward, and that the clock is not set back.      *)
(***************************************************************************)
EXTENDS LogFile, TLAPS

LocalTimeMonotone == \A s, t \in Times : s < t => LocalTime(s) < LocalTime(t)

LEMMA PeriodType == \A t \in Nat : Period(t) \in Int
  BY ConstantsAssumption DEF Period

\* Rounding down to the start of the day preserves the order.
LEMMA PeriodMonotone ==
  ASSUME NEW s \in Nat, NEW t \in Nat, s <= t
  PROVE  Period(s) <= Period(t)
<1> DEFINE q == s \div RollPerSeconds
           r == t \div RollPerSeconds
<1>1. RollPerSeconds \in Nat /\ RollPerSeconds > 0
  BY ConstantsAssumption
<1>2. q \in Int /\ r \in Int /\ q * RollPerSeconds <= s /\ t < (r + 1) * RollPerSeconds
  BY <1>1, Z3
<1>3. q <= r
  BY <1>1, <1>2, Z3
<1> QED
  BY <1>1, <1>2, <1>3, Z3 DEF Period

FileRecord == [early : Nat, late : Nat, stale : Nat]

\* An append adds its bytes to one side of the open file, and one to its
\* stale messages at most.
LEMMA GrowType ==
  ASSUME NEW file \in FileRecord, NEW len \in Nat
  PROVE  /\ Grow(file, len) \in FileRecord
         /\ Grow(file, len).early + Grow(file, len).late = file.early + file.late + len
         /\ Grow(file, len).late = IF clock > m_lastRoll THEN file.late + len ELSE file.late
         /\ Grow(file, len).stale = IF Period(clock) # m_lastPeriod THEN file.stale + 1 ELSE file.stale
  BY DEF FileRecord, Grow

LEMMA WritesType ==
  ASSUME NEW w \in Writes
  PROVE  /\ w.got \in 0..MaxLen /\ w.counted \in 0..MaxLen
         /\ ~Failures => w.counted = w.got
  BY ConstantsAssumption DEF Writes

\* Opening the file of this second adds at most that file, and keeps what the
\* others hold.
LEMMA WithFileType ==
  ASSUME NEW fs, NEW name, \A f \in DOMAIN fs : fs[f] \in FileRecord
  PROVE  /\ DOMAIN WithFile(fs, name) = DOMAIN fs \cup {name}
         /\ \A f \in DOMAIN WithFile(fs, name) : WithFile(fs, name)[f] \in FileRecord
         /\ \A f \in DOMAIN fs : WithFile(fs, name)[f] = fs[f]
         /\ name \notin DOMAIN fs => WithFile(fs, name)[name] = NewFile
<1>1. NewFile \in FileRecord
  BY DEF NewFile, FileRecord
<1> QED
  BY <1>1 DEF WithFile

\* The file table after an append, before a roll.
LEMMA GrownType ==
  ASSUME m_file \in DOMAIN files, \A f \in DOMAIN files : files[f] \in FileRecord,
         files = [f \in DOMAIN files |-> files[f]], NEW len \in Nat
  PROVE  /\ DOMAIN Grown(len) = DOMAIN files
         /\ Grown(len)[m_file] = Grow(files[m_file], len)
         /\ \A f \in DOMAIN files : f # m_file => Grown(len)[f] = files[f]
         /\ \A f \in DOMAIN files : Grown(len)[f] \in FileRecord
<1>1. Grown(len) = [f \in DOMAIN files |-> IF f = m_file THEN Grow(files[m_file], len) ELSE files[f]]
  BY DEF Grown
<1>2. Grow(files[m_file], len) \in FileRecord
  BY GrowType
<1> QED
  BY <1>1, <1>2

-----------------------------------------------------------------------------
(***************************************************************************)
(* Types, whatever the clock, the zone and the disk do.                    *)
(***************************************************************************)
Table(fs) ==
  /\ fs = [f \in DOMAIN fs |-> fs[f]]
  /\ DOMAIN fs \subseteq {Name(t) : t \in Times}
  /\ \A f \in DOMAIN fs : fs[f] \in FileRecord

TypeInv == TypeOK /\ Table(files)

LEMMA TypeInit == Init => TypeInv
<1> SUFFICES ASSUME Init PROVE TypeInv
  OBVIOUS
<1>1. NewFile \in FileRecord
  BY DEF NewFile, FileRecord
<1>2. Table(files) /\ m_file \in DOMAIN files
  BY <1>1 DEF Init, Table
<1> QED
  BY <1>2, ConstantsAssumption DEF Init, TypeInv, TypeOK, Table, FileRecord

\* What an append leaves of the files, rolled or not.
LEMMA TypeWrite ==
  ASSUME TypeInv, NEW w \in Writes
  PROVE  /\ w.got \in Nat /\ w.counted \in Nat
         /\ Table(Grown(w.got)) /\ DOMAIN Grown(w.got) = DOMAIN files
         /\ Table(WithFile(Grown(w.got), Name(clock)))
         /\ Name(clock) \in DOMAIN WithFile(Grown(w.got), Name(clock))
<1>1. w.got \in Nat /\ w.counted \in Nat
  BY WritesType, ConstantsAssumption
<1> DEFINE fs == Grown(w.got)
           gs == WithFile(fs, Name(clock))
<1>2. Table(fs) /\ DOMAIN fs = DOMAIN files
  <2>1. fs = [f \in DOMAIN fs |-> fs[f]]
    BY DEF Grown, TypeInv, Table
  <2>2. DOMAIN fs = DOMAIN files /\ \A f \in DOMAIN files : fs[f] \in FileRecord
    BY <1>1, GrownType DEF TypeInv, TypeOK, Table
  <2> QED
    BY <2>1, <2>2 DEF TypeInv, Table
<1> HIDE DEF fs
<1>3. Table(gs) /\ Name(clock) \in DOMAIN gs
  <2>1. gs = [f \in DOMAIN gs |-> gs[f]]
    BY DEF WithFile
  <2>2. DOMAIN gs = DOMAIN fs \cup {Name(clock)} /\ \A f \in DOMAIN gs : gs[f] \in FileRecord
    BY <1>2, WithFileType DEF Table
  <2> QED
    BY <1>2, <2>1, <2>2 DEF Table, TypeInv, TypeOK
<1> QED
  BY <1>1, <1>2, <1>3 DEF fs

LEMMA TypeStep == TypeInv /\ [Next]_vars => TypeInv'
<1> SUFFICES ASSUME TypeInv, [Next]_vars PROVE TypeInv'
  OBVIOUS
<1> USE DEF rollVars, fileVars
<1>1. CheckEveryN \in Nat \ {0} /\ overdue \in Nat /\ oldest \in Times \cup {Clean} /\ clock \in Times
  BY ConstantsAssumption DEF TypeInv, TypeOK
<1>2. ASSUME NEW w \in Writes,
             AppendAndRoll(w) \/ AppendAndChangeDay(w)
      PROVE  TypeInv'
  <2>1. /\ clock' = clock /\ state' = state /\ RollFile(w)
        /\ m_count' \in 0..(CheckEveryN - 1) /\ m_writenBytes' \in Nat
    BY <1>1, <1>2, TypeWrite DEF AppendAndRoll, AppendAndChangeDay, TypeInv, TypeOK
  <2>2. CASE MayRoll
    <3>1. /\ m_file' = Name(clock) /\ files' = WithFile(Grown(w.got), Name(clock))
          /\ m_lastRoll' = clock /\ m_lastFlush' = clock /\ m_lastPeriod' = Period(clock)
          /\ oldest' = Clean /\ overdue' = 0
      BY <2>1, <2>2 DEF RollFile, Flushed
    <3>2. Table(files') /\ m_file' \in DOMAIN files'
      BY <3>1, TypeWrite
    <3> QED
      BY <1>1, <2>1, <3>1, <3>2 DEF TypeInv, TypeOK, Table, FileRecord
  <2>3. CASE ~MayRoll
    <3>1. files' = Grown(w.got) /\ Buffered /\ UNCHANGED <<m_lastRoll, m_lastFlush, m_lastPeriod, m_file>>
      BY <2>1, <2>3 DEF RollFile
    <3>2. oldest' \in Times \cup {Clean} /\ overdue' \in Nat
      BY <1>1, <3>1 DEF Buffered
    <3> QED
      BY <2>1, <3>1, <3>2, TypeWrite DEF TypeInv, TypeOK, Table, FileRecord
  <2> QED
    BY <2>2, <2>3
<1>3. ASSUME NEW w \in Writes, Append(w) \/ AppendAndFlush(w) PROVE TypeInv'
  <2>1. /\ clock' = clock /\ state' = state /\ files' = Grown(w.got)
        /\ m_file' = m_file /\ m_lastRoll' = m_lastRoll /\ m_lastPeriod' = m_lastPeriod
        /\ m_lastFlush' \in Times /\ (Buffered \/ Flushed)
    BY <1>1, <1>3 DEF Append, AppendAndFlush, TypeInv, TypeOK
  <2>2. m_writenBytes' \in Nat
    BY <1>3, TypeWrite DEF Append, AppendAndFlush, TypeInv, TypeOK
  <2>3. m_count' \in 0..(CheckEveryN - 1)
    BY <1>1, <1>3 DEF Append, AppendAndFlush, CheckDue, TypeInv, TypeOK
  <2>4. oldest' \in Times \cup {Clean} /\ overdue' \in Nat
    BY <1>1, <2>1 DEF Buffered, Flushed
  <2> QED
    BY <2>1, <2>2, <2>3, <2>4, TypeWrite DEF TypeInv, TypeOK, Table, FileRecord
<1>4. ASSUME NEW w \in Writes, RollThrows(w) PROVE TypeInv'
  <2>1. /\ clock' = clock /\ files' = Grown(w.got) /\ m_file' = m_file
        /\ m_lastRoll' = clock /\ m_lastFlush' = clock /\ m_lastPeriod' = Period(clock)
        /\ state' \in {"closed", "crashed"} /\ (Buffered \/ Flushed)
    BY <1>4 DEF RollThrows
  <2>2. m_writenBytes' \in Nat /\ m_count' \in 0..(CheckEveryN - 1)
    BY <1>1, <1>4, TypeWrite DEF RollThrows, TypeInv, TypeOK
  <2>3. oldest' \in Times \cup {Clean} /\ overdue' \in Nat
    BY <1>1, <2>1 DEF Buffered, Flushed
  <2> QED
    BY <1>1, <2>1, <2>2, <2>3, TypeWrite DEF TypeInv, TypeOK, Table, FileRecord
<1>5. CASE Flush \/ Close
  BY <1>5 DEF Flush, Close, Flushed, TypeInv, TypeOK, Table
<1>6. CASE Tick
  BY <1>6 DEF Tick, TypeInv, TypeOK, Table
<1>7. CASE UNCHANGED vars
  BY <1>7 DEF vars, TypeInv, TypeOK, Table
<1> QED
  BY <1>2, <1>3, <1>4, <1>5, <1>6, <1>7 DEF Next

\* A step adds at most one file to those there are, the one it opens, and then
\* the old file has been flushed.
LEMMA FilesStay ==
  ASSUME TypeInv, [Next]_vars
  PROVE  /\ DOMAIN files' = DOMAIN files \cup {m_file'}
         /\ m_file' # m_file => oldest' = Clean
<1> USE DEF rollVars, fileVars
<1>1. m_file \in DOMAIN files
  BY DEF TypeInv, TypeOK
<1>2. ASSUME NEW w \in Writes,
             \/ AppendAndRoll(w) \/ Append(w) \/ AppendAndChangeDay(w) \/ AppendAndFlush(w)
             \/ RollThrows(w)
      PROVE  /\ DOMAIN files' = DOMAIN files \cup {m_file'}
             /\ m_file' # m_file => oldest' = Clean
  <2>1. DOMAIN Grown(w.got) = DOMAIN files
    BY TypeWrite
  <2>2. DOMAIN WithFile(Grown(w.got), Name(clock)) = DOMAIN files \cup {Name(clock)}
    BY <2>1 DEF WithFile
  <2>3. \/ files' = Grown(w.got) /\ m_file' = m_file
        \/ /\ files' = WithFile(Grown(w.got), Name(clock)) /\ m_file' = Name(clock)
           /\ oldest' = Clean
    BY <1>2 DEF AppendAndRoll, Append, AppendAndChangeDay, AppendAndFlush, RollThrows, RollFile, Flushed
  <2> QED
    BY <1>1, <2>1, <2>2, <2>3
<1>3. CASE Flush \/ Close \/ Tick \/ UNCHANGED vars
  BY <1>1, <1>3 DEF Flush, Close, Tick, vars
<1> QED
  BY <1>2, <1>3 DEF Next

\* Every variable keeps its type, the check counter stays below its period
\* and the period in use is that of the last roll, even with a clock that is
\* set back, a zone that falls back, write errors and a roll that throws.
THEOREM FileTypesKept == Spec => []TypeOK
<1>1. TypeInv => TypeOK
  BY DEF TypeInv
<1> QED
  BY <1>1, TypeInit, TypeStep, PTL DEF Spec

-----------------------------------------------------------------------------
(***************************************************************************)
(* Types and names, with a clock that may be set back and writes that may  *)
(* fail.                                                                   *)
(***************************************************************************)
NameInv ==
  /\ clock \in Times /\ m_lastRoll \in Times
  /\ files = [f \in DOMAIN files |-> files[f]]
  /\ \A f \in DOMAIN files : files[f] \in FileRecord
  /\ m_file \in DOMAIN files
  /\ \A f \in DOMAIN files : f \in Int /\ f <= m_file
  /\ state = "open" => m_file = Name(m_lastRoll)

LEMMA NameInit == Init => NameInv
<1> SUFFICES ASSUME Init PROVE NameInv
  OBVIOUS
<1>1. Name(clock) \in Int
  BY ConstantsAssumption DEF Init, Name
<1>2. NewFile \in FileRecord
  BY DEF NewFile, FileRecord
<1> QED
  BY <1>1, <1>2 DEF Init, NameInv

\* A roll opens a file with a later name than any before; nothing else
\* changes the set of files.
LEMMA NameRoll ==
  ASSUME LocalTimeMonotone, NameInv, state = "open", NEW w \in Writes, RollFile(w),
         clock' = clock, state' = state
  PROVE  /\ NameInv'
         /\ \A f \in DOMAIN files : f \in DOMAIN files' /\ (files'[f] # files[f] => f = m_file)
         /\ m_file' # m_file => m_file' > m_file /\ m_file' \notin DOMAIN files
<1> DEFINE fs == Grown(w.got)
<1>1. /\ DOMAIN fs = DOMAIN files
      /\ \A f \in DOMAIN files : (f # m_file => fs[f] = files[f]) /\ fs[f] \in FileRecord
      /\ fs = [f \in DOMAIN fs |-> fs[f]]
  <2>1. w.got \in Nat
    BY WritesType, ConstantsAssumption
  <2>2. fs = [f \in DOMAIN fs |-> fs[f]]
    BY DEF Grown, NameInv
  <2> QED
    BY <2>1, <2>2, GrownType DEF NameInv
<1> HIDE DEF fs
<1>2. CASE MayRoll
  <2>1. /\ m_file' = Name(clock) /\ m_lastRoll' = clock /\ files' = WithFile(fs, Name(clock))
    BY <1>2 DEF RollFile, fs
  <2>2. Name(clock) \in Int /\ m_file \in Int /\ Name(clock) > m_file
    BY <1>2, ConstantsAssumption DEF NameInv, MayRoll, LocalTimeMonotone, Name, Times
  <2>3. Name(clock) \notin DOMAIN files
    BY <2>2 DEF NameInv
  <2>4. /\ DOMAIN files' = DOMAIN files \cup {Name(clock)}
        /\ \A f \in DOMAIN files' : files'[f] \in FileRecord
        /\ \A f \in DOMAIN files : files'[f] = fs[f]
    <3>1. \A f \in DOMAIN fs : fs[f] \in FileRecord
      BY <1>1
    <3>2. /\ DOMAIN WithFile(fs, Name(clock)) = DOMAIN fs \cup {Name(clock)}
          /\ \A f \in DOMAIN WithFile(fs, Name(clock)) :
               WithFile(fs, Name(clock))[f] \in FileRecord
          /\ \A f \in DOMAIN fs : WithFile(fs, Name(clock))[f] = fs[f]
      BY <3>1, WithFileType
    <3> QED
      BY <1>1, <2>1, <3>2
  <2>5. files' = [f \in DOMAIN files' |-> files'[f]]
    BY <2>1 DEF WithFile
  <2>6. \A f \in DOMAIN files' : f \in Int /\ f <= m_file'
    BY <2>1, <2>2, <2>4 DEF NameInv
  <2>7. NameInv'
    BY <2>1, <2>4, <2>5, <2>6 DEF NameInv
  <2> QED
    BY <1>1, <2>1, <2>2, <2>3, <2>4, <2>7
<1>3. CASE ~MayRoll
  <2>1. files' = fs /\ m_file' = m_file /\ m_lastRoll' = m_lastRoll
    BY <1>3 DEF RollFile, fs
  <2> QED
    BY <1>1, <2>1 DEF NameInv
<1> QED
  BY <1>2, <1>3

\* Steps that only append to the open file, or do not touch the files.
LEMMA NameGrow ==
  ASSUME NameInv, UNCHANGED m_file, clock' \in Times, m_lastRoll' \in Times,
         \/ files' = files
         \/ state = "open" /\ \E w \in Writes : files' = Grown(w.got),
         state' = "open" => state = "open" /\ m_lastRoll' = m_lastRoll
  PROVE  /\ NameInv'
         /\ \A f \in DOMAIN files : f \in DOMAIN files' /\ (files'[f] # files[f] => f = m_file)
         /\ m_file' # m_file => m_file' > m_file /\ m_file' \notin DOMAIN files
<1>1. CASE files' = files
  BY <1>1 DEF NameInv
<1>2. ASSUME NEW w \in Writes, files' = Grown(w.got)
      PROVE  /\ DOMAIN files' = DOMAIN files
             /\ \A f \in DOMAIN files : (f # m_file => files'[f] = files[f]) /\ files'[f] \in FileRecord
             /\ files' = [f \in DOMAIN files' |-> files'[f]]
  <2>1. w.got \in Nat
    BY WritesType, ConstantsAssumption
  <2>2. files' = [f \in DOMAIN files' |-> files'[f]]
    BY <1>2 DEF Grown, NameInv
  <2> QED
    BY <1>2, <2>1, <2>2, GrownType DEF NameInv
<1>3. CASE \E w \in Writes : files' = Grown(w.got)
  BY <1>2, <1>3 DEF NameInv
<1> QED
  BY <1>1, <1>3

NewestGrows ==
  /\ \A f \in DOMAIN files : f \in DOMAIN files' /\ (files'[f] # files[f] => f = m_file)
  /\ \A f \in DOMAIN files : f <= m_file
  /\ m_file' # m_file => m_file' > m_file /\ m_file' \notin DOMAIN files

LEMMA NameStep ==
  ASSUME LocalTimeMonotone, NameInv, [Next]_vars
  PROVE  NameInv' /\ NewestGrows
<1> USE DEF rollVars, fileVars
<1>1. \A f \in DOMAIN files : f <= m_file
  BY DEF NameInv
<1>2. ASSUME NEW w \in Writes, AppendAndRoll(w) \/ AppendAndChangeDay(w)
      PROVE  NameInv' /\ NewestGrows
  BY <1>1, <1>2, NameRoll DEF AppendAndRoll, AppendAndChangeDay, MayAppend, NewestGrows
<1>3. ASSUME NEW w \in Writes, Append(w) \/ AppendAndFlush(w) \/ RollThrows(w)
      PROVE  NameInv' /\ NewestGrows
  <2>1. CASE Append(w)
    BY <1>1, <2>1, NameGrow DEF Append, MayAppend, NewestGrows, NameInv
  <2>2. CASE AppendAndFlush(w)
    BY <1>1, <2>2, NameGrow DEF AppendAndFlush, MayAppend, NewestGrows, NameInv
  <2>3. CASE RollThrows(w)
    BY <1>1, <2>3, NameGrow DEF RollThrows, MayAppend, NewestGrows, NameInv
  <2> QED
    BY <1>3, <2>1, <2>2, <2>3
<1>4. CASE Flush \/ Close \/ Tick
  BY <1>1, <1>4, NameGrow DEF Flush, Close, Tick, NewestGrows, NameInv
<1>5. CASE UNCHANGED vars
  BY <1>1, <1>5, NameGrow DEF vars, NewestGrows, NameInv
<1> QED
  BY <1>2, <1>3, <1>4, <1>5 DEF Next

\* No roll ever reopens or reorders a file, even when the clock is set back
\* and writes fail.
THEOREM NewestFileGrows == ASSUME LocalTimeMonotone PROVE Spec => OnlyNewestGrows
<1>1. NameInv /\ [Next]_vars => NameInv' /\ [NewestGrows]_vars
  BY NameStep
<1> QED
  BY <1>1, NameInit, PTL DEF Spec, OnlyNewestGrows, NewestGrows

-----------------------------------------------------------------------------
(***************************************************************************)
(* The bounds, for a clock that only moves forward.  The size counter      *)
(* covers the late bytes of the open file, m_count its stale messages and  *)
(* the appends since a flush is due: each of them is below its own limit   *)
(* before every append, and an append that reaches it rolls or flushes.    *)
(***************************************************************************)
TimeInv ==
  /\ clock \in Times /\ m_lastRoll \in Times /\ m_lastFlush \in Times
  /\ m_lastRoll <= m_lastFlush /\ m_lastFlush <= clock
  /\ m_lastPeriod = Period(m_lastRoll)
  /\ m_count \in 0..(CheckEveryN - 1)

LEMMA TimeInit == Init => TimeInv
  BY ConstantsAssumption DEF Init, TimeInv, Times

\* Every call sets the times of the last roll and flush to now, if at all.
LEMMA TimeStep ==
  ASSUME ~ClockStepsBack, TimeInv, [Next]_vars
  PROVE  TimeInv'
<1> USE DEF rollVars, fileVars
<1>1. CheckEveryN \in Nat \ {0} /\ Times \subseteq Nat
  BY ConstantsAssumption DEF Times
<1>2. ASSUME NEW w \in Writes, AppendAndRoll(w) \/ AppendAndChangeDay(w) PROVE TimeInv'
  <2>1. clock' = clock /\ RollFile(w) /\ m_count' \in 0..(CheckEveryN - 1)
    BY <1>1, <1>2 DEF AppendAndRoll, AppendAndChangeDay, TimeInv
  <2> QED
    BY <1>1, <2>1 DEF RollFile, TimeInv
<1>3. ASSUME NEW w \in Writes, Append(w) PROVE TimeInv'
  BY <1>1, <1>3 DEF Append, CheckDue, TimeInv
<1>4. ASSUME NEW w \in Writes, AppendAndFlush(w) PROVE TimeInv'
  BY <1>1, <1>4 DEF AppendAndFlush, TimeInv
<1>5. ASSUME NEW w \in Writes, RollThrows(w) PROVE TimeInv'
  BY <1>1, <1>5 DEF RollThrows, TimeInv
<1>6. CASE Flush \/ Close
  BY <1>6 DEF Flush, Close, TimeInv
<1>7. CASE Tick
  BY <1>1, <1>7 DEF Tick, TimeInv
<1>8. CASE UNCHANGED vars
  BY <1>8 DEF vars, TimeInv
<1> QED
  BY <1>2, <1>3, <1>4, <1>5, <1>6, <1>7, <1>8 DEF Next

\* A new day means that the second of the last roll is over, so that
\* rollFile() does create a file.
LEMMA NewDayMayRoll ==
  ASSUME TimeInv, Period(clock) # m_lastPeriod
  PROVE  MayRoll
  BY ConstantsAssumption DEF TimeInv, MayRoll, Times

-----------------------------------------------------------------------------
(***************************************************************************)
(* The delay of a flush.  Nothing is older than the last flush; m_count    *)
(* has counted every append since the oldest message became overdue.       *)
(***************************************************************************)
OverdueInv ==
  /\ oldest \in Times \cup {Clean}
  /\ oldest # Clean => m_lastFlush <= oldest /\ oldest <= clock
  /\ overdue \in 0..m_count
  /\ overdue > 0 => oldest # Clean /\ clock - oldest > FlushInterval

DelayInv ==
  /\ TimeInv
  /\ state = "open" => OverdueInv
  /\ OverdueBounded /\ overdue \in Nat

LEMMA DelayInit == Init => DelayInv
<1>1. CheckEveryN \in Nat \ {0}
  BY ConstantsAssumption
<1> QED
  BY <1>1, TimeInit DEF Init, DelayInv, OverdueInv, OverdueBounded

\* The delay of the flush when the message is left in the buffer.
LEMMA OverdueBuffered ==
  ASSUME TimeInv, OverdueInv, Buffered, clock' = clock, m_lastFlush' = m_lastFlush
  PROVE  /\ oldest' \in Times /\ m_lastFlush' <= oldest' /\ oldest' <= clock'
         /\ overdue' \in 0..(m_count + 1)
         /\ overdue' > 0 => oldest' # Clean /\ clock' - oldest' > FlushInterval
         /\ clock - m_lastFlush <= FlushInterval => overdue' = 0
<1>1. Times \subseteq Nat /\ Clean \notin Times /\ FlushInterval \in Nat /\ m_count \in Nat
  BY ConstantsAssumption DEF Times, Clean, TimeInv
<1>2. CASE oldest = Clean
  BY <1>1, <1>2 DEF Buffered, TimeInv, OverdueInv
<1>3. CASE oldest # Clean
  BY <1>1, <1>3 DEF Buffered, TimeInv, OverdueInv
<1> QED
  BY <1>2, <1>3

\* What is overdue stays overdue as time passes.
LEMMA AgeGrows ==
  ASSUME NEW s \in Int, NEW t \in Int, s <= t, NEW since \in Int, NEW age \in Int, s - since > age
  PROVE  t - since > age
  OBVIOUS

\* The delay of the flush as time passes.
LEMMA OverdueTick ==
  ASSUME TimeInv, OverdueInv, clock' \in Times, clock' > clock, UNCHANGED <<rollVars, oldest, overdue>>
  PROVE  OverdueInv'
<1>1. Times \subseteq Nat /\ Clean \in Int /\ FlushInterval \in Nat
  BY ConstantsAssumption DEF Times, Clean
<1>2. clock \in Nat /\ clock' \in Nat /\ clock <= clock' /\ oldest \in Int
  BY <1>1 DEF TimeInv, OverdueInv
<1>3. overdue > 0 => clock' - oldest > FlushInterval
  <2>1. overdue > 0 => clock - oldest > FlushInterval
    BY DEF OverdueInv
  <2>2. clock - oldest > FlushInterval => clock' - oldest > FlushInterval
    <3>1. /\ clock \in Int /\ clock' \in Int /\ oldest \in Int /\ FlushInterval \in Int
          /\ clock <= clock'
      BY <1>1, <1>2
    <3> QED
      BY <3>1, AgeGrows
  <2> QED
    BY <2>1, <2>2
<1>4. oldest # Clean => oldest <= clock'
  BY <1>2 DEF OverdueInv
<1> QED
  BY <1>3, <1>4 DEF OverdueInv, rollVars

LEMMA DelayStep ==
  ASSUME ~ClockStepsBack, DelayInv, [Next]_vars
  PROVE  DelayInv'
<1> USE DEF rollVars, fileVars
<1>1. /\ CheckEveryN \in Nat \ {0} /\ Times \subseteq Nat /\ Clean \notin Times
      /\ FlushInterval \in Nat
  BY ConstantsAssumption DEF Times, Clean
<1>2. TimeInv /\ TimeInv' /\ m_count \in Nat /\ m_count < CheckEveryN
  BY <1>1, TimeStep DEF DelayInv, TimeInv
<1>3. ASSUME Flushed PROVE DelayInv'
  BY <1>1, <1>2, <1>3 DEF Flushed, DelayInv, OverdueInv, OverdueBounded, TimeInv
<1>4. ASSUME state = "open", clock' = clock, m_lastFlush' = m_lastFlush, Buffered,
             \/ m_count' = m_count + 1
             \/ clock - m_lastFlush <= FlushInterval
      PROVE  DelayInv'
  <2>1. OverdueInv
    BY <1>4 DEF DelayInv
  <2>2. /\ oldest' \in Times /\ m_lastFlush' <= oldest' /\ oldest' <= clock'
        /\ overdue' \in 0..(m_count + 1)
        /\ overdue' > 0 => oldest' # Clean /\ clock' - oldest' > FlushInterval
        /\ clock - m_lastFlush <= FlushInterval => overdue' = 0
    BY <1>2, <1>4, <2>1, OverdueBuffered
  <2>3. m_count' \in 0..(CheckEveryN - 1)
    BY <1>2 DEF TimeInv
  <2>4. overdue' \in 0..m_count'
    BY <1>1, <1>2, <1>4, <2>2, <2>3
  <2>5. OverdueInv' /\ OverdueBounded' /\ overdue' \in Nat
    BY <1>1, <2>2, <2>3, <2>4 DEF OverdueInv, OverdueBounded
  <2> QED
    BY <1>2, <2>5 DEF DelayInv
<1>5. ASSUME NEW w \in Writes, AppendAndRoll(w) \/ AppendAndChangeDay(w) PROVE DelayInv'
  <2>1. state = "open" /\ clock' = clock /\ RollFile(w)
    BY <1>5 DEF AppendAndRoll, AppendAndChangeDay, MayAppend
  <2>2. CASE MayRoll
    BY <1>3, <2>1, <2>2 DEF RollFile
  <2>3. CASE ~MayRoll
    <3>1. Buffered /\ m_lastFlush' = m_lastFlush
      BY <2>1, <2>3 DEF RollFile
    <3>2. clock - m_lastFlush <= FlushInterval
      BY <1>1, <1>2, <2>3 DEF TimeInv, MayRoll
    <3> QED
      BY <1>4, <2>1, <3>1, <3>2
  <2> QED
    BY <2>2, <2>3
<1>6. ASSUME NEW w \in Writes, Append(w) PROVE DelayInv'
  BY <1>4, <1>6 DEF Append, MayAppend
<1>7. ASSUME NEW w \in Writes, AppendAndFlush(w) PROVE DelayInv'
  <2>1. CASE FlushDue
    BY <1>3, <1>7, <2>1 DEF AppendAndFlush
  <2>2. CASE ~FlushDue
    <3>1. clock - m_lastFlush <= FlushInterval
      BY <1>1, <1>2, <2>2 DEF FlushDue, TimeInv
    <3> QED
      BY <1>4, <1>7, <2>2, <3>1 DEF AppendAndFlush, MayAppend
  <2> QED
    BY <2>1, <2>2
<1>8. ASSUME NEW w \in Writes, RollThrows(w) PROVE DelayInv'
  <2>1. CASE Flushed
    BY <1>3, <2>1
  <2>2. CASE state' = "crashed" /\ Buffered
    BY <1>2, <2>2 DEF Buffered, DelayInv, OverdueBounded
  <2> QED
    BY <1>8, <2>1, <2>2 DEF RollThrows
<1>9. CASE Flush \/ Close
  BY <1>3, <1>9 DEF Flush, Close
<1>10. CASE Tick
  <2>1. /\ clock' \in Times /\ clock' > clock
        /\ UNCHANGED <<rollVars, oldest, overdue, state>>
    BY <1>10 DEF Tick
  <2> QED
    BY <1>2, <2>1, OverdueTick DEF DelayInv, OverdueBounded
<1>11. CASE UNCHANGED vars
  BY <1>2, <1>11 DEF vars, DelayInv, OverdueInv, OverdueBounded
<1> QED
  BY <1>5, <1>6, <1>7, <1>8, <1>9, <1>10, <1>11 DEF Next

\* Fewer than CheckEveryN appends go by while a flush is overdue, whatever the
\* zone and the disk do, unless the clock is set back.
THEOREM FlushDelayed ==
  ASSUME ~ClockStepsBack
  PROVE  Spec => []OverdueBounded
<1>1. DelayInv /\ [Next]_vars => DelayInv'
  BY DelayStep
<1>2. DelayInv => OverdueBounded
  BY DEF DelayInv
<1> QED
  BY <1>1, <1>2, DelayInit, PTL DEF Spec

-----------------------------------------------------------------------------
(***************************************************************************)
(* What goes into one file.  The late bytes are counted when no write      *)
(* fails; no other file of the same name holds any.                        *)
(***************************************************************************)
OpenFileInv ==
  /\ m_writenBytes \in 0..RollSize
  /\ ~Failures => files[m_file].late <= m_writenBytes
  /\ files[m_file].stale <= m_count
  /\ clock = m_lastRoll => files[m_file].late = 0
  /\ Period(clock) = m_lastPeriod => files[m_file].stale = 0

BoundsInv ==
  /\ NameInv /\ TimeInv
  /\ state = "open" => OpenFileInv
  /\ ~Failures => LateBytesBounded
  /\ StaleBounded

\* What holds of every append: which file takes it, and how much.
LEMMA BoundsGrown ==
  ASSUME BoundsInv, state = "open", NEW w \in Writes
  PROVE  /\ DOMAIN Grown(w.got) = DOMAIN files
         /\ \A f \in DOMAIN files : Grown(w.got)[f] \in FileRecord
         /\ \A f \in DOMAIN files : ~Failures => Grown(w.got)[f].late <= RollSize + MaxLen
         /\ \A f \in DOMAIN files : Grown(w.got)[f].stale <= CheckEveryN
         /\ ~Failures => Grown(w.got)[m_file].late <= m_writenBytes + w.counted
         /\ Grown(w.got)[m_file].stale <= m_count + 1
         /\ clock = m_lastRoll => Grown(w.got)[m_file].late = 0
         /\ Period(clock) = m_lastPeriod => Grown(w.got)[m_file].stale = 0
<1>1. w.got \in Nat /\ w.got <= MaxLen /\ (~Failures => w.counted = w.got)
  BY WritesType, ConstantsAssumption
<1>2. /\ DOMAIN Grown(w.got) = DOMAIN files
      /\ Grown(w.got)[m_file] = Grow(files[m_file], w.got)
      /\ \A f \in DOMAIN files : f # m_file => Grown(w.got)[f] = files[f]
      /\ \A f \in DOMAIN files : Grown(w.got)[f] \in FileRecord
  BY <1>1, GrownType DEF BoundsInv, NameInv
<1>3. /\ files[m_file] \in FileRecord /\ m_file \in DOMAIN files
      /\ files[m_file].late \in Nat /\ files[m_file].stale \in Nat
  BY DEF BoundsInv, NameInv, FileRecord
<1>4. /\ Grow(files[m_file], w.got).late =
           IF clock > m_lastRoll THEN files[m_file].late + w.got ELSE files[m_file].late
      /\ Grow(files[m_file], w.got).stale =
           IF Period(clock) # m_lastPeriod THEN files[m_file].stale + 1 ELSE files[m_file].stale
  BY <1>1, <1>3, GrowType
<1>5. /\ ~Failures => files[m_file].late <= m_writenBytes
      /\ files[m_file].stale <= m_count
      /\ clock = m_lastRoll => files[m_file].late = 0
      /\ Period(clock) = m_lastPeriod => files[m_file].stale = 0
      /\ m_writenBytes \in 0..RollSize /\ m_count \in 0..(CheckEveryN - 1)
      /\ clock \in Nat /\ m_lastRoll \in Nat
  BY ConstantsAssumption DEF BoundsInv, OpenFileInv, TimeInv, Times
<1>6. /\ ~Failures => /\ Grow(files[m_file], w.got).late <= m_writenBytes + w.counted
                      /\ Grow(files[m_file], w.got).late <= RollSize + MaxLen
      /\ clock = m_lastRoll => Grow(files[m_file], w.got).late = 0
  BY <1>1, <1>3, <1>4, <1>5, ConstantsAssumption
<1>7. /\ Grow(files[m_file], w.got).stale <= m_count + 1
      /\ Grow(files[m_file], w.got).stale <= CheckEveryN
      /\ Period(clock) = m_lastPeriod => Grow(files[m_file], w.got).stale = 0
  BY <1>3, <1>4, <1>5, ConstantsAssumption
<1>8. /\ \A f \in DOMAIN files : ~Failures => Grown(w.got)[f].late <= RollSize + MaxLen
      /\ \A f \in DOMAIN files : Grown(w.got)[f].stale <= CheckEveryN
  BY <1>2, <1>6, <1>7 DEF BoundsInv, LateBytesBounded, StaleBounded
<1> QED
  BY <1>2, <1>6, <1>7, <1>8

\* An append that rolls, or may not roll yet, keeps the bounds.
LEMMA BoundsRoll ==
  ASSUME BoundsInv, state = "open", NameInv', TimeInv', Name(clock) \notin DOMAIN files \/ ~MayRoll,
         NEW w \in Writes, RollFile(w), clock' = clock, state' = state,
         m_writenBytes' \in 0..RollSize, ~MayRoll => m_count' = m_count
  PROVE  BoundsInv'
<1> DEFINE fs == Grown(w.got)
<1>1. /\ DOMAIN fs = DOMAIN files /\ m_file \in DOMAIN files
      /\ \A f \in DOMAIN files : fs[f] \in FileRecord
      /\ \A f \in DOMAIN files : ~Failures => fs[f].late <= RollSize + MaxLen
      /\ \A f \in DOMAIN files : fs[f].stale <= CheckEveryN
      /\ clock = m_lastRoll => fs[m_file].late = 0
      /\ Period(clock) = m_lastPeriod => fs[m_file].stale = 0
  BY BoundsGrown DEF BoundsInv, NameInv
<1> HIDE DEF fs
<1>2. CheckEveryN \in Nat /\ RollSize \in Nat /\ MaxLen \in Nat /\ Times \subseteq Nat
  BY ConstantsAssumption DEF Times
<1>3. TimeInv
  BY DEF BoundsInv
<1>4. CASE MayRoll
  <2>1. /\ m_file' = Name(clock) /\ files' = WithFile(fs, Name(clock))
        /\ m_lastRoll' = clock /\ m_lastPeriod' = Period(clock)
    BY <1>4 DEF RollFile, fs
  <2>2. Name(clock) \notin DOMAIN fs
    BY <1>1, <1>4
  <2>3. /\ DOMAIN files' = DOMAIN files \cup {Name(clock)}
        /\ \A f \in DOMAIN files : files'[f] = fs[f]
        /\ files'[Name(clock)] = NewFile
    <3>1. /\ DOMAIN WithFile(fs, Name(clock)) = DOMAIN fs \cup {Name(clock)}
          /\ \A f \in DOMAIN fs : WithFile(fs, Name(clock))[f] = fs[f]
          /\ WithFile(fs, Name(clock))[Name(clock)] = NewFile
      BY <1>1, <2>2, WithFileType
    <3> QED
      BY <1>1, <2>1, <3>1
  <2>4. NewFile.late = 0 /\ NewFile.stale = 0
    BY DEF NewFile
  <2>5. m_count' \in Nat
    BY <1>2 DEF TimeInv
  <2>6. OpenFileInv'
    BY <1>2, <2>1, <2>3, <2>4, <2>5 DEF OpenFileInv
  <2>7. (~Failures => LateBytesBounded') /\ StaleBounded'
    BY <1>1, <1>2, <2>3, <2>4 DEF LateBytesBounded, StaleBounded
  <2> QED
    BY <2>6, <2>7 DEF BoundsInv
<1>5. CASE ~MayRoll
  <2>1. /\ files' = fs /\ m_count' = m_count
        /\ UNCHANGED <<m_lastRoll, m_lastPeriod, m_file>>
    BY <1>5 DEF RollFile, fs
  <2>2. clock = m_lastRoll /\ Period(clock) = m_lastPeriod
    BY <1>2, <1>3, <1>5 DEF TimeInv, MayRoll
  <2>3. OpenFileInv'
    BY <1>1, <1>2, <1>3, <2>1, <2>2 DEF OpenFileInv, TimeInv
  <2>4. (~Failures => LateBytesBounded') /\ StaleBounded'
    BY <1>1, <2>1 DEF LateBytesBounded, StaleBounded
  <2> QED
    BY <2>3, <2>4 DEF BoundsInv
<1> QED
  BY <1>4, <1>5

LEMMA BoundsInit == Init => BoundsInv
<1> SUFFICES ASSUME Init PROVE BoundsInv
  OBVIOUS
<1>1. CheckEveryN \in Nat \ {0} /\ RollSize \in Nat /\ MaxLen \in Nat
  BY ConstantsAssumption
<1>2. DOMAIN files = {m_file} /\ files[m_file].late = 0 /\ files[m_file].stale = 0
  BY DEF Init, NewFile
<1>3. OpenFileInv /\ LateBytesBounded /\ StaleBounded
  BY <1>1, <1>2 DEF Init, OpenFileInv, LateBytesBounded, StaleBounded
<1> QED
  BY <1>3, NameInit, TimeInit DEF BoundsInv

LEMMA BoundsStep ==
  ASSUME LocalTimeMonotone, ~ClockStepsBack, BoundsInv, [Next]_vars
  PROVE  BoundsInv'
<1> USE DEF rollVars, fileVars
<1>1. /\ CheckEveryN \in Nat \ {0} /\ RollSize \in Nat /\ MaxLen \in Nat /\ Times \subseteq Nat
  BY ConstantsAssumption DEF Times
<1>2. NameInv' /\ TimeInv /\ TimeInv'
  BY NameStep, TimeStep DEF BoundsInv
<1>3. Name(clock) \notin DOMAIN files \/ ~MayRoll \/ state # "open"
  <2> SUFFICES ASSUME MayRoll, state = "open" PROVE Name(clock) \notin DOMAIN files
    OBVIOUS
  <2>1. Name(clock) > m_file /\ m_file \in Int /\ Name(clock) \in Int
    BY <1>1, ConstantsAssumption DEF BoundsInv, NameInv, MayRoll, LocalTimeMonotone, Name
  <2> QED
    BY <2>1 DEF BoundsInv, NameInv
<1>4. ASSUME NEW w \in Writes, AppendAndRoll(w) PROVE BoundsInv'
  BY <1>1, <1>2, <1>3, <1>4, BoundsRoll DEF AppendAndRoll, MayAppend
<1>5. ASSUME NEW w \in Writes, AppendAndChangeDay(w) PROVE BoundsInv'
  <2>1. MayRoll
    BY <1>2, <1>5, NewDayMayRoll DEF AppendAndChangeDay, NewDay
  <2> QED
    BY <1>1, <1>2, <1>3, <1>5, <2>1, BoundsRoll DEF AppendAndChangeDay, MayAppend
<1>6. ASSUME NEW w \in Writes, Append(w) \/ AppendAndFlush(w) PROVE BoundsInv'
  <2>1. w.counted \in Nat
    BY <1>1, WritesType
  <2>2. /\ state = "open" /\ state' = state /\ files' = Grown(w.got) /\ clock' = clock
        /\ UNCHANGED <<m_lastRoll, m_lastPeriod, m_file>>
        /\ m_writenBytes' = m_writenBytes + w.counted
        /\ ~(m_writenBytes + w.counted > RollSize)
        /\ m_count' = m_count + 1 \/ Period(clock) = m_lastPeriod
    BY <1>6 DEF Append, AppendAndFlush, MayAppend, TooLarge, NewDay
  <2>3. m_file \in DOMAIN files /\ OpenFileInv /\ m_count \in Nat /\ m_count' \in Nat
    BY <1>1, <1>2, <2>2 DEF BoundsInv, NameInv, TimeInv
  <2>4. m_writenBytes' \in 0..RollSize
    BY <1>1, <2>1, <2>2, <2>3 DEF OpenFileInv
  <2>5. /\ ~Failures => files'[m_file].late <= m_writenBytes'
        /\ files'[m_file].stale <= m_count + 1
        /\ clock = m_lastRoll => files'[m_file].late = 0
        /\ Period(clock) = m_lastPeriod => files'[m_file].stale = 0
        /\ (~Failures => LateBytesBounded') /\ StaleBounded'
    BY <2>2, BoundsGrown DEF LateBytesBounded, StaleBounded
  <2>6. files'[m_file].stale <= m_count'
    BY <2>2, <2>3, <2>5
  <2>7. OpenFileInv'
    BY <2>2, <2>4, <2>5, <2>6 DEF OpenFileInv
  <2> QED
    BY <1>2, <2>5, <2>7 DEF BoundsInv
<1>7. CASE Flush \/ Close
  <2>1. UNCHANGED <<clock, rollVars, m_file, m_writenBytes, files>> /\ state = "open"
    BY <1>7 DEF Flush, Close
  <2> QED
    BY <1>2, <2>1 DEF BoundsInv, OpenFileInv, LateBytesBounded, StaleBounded
<1>8. CASE Tick
  <2>1. clock' \in Times /\ clock' > clock /\ UNCHANGED <<rollVars, fileVars, state>>
    BY <1>8 DEF Tick
  <2>2. Period(clock') = m_lastPeriod => Period(clock) = m_lastPeriod
    <3>1. Period(m_lastRoll) <= Period(clock) /\ Period(clock) <= Period(clock')
      BY <1>1, <1>2, <2>1, PeriodMonotone DEF TimeInv
    <3> QED
      BY <1>1, <1>2, <2>1, <3>1, PeriodType DEF TimeInv
  <2>3. clock' # m_lastRoll
    BY <1>1, <1>2, <2>1 DEF TimeInv
  <2> QED
    BY <1>2, <2>1, <2>2, <2>3 DEF BoundsInv, OpenFileInv, LateBytesBounded, StaleBounded
<1>9. ASSUME NEW w \in Writes, RollThrows(w) PROVE BoundsInv'
  <2>1. state = "open" /\ state' # "open" /\ files' = Grown(w.got)
    BY <1>9 DEF RollThrows, MayAppend
  <2>2. (~Failures => LateBytesBounded') /\ StaleBounded'
    BY <2>1, BoundsGrown DEF LateBytesBounded, StaleBounded
  <2> QED
    BY <1>2, <2>1, <2>2 DEF BoundsInv
<1>10. CASE UNCHANGED vars
  BY <1>2, <1>10 DEF vars, BoundsInv, OpenFileInv, LateBytesBounded, StaleBounded
<1> QED
  BY <1>4, <1>5, <1>6, <1>7, <1>8, <1>9, <1>10 DEF Next

\* No more than CheckEveryN messages go into the file of an earlier day, even
\* when writes fail or a new file cannot be opened, if neither the clock nor
\* local time goes back.
THEOREM StaleMessages ==
  ASSUME LocalTimeMonotone, ~ClockStepsBack
  PROVE  Spec => []StaleBounded
<1>1. BoundsInv /\ [Next]_vars => BoundsInv'
  BY BoundsStep
<1>2. BoundsInv => StaleBounded
  BY DEF BoundsInv
<1> QED
  BY <1>1, <1>2, BoundsInit, PTL DEF Spec

\* If, besides, writes succeed, no file grows beyond the roll size and one
\* message after the second of its creation.
THEOREM LateBytes ==
  ASSUME LocalTimeMonotone, ~ClockStepsBack, ~Failures
  PROVE  Spec => []LateBytesBounded
<1>1. BoundsInv /\ [Next]_vars => BoundsInv'
  BY BoundsStep
<1>2. BoundsInv => LateBytesBounded
  BY DEF BoundsInv
<1> QED
  BY <1>1, <1>2, BoundsInit, PTL DEF Spec
=============================================================================
