-------------------------------- MODULE BackEnd --------------------------------
(***************************************************************************)
(* What is on the disk: the queue of AsyncLogging drained into the files   *)
(* of LogFile.  Of AsyncLogging this module has the abstract queue it      *)
(* implements, LogStream, and the rounds of its worker: take a batch, cut  *)
(* it if it is too long, append message by message, flush.  Of LogFile it  *)
(* has every action; in addition it knows what each file holds and how     *)
(* much of that the system has been given, so that the process may be      *)
(* killed, or a write may fail, at any point.                              *)
(***************************************************************************)
EXTENDS Integers, SequencesExt

CONSTANTS
  RollSize, FlushInterval, CheckEveryN, RollPerSeconds, Lengths, MaxLen, MaxUse,
  StartTime, MaxTime, LocalTime(_), ClockStepsBack, Failures,   \* see LogFile
  Notice,       \* stands for the notice of dropped messages
  MaxAccepted   \* bound on the messages

ASSUME ConstantsAssumption ==
  /\ MaxAccepted \in Nat /\ Notice \notin 1..MaxAccepted
  /\ RollSize \in Nat /\ FlushInterval \in Nat
  /\ CheckEveryN \in Nat \ {0} /\ RollPerSeconds \in Nat \ {0}
  /\ MaxLen \in Nat /\ Lengths \subseteq 0..MaxLen /\ MaxUse \in Nat
  /\ StartTime \in Nat \ {0} /\ MaxTime \in Nat
  /\ \A t \in StartTime..MaxTime : LocalTime(t) \in Int
  /\ ClockStepsBack \in BOOLEAN /\ Failures \in BOOLEAN

VARIABLES
  accepted, queue, output,   \* see LogStream
  clock, m_lastPeriod, m_lastRoll, m_lastFlush, m_count, m_file, m_writenBytes,
  files, oldest, overdue, state,   \* see LogFile
  worker,       \* the place of the worker: "idle", "drop", "write", "gone"
  batch,        \* how many messages at the head of the queue are in its batch
  finished,     \* the length of output when it last finished a round (history)
  contents,     \* what each file holds: [id, whole]
  synced,       \* how many of these the system has been given
  error         \* a write or a flush has failed

Stream == INSTANCE LogStream WITH file <- output
File   == INSTANCE LogFile

streamVars == <<accepted, queue, output>>
fileVars == <<m_lastPeriod, m_lastRoll, m_lastFlush, m_count, m_file, m_writenBytes, files,
              oldest, overdue>>
logFileVars == <<clock, fileVars, state>>
workerVars == <<worker, batch, finished>>
diskVars == <<contents, synced, error>>
vars == <<streamVars, logFileVars, workerVars, diskVars>>

Init ==
  /\ Stream!Init /\ File!Init
  /\ worker = "idle" /\ batch = 0 /\ finished = 0
  /\ contents = [f \in DOMAIN files |-> <<>>] /\ synced = [f \in DOMAIN files |-> 0]
  /\ error = FALSE

Running == state = "open"

(***************************************************************************)
(* The FILE.  Nothing but a flush makes sure that the system has what was  *)
(* appended, but it may have any part of it, to the middle of a message.   *)
(***************************************************************************)
Parts(entries, n) ==
  LET First(k) == SubSeq(entries, 1, k)
  IN  {First(k) : k \in n..Len(entries)}
      \cup {First(k) \o <<[entries[k + 1] EXCEPT !.whole = FALSE]>> : k \in n..(Len(entries) - 1)}

\* LogFile says when the file that was in use has been flushed: by append(), by
\* the destructor of the FileAppender that a roll replaces, or after a round.
MutantFlushed == oldest' = File!Clean /\ m_file' = m_file
Flushed       == oldest' = File!Clean

\* That file now holds these entries, of which the system has n for certain.
Holds(entries, n) ==
  LET With(f, new, old, none) == IF f = m_file THEN new ELSE IF f \in DOMAIN files THEN old[f] ELSE none
  IN  /\ contents' = [f \in DOMAIN files' |-> With(f, entries, contents, <<>>)]
      /\ synced'   = [f \in DOMAIN files' |-> With(f, n, synced, 0)]

\* An error ends in a line on stderr, and the C library discards what it could
\* not write.  With the process what it has not written is gone as well.
Synchronise(entries, fails) ==
  /\ error' = (error \/ fails)
  /\ IF fails \/ state' = "crashed"
     THEN \E left \in Parts(entries, synced[m_file]) : Holds(left, Len(left))
     ELSE Holds(entries, IF Flushed THEN Len(entries) ELSE synced[m_file])

MayFail == IF Failures THEN BOOLEAN ELSE {FALSE}

(***************************************************************************)
(* append() of one message or notice: the write may fail, and so may the   *)
(* flush that it leads to.  If no new file can be opened the exception     *)
(* ends the worker.                                                        *)
(***************************************************************************)
Appends(w) ==
  \/ File!AppendAndRoll(w) \/ File!Append(w) \/ File!AppendAndChangeDay(w) \/ File!AppendAndFlush(w)
  \/ File!RollThrows(w)

AppendEntry(id) ==
  \E w \in File!Writes, flushFails \in MayFail :
    /\ Appends(w)
    /\ flushFails => Flushed
    /\ Synchronise(Append(contents[m_file], [id |-> id, whole |-> TRUE]),
                   w.counted = 0 \/ flushFails)

MutantOrGone(place) == place
OrGone(place)       == IF state' = "open" THEN place ELSE "gone"

(***************************************************************************)
(* The rounds of the worker.                                               *)
(***************************************************************************)
Accept ==
  /\ Running /\ accepted < MaxAccepted
  /\ Stream!Accept
  /\ UNCHANGED <<logFileVars, workerVars, diskVars>>

\* All that is queued, or all but a current buffer that is full.
Collect ==
  /\ Running /\ worker = "idle"
  /\ batch' \in 0..Len(queue) /\ worker' = "drop"
  /\ UNCHANGED <<streamVars, logFileVars, finished, diskVars>>

DropExcess ==
  /\ worker = "drop"
  /\ \E i \in 0..(batch - 1) : Stream!Cut(i, batch) /\ batch' = i
  /\ AppendEntry(Notice)
  /\ worker' = OrGone("write")
  /\ UNCHANGED finished

NothingToDrop ==
  /\ worker = "drop"
  /\ worker' = "write"
  /\ UNCHANGED <<streamVars, logFileVars, batch, finished, diskVars>>

WriteMessage ==
  /\ worker = "write" /\ batch > 0
  /\ AppendEntry(Head(queue))
  /\ Stream!Write(1)
  /\ batch' = batch - 1 /\ worker' = OrGone("write")
  /\ UNCHANGED finished

EndRound ==
  /\ worker = "write" /\ batch = 0
  /\ File!Flush
  /\ \E fails \in MayFail : Synchronise(contents[m_file], fails)
  /\ worker' = "idle" /\ finished' = Len(output)
  /\ UNCHANGED <<streamVars, batch>>

\* m_done is set, or a formatter throws: the LogFile is destroyed.
Leave ==
  /\ worker = "idle" \/ (Failures /\ worker = "write" /\ batch > 0)
  /\ File!Close
  /\ \E fails \in MayFail : Synchronise(contents[m_file], fails)
  /\ worker' = "gone" /\ finished' = Len(output)
  /\ UNCHANGED <<streamVars, batch>>

\* The process is killed.
Disks ==
  {disk \in [DOMAIN contents -> UNION {Parts(contents[f], synced[f]) : f \in DOMAIN contents}] :
     \A f \in DOMAIN contents : disk[f] \in Parts(contents[f], synced[f])}

Crash ==
  /\ Running
  /\ state' = "crashed" /\ worker' = "gone" /\ contents' \in Disks
  /\ UNCHANGED <<streamVars, clock, fileVars, batch, finished, synced, error>>

Tick ==
  /\ Running
  /\ File!Tick
  /\ UNCHANGED <<streamVars, workerVars, diskVars>>

Next ==
  \/ Accept \/ Collect \/ DropExcess \/ NothingToDrop \/ WriteMessage \/ EndRound
  \/ Leave \/ Crash \/ Tick

Spec == Init /\ [][Next]_vars

-----------------------------------------------------------------------------
(***************************************************************************)
(* Properties.                                                             *)
(***************************************************************************)
Entry == [id : 1..MaxAccepted \cup {Notice}, whole : BOOLEAN]

\* Every variable keeps its type, the batch is the head of the queue, and the
\* worker leaves when the LogFile does.
TypeOK ==
  /\ File!TypeOK
  /\ accepted \in 0..MaxAccepted /\ batch \in 0..Len(queue) /\ finished \in 0..Len(output)
  /\ worker \in {"idle", "drop", "write", "gone"} /\ (worker = "gone" <=> state # "open")
  /\ DOMAIN contents = DOMAIN files /\ DOMAIN synced = DOMAIN files /\ error \in BOOLEAN
  /\ \A f \in DOMAIN files : Range(contents[f]) \subseteq Entry

\* The place i of the file f comes before the place j of g.
Precedes(f, i, g, j) == f < g \/ (f = g /\ i < j)

\* Read in the order of their names, the files hold messages in the order in
\* which they were accepted, each at most once, though the clock is set back,
\* and even if writes fail and the process is killed (rollFile, append).
FilesInOrder ==
  \A f, g \in DOMAIN contents : \A i \in DOMAIN contents[f], j \in DOMAIN contents[g] :
    Precedes(f, i, g, j) /\ Notice \notin {contents[f][i].id, contents[g][j].id} =>
      contents[f][i].id < contents[g][j].id

\* The files in the order of their names, and all they hold.
FileNames ==
  CHOOSE names \in [1..Cardinality(DOMAIN contents) -> DOMAIN contents] :
    \A i, j \in DOMAIN names : i < j => names[i] < names[j]

AllEntries == FlattenSeq([i \in DOMAIN FileNames |-> contents[FileNames[i]]])

Ids(entries) == [i \in DOMAIN entries |-> entries[i].id]

\* Without an error of the system the files hold everything that was written;
\* when the process is killed, no roll having left a hole, an initial run of
\* it, of which at most the very last line is torn, and no line of the rounds
\* that the worker has finished is missing (output.flush at the end of a round).
CrashKeepsPrefix ==
  ~error =>
    /\ IsPrefix(Ids(AllEntries), output)
    /\ state # "crashed" => Len(AllEntries) = Len(output)
    /\ \A i \in 1..(Len(AllEntries) - 1) : AllEntries[i].whole
    /\ finished <= Len(AllEntries) /\ \A i \in 1..finished : AllEntries[i].whole

\* See LogFile: it does not depend on when the worker appends, nor on kills.
OnlyNewestGrows == File!OnlyNewestGrows
=============================================================================
