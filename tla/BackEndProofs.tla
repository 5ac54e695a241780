---------------------------- MODULE BackEndProofs ----------------------------
(***************************************************************************)
(* The types, the order of messages over all files and what a kill leaves, *)
(* for every roll size, interval and clock, with errors and kills.  What   *)
(* LogFile guarantees is not proved again: a step of BackEnd is a step of  *)
(* LogFile, leaves its variables alone, or is a kill, which only sets its  *)
(* state.                                                                  *)
(***************************************************************************)
EXTENDS BackEnd, SequenceLemmas, FiniteSetTheorems

LogFileP == INSTANCE LogFileProofs

LocalTimeMonotone == LogFileP!LocalTimeMonotone

NameInv == LogFileP!NameInv

-----------------------------------------------------------------------------
(***************************************************************************)
(* The steps of LogFile.                                                   *)
(***************************************************************************)
Killed ==
  /\ state = "open" /\ state' = "crashed"
  /\ UNCHANGED <<clock, fileVars>>

LEMMA SameWrites == File!Writes = LogFileP!Writes
  BY DEF File!Writes, LogFileP!Writes

LEMMA AppendsIsStep ==
  ASSUME NEW w \in File!Writes, Appends(w)
  PROVE  LogFileP!Next
<1>0. \/ File!AppendAndRoll(w) \/ File!Append(w) \/ File!AppendAndChangeDay(w)
      \/ File!AppendAndFlush(w) \/ File!RollThrows(w)
  BY DEF Appends
<1> USE DEF File!MayAppend, LogFileP!MayAppend, File!TooLarge, LogFileP!TooLarge,
            File!CheckDue, LogFileP!CheckDue, File!NewDay, LogFileP!NewDay,
            File!FlushDue, LogFileP!FlushDue, File!MayRoll, LogFileP!MayRoll,
            File!Period, LogFileP!Period, File!Name, LogFileP!Name,
            File!Grow, LogFileP!Grow, File!Grown, LogFileP!Grown,
            File!NewFile, LogFileP!NewFile, File!WithFile, LogFileP!WithFile,
            File!Clean, LogFileP!Clean, File!Buffered, LogFileP!Buffered,
            File!Flushed, LogFileP!Flushed, File!RollFile, LogFileP!RollFile
<1>1. CASE File!AppendAndRoll(w)
  BY <1>1, SameWrites DEF File!AppendAndRoll, LogFileP!AppendAndRoll, LogFileP!Next
<1>2. CASE File!Append(w)
  BY <1>2, SameWrites DEF File!Append, LogFileP!Append, LogFileP!Next
<1>3. CASE File!AppendAndChangeDay(w)
  BY <1>3, SameWrites DEF File!AppendAndChangeDay, LogFileP!AppendAndChangeDay, LogFileP!Next
<1>4. CASE File!AppendAndFlush(w)
  BY <1>4, SameWrites DEF File!AppendAndFlush, LogFileP!AppendAndFlush, LogFileP!Next
<1>5. CASE File!RollThrows(w)
  BY <1>5, SameWrites DEF File!RollThrows, LogFileP!RollThrows, LogFileP!Next
<1> QED
  BY <1>0, <1>1, <1>2, <1>3, <1>4, <1>5

LEMMA FileStep ==
  ASSUME [Next]_vars
  PROVE  LogFileP!Next \/ UNCHANGED LogFileP!vars \/ Killed
<1> USE DEF fileVars, logFileVars, LogFileP!vars, LogFileP!rollVars, LogFileP!fileVars,
            File!rollVars, File!fileVars
<1>1. CASE Accept
  BY <1>1 DEF Accept
<1>2. CASE Collect
  BY <1>2 DEF Collect
<1>3. CASE DropExcess
  BY <1>3, AppendsIsStep DEF DropExcess, AppendEntry
<1>4. CASE NothingToDrop
  BY <1>4 DEF NothingToDrop
<1>5. CASE WriteMessage
  BY <1>5, AppendsIsStep DEF WriteMessage, AppendEntry
<1>6. CASE EndRound
  BY <1>6 DEF EndRound, File!Flush, LogFileP!Flush, LogFileP!Next, File!Flushed, LogFileP!Flushed,
              File!Clean, LogFileP!Clean
<1>7. CASE Leave
  BY <1>7 DEF Leave, File!Close, LogFileP!Close, LogFileP!Next, File!Flushed, LogFileP!Flushed,
              File!Clean, LogFileP!Clean
<1>8. CASE Crash
  BY <1>8 DEF Crash, Killed, Running
<1>9. CASE Tick
  BY <1>9 DEF Tick, File!Tick, LogFileP!Tick, LogFileP!Next, File!Times, LogFileP!Times
<1>10. CASE UNCHANGED vars
  BY <1>10 DEF vars
<1> QED
  BY <1>1, <1>2, <1>3, <1>4, <1>5, <1>6, <1>7, <1>8, <1>9, <1>10 DEF Next

LEMMA NameStep ==
  ASSUME LocalTimeMonotone, NameInv, [Next]_vars
  PROVE  NameInv' /\ LogFileP!NewestGrows
<1> USE ConstantsAssumption DEF LocalTimeMonotone, NameInv, LogFileP!Times
<1>1. CASE LogFileP!Next \/ UNCHANGED LogFileP!vars
  BY <1>1, LogFileP!NameStep
<1>2. CASE Killed
  BY <1>2 DEF Killed, fileVars, LogFileP!NameInv, LogFileP!NewestGrows, LogFileP!Name
<1> QED
  BY <1>1, <1>2, FileStep

LEMMA NameStart == Init => NameInv
  BY LogFileP!NameInit, ConstantsAssumption DEF Init, NameInv, LogFileP!Times, File!Init, LogFileP!Init,
     File!Period, LogFileP!Period, File!Name, LogFileP!Name, File!NewFile, LogFileP!NewFile,
     File!Clean, LogFileP!Clean, File!Times

\* No roll reopens or reorders a file, whenever the worker appends, the system
\* fails or the process is killed, and even if the clock is set back.
THEOREM NewestFileGrows == ASSUME LocalTimeMonotone PROVE Spec => OnlyNewestGrows
<1>1. NameInv /\ [Next]_vars => NameInv' /\ LogFileP!NewestGrows
  BY NameStep
<1> QED
  BY <1>1, NameStart, PTL DEF Spec, OnlyNewestGrows, File!OnlyNewestGrows, LogFileP!NewestGrows

-----------------------------------------------------------------------------
(***************************************************************************)
(* The order of the messages.  Three facts carry it: the queue is          *)
(* ascending, whatever is in a file comes before all that is queued, and   *)
(* an entry is only ever added behind all others, for the open file has    *)
(* the latest name (NameInv).  Errors and kills only take entries away     *)
(* from the end of files.                                                  *)
(***************************************************************************)
QueueInv ==
  /\ accepted \in 0..MaxAccepted
  /\ queue \in Seq(1..accepted)
  /\ \A i, j \in 1..Len(queue) : i < j => queue[i] < queue[j]
  /\ batch \in 0..Len(queue)

DiskInv ==
  /\ contents = [f \in DOMAIN files |-> contents[f]]
  /\ \A f \in DOMAIN files : contents[f] \in Seq(Entry) /\ synced[f] \in Nat

\* No message is in a file while one that was accepted before it is queued.
WrittenFirst ==
  \A f \in DOMAIN contents : \A i \in DOMAIN contents[f] :
    contents[f][i].id # Notice =>
      /\ contents[f][i].id \in 1..accepted
      /\ \A j \in 1..Len(queue) : contents[f][i].id < queue[j]

OrderInv == NameInv /\ QueueInv /\ DiskInv /\ WrittenFirst /\ FilesInOrder

\* A torn or discarded end leaves the entries before it in place.
SameIds(left, entries) ==
  /\ left \in Seq(Entry) /\ Len(left) <= Len(entries)
  /\ \A i \in 1..Len(left) : left[i].id = entries[i].id

LEMMA PartsKeepIds ==
  ASSUME NEW entries \in Seq(Entry), NEW n \in Nat, NEW left \in Parts(entries, n)
  PROVE  SameIds(left, entries)
<1> DEFINE First(k) == SubSeq(entries, 1, k)
<1>1. ASSUME NEW k \in n..Len(entries)
      PROVE  /\ First(k) \in Seq(Entry) /\ Len(First(k)) = k
             /\ \A i \in 1..k : First(k)[i] = entries[i]
  <2>1. k \in Nat /\ k <= Len(entries)
    BY LenProperties
  <2> QED
    BY <2>1, LenProperties, SubSeqProperties, ElementOfSeq
<1>2. CASE \E k \in n..Len(entries) : left = First(k)
  <2>1. PICK k \in n..Len(entries) : left = First(k)
    BY <1>2
  <2> QED
    BY <1>1, <2>1 DEF SameIds
<1>3. CASE \E k \in n..(Len(entries) - 1) : left = First(k) \o <<[entries[k + 1] EXCEPT !.whole = FALSE]>>
  <2>1. PICK k \in n..(Len(entries) - 1) : left = First(k) \o <<[entries[k + 1] EXCEPT !.whole = FALSE]>>
    BY <1>3
  <2> DEFINE torn == [entries[k + 1] EXCEPT !.whole = FALSE]
  <2>2. k \in n..Len(entries) /\ k + 1 \in 1..Len(entries) /\ k \in Nat
    BY LenProperties
  <2>3. entries[k + 1] \in Entry
    BY <2>2, ElementOfSeq
  <2>4. torn \in Entry /\ torn.id = entries[k + 1].id
    BY <2>3 DEF Entry
  <2> HIDE DEF torn, First
  <2>5. /\ First(k) \in Seq(Entry) /\ Len(First(k)) = k
        /\ \A i \in 1..k : First(k)[i] = entries[i]
    BY <1>1, <2>2 DEF First
  <2>6. left = First(k) \o <<torn>>
    BY <2>1 DEF torn
  <2>7. /\ left \in Seq(Entry) /\ Len(left) = k + 1
        /\ \A i \in 1..k : left[i] = First(k)[i]
        /\ left[k + 1] = torn
    BY <2>2, <2>4, <2>5, <2>6
  <2> QED
    BY <2>2, <2>4, <2>5, <2>7 DEF SameIds
<1> QED
  BY <1>2, <1>3 DEF Parts

\* What is on the disk after a step of the open FILE, with or without an error.
LEMMA SynchroniseKeeps ==
  ASSUME DiskInv, m_file \in DOMAIN files, DOMAIN files \subseteq DOMAIN files',
         NEW entries \in Seq(Entry), NEW fails, Synchronise(entries, fails)
  PROVE  /\ DiskInv'
         /\ SameIds(contents'[m_file], entries)
         /\ \A f \in DOMAIN files' : f # m_file =>
              contents'[f] = IF f \in DOMAIN files THEN contents[f] ELSE <<>>
<1>1. ASSUME NEW left, SameIds(left, entries), NEW n \in Nat, Holds(left, n)
      PROVE  /\ DiskInv'
             /\ SameIds(contents'[m_file], entries)
             /\ \A f \in DOMAIN files' : f # m_file =>
                  contents'[f] = IF f \in DOMAIN files THEN contents[f] ELSE <<>>
  <2>1. /\ contents' = [f \in DOMAIN files' |-> IF f = m_file THEN left
                          ELSE IF f \in DOMAIN files THEN contents[f] ELSE <<>>]
        /\ synced' = [f \in DOMAIN files' |-> IF f = m_file THEN n
                        ELSE IF f \in DOMAIN files THEN synced[f] ELSE 0]
    BY <1>1 DEF Holds
  <2>2. left \in Seq(Entry) /\ <<>> \in Seq(Entry)
    BY <1>1, EmptySeq DEF SameIds
  <2> QED
    BY <1>1, <2>1, <2>2 DEF DiskInv
<1>2. SameIds(entries, entries) /\ Len(entries) \in Nat /\ synced[m_file] \in Nat
  BY LenProperties DEF SameIds, DiskInv
<1>3. ASSUME NEW left \in Parts(entries, synced[m_file])
      PROVE  SameIds(left, entries) /\ Len(left) \in Nat
  BY <1>2, PartsKeepIds, LenProperties DEF SameIds
<1> QED
  BY <1>1, <1>2, <1>3 DEF Synchronise

\* One entry more, behind all that is on the disk, or no entry more.
LEMMA AppendKeepsOrder ==
  ASSUME OrderInv, NameInv', DOMAIN files \subseteq DOMAIN files',
         NEW id \in 1..MaxAccepted \cup {Notice}, NEW fails,
         Synchronise(Append(contents[m_file], [id |-> id, whole |-> TRUE]), fails),
         \/ id = Notice
         \/ \A f \in DOMAIN contents : \A i \in DOMAIN contents[f] :
              contents[f][i].id # Notice => contents[f][i].id < id
  PROVE  /\ DiskInv' /\ FilesInOrder'
         /\ \A f \in DOMAIN contents' : \A i \in DOMAIN contents'[f] :
              \/ contents'[f][i].id = id
              \/ \E j \in DOMAIN contents[f] : f \in DOMAIN contents /\ contents'[f][i].id = contents[f][j].id
<1> DEFINE old == contents[m_file]
           entry == [id |-> id, whole |-> TRUE]
<1>1. /\ m_file \in DOMAIN files /\ \A f \in DOMAIN files : f \in Int /\ f <= m_file
      /\ \A f \in DOMAIN files' : f \in Int
      /\ DiskInv /\ DOMAIN contents = DOMAIN files
  BY DEF OrderInv, NameInv, LogFileP!NameInv, DiskInv
<1>2. old \in Seq(Entry) /\ entry \in Entry /\ entry.id = id /\ Len(old) \in Nat
  BY <1>1, LenProperties DEF DiskInv, Entry
<1> HIDE DEF old, entry
<1>3. /\ Append(old, entry) \in Seq(Entry) /\ Len(Append(old, entry)) = Len(old) + 1
      /\ \A i \in 1..Len(old) : Append(old, entry)[i] = old[i]
      /\ Append(old, entry)[Len(old) + 1] = entry
  BY <1>2
<1>4. Synchronise(Append(old, entry), fails)
  BY DEF old, entry
<1>5. /\ DiskInv'
      /\ SameIds(contents'[m_file], Append(old, entry))
      /\ \A f \in DOMAIN files' : f # m_file =>
           contents'[f] = IF f \in DOMAIN files THEN contents[f] ELSE <<>>
  BY <1>1, <1>3, <1>4, SynchroniseKeeps
<1>6. DOMAIN contents' = DOMAIN files'
  BY <1>5 DEF DiskInv
\* Each entry was there, at its place, or is the new one at the end of the open file.
<1>7. ASSUME NEW f \in DOMAIN contents', NEW i \in DOMAIN contents'[f]
      PROVE  /\ f \in DOMAIN files /\ i \in Nat
             /\ \/ i \in DOMAIN contents[f] /\ contents'[f][i].id = contents[f][i].id
                \/ f = m_file /\ i = Len(old) + 1 /\ contents'[f][i].id = id
  <2>1. CASE f = m_file
    <3>1. i \in 1..Len(contents'[f]) /\ Len(contents'[f]) \in Nat
      BY <1>5, <2>1, LenProperties DEF SameIds
    <3>2. i \in 1..(Len(old) + 1) /\ contents'[f][i].id = Append(old, entry)[i].id
      BY <1>2, <1>3, <1>5, <2>1, <3>1 DEF SameIds
    <3>3. DOMAIN old = 1..Len(old)
      BY <1>2, LenProperties
    <3> QED
      BY <1>1, <1>2, <1>3, <2>1, <3>2, <3>3 DEF old
  <2>2. CASE f # m_file
    <3>1. f \in DOMAIN files /\ contents'[f] = contents[f]
      BY <1>5, <1>6, <2>2
    <3>2. contents[f] \in Seq(Entry)
      BY <1>1, <3>1 DEF DiskInv
    <3> QED
      BY <3>1, <3>2, LenProperties
  <2> QED
    BY <2>1, <2>2
<1>8. FilesInOrder'
  <2> SUFFICES ASSUME NEW f \in DOMAIN contents', NEW g \in DOMAIN contents',
                      NEW i \in DOMAIN contents'[f], NEW j \in DOMAIN contents'[g],
                      Precedes(f, i, g, j), contents'[f][i].id # Notice, contents'[g][j].id # Notice
               PROVE  contents'[f][i].id < contents'[g][j].id
    BY DEF FilesInOrder, Precedes
  <2>1. f \in DOMAIN files /\ g \in DOMAIN files /\ i \in Nat /\ j \in Nat
    BY <1>7
  <2>2. CASE i \in DOMAIN contents[f] /\ contents'[f][i].id = contents[f][i].id
    <3>1. CASE j \in DOMAIN contents[g] /\ contents'[g][j].id = contents[g][j].id
      BY <1>1, <2>1, <2>2, <3>1 DEF OrderInv, FilesInOrder
    <3>2. CASE contents'[g][j].id = id
      BY <1>1, <2>1, <2>2, <3>2
    <3> QED
      BY <1>7, <3>1, <3>2
  \* Nothing comes behind the new entry.
  <2>3. CASE f = m_file /\ i = Len(old) + 1
    <3>1. g = m_file /\ i < j
      BY <1>1, <2>1, <2>3 DEF Precedes
    <3>2. j \notin DOMAIN contents[g] /\ j # Len(old) + 1
      <4>1. DOMAIN old = 1..Len(old)
        BY <1>2, LenProperties
      <4> QED
        BY <1>2, <2>1, <2>3, <3>1, <4>1 DEF old
    <3> QED
      BY <1>7, <3>2
  <2> QED
    BY <1>7, <2>2, <2>3
<1> QED
  BY <1>1, <1>5, <1>7, <1>8

\* The same for a step that appends nothing.
LEMMA FlushKeepsOrder ==
  ASSUME OrderInv, UNCHANGED <<files, m_file>>, NEW fails, Synchronise(contents[m_file], fails)
  PROVE  /\ DiskInv' /\ FilesInOrder'
         /\ \A f \in DOMAIN contents' : \A i \in DOMAIN contents'[f] :
              f \in DOMAIN contents /\ i \in DOMAIN contents[f] /\ contents'[f][i].id = contents[f][i].id
<1>1. m_file \in DOMAIN files /\ DiskInv /\ DOMAIN contents = DOMAIN files
  BY DEF OrderInv, NameInv, LogFileP!NameInv, DiskInv
<1>2. contents[m_file] \in Seq(Entry)
  BY <1>1 DEF DiskInv
<1>3. /\ DiskInv'
      /\ SameIds(contents'[m_file], contents[m_file])
      /\ \A f \in DOMAIN files' : f # m_file =>
           contents'[f] = IF f \in DOMAIN files THEN contents[f] ELSE <<>>
  BY <1>1, <1>2, SynchroniseKeeps
<1>4. ASSUME NEW f \in DOMAIN contents', NEW i \in DOMAIN contents'[f]
      PROVE  f \in DOMAIN contents /\ i \in DOMAIN contents[f] /\ contents'[f][i].id = contents[f][i].id
  <2>1. f \in DOMAIN files
    BY <1>3 DEF DiskInv
  <2>2. CASE f = m_file
    <3>1. i \in 1..Len(contents'[f]) /\ Len(contents'[f]) \in Nat /\ Len(contents[f]) \in Nat
          /\ DOMAIN contents[f] = 1..Len(contents[f])
      BY <1>2, <1>3, <2>2, LenProperties DEF SameIds
    <3> QED
      BY <1>1, <1>3, <2>2, <3>1 DEF SameIds
  <2>3. CASE f # m_file
    BY <1>1, <1>3, <2>1, <2>3
  <2> QED
    BY <2>2, <2>3
<1>5. FilesInOrder'
  BY <1>4 DEF OrderInv, FilesInOrder, Precedes
<1> QED
  BY <1>3, <1>4, <1>5

\* What is left of a sequence when a run is cut out: the same elements, in order.
CutOut(seq, i, j) == SubSeq(seq, 1, i) \o SubSeq(seq, j + 1, Len(seq))

LEMMA CutOutProperties ==
  ASSUME NEW S, NEW seq \in Seq(S), NEW i \in 0..Len(seq), NEW j \in i..Len(seq)
  PROVE  /\ CutOut(seq, i, j) \in Seq(S) /\ Len(CutOut(seq, i, j)) = Len(seq) - (j - i)
         /\ \A k \in 1..Len(CutOut(seq, i, j)) :
              CutOut(seq, i, j)[k] = seq[IF k <= i THEN k ELSE k + (j - i)]
<1> DEFINE head == SubSeq(seq, 1, i)
           tail == SubSeq(seq, j + 1, Len(seq))
           rest == CutOut(seq, i, j)
<1>1. /\ Len(seq) \in Nat /\ i \in Nat /\ j \in Nat /\ i <= j /\ j <= Len(seq)
  BY LenProperties
<1>2. \A k \in 1..Len(seq) : seq[k] \in S
  BY ElementOfSeq
<1>3. head \in Seq(S) /\ Len(head) = i /\ \A k \in 1..i : head[k] = seq[k]
  <2>1. \A k \in 1..i : seq[k] \in S
    BY <1>1, <1>2
  <2> QED
    BY <1>1, <2>1, SubSeqProperties
<1>4. /\ tail \in Seq(S) /\ Len(tail) = Len(seq) - j
      /\ \A k \in 1..(Len(seq) - j) : tail[k] = seq[k + j]
  <2>1. \A k \in (j + 1)..Len(seq) : seq[k] \in S
    BY <1>1, <1>2
  <2>2. /\ tail \in Seq(S)
        /\ Len(tail) = IF j + 1 <= Len(seq) THEN Len(seq) - (j + 1) + 1 ELSE 0
        /\ \A k \in 1..(Len(seq) - (j + 1) + 1) : tail[k] = seq[(j + 1) + k - 1]
    BY <1>1, <2>1, SubSeqProperties
  <2> QED
    BY <1>1, <2>2
<1>5. rest = head \o tail
  BY DEF CutOut
<1> HIDE DEF head, tail, rest
<1>6. /\ rest \in Seq(S) /\ Len(rest) = Len(head) + Len(tail)
      /\ \A k \in 1..(Len(head) + Len(tail)) :
           rest[k] = IF k <= Len(head) THEN head[k] ELSE tail[k - Len(head)]
  BY <1>3, <1>4, <1>5, ConcatProperties
<1>7. Len(rest) = Len(seq) - (j - i) /\ Len(rest) = i + (Len(seq) - j)
  BY <1>1, <1>3, <1>4, <1>6
<1>8. ASSUME NEW k \in 1..Len(rest)
      PROVE  rest[k] = seq[IF k <= i THEN k ELSE k + (j - i)]
  <2>1. k \in Int /\ k \in 1..(Len(head) + Len(tail)) /\ k <= i + (Len(seq) - j)
    BY <1>1, <1>3, <1>4, <1>7
  <2>2. rest[k] = IF k <= i THEN head[k] ELSE tail[k - i]
    BY <1>3, <1>6, <2>1
  <2>3. CASE k <= i
    BY <1>1, <1>3, <2>1, <2>2, <2>3
  <2>4. CASE ~(k <= i)
    <3>1. k - i \in 1..(Len(seq) - j) /\ k + (j - i) = (k - i) + j
      BY <1>1, <2>1, <2>4
    <3> QED
      BY <1>4, <2>2, <2>4, <3>1
  <2> QED
    BY <2>3, <2>4
<1> QED
  BY <1>6, <1>7, <1>8 DEF rest

LEMMA QueueCut ==
  ASSUME QueueInv, NEW i \in 0..Len(queue), NEW j \in i..Len(queue)
  PROVE  LET rest == CutOut(queue, i, j)
         IN  /\ rest \in Seq(1..accepted) /\ Len(rest) = Len(queue) - (j - i)
             /\ \A k \in 1..Len(rest) : \E n \in 1..Len(queue) : rest[k] = queue[n]
             /\ \A k, l \in 1..Len(rest) : k < l => rest[k] < rest[l]
<1> DEFINE rest == CutOut(queue, i, j)
           Place(k) == IF k <= i THEN k ELSE k + (j - i)
<1>1. queue \in Seq(1..accepted)
  BY DEF QueueInv
<1>2. /\ rest \in Seq(1..accepted) /\ Len(rest) = Len(queue) - (j - i)
      /\ \A k \in 1..Len(rest) : rest[k] = queue[Place(k)]
  BY <1>1, CutOutProperties
<1> HIDE DEF rest
<1>3. Len(queue) \in Nat /\ i \in Nat /\ j \in Nat /\ i <= j /\ j <= Len(queue)
  BY <1>1, LenProperties
<1>4. \A k \in 1..Len(rest) : Place(k) \in 1..Len(queue)
  BY <1>2, <1>3
<1>5. \A k, l \in 1..Len(rest) : k < l => Place(k) < Place(l)
  BY <1>2, <1>3
<1> HIDE DEF Place
<1>6. \A k, l \in 1..Len(rest) : k < l => rest[k] < rest[l]
  BY <1>2, <1>4, <1>5 DEF QueueInv
<1>7. \A k \in 1..Len(rest) : \E n \in 1..Len(queue) : rest[k] = queue[n]
  BY <1>2, <1>4
<1> QED
  BY <1>2, <1>6, <1>7 DEF rest

LEMMA QueueAccept ==
  ASSUME QueueInv, accepted < MaxAccepted, Stream!Accept, UNCHANGED batch
  PROVE  /\ QueueInv'
         /\ \A k \in 1..Len(queue') : (k \in 1..Len(queue) /\ queue'[k] = queue[k]) \/ queue'[k] = accepted'
<1>1. /\ accepted' = accepted + 1 /\ queue' = Append(queue, accepted + 1)
      /\ Len(queue) \in Nat /\ accepted \in Nat /\ accepted' \in 0..MaxAccepted
  BY LenProperties, ConstantsAssumption DEF Stream!Accept, QueueInv
<1>2. queue \in Seq(1..accepted')
  BY <1>1, SeqMonotonic DEF QueueInv
<1>3. /\ queue' \in Seq(1..accepted') /\ Len(queue') = Len(queue) + 1
      /\ \A k \in 1..Len(queue) : queue'[k] = queue[k]
      /\ queue'[Len(queue) + 1] = accepted'
  BY <1>1, <1>2
<1>4. \A k \in 1..Len(queue) : queue[k] < accepted'
  BY <1>1, ElementOfSeq DEF QueueInv
<1> QED
  BY <1>1, <1>3, <1>4 DEF QueueInv

\* The queue when a batch is cut, and when its head is written.
LEMMA QueueDrop ==
  ASSUME QueueInv, DropExcess
  PROVE  /\ QueueInv' /\ accepted' = accepted
         /\ \A k \in 1..Len(queue') : \E n \in 1..Len(queue) : queue'[k] = queue[n]
<1>1. PICK i \in 0..(batch - 1) : Stream!Cut(i, batch) /\ batch' = i
  BY DEF DropExcess
<1>2. Len(queue) \in Nat /\ batch \in 0..Len(queue)
  BY LenProperties DEF QueueInv
<1>3. /\ i \in 0..Len(queue) /\ batch \in i..Len(queue) /\ i \in Nat /\ batch \in Nat
      /\ queue' = CutOut(queue, i, batch) /\ accepted' = accepted
  <2>1. queue' = CutOut(queue, i, batch) /\ accepted' = accepted
    BY <1>1 DEF Stream!Cut, CutOut
  <2> QED
    BY <1>2, <2>1
<1>4. /\ queue' \in Seq(1..accepted) /\ Len(queue') = Len(queue) - (batch - i)
      /\ \A k \in 1..Len(queue') : \E n \in 1..Len(queue) : queue'[k] = queue[n]
      /\ \A k, l \in 1..Len(queue') : k < l => queue'[k] < queue'[l]
  BY <1>3, QueueCut
<1>5. batch' \in 0..Len(queue')
  <2>1. batch <= Len(queue) /\ Len(queue') = Len(queue) - (batch - i) /\ batch' = i
    BY <1>1, <1>2, <1>4
  <2> QED
    BY <1>2, <1>3, <2>1
<1>6. accepted' \in 0..MaxAccepted /\ queue' \in Seq(1..accepted')
  BY <1>3, <1>4 DEF QueueInv
<1> QED
  BY <1>3, <1>4, <1>5, <1>6 DEF QueueInv

LEMMA QueueWrite ==
  ASSUME QueueInv, WriteMessage
  PROVE  /\ QueueInv' /\ accepted' = accepted
         /\ 1 \in 1..Len(queue) /\ Head(queue) = queue[1]
         /\ Head(queue) \in 1..accepted /\ Head(queue) \in 1..MaxAccepted
         /\ Len(queue') = Len(queue) - 1
         /\ \A k \in 1..Len(queue') : queue'[k] = queue[k + 1]
<1>1. /\ batch > 0 /\ batch' = batch - 1 /\ accepted' = accepted
      /\ queue' = SubSeq(queue, 2, Len(queue)) /\ batch \in 0..Len(queue) /\ Len(queue) \in Nat
  BY LenProperties DEF WriteMessage, Stream!Write, QueueInv
<1>2. 1 \in 1..Len(queue) /\ queue \in Seq(1..accepted) /\ accepted \in 0..MaxAccepted
  BY <1>1 DEF QueueInv
<1>3. queue[1] \in 1..accepted /\ Head(queue) = queue[1]
  BY <1>2, ElementOfSeq
<1>4. queue[1] \in 1..MaxAccepted
  BY <1>2, <1>3, ConstantsAssumption
<1>5. /\ queue' \in Seq(1..accepted) /\ Len(queue') = Len(queue) - 1
      /\ \A k \in 1..Len(queue') : queue'[k] = queue[k + 1]
  <2>1. \A k \in 2..Len(queue) : queue[k] \in 1..accepted
    BY <1>2, ElementOfSeq
  <2>2. /\ SubSeq(queue, 2, Len(queue)) \in Seq(1..accepted)
        /\ Len(SubSeq(queue, 2, Len(queue))) = IF 2 <= Len(queue) THEN Len(queue) - 2 + 1 ELSE 0
        /\ \A k \in 1..(Len(queue) - 2 + 1) : SubSeq(queue, 2, Len(queue))[k] = queue[2 + k - 1]
    BY <1>1, <2>1, SubSeqProperties
  <2>3. Len(queue') = Len(queue) - 1
    <3>1. Len(queue') = IF 2 <= Len(queue) THEN Len(queue) - 2 + 1 ELSE 0
      BY <1>1, <2>2
    <3>2. Len(queue) >= 1 /\ Len(queue) \in Nat
      BY <1>1
    <3> QED
      BY <3>1, <3>2
  <2>4. \A k \in 1..(Len(queue) - 1) : queue'[k] = queue[k + 1]
    BY <1>1, <2>2
  <2> QED
    BY <1>1, <2>2, <2>3, <2>4
<1>6. QueueInv'
  BY <1>1, <1>2, <1>5 DEF QueueInv
<1> QED
  BY <1>1, <1>2, <1>3, <1>4, <1>5, <1>6

LEMMA QueueStep ==
  ASSUME QueueInv, [Next]_vars
  PROVE  QueueInv'
<1>1. CASE Accept
  BY <1>1, QueueAccept DEF Accept, workerVars
<1>2. CASE Collect
  BY <1>2 DEF Collect, streamVars, QueueInv
<1>3. CASE NothingToDrop \/ Tick \/ EndRound \/ Leave \/ Crash \/ UNCHANGED vars
  BY <1>3 DEF NothingToDrop, Tick, EndRound, Leave, Crash, vars, streamVars, workerVars, QueueInv
<1> QED
  BY <1>1, <1>2, <1>3, QueueDrop, QueueWrite DEF Next

-----------------------------------------------------------------------------
(***************************************************************************)
(* Types, whatever fails and whatever the clock and the zone do.           *)
(***************************************************************************)
EntryId == 1..MaxAccepted \cup {Notice}

RoundInv ==
  /\ output \in Seq(EntryId) /\ finished \in 0..Len(output)
  /\ worker \in {"idle", "drop", "write", "gone"} /\ (worker = "gone" <=> state # "open")

StoreInv == DiskInv /\ DOMAIN synced = DOMAIN files /\ error \in BOOLEAN

TypeInv == LogFileP!TypeInv /\ QueueInv /\ RoundInv /\ StoreInv

LEMMA WriteOutput ==
  ASSUME QueueInv, output \in Seq(EntryId), WriteMessage
  PROVE  output' = Append(output, Head(queue)) /\ Head(queue) \in EntryId
<1>1. Len(queue) \in Nat /\ 1 \in 1..Len(queue) /\ Head(queue) = queue[1] /\ Head(queue) \in EntryId
      /\ queue \in Seq(1..accepted)
  BY QueueWrite, LenProperties DEF QueueInv, EntryId
<1>2. queue[1] \in 1..accepted
  BY <1>1, ElementOfSeq
<1>3. SubSeq(queue, 1, 1) = <<queue[1]>>
  <2> DEFINE one == SubSeq(queue, 1, 1)
  <2>1. one \in Seq(1..accepted) /\ Len(one) = 1 /\ one[1] = queue[1]
    BY <1>2, SubSeqProperties
  <2> HIDE DEF one
  <2>2. one = <<queue[1]>>
    BY <2>1
  <2> QED
    BY <2>2 DEF one
<1>4. output' = output \o SubSeq(queue, 1, 1)
  BY DEF WriteMessage, Stream!Write
<1>5. output \o <<queue[1]>> = Append(output, queue[1])
  BY <1>1, AppendIsConcat
<1> QED
  BY <1>1, <1>3, <1>4, <1>5

\* What a step adds to the output, and when it ends a round.
LEMMA OutputStep ==
  ASSUME QueueInv, RoundInv, [Next]_vars
  PROVE  /\ UNCHANGED output \/ \E id \in EntryId : output' = Append(output, id)
         /\ UNCHANGED finished \/ (output' = output /\ finished' = Len(output))
<1>1. CASE DropExcess
  BY <1>1 DEF DropExcess, Stream!Cut, EntryId
<1>2. CASE WriteMessage
  BY <1>2, WriteOutput DEF WriteMessage, RoundInv
<1>3. CASE Accept \/ Collect \/ NothingToDrop \/ EndRound \/ Leave \/ Crash \/ Tick \/ UNCHANGED vars
  BY <1>3 DEF Accept, Stream!Accept, Collect, NothingToDrop, EndRound, Leave, Crash, Tick, vars,
              streamVars, workerVars
<1> QED
  BY <1>1, <1>2, <1>3 DEF Next

LEMMA RoundStep ==
  ASSUME QueueInv, RoundInv, state \in {"open", "closed", "crashed"}, [Next]_vars
  PROVE  RoundInv'
<1>1. output' \in Seq(EntryId) /\ finished' \in 0..Len(output')
  <2>1. output \in Seq(EntryId) /\ Len(output) \in Nat /\ finished \in 0..Len(output) /\ Notice \in EntryId
    BY LenProperties DEF RoundInv, EntryId
  <2>2. \A id \in EntryId : Append(output, id) \in Seq(EntryId) /\ Len(Append(output, id)) = Len(output) + 1
    BY <2>1, AppendProperties
  <2> QED
    BY <2>1, <2>2, OutputStep
<1>2. /\ worker' \in {"idle", "drop", "write", "gone"}
      /\ (worker' = "gone" => state' # "open") /\ (state' # "open" => worker' = "gone")
  <2>1. /\ worker \in {"idle", "drop", "write", "gone"}
        /\ (worker = "gone" => state # "open") /\ (state # "open" => worker = "gone")
    BY DEF RoundInv
  <2>2. CASE DropExcess \/ WriteMessage
    BY <2>2 DEF DropExcess, WriteMessage, OrGone
  <2>3. CASE Accept \/ Collect \/ NothingToDrop \/ Tick \/ UNCHANGED vars
    BY <2>1, <2>3 DEF Accept, Collect, NothingToDrop, Tick, File!Tick, vars, workerVars, logFileVars, Running
  <2>4. CASE EndRound \/ Leave \/ Crash
    BY <2>4 DEF EndRound, Leave, Crash, File!Flush, File!Close
  <2> QED
    BY <2>2, <2>3, <2>4 DEF Next
<1> QED
  BY <1>1, <1>2 DEF RoundInv

LEMMA StoreStep ==
  ASSUME LogFileP!TypeInv, DOMAIN files \subseteq DOMAIN files', QueueInv, StoreInv, [Next]_vars
  PROVE  StoreInv'
<1>1. m_file \in DOMAIN files /\ DiskInv /\ error \in BOOLEAN
      /\ DOMAIN synced = DOMAIN files /\ DOMAIN contents = DOMAIN files
  BY DEF LogFileP!TypeInv, LogFileP!TypeOK, StoreInv, DiskInv
<1>2. ASSUME NEW entries \in Seq(Entry), NEW fails \in BOOLEAN, Synchronise(entries, fails)
      PROVE  StoreInv'
  <2>1. DiskInv'
    BY <1>1, <1>2, SynchroniseKeeps
  <2>2. DOMAIN synced' = DOMAIN files'
    BY <1>2 DEF Synchronise, Holds
  <2>3. error' \in BOOLEAN
    BY <1>2 DEF Synchronise
  <2> QED
    BY <2>1, <2>2, <2>3 DEF StoreInv
<1>3. contents[m_file] \in Seq(Entry)
  BY <1>1 DEF DiskInv
<1>4. ASSUME NEW id \in EntryId, AppendEntry(id) PROVE StoreInv'
  <2>1. PICK w \in File!Writes, flushFails \in MayFail :
          Synchronise(Append(contents[m_file], [id |-> id, whole |-> TRUE]), w.counted = 0 \/ flushFails)
    BY <1>4 DEF AppendEntry
  <2>2. [id |-> id, whole |-> TRUE] \in Entry
    BY DEF Entry, EntryId
  <2>3. Append(contents[m_file], [id |-> id, whole |-> TRUE]) \in Seq(Entry)
    BY <1>3, <2>2, AppendProperties
  <2>4. (w.counted = 0 \/ flushFails) \in BOOLEAN
    OBVIOUS
  <2> QED
    BY <1>2, <2>1, <2>3, <2>4
<1>5. CASE DropExcess
  BY <1>4, <1>5 DEF DropExcess, EntryId
<1>6. CASE WriteMessage
  <2>1. Head(queue) \in EntryId
    BY <1>6, QueueWrite DEF EntryId
  <2> QED
    BY <1>4, <1>6, <2>1 DEF WriteMessage
<1>7. CASE EndRound \/ Leave
  <2>1. \E fails \in BOOLEAN : Synchronise(contents[m_file], fails)
    BY <1>7 DEF EndRound, Leave, MayFail
  <2> QED
    BY <1>2, <1>3, <2>1
<1>8. CASE Crash
  <2>1. UNCHANGED <<synced, error, files>>
    BY <1>8 DEF Crash, fileVars
  <2>2. /\ contents' = [f \in DOMAIN contents |-> contents'[f]]
        /\ \A f \in DOMAIN contents : contents'[f] \in Parts(contents[f], synced[f])
    BY <1>8 DEF Crash, Disks
  <2>3. \A f \in DOMAIN contents : contents'[f] \in Seq(Entry)
    BY <1>1, <2>2, PartsKeepIds DEF DiskInv, SameIds
  <2>4. DiskInv'
    BY <1>1, <2>1, <2>2, <2>3 DEF DiskInv
  <2> QED
    BY <1>1, <2>1, <2>4 DEF StoreInv
<1>9. CASE Accept \/ Collect \/ NothingToDrop \/ Tick \/ UNCHANGED vars
  BY <1>1, <1>9 DEF Accept, Collect, NothingToDrop, Tick, File!Tick, vars, diskVars, logFileVars, fileVars,
                    File!fileVars, StoreInv, DiskInv
<1> QED
  BY <1>5, <1>6, <1>7, <1>8, <1>9 DEF Next

\* The types of LogFile, here and in its own module.
LEMMA FileTypesStep ==
  ASSUME LogFileP!TypeInv, [Next]_vars
  PROVE  /\ LogFileP!TypeInv' /\ DOMAIN files' = DOMAIN files \cup {m_file'}
         /\ m_file' # m_file => oldest' = LogFileP!Clean
<1> USE ConstantsAssumption DEF LogFileP!Times
<1>1. CASE LogFileP!Next \/ UNCHANGED LogFileP!vars
  BY <1>1, LogFileP!TypeStep, LogFileP!FilesStay
<1>2. CASE Killed
  <2>1. m_file \in DOMAIN files
    BY DEF LogFileP!TypeInv, LogFileP!TypeOK
  <2> QED
    BY <1>2, <2>1 DEF Killed, fileVars, LogFileP!TypeInv, LogFileP!TypeOK, LogFileP!Table
<1> QED
  BY <1>1, <1>2, FileStep

LEMMA TypeStart == Init => TypeInv
<1> SUFFICES ASSUME Init PROVE TypeInv
  OBVIOUS
<1>1. LogFileP!TypeInv
  BY LogFileP!TypeInit, ConstantsAssumption DEF Init, LogFileP!Times, File!Init, LogFileP!Init,
     File!Period, LogFileP!Period, File!Name, LogFileP!Name, File!NewFile, LogFileP!NewFile,
     File!Clean, LogFileP!Clean, File!Times
<1>2. QueueInv
  BY EmptySeq, ConstantsAssumption DEF Init, Stream!Init, QueueInv
<1>3. StoreInv
  BY EmptySeq DEF Init, StoreInv, DiskInv
<1>4. RoundInv
  BY EmptySeq DEF Init, Stream!Init, File!Init, RoundInv
<1> QED
  BY <1>1, <1>2, <1>3, <1>4 DEF TypeInv

LEMMA TypeStep ==
  ASSUME TypeInv, [Next]_vars
  PROVE  TypeInv'
<1>1. LogFileP!TypeInv' /\ DOMAIN files \subseteq DOMAIN files'
  BY FileTypesStep DEF TypeInv
<1>2. state \in {"open", "closed", "crashed"}
  BY DEF TypeInv, LogFileP!TypeInv, LogFileP!TypeOK
<1> QED
  BY <1>1, <1>2, QueueStep, RoundStep, StoreStep DEF TypeInv

\* Every variable keeps its type, the batch stays the head of the queue and the
\* worker ends with the LogFile, with any error, roll, kill or step of the clock.
THEOREM TypesKept == Spec => []TypeOK
<1>1. TypeInv => TypeOK
  <2> SUFFICES ASSUME TypeInv PROVE TypeOK
    OBVIOUS
  <2>1. File!TypeOK
    BY DEF TypeInv, LogFileP!TypeInv, LogFileP!TypeOK, File!TypeOK, File!Times, LogFileP!Times,
           File!Period, LogFileP!Period, File!Name, LogFileP!Name, File!Clean, LogFileP!Clean
  <2>2. \A f \in DOMAIN files : Range(contents[f]) \subseteq Entry
    <3> SUFFICES ASSUME NEW f \in DOMAIN files, NEW i \in DOMAIN contents[f]
                 PROVE  contents[f][i] \in Entry
      BY DEF Range
    <3>1. contents[f] \in Seq(Entry)
      BY DEF TypeInv, StoreInv, DiskInv
    <3> QED
      BY <3>1, LenProperties, ElementOfSeq
  <2>3. DOMAIN contents = DOMAIN files
    BY DEF TypeInv, StoreInv, DiskInv
  <2> QED
    BY <2>1, <2>2, <2>3 DEF TypeInv, QueueInv, RoundInv, StoreInv, TypeOK
<1> QED
  BY <1>1, TypeStart, TypeStep, PTL DEF Spec

-----------------------------------------------------------------------------
\* Steps that leave the queue and the disk alone.
LEMMA OtherKeepsOrder ==
  ASSUME OrderInv, NameInv', UNCHANGED <<accepted, queue, contents, synced>>,
         DOMAIN files' = DOMAIN files, batch' \in 0..Len(queue)
  PROVE  OrderInv'
  BY DEF OrderInv, QueueInv, DiskInv, WrittenFirst, FilesInOrder, Precedes

LEMMA OrderStep ==
  ASSUME LocalTimeMonotone, OrderInv, [Next]_vars
  PROVE  OrderInv'
<1>1. NameInv' /\ DOMAIN files \subseteq DOMAIN files'
  BY NameStep DEF OrderInv, LogFileP!NewestGrows
<1>2. /\ QueueInv /\ DiskInv /\ WrittenFirst /\ FilesInOrder
      /\ DOMAIN contents = DOMAIN files /\ Len(queue) \in Nat
  BY LenProperties DEF OrderInv, DiskInv, QueueInv
<1>3. CASE Accept
  <2>1. QueueInv' /\ accepted' = accepted + 1 /\ accepted \in Nat
        /\ \A k \in 1..Len(queue') : (k \in 1..Len(queue) /\ queue'[k] = queue[k]) \/ queue'[k] = accepted'
    BY <1>2, <1>3, QueueAccept DEF Accept, workerVars, Stream!Accept, QueueInv
  <2>2. UNCHANGED <<files, contents, synced>>
    BY <1>3 DEF Accept, logFileVars, fileVars, diskVars
  <2>3. WrittenFirst'
    BY <1>2, <2>1, <2>2 DEF WrittenFirst
  <2> QED
    BY <1>1, <1>2, <2>1, <2>2, <2>3 DEF OrderInv, DiskInv, FilesInOrder, Precedes
<1>4. CASE Collect \/ NothingToDrop \/ Tick \/ UNCHANGED vars
  BY <1>1, <1>2, <1>4, OtherKeepsOrder
     DEF Collect, NothingToDrop, Tick, File!Tick, vars, streamVars, logFileVars, fileVars,
         workerVars, diskVars, QueueInv, File!fileVars
<1>5. CASE DropExcess
  <2>1. /\ QueueInv' /\ accepted' = accepted
        /\ \A k \in 1..Len(queue') : \E n \in 1..Len(queue) : queue'[k] = queue[n]
    BY <1>2, <1>5, QueueDrop
  <2>2. PICK fails : Synchronise(Append(contents[m_file], [id |-> Notice, whole |-> TRUE]), fails)
    BY <1>5 DEF DropExcess, AppendEntry
  <2>3. /\ DiskInv' /\ FilesInOrder'
        /\ \A f \in DOMAIN contents' : \A k \in DOMAIN contents'[f] :
             \/ contents'[f][k].id = Notice
             \/ \E l \in DOMAIN contents[f] : f \in DOMAIN contents /\ contents'[f][k].id = contents[f][l].id
    BY <1>1, <2>2, AppendKeepsOrder
  <2>4. WrittenFirst'
    BY <1>2, <2>1, <2>3 DEF WrittenFirst
  <2> QED
    BY <1>1, <2>1, <2>3, <2>4 DEF OrderInv
<1>6. CASE WriteMessage
  <2> DEFINE id == Head(queue)
  <2>1. /\ QueueInv' /\ accepted' = accepted /\ 1 \in 1..Len(queue)
        /\ id = queue[1] /\ id \in 1..accepted /\ id \in 1..MaxAccepted
        /\ Len(queue') = Len(queue) - 1 /\ \A k \in 1..Len(queue') : queue'[k] = queue[k + 1]
    BY <1>2, <1>6, QueueWrite
  <2>2. \A f \in DOMAIN contents : \A i \in DOMAIN contents[f] :
          contents[f][i].id # Notice => contents[f][i].id < id
    BY <1>2, <2>1 DEF WrittenFirst
  <2>3. PICK fails : Synchronise(Append(contents[m_file], [id |-> id, whole |-> TRUE]), fails)
    BY <1>6 DEF WriteMessage, AppendEntry
  <2> HIDE DEF id
  <2>4. /\ DiskInv' /\ FilesInOrder'
        /\ \A f \in DOMAIN contents' : \A k \in DOMAIN contents'[f] :
             \/ contents'[f][k].id = id
             \/ \E l \in DOMAIN contents[f] : f \in DOMAIN contents /\ contents'[f][k].id = contents[f][l].id
    BY <1>1, <2>1, <2>2, <2>3, AppendKeepsOrder
  <2>5. ASSUME NEW j \in 1..Len(queue') PROVE id < queue'[j] /\ \E k \in 1..Len(queue) : queue'[j] = queue[k]
    <3>1. Len(queue') = Len(queue) - 1 /\ Len(queue) \in Nat /\ 1 \in 1..Len(queue)
      BY <1>2, <2>1
    <3>2. j + 1 \in 1..Len(queue) /\ 1 < j + 1
      BY <3>1
    <3>3. id = queue[1] /\ queue'[j] = queue[j + 1]
      BY <2>1
    <3>4. \A k, l \in 1..Len(queue) : k < l => queue[k] < queue[l]
      BY <1>2 DEF QueueInv
    <3>5. queue[1] < queue[j + 1]
      BY <3>1, <3>2, <3>4
    <3> QED
      BY <3>2, <3>3, <3>5
  <2>6. ASSUME NEW f \in DOMAIN contents', NEW i \in DOMAIN contents'[f], contents'[f][i].id # Notice
        PROVE  /\ contents'[f][i].id \in 1..accepted'
               /\ \A j \in 1..Len(queue') : contents'[f][i].id < queue'[j]
    <3>1. CASE contents'[f][i].id = id
      BY <2>1, <2>5, <3>1
    <3>2. CASE contents'[f][i].id # id
      <4>1. PICK l \in DOMAIN contents[f] : f \in DOMAIN contents /\ contents'[f][i].id = contents[f][l].id
        BY <2>4, <3>2
      <4>2. /\ contents[f][l].id \in 1..accepted
            /\ \A j \in 1..Len(queue) : contents[f][l].id < queue[j]
        BY <1>2, <2>6, <4>1 DEF WrittenFirst
      <4> QED
        BY <2>1, <2>5, <4>1, <4>2
    <3> QED
      BY <3>1, <3>2
  <2>7. WrittenFirst'
    BY <2>6 DEF WrittenFirst
  <2> QED
    BY <1>1, <2>1, <2>4, <2>7 DEF OrderInv
<1>7. CASE EndRound \/ Leave
  <2>1. UNCHANGED <<files, m_file>>
    BY <1>7 DEF EndRound, Leave, File!Flush, File!Close
  <2>2. PICK fails : Synchronise(contents[m_file], fails)
    BY <1>7 DEF EndRound, Leave
  <2>3. /\ DiskInv' /\ FilesInOrder'
        /\ \A f \in DOMAIN contents' : \A i \in DOMAIN contents'[f] :
             f \in DOMAIN contents /\ i \in DOMAIN contents[f] /\ contents'[f][i].id = contents[f][i].id
    BY <2>1, <2>2, FlushKeepsOrder
  <2>4. UNCHANGED <<accepted, queue, batch>>
    BY <1>7 DEF EndRound, Leave, streamVars
  <2> QED
    BY <1>1, <1>2, <2>3, <2>4 DEF OrderInv, QueueInv, WrittenFirst
<1>8. CASE Crash
  <2>1. UNCHANGED <<accepted, queue, batch, synced, files, m_file>>
    BY <1>8 DEF Crash, streamVars, fileVars
  <2>2. /\ DOMAIN contents' = DOMAIN contents /\ contents' = [f \in DOMAIN contents |-> contents'[f]]
        /\ \A f \in DOMAIN contents : contents'[f] \in Parts(contents[f], synced[f])
    BY <1>8 DEF Crash, Disks
  <2>3. \A f \in DOMAIN contents : SameIds(contents'[f], contents[f])
    BY <1>2, <2>2, PartsKeepIds DEF DiskInv
  <2>4. DiskInv'
    BY <1>2, <2>1, <2>2, <2>3 DEF DiskInv, SameIds
  <2>5. ASSUME NEW f \in DOMAIN contents', NEW i \in DOMAIN contents'[f]
        PROVE  f \in DOMAIN contents /\ i \in DOMAIN contents[f] /\ contents'[f][i].id = contents[f][i].id
    <3>1. /\ f \in DOMAIN files /\ contents[f] \in Seq(Entry) /\ contents'[f] \in Seq(Entry)
          /\ SameIds(contents'[f], contents[f])
      BY <1>2, <2>2, <2>3 DEF DiskInv, SameIds
    <3>2. /\ i \in 1..Len(contents'[f]) /\ Len(contents'[f]) \in Nat /\ Len(contents[f]) \in Nat
          /\ DOMAIN contents[f] = 1..Len(contents[f])
      BY <3>1, LenProperties
    <3> QED
      BY <1>2, <3>1, <3>2 DEF SameIds
  <2>6. FilesInOrder' /\ WrittenFirst'
    BY <1>2, <2>1, <2>5 DEF FilesInOrder, Precedes, WrittenFirst
  <2> QED
    BY <1>1, <1>2, <2>1, <2>4, <2>6 DEF OrderInv, QueueInv
<1> QED
  BY <1>3, <1>4, <1>5, <1>6, <1>7, <1>8 DEF Next

\* However the worker cuts its rounds, wherever the files are rolled, and
\* whatever fails: the files, read in the order of their names, hold messages
\* in the order in which they were accepted, each at most once.
THEOREM MessagesInOrder == ASSUME LocalTimeMonotone PROVE Spec => []FilesInOrder
<1>1. Init => OrderInv
  <2> SUFFICES ASSUME Init PROVE OrderInv
    OBVIOUS
  <2>1. NameInv /\ m_file \in DOMAIN files
    BY NameStart DEF NameInv, LogFileP!NameInv
  <2>2. QueueInv
    BY EmptySeq, ConstantsAssumption DEF Init, Stream!Init, QueueInv
  <2>3. DiskInv
    BY EmptySeq DEF Init, DiskInv
  <2>4. \A f \in DOMAIN contents : DOMAIN contents[f] = {}
    <3>1. \A f \in DOMAIN contents : contents[f] = <<>> /\ Len(contents[f]) = 0
      BY EmptySeq DEF Init
    <3> QED
      BY <3>1
  <2> QED
    BY <2>1, <2>2, <2>3, <2>4 DEF OrderInv, WrittenFirst, FilesInOrder
<1>2. OrderInv /\ [Next]_vars => OrderInv'
  BY OrderStep
<1>3. OrderInv => FilesInOrder
  BY DEF OrderInv
<1> QED
  BY <1>1, <1>2, <1>3, PTL DEF Spec
-----------------------------------------------------------------------------
(***************************************************************************)
(* The files in the order of their names.                                  *)
(***************************************************************************)
Ascending(names) == \A i, j \in DOMAIN names : i < j => names[i] < names[j]

Ordered(names, F) ==
  /\ IsFiniteSet(F) /\ names \in [1..Cardinality(F) -> F]
  /\ Ascending(names) /\ \A f \in F : \E i \in DOMAIN names : names[i] = f

LEMMA OrderedLength ==
  ASSUME NEW F, NEW names, Ordered(names, F)
  PROVE  Cardinality(F) \in Nat /\ DOMAIN names = 1..Cardinality(F)
  BY FS_CardinalityType DEF Ordered

\* What ascends from 1..n to 1..n stays where it is.
LEMMA AscendingIsIdentity ==
  ASSUME NEW n \in Nat, NEW h \in [1..n -> 1..n], Ascending(h)
  PROVE  \A i \in 1..n : h[i] = i
<1>1. \A i \in 1..n : h[i] >= i
  <2> DEFINE T == {i \in 1..n : h[i] < i}
  <2> SUFFICES ASSUME T # {} PROVE FALSE
    OBVIOUS
  <2>1. T \in SUBSET Nat
    OBVIOUS
  <2>2. PICK m \in T : \A k \in T : m <= k
    <3> HIDE DEF T
    <3> QED
      BY <2>1, LeastNumber
  <2>3. m \in 1..n /\ h[m] < m /\ h[m] \in 1..n
    OBVIOUS
  <2>4. m - 1 \in 1..n /\ m - 1 \notin T
    BY <2>2, <2>3
  <2>5. h[m - 1] < h[m] /\ h[m - 1] >= m - 1 /\ h[m - 1] \in 1..n
    BY <2>3, <2>4 DEF Ascending
  <2> QED
    BY <2>3, <2>5
<1>2. \A i \in 1..n : h[i] <= i
  <2> DEFINE T == {d \in 0..(n - 1) : h[n - d] > n - d}
  <2>1. T \in SUBSET Nat
    OBVIOUS
  <2>2. T = {}
    <3> SUFFICES ASSUME T # {} PROVE FALSE
      OBVIOUS
    <3>1. PICK d \in T : \A k \in T : d <= k
      <4> HIDE DEF T
      <4> QED
        BY <2>1, LeastNumber
    <3>2. n - d \in 1..n /\ h[n - d] > n - d /\ h[n - d] \in 1..n /\ d \in 0..(n - 1)
      OBVIOUS
    <3>3. d # 0 /\ d - 1 \in 0..(n - 1) /\ ~(d <= d - 1) /\ n - (d - 1) \in 1..n /\ n - d < n - (d - 1)
      BY <3>2
    <3>4. h[n - (d - 1)] <= n - (d - 1) /\ h[n - (d - 1)] \in 1..n
      <4>1. d - 1 \notin T
        <5> HIDE DEF T
        <5> QED
          BY <3>1, <3>3
      <4>2. ~(h[n - (d - 1)] > n - (d - 1))
        BY <3>3, <4>1
      <4> QED
        BY <3>3, <4>2
    <3>5. h[n - d] < h[n - (d - 1)]
      BY <3>2, <3>3 DEF Ascending
    <3> QED
      BY <3>2, <3>3, <3>4, <3>5
  <2> SUFFICES ASSUME NEW i \in 1..n PROVE h[i] <= i
    OBVIOUS
  <2>3. n - i \in 0..(n - 1) /\ n - (n - i) = i /\ h[i] \in 1..n
    OBVIOUS
  <2>4. ~(h[n - (n - i)] > n - (n - i))
    BY <2>2, <2>3
  <2> QED
    BY <2>3, <2>4
<1> QED
  BY <1>1, <1>2

LEMMA OrderUnique ==
  ASSUME NEW F \in SUBSET Int, NEW names, Ordered(names, F),
         NEW other \in [1..Cardinality(F) -> F], Ascending(other)
  PROVE  other = names
<1> DEFINE n == Cardinality(F)
           h == [i \in 1..n |-> CHOOSE k \in 1..n : names[k] = other[i]]
<1>1. n \in Nat /\ names \in [1..n -> F] /\ Ascending(names) /\ DOMAIN names = 1..n
  BY OrderedLength DEF Ordered
<1>2. \A f \in F : \E k \in 1..n : names[k] = f
  BY <1>1 DEF Ordered
<1> HIDE DEF n
<1>3. other \in [1..n -> F]
  BY DEF n
<1>4. \A i \in 1..n : h[i] \in 1..n /\ names[h[i]] = other[i]
  BY <1>2, <1>3
<1>5. h \in [1..n -> 1..n]
  BY <1>4
<1> HIDE DEF h
<1>6. ASSUME NEW i \in 1..n, NEW j \in 1..n, i < j PROVE h[i] < h[j]
  <2>1. other[i] < other[j] /\ other[i] \in Int /\ other[j] \in Int
    BY <1>3, <1>6 DEF Ascending
  <2>2. h[i] \in 1..n /\ h[j] \in 1..n /\ names[h[i]] = other[i] /\ names[h[j]] = other[j]
    BY <1>4
  <2>3. CASE h[j] < h[i]
    <3>1. names[h[j]] < names[h[i]]
      BY <1>1, <2>2, <2>3 DEF Ascending
    <3> QED
      BY <2>1, <2>2, <3>1
  <2>4. CASE h[j] = h[i]
    BY <2>1, <2>2, <2>4
  <2>5. CASE h[i] < h[j]
    BY <2>5
  <2> QED
    BY <2>2, <2>3, <2>4, <2>5
<1>7. Ascending(h)
  BY <1>5, <1>6 DEF Ascending
<1>8. \A i \in 1..n : h[i] = i
  BY <1>1, <1>5, <1>7, AscendingIsIdentity
<1>9. \A i \in 1..n : other[i] = names[i]
  BY <1>4, <1>8
<1>10. other = [i \in 1..n |-> other[i]] /\ names = [i \in 1..n |-> names[i]]
  BY <1>1, <1>3
<1> QED
  BY <1>9, <1>10

\* The order is the one that FileNames chooses.
NamesOf(F) ==
  CHOOSE names \in [1..Cardinality(F) -> F] : \A i, j \in DOMAIN names : i < j => names[i] < names[j]

LEMMA OrderChosen ==
  ASSUME NEW F \in SUBSET Int, NEW names, Ordered(names, F)
  PROVE  NamesOf(F) = names
<1>1. names \in [1..Cardinality(F) -> F] /\ Ascending(names)
  BY DEF Ordered
<1>2. NamesOf(F) \in [1..Cardinality(F) -> F] /\ Ascending(NamesOf(F))
  BY <1>1 DEF NamesOf, Ascending
<1> QED
  BY <1>2, OrderUnique

LEMMA OrderSingle ==
  ASSUME NEW m \in Int
  PROVE  Ordered(<<m>>, {m})
<1>1. IsFiniteSet({m}) /\ Cardinality({m}) = 1
  BY FS_Singleton
<1>2. <<m>> \in [1..1 -> {m}] /\ DOMAIN <<m>> = 1..1 /\ <<m>>[1] = m
  OBVIOUS
<1> QED
  BY <1>1, <1>2 DEF Ordered, Ascending

\* A file with a later name comes last.
LEMMA OrderAppend ==
  ASSUME NEW F \in SUBSET Int, NEW names, Ordered(names, F),
         NEW m \in Int, \A f \in F : f < m
  PROVE  /\ names \in Seq(F) /\ Ordered(Append(names, m), F \cup {m})
<1> DEFINE n == Cardinality(F)
           more == Append(names, m)
<1>1. n \in Nat /\ names \in [1..n -> F] /\ DOMAIN names = 1..n
  BY OrderedLength DEF Ordered
<1>2. m \notin F
  OBVIOUS
<1>3. IsFiniteSet(F \cup {m}) /\ Cardinality(F \cup {m}) = n + 1
  BY <1>2, FS_AddElement DEF Ordered
<1> HIDE DEF n
<1>4. names \in Seq(F) /\ Len(names) = n
  BY <1>1, SeqDef
<1>5. names \in Seq(F \cup {m})
  BY <1>4, SeqMonotonic
<1>6. /\ more \in Seq(F \cup {m}) /\ Len(more) = n + 1
      /\ more[n + 1] = m /\ \A i \in 1..n : more[i] = names[i]
  BY <1>4, <1>5, AppendProperties
<1> HIDE DEF more
<1>7. more \in [1..(n + 1) -> F \cup {m}]
  BY <1>6, LenProperties
<1>8. ASSUME NEW i \in 1..(n + 1), NEW j \in 1..(n + 1), i < j PROVE more[i] < more[j]
  <2>1. i \in 1..n /\ names[i] \in F
    BY <1>1, <1>8
  <2>2. CASE j \in 1..n
    BY <1>1, <1>6, <1>8, <2>1, <2>2 DEF Ordered, Ascending
  <2>3. CASE j = n + 1
    BY <1>6, <2>1, <2>3
  <2> QED
    BY <1>1, <2>2, <2>3
<1>9. ASSUME NEW f \in F \cup {m} PROVE \E i \in 1..(n + 1) : more[i] = f
  <2>1. CASE f \in F
    <3>1. PICK i \in 1..n : names[i] = f
      BY <1>1, <2>1 DEF Ordered
    <3>2. i \in 1..(n + 1)
      BY <1>1
    <3> QED
      BY <1>6, <3>1, <3>2
  <2>2. CASE f = m
    BY <1>1, <1>6, <2>2
  <2> QED
    BY <2>1, <2>2
<1> QED
  BY <1>3, <1>4, <1>7, <1>8, <1>9 DEF Ordered, Ascending, more

\* The file with the latest name is the last.
LEMMA OrderLast ==
  ASSUME NEW F \in SUBSET Int, NEW names, Ordered(names, F),
         NEW m \in F, \A f \in F : f <= m
  PROVE  /\ names \in Seq(F) /\ Len(names) \in Nat /\ Len(names) \in 1..Len(names)
         /\ names[Len(names)] = m
         /\ \A i \in 1..(Len(names) - 1) : names[i] \in F /\ names[i] # m
<1> DEFINE n == Cardinality(F)
<1>1. n \in Nat /\ names \in [1..n -> F] /\ DOMAIN names = 1..n
  BY OrderedLength DEF Ordered
<1>2. PICK i \in 1..n : names[i] = m
  BY <1>1 DEF Ordered
<1> HIDE DEF n
<1>3. names \in Seq(F) /\ Len(names) = n
  BY <1>1, SeqDef
<1>4. n \in 1..n /\ i \in Nat
  BY <1>1
<1>5. i = n
  <2>1. names[n] <= m /\ names[n] \in Int /\ m \in Int
    BY <1>1, <1>4
  <2>2. CASE i < n
    <3>1. names[i] < names[n]
      BY <1>1, <1>4, <2>2 DEF Ordered, Ascending
    <3> QED
      BY <1>2, <2>1, <3>1
  <2> QED
    BY <1>1, <2>2
<1>6. ASSUME NEW k \in 1..(n - 1) PROVE names[k] \in F /\ names[k] # m
  <2>1. k \in 1..n /\ k < n
    BY <1>1
  <2>2. names[k] < names[n] /\ names[k] \in F
    BY <1>1, <1>4, <2>1 DEF Ordered, Ascending
  <2> QED
    BY <1>2, <1>5, <2>2
<1> QED
  BY <1>2, <1>3, <1>4, <1>5, <1>6

\* What the files of these names hold, and all of them but the last.
AllOf(names, c)  == FlattenSeq([i \in DOMAIN names |-> c[names[i]]])
Closed(names, c) == FlattenSeq([i \in 1..(Len(names) - 1) |-> c[names[i]]])

LEMMA SplitLast ==
  ASSUME NEW S, NEW F, NEW names \in Seq(F), Len(names) # 0,
         NEW c, \A f \in F : c[f] \in Seq(S)
  PROVE  /\ Closed(names, c) \in Seq(S)
         /\ AllOf(names, c) = Closed(names, c) \o c[names[Len(names)]]
<1> DEFINE n  == Len(names)
           ss == [i \in 1..(n - 1) |-> c[names[i]]]
           tt == [i \in 1..n |-> c[names[i]]]
<1>1. /\ DOMAIN names = 1..n /\ n \in Nat /\ n \in 1..n
      /\ \A i \in 1..n : names[i] \in F /\ c[names[i]] \in Seq(S)
  BY LenProperties, ElementOfSeq
<1> HIDE DEF n
<1>2. ss \in Seq(Seq(S)) /\ Len(ss) = n - 1 /\ c[names[n]] \in Seq(S)
  BY <1>1
<1>3. tt = Append(ss, c[names[n]])
  <2> DEFINE more == Append(ss, c[names[n]])
  <2>1. /\ more \in Seq(Seq(S)) /\ Len(more) = n
        /\ more[n] = c[names[n]] /\ \A i \in 1..(n - 1) : more[i] = ss[i]
    <3> HIDE DEF ss
    <3>1. Len(ss) + 1 = n
      BY <1>1, <1>2
    <3> QED
      BY <1>2, <3>1, AppendProperties
  <2> HIDE DEF more
  <2>2. ASSUME NEW i \in 1..n PROVE more[i] = c[names[i]]
    <3>1. CASE i = n
      BY <2>1, <3>1
    <3>2. CASE i # n
      <4>1. i \in 1..(n - 1)
        BY <1>1, <3>2
      <4> QED
        BY <2>1, <4>1
    <3> QED
      BY <3>1, <3>2
  <2>3. more = [i \in 1..n |-> more[i]]
    BY <2>1, LenProperties
  <2> QED
    BY <2>2, <2>3 DEF more
<1>4. AllOf(names, c) = FlattenSeq(tt)
  BY <1>1 DEF AllOf
<1>5. Closed(names, c) = FlattenSeq(ss)
  BY DEF Closed, n
<1> HIDE DEF ss, tt
<1> QED
  BY <1>2, <1>3, <1>4, <1>5, FlattenAppend DEF n

\* A file that is new adds nothing.
LEMMA SplitNew ==
  ASSUME NEW S, NEW F, NEW names \in Seq(F), NEW m, NEW c,
         \A f \in F : c[f] \in Seq(S), c[m] = <<>>
  PROVE  AllOf(Append(names, m), c) = AllOf(names, c)
<1> DEFINE n    == Len(names)
           more == Append(names, m)
           ss   == [i \in 1..n |-> c[names[i]]]
<1>1. /\ DOMAIN names = 1..n /\ n \in Nat
      /\ \A i \in 1..n : names[i] \in F /\ c[names[i]] \in Seq(S)
  BY LenProperties, ElementOfSeq
<1>2. /\ more \in Seq(F \cup {m}) /\ Len(more) = n + 1 /\ DOMAIN more = 1..(n + 1)
      /\ more[n + 1] = m /\ \A i \in 1..n : more[i] = names[i]
  <2>1. names \in Seq(F \cup {m})
    BY SeqMonotonic
  <2> QED
    BY <2>1, AppendProperties, LenProperties
<1> HIDE DEF more
<1> DEFINE G == F \cup {m}
<1>3. more \in Seq(G) /\ \A f \in G : c[f] \in Seq(S)
  BY <1>2, EmptySeq
<1> HIDE DEF G
<1>4. Len(more) \in 1..Len(more) /\ Len(more) - 1 = n /\ c[more[Len(more)]] = <<>>
  BY <1>1, <1>2
<1>5. Closed(more, c) \in Seq(S) /\ AllOf(more, c) = Closed(more, c) \o c[more[Len(more)]]
  <2>1. more \in Seq(G) /\ Len(more) # 0
    BY <1>3, <1>4
  <2>2. \A f \in G : c[f] \in Seq(S)
    BY <1>3
  <2> QED
    BY <2>1, <2>2, SplitLast, Zenon
<1>6. Closed(more, c) = AllOf(names, c)
  <2>1. [i \in 1..(Len(more) - 1) |-> c[more[i]]] = [i \in DOMAIN names |-> c[names[i]]]
    BY <1>1, <1>2, <1>4
  <2> QED
    BY <2>1 DEF Closed, AllOf
<1> QED
  BY <1>4, <1>5, <1>6, ConcatEmptySeq DEF more

LEMMA ClosedSame ==
  ASSUME NEW names, NEW c, NEW d, \A i \in 1..(Len(names) - 1) : c[names[i]] = d[names[i]]
  PROVE  Closed(names, c) = Closed(names, d)
<1>1. [i \in 1..(Len(names) - 1) |-> c[names[i]]] = [i \in 1..(Len(names) - 1) |-> d[names[i]]]
  OBVIOUS
<1> QED
  BY <1>1 DEF Closed

\* A change of the last file changes the end.
LEMMA SplitChanged ==
  ASSUME NEW S, NEW F \in SUBSET Int, NEW names, Ordered(names, F),
         NEW m \in F, \A f \in F : f <= m,
         NEW c, NEW d, \A f \in F : d[f] \in Seq(S), \A f \in F : f # m => d[f] = c[f]
  PROVE  AllOf(names, d) = Closed(names, c) \o d[m] /\ Closed(names, c) \in Seq(S)
<1>1. /\ names \in Seq(F) /\ Len(names) \in 1..Len(names) /\ names[Len(names)] = m
      /\ \A i \in 1..(Len(names) - 1) : names[i] \in F /\ names[i] # m
  BY OrderLast
<1>2. Closed(names, d) = Closed(names, c)
  BY <1>1, ClosedSame
<1>3. Closed(names, d) \in Seq(S) /\ AllOf(names, d) = Closed(names, d) \o d[names[Len(names)]]
  <2>1. names \in Seq(F) /\ Len(names) # 0
    BY <1>1
  <2> QED
    BY <2>1, SplitLast, Zenon
<1> QED
  BY <1>1, <1>2, <1>3

-----------------------------------------------------------------------------
\* What the disk holds, the open file last.
Latest ==
  /\ m_file \in DOMAIN files /\ \A f \in DOMAIN files : f \in Int /\ f <= m_file
  /\ DiskInv /\ Ordered(FileNames, DOMAIN files)

LEMMA DiskEntries ==
  ASSUME Latest
  PROVE  /\ Closed(FileNames, contents) \in Seq(Entry) /\ contents[m_file] \in Seq(Entry)
         /\ AllEntries = Closed(FileNames, contents) \o contents[m_file]
<1>1. /\ DOMAIN files \in SUBSET Int /\ m_file \in DOMAIN files /\ \A f \in DOMAIN files : f <= m_file
      /\ Ordered(FileNames, DOMAIN files) /\ \A f \in DOMAIN files : contents[f] \in Seq(Entry)
  BY DEF Latest, DiskInv
<1>2. AllEntries = AllOf(FileNames, contents)
  BY DEF AllEntries, AllOf
<1>3. AllOf(FileNames, contents) = Closed(FileNames, contents) \o contents[m_file]
      /\ Closed(FileNames, contents) \in Seq(Entry)
  BY <1>1, SplitChanged, Zenon
<1> QED
  BY <1>1, <1>2, <1>3

\* The same after a step that changed the open file only, or opened a later one.
LEMMA NextEntries ==
  ASSUME Latest, DiskInv', DOMAIN files' = DOMAIN files \cup {m_file'},
         m_file' # m_file => m_file' \in Int /\ m_file' > m_file /\ contents'[m_file'] = <<>>,
         \A f \in DOMAIN files : f # m_file => contents'[f] = contents[f]
  PROVE  /\ Latest' /\ contents'[m_file] \in Seq(Entry)
         /\ AllEntries' = Closed(FileNames, contents) \o contents'[m_file]
<1> DEFINE names == FileNames
           F     == DOMAIN files
<1>1. /\ F \in SUBSET Int /\ m_file \in F /\ \A f \in F : f <= m_file
      /\ Ordered(names, F) /\ DOMAIN contents' = DOMAIN files'
      /\ \A f \in F : contents'[f] \in Seq(Entry)
      /\ \A f \in F : f # m_file => contents'[f] = contents[f]
  BY DEF Latest, DiskInv
<1>2. AllOf(names, contents') = Closed(names, contents) \o contents'[m_file]
  <2>1. Ordered(names, F)
    BY <1>1
  <2>2. F \in SUBSET Int /\ m_file \in F /\ \A f \in F : f <= m_file
    BY <1>1
  <2>3. \A f \in F : contents'[f] \in Seq(Entry)
    BY <1>1
  <2>4. \A f \in F : f # m_file => contents'[f] = contents[f]
    BY <1>1
  <2> HIDE DEF names, F
  <2>5. ASSUME NEW d, \A f \in F : d[f] \in Seq(Entry), \A f \in F : f # m_file => d[f] = contents[f]
        PROVE  AllOf(names, d) = Closed(names, contents) \o d[m_file]
    BY <2>1, <2>2, <2>5, SplitChanged
  <2> QED
    BY <2>3, <2>4, <2>5
<1>3. FileNames' = NamesOf(DOMAIN files') /\ AllEntries' = AllOf(FileNames', contents')
  <2>1. FileNames' = NamesOf(DOMAIN contents')
    BY DEF FileNames, NamesOf
  <2>2. AllEntries' = AllOf(FileNames', contents')
    BY DEF AllEntries, AllOf
  <2> QED
    BY <1>1, <2>1, <2>2
<1> HIDE DEF names
<1>4. CASE m_file' = m_file
  <2>1. DOMAIN files' = F
    BY <1>1, <1>4
  <2>2. FileNames' = names
    BY <1>1, <1>3, <2>1, OrderChosen
  <2>3. Latest'
    BY <1>1, <1>4, <2>1, <2>2 DEF Latest
  <2> QED
    BY <1>1, <1>2, <1>3, <2>2, <2>3 DEF names
<1>5. CASE m_file' # m_file
  <2>1. m_file' \in Int /\ (\A f \in F : f < m_file') /\ contents'[m_file'] = <<>>
    BY <1>1, <1>5
  <2>2. names \in Seq(F) /\ Ordered(Append(names, m_file'), F \cup {m_file'})
    BY <1>1, <2>1, OrderAppend
  <2>3. F \cup {m_file'} \in SUBSET Int
    BY <1>1, <2>1
  <2>4. FileNames' = Append(names, m_file')
    BY <1>3, <2>2, <2>3, OrderChosen
  <2>5. AllOf(Append(names, m_file'), contents') = AllOf(names, contents')
    BY <1>1, <2>1, <2>2, SplitNew
  <2>6. Latest'
    BY <1>1, <2>1, <2>2, <2>3, <2>4 DEF Latest
  <2> QED
    BY <1>1, <1>2, <1>3, <2>4, <2>5, <2>6 DEF names
<1> QED
  BY <1>4, <1>5

-----------------------------------------------------------------------------
(***************************************************************************)
(* What is lost with the process.                                          *)
(***************************************************************************)
LEMMA PrefixPointwise ==
  ASSUME NEW S, NEW s \in Seq(S), NEW t \in Seq(S), Len(s) <= Len(t),
         \A i \in 1..Len(s) : s[i] = t[i]
  PROVE  IsPrefix(s, t)
<1> DEFINE k == Len(s)
           p == SubSeq(t, 1, k)
<1>1. k \in Nat /\ Len(t) \in Nat /\ k <= Len(t) /\ \A i \in 1..Len(t) : t[i] \in S
  BY LenProperties, ElementOfSeq
<1>2. p \in Seq(S) /\ Len(p) = k /\ \A i \in 1..k : p[i] = t[i]
  <2>1. \A i \in 1..k : t[i] \in S
    BY <1>1
  <2> QED
    BY <1>1, <2>1, SubSeqProperties
<1>3. SubSeq(s, 1, k) = s
  BY SubSeqFull
<1> HIDE DEF p
<1>4. p = s
  BY <1>2
<1> QED
  BY <1>1, <1>3, <1>4 DEF IsPrefix, p

\* What is torn off begins behind the first n entries, and at most one is torn.
LEMMA PartsKeepWhole ==
  ASSUME NEW entries \in Seq(Entry), NEW n \in 0..Len(entries), NEW left \in Parts(entries, n)
  PROVE  /\ left \in Seq(Entry) /\ Len(left) \in n..Len(entries)
         /\ \A i \in 1..Len(left) : left[i].id = entries[i].id /\ (i <= n \/ i < Len(left) => left[i] = entries[i])
         /\ n = Len(entries) => left = entries
<1> DEFINE First(k) == SubSeq(entries, 1, k)
<1>1. SameIds(left, entries) /\ Len(left) \in Nat /\ Len(entries) \in Nat /\ n \in Nat
  BY PartsKeepIds, LenProperties DEF SameIds
<1>2. ASSUME NEW k \in n..Len(entries)
      PROVE  /\ First(k) \in Seq(Entry) /\ Len(First(k)) = k
             /\ \A i \in 1..k : First(k)[i] = entries[i]
  <2>1. k \in Nat /\ k <= Len(entries)
    BY <1>1
  <2> QED
    BY <2>1, LenProperties, SubSeqProperties, ElementOfSeq
<1>3. CASE \E k \in n..Len(entries) : left = First(k)
  <2>1. PICK k \in n..Len(entries) : left = First(k)
    BY <1>3
  <2>2. /\ Len(left) = k /\ \A i \in 1..k : left[i] = entries[i]
    BY <1>2, <2>1
  <2>3. n = Len(entries) => left = entries
    <3>1. n = Len(entries) => k = Len(entries)
      BY <1>1
    <3> QED
      BY <2>1, <3>1, SubSeqFull
  <2> QED
    BY <1>1, <2>2, <2>3 DEF SameIds
<1>4. CASE \E k \in n..(Len(entries) - 1) : left = First(k) \o <<[entries[k + 1] EXCEPT !.whole = FALSE]>>
  <2>1. PICK k \in n..(Len(entries) - 1) : left = First(k) \o <<[entries[k + 1] EXCEPT !.whole = FALSE]>>
    BY <1>4
  <2> DEFINE torn == [entries[k + 1] EXCEPT !.whole = FALSE]
  <2>2. k \in n..Len(entries) /\ k + 1 \in 1..Len(entries) /\ k \in Nat /\ n # Len(entries)
    BY <1>1
  <2>3. entries[k + 1] \in Entry
    BY <2>2, ElementOfSeq
  <2>4. torn \in Entry
    BY <2>3 DEF Entry
  <2>5. /\ First(k) \in Seq(Entry) /\ Len(First(k)) = k
        /\ \A i \in 1..k : First(k)[i] = entries[i]
    BY <1>2, <2>2
  <2> HIDE DEF torn, First
  <2>6. left = First(k) \o <<torn>>
    BY <2>1 DEF torn, First
  <2>7. Len(left) = k + 1 /\ \A i \in 1..k : left[i] = entries[i]
    BY <2>2, <2>4, <2>5, <2>6
  <2> QED
    BY <1>1, <2>2, <2>7 DEF SameIds
<1> QED
  BY <1>3, <1>4 DEF Parts

LEMMA IdsType ==
  ASSUME NEW entries \in Seq(Entry)
  PROVE  /\ Ids(entries) \in Seq(EntryId) /\ Len(Ids(entries)) = Len(entries)
         /\ \A i \in 1..Len(entries) : Ids(entries)[i] = entries[i].id
<1>1. DOMAIN entries = 1..Len(entries) /\ Len(entries) \in Nat
  BY LenProperties
<1>2. \A i \in 1..Len(entries) : entries[i].id \in EntryId
  <2>1. \A i \in 1..Len(entries) : entries[i] \in Entry
    BY ElementOfSeq
  <2> QED
    BY <2>1 DEF Entry, EntryId
<1>3. Ids(entries) = [i \in 1..Len(entries) |-> entries[i].id]
  BY <1>1 DEF Ids
<1> QED
  BY <1>1, <1>2, <1>3

\* The closed files and the open one hold what went out, whole; the rounds that
\* are finished end in the closed files or in the first n entries of the open one.
Complete(closed, open, n, out, fin) ==
  /\ closed \in Seq(Entry) /\ open \in Seq(Entry) /\ n \in 0..Len(open)
  /\ Ids(closed \o open) = out /\ \A i \in 1..Len(closed \o open) : (closed \o open)[i].whole = TRUE
  /\ fin \in Nat /\ fin <= Len(closed) + n

KeepsPrefix(entries, out, fin) ==
  /\ IsPrefix(Ids(entries), out)
  /\ \A i \in 1..(Len(entries) - 1) : entries[i].whole
  /\ fin <= Len(entries) /\ \A i \in 1..fin : entries[i].whole

LEMMA CompleteAppend ==
  ASSUME NEW closed, NEW open, NEW n, NEW out, NEW fin, Complete(closed, open, n, out, fin),
         NEW id \in EntryId
  PROVE  Complete(closed, Append(open, [id |-> id, whole |-> TRUE]), n, Append(out, id), fin)
<1> DEFINE entry == [id |-> id, whole |-> TRUE]
           all   == closed \o open
           more  == Append(all, entry)
<1>1. closed \in Seq(Entry) /\ open \in Seq(Entry) /\ n \in 0..Len(open) /\ Len(open) \in Nat
  BY LenProperties DEF Complete
<1>2. entry \in Entry /\ entry.id = id /\ entry.whole = TRUE
  BY DEF Entry, EntryId
<1> HIDE DEF entry
<1>3. closed \o Append(open, entry) = more /\ all \in Seq(Entry)
  BY <1>1, <1>2, AppendToConcat, ConcatProperties
<1>4. Append(open, entry) \in Seq(Entry) /\ n \in 0..Len(Append(open, entry))
  BY <1>1, <1>2
<1>5. Ids(all) = out /\ \A i \in 1..Len(all) : all[i].whole = TRUE
  BY DEF Complete
<1> HIDE DEF all
<1>6. /\ more \in Seq(Entry) /\ Len(more) = Len(all) + 1 /\ Len(all) \in Nat
      /\ more[Len(all) + 1] = entry /\ \A i \in 1..Len(all) : more[i] = all[i]
  BY <1>2, <1>3, LenProperties, AppendProperties
<1> HIDE DEF more
<1>7. \A i \in 1..Len(more) : more[i].whole = TRUE
  BY <1>2, <1>5, <1>6
<1>8. Ids(more) = Append(out, id)
  <2> DEFINE t == Append(out, id)
             u == Ids(more)
  <2>1. /\ out \in Seq(EntryId) /\ Len(out) = Len(all) /\ \A i \in 1..Len(all) : out[i] = all[i].id
    BY <1>3, <1>5, IdsType
  <2>2. /\ u \in Seq(EntryId) /\ Len(u) = Len(all) + 1
        /\ \A i \in 1..(Len(all) + 1) : u[i] = more[i].id
    BY <1>6, IdsType
  <2>3. /\ t \in Seq(EntryId) /\ Len(t) = Len(all) + 1
        /\ t[Len(all) + 1] = id /\ \A i \in 1..Len(all) : t[i] = out[i]
    BY <2>1, AppendProperties
  <2> HIDE DEF t, u
  <2>4. ASSUME NEW i \in 1..(Len(all) + 1) PROVE u[i] = t[i]
    <3>1. CASE i = Len(all) + 1
      BY <1>2, <1>6, <2>2, <2>3, <3>1
    <3>2. CASE i # Len(all) + 1
      <4>1. i \in 1..Len(all)
        BY <1>6, <3>2
      <4> QED
        BY <1>6, <2>1, <2>2, <2>3, <4>1
    <3> QED
      BY <3>1, <3>2
  <2>5. u = t
    BY <2>2, <2>3, <2>4
  <2> QED
    BY <2>5 DEF t, u
<1> QED
  BY <1>1, <1>3, <1>4, <1>7, <1>8 DEF Complete, entry

\* If the process is killed, or goes on, what is there is an initial run.
LEMMA CompleteKilled ==
  ASSUME NEW closed, NEW open, NEW n, NEW out, NEW fin, Complete(closed, open, n, out, fin),
         NEW left \in Parts(open, n)
  PROVE  KeepsPrefix(closed \o left, out, fin)
<1> DEFINE all  == closed \o open
           rest == closed \o left
<1>1. /\ closed \in Seq(Entry) /\ open \in Seq(Entry) /\ n \in 0..Len(open)
      /\ fin \in Nat /\ fin <= Len(closed) + n
      /\ Ids(all) = out /\ \A i \in 1..Len(all) : all[i].whole = TRUE
  BY DEF Complete
<1>2. /\ left \in Seq(Entry) /\ Len(left) \in n..Len(open)
      /\ \A i \in 1..Len(left) : left[i].id = open[i].id /\ (i <= n \/ i < Len(left) => left[i] = open[i])
  BY <1>1, PartsKeepWhole
<1>3. Len(closed) \in Nat /\ Len(open) \in Nat /\ Len(left) \in Nat /\ n \in Nat
  BY <1>1, <1>2, LenProperties
<1>4. /\ all \in Seq(Entry) /\ Len(all) = Len(closed) + Len(open)
      /\ \A i \in 1..(Len(closed) + Len(open)) :
           all[i] = IF i <= Len(closed) THEN closed[i] ELSE open[i - Len(closed)]
  BY <1>1, ConcatProperties
<1>5. /\ rest \in Seq(Entry) /\ Len(rest) = Len(closed) + Len(left)
      /\ \A i \in 1..(Len(closed) + Len(left)) :
           rest[i] = IF i <= Len(closed) THEN closed[i] ELSE left[i - Len(closed)]
  BY <1>1, <1>2, ConcatProperties
<1> HIDE DEF all, rest
<1>6. ASSUME NEW i \in 1..Len(rest)
      PROVE  /\ i \in 1..Len(all) /\ rest[i].id = all[i].id
             /\ i <= Len(closed) + n \/ i < Len(rest) => rest[i] = all[i]
  <2>1. i \in 1..(Len(closed) + Len(left)) /\ i \in 1..(Len(closed) + Len(open)) /\ i \in Nat
    BY <1>2, <1>3, <1>5
  <2>2. CASE i <= Len(closed)
    BY <1>4, <1>5, <2>1, <2>2
  <2>3. CASE ~(i <= Len(closed))
    <3> DEFINE j == i - Len(closed)
    <3>1. j \in 1..Len(left) /\ j = i - Len(closed)
      BY <1>3, <2>1, <2>3
    <3> HIDE DEF j
    <3>2. rest[i] = left[j] /\ all[i] = open[j]
      BY <1>4, <1>5, <2>1, <2>3, <3>1
    <3>3. i <= Len(closed) + n \/ i < Len(rest) => j <= n \/ j < Len(left)
      BY <1>3, <1>5, <2>1, <3>1
    <3> QED
      BY <1>2, <1>4, <2>1, <3>1, <3>2, <3>3
  <2> QED
    BY <2>2, <2>3
<1>7. IsPrefix(Ids(rest), out)
  <2>1. /\ Ids(rest) \in Seq(EntryId) /\ Len(Ids(rest)) = Len(rest)
        /\ \A i \in 1..Len(rest) : Ids(rest)[i] = rest[i].id
    BY <1>5, IdsType
  <2>2. /\ out \in Seq(EntryId) /\ Len(out) = Len(all) /\ \A i \in 1..Len(all) : out[i] = all[i].id
    BY <1>1, <1>4, IdsType
  <2>3. Len(rest) <= Len(all)
    BY <1>2, <1>3, <1>4, <1>5
  <2>4. \A i \in 1..Len(Ids(rest)) : Ids(rest)[i] = out[i]
    BY <1>6, <2>1, <2>2
  <2>5. Len(Ids(rest)) <= Len(out)
    BY <2>1, <2>2, <2>3
  <2> QED
    BY <2>1, <2>2, <2>4, <2>5, PrefixPointwise
<1>8. \A i \in 1..(Len(rest) - 1) : rest[i].whole
  <2> TAKE i \in 1..(Len(rest) - 1)
  <2>1. i \in 1..Len(rest) /\ i < Len(rest)
    BY <1>3, <1>5
  <2>2. rest[i] = all[i] /\ all[i].whole = TRUE
    BY <1>1, <1>6, <2>1
  <2> QED
    BY <2>2
<1>9. fin <= Len(rest) /\ \A i \in 1..fin : rest[i].whole
  <2>1. fin <= Len(rest)
    BY <1>1, <1>2, <1>3, <1>5
  <2> SUFFICES ASSUME NEW i \in 1..fin PROVE rest[i].whole
    BY <2>1
  <2>2. i \in 1..Len(rest) /\ i <= Len(closed) + n
    BY <1>1, <1>3, <1>5, <2>1
  <2>3. rest[i] = all[i] /\ all[i].whole = TRUE
    BY <1>1, <1>6, <2>2
  <2> QED
    BY <2>3
<1> QED
  BY <1>7, <1>8, <1>9 DEF KeepsPrefix, rest

LEMMA CompleteAll ==
  ASSUME NEW closed, NEW open, NEW n, NEW out, NEW fin, Complete(closed, open, n, out, fin)
  PROVE  KeepsPrefix(closed \o open, out, fin) /\ Len(out) = Len(closed) + Len(open)
         /\ Len(closed \o open) = Len(out)
<1>1. closed \in Seq(Entry) /\ open \in Seq(Entry) /\ n \in 0..Len(open) /\ Len(open) \in Nat
  BY LenProperties DEF Complete
<1>2. open \in Parts(open, n)
  <2>1. SubSeq(open, 1, Len(open)) = open /\ Len(open) \in n..Len(open)
    BY <1>1, SubSeqFull
  <2> QED
    BY <2>1 DEF Parts
<1>3. closed \o open \in Seq(Entry) /\ Len(closed \o open) = Len(closed) + Len(open)
  BY <1>1, ConcatProperties
<1>4. Len(out) = Len(closed \o open)
  BY <1>3, IdsType DEF Complete
<1> QED
  BY <1>2, <1>3, <1>4, CompleteKilled

-----------------------------------------------------------------------------
\* While no write has failed: all that went out is on the disk in order, older
\* files are synchronised, and what is not yet is of the round that goes on.
Written ==
  /\ \A f \in DOMAIN files : f # m_file => synced[f] = Len(contents[f])
  /\ synced[m_file] \in 0..Len(contents[m_file])
  /\ Ids(AllEntries) = output /\ \A i \in 1..Len(AllEntries) : AllEntries[i].whole = TRUE
  /\ finished + Len(contents[m_file]) <= Len(output) + synced[m_file]

CrashInv ==
  /\ NameInv /\ TypeInv /\ Latest
  /\ ~error /\ state = "open" => Written
  /\ CrashKeepsPrefix

LEMMA WrittenIsComplete ==
  ASSUME Latest, Written, finished \in Nat
  PROVE  Complete(Closed(FileNames, contents), contents[m_file], synced[m_file], output, finished)
<1> DEFINE closed == Closed(FileNames, contents)
           open   == contents[m_file]
           n      == synced[m_file]
<1>1. closed \in Seq(Entry) /\ open \in Seq(Entry) /\ AllEntries = closed \o open
  BY DiskEntries
<1>2. /\ n \in 0..Len(open) /\ Ids(closed \o open) = output
      /\ \A i \in 1..Len(closed \o open) : (closed \o open)[i].whole = TRUE
      /\ finished + Len(open) <= Len(output) + n
  BY <1>1 DEF Written
<1> HIDE DEF closed, open, n
<1>3. /\ closed \o open \in Seq(Entry) /\ Len(closed \o open) = Len(closed) + Len(open)
      /\ Len(closed) \in Nat /\ Len(open) \in Nat
  BY <1>1, ConcatProperties, LenProperties
<1>4. Len(output) = Len(closed) + Len(open)
  BY <1>2, <1>3, IdsType
<1>5. finished <= Len(closed) + n
  BY <1>2, <1>3, <1>4
<1> QED
  BY <1>1, <1>2, <1>5 DEF Complete, closed, open, n

\* A step of the open FILE that has not failed, rolled or not, killed or not.
\* Behind the first n entries of the open file nothing is of a finished round.
LEMMA SynchroniseWritten ==
  ASSUME Latest, DiskInv', DOMAIN files' = DOMAIN files \cup {m_file'},
         m_file' # m_file => m_file' \in Int /\ m_file' > m_file /\ Flushed,
         error \in BOOLEAN, ~error /\ state = "open" => Written, NEW entries \in Seq(Entry), NEW fails \in BOOLEAN,
         Synchronise(entries, fails), state = "open",
         NEW n, n = synced[m_file] \/ (n = Len(entries) /\ Flushed /\ state' # "crashed"),
         ~error => Complete(Closed(FileNames, contents), entries, n, output', finished')
  PROVE  Latest' /\ CrashKeepsPrefix' /\ (~error' /\ state' = "open" => Written')
<1> DEFINE closed == Closed(FileNames, contents)
<1>1. /\ m_file \in DOMAIN files /\ DiskInv /\ \A f \in DOMAIN files : f \in Int /\ f <= m_file
  BY DEF Latest
<1>2. /\ SameIds(contents'[m_file], entries)
      /\ \A f \in DOMAIN files' : f # m_file =>
           contents'[f] = IF f \in DOMAIN files THEN contents[f] ELSE <<>>
  BY <1>1, SynchroniseKeeps
<1>3. m_file' # m_file => m_file' \notin DOMAIN files /\ m_file' \in DOMAIN files'
  BY <1>1
<1>4. /\ m_file' # m_file => m_file' \in Int /\ m_file' > m_file /\ contents'[m_file'] = <<>>
      /\ \A f \in DOMAIN files : f # m_file => contents'[f] = contents[f]
  BY <1>2, <1>3
<1>5. /\ Latest' /\ contents'[m_file] \in Seq(Entry)
      /\ AllEntries' = closed \o contents'[m_file]
  BY <1>4, NextEntries
<1>6. CASE error'
  BY <1>5, <1>6 DEF CrashKeepsPrefix
<1>7. CASE ~error'
  <2>1. ~error /\ ~fails
    BY <1>7 DEF Synchronise
  <2>2. Complete(closed, entries, n, output', finished')
    BY <2>1
  <2> HIDE DEF closed
  <2>3. KeepsPrefix(closed \o entries, output', finished') /\ Len(output') = Len(closed) + Len(entries)
        /\ Len(closed \o entries) = Len(output')
    BY <2>2, CompleteAll
  <2>4. /\ closed \in Seq(Entry) /\ Len(closed) \in Nat /\ Len(entries) \in Nat /\ n \in 0..Len(entries)
        /\ finished' \in Nat /\ finished' <= Len(closed) + n
    BY <2>2, LenProperties DEF Complete
  <2>5. CASE state' = "crashed"
    <3>1. PICK left \in Parts(entries, synced[m_file]) : Holds(left, Len(left))
      BY <2>5 DEF Synchronise
    <3>2. contents'[m_file] = left
      BY <1>1, <3>1 DEF Holds
    <3>3. KeepsPrefix(closed \o left, output', finished')
      BY <2>2, <2>5, CompleteKilled
    <3> QED
      BY <1>5, <2>5, <3>2, <3>3 DEF KeepsPrefix, CrashKeepsPrefix
  <2>6. CASE state' # "crashed"
    <3>1. Holds(entries, IF Flushed THEN Len(entries) ELSE synced[m_file])
      BY <2>1, <2>6 DEF Synchronise
    <3>2. /\ contents'[m_file] = entries
          /\ synced'[m_file] = IF Flushed THEN Len(entries) ELSE synced[m_file]
          /\ \A f \in DOMAIN files : f # m_file => synced'[f] = synced[f]
          /\ \A f \in DOMAIN files' : f # m_file /\ f \notin DOMAIN files => synced'[f] = 0
      BY <1>1, <3>1 DEF Holds
    <3>3. AllEntries' = closed \o entries
      BY <1>5, <3>2
    <3>4. CrashKeepsPrefix'
      BY <2>3, <2>6, <3>3 DEF KeepsPrefix, CrashKeepsPrefix
    <3>5. Ids(AllEntries') = output' /\ \A i \in 1..Len(AllEntries') : AllEntries'[i].whole = TRUE
      BY <2>2, <3>3 DEF Complete
    <3>6. Written
      BY <2>1
    <3>7. CASE m_file' = m_file
      <4>1. \A f \in DOMAIN files' : f # m_file' => synced'[f] = Len(contents'[f])
        BY <1>4, <3>2, <3>6, <3>7 DEF Written
      <4>2. synced'[m_file] \in 0..Len(entries) /\ synced'[m_file] >= n
        BY <2>4, <3>2
      <4>3. finished' + Len(entries) <= Len(output') + synced'[m_file]
        BY <2>3, <2>4, <4>2
      <4>4. Written'
        BY <3>2, <3>5, <3>7, <4>1, <4>2, <4>3 DEF Written
      <4> QED
        BY <1>5, <3>4, <4>4
    <3>8. CASE m_file' # m_file
      <4>1. \A f \in DOMAIN files' : f # m_file' => synced'[f] = Len(contents'[f])
        BY <1>4, <3>2, <3>6, <3>8 DEF Written
      <4>2. synced'[m_file'] = 0 /\ Len(contents'[m_file']) = 0
        BY <1>3, <1>4, <3>2, <3>8, EmptySeq
      <4>3. finished' + Len(contents'[m_file']) <= Len(output') + synced'[m_file']
        BY <2>3, <2>4, <4>2
      <4>4. Written'
        BY <3>5, <4>1, <4>2, <4>3 DEF Written
      <4> QED
        BY <1>5, <3>4, <4>4
    <3> QED
      BY <3>7, <3>8
  <2> QED
    BY <2>5, <2>6
<1> QED
  BY <1>6, <1>7

LEMMA CrashStep ==
  ASSUME LocalTimeMonotone, CrashInv, [Next]_vars
  PROVE  CrashInv'
<1>1. /\ NameInv' /\ TypeInv' /\ DOMAIN files' = DOMAIN files \cup {m_file'}
      /\ m_file' # m_file => m_file' > m_file /\ oldest' = LogFileP!Clean
  BY NameStep, TypeStep, FileTypesStep DEF CrashInv, TypeInv, LogFileP!NewestGrows
<1>2. /\ QueueInv /\ RoundInv /\ Latest /\ error \in BOOLEAN
      /\ ~error /\ state = "open" => Written
      /\ contents[m_file] \in Seq(Entry) /\ finished \in Nat /\ DiskInv'
      /\ state \in {"open", "closed", "crashed"}
  <2>1. contents[m_file] \in Seq(Entry) /\ error \in BOOLEAN
    BY DEF CrashInv, Latest, DiskInv, TypeInv, StoreInv
  <2>2. finished \in Nat
    BY LenProperties DEF CrashInv, TypeInv, RoundInv
  <2> QED
    BY <1>1, <2>1, <2>2 DEF CrashInv, TypeInv, StoreInv, LogFileP!TypeInv, LogFileP!TypeOK
<1>3. m_file' # m_file => m_file' \in Int /\ m_file' > m_file /\ Flushed
  BY <1>1 DEF NameInv, LogFileP!NameInv, Flushed, File!Clean, LogFileP!Clean
<1>4. ~error /\ state = "open" =>
        Complete(Closed(FileNames, contents), contents[m_file], synced[m_file], output, finished)
  BY <1>2, WrittenIsComplete
\* One entry more.
<1>5. ASSUME NEW id \in EntryId, AppendEntry(id), output' = Append(output, id), UNCHANGED finished
      PROVE  Latest' /\ CrashKeepsPrefix' /\ (~error' /\ state' = "open" => Written')
  <2> DEFINE entries == Append(contents[m_file], [id |-> id, whole |-> TRUE])
  <2>1. state = "open"
    BY <1>5 DEF AppendEntry, Appends, File!AppendAndRoll, File!Append, File!AppendAndChangeDay,
                File!AppendAndFlush, File!RollThrows, File!MayAppend
  <2>2. PICK fails \in BOOLEAN : Synchronise(entries, fails)
    BY <1>5 DEF AppendEntry
  <2>3. [id |-> id, whole |-> TRUE] \in Entry
    BY DEF Entry, EntryId
  <2>4. entries \in Seq(Entry)
    BY <1>2, <2>3, AppendProperties
  <2>5. ~error => Complete(Closed(FileNames, contents), entries, synced[m_file], output', finished')
    BY <1>4, <1>5, <2>1, CompleteAppend
  <2> HIDE DEF entries
  <2> QED
    BY <1>1, <1>2, <1>3, <2>1, <2>2, <2>4, <2>5, SynchroniseWritten
<1>6. CASE DropExcess
  <2>1. AppendEntry(Notice) /\ output' = Append(output, Notice) /\ UNCHANGED finished /\ Notice \in EntryId
    BY <1>6 DEF DropExcess, Stream!Cut, EntryId
  <2> QED
    BY <1>1, <1>5, <2>1 DEF CrashInv
<1>7. CASE WriteMessage
  <2>1. AppendEntry(Head(queue)) /\ UNCHANGED finished /\ Head(queue) \in EntryId
    BY <1>2, <1>7, QueueWrite DEF WriteMessage, EntryId
  <2>2. output' = Append(output, Head(queue))
    BY <1>2, <1>7, WriteOutput DEF RoundInv
  <2> QED
    BY <1>1, <1>5, <2>1, <2>2 DEF CrashInv
\* The end of a round, or of the worker.
<1>8. CASE EndRound \/ Leave
  <2>1. /\ state = "open" /\ state' # "crashed" /\ Flushed
        /\ output' = output /\ finished' = Len(output)
    BY <1>8 DEF EndRound, Leave, File!Flush, File!Close, File!Flushed, Flushed, streamVars
  <2>2. PICK fails \in BOOLEAN : Synchronise(contents[m_file], fails)
    BY <1>8 DEF EndRound, Leave, MayFail
  <2>3. ~error => Complete(Closed(FileNames, contents), contents[m_file], Len(contents[m_file]), output', finished')
    <3> DEFINE closed == Closed(FileNames, contents)
               open   == contents[m_file]
               n      == synced[m_file]
    <3> SUFFICES ASSUME ~error PROVE Complete(closed, open, Len(open), output', finished')
      OBVIOUS
    <3>1. Complete(closed, open, n, output, finished)
      BY <1>4, <2>1
    <3> HIDE DEF closed, open, n
    <3>2. Len(output) = Len(closed) + Len(open)
      BY <3>1, CompleteAll
    <3>3. closed \in Seq(Entry) /\ open \in Seq(Entry) /\ Len(closed) \in Nat /\ Len(open) \in Nat
      BY <3>1, LenProperties DEF Complete
    <3> QED
      BY <2>1, <3>1, <3>2, <3>3 DEF Complete
  <2>4. Latest' /\ CrashKeepsPrefix' /\ (~error' /\ state' = "open" => Written')
    <3> DEFINE open == contents[m_file]
    <3>1. open \in Seq(Entry) /\ Synchronise(open, fails)
      BY <1>2, <2>2
    <3>2. \E n : /\ n = Len(open) /\ Flushed /\ state' # "crashed"
                 /\ ~error => Complete(Closed(FileNames, contents), open, n, output', finished')
      BY <2>1, <2>3
    <3> HIDE DEF open
    <3> QED
      BY <1>1, <1>2, <1>3, <2>1, <3>1, <3>2, SynchroniseWritten
  <2> QED
    BY <1>1, <2>4 DEF CrashInv
<1>9. CASE Crash
  <2>1. /\ state = "open" /\ state' = "crashed"
        /\ UNCHANGED <<output, finished, files, m_file, error>>
    BY <1>9 DEF Crash, Running, streamVars, fileVars
  <2>2. /\ DOMAIN contents' = DOMAIN contents /\ DOMAIN contents = DOMAIN files
        /\ m_file \in DOMAIN files
        /\ \A f \in DOMAIN files : contents'[f] \in Parts(contents[f], synced[f]) /\ contents[f] \in Seq(Entry)
    BY <1>2, <1>9 DEF Crash, Disks, Latest, DiskInv
  <2>3. FileNames' = FileNames
    BY <2>2 DEF FileNames
  <2>4. Latest'
    BY <1>2, <2>1, <2>3 DEF Latest
  <2>5. CASE error
    BY <1>1, <2>1, <2>4, <2>5 DEF CrashInv, CrashKeepsPrefix
  <2>6. CASE ~error
    <3>1. Written /\ Complete(Closed(FileNames, contents), contents[m_file], synced[m_file], output, finished)
      BY <1>2, <1>4, <2>1, <2>6
    <3>2. \A f \in DOMAIN files : f # m_file => contents'[f] = contents[f]
      <4> SUFFICES ASSUME NEW f \in DOMAIN files, f # m_file PROVE contents'[f] = contents[f]
        OBVIOUS
      <4>1. synced[f] = Len(contents[f]) /\ synced[f] \in 0..Len(contents[f])
        BY <2>2, <3>1, LenProperties DEF Written
      <4> QED
        BY <2>2, <4>1, PartsKeepWhole
    <3>3. AllEntries' = Closed(FileNames, contents) \o contents'[m_file]
      BY <1>1, <1>2, <2>1, <3>2, NextEntries
    <3>4. KeepsPrefix(Closed(FileNames, contents) \o contents'[m_file], output, finished)
      BY <2>2, <3>1, CompleteKilled
    <3>5. CrashKeepsPrefix'
      BY <2>1, <3>3, <3>4 DEF KeepsPrefix, CrashKeepsPrefix
    <3> QED
      BY <1>1, <2>1, <2>4, <3>5 DEF CrashInv
  <2> QED
    BY <2>5, <2>6
<1>10. CASE Accept \/ Collect \/ NothingToDrop \/ Tick \/ UNCHANGED vars
  <2>1. UNCHANGED <<output, finished, files, m_file, contents, synced, error, state>>
    BY <1>10 DEF Accept, Stream!Accept, Collect, NothingToDrop, Tick, File!Tick, vars, streamVars, workerVars,
                 logFileVars, fileVars, File!fileVars, diskVars
  <2>2. FileNames' = FileNames /\ AllEntries' = AllEntries
    BY <2>1 DEF FileNames, AllEntries
  <2>3. Latest' /\ CrashKeepsPrefix' /\ (~error' /\ state' = "open" => Written')
    BY <1>2, <2>1, <2>2 DEF CrashInv, Latest, DiskInv, CrashKeepsPrefix, Written
  <2> QED
    BY <1>1, <2>3 DEF CrashInv
<1> QED
  BY <1>6, <1>7, <1>8, <1>9, <1>10 DEF Next

\* Without an error the files, read in the order of their names, hold exactly
\* what went out, and a kill at any point, even in the middle of a roll, leaves
\* an initial run of it that ends in one torn line at most and has every line of
\* the rounds that were finished.
THEOREM KillsKeepPrefix == ASSUME LocalTimeMonotone PROVE Spec => []CrashKeepsPrefix
<1>1. Init => CrashInv
  <2> SUFFICES ASSUME Init PROVE CrashInv
    OBVIOUS
  <2>1. NameInv /\ TypeInv /\ m_file \in Int
    BY NameStart, TypeStart DEF NameInv, LogFileP!NameInv
  <2>2. /\ DOMAIN files = {m_file} /\ DOMAIN contents = {m_file} /\ contents[m_file] = <<>>
        /\ synced[m_file] = 0 /\ output = <<>> /\ finished = 0
    BY DEF Init, File!Init, Stream!Init
  <2>3. FileNames = <<m_file>> /\ Ordered(<<m_file>>, {m_file})
    <3>1. {m_file} \in SUBSET Int
      BY <2>1
    <3> QED
      BY <2>1, <2>2, <3>1, OrderSingle, OrderChosen DEF FileNames, NamesOf
  <2>4. Latest
    BY <2>1, <2>2, <2>3 DEF Latest, TypeInv, StoreInv
  <2>5. AllEntries = <<>>
    <3>1. AllEntries = Closed(FileNames, contents) \o <<>> /\ Closed(FileNames, contents) \in Seq(Entry)
      BY <2>2, <2>4, DiskEntries
    <3>2. [i \in 1..0 |-> contents[FileNames[i]]] = <<>> /\ Len(FileNames) - 1 = 0
      BY <2>3
    <3>3. Closed(FileNames, contents) = <<>>
      BY <3>2, FlattenEmpty DEF Closed
    <3> QED
      BY <3>1, <3>3, ConcatEmptySeq
  <2>6. Ids(AllEntries) = <<>> /\ Len(AllEntries) = 0
    BY <2>5 DEF Ids
  <2>7. Written
    BY <2>2, <2>6, EmptySeq DEF Written
  <2>8. CrashKeepsPrefix
    <3>1. IsPrefix(<<>>, <<>>)
      BY EmptySeq DEF IsPrefix
    <3> QED
      BY <2>2, <2>6, <3>1, EmptySeq DEF CrashKeepsPrefix
  <2> QED
    BY <2>1, <2>4, <2>7, <2>8 DEF CrashInv
<1>2. CrashInv /\ [Next]_vars => CrashInv'
  BY CrashStep
<1>3. CrashInv => CrashKeepsPrefix
  BY DEF CrashInv
<1> QED
  BY <1>1, <1>2, <1>3, PTL DEF Spec
=============================================================================
