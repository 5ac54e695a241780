----------------------------- MODULE LoggerProofs -----------------------------
(***************************************************************************)
(* Proofs about the calls of Log, for any number of threads, calls and     *)
(* depth of nesting: a message keeps the level it was logged with, one     *)
(* that passes is accepted, and only fatal messages stop the program.      *)
(***************************************************************************)
EXTENDS Logger, SequenceTheorems, TLAPS

\* What is so of a call in progress on a thread whose Log has that level:
\* until it is formatted, the Log still has the level of an undisturbed call;
\* then its level is recorded.
Kept(level, call) ==
  call.undisturbed =>
    IF call.pc = "format" THEN call.own \/ level = call.asked
                          ELSE call.level = call.asked

Typed ==
  /\ t_level \in [Threads -> kTrace..kFatal]
  /\ calls \in [Threads -> Seq(Frame)]
  /\ ended \subseteq Frame
  /\ started \in Nat

KeptInv ==
  /\ \A t \in Threads : \A i \in DOMAIN calls[t] : Kept(t_level[t], calls[t][i])
  /\ \A call \in ended : call.undisturbed => call.level = call.asked

LevelInv == Typed /\ KeptInv

\* Last and Front of a stack that is not empty.
LEMMA StackOps ==
  ASSUME NEW S, NEW s \in Seq(S), s # <<>>
  PROVE  /\ Last(s) = s[Len(s)] /\ Last(s) \in S /\ Len(s) \in 1..Len(s)
         /\ Front(s) \in Seq(S) /\ Len(Front(s)) = Len(s) - 1
         /\ \A i \in 1..(Len(s) - 1) : Front(s)[i] = s[i]
<1>1. /\ 1 \in Int /\ Len(s) - 1 \in Int /\ Len(s) \in Nat /\ DOMAIN s = 1..Len(s) /\ Len(s) >= 1
      /\ \A i \in 1..(Len(s) - 1) : s[i] \in S
  OBVIOUS
<1>2. Last(s) = s[Len(s)] /\ Last(s) \in S
  BY <1>1 DEF Last
<1>3. Front(s) = SubSeq(s, 1, Len(s) - 1)
  BY DEF Front
<1>4. /\ SubSeq(s, 1, Len(s) - 1) \in Seq(S)
      /\ Len(SubSeq(s, 1, Len(s) - 1)) = Len(s) - 1
      /\ \A i \in 1..(Len(s) - 1) : SubSeq(s, 1, Len(s) - 1)[i] = s[i]
  BY <1>1, SubSeqProperties, Z3
<1> QED
  BY <1>1, <1>2, <1>3, <1>4

\* The top of a stack is replaced.
LEMMA ReplaceTop ==
  ASSUME NEW S, NEW s \in Seq(S), s # <<>>, NEW e \in S
  PROVE  /\ Append(Front(s), e) \in Seq(S)
         /\ DOMAIN Append(Front(s), e) = DOMAIN s
         /\ \A i \in DOMAIN s : Append(Front(s), e)[i] = IF i = Len(s) THEN e ELSE s[i]
<1>1. /\ Front(s) \in Seq(S) /\ Len(Front(s)) = Len(s) - 1 /\ Len(s) \in 1..Len(s)
      /\ \A i \in 1..(Len(s) - 1) : Front(s)[i] = s[i]
  BY StackOps
<1>2. Append(Front(s), e) \in Seq(S) /\ Len(Append(Front(s), e)) = Len(s)
  BY <1>1
<1>3. ASSUME NEW i \in 1..Len(s)
      PROVE  Append(Front(s), e)[i] = IF i = Len(s) THEN e ELSE s[i]
  BY <1>1, <1>3
<1> QED
  BY <1>2, <1>3

\* One thread changes its stack, and at most its own Log.
LEMMA StackStep ==
  ASSUME LevelInv, NEW t \in Threads,
         calls' \in [Threads -> Seq(Frame)],
         t_level' \in [Threads -> kTrace..kFatal],
         \A u \in Threads \ {t} : calls'[u] = calls[u] /\ t_level'[u] = t_level[u],
         \A i \in DOMAIN calls'[t] : Kept(t_level'[t], calls'[t][i]),
         ended' \subseteq Frame, started' \in Nat,
         \A call \in ended' : call.undisturbed => call.level = call.asked
  PROVE  LevelInv'
<1>1. Typed'
  BY DEF LevelInv, Typed
<1>2. \A u \in Threads : \A i \in DOMAIN calls'[u] : Kept(t_level'[u], calls'[u][i])
  BY DEF LevelInv, KeptInv
<1> QED
  BY <1>1, <1>2 DEF LevelInv, KeptInv

\* A call in progress moves on without touching level, asked or undisturbed.
LEMMA MoveOn ==
  ASSUME LevelInv, NEW t \in Threads, calls[t] # <<>>, Top(t).pc # "format",
         NEW p \in {"file", "console", "fflush", "fatal", "end"}, GoTo(t, p),
         UNCHANGED <<t_level, started, ended>>
  PROVE  LevelInv'
<1> DEFINE e == [Top(t) EXCEPT !.pc = p]
           s == Append(Front(calls[t]), e)
<1>1. calls[t] \in Seq(Frame)
  BY DEF LevelInv, Typed
<1>2. Top(t) \in Frame /\ Len(calls[t]) \in DOMAIN calls[t] /\ Top(t) = calls[t][Len(calls[t])]
  BY <1>1, StackOps DEF Top
<1>3. /\ e \in Frame /\ e.pc = p /\ e.level = Top(t).level /\ e.asked = Top(t).asked
      /\ e.undisturbed = Top(t).undisturbed
  BY <1>2 DEF Frame
<1>4. Kept(t_level[t], Top(t))
  BY <1>2 DEF LevelInv, KeptInv
<1>5. Kept(t_level[t], e)
  BY <1>3, <1>4 DEF Kept
<1> HIDE DEF e
<1>6. /\ s \in Seq(Frame) /\ DOMAIN s = DOMAIN calls[t]
      /\ \A i \in DOMAIN calls[t] : s[i] = IF i = Len(calls[t]) THEN e ELSE calls[t][i]
  BY <1>1, <1>3, ReplaceTop
<1>7. calls' = [calls EXCEPT ![t] = s]
  BY DEF GoTo, e
<1> HIDE DEF s
<1>8. \A i \in DOMAIN s : Kept(t_level'[t], s[i])
  <2> SUFFICES ASSUME NEW i \in DOMAIN s PROVE Kept(t_level'[t], s[i])
    OBVIOUS
  <2>1. Kept(t_level[t], s[i])
    BY <1>5, <1>6 DEF LevelInv, KeptInv
  <2> QED
    BY <2>1 DEF Kept
<1> QED
  BY <1>6, <1>7, <1>8, StackStep DEF LevelInv, Typed, KeptInv

\* A new call on top, whose level is in the thread's Log if it uses that.
LEMMA EnterStep ==
  ASSUME LevelInv, NEW t \in Threads, NEW asked \in Levels, NEW own \in BOOLEAN,
         NEW limit \in kTrace..kFatal, Enter(t, asked, own, limit),
         t_level' \in [Threads -> kTrace..kFatal],
         \A u \in Threads \ {t} : t_level'[u] = t_level[u],
         own \/ t_level'[t] = asked,
         UNCHANGED ended
  PROVE  LevelInv'
<1> DEFINE e == [id |-> started + 1, asked |-> asked, own |-> own, limit |-> limit,
                 level |-> asked, undisturbed |-> TRUE, pc |-> "format"]
           below == [i \in DOMAIN calls[t] |-> [calls[t][i] EXCEPT !.undisturbed = FALSE]]
           s == Append(below, e)
<1>1. calls[t] \in Seq(Frame) /\ started \in Nat
  BY DEF LevelInv, Typed
<1>2. /\ e \in Frame /\ e.pc = "format" /\ e.asked = asked /\ e.own = own
  BY <1>1, ConstantsAssumption DEF Frame
<1>3. ASSUME NEW i \in DOMAIN calls[t]
      PROVE  below[i] \in Frame /\ below[i].undisturbed = FALSE
  <2>1. calls[t][i] \in Frame /\ below[i] = [calls[t][i] EXCEPT !.undisturbed = FALSE]
    BY <1>1
  <2> QED
    BY <2>1 DEF Frame
<1>4. below \in Seq(Frame) /\ Len(below) = Len(calls[t])
  <2>1. DOMAIN calls[t] = 1..Len(calls[t]) /\ Len(calls[t]) \in Nat
    BY <1>1
  <2>2. below \in [1..Len(calls[t]) -> Frame]
    BY <2>1, <1>3, Zenon
  <2> QED
    BY <2>1, <2>2, LenProperties
<1>5. calls' = [calls EXCEPT ![t] = s] /\ started' \in Nat
  BY <1>1 DEF Enter, LevelInv, Typed
<1>6. Kept(t_level'[t], e)
  BY <1>2 DEF Kept
<1> HIDE DEF e, below
<1>7. s \in Seq(Frame)
  BY <1>2, <1>4
<1>8. ASSUME NEW i \in DOMAIN s PROVE Kept(t_level'[t], s[i])
  <2>1. CASE i = Len(below) + 1
    <3>1. s[i] = e
      BY <2>1, <1>4
    <3> QED
      BY <3>1, <1>6 DEF Kept
  <2>2. CASE i # Len(below) + 1
    <3>1. i \in DOMAIN calls[t] /\ s[i] = below[i]
      BY <2>2, <1>1, <1>4
    <3> QED
      BY <3>1, <1>3 DEF Kept
  <2> QED
    BY <2>1, <2>2
<1> HIDE DEF s
<1> QED
  BY <1>5, <1>7, <1>8, StackStep DEF LevelInv, Typed, KeptInv

\* The innermost call ends, in whatever way.
LEMMA PopStep ==
  ASSUME LevelInv, NEW t \in Threads, calls[t] # <<>>,
         calls' = [calls EXCEPT ![t] = Front(@)],
         ended' \subseteq ended \cup {Top(t)},
         ended' # ended => Top(t).pc # "format",
         UNCHANGED <<t_level, started>>
  PROVE  LevelInv'
<1> DEFINE s == Front(calls[t])
<1>1. calls[t] \in Seq(Frame)
  BY DEF LevelInv, Typed
<1>2. /\ Top(t) \in Frame /\ Len(calls[t]) \in DOMAIN calls[t] /\ Top(t) = calls[t][Len(calls[t])]
      /\ s \in Seq(Frame) /\ DOMAIN s = 1..(Len(calls[t]) - 1) /\ DOMAIN calls[t] = 1..Len(calls[t])
      /\ \A i \in 1..(Len(calls[t]) - 1) : s[i] = calls[t][i]
  <2>1. /\ Last(calls[t]) = calls[t][Len(calls[t])] /\ Last(calls[t]) \in Frame
        /\ Len(calls[t]) \in 1..Len(calls[t])
        /\ s \in Seq(Frame) /\ Len(s) = Len(calls[t]) - 1
        /\ \A i \in 1..(Len(calls[t]) - 1) : s[i] = calls[t][i]
    BY <1>1, StackOps
  <2>2. DOMAIN calls[t] = 1..Len(calls[t])
    BY <1>1
  <2>3. DOMAIN s = 1..(Len(calls[t]) - 1)
    BY <2>1
  <2> HIDE DEF s
  <2> QED
    BY <2>1, <2>2, <2>3 DEF Top
<1>3. calls' = [calls EXCEPT ![t] = s]
  OBVIOUS
<1> HIDE DEF s
<1>4. ASSUME NEW i \in DOMAIN s PROVE Kept(t_level'[t], s[i])
  <2>1. i \in DOMAIN calls[t] /\ s[i] = calls[t][i]
    BY <1>1, <1>2
  <2>2. Kept(t_level[t], calls[t][i])
    BY <2>1 DEF LevelInv, KeptInv
  <2> QED
    BY <2>1, <2>2 DEF Kept
<1>5. Kept(t_level[t], Top(t))
  BY <1>2 DEF LevelInv, KeptInv
<1>6. \A call \in ended' : call.undisturbed => call.level = call.asked
  BY <1>5 DEF Kept, LevelInv, KeptInv
<1>7. ended' \subseteq Frame
  BY <1>2 DEF LevelInv, Typed
<1> QED
  BY <1>2, <1>3, <1>4, <1>6, <1>7, StackStep DEF LevelInv, Typed

\* Nothing of what LevelInv speaks about changes.
LEMMA NoStackStep ==
  ASSUME LevelInv, UNCHANGED <<t_level, calls, started, ended>>
  PROVE  LevelInv'
BY DEF LevelInv, Typed, KeptInv, Kept

LEMMA LogItStep ==
  ASSUME LevelInv, NEW t \in Threads, LogIt(t)
  PROVE  LevelInv'
<1> DEFINE level == Recorded(t)
           p == IF Filtered(Top(t), level) THEN "end" ELSE "file"
           e == [Top(t) EXCEPT !.level = level, !.pc = p]
           s == Append(Front(calls[t]), e)
<1>1. calls[t] \in Seq(Frame) /\ calls[t] # <<>> /\ Top(t).pc = "format" /\ t_level[t] \in kTrace..kFatal
  BY DEF LevelInv, Typed, LogIt, At
<1>2. Top(t) \in Frame /\ Len(calls[t]) \in DOMAIN calls[t] /\ Top(t) = calls[t][Len(calls[t])]
  BY <1>1, StackOps DEF Top
<1>3. level \in kTrace..kFatal
  BY <1>1, <1>2, ConstantsAssumption DEF Recorded, Frame
<1>4. p \in {"end", "file"}
  OBVIOUS
<1>5. Kept(t_level[t], Top(t))
  BY <1>2 DEF LevelInv, KeptInv
<1>6. Top(t).undisturbed => level = Top(t).asked
  BY <1>1, <1>5 DEF Kept, Recorded
<1>7. calls' = [calls EXCEPT ![t] = s]
  BY DEF LogIt
<1> HIDE DEF level, p
<1>8. /\ e \in Frame /\ e.pc = p /\ e.level = level /\ e.asked = Top(t).asked
      /\ e.undisturbed = Top(t).undisturbed
  BY <1>2, <1>3, <1>4 DEF Frame
<1>9. Kept(t_level[t], e)
  BY <1>4, <1>6, <1>8 DEF Kept
<1> HIDE DEF e
<1>10. /\ s \in Seq(Frame) /\ DOMAIN s = DOMAIN calls[t]
       /\ \A i \in DOMAIN calls[t] : s[i] = IF i = Len(calls[t]) THEN e ELSE calls[t][i]
  BY <1>1, <1>8, ReplaceTop
<1> HIDE DEF s
<1>11. UNCHANGED <<t_level, started, ended>>
  BY DEF LogIt
<1>12. ASSUME NEW i \in DOMAIN s PROVE Kept(t_level'[t], s[i])
  <2>1. Kept(t_level[t], s[i])
    BY <1>9, <1>10 DEF LevelInv, KeptInv
  <2> QED
    BY <2>1, <1>11 DEF Kept
<1> QED
  BY <1>7, <1>10, <1>11, <1>12, StackStep DEF LevelInv, Typed, KeptInv

LEMMA LevelStep ==
  ASSUME LevelInv, [Next]_vars
  PROVE  LevelInv'
<1>1. CASE UNCHANGED vars
  BY <1>1, NoStackStep DEF vars, callVars
<1>2. ASSUME NEW t \in Threads, NEW l \in Levels, CallStatic(t, l)
      PROVE  LevelInv'
  <2>1. /\ t_level' = [u \in Threads |-> IF u = t THEN LevelSet(t, l) ELSE t_level[u]]
        /\ l \in kTrace..kFatal /\ t_level \in [Threads -> kTrace..kFatal]
    BY <1>2, ConstantsAssumption DEF CallStatic, Instances, LevelInv, Typed
  <2>2. t_level' \in [Threads -> kTrace..kFatal] /\ \A u \in Threads \ {t} : t_level'[u] = t_level[u]
    BY <2>1 DEF LevelSet
  <2>3. CASE ShouldLog(l)
    <3>1. t_level'[t] = l /\ Enter(t, l, FALSE, Threshold) /\ UNCHANGED ended
      BY <1>2, <2>1, <2>3 DEF CallStatic, LevelSet
    <3> QED
      BY <2>2, <3>1, EnterStep, ConstantsAssumption
  <2>4. CASE ~ShouldLog(l)
    <3>1. t_level' = t_level /\ UNCHANGED <<calls, started, ended>>
      BY <1>2, <2>1, <2>4 DEF CallStatic, LevelSet
    <3> QED
      BY <3>1, NoStackStep
  <2> QED
    BY <2>3, <2>4
<1>3. ASSUME NEW t \in Threads, NEW l \in Levels, CallOwn(t, l) \/ CallCheck(t, l)
      PROVE  LevelInv'
  <2>1. PICK limit \in {Threshold, OwnThreshold} :
          Enter(t, l, TRUE, limit) /\ UNCHANGED <<t_level, ended>>
    BY <1>3 DEF CallOwn, CallCheck
  <2>2. limit \in kTrace..kFatal
    BY ConstantsAssumption
  <2> QED
    BY <2>1, <2>2, EnterStep DEF LevelInv, Typed
<1>4. ASSUME NEW t \in Threads, FormatThrows(t) \/ BeginFlush(t) \/ WaitForDone(t)
      PROVE  LevelInv'
  BY <1>4, NoStackStep DEF FormatThrows, BeginFlush, WaitForDone, callVars
<1>5. ASSUME NEW t \in Threads, PushToFile(t)
      PROVE  LevelInv'
  <2>1. calls[t] # <<>> /\ Top(t).pc = "file" /\ UNCHANGED <<t_level, started, ended>>
    BY <1>5 DEF PushToFile, At
  <2>2. UNCHANGED calls \/ GoTo(t, IF Console THEN "console" ELSE "fatal")
    BY <1>5 DEF PushToFile
  <2> QED
    BY <2>1, <2>2, MoveOn, NoStackStep
<1>6. ASSUME NEW t \in Threads, WriteConsole(t)
      PROVE  LevelInv'
  <2>1. calls[t] # <<>> /\ Top(t).pc = "console" /\ GoTo(t, "fflush")
        /\ UNCHANGED <<t_level, started, ended>>
    BY <1>6 DEF WriteConsole, At
  <2> QED
    BY <2>1, MoveOn
<1>7. ASSUME NEW t \in Threads, EndFlush(t)
      PROVE  LevelInv'
  <2>1. calls[t] # <<>> /\ Top(t).pc = "fflush" /\ GoTo(t, "fatal")
        /\ UNCHANGED <<t_level, started, ended>>
    BY <1>7 DEF EndFlush, At
  <2> QED
    BY <2>1, MoveOn
<1>8. ASSUME NEW t \in Threads, CheckFatal(t)
      PROVE  LevelInv'
  <2>1. calls[t] # <<>> /\ Top(t).pc = "fatal" /\ UNCHANGED <<t_level, started, ended>>
    BY <1>8 DEF CheckFatal, At
  <2>2. UNCHANGED calls \/ GoTo(t, "end")
    BY <1>8 DEF CheckFatal
  <2> QED
    BY <2>1, <2>2, MoveOn, NoStackStep
<1>9. ASSUME NEW t \in Threads, Return(t)
      PROVE  LevelInv'
  <2>1. calls[t] # <<>> /\ Top(t).pc = "end" /\ UNCHANGED <<t_level, started>>
    BY <1>9 DEF Return, At
  <2>2. ended' = ended \cup {Top(t)} /\ calls' = [calls EXCEPT ![t] = Front(@)]
    BY <1>9 DEF Return
  <2> QED
    BY <2>1, <2>2, PopStep
<1>10. ASSUME NEW t \in Threads, Unwind(t)
       PROVE  LevelInv'
  <2>1. calls' = [calls EXCEPT ![t] = Front(@)] /\ UNCHANGED <<t_level, started, ended>>
    BY <1>10 DEF Unwind
  <2>2. CASE calls[t] # <<>>
    BY <2>1, <2>2, PopStep
  <2>3. CASE calls[t] = <<>>
    <3>1. SubSeq(calls[t], 1, Len(calls[t]) - 1) = calls[t]
      <4>1. Len(calls[t]) = 0
        BY <2>3
      <4> QED
        BY <2>3, <4>1, SubSeqEmpty
    <3>2. Front(calls[t]) = calls[t]
      BY <3>1 DEF Front
    <3>3. calls' = calls
      BY <2>1, <3>2 DEF LevelInv, Typed
    <3> QED
      BY <2>1, <3>3, NoStackStep
  <2> QED
    BY <2>2, <2>3
<1>11. CASE Next
  <2>1. PICK t \in Threads :
          \/ \E l \in Levels : CallStatic(t, l) \/ CallOwn(t, l) \/ CallCheck(t, l)
          \/ FormatThrows(t) \/ LogIt(t) \/ PushToFile(t)
          \/ WriteConsole(t) \/ BeginFlush(t) \/ EndFlush(t)
          \/ CheckFatal(t) \/ Return(t) \/ Unwind(t) \/ WaitForDone(t)
    BY <1>11, Zenon DEF Next
  <2> QED
    BY <2>1, <1>2, <1>3, <1>4, <1>5, <1>6, <1>7, <1>8, <1>9, <1>10, LogItStep, Zenon
<1> QED
  BY <1>1, <1>11

LEMMA LevelInit ==
  ASSUME Init
  PROVE  LevelInv
<1>1. \A t \in Threads : calls[t] = <<>>
  BY DEF Init
<1>2. Typed
  <2>1. kTrace \in kTrace..kFatal
    BY DEF kTrace, kFatal
  <2> QED
    BY <2>1 DEF Init, Typed, FirstLevel
<1>3. KeptInv
  BY <1>1 DEF Init, KeptInv
<1> QED
  BY <1>2, <1>3 DEF LevelInv

\* Whatever the threads do, and however deep their calls are nested, a message
\* whose own formatting did not log is recorded with the level of its call:
\* the Log that the static functions share is never shared between threads.
THEOREM LevelsKept == Spec => []LevelKept
<1>1. Init => LevelInv
  BY LevelInit
<1>2. LevelInv /\ [Next]_vars => LevelInv'
  BY LevelStep
<1>3. LevelInv => LevelKept
  BY DEF LevelInv, KeptInv, Kept, LevelKept, Past
<1> QED
  BY <1>1, <1>2, <1>3, PTL DEF Spec

-----------------------------------------------------------------------------
(***************************************************************************)
(* The stack of a thread after each kind of step.                          *)
(***************************************************************************)
\* The calls of one thread change: those that stay, disturbed perhaps, and at
\* most one that is new or has moved on.
Stacked(t, e) ==
  /\ calls' \in [Threads -> Seq(Frame)]
  /\ \A u \in Threads \ {t} : calls'[u] = calls[u]
  /\ \A i \in DOMAIN calls'[t] :
       \/ /\ i \in DOMAIN calls[t]
          /\ calls'[t][i] \in {calls[t][i], [calls[t][i] EXCEPT !.undisturbed = FALSE]}
       \/ calls'[t][i] = e

LEMMA TopCall ==
  ASSUME Typed, NEW t \in Threads, calls[t] # <<>>
  PROVE  /\ calls[t] \in Seq(Frame) /\ Top(t) \in Frame
         /\ Len(calls[t]) \in DOMAIN calls[t] /\ Top(t) = calls[t][Len(calls[t])]
<1>1. calls[t] \in Seq(Frame)
  BY DEF Typed
<1> QED
  BY <1>1, StackOps DEF Top

LEMMA ReplaceStack ==
  ASSUME Typed, NEW t \in Threads, calls[t] # <<>>, NEW e \in Frame,
         calls' = [calls EXCEPT ![t] = Append(Front(@), e)]
  PROVE  Stacked(t, e)
<1> DEFINE s == Append(Front(calls[t]), e)
<1>1. calls[t] \in Seq(Frame)
  BY TopCall
<1>2. /\ s \in Seq(Frame) /\ DOMAIN s = DOMAIN calls[t]
      /\ \A i \in DOMAIN calls[t] : s[i] = IF i = Len(calls[t]) THEN e ELSE calls[t][i]
  BY <1>1, ReplaceTop
<1>3. calls' = [calls EXCEPT ![t] = s]
  OBVIOUS
<1> HIDE DEF s
<1> QED
  BY <1>2, <1>3 DEF Stacked, Typed

LEMMA PopStack ==
  ASSUME Typed, NEW t \in Threads, calls' = [calls EXCEPT ![t] = Front(@)], NEW e
  PROVE  Stacked(t, e)
<1> DEFINE s == Front(calls[t])
<1>1. calls[t] \in Seq(Frame)
  BY DEF Typed
<1>2. s \in Seq(Frame) /\ \A i \in DOMAIN s : i \in DOMAIN calls[t] /\ s[i] = calls[t][i]
  <2>1. CASE calls[t] # <<>>
    <3>1. /\ s \in Seq(Frame) /\ Len(s) = Len(calls[t]) - 1
          /\ \A i \in 1..(Len(calls[t]) - 1) : s[i] = calls[t][i]
      BY <1>1, <2>1, StackOps
    <3>2. DOMAIN calls[t] = 1..Len(calls[t]) /\ Len(calls[t]) \in Nat
      BY <1>1
    <3> HIDE DEF s
    <3>3. DOMAIN s = 1..(Len(calls[t]) - 1)
      BY <3>1
    <3> QED
      BY <3>1, <3>2, <3>3
  <2>2. CASE calls[t] = <<>>
    <3>1. Len(calls[t]) = 0
      BY <2>2
    <3>2. SubSeq(calls[t], 1, Len(calls[t]) - 1) = calls[t]
      BY <2>2, <3>1, SubSeqEmpty
    <3>3. s = calls[t]
      BY <3>2 DEF Front
    <3> QED
      BY <1>1, <3>3
  <2> QED
    BY <2>1, <2>2
<1>3. calls' = [calls EXCEPT ![t] = s]
  OBVIOUS
<1> HIDE DEF s
<1> QED
  BY <1>2, <1>3 DEF Stacked, Typed

LEMMA EnterStack ==
  ASSUME Typed, NEW t \in Threads, NEW asked \in Levels, NEW own \in BOOLEAN,
         NEW limit \in kTrace..kFatal, Enter(t, asked, own, limit)
  PROVE  \E e \in Frame : /\ Stacked(t, e) /\ calls'[t] # <<>>
                          /\ e.own = own /\ e.limit = limit /\ e.pc = "format"
<1> DEFINE e == [id |-> started + 1, asked |-> asked, own |-> own, limit |-> limit,
                 level |-> asked, undisturbed |-> TRUE, pc |-> "format"]
           below == [i \in DOMAIN calls[t] |-> [calls[t][i] EXCEPT !.undisturbed = FALSE]]
           s == Append(below, e)
<1>1. calls[t] \in Seq(Frame) /\ started \in Nat
  BY DEF Typed
<1>2. e \in Frame /\ e.own = own /\ e.limit = limit /\ e.pc = "format"
  BY <1>1, ConstantsAssumption DEF Frame
<1>3. ASSUME NEW i \in DOMAIN calls[t]
      PROVE  below[i] \in Frame /\ below[i] = [calls[t][i] EXCEPT !.undisturbed = FALSE]
  <2>1. calls[t][i] \in Frame /\ below[i] = [calls[t][i] EXCEPT !.undisturbed = FALSE]
    BY <1>1
  <2> QED
    BY <2>1 DEF Frame
<1>4. below \in Seq(Frame) /\ Len(below) = Len(calls[t])
  <2>1. DOMAIN calls[t] = 1..Len(calls[t]) /\ Len(calls[t]) \in Nat
    BY <1>1
  <2>2. below \in [1..Len(calls[t]) -> Frame]
    BY <2>1, <1>3, Zenon
  <2> QED
    BY <2>1, <2>2, LenProperties
<1>5. calls' = [calls EXCEPT ![t] = s]
  BY DEF Enter
<1> HIDE DEF e, below
<1>6. s \in Seq(Frame) /\ Len(s) = Len(calls[t]) + 1 /\ DOMAIN calls[t] = 1..Len(calls[t])
  BY <1>1, <1>2, <1>4
<1>7. ASSUME NEW i \in DOMAIN s
      PROVE  \/ i \in DOMAIN calls[t] /\ s[i] = [calls[t][i] EXCEPT !.undisturbed = FALSE]
             \/ s[i] = e
  <2>1. CASE i = Len(below) + 1
    BY <2>1, <1>4
  <2>2. CASE i # Len(below) + 1
    <3>1. i \in DOMAIN calls[t] /\ s[i] = below[i]
      BY <2>2, <1>1, <1>4
    <3> QED
      BY <3>1, <1>3
  <2> QED
    BY <2>1, <2>2
<1>8. s # <<>>
  <2>1. Len(s) # 0
    BY <1>1, <1>6
  <2> QED
    BY <2>1
<1> HIDE DEF s
<1>9. calls'[t] = s /\ (\A u \in Threads \ {t} : calls'[u] = calls[u]) /\ calls' \in [Threads -> Seq(Frame)]
  BY <1>5, <1>6 DEF Typed
<1>10. Stacked(t, e)
  BY <1>7, <1>9 DEF Stacked
<1> QED
  BY <1>2, <1>8, <1>9, <1>10

-----------------------------------------------------------------------------
(***************************************************************************)
(* What happens to a call between its start and its end.                   *)
(***************************************************************************)
Queued(q, call) == \E i \in DOMAIN q : q[i] = [id |-> call.id, level |-> call.level]

\* A call in progress on a thread whose Log has that level, when q has been
\* accepted: the Log of a call of the static functions stays at a level that
\* passes, the Log of the program's own keeps the level of its call, what comes
\* to the console has been accepted for the file, and an assertion does not end.
Good(level, q, call) ==
  /\ ~call.own => call.limit = Threshold /\ Threshold <= level
  /\ call.own /\ call.pc # "format" => call.level = call.asked
  /\ FileLogging /\ \/ call.pc \in {"console", "fflush", "fatal"}
                    \/ call.pc = "end" /\ ~call.own
       => Queued(q, call)
  /\ call.own /\ call.pc = "end" => call.asked # kFatal

CallsGood == \A t \in Threads : \A i \in DOMAIN calls[t] : Good(t_level[t], queue, calls[t][i])

StopInv == StoppedByFatal /\ (aborted => m_done) /\ (m_done => FileLogging)

EndedInv == PassedIsAccepted /\ AssertionThrows

FrontInv == TypeOK /\ CallsGood /\ StopInv /\ EndedInv

-----------------------------------------------------------------------------
\* Every step keeps the types of the calls in progress.
LEMMA TypedStep ==
  ASSUME LevelInv, [Next]_vars
  PROVE  Typed'
BY LevelStep DEF LevelInv

OutTyped ==
  /\ queue \in Seq([id : Nat, level : kTrace..kFatal])
  /\ stdoutBuf \in Seq(Nat) /\ device \in Seq(Nat) /\ printed \subseteq Nat
  /\ flushing \subseteq Threads
  /\ m_done \in BOOLEAN /\ waited \in BOOLEAN /\ aborted \in BOOLEAN

ThrownTyped ==
  /\ thrown \in [Threads -> BOOLEAN]
  /\ \A t \in Threads : thrown[t] => calls[t] # <<>>

LEMMA TypeParts == TypeOK <=> Typed /\ OutTyped /\ ThrownTyped
BY Zenon DEF TypeOK, Typed, OutTyped, ThrownTyped

outVars == <<queue, stdoutBuf, device, printed, flushing, m_done, waited, aborted>>

LEMMA OutStep ==
  ASSUME TypeOK, [Next]_vars
  PROVE  OutTyped'
<1>1. ASSUME UNCHANGED outVars PROVE OutTyped'
  BY <1>1 DEF TypeOK, OutTyped, outVars
<1>2. CASE UNCHANGED vars
  BY <1>1, <1>2 DEF vars, callVars, consoleVars, outVars
<1>3. ASSUME NEW t \in Threads, NEW l \in Levels,
             CallStatic(t, l) \/ CallOwn(t, l) \/ CallCheck(t, l)
      PROVE  OutTyped'
  BY <1>1, <1>3 DEF CallStatic, CallOwn, CallCheck, consoleVars, outVars
<1>4. ASSUME NEW t \in Threads, FormatThrows(t) \/ LogIt(t) \/ Return(t) \/ Unwind(t)
      PROVE  OutTyped'
  BY <1>1, <1>4 DEF FormatThrows, LogIt, Return, Unwind, consoleVars, outVars
<1>5. ASSUME NEW t \in Threads, At(t, "file") \/ At(t, "console")
      PROVE  Top(t) \in Frame
  BY <1>5, TypeParts, TopCall DEF At
<1>6. ASSUME NEW t \in Threads, PushToFile(t) PROVE OutTyped'
  <2>1. [id |-> Top(t).id, level |-> Top(t).level] \in [id : Nat, level : kTrace..kFatal]
    BY <1>5, <1>6 DEF PushToFile, Frame
  <2>2. queue' \in Seq([id : Nat, level : kTrace..kFatal])
    <3> DEFINE m == [id |-> Top(t).id, level |-> Top(t).level]
               M == [id : Nat, level : kTrace..kFatal]
    <3>1. queue' = queue \/ queue' = Append(queue, m)
      BY <1>6 DEF PushToFile
    <3>2. queue \in Seq(M) /\ m \in M
      BY <2>1 DEF TypeOK
    <3> HIDE DEF m, M
    <3>3. queue' \in Seq(M)
      BY <3>1, <3>2
    <3> QED
      BY <3>3 DEF M
  <2>3. aborted' \in BOOLEAN
    BY <1>6 DEF PushToFile, TypeOK
  <2> QED
    BY <1>6, <2>2, <2>3 DEF PushToFile, TypeOK, OutTyped, consoleVars
<1>7. ASSUME NEW t \in Threads, WriteConsole(t) PROVE OutTyped'
  <2>1. Top(t).id \in Nat
    BY <1>5, <1>7 DEF WriteConsole, Frame
  <2>2. stdoutBuf' \in Seq(Nat) /\ printed' \subseteq Nat
    <3>1. stdoutBuf \in Seq(Nat) /\ stdoutBuf' = Append(stdoutBuf, Top(t).id)
          /\ printed \subseteq Nat /\ printed' = printed \cup {Top(t).id}
      BY <1>7 DEF WriteConsole, TypeOK
    <3>2. stdoutBuf' \in Seq(Nat)
      BY <2>1, <3>1, AppendProperties
    <3> QED
      BY <2>1, <3>1, <3>2
  <2> QED
    BY <1>7, <2>2 DEF WriteConsole, TypeOK, OutTyped
<1>8. ASSUME NEW t \in Threads, BeginFlush(t) PROVE OutTyped'
  BY <1>8 DEF BeginFlush, TypeOK, OutTyped
<1>9. ASSUME NEW t \in Threads, EndFlush(t) PROVE OutTyped'
  BY <1>9 DEF EndFlush, TypeOK, OutTyped
<1>10. ASSUME NEW t \in Threads, CheckFatal(t) PROVE OutTyped'
  <2>1. m_done' \in BOOLEAN
    BY <1>10, ConstantsAssumption DEF CheckFatal, TypeOK
  <2> QED
    BY <1>10, <2>1 DEF CheckFatal, TypeOK, OutTyped, consoleVars
<1>11. ASSUME NEW t \in Threads, WaitForDone(t) PROVE OutTyped'
  BY <1>11, ConstantsAssumption DEF WaitForDone, TypeOK, OutTyped, consoleVars
<1>12. CASE Next
  <2>1. PICK t \in Threads :
          \/ \E l \in Levels : CallStatic(t, l) \/ CallOwn(t, l) \/ CallCheck(t, l)
          \/ FormatThrows(t) \/ LogIt(t) \/ PushToFile(t)
          \/ WriteConsole(t) \/ BeginFlush(t) \/ EndFlush(t)
          \/ CheckFatal(t) \/ Return(t) \/ Unwind(t) \/ WaitForDone(t)
    BY <1>12, Zenon DEF Next
  <2> QED
    BY <2>1, <1>3, <1>4, <1>6, <1>7, <1>8, <1>9, <1>10, <1>11, Zenon
<1> QED
  BY <1>2, <1>12

\* A stack whose top is replaced is not empty.
LEMMA ReplacedNotEmpty ==
  ASSUME NEW S, NEW s \in Seq(S), s # <<>>, NEW e
  PROVE  Append(Front(s), e) # <<>>
<1> DEFINE T == S \cup {e}
<1>1. Front(s) \in Seq(T)
  <2>1. Front(s) \in Seq(S) /\ S \subseteq T
    BY StackOps
  <2> HIDE DEF T
  <2> QED
    BY <2>1
<1>2. e \in T
  OBVIOUS
<1> HIDE DEF T
<1> QED
  BY <1>1, <1>2, AppendProperties

LEMMA GoToThrown ==
  ASSUME TypeOK, NEW t \in Threads, calls[t] # <<>>, NEW e,
         calls' = [calls EXCEPT ![t] = Append(Front(@), e)], UNCHANGED thrown
  PROVE  ThrownTyped'
<1>1. calls[t] \in Seq(Frame)
  BY DEF TypeOK
<1>2. Append(Front(calls[t]), e) # <<>>
  BY <1>1, ReplacedNotEmpty
<1> QED
  BY <1>2 DEF TypeOK, ThrownTyped

LEMMA EnterThrown ==
  ASSUME TypeOK, NEW t \in Threads, NEW asked \in Levels, NEW own \in BOOLEAN,
         NEW limit \in kTrace..kFatal, Enter(t, asked, own, limit), UNCHANGED thrown
  PROVE  ThrownTyped'
<1>1. PICK e \in Frame : Stacked(t, e) /\ calls'[t] # <<>>
  BY TypeParts, EnterStack
<1> QED
  BY <1>1 DEF Stacked, TypeOK, ThrownTyped

LEMMA UnwindThrown ==
  ASSUME TypeOK, NEW t \in Threads, Unwind(t)
  PROVE  ThrownTyped'
<1>1. calls[t] \in Seq(Frame) /\ calls[t] # <<>>
  BY DEF TypeOK, Unwind
<1>2. calls' = [calls EXCEPT ![t] = Front(calls[t])] /\ Front(calls[t]) \in Seq(Frame)
      /\ Len(Front(calls[t])) = Len(calls[t]) - 1 /\ Len(calls[t]) \in Nat
  BY <1>1, StackOps DEF Unwind
<1>3. PICK caught \in {TRUE, Len(calls[t]) = 1} : thrown' = [thrown EXCEPT ![t] = ~caught]
  BY DEF Unwind
<1>4. caught \in BOOLEAN
  OBVIOUS
<1>5. thrown' \in [Threads -> BOOLEAN]
  BY <1>3, <1>4, Zenon DEF TypeOK
<1>6. ASSUME thrown'[t] PROVE calls'[t] # <<>>
  <2>1. Len(calls[t]) # 1
    BY <1>3, <1>6 DEF TypeOK
  <2>2. Len(Front(calls[t])) # 0
    BY <1>2, <2>1
  <2>3. calls'[t] = Front(calls[t])
    BY <1>2 DEF TypeOK
  <2> QED
    BY <2>2, <2>3
<1>7. \A u \in Threads \ {t} : thrown'[u] = thrown[u] /\ calls'[u] = calls[u]
  BY <1>2, <1>3 DEF TypeOK
<1> QED
  BY <1>5, <1>6, <1>7 DEF TypeOK, ThrownTyped

LEMMA ThrownStep ==
  ASSUME TypeOK, [Next]_vars
  PROVE  ThrownTyped'
<1>1. ASSUME UNCHANGED <<calls, thrown>> PROVE ThrownTyped'
  BY <1>1 DEF TypeOK, ThrownTyped
<1>2. CASE UNCHANGED vars
  BY <1>1, <1>2 DEF vars, callVars
<1>3. ASSUME NEW t \in Threads, NEW l \in Levels,
             CallStatic(t, l) \/ CallOwn(t, l) \/ CallCheck(t, l)
      PROVE  ThrownTyped'
  <2>1. \/ UNCHANGED <<calls, thrown>>
        \/ \E own \in BOOLEAN, limit \in {Threshold, OwnThreshold} :
             Enter(t, l, own, limit) /\ UNCHANGED thrown
    BY <1>3 DEF CallStatic, CallOwn, CallCheck
  <2> QED
    BY <1>1, <2>1, EnterThrown, ConstantsAssumption
<1>4. ASSUME NEW t \in Threads, FormatThrows(t) PROVE ThrownTyped'
  BY <1>4 DEF FormatThrows, At, TypeOK, ThrownTyped
<1>5. ASSUME NEW t \in Threads, LogIt(t) \/ PushToFile(t) \/ WriteConsole(t) \/ EndFlush(t)
      PROVE  ThrownTyped'
  <2>1. calls[t] # <<>> /\ UNCHANGED thrown
    BY <1>5 DEF LogIt, PushToFile, WriteConsole, EndFlush, At
  <2>2. UNCHANGED calls \/ \E e : calls' = [calls EXCEPT ![t] = Append(Front(@), e)]
    BY <1>5 DEF LogIt, PushToFile, WriteConsole, EndFlush, GoTo
  <2> QED
    BY <1>1, <2>1, <2>2, GoToThrown
<1>6. ASSUME NEW t \in Threads, CheckFatal(t) PROVE ThrownTyped'
  <2>1. CASE Stops(Top(t).level)
    BY <1>6, <2>1 DEF CheckFatal, At, TypeOK, ThrownTyped
  <2>2. CASE ~Stops(Top(t).level)
    BY <1>6, <2>2, GoToThrown DEF CheckFatal, At, GoTo
  <2> QED
    BY <2>1, <2>2
<1>7. ASSUME NEW t \in Threads, Return(t) PROVE ThrownTyped'
  BY <1>7 DEF Return, At, TypeOK, ThrownTyped
<1>8. ASSUME NEW t \in Threads, BeginFlush(t) \/ WaitForDone(t) PROVE ThrownTyped'
  BY <1>1, <1>8 DEF BeginFlush, WaitForDone, callVars
<1>9. CASE Next
  <2>1. PICK t \in Threads :
          \/ \E l \in Levels : CallStatic(t, l) \/ CallOwn(t, l) \/ CallCheck(t, l)
          \/ FormatThrows(t) \/ LogIt(t) \/ PushToFile(t)
          \/ WriteConsole(t) \/ BeginFlush(t) \/ EndFlush(t)
          \/ CheckFatal(t) \/ Return(t) \/ Unwind(t) \/ WaitForDone(t)
    BY <1>9, Zenon DEF Next
  <2> QED
    BY <2>1, <1>3, <1>4, <1>5, <1>6, <1>7, <1>8, UnwindThrown, Zenon
<1> QED
  BY <1>2, <1>9

\* Every variable keeps its type, and an exception is always inside a call.
THEOREM TypesKept == Spec => []TypeOK
<1>1. Init => LevelInv
  BY LevelInit
<1>2. LevelInv /\ [Next]_vars => LevelInv'
  BY LevelStep
<1>3. LevelInv => Typed
  BY DEF LevelInv
<1>4. Init => OutTyped /\ ThrownTyped
  <2>1. \A S : <<>> \in Seq(S)
    OBVIOUS
  <2>2. Init => OutTyped
    BY <2>1 DEF Init, OutTyped
  <2>3. Init => ThrownTyped
    BY DEF Init, ThrownTyped
  <2> QED
    BY <2>2, <2>3
<1>5. LevelInv /\ OutTyped /\ ThrownTyped /\ [Next]_vars => (OutTyped /\ ThrownTyped)'
  BY <1>3, TypeParts, OutStep, ThrownStep
<1>6. LevelInv /\ OutTyped /\ ThrownTyped => TypeOK
  BY <1>3, TypeParts
<1> QED
  BY <1>1, <1>2, <1>4, <1>5, <1>6, PTL DEF Spec

-----------------------------------------------------------------------------
\* What has been accepted stays where it is.
Grows(q, r) == \A i \in DOMAIN q : i \in DOMAIN r /\ r[i] = q[i]

LEMMA QueueGrows ==
  ASSUME TypeOK, [Next]_vars
  PROVE  Grows(queue, queue')
<1> DEFINE M == [id : Nat, level : kTrace..kFatal]
<1>1. queue \in Seq(M)
  BY DEF TypeOK
<1>2. ASSUME UNCHANGED queue PROVE Grows(queue, queue')
  BY <1>2 DEF Grows
<1>3. CASE UNCHANGED vars
  BY <1>2, <1>3 DEF vars
<1>4. ASSUME NEW t \in Threads, PushToFile(t) PROVE Grows(queue, queue')
  <2>1. queue' = queue \/ \E m : queue' = Append(queue, m)
    BY <1>4 DEF PushToFile
  <2> HIDE DEF M
  <2>2. ASSUME NEW m, queue' = Append(queue, m) PROVE Grows(queue, queue')
    BY <1>1, <2>2 DEF Grows
  <2> QED
    BY <1>2, <2>1, <2>2
<1>5. ASSUME NEW t \in Threads, NEW l \in Levels,
             CallStatic(t, l) \/ CallOwn(t, l) \/ CallCheck(t, l)
      PROVE  UNCHANGED queue
  BY <1>5 DEF CallStatic, CallOwn, CallCheck
<1>6. ASSUME NEW t \in Threads,
             \/ FormatThrows(t) \/ LogIt(t) \/ WriteConsole(t) \/ BeginFlush(t) \/ EndFlush(t)
             \/ CheckFatal(t) \/ Return(t) \/ Unwind(t) \/ WaitForDone(t)
      PROVE  UNCHANGED queue
  BY <1>6 DEF FormatThrows, LogIt, WriteConsole, BeginFlush, EndFlush, CheckFatal, Return,
              Unwind, WaitForDone
<1>7. CASE Next
  <2>1. PICK t \in Threads :
          \/ \E l \in Levels : CallStatic(t, l) \/ CallOwn(t, l) \/ CallCheck(t, l)
          \/ FormatThrows(t) \/ LogIt(t) \/ PushToFile(t)
          \/ WriteConsole(t) \/ BeginFlush(t) \/ EndFlush(t)
          \/ CheckFatal(t) \/ Return(t) \/ Unwind(t) \/ WaitForDone(t)
    BY <1>7, Zenon DEF Next
  <2> QED
    BY <2>1, <1>2, <1>4, <1>5, <1>6, Zenon
<1> QED
  BY <1>3, <1>7

LEMMA GoodStays ==
  ASSUME NEW level, NEW level2, NEW q, NEW r, NEW call \in Frame, NEW call2,
         Good(level, q, call), Grows(q, r), level2 = level \/ Threshold <= level2,
         call2 \in {call, [call EXCEPT !.undisturbed = FALSE]}
  PROVE  Good(level2, r, call2)
<1>1. /\ call2.id = call.id /\ call2.own = call.own /\ call2.pc = call.pc
      /\ call2.asked = call.asked /\ call2.limit = call.limit /\ call2.level = call.level
  BY DEF Frame
<1>2. Queued(q, call) => Queued(r, call2)
  BY <1>1 DEF Queued, Grows
<1> QED
  BY <1>1, <1>2 DEF Good

LEMMA CallsStep ==
  ASSUME TypeOK, CallsGood, Grows(queue, queue'), NEW t \in Threads, NEW e,
         Stacked(t, e), Good(t_level'[t], queue', e),
         \A u \in Threads \ {t} : t_level'[u] = t_level[u],
         t_level'[t] = t_level[t] \/ Threshold <= t_level'[t]
  PROVE  CallsGood'
<1> SUFFICES ASSUME NEW u \in Threads, NEW i \in DOMAIN calls'[u]
             PROVE  Good(t_level'[u], queue', calls'[u][i])
  BY DEF CallsGood
<1>1. CASE u = t /\ calls'[t][i] = e
  BY <1>1
<1>2. CASE ~(u = t /\ calls'[t][i] = e)
  <2>1. /\ i \in DOMAIN calls[u]
        /\ calls'[u][i] \in {calls[u][i], [calls[u][i] EXCEPT !.undisturbed = FALSE]}
    BY <1>2 DEF Stacked
  <2>2. t_level'[u] = t_level[u] \/ Threshold <= t_level'[u]
    OBVIOUS
  <2>3. calls[u][i] \in Frame
    <3>1. calls[u] \in Seq(Frame)
      BY DEF TypeOK
    <3> QED
      BY <2>1, <3>1
  <2>4. Good(t_level[u], queue, calls[u][i])
    BY <2>1 DEF CallsGood
  <2> QED
    BY <2>1, <2>2, <2>3, <2>4, GoodStays
<1> QED
  BY <1>1, <1>2

LEMMA NoCallStep ==
  ASSUME TypeOK, CallsGood, Grows(queue, queue'), UNCHANGED <<calls, t_level>>
  PROVE  CallsGood'
<1> SUFFICES ASSUME NEW u \in Threads, NEW i \in DOMAIN calls[u]
             PROVE  Good(t_level[u], queue', calls[u][i])
  BY DEF CallsGood
<1>1. calls[u][i] \in Frame
  <2>1. calls[u] \in Seq(Frame)
    BY DEF TypeOK
  <2> QED
    BY <2>1
<1> QED
  BY <1>1, GoodStays DEF CallsGood

\* The innermost call of a thread, at some point of its way.
LEMMA GoodTop ==
  ASSUME TypeOK, CallsGood, NEW t \in Threads, calls[t] # <<>>
  PROVE  Top(t) \in Frame /\ Good(t_level[t], queue, Top(t))
BY TypeParts, TopCall DEF CallsGood

\* It moves on: where it comes to must be good.
LEMMA GoStep ==
  ASSUME TypeOK, CallsGood, Grows(queue, queue'), NEW t \in Threads, calls[t] # <<>>,
         NEW p \in {"file", "console", "fflush", "fatal", "end"}, GoTo(t, p),
         UNCHANGED t_level, Good(t_level[t], queue', [Top(t) EXCEPT !.pc = p])
  PROVE  CallsGood'
<1>1. [Top(t) EXCEPT !.pc = p] \in Frame
  BY GoodTop DEF Frame
<1>2. Stacked(t, [Top(t) EXCEPT !.pc = p])
  BY <1>1, TypeParts, ReplaceStack DEF GoTo
<1> QED
  BY <1>2, CallsStep

LEMMA LogItGood ==
  ASSUME TypeOK, CallsGood, NEW t \in Threads, LogIt(t)
  PROVE  CallsGood'
<1> DEFINE level == Recorded(t)
           p == IF Filtered(Top(t), level) THEN "end" ELSE "file"
           e == [Top(t) EXCEPT !.level = level, !.pc = p]
<1>1. calls[t] # <<>> /\ Top(t).pc = "format" /\ UNCHANGED <<t_level, queue>>
      /\ calls' = [calls EXCEPT ![t] = Append(Front(@), e)]
  BY DEF LogIt, At
<1>2. Top(t) \in Frame /\ Good(t_level[t], queue, Top(t)) /\ t_level[t] \in kTrace..kFatal
  BY <1>1, GoodTop DEF TypeOK
<1>3. /\ level \in kTrace..kFatal
      /\ Top(t).own => level = Top(t).asked
      /\ ~Top(t).own => level = t_level[t]
  BY <1>2, ConstantsAssumption DEF Recorded, Frame
<1>4. p = "end" => level < Top(t).limit
  BY DEF Filtered
<1>5. p \in {"end", "file"}
  OBVIOUS
<1> HIDE DEF level, p
<1>6. /\ e \in Frame /\ e.pc = p /\ e.level = level /\ e.asked = Top(t).asked
      /\ e.own = Top(t).own /\ e.limit = Top(t).limit
  BY <1>2, <1>3, <1>5 DEF Frame
<1>7. e.limit \in 0..5 /\ level \in 0..5 /\ t_level[t] \in 0..5 /\ Threshold \in 0..5
  BY <1>2, <1>3, <1>6, ConstantsAssumption DEF Frame, kTrace, kFatal
<1> HIDE DEF e
<1>8. ~e.own => e.limit = Threshold /\ Threshold <= t_level[t] /\ level = t_level[t]
  BY <1>2, <1>3, <1>6 DEF Good
<1>9. ~e.own => e.pc # "end"
  BY <1>4, <1>6, <1>7, <1>8
<1>10. e.own /\ e.pc = "end" => e.asked # kFatal
  BY <1>3, <1>4, <1>6, <1>7 DEF kFatal
<1>11. Good(t_level[t], queue, e)
  BY <1>3, <1>5, <1>6, <1>8, <1>9, <1>10 DEF Good
<1>12. Stacked(t, e) /\ Grows(queue, queue')
  BY <1>1, <1>6, TypeParts, ReplaceStack DEF Grows
<1> QED
  BY <1>1, <1>11, <1>12, CallsStep

LEMMA PushGood ==
  ASSUME TypeOK, CallsGood, Grows(queue, queue'), NEW t \in Threads, PushToFile(t)
  PROVE  CallsGood'
<1> DEFINE p == IF Console THEN "console" ELSE "fatal"
           e == [Top(t) EXCEPT !.pc = p]
           m == [id |-> Top(t).id, level |-> Top(t).level]
<1>1. calls[t] # <<>> /\ Top(t).pc = "file" /\ UNCHANGED t_level
  BY DEF PushToFile, At
<1>2. Top(t) \in Frame /\ Good(t_level[t], queue, Top(t))
  BY <1>1, GoodTop
<1>3. CASE UNCHANGED calls
  BY <1>1, <1>3, NoCallStep
<1>4. CASE /\ GoTo(t, p)
           /\ FileLogging => queue' = Append(queue, m)
  <2>1. /\ p \in {"console", "fatal"} /\ e.pc = p /\ e.id = Top(t).id /\ e.level = Top(t).level
        /\ e.own = Top(t).own /\ e.limit = Top(t).limit /\ e.asked = Top(t).asked
    BY <1>2 DEF Frame
  <2>2. FileLogging => Queued(queue', e)
    <3>1. m = [id |-> e.id, level |-> e.level]
      BY <2>1
    <3> HIDE DEF m, e
    <3>2. queue \in Seq([id : Nat, level : kTrace..kFatal])
      BY DEF TypeOK
    <3>3. ASSUME FileLogging
          PROVE  Len(queue) + 1 \in DOMAIN queue' /\ queue'[Len(queue) + 1] = m
      BY <1>4, <3>2, <3>3
    <3> QED
      BY <3>1, <3>3 DEF Queued
  <2> HIDE DEF p
  <2>3. Good(t_level[t], queue', e)
    BY <1>1, <1>2, <2>1, <2>2 DEF Good
  <2> QED
    BY <1>1, <1>4, <2>1, <2>3, GoStep
<1> QED
  BY <1>3, <1>4 DEF PushToFile

LEMMA CallsGoodStep ==
  ASSUME TypeOK, CallsGood, [Next]_vars
  PROVE  CallsGood'
<1>1. Grows(queue, queue')
  BY QueueGrows
<1>2. CASE UNCHANGED vars
  BY <1>1, <1>2, NoCallStep DEF vars, callVars
<1>3. ASSUME NEW t \in Threads, NEW l \in Levels, CallStatic(t, l)
      PROVE  CallsGood'
  <2>1. /\ t_level' = [u \in Threads |-> IF u = t THEN LevelSet(t, l) ELSE t_level[u]]
        /\ t_level \in [Threads -> kTrace..kFatal]
    BY <1>3 DEF CallStatic, Instances, TypeOK
  <2>2. CASE ShouldLog(l)
    <3>1. /\ t_level'[t] = l /\ Threshold <= t_level'[t] /\ Enter(t, l, FALSE, Threshold)
          /\ \A u \in Threads \ {t} : t_level'[u] = t_level[u]
      BY <1>3, <2>1, <2>2 DEF CallStatic, LevelSet, ShouldLog
    <3>2. PICK e \in Frame : Stacked(t, e) /\ e.own = FALSE /\ e.limit = Threshold /\ e.pc = "format"
      <4>1. FALSE \in BOOLEAN /\ Threshold \in kTrace..kFatal /\ Typed
        BY TypeParts, ConstantsAssumption
      <4>2. \A own \in BOOLEAN : Enter(t, l, own, Threshold) =>
              \E e \in Frame : Stacked(t, e) /\ e.own = own /\ e.limit = Threshold /\ e.pc = "format"
        BY <4>1, EnterStack
      <4> QED
        BY <3>1, <4>1, <4>2
    <3>3. Good(t_level'[t], queue', e)
      BY <3>1, <3>2 DEF Good
    <3> QED
      BY <1>1, <3>1, <3>2, <3>3, CallsStep
  <2>3. CASE ~ShouldLog(l)
    <3>1. t_level' = t_level /\ UNCHANGED calls
      BY <1>3, <2>1, <2>3 DEF CallStatic, LevelSet
    <3> QED
      BY <1>1, <3>1, NoCallStep
  <2> QED
    BY <2>2, <2>3
<1>4. ASSUME NEW t \in Threads, NEW l \in Levels, CallOwn(t, l) \/ CallCheck(t, l)
      PROVE  CallsGood'
  <2>1. PICK limit \in {Threshold, OwnThreshold} : Enter(t, l, TRUE, limit) /\ UNCHANGED t_level
    BY <1>4 DEF CallOwn, CallCheck
  <2>2. PICK e \in Frame : Stacked(t, e) /\ e.own = TRUE /\ e.pc = "format"
    BY <2>1, EnterStack, TypeParts, ConstantsAssumption
  <2>3. Good(t_level'[t], queue', e)
    BY <2>2 DEF Good
  <2> QED
    BY <1>1, <2>1, <2>2, <2>3, CallsStep
<1>5. ASSUME NEW t \in Threads, FormatThrows(t) \/ BeginFlush(t) \/ WaitForDone(t)
      PROVE  CallsGood'
  BY <1>1, <1>5, NoCallStep DEF FormatThrows, BeginFlush, WaitForDone, callVars
<1>6. ASSUME NEW t \in Threads, NEW p \in {"fflush", "fatal"}, GoTo(t, p),
             At(t, "console") \/ At(t, "fflush"), UNCHANGED <<t_level, queue>>
      PROVE  CallsGood'
  <2>1. calls[t] # <<>> /\ Top(t).pc \in {"console", "fflush"}
    BY <1>6 DEF At
  <2>2. Top(t) \in Frame /\ Good(t_level[t], queue, Top(t))
    BY <2>1, GoodTop
  <2> DEFINE e == [Top(t) EXCEPT !.pc = p]
  <2>3. /\ e.pc = p /\ e.id = Top(t).id /\ e.level = Top(t).level
        /\ e.own = Top(t).own /\ e.limit = Top(t).limit /\ e.asked = Top(t).asked
    BY <2>2 DEF Frame
  <2>4. Good(t_level[t], queue', e)
    BY <1>6, <2>1, <2>2, <2>3 DEF Good, Queued
  <2> QED
    BY <1>1, <1>6, <2>1, <2>4, GoStep
<1>7. ASSUME NEW t \in Threads, WriteConsole(t) \/ EndFlush(t)
      PROVE  CallsGood'
  BY <1>6, <1>7 DEF WriteConsole, EndFlush
<1>8. ASSUME NEW t \in Threads, CheckFatal(t)
      PROVE  CallsGood'
  <2>1. calls[t] # <<>> /\ Top(t).pc = "fatal" /\ UNCHANGED <<t_level, queue>>
    BY <1>8 DEF CheckFatal, At
  <2>2. Top(t) \in Frame /\ Good(t_level[t], queue, Top(t))
    BY <2>1, GoodTop
  <2>3. CASE UNCHANGED calls
    BY <1>1, <2>1, <2>3, NoCallStep
  <2>4. CASE ~Stops(Top(t).level) /\ GoTo(t, "end")
    <3> DEFINE e == [Top(t) EXCEPT !.pc = "end"]
    <3>1. /\ e.pc = "end" /\ e.id = Top(t).id /\ e.level = Top(t).level
          /\ e.own = Top(t).own /\ e.limit = Top(t).limit /\ e.asked = Top(t).asked
      BY <2>2 DEF Frame
    <3>2. Good(t_level[t], queue', e)
      BY <2>1, <2>2, <2>4, <3>1 DEF Good, Queued, Stops
    <3> QED
      BY <1>1, <2>1, <2>4, <3>2, GoStep
  <2> QED
    BY <1>8, <2>3, <2>4 DEF CheckFatal
<1>9. ASSUME NEW t \in Threads, Return(t) \/ Unwind(t)
      PROVE  CallsGood'
  <2>1. calls[t] # <<>> /\ UNCHANGED <<t_level, queue>>
        /\ calls' = [calls EXCEPT ![t] = Front(@)]
    BY <1>9 DEF Return, Unwind, At, TypeOK
  <2>2. Good(t_level[t], queue, Top(t))
    BY <2>1, GoodTop
  <2>3. Stacked(t, Top(t))
    BY <2>1, PopStack, TypeParts
  <2> QED
    BY <1>1, <2>1, <2>2, <2>3, CallsStep
<1>10. CASE Next
  <2>1. PICK t \in Threads :
          \/ \E l \in Levels : CallStatic(t, l) \/ CallOwn(t, l) \/ CallCheck(t, l)
          \/ FormatThrows(t) \/ LogIt(t) \/ PushToFile(t)
          \/ WriteConsole(t) \/ BeginFlush(t) \/ EndFlush(t)
          \/ CheckFatal(t) \/ Return(t) \/ Unwind(t) \/ WaitForDone(t)
    BY <1>10, Zenon DEF Next
  <2> QED
    BY <2>1, <1>1, <1>3, <1>4, <1>5, <1>7, <1>8, <1>9, LogItGood, PushGood, Zenon
<1> QED
  BY <1>2, <1>10

-----------------------------------------------------------------------------
\* What StopInv and EndedInv speak about.
endVars == <<ended, m_done, waited, aborted>>

LEMMA EndsStep ==
  ASSUME TypeOK, CallsGood, StopInv, EndedInv, [Next]_vars
  PROVE  StopInv' /\ EndedInv'
<1>1. Grows(queue, queue')
  BY QueueGrows
<1>2. (\E i \in DOMAIN queue : queue[i].level = kFatal)
       => (\E i \in DOMAIN queue' : queue'[i].level = kFatal)
  BY <1>1 DEF Grows
<1>3. \A call : (\E i \in DOMAIN queue : queue[i].id = call.id)
                => (\E i \in DOMAIN queue' : queue'[i].id = call.id)
  BY <1>1 DEF Grows
<1>4. ASSUME UNCHANGED ended PROVE EndedInv'
  BY <1>3, <1>4 DEF EndedInv, PassedIsAccepted, AssertionThrows
<1>5. ASSUME UNCHANGED <<m_done, waited, aborted>> PROVE StopInv'
  BY <1>2, <1>5 DEF StopInv, StoppedByFatal
<1>6. CASE UNCHANGED vars
  BY <1>4, <1>5, <1>6 DEF vars, callVars
<1>7. ASSUME NEW t \in Threads, NEW l \in Levels,
             CallStatic(t, l) \/ CallOwn(t, l) \/ CallCheck(t, l)
      PROVE  StopInv' /\ EndedInv'
  <2>1. UNCHANGED endVars
    BY <1>7 DEF CallStatic, CallOwn, CallCheck, Enter, endVars
  <2> QED
    BY <1>4, <1>5, <2>1 DEF endVars
<1>8. ASSUME NEW t \in Threads,
             \/ FormatThrows(t) \/ LogIt(t) \/ WriteConsole(t) \/ BeginFlush(t)
             \/ EndFlush(t) \/ Unwind(t)
      PROVE  StopInv' /\ EndedInv'
  <2>1. UNCHANGED endVars
    BY <1>8 DEF FormatThrows, LogIt, WriteConsole, BeginFlush, EndFlush, Unwind, callVars, endVars
  <2> QED
    BY <1>4, <1>5, <2>1 DEF endVars
<1>9. ASSUME NEW t \in Threads, PushToFile(t) PROVE StopInv' /\ EndedInv'
  <2>1. UNCHANGED <<ended, m_done, waited>> /\ (aborted' = aborted \/ m_done)
    BY <1>9 DEF PushToFile
  <2>2. (m_done' \/ aborted') => (m_done \/ aborted)
    BY <2>1 DEF StopInv
  <2>3. StopInv'
    BY <1>2, <2>1, <2>2 DEF StopInv, StoppedByFatal
  <2> QED
    BY <1>4, <2>1, <2>3
<1>10. ASSUME NEW t \in Threads, CheckFatal(t) PROVE StopInv' /\ EndedInv'
  <2>1. UNCHANGED <<ended, waited, aborted, queue>> /\ calls[t] # <<>> /\ Top(t).pc = "fatal"
    BY <1>10 DEF CheckFatal, At
  <2>2. CASE UNCHANGED m_done
    BY <1>4, <1>5, <2>1, <2>2
  <2>3. CASE Top(t).level = kFatal /\ m_done' = (m_done \/ FileLogging)
    <3>1. FileLogging => Queued(queue, Top(t))
      BY <2>1, GoodTop DEF Good
    <3>2. FileLogging => \E i \in DOMAIN queue : queue[i].level = kFatal
      BY <2>3, <3>1 DEF Queued
    <3>3. StopInv'
      BY <2>1, <2>3, <3>2, ConstantsAssumption DEF StopInv, StoppedByFatal, TypeOK
    <3> QED
      BY <1>4, <2>1, <3>3
  <2> QED
    BY <1>10, <2>2, <2>3 DEF CheckFatal, Stops
<1>11. ASSUME NEW t \in Threads, WaitForDone(t) PROVE StopInv' /\ EndedInv'
  <2>1. UNCHANGED <<ended, aborted>> /\ waited' = TRUE /\ m_done' = FileLogging /\ ~aborted
    BY <1>11 DEF WaitForDone, InProgram, callVars
  <2>2. StopInv'
    BY <2>1 DEF StopInv, StoppedByFatal
  <2> QED
    BY <1>4, <2>1, <2>2
<1>12. ASSUME NEW t \in Threads, Return(t) PROVE StopInv' /\ EndedInv'
  <2>1. /\ UNCHANGED <<m_done, waited, aborted, queue>> /\ ended' = ended \cup {Top(t)}
        /\ calls[t] # <<>> /\ Top(t).pc = "end"
    BY <1>12 DEF Return, At
  <2>2. Good(t_level[t], queue, Top(t))
    BY <2>1, GoodTop
  <2>3. FileLogging /\ ~Top(t).own => \E i \in DOMAIN queue : queue[i].id = Top(t).id
    BY <2>1, <2>2 DEF Good, Queued
  <2>4. Top(t).own => Top(t).asked # kFatal
    BY <2>1, <2>2 DEF Good
  <2>5. PassedIsAccepted'
    BY <2>1, <2>3 DEF EndedInv, PassedIsAccepted
  <2>6. AssertionThrows'
    BY <2>1, <2>4 DEF EndedInv, AssertionThrows
  <2> QED
    BY <1>5, <2>1, <2>5, <2>6 DEF EndedInv
<1>13. CASE Next
  <2>1. PICK t \in Threads :
          \/ \E l \in Levels : CallStatic(t, l) \/ CallOwn(t, l) \/ CallCheck(t, l)
          \/ FormatThrows(t) \/ LogIt(t) \/ PushToFile(t)
          \/ WriteConsole(t) \/ BeginFlush(t) \/ EndFlush(t)
          \/ CheckFatal(t) \/ Return(t) \/ Unwind(t) \/ WaitForDone(t)
    BY <1>13, Zenon DEF Next
  <2> QED
    BY <2>1, <1>7, <1>8, <1>9, <1>10, <1>11, <1>12, Zenon
<1> QED
  BY <1>6, <1>13

LEMMA FrontStays == Spec => []FrontInv
<1>1. Init => CallsGood
  BY DEF Init, CallsGood
<1>2. Init => StopInv /\ EndedInv
  BY DEF Init, StopInv, StoppedByFatal, EndedInv, PassedIsAccepted, AssertionThrows
<1>3. TypeOK /\ CallsGood /\ StopInv /\ EndedInv /\ [Next]_vars
       => (CallsGood /\ StopInv /\ EndedInv)'
  BY CallsGoodStep, EndsStep
<1>4. TypeOK /\ CallsGood /\ StopInv /\ EndedInv => FrontInv
  BY DEF FrontInv
<1> QED
  BY <1>1, <1>2, <1>3, <1>4, TypesKept, PTL DEF Spec

\* A message of the static functions that passed the threshold when it was
\* logged is accepted for the file before its call returns: the level in the
\* thread's Log may change while the message is formatted, but never to one that
\* would filter it out.
THEOREM PassedAccepted == Spec => []PassedIsAccepted
<1>1. FrontInv => PassedIsAccepted
  BY DEF FrontInv, EndedInv
<1> QED
  BY <1>1, FrontStays, PTL

\* No thread finds the back end stopped, or fails its assertion, unless a fatal
\* message has been accepted before, or the program called WaitForDone.
THEOREM FatalStops == Spec => []StoppedByFatal
<1>1. FrontInv => StoppedByFatal
  BY DEF FrontInv, StopInv
<1> QED
  BY <1>1, FrontStays, PTL

\* The call of an assertion that fails does not return: it ends in an exception.
THEOREM AssertionsThrow == Spec => []AssertionThrows
<1>1. FrontInv => AssertionThrows
  BY DEF FrontInv, EndedInv
<1> QED
  BY <1>1, FrontStays, PTL

=============================================================================
