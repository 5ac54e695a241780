-------------------------- MODULE GlobalConfigProofs --------------------------
(***************************************************************************)
(* The configuration for every megabyte, every int that holds 128 of them, *)
(* every length of the arrays, every set of files and any number of calls: *)
(* its types, the range of a roll size that came from a file, what a load  *)
(* that fails leaves alone, and what a saved file brings back.  None of it *)
(* is inductive: a file that was saved may be loaded, so what it asks for  *)
(* is part of the invariant.                                               *)
(***************************************************************************)
EXTENDS GlobalConfig, SequenceTheorems, FiniteSetTheorems, TLAPS

USE DEF Null, Array, Literal

\* The invariant: sizes are integers, in the configuration and in the file it
\* was saved to.
SizesInt ==
  /\ "log_rollSize" \in DOMAIN config
  /\ config.log_rollSize \in Int
  /\ \A s \in saved : s.file.roll_size \in Int

SizeInv == SizesInt /\ RollSizeInRange

\* Whatever is stored in an int is an integer.
LEMMA AsIntType ==
  ASSUME NEW n \in Int
  PROVE  AsInt(n) \in Int
<1>1. IntMax \in Nat
  BY ConstantsAssumption
<1> DEFINE w == 2 * (IntMax + 1)
<1>2. (n + IntMax + 1) % w \in 0..(w - 1)
  BY <1>1
<1> QED
  BY <1>1, <1>2 DEF AsInt

\* A product with a whole number of bytes is an integer.
LEMMA TimesInt ==
  ASSUME NEW n \in Int
  PROVE  n * MB \in Int
BY ConstantsAssumption

\* What fits an int is not changed by storing it in one.
LEMMA AsIntFits ==
  ASSUME NEW n \in 0..IntMax
  PROVE  AsInt(n) = n
BY ConstantsAssumption DEF AsInt

\* No more than 128 of anything is no more than 128 megabytes of it.
LEMMA Times ==
  ASSUME NEW n \in 0..128
  PROVE  n * MB \in 0..(128 * MB)
<1>1. MB \in Nat
  BY ConstantsAssumption
<1> QED
  BY <1>1

\* A load stores an integer.
LEMMA RollSizeType ==
  ASSUME NEW f, f.roll_size \in Int
  PROVE  RollSize(f) \in Int
<1> DEFINE n == IF f.roll_size > 128 THEN 4 ELSE f.roll_size
<1>1. n \in Int
  OBVIOUS
<1>2. n * MB \in Int
  BY <1>1, TimesInt
<1>3. RollSize(f) = AsInt(n * MB)
  BY DEF RollSize
<1> QED
  BY <1>2, <1>3, AsIntType

\* A load stores at most 128 MB, whatever number the file asks for, unless it
\* is below zero.
LEMMA RollSizeBounded ==
  ASSUME NEW f, f.roll_size \in Int, f.roll_size >= 0
  PROVE  RollSize(f) \in 0..(128 * MB)
<1> DEFINE n == IF f.roll_size > 128 THEN 4 ELSE f.roll_size
<1>1. n \in 0..128
  OBVIOUS
<1>2. n * MB \in 0..(128 * MB)
  BY <1>1, Times
<1>3. n * MB \in 0..IntMax
  BY <1>2, ConstantsAssumption
<1>4. AsInt(n * MB) = n * MB
  BY <1>3, AsIntFits
<1> QED
  BY <1>2, <1>4 DEF RollSize

\* Every file that can be loaded asks for an integer number of megabytes.
LEMMA FilesInt ==
  ASSUME SizesInt, NEW f \in Files \cup SavedFiles
  PROVE  f.roll_size \in Int
BY ConstantsAssumption DEF SizesInt, SavedFiles

LEMMA InitSizes == Init => SizeInv
<1> SUFFICES ASSUME Init PROVE SizeInv
  OBVIOUS
<1>1. 20 * MB \in Int
  BY ConstantsAssumption
<1> QED
  BY <1>1 DEF Init, SizeInv, SizesInt, RollSizeInRange

\* A setter other than setRollSize does not touch the size; setRollSize gets
\* one from RollSizes; after either no file's size is in effect.
LEMMA SetSize ==
  ASSUME SizeInv, NEW field, NEW value, Set(field, value),
         field = "log_rollSize" => value \in Int
  PROVE  SizeInv'
BY DEF SizeInv, SizesInt, RollSizeInRange, Set

LEMMA SettersSizes == SizeInv /\ Setters => SizeInv'
<1> SUFFICES ASSUME SizeInv, Setters PROVE SizeInv'
  OBVIOUS
<1>1. ASSUME NEW n \in RollSizes, Set("log_rollSize", n) PROVE SizeInv'
  <2>1. n \in Int
    BY <1>1, ConstantsAssumption
  <2> QED
    BY <1>1, <2>1, SetSize
<1>2. ASSUME NEW field \in {"log_flushInterval", "log_console", "log_level", "log_flag",
                            "log_filepath", "log_name"},
             NEW value, Set(field, value)
      PROVE  SizeInv'
  <2>1. field # "log_rollSize"
    OBVIOUS
  <2> QED
    BY <1>2, <2>1, SetSize
<1>3. ASSUME NEW style, NEW format, SetFormatter(style, format) PROVE SizeInv'
  BY <1>3 DEF SizeInv, SizesInt, RollSizeInRange, SetFormatter
<1> QED
  BY <1>1, <1>2, <1>3 DEF Setters

\* A load that fails changes at most the path.
LEMMA FailedLoadSizes ==
  ASSUME SizeInv, NEW f, LoadFails(f)
  PROVE  SizeInv'
<1>1. config' = config \/ config' = AfterPath(f)
  BY DEF LoadFails
<1>2. config'.log_rollSize = config.log_rollSize /\ "log_rollSize" \in DOMAIN config'
  BY <1>1 DEF AfterPath, SizeInv, SizesInt
<1>3. UNCHANGED <<saved, asked>>
  BY DEF LoadFails
<1> QED
  BY <1>2, <1>3 DEF SizeInv, SizesInt, RollSizeInRange

LEMMA LoadSizes ==
  ASSUME SizeInv, NEW f \in Files \cup SavedFiles, LoadSucceeds(f)
  PROVE  SizeInv'
<1>1. f.roll_size \in Int
  BY FilesInt DEF SizeInv
<1>2. config' = Loaded(f) /\ saved' = saved /\ asked' = {f.roll_size}
  BY DEF LoadSucceeds
<1>3. config'.log_rollSize = RollSize(f) /\ "log_rollSize" \in DOMAIN config'
  BY <1>2 DEF Loaded
<1>4. f.roll_size >= 0 => RollSize(f) \in 0..(128 * MB)
  BY <1>1, RollSizeBounded
<1>5. RollSize(f) \in Int
  BY <1>1, RollSizeType
<1> QED
  BY <1>2, <1>3, <1>4, <1>5 DEF SizeInv, SizesInt, RollSizeInRange

LEMMA SaveSizes == SizeInv /\ loadToJSON => SizeInv'
<1> SUFFICES ASSUME SizeInv, loadToJSON PROVE SizeInv'
  OBVIOUS
<1>1. Megabytes(config.log_rollSize) \in Int
  BY ConstantsAssumption DEF Megabytes, SizeInv, SizesInt
<1>2. Written.roll_size \in Int
  BY <1>1 DEF Written
<1>3. ASSUME NEW s \in saved' PROVE s.file.roll_size \in Int
  <2>1. CASE s \in saved
    BY <2>1 DEF SizeInv, SizesInt
  <2>2. CASE s = [file |-> Written, from |-> Settings, asked |-> asked]
    BY <2>2, <1>2
  <2> QED
    BY <1>3, <2>1, <2>2 DEF loadToJSON
<1>4. UNCHANGED <<config, asked>>
  BY DEF loadToJSON
<1> QED
  BY <1>3, <1>4 DEF SizeInv, SizesInt, RollSizeInRange

LEMMA StepSizes == SizeInv /\ [Next]_vars => SizeInv'
<1> SUFFICES ASSUME SizeInv, [Next]_vars PROVE SizeInv'
  OBVIOUS
<1>1. CASE Setters
  BY <1>1, SettersSizes
<1>2. CASE loadFromJSON
  BY <1>2, FailedLoadSizes, LoadSizes DEF loadFromJSON
<1>3. CASE loadToJSON
  BY <1>3, SaveSizes
<1>4. CASE init_data
  BY <1>4 DEF init_data, SizeInv, SizesInt, RollSizeInRange
<1>5. CASE UNCHANGED vars
  BY <1>5 DEF vars, SizeInv, SizesInt, RollSizeInRange
<1> QED
  BY <1>1, <1>2, <1>3, <1>4, <1>5 DEF Next

\* Whatever files are loaded, saved and loaded again, a size that came from a
\* file which asks for none below zero is between 0 and 128 MB: multiplying it
\* never wraps around.  Files that ask for one below zero may be among them.
THEOREM LoadedSizes == Spec => []RollSizeInRange
<1>1. SizeInv => RollSizeInRange
  BY DEF SizeInv
<1> QED
  BY InitSizes, StepSizes, <1>1, PTL DEF Spec

-----------------------------------------------------------------------------
(***************************************************************************)
(* Types, and what is known of a file that was saved: loaded again, it     *)
(* says what the configuration said.                                       *)
(***************************************************************************)
Fields == {"log_flag", "log_level", "log_name", "style", "format", "log_rollSize",
           "log_flushInterval", "log_filepath", "log_console"}

Fitting == {text \in Texts : Len(text) <= Cap}

\* The size is a number of megabytes that a load accepts.
Accepted(size) == \E n \in 0..128 : size = n * MB

\* The path of a file that was saved is the one in effect, or stands for none.
PathSaved(s) ==
  /\ s.from.filepath \in Texts /\ s.file.out_file \in Texts
  /\ \/ s.file.out_file = s.from.filepath
     \/ s.file.out_file = NullText /\ s.from.filepath = <<>>

SavedOK(s) ==
  /\ s.from.log_level \in Levels /\ s.from.style \in Styles \ {"custom"}
  /\ s.file.level = s.from.log_level /\ s.file.formatter = s.from.style
  /\ s.file.flush_interval = s.from.log_flushInterval
  /\ s.file.out_console = s.from.log_console
  /\ s.file.fmt_string = {} /\ s.file.name = {}
  /\ PathSaved(s)
  /\ s.file.roll_size = Megabytes(s.from.log_rollSize)
  /\ \A n \in s.asked : n >= 0 => Accepted(s.from.log_rollSize)

ConfigTyped ==
  /\ DOMAIN config = Fields
  /\ config.log_flag \subseteq AllFlags /\ config.log_level \in Levels /\ config.style \in Styles
  /\ {config.log_name, config.format, config.log_filepath} \subseteq Pointers
  /\ config.log_rollSize \in Int
  /\ \A n \in asked : n >= 0 => Accepted(config.log_rollSize)

RestTyped ==
  /\ arrays \in [filepath : Fitting, log_name : Fitting, fmt_string : Fitting]
  /\ running \in Optional(Pointers)
  /\ crashed \in BOOLEAN /\ ncalls \in 0..MaxCalls
  /\ asked = {} \/ \E n \in Int : asked = {n}

SavedTyped == (saved = {} \/ \E s : saved = {s}) /\ \A s \in saved : SavedOK(s)

ConfigInv == SizeInv /\ ConfigTyped /\ RestTyped /\ SavedTyped

\* strncpy of a text that fits does not overrun the array, and what is read
\* afterwards begins with the text.
LEMMA CopyFits ==
  ASSUME NEW array \in Fitting, NEW text \in Fitting
  PROVE  /\ Copy(array, text) \in Fitting
         /\ IsPrefix(text, ReadArray(Copy(array, text)))
<1> DEFINE rest == SubSeq(array, Len(text) + 1, Len(array))
           copy == Copy(array, text)
<1>1. /\ array \in Texts /\ Len(array) \in Nat /\ Len(array) <= Cap
      /\ text \in Texts /\ Len(text) \in Nat /\ Len(text) <= Cap
  BY DEF Fitting, Texts
<1>2. /\ rest \in Texts
      /\ Len(rest) = IF Len(text) + 1 <= Len(array) THEN Len(array) - (Len(text) + 1) + 1 ELSE 0
  <2>1. \A i \in (Len(text) + 1)..Len(array) : array[i] \in Characters \cup {"null", Behind}
    BY <1>1 DEF Texts
  <2> QED
    BY <1>1, <2>1, SubSeqProperties DEF Texts
<1>3. copy = text \o rest
  BY DEF Copy
<1> HIDE DEF rest, copy
<1>4. /\ copy \in Texts /\ Len(copy) = Len(text) + Len(rest)
      /\ \A i \in 1..Len(text) : copy[i] = text[i]
  <2>1. Len(rest) \in Nat
    BY <1>2
  <2>2. /\ copy \in Texts /\ Len(copy) = Len(text) + Len(rest)
        /\ \A i \in 1..(Len(text) + Len(rest)) :
             copy[i] = IF i <= Len(text) THEN text[i] ELSE rest[i - Len(text)]
    BY <1>1, <1>2, <1>3, ConcatProperties DEF Texts
  <2> QED
    BY <1>1, <2>1, <2>2
<1>5. Len(copy) <= Cap /\ Len(text) <= Len(copy)
  BY <1>1, <1>2, <1>4, ConstantsAssumption
<1> DEFINE read == ReadArray(copy)
<1>6. /\ read \in Texts /\ Len(text) <= Len(read)
      /\ \A i \in 1..Len(text) : read[i] = text[i]
  <2>2. read = copy \/ read = Append(copy, Behind)
    BY DEF ReadArray
  <2>1. Behind \in Characters \cup {"null", Behind}
    OBVIOUS
  <2> HIDE DEF read
  <2>3. CASE read = Append(copy, Behind)
    <3>1. /\ read \in Texts /\ Len(read) = Len(copy) + 1
          /\ \A i \in 1..Len(copy) : read[i] = copy[i]
      BY <1>4, <2>1, <2>3, AppendProperties DEF Texts
    <3> QED
      BY <1>1, <1>4, <1>5, <3>1, LenProperties
  <2> QED
    BY <1>4, <1>5, <2>2, <2>3
<1> HIDE DEF read
<1>7. SubSeq(text, 1, Len(text)) = SubSeq(read, 1, Len(text))
  BY <1>1, <1>6
<1>8. IsPrefix(text, read)
  BY <1>6, <1>7 DEF IsPrefix
<1> QED
  BY <1>4, <1>5, <1>8 DEF copy, read, Fitting

\* Every file that can be loaded holds texts.
LEMMA FilesText ==
  ASSUME SavedTyped, NEW f \in Files \cup SavedFiles
  PROVE  f.out_file \in Texts /\ f.fmt_string \subseteq Texts /\ f.name \subseteq Texts
<1>1. CASE f \in Files
  BY <1>1, ConstantsAssumption
<1>2. CASE f \in SavedFiles
  BY <1>2 DEF SavedFiles, SavedTyped, SavedOK, PathSaved
<1> QED
  BY <1>1, <1>2

\* A load leaves every array within its bounds, wherever it stops.
LEMMA CopiesFit ==
  ASSUME ConfigInv, NEW f \in Files \cup SavedFiles
  PROVE  LET A == [filepath : Fitting, log_name : Fitting, fmt_string : Fitting]
         IN  /\ PathFits(f) => PathCopied(f) \in A
             /\ PathFits(f) /\ FormatFits(f) => FormatCopied(f) \in A
             /\ Fits(f) => NameCopied(f) \in A
<1> DEFINE A == [filepath : Fitting, log_name : Fitting, fmt_string : Fitting]
<1>1. f.out_file \in Texts /\ f.fmt_string \subseteq Texts /\ f.name \subseteq Texts
  BY FilesText DEF ConfigInv
<1>2. ASSUME NEW present \in BOOLEAN, NEW array \in Fitting, NEW texts \in SUBSET Texts,
             present => texts # {} /\ \A s \in texts : Len(s) <= Cap
      PROVE  CopyIf(present, array, texts) \in Fitting
  <2>1. CASE present
    <3> DEFINE s == CHOOSE s \in texts : TRUE
    <3>1. s \in Fitting
      BY <1>2, <2>1 DEF Fitting
    <3>2. CopyIf(present, array, texts) = Copy(array, s)
      BY <2>1 DEF CopyIf
    <3> HIDE DEF s
    <3> QED
      BY <3>1, <3>2, CopyFits
  <2>2. CASE ~present
    BY <2>2 DEF CopyIf
  <2> QED
    BY <2>1, <2>2
<1>3. arrays \in A
  BY DEF ConfigInv, RestTyped
<1>4. ASSUME PathFits(f) PROVE PathCopied(f) \in A
  <2>1. CopyIf(HasPath(f), arrays.filepath, {f.out_file}) \in Fitting
    BY <1>1, <1>2, <1>3, <1>4 DEF PathFits, HasPath
  <2> QED
    BY <1>3, <2>1 DEF PathCopied
<1>5. ASSUME PathFits(f), FormatFits(f) PROVE FormatCopied(f) \in A
  <2>1. PathCopied(f) \in A
    BY <1>4, <1>5
  <2>2. CopyIf(f.fmt_string # {}, PathCopied(f).fmt_string, f.fmt_string) \in Fitting
    BY <1>1, <1>2, <1>5, <2>1 DEF FormatFits
  <2> QED
    BY <2>1, <2>2 DEF FormatCopied
<1>6. ASSUME Fits(f) PROVE NameCopied(f) \in A
  <2>1. FormatCopied(f) \in A
    BY <1>5, <1>6 DEF Fits
  <2>2. CopyIf(f.name # {}, FormatCopied(f).log_name, f.name) \in Fitting
    BY <1>1, <1>2, <1>6, <2>1 DEF Fits, NameFits
  <2> QED
    BY <2>1, <2>2 DEF NameCopied
<1> QED
  BY <1>4, <1>5, <1>6

LEMMA PointerFacts ==
  /\ Null \in Pointers /\ Array \in Pointers
  /\ \A s \in Literals : Literal(s) \in Pointers
BY DEF Pointers

\* Setters.
LEMMA SetKeeps ==
  ASSUME ConfigInv, NEW field, NEW value, Set(field, value),
         \/ field = "log_rollSize" /\ value \in RollSizes
         \/ field \in {"log_flushInterval", "log_console"}
         \/ field = "log_level" /\ value \in Levels
         \/ field = "log_flag" /\ value \in FlagSets
         \/ field \in {"log_filepath", "log_name"} /\ value \in Pointers
  PROVE  ConfigTyped' /\ RestTyped' /\ SavedTyped'
<1>1. /\ config' = [config EXCEPT ![field] = value] /\ asked' = {}
      /\ UNCHANGED <<arrays, saved, running, crashed>> /\ ncalls < MaxCalls /\ ncalls' = ncalls + 1
  BY DEF Set, Call
<1>2. value \in RollSizes => value \in Int
  BY ConstantsAssumption
<1>3. value \in FlagSets => value \subseteq AllFlags
  BY ConstantsAssumption
<1>4. DOMAIN config' = Fields /\ \A g \in Fields : config'[g] = IF g = field THEN value ELSE config[g]
  BY <1>1 DEF ConfigInv, ConfigTyped
<1>5. ConfigTyped'
  <2>1. config'.log_rollSize \in Int
    BY <1>2, <1>4 DEF ConfigInv, ConfigTyped, Fields
  <2>2. config'.log_flag \subseteq AllFlags
    BY <1>3, <1>4 DEF ConfigInv, ConfigTyped, Fields
  <2>3. config'.log_level \in Levels /\ config'.style \in Styles
    BY <1>4 DEF ConfigInv, ConfigTyped, Fields
  <2>4. {config'.log_name, config'.format, config'.log_filepath} \subseteq Pointers
    BY <1>4 DEF ConfigInv, ConfigTyped, Fields
  <2> QED
    BY <1>1, <1>4, <2>1, <2>2, <2>3, <2>4 DEF ConfigTyped
<1>6. RestTyped'
  <2>1. ncalls' \in 0..MaxCalls
    BY <1>1, ConstantsAssumption DEF ConfigInv, RestTyped
  <2> QED
    BY <1>1, <2>1 DEF ConfigInv, RestTyped
<1> QED
  BY <1>1, <1>5, <1>6 DEF ConfigInv, SavedTyped

LEMMA SetFormatterKeeps ==
  ASSUME ConfigInv, NEW style \in Styles, NEW format \in Pointers, SetFormatter(style, format)
  PROVE  ConfigTyped' /\ RestTyped' /\ SavedTyped'
<1>1. /\ config' = [config EXCEPT !.style = style, !.format = format] /\ asked' = {}
      /\ UNCHANGED <<arrays, saved, running, crashed>> /\ ncalls < MaxCalls /\ ncalls' = ncalls + 1
  BY DEF SetFormatter, Call
<1>2. /\ DOMAIN config' = Fields /\ config'.style = style /\ config'.format = format
      /\ config'.log_flag = config.log_flag /\ config'.log_level = config.log_level
      /\ config'.log_name = config.log_name /\ config'.log_filepath = config.log_filepath
      /\ config'.log_rollSize = config.log_rollSize
  BY <1>1 DEF ConfigInv, ConfigTyped, Fields
<1>3. ConfigTyped'
  BY <1>1, <1>2 DEF ConfigInv, ConfigTyped
<1>4. RestTyped'
  <2>1. ncalls' \in 0..MaxCalls
    BY <1>1, ConstantsAssumption DEF ConfigInv, RestTyped
  <2> QED
    BY <1>1, <2>1 DEF ConfigInv, RestTyped
<1> QED
  BY <1>1, <1>3, <1>4 DEF ConfigInv, SavedTyped

LEMMA SettersKeep ==
  ASSUME ConfigInv, Setters
  PROVE  ConfigTyped' /\ RestTyped' /\ SavedTyped'
<1>1. ASSUME NEW n \in RollSizes, Set("log_rollSize", n)
      PROVE  ConfigTyped' /\ RestTyped' /\ SavedTyped'
  BY <1>1, SetKeeps
<1>2. ASSUME NEW n, Set("log_flushInterval", n) \/ Set("log_console", n)
      PROVE  ConfigTyped' /\ RestTyped' /\ SavedTyped'
  BY <1>2, SetKeeps
<1>3. ASSUME NEW l \in Levels, Set("log_level", l)
      PROVE  ConfigTyped' /\ RestTyped' /\ SavedTyped'
  BY <1>3, SetKeeps
<1>4. ASSUME NEW flags \in FlagSets, Set("log_flag", flags)
      PROVE  ConfigTyped' /\ RestTyped' /\ SavedTyped'
  BY <1>4, SetKeeps
<1>5. ASSUME NEW s \in Literals, Set("log_filepath", Literal(s)) \/ Set("log_name", Literal(s))
      PROVE  ConfigTyped' /\ RestTyped' /\ SavedTyped'
  BY <1>5, SetKeeps, PointerFacts
<1>6. ASSUME NEW style \in Styles \ {"custom"}, SetFormatter(style, Null)
      PROVE  ConfigTyped' /\ RestTyped' /\ SavedTyped'
  BY <1>6, SetFormatterKeeps, PointerFacts
<1>7. ASSUME NEW s \in Literals, SetFormatter("custom", Literal(s))
      PROVE  ConfigTyped' /\ RestTyped' /\ SavedTyped'
  BY <1>7, SetFormatterKeeps, PointerFacts DEF Styles
<1> QED
  BY <1>1, <1>2, <1>3, <1>4, <1>5, <1>6, <1>7 DEF Setters

\* Loads.
LEMMA LoadedTyped ==
  ASSUME NEW f, f.roll_size \in Int
  PROVE  /\ from_flags(f.flag) \subseteq AllFlags /\ from_level(f.level) \in Levels
         /\ from_formatter(f) \in Styles
         /\ RollSize(f) \in Int /\ (f.roll_size >= 0 => Accepted(RollSize(f)))
<1>1. from_flags(f.flag) \subseteq AllFlags
  <2>1. \A n \in DOMAIN FlagNamed : FlagNamed[n] \subseteq AllFlags
    BY DEF FlagNamed, AllFlags, kStdFlags
  <2> QED
    BY <2>1 DEF from_flags
<1>2. from_level(f.level) \in Levels
  BY DEF from_level, Levels, kDebug
<1>3. from_formatter(f) \in Styles
  BY DEF from_formatter, Styles
<1>4. ASSUME f.roll_size >= 0 PROVE Accepted(RollSize(f))
  <2>1. PICK n \in 0..128 : RollSize(f) = AsInt(n * MB)
    <3>1. (IF f.roll_size > 128 THEN 4 ELSE f.roll_size) \in 0..128
      BY <1>4
    <3> QED
      BY <3>1 DEF RollSize
  <2>2. n * MB \in 0..IntMax
    BY Times, ConstantsAssumption
  <2>3. RollSize(f) = n * MB
    BY <2>1, <2>2, AsIntFits
  <2> QED
    BY <2>3 DEF Accepted
<1> QED
  BY <1>1, <1>2, <1>3, <1>4, RollSizeType

LEMMA FailedLoadKeepsInv ==
  ASSUME ConfigInv, NEW f \in Files \cup SavedFiles, LoadFails(f)
  PROVE  ConfigTyped' /\ RestTyped' /\ SavedTyped'
<1>1. /\ UNCHANGED <<saved, running, crashed, asked>> /\ ncalls < MaxCalls /\ ncalls' = ncalls + 1
      /\ config' = config \/ config' = AfterPath(f)
  BY DEF LoadFails, Call
<1>2. arrays' \in [filepath : Fitting, log_name : Fitting, fmt_string : Fitting]
  BY CopiesFit DEF LoadFails, ConfigInv, RestTyped
<1>3. ConfigTyped'
  <2>1. ArrayIf(HasPath(f)) \in Pointers
    BY PointerFacts DEF ArrayIf
  <2> DEFINE p == ArrayIf(HasPath(f))
  <2>2. config' = config \/ config' = [config EXCEPT !.log_filepath = p]
    BY <1>1 DEF AfterPath
  <2> HIDE DEF p
  <2>3. /\ DOMAIN config' = Fields /\ config'.log_filepath \in {p, config.log_filepath}
        /\ config'.log_flag = config.log_flag /\ config'.log_level = config.log_level
        /\ config'.log_name = config.log_name /\ config'.style = config.style
        /\ config'.format = config.format /\ config'.log_rollSize = config.log_rollSize
    BY <2>2 DEF ConfigInv, ConfigTyped, Fields
  <2> QED
    BY <1>1, <2>1, <2>3 DEF ConfigInv, ConfigTyped, p
<1>4. RestTyped'
  <2>1. ncalls' \in 0..MaxCalls
    BY <1>1, ConstantsAssumption DEF ConfigInv, RestTyped
  <2> QED
    BY <1>1, <1>2, <2>1 DEF ConfigInv, RestTyped
<1> QED
  BY <1>1, <1>3, <1>4 DEF ConfigInv, SavedTyped

LEMMA LoadKeeps ==
  ASSUME ConfigInv, NEW f \in Files \cup SavedFiles, LoadSucceeds(f)
  PROVE  ConfigTyped' /\ RestTyped' /\ SavedTyped'
<1>1. /\ UNCHANGED <<saved, running, crashed>> /\ ncalls < MaxCalls /\ ncalls' = ncalls + 1
      /\ config' = Loaded(f) /\ asked' = {f.roll_size} /\ Fits(f) /\ arrays' = NameCopied(f)
  BY DEF LoadSucceeds, Call
<1>2. arrays' \in [filepath : Fitting, log_name : Fitting, fmt_string : Fitting]
  BY <1>1, CopiesFit
<1>3. ConfigTyped'
  <2>1. f.roll_size \in Int
    BY FilesInt DEF ConfigInv, SizeInv
  <2>2. \A present : ArrayIf(present) \in Pointers
    BY PointerFacts DEF ArrayIf
  <2>3. /\ DOMAIN config' = Fields
        /\ config'.log_flag = from_flags(f.flag) /\ config'.log_level = from_level(f.level)
        /\ config'.log_name = ArrayIf(f.name # {}) /\ config'.style = from_formatter(f)
        /\ config'.format = ArrayIf(from_formatter(f) = "custom")
        /\ config'.log_rollSize = RollSize(f) /\ config'.log_filepath = ArrayIf(HasPath(f))
    BY <1>1 DEF Loaded, Fields
  <2> QED
    BY <1>1, <2>1, <2>2, <2>3, LoadedTyped DEF ConfigTyped
<1>4. RestTyped'
  <2>1. ncalls' \in 0..MaxCalls
    BY <1>1, ConstantsAssumption DEF ConfigInv, RestTyped
  <2>2. f.roll_size \in Int
    BY FilesInt DEF ConfigInv, SizeInv
  <2> QED
    BY <1>1, <1>2, <2>1, <2>2 DEF ConfigInv, RestTyped
<1> QED
  BY <1>1, <1>3, <1>4 DEF ConfigInv, SavedTyped

\* Saves.
LEMMA ReadText ==
  ASSUME NEW p \in Pointers, NEW array \in Fitting
  PROVE  Read(p, array) \in Texts
<1>1. p.text \in Texts
  <2>1. <<>> \in Texts
    BY DEF Texts
  <2> QED
    BY <2>1, ConstantsAssumption DEF Pointers
<1>2. ReadArray(array) \in Texts
  <2>1. Behind \in Characters \cup {"null", Behind} /\ array \in Texts
    BY DEF Fitting
  <2>2. Append(array, Behind) \in Texts
    BY <2>1, AppendProperties DEF Texts
  <2> QED
    BY <2>1, <2>2 DEF ReadArray
<1> QED
  BY <1>1, <1>2 DEF Read

LEMMA WrittenOK ==
  ASSUME ConfigInv, config.style # "custom"
  PROVE  SavedOK([file |-> Written, from |-> Settings, asked |-> asked])
<1> DEFINE s == [file |-> Written, from |-> Settings, asked |-> asked]
<1>1. s.file = Written /\ s.from = Settings /\ s.asked = asked
  OBVIOUS
<1>2. /\ Written.roll_size = Megabytes(config.log_rollSize)
      /\ Written.flush_interval = config.log_flushInterval
      /\ Written.out_console = config.log_console
      /\ Written.out_file = IF config.log_filepath = Null THEN NullText ELSE Settings.filepath
      /\ Written.level = config.log_level /\ Written.formatter = config.style
      /\ Written.name = {} /\ Written.fmt_string = {}
  BY DEF Written
<1>3. /\ Settings.log_level = config.log_level /\ Settings.style = config.style
      /\ Settings.log_rollSize = config.log_rollSize
      /\ Settings.log_flushInterval = config.log_flushInterval
      /\ Settings.log_console = config.log_console
      /\ Settings.filepath = Read(config.log_filepath, arrays.filepath)
  BY DEF Settings
<1>4. Settings.filepath \in Texts
  BY <1>3, ReadText DEF ConfigInv, ConfigTyped, RestTyped
<1>5. NullText \in Texts
  <2>1. "null" \in Characters \cup {"null", Behind}
    OBVIOUS
  <2> QED
    BY <2>1 DEF NullText, Texts
<1>6. config.log_filepath = Null => Settings.filepath = <<>>
  BY <1>3 DEF Read
<1>7. PathSaved(s)
  BY <1>1, <1>2, <1>4, <1>5, <1>6 DEF PathSaved
<1> HIDE DEF s
<1> QED
  BY <1>1, <1>2, <1>3, <1>7 DEF SavedOK, ConfigInv, ConfigTyped, s

LEMMA SaveKeeps ==
  ASSUME ConfigInv, loadToJSON
  PROVE  ConfigTyped' /\ RestTyped' /\ SavedTyped'
<1> DEFINE s == [file |-> Written, from |-> Settings, asked |-> asked]
<1>1. /\ UNCHANGED <<config, arrays, running, asked>> /\ ncalls < MaxCalls /\ ncalls' = ncalls + 1
      /\ crashed' = (config.style = "custom")
      /\ saved' = saved \/ (config.style # "custom" /\ saved' = {s})
  BY DEF loadToJSON, Call
<1>2. SavedTyped'
  <2>1. CASE saved' = saved
    BY <2>1 DEF ConfigInv, SavedTyped
  <2>2. CASE config.style # "custom" /\ saved' = {s}
    <3>1. SavedOK(s)
      BY <2>2, WrittenOK
    <3> HIDE DEF s
    <3> QED
      BY <2>2, <3>1 DEF SavedTyped
  <2> QED
    BY <1>1, <2>1, <2>2
<1>3. RestTyped'
  <2>1. crashed' \in BOOLEAN
    BY <1>1
  <2> QED
    BY <1>1, <2>1, ConstantsAssumption DEF ConfigInv, RestTyped
<1> QED
  BY <1>1, <1>2, <1>3 DEF ConfigInv, ConfigTyped

LEMMA ConfigStep ==
  ASSUME ConfigInv, [Next]_vars
  PROVE  ConfigInv'
<1>1. SizeInv'
  BY StepSizes DEF ConfigInv
<1>2. CASE Setters
  BY <1>1, <1>2, SettersKeep DEF ConfigInv
<1>3. CASE loadFromJSON
  BY <1>1, <1>3, FailedLoadKeepsInv, LoadKeeps DEF ConfigInv, loadFromJSON
<1>4. CASE loadToJSON
  BY <1>1, <1>4, SaveKeeps DEF ConfigInv
<1>5. CASE init_data
  <2>1. running' \in Optional(Pointers)
    BY <1>5 DEF init_data, ConfigInv, ConfigTyped, Optional
  <2> QED
    BY <1>1, <1>5, <2>1 DEF init_data, ConfigInv, ConfigTyped, RestTyped, SavedTyped
<1>6. CASE UNCHANGED vars
  BY <1>1, <1>6 DEF vars, ConfigInv, ConfigTyped, RestTyped, SavedTyped
<1> QED
  BY <1>2, <1>3, <1>4, <1>5, <1>6 DEF Next

LEMMA ConfigInit == Init => ConfigInv
<1> SUFFICES ASSUME Init PROVE ConfigInv
  OBVIOUS
<1>1. SizeInv
  BY InitSizes
<1>2. ConfigTyped
  <2>1. 20 * MB \in Int
    BY ConstantsAssumption
  <2>2. /\ DOMAIN config = Fields /\ config.log_flag = kStdFlags /\ config.log_level = kDebug
        /\ config.style = "default" /\ config.log_rollSize = 20 * MB
        /\ config.log_name = Null /\ config.format = Null /\ config.log_filepath = Null
    BY DEF Init, Fields
  <2>3. kStdFlags \subseteq AllFlags /\ kDebug \in Levels /\ "default" \in Styles
    BY DEF AllFlags, Levels, Styles
  <2>4. asked = {}
    BY DEF Init
  <2> QED
    BY <2>1, <2>2, <2>3, <2>4, PointerFacts DEF ConfigTyped
<1>3. RestTyped
  <2>1. <<>> \in Fitting
    <3>1. <<>> \in Texts /\ Len(<<>>) = 0
      BY DEF Texts
    <3> QED
      BY <3>1, ConstantsAssumption DEF Fitting
  <2>2. 0 \in 0..MaxCalls /\ {} \in Optional(Pointers)
    BY ConstantsAssumption DEF Optional
  <2> QED
    BY <2>1, <2>2 DEF Init, RestTyped
<1> QED
  BY <1>1, <1>2, <1>3 DEF Init, ConfigInv, SavedTyped

LEMMA ConfigStays == Spec => []ConfigInv
<1>1. ConfigInv /\ [Next]_vars => ConfigInv'
  BY ConfigStep
<1> QED
  BY <1>1, ConfigInit, PTL DEF Spec

\* Whatever files are loaded and saved, and wherever a load stops: no array is
\* overrun, and the level, the flags and the style are ones the library knows.
THEOREM TypesKept == Spec => []TypeOK
<1>1. ConfigInv => TypeOK
  <2> SUFFICES ASSUME ConfigInv PROVE TypeOK
    OBVIOUS
  <2>1. \A a \in DOMAIN arrays : Len(arrays[a]) <= Cap
    <3>1. DOMAIN arrays = {"filepath", "log_name", "fmt_string"}
          /\ arrays.filepath \in Fitting /\ arrays.log_name \in Fitting /\ arrays.fmt_string \in Fitting
      BY DEF ConfigInv, RestTyped
    <3> QED
      BY <3>1 DEF Fitting
  <2>2. Cardinality(saved) <= 1
    BY FS_EmptySet, FS_Singleton DEF ConfigInv, SavedTyped
  <2>3. Cardinality(asked) <= 1 /\ asked \subseteq Int
    <3>1. CASE asked = {}
      <4>1. Cardinality({}) = 0
        BY FS_EmptySet
      <4> QED
        BY <3>1, <4>1
    <3>2. ASSUME NEW n \in Int, asked = {n} PROVE Cardinality(asked) <= 1 /\ asked \subseteq Int
      <4>1. Cardinality({n}) = 1
        BY FS_Singleton
      <4> QED
        BY <3>2, <4>1
    <3> QED
      BY <3>1, <3>2 DEF ConfigInv, RestTyped
  <2> QED
    BY <2>1, <2>2, <2>3 DEF TypeOK, ConfigInv, ConfigTyped, RestTyped
<1> QED
  BY <1>1, ConfigStays, PTL

\* What a load that throws has done to the configuration and the arrays.
LEMMA FailedLoadLeaves ==
  ASSUME ConfigInv, NEW f, LoadFails(f)
  PROVE  /\ \A field \in Fields \ {"log_filepath"} : config'[field] = config[field]
         /\ arrays'.log_name = arrays.log_name
         /\ PathFits(f) => /\ config'.log_filepath = ArrayIf(HasPath(f))
                           /\ arrays'.filepath = CopyIf(HasPath(f), arrays.filepath, {f.out_file})
         /\ ~PathFits(f) => config' = config /\ arrays' = arrays
         /\ arrays'.fmt_string # arrays.fmt_string =>
              /\ PathFits(f) /\ FormatFits(f) /\ f.fmt_string # {}
              /\ arrays'.fmt_string = Copy(arrays.fmt_string, CHOOSE s \in f.fmt_string : TRUE)
<1> DEFINE copy == CopyIf(f.fmt_string # {}, arrays.fmt_string, f.fmt_string)
<1>1. DOMAIN config = Fields /\ DOMAIN arrays = {"filepath", "log_name", "fmt_string"}
  BY DEF ConfigInv, ConfigTyped, RestTyped
<1>2. /\ DOMAIN PathCopied(f) = {"filepath", "log_name", "fmt_string"}
      /\ PathCopied(f).filepath = CopyIf(HasPath(f), arrays.filepath, {f.out_file})
      /\ PathCopied(f).fmt_string = arrays.fmt_string /\ PathCopied(f).log_name = arrays.log_name
  BY <1>1 DEF PathCopied
<1>3. /\ FormatCopied(f).filepath = PathCopied(f).filepath
      /\ FormatCopied(f).fmt_string = copy /\ FormatCopied(f).log_name = arrays.log_name
  BY <1>2 DEF FormatCopied
<1>4. copy # arrays.fmt_string =>
        f.fmt_string # {} /\ copy = Copy(arrays.fmt_string, CHOOSE s \in f.fmt_string : TRUE)
  BY DEF CopyIf
<1>5. /\ AfterPath(f).log_filepath = ArrayIf(HasPath(f))
      /\ \A field \in Fields \ {"log_filepath"} : AfterPath(f)[field] = config[field]
  BY <1>1 DEF AfterPath, Fields
<1> HIDE DEF copy
<1>6. CASE ~PathFits(f)
  BY <1>6 DEF LoadFails
<1>7. CASE PathFits(f) /\ ~FormatFits(f)
  <2>1. config' = AfterPath(f) /\ arrays' = PathCopied(f)
    BY <1>7 DEF LoadFails
  <2> QED
    BY <1>2, <1>5, <1>7, <2>1
<1>8. CASE PathFits(f) /\ FormatFits(f)
  <2>1. config' = AfterPath(f) /\ arrays' = FormatCopied(f)
    BY <1>8 DEF LoadFails
  <2> QED
    BY <1>2, <1>3, <1>4, <1>5, <1>8, <2>1
<1> QED
  BY <1>6, <1>7, <1>8

LEMMA FailedLoadPath ==
  ASSUME ConfigInv, NEW f \in Files \cup SavedFiles, LoadFails(f)
  PROVE  IF PathFits(f) THEN HasPath(f) => IsPrefix(f.out_file, Settings'.filepath)
                        ELSE Settings'.filepath = Settings.filepath
<1>1. /\ Settings.filepath = Read(config.log_filepath, arrays.filepath)
      /\ Settings'.filepath = Read(config'.log_filepath, arrays'.filepath)
  BY DEF Settings
<1>2. CASE ~PathFits(f)
  BY <1>1, <1>2, FailedLoadLeaves
<1>3. ASSUME PathFits(f), HasPath(f) PROVE IsPrefix(f.out_file, Settings'.filepath)
  <2>1. config'.log_filepath = Array /\ arrays'.filepath = Copy(arrays.filepath, f.out_file)
    <3>1. (CHOOSE x \in {f.out_file} : TRUE) = f.out_file
      OBVIOUS
    <3> QED
      BY <1>3, <3>1, FailedLoadLeaves DEF ArrayIf, CopyIf
  <2>2. f.out_file \in Fitting /\ arrays.filepath \in Fitting
    <3>1. f.out_file \in Texts /\ Len(f.out_file) <= Cap
      BY <1>3, FilesText DEF ConfigInv, PathFits
    <3> QED
      BY <3>1 DEF Fitting, ConfigInv, RestTyped
  <2>3. Settings'.filepath = ReadArray(Copy(arrays.filepath, f.out_file))
    BY <1>1, <2>1 DEF Read
  <2> QED
    BY <2>2, <2>3, CopyFits
<1> QED
  BY <1>2, <1>3

LEMMA FailedLoadFormat ==
  ASSUME ConfigInv, NEW f \in Files \cup SavedFiles, LoadFails(f), Settings'.format # Settings.format
  PROVE  /\ PathFits(f) /\ FormatFits(f) /\ config.format = Array
         /\ \E s \in f.fmt_string : IsPrefix(s, Settings'.format)
<1>1. /\ Settings.format = Read(config.format, arrays.fmt_string)
      /\ Settings'.format = Read(config'.format, arrays'.fmt_string)
  BY DEF Settings
<1>2. config'.format = config.format
  BY FailedLoadLeaves DEF Fields
<1>3. config.format = Array /\ arrays'.fmt_string # arrays.fmt_string
  BY <1>1, <1>2 DEF Read
<1> DEFINE s == CHOOSE s \in f.fmt_string : TRUE
<1>4. /\ PathFits(f) /\ FormatFits(f) /\ s \in f.fmt_string
      /\ arrays'.fmt_string = Copy(arrays.fmt_string, s)
  BY <1>3, FailedLoadLeaves
<1> HIDE DEF s
<1>5. s \in Fitting /\ arrays.fmt_string \in Fitting
  <2>1. s \in Texts /\ Len(s) <= Cap
    BY <1>4, FilesText DEF ConfigInv, FormatFits
  <2> QED
    BY <2>1 DEF Fitting, ConfigInv, RestTyped
<1>6. Settings'.format = ReadArray(Copy(arrays.fmt_string, s))
  BY <1>1, <1>2, <1>3, <1>4 DEF Read
<1>7. IsPrefix(s, Settings'.format)
  BY <1>5, <1>6, CopyFits
<1> QED
  BY <1>3, <1>4, <1>7

LEMMA FailedLoadOthers ==
  ASSUME ConfigInv, NEW f, LoadFails(f)
  PROVE  \A field \in DOMAIN Settings \ {"filepath", "format"} : Settings'[field] = Settings[field]
<1>1. /\ config'.log_flag = config.log_flag /\ config'.log_level = config.log_level
      /\ config'.style = config.style /\ config'.log_rollSize = config.log_rollSize
      /\ config'.log_flushInterval = config.log_flushInterval
      /\ config'.log_console = config.log_console /\ config'.log_name = config.log_name
  BY FailedLoadLeaves DEF Fields
<1>2. arrays'.log_name = arrays.log_name
  BY FailedLoadLeaves
<1> QED
  BY <1>1, <1>2 DEF Settings

\* A load that throws, of any file: if it refuses the path nothing in effect has
\* changed; otherwise the path may have, and begins as the file's does; if it
\* refuses the name alone, the text of a custom format that an earlier load put
\* into effect may have, and begins as the file's does; everything else stays.
THEOREM FailedLoads == Spec => FailedLoadKeeps
<1>1. ConfigInv =>
        \A f \in Files \cup SavedFiles : LoadFails(f) =>
          /\ \A field \in DOMAIN Settings \ {"filepath", "format"} : Settings'[field] = Settings[field]
          /\ IF PathFits(f) THEN HasPath(f) => IsPrefix(f.out_file, Settings'.filepath)
                            ELSE Settings'.filepath = Settings.filepath
          /\ Settings'.format # Settings.format =>
               /\ PathFits(f) /\ FormatFits(f) /\ config.format = Array
               /\ \E s \in f.fmt_string : IsPrefix(s, Settings'.format)
  <2> SUFFICES ASSUME ConfigInv, NEW f \in Files \cup SavedFiles, LoadFails(f)
               PROVE  /\ \A field \in DOMAIN Settings \ {"filepath", "format"} : Settings'[field] = Settings[field]
                      /\ IF PathFits(f) THEN HasPath(f) => IsPrefix(f.out_file, Settings'.filepath)
                                        ELSE Settings'.filepath = Settings.filepath
                      /\ Settings'.format # Settings.format =>
                           /\ PathFits(f) /\ FormatFits(f) /\ config.format = Array
                           /\ \E s \in f.fmt_string : IsPrefix(s, Settings'.format)
    OBVIOUS
  <2> QED
    BY FailedLoadOthers, FailedLoadPath, FailedLoadFormat
<1> QED
  BY <1>1, ConfigStays, PTL DEF FailedLoadKeeps

-----------------------------------------------------------------------------
LEMMA DivTimes ==
  ASSUME NEW n \in Nat, NEW m \in Nat \ {0}
  PROVE  (n * m) \div m = n
  OBVIOUS

\* A size that a load accepted is what a load of the saved file stores.
LEMMA SizeAgain ==
  ASSUME NEW s, SavedOK(s), NEW k \in s.asked, k >= 0
  PROVE  RollSize(s.file) = s.from.log_rollSize
<1>1. PICK n \in 0..128 : s.from.log_rollSize = n * MB
  BY DEF SavedOK, Accepted
<1>2. s.file.roll_size = n
  <2>1. n * MB \in 0..(128 * MB) /\ MB \in Nat \ {0}
    BY Times, ConstantsAssumption
  <2>2. n * MB >= 0
    BY <2>1
  <2>3. Megabytes(n * MB) = (n * MB) \div MB
    BY <2>2 DEF Megabytes
  <2> QED
    BY <1>1, <2>1, <2>3, DivTimes DEF SavedOK
<1>3. n * MB \in 0..IntMax
  BY Times, ConstantsAssumption
<1>4. RollSize(s.file) = AsInt(n * MB)
  BY <1>2 DEF RollSize
<1> QED
  BY <1>1, <1>3, <1>4, AsIntFits

\* A word that a switch knows is not taken for another.
LEMMA KnownWord ==
  ASSUME NEW word \in Levels \cup Styles
  PROVE  OP_INT(word) = word
BY ConstantsAssumption DEF OP_INT

\* The path that is in effect after the saved file has been loaded.
LEMMA PathAgain ==
  ASSUME ConfigInv, NEW s \in saved, LoadSucceeds(s.file), s.from.filepath # NullText
  PROVE  IsPrefix(s.from.filepath, Settings'.filepath)
<1> DEFINE f == s.file
           text == s.from.filepath
<1>1. /\ config'.log_filepath = ArrayIf(HasPath(f))
      /\ arrays'.filepath = CopyIf(HasPath(f), arrays.filepath, {f.out_file})
      /\ Settings'.filepath = Read(config'.log_filepath, arrays'.filepath)
  <2>1. config' = Loaded(f) /\ arrays' = NameCopied(f)
    BY DEF LoadSucceeds
  <2>2. config'.log_filepath = ArrayIf(HasPath(f))
    BY <2>1 DEF Loaded
  <2>3. DOMAIN arrays = {"filepath", "log_name", "fmt_string"}
    BY DEF ConfigInv, RestTyped
  <2>4. PathCopied(f).filepath = CopyIf(HasPath(f), arrays.filepath, {f.out_file})
        /\ DOMAIN PathCopied(f) = {"filepath", "log_name", "fmt_string"}
    BY <2>3 DEF PathCopied
  <2>5. FormatCopied(f).filepath = PathCopied(f).filepath
        /\ DOMAIN FormatCopied(f) = {"filepath", "log_name", "fmt_string"}
    BY <2>4 DEF FormatCopied
  <2>6. NameCopied(f).filepath = FormatCopied(f).filepath
    BY <2>5 DEF NameCopied
  <2>7. Settings'.filepath = Read(config'.log_filepath, arrays'.filepath)
    BY DEF Settings
  <2> QED
    BY <2>1, <2>2, <2>4, <2>5, <2>6, <2>7
<1>2. PathSaved(s)
  BY DEF ConfigInv, SavedTyped, SavedOK
<1>3. CASE HasPath(f)
  <2>1. f.out_file = text /\ text \in Fitting /\ arrays.filepath \in Fitting
    <3>1. f.out_file = text
      BY <1>2, <1>3 DEF PathSaved, HasPath
    <3>2. Len(f.out_file) <= Cap
      BY <1>3 DEF LoadSucceeds, Fits, PathFits
    <3>3. arrays.filepath \in Fitting
      BY DEF ConfigInv, RestTyped
    <3> QED
      BY <1>2, <3>1, <3>2, <3>3 DEF PathSaved, Fitting
  <2>2. config'.log_filepath = Array /\ arrays'.filepath = Copy(arrays.filepath, text)
    BY <1>1, <1>3, <2>1 DEF ArrayIf, CopyIf
  <2>3. Settings'.filepath = ReadArray(Copy(arrays.filepath, text))
    BY <1>1, <2>2 DEF Read
  <2> HIDE DEF text
  <2> QED
    BY <2>1, <2>3, CopyFits DEF text
<1>4. CASE ~HasPath(f)
  <2>1. text = <<>>
    BY <1>2, <1>4 DEF PathSaved, HasPath
  <2>2. Settings'.filepath = <<>>
    BY <1>1, <1>4 DEF ArrayIf, Read
  <2> QED
    BY <2>1, <2>2 DEF IsPrefix
<1> QED
  BY <1>3, <1>4

LEMMA LoadsAgain ==
  ASSUME ConfigInv, NEW s \in saved, LoadSucceeds(s.file)
  PROVE  /\ \A field \in {"log_level", "style", "log_flushInterval", "log_console"} :
              Settings'[field] = s.from[field]
         /\ s.from.filepath # NullText => IsPrefix(s.from.filepath, Settings'.filepath)
         /\ \A n \in s.asked : n >= 0 => Settings'.log_rollSize = s.from.log_rollSize
<1>1. SavedOK(s)
  BY DEF ConfigInv, SavedTyped
<1>2. config' = Loaded(s.file)
  BY DEF LoadSucceeds
<1>3. /\ config'.log_level = from_level(s.file.level) /\ config'.style = from_formatter(s.file)
      /\ config'.log_flushInterval = s.file.flush_interval
      /\ config'.log_console = s.file.out_console /\ config'.log_rollSize = RollSize(s.file)
  BY <1>2 DEF Loaded
<1>4. /\ Settings'.log_level = config'.log_level /\ Settings'.style = config'.style
      /\ Settings'.log_flushInterval = config'.log_flushInterval
      /\ Settings'.log_console = config'.log_console
      /\ Settings'.log_rollSize = config'.log_rollSize
  BY DEF Settings
<1>5. from_level(s.file.level) = s.from.log_level
  BY <1>1, KnownWord DEF SavedOK, from_level
<1>6. from_formatter(s.file) = s.from.style
  BY <1>1, KnownWord DEF SavedOK, from_formatter
<1>7. /\ Settings'.log_level = s.from.log_level /\ Settings'.style = s.from.style
      /\ Settings'.log_flushInterval = s.from.log_flushInterval
      /\ Settings'.log_console = s.from.log_console
  BY <1>1, <1>3, <1>4, <1>5, <1>6 DEF SavedOK
<1>8. \A n \in s.asked : n >= 0 => Settings'.log_rollSize = s.from.log_rollSize
  BY <1>1, <1>3, <1>4, SizeAgain
<1> QED
  BY <1>7, <1>8, PathAgain

\* Of a configuration that is saved and loaded again the level, the style, the
\* interval and the console switch are what they were, the path begins as it
\* did unless it was the word null, and the roll size is what it was if it came
\* from a file that asks for none below zero; whatever the arrays hold from
\* other loads.  Nothing is said of the flags and the name, which a save loses.
THEOREM SavesLoad == Spec => LoadSaveLoad
<1>1. ConfigInv =>
        \A s \in saved : LoadSucceeds(s.file) =>
          /\ \A field \in {"log_level", "style", "log_flushInterval", "log_console"} :
               Settings'[field] = s.from[field]
          /\ s.from.filepath # NullText => IsPrefix(s.from.filepath, Settings'.filepath)
          /\ \A n \in s.asked : n >= 0 => Settings'.log_rollSize = s.from.log_rollSize
  BY LoadsAgain
<1> QED
  BY <1>1, ConfigStays, PTL DEF LoadSaveLoad

=============================================================================
