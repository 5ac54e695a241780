----------------------------- MODULE GlobalConfig -----------------------------
(***************************************************************************)
(* The global configuration (include/elog/config.h, src/config.cc): the    *)
(* setters, loading it from a JSON file and saving it to one, as called    *)
(* by one thread.  The texts it is given are not copied into it: it holds  *)
(* pointers, to a string of the program or to one of three arrays that     *)
(* every load of the thread reuses.                                        *)
(*                                                                         *)
(* A text is a short sequence of characters.  The callbacks log_before     *)
(* and log_after are only ever assigned and are left out.                  *)
(***************************************************************************)
EXTENDS Integers, FiniteSets, SequencesExt

CONSTANTS
  Cap,       \* the length of the arrays: 1024 in the code
  MB,        \* bytes in a megabyte
  IntMax,    \* the largest int
  Characters, \* what texts are made of
  Files,     \* the JSON files the program loads
  Literals,  \* the strings the program passes to setters
  RollSizes, \* the sizes it passes to setRollSize
  FlagSets,  \* the flags it passes to setFlag
  SameSum,   \* words of files that no switch knows, to the known word they pass for
  MaxCalls   \* bound on the calls of setters, loads and saves

kDebug    == "debug"
Levels    == {"trace", kDebug, "info", "warn", "error", "fatal"}
kStdFlags == {"kDate", "kTime", "kShortname", "kLine", "kFuncName"}
AllFlags  == kStdFlags \cup {"kLongname", "kThreadId"}
Styles    == {"default", "colorful", "json", "custom"}
NullText  == <<"null">>     \* the word null in a file: no path

\* A pointer: nullptr, to a string of the program, or to an array.
Null       == [to |-> "nothing", text |-> <<>>]
Array      == [to |-> "array", text |-> <<>>]
Literal(s) == [to |-> "literal", text |-> s]
Pointers   == {Null, Array} \cup {Literal(s) : s \in Literals}

Behind == "?"     \* what lies behind an array: not a character of any text
Texts  == Seq(Characters \cup {"null", Behind})

Optional(S) == {{}} \cup {{x} : x \in S}

ASSUME ConstantsAssumption ==
  /\ Cap \in Nat /\ MB \in Nat \ {0} /\ MaxCalls \in Nat
  /\ IntMax \in Nat /\ IntMax >= 128 * MB
  /\ RollSizes \subseteq Int /\ FlagSets \subseteq SUBSET AllFlags
  /\ Literals \subseteq Texts
  /\ \A f \in Files : f.roll_size \in Int /\ f.out_file \in Texts
                     /\ f.fmt_string \subseteq Texts /\ f.name \subseteq Texts
  /\ DOMAIN SameSum \cap (Levels \cup Styles) = {}

VARIABLES
  config,   \* GlobalConfig::Get()
  arrays,   \* t_filepath, t_log_name and t_fmt_string up to the last character written
  saved,    \* the file that loadToJSON wrote: none or one, with what it was made of
  running,  \* the path LoggerImpl was created with: none before the first log call
  crashed,  \* the program read through a null pointer
  asked,    \* the roll_size of the file that was loaded last, none once a setter was called
  ncalls    \* the calls so far

vars == <<config, arrays, saved, running, crashed, asked, ncalls>>

Init ==
  /\ config = [log_flag |-> kStdFlags, log_level |-> kDebug, log_name |-> Null,
               style |-> "default", format |-> Null, log_rollSize |-> 20 * MB,
               log_flushInterval |-> 3, log_filepath |-> Null, log_console |-> TRUE]
  /\ arrays = [filepath |-> <<>>, log_name |-> <<>>, fmt_string |-> <<>>]
  /\ saved = {} /\ running = {} /\ crashed = FALSE /\ asked = {} /\ ncalls = 0

Call == ~crashed /\ ncalls < MaxCalls /\ ncalls' = ncalls + 1

(***************************************************************************)
(* Texts.  strncpy with the size of the text neither clears what the array *)
(* held behind it nor ends the text; a fresh array is all zero, so its     *)
(* text ends at the last character ever written, unless that is the last   *)
(* of the array: a reader then runs on into what lies behind.             *)
(***************************************************************************)
Copy(array, text) == text \o SubSeq(array, Len(text) + 1, Len(array))

ReadArray(array) == IF Len(array) = Cap THEN Append(array, Behind) ELSE array

Read(pointer, array) == IF pointer = Array THEN ReadArray(array) ELSE pointer.text

(***************************************************************************)
(* Setters.                                                                *)
(***************************************************************************)
Set(field, value) ==
  /\ Call
  /\ config' = [config EXCEPT ![field] = value]
  /\ asked' = {}
  /\ UNCHANGED <<arrays, saved, running, crashed>>

SetFormatter(style, format) ==
  /\ Call
  /\ config' = [config EXCEPT !.style = style, !.format = format]
  /\ asked' = {}
  /\ UNCHANGED <<arrays, saved, running, crashed>>

Setters ==
  \/ \E n \in RollSizes : Set("log_rollSize", n)
  \/ \E n \in {1, 3} : Set("log_flushInterval", n)
  \/ \E s \in BOOLEAN : Set("log_console", s)
  \/ \E l \in Levels : Set("log_level", l)
  \/ \E flags \in FlagSets : Set("log_flag", flags)
  \/ \E s \in Literals : Set("log_filepath", Literal(s)) \/ Set("log_name", Literal(s))
  \/ \E style \in Styles \ {"custom"} : SetFormatter(style, Null)
  \/ \E s \in Literals : SetFormatter("custom", Literal(s))

(***************************************************************************)
(* loadFromJSON.  A text that is too long throws after what was read       *)
(* before it has been assigned.                                            *)
(***************************************************************************)
HasPath(f) == f.out_file \notin {<<>>, NullText}

PathFits(f)   == HasPath(f) => Len(f.out_file) <= Cap
FormatFits(f) == \A s \in f.fmt_string : Len(s) <= Cap
NameFits(f)   == \A s \in f.name : Len(s) <= Cap
Fits(f)       == PathFits(f) /\ FormatFits(f) /\ NameFits(f)

FlagNamed == [date |-> {"kDate"}, time |-> {"kTime"}, file |-> {"kLongname"},
              short_file |-> {"kShortname"}, tid |-> {"kThreadId"}, line |-> {"kLine"},
              func |-> {"kFuncName"}, default |-> kStdFlags]

\* The switches compare sums of characters, not words.
OP_INT(word) == IF word \in DOMAIN SameSum THEN SameSum[word] ELSE word

from_flags(names) == UNION {FlagNamed[n] : n \in {OP_INT(m) : m \in names} \cap DOMAIN FlagNamed}

MutantLevel(name) == OP_INT(name)
from_level(name)  == IF OP_INT(name) \in Levels THEN OP_INT(name) ELSE kDebug

\* An unknown style, or custom without a format string, is the default style.
from_formatter(f) ==
  LET style == OP_INT(f.formatter) IN
  IF style \notin Styles \/ (style = "custom" /\ f.fmt_string = {}) THEN "default" ELSE style

\* int arithmetic: it wraps where the product does not fit.
AsInt(n) == ((n + IntMax + 1) % (2 * (IntMax + 1))) - (IntMax + 1)

MutantRollSize(f) == AsInt(f.roll_size * MB)
RollSize(f)       == AsInt((IF f.roll_size > 128 THEN 4 ELSE f.roll_size) * MB)

ArrayIf(present) == IF present THEN Array ELSE Null

Loaded(f) ==
  [log_flag |-> from_flags(f.flag), log_level |-> from_level(f.level),
   log_name |-> ArrayIf(f.name # {}),
   style |-> from_formatter(f), format |-> ArrayIf(from_formatter(f) = "custom"),
   log_rollSize |-> RollSize(f), log_flushInterval |-> f.flush_interval,
   log_filepath |-> ArrayIf(HasPath(f)), log_console |-> f.out_console]

\* What a load has done to the configuration when a later text is refused.
AfterPath(f) == [config EXCEPT !.log_filepath = ArrayIf(HasPath(f))]

CopyIf(present, array, texts) == IF present THEN Copy(array, CHOOSE s \in texts : TRUE) ELSE array

PathCopied(f)   == [arrays EXCEPT !.filepath = CopyIf(HasPath(f), @, {f.out_file})]

\* The name is copied before its length is checked.
MutantFormatCopied(f) == [PathCopied(f) EXCEPT !.fmt_string = CopyIf(f.fmt_string # {}, @, f.fmt_string),
                                               !.log_name = CopyIf(f.name # {}, @, f.name)]
FormatCopied(f) == [PathCopied(f) EXCEPT !.fmt_string = CopyIf(f.fmt_string # {}, @, f.fmt_string)]

NameCopied(f)   == [FormatCopied(f) EXCEPT !.log_name = CopyIf(f.name # {}, @, f.name)]

LoadFails(f) ==
  /\ Call
  /\ \/ /\ ~PathFits(f)
        /\ UNCHANGED <<config, arrays>>
     \/ /\ PathFits(f) /\ ~FormatFits(f)
        /\ config' = AfterPath(f) /\ arrays' = PathCopied(f)
     \/ /\ PathFits(f) /\ FormatFits(f) /\ ~NameFits(f)
        /\ config' = AfterPath(f) /\ arrays' = FormatCopied(f)
  /\ UNCHANGED <<saved, running, crashed, asked>>

LoadSucceeds(f) ==
  /\ Call
  /\ Fits(f)
  /\ config' = Loaded(f) /\ arrays' = NameCopied(f)
  /\ asked' = {f.roll_size}
  /\ UNCHANGED <<saved, running, crashed>>

SavedFiles == {s.file : s \in saved}

loadFromJSON == \E f \in Files \cup SavedFiles : LoadFails(f) \/ LoadSucceeds(f)

(***************************************************************************)
(* loadToJSON.                                                             *)
(***************************************************************************)
\* flags | kDate and its like are never zero, whatever the flags are.
to_flags(flags) == DOMAIN FlagNamed \ {"default"}

MutantMegabytes(n) == n
\* C++ division rounds towards zero.
Megabytes(n)       == IF n >= 0 THEN n \div MB ELSE -((-n) \div MB)

\* What the configuration says, its pointers followed.
Settings ==
  [log_flag |-> config.log_flag, log_level |-> config.log_level, style |-> config.style,
   log_rollSize |-> config.log_rollSize, log_flushInterval |-> config.log_flushInterval,
   log_console |-> config.log_console,
   filepath |-> Read(config.log_filepath, arrays.filepath),
   name |-> Read(config.log_name, arrays.log_name),
   format |-> Read(config.format, arrays.fmt_string)]

Written ==
  [roll_size |-> Megabytes(config.log_rollSize), flush_interval |-> config.log_flushInterval,
   out_console |-> config.log_console,
   out_file |-> IF config.log_filepath = Null THEN NullText ELSE Settings.filepath,
   flag |-> to_flags(config.log_flag), level |-> config.log_level,
   formatter |-> config.style, name |-> {}, fmt_string |-> {}]

\* A custom formatter is not a plain function: to_formatter returns nullptr for it.
loadToJSON ==
  /\ Call
  /\ crashed' = (config.style = "custom")
  /\ saved' = IF crashed' THEN saved
              ELSE {[file |-> Written, from |-> Settings, asked |-> asked]}
  /\ UNCHANGED <<config, arrays, running, asked>>

(***************************************************************************)
(* LoggerImpl is created by the first log call; if there is a path it is   *)
(* handed, as the pointer it is, to the AsyncLogging and its LogFile.      *)
(***************************************************************************)
init_data ==
  /\ ~crashed /\ running = {}
  /\ running' = {config.log_filepath}
  /\ UNCHANGED <<config, arrays, saved, crashed, asked, ncalls>>

Next == Setters \/ loadFromJSON \/ loadToJSON \/ init_data

Spec == Init /\ [][Next]_vars

-------------------------------------------------------------------------------
(***************************************************************************)
(* Properties.                                                             *)
(***************************************************************************)
\* Every variable keeps its type: whatever a file says, the level, the flags
\* and the style are ones the library knows, and no array is overrun.
TypeOK ==
  /\ config.log_flag \subseteq AllFlags /\ config.log_level \in Levels
  /\ config.style \in Styles /\ config.log_rollSize \in Int
  /\ {config.log_name, config.format, config.log_filepath} \subseteq Pointers
  /\ \A a \in DOMAIN arrays : Len(arrays[a]) <= Cap
  /\ Cardinality(saved) <= 1 /\ running \in Optional(Pointers)
  /\ Cardinality(asked) <= 1 /\ asked \subseteq Int
  /\ crashed \in BOOLEAN /\ ncalls \in 0..MaxCalls

\* A roll size that came from a file which asks for none below zero is at most
\* 128 MB and has not wrapped around, however large the file wants it and
\* however often it was saved and loaded again (the check of roll_size before
\* it is multiplied; a number below zero is not checked, see SizeClamped).
RollSizeInRange == \A n \in asked : n >= 0 => config.log_rollSize \in 0..(128 * MB)

\* Saved and loaded again, in whatever state the arrays are by then, the
\* level, the style, the interval and the console switch are what they were,
\* the path begins as it did (unless it is the word that stands for none), and
\* the roll size is what it was if it came from a file that asks for none below
\* zero.  The flags and the name are not kept (FlagsSurvive, NameSurvives).
LoadSaveLoad ==
  [][\A s \in saved : LoadSucceeds(s.file) =>
       /\ \A field \in {"log_level", "style", "log_flushInterval", "log_console"} :
            Settings'[field] = s.from[field]
       /\ s.from.filepath # NullText => IsPrefix(s.from.filepath, Settings'.filepath)
       /\ \A n \in s.asked : n >= 0 => Settings'.log_rollSize = s.from.log_rollSize]_vars

\* What a load that throws may change of what is in effect: the path, if the
\* file's is not the one refused, and then to one that begins with the file's;
\* and the text of a custom format that an earlier load has put into effect, if
\* the name alone is refused, for the file's format is in the array by then.
\* Everything else stays: what is read after the refused text has not been
\* assigned (the length checks of loadFromJSON against its assignments).
FailedLoadKeeps ==
  [][\A f \in Files \cup SavedFiles : LoadFails(f) =>
       /\ \A field \in DOMAIN Settings \ {"filepath", "format"} : Settings'[field] = Settings[field]
       /\ IF PathFits(f) THEN HasPath(f) => IsPrefix(f.out_file, Settings'.filepath)
                         ELSE Settings'.filepath = Settings.filepath
       /\ Settings'.format # Settings.format =>
            /\ PathFits(f) /\ FormatFits(f) /\ config.format = Array
            /\ \E s \in f.fmt_string : IsPrefix(s, Settings'.format)]_vars

\* What a load puts into effect is what the file says, for every text in it.
\* README.md:230: loadFromJSON reads "information from the json file to set
\* the variable value of `GlobalConfig`".  Violated: config.cc:274 copies a
\* shorter text over a longer one and keeps the end of the longer one.
LoadedAsWritten ==
  [][\A f \in Files : LoadSucceeds(f) =>
       /\ HasPath(f) => Settings'.filepath = f.out_file
       /\ \A s \in f.name : Settings'.name = s]_vars

\* A file whose level is none of the six gets the debug level.  config.cc:225:
\* "not valid level,default use debug level."  Violated: the switch takes any
\* anagram of a level, and any word of the same sum, for that level.
UnknownIsDebug ==
  [][\A f \in Files : LoadSucceeds(f) /\ f.level \notin Levels => config'.log_level = kDebug]_vars

\* No text in effect runs past its array.  config.cc:272: "`filepath` length
\* must be less than 1024".  Violated: a text of exactly 1024 is accepted, and
\* strncpy leaves no room for its end.
TextsEnd ==
  /\ config.log_filepath = Array => Len(arrays.filepath) < Cap
  /\ config.log_name = Array => Len(arrays.log_name) < Cap
  /\ config.format = Array => Len(arrays.fmt_string) < Cap

\* A file that was saved asks for the flags that were set.  README.md:230:
\* loadToJSON serves to "generate the corresponding json file".  Violated:
\* config.cc:177 tests flags | kDate, which is never zero.
FlagsSurvive == \A s \in saved : from_flags(s.file.flag) = s.from.log_flag

\* A file that was saved says the name that was set.  README.md:230: loadToJSON
\* serves to "generate the corresponding json file".  Violated: the name is not
\* among the fields that config.cc:78 writes.
NameSurvives == \A s \in saved : s.from.name # <<>> => s.file.name = {s.from.name}

\* No roll size from a file is above 128 MB.  config.cc:301: "roll_size must be
\* less than 128mb".  Violated: the product of a number below -2048 does not fit
\* an int and wraps around (undefined behaviour, by its usual outcome).
SizeClamped == asked # {} => config.log_rollSize <= 128 * MB

\* A file that was saved asks for the roll size that was set.  README.md:205:
\* setRollSize takes it "with mb as the base unit".  Violated: config.cc:23
\* stores bytes, so that setRollSize(4) is saved as 0 megabytes.
SizeSurvives == \A s \in saved : RollSize(s.file) = s.from.log_rollSize

\* Saving does not fail.  README.md:230: loadToJSON serves to "generate the
\* corresponding json file".  Violated: with a custom formatter config.cc:329
\* makes a string of a null pointer.
SaveSurvives == ~crashed

\* The path of the running back end does not change under it.  README.md:192:
\* "GlobalConfig contains some special one-time configuration".  Violated: the
\* back end keeps a pointer into t_filepath, which the next load overwrites.
OneTimePath ==
  [][running # {} =>
       \A p \in running : Read(p, arrays'.filepath) = Read(p, arrays.filepath)]_vars
===============================================================================
