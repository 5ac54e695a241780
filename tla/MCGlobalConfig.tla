---------------------------- MODULE MCGlobalConfig ----------------------------
EXTENDS GlobalConfig

File(path, format, name, style, size, flag, level) ==
  [out_file |-> path, fmt_string |-> format, name |-> name, formatter |-> style,
   roll_size |-> size, flag |-> flag, level |-> level,
   flush_interval |-> 2, out_console |-> FALSE]

A   == <<"a">>
BB  == <<"b", "b">>
CCC == <<"c", "c", "c">>
Long == <<"d", "d", "d", "d">>

\* No text that fills its array, so that each is ended.
ShortFiles ==
  {File(A, {}, {}, "colorful", 4, {"date", "tid"}, "info"),
   File(BB, {BB}, {BB}, "custom", 4000, {"default"}, "loud"),
   File(NullText, {A}, {A}, "custom", 128, {"file", "misspelt"}, "fatal"),
   File(<<>>, {}, {A}, "custom", -1, {}, "trace")}

\* The first number below zero whose megabytes do not fit an int.
BelowInt == -((IntMax + 1) \div MB) - 1

\* Texts that fill their array, a size below zero, and texts that are refused, one by one.
MoreFiles ==
  ShortFiles \cup
  {File(CCC, {}, {}, "json", 129, {"life", "func"}, "trcae"),
   File(Long, {A}, {A}, "default", 1, {"time"}, "error"),
   File(BB, {Long}, {BB}, "default", 1, {"time"}, "error"),
   File(BB, {CCC}, {Long}, "custom", 2, {"short_file"}, "unknown"),
   File(NullText, {}, {}, "default", BelowInt, {"line"}, "warn")}

\* Anagrams of a level and of a flag.
Anagrams == [trcae |-> "trace", life |-> "file"]

TwoLiterals == {<<"e">>, NullText}
SomeSizes   == {4, -20 * MB}
SomeFlags   == {{}, AllFlags}
===============================================================================
