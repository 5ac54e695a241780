----------------------------- MODULE MCFormatting -----------------------------
EXTENDS Formatting

Config(style, flags, name, format, callbacks) ==
  [style |-> style, log_flag |-> flags, log_name |-> name, format |-> format,
   callbacks |-> callbacks]

kStdFlags == {"kDate", "kTime", "kShortname", "kLine", "kFuncName"}
AllFlags  == kStdFlags \cup {"kLongname", "kThreadId"}

Characters == {"%", "v", "T", "x"}
Formats    == UNION {[1..n -> Characters] : n \in 0..4}

\* Every directive once, colours around them.
EveryDirective == <<"%", "c", "%", "L", "%", "l", "%", "t", "%", "F", "%", "f", "%", "e",
                    "%", "n", "%", "%", "%", "v", "%", "C">>

FixedStyles == {"default", "colorful", "json"}

CustomConfigs == {Config("custom", {"kTime"}, NoName, f, FALSE) : f \in Formats}

FixedConfigs ==
  {Config(style, flags, "name", <<>>, FALSE) : style \in FixedStyles,
     flags \in {{}, {"kLine", "kShortname"}, {"kDate", "kLongname"}, kStdFlags, AllFlags}}
  \cup {Config("custom", flags, "name", EveryDirective, FALSE) : flags \in {kStdFlags, AllFlags}}

CallbackConfigs ==
  {Config("colorful", {"kTime"}, NoName, <<>>, TRUE), Config("custom", {}, NoName, <<"%", "t">>, TRUE)}

SomeConfigs == CustomConfigs \cup FixedConfigs \cup CallbackConfigs

Message(level, err, located) == [level |-> level, err |-> err, located |-> located]

SomeMessages == {Message(5, 2, TRUE), Message(4, 999, FALSE)}

\* Five hours and a half ahead of UTC, an hour more in summer.
HalfPast == 19800
Summer   == [t \in Times |-> IF t = 1 THEN HalfPast ELSE HalfPast + 3600]

\* Ten hours behind UTC, for NeverAborts.
West   == -36000
InWest == [t \in Times |-> West]
===============================================================================
