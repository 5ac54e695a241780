------------------------------ MODULE Formatter ------------------------------
(***************************************************************************)
(* What the four formatters (src/formatter.cc) put into a line, as         *)
(* functions of the configuration, the context of the message and the      *)
(* destination.  A line is a sequence of fields <<kind, value>>; brackets, *)
(* keys and other fixed text are left out.  A field whose text depends on  *)
(* the thread that formats it (time, error text) is only named here.       *)
(*                                                                         *)
(* A configuration is a record of log_flag, log_name, the style of its     *)
(* formatter and, for a custom one, the format: a sequence of characters.  *)
(***************************************************************************)
EXTENDS Integers, SequencesExt

kError     == 4
LevelCount == 6

LongTexts  == <<"TRACE", "DEBUG", "INFO", "WARN", "ERROR", "FATAL", "UNKOW">>
ShortTexts == <<"TRC", "DEB", "INF", "WAR", "ERR", "FAL", "UNK">>

NoName == "nullptr"

InRange(level) == IF level \in 0..(LevelCount - 1) THEN level ELSE LevelCount

GET_LEVEL_TEXT(level, simple) ==
  (IF simple THEN ShortTexts ELSE LongTexts)[InRange(level) + 1]

When(condition, fields) == IF condition THEN fields ELSE <<>>

Chars(text) == [i \in DOMAIN text |-> <<"char", text[i]>>]

(***************************************************************************)
(* Fields.                                                                 *)
(***************************************************************************)
IS_SET(flag, config) == flag \in config.log_flag

Name(config) == When(config.log_name # NoName, <<<<"name", config.log_name>>>>)

\* getCurDateTime(kTime): the date alone, or date, time and zone.
DateTime(config) == <<<<"time", IF IS_SET("kTime", config) THEN "full" ELSE "date">>>>

LevelField(ctx, simple) == <<<<"level", GET_LEVEL_TEXT(ctx.level, simple)>>>>

Tid == <<<<"tid", "of the context">>>>

\* The names and the line are null and 0 without a source_location.
HasFile(config, ctx) ==
  ctx.located /\ (IS_SET("kLongname", config) \/ IS_SET("kShortname", config))

Filename(config) == <<<<"file", IF IS_SET("kLongname", config) THEN "long" ELSE "short">>>>

LineNumber == <<<<"line", "of the context">>>>

Function(config, ctx) == When(ctx.located /\ IS_SET("kFuncName", config), <<<<"func", "of the context">>>>)

Text(ctx) == <<<<"text", ctx.id>>>>

HasError(ctx) == ctx.level >= kError /\ ctx.err # 0

ErrorCode(ctx) == When(HasError(ctx), <<<<"code", ctx.err>>>>)

ColourStart(ctx) == <<<<"colour", InRange(ctx.level)>>>>
ColourEnd        == <<<<"colour end", "">>>>

Coloured(ctx, fields) == ColourStart(ctx) \o fields \o ColourEnd

(***************************************************************************)
(* The formatters with a fixed layout.                                     *)
(***************************************************************************)
defaultFormatter(config, ctx) ==
  Name(config)
  \o When(IS_SET("kDate", config), DateTime(config))
  \o LevelField(ctx, FALSE)
  \o When(IS_SET("kThreadId", config), Tid)
  \o When(HasFile(config, ctx), Filename(config) \o LineNumber)
  \o Function(config, ctx)
  \o Text(ctx) \o ErrorCode(ctx)

MutantColorful(config, ctx, sink) ==
  IF sink = "console" THEN Coloured(ctx, defaultFormatter(config, [ctx EXCEPT !.err = 0]))
                      ELSE defaultFormatter(config, ctx)

colorfulFormatter(config, ctx, sink) ==
  LET Paint(fields) == IF sink = "console" THEN Coloured(ctx, fields) ELSE fields IN
  When(config.log_name # NoName, Paint(Name(config)))
  \o When(IS_SET("kDate", config), DateTime(config))
  \o Paint(LevelField(ctx, FALSE))
  \o When(IS_SET("kThreadId", config), Tid)
  \o When(HasFile(config, ctx), Filename(config) \o LineNumber)
  \o Function(config, ctx)
  \o Paint(Text(ctx) \o ErrorCode(ctx))

\* The time is in it whatever kDate says; the line only with kLine.
jsonFormatter(config, ctx) ==
  Name(config)
  \o DateTime(config)
  \o LevelField(ctx, TRUE)
  \o When(IS_SET("kThreadId", config), Tid)
  \o When(HasFile(config, ctx), Filename(config) \o When(IS_SET("kLine", config), LineNumber))
  \o Function(config, ctx)
  \o Text(ctx)

(***************************************************************************)
(* customStringFormatter.                                                  *)
(***************************************************************************)
MutantOnConsole(sink, fields) == fields
OnConsole(sink, fields)       == When(sink = "console", fields)

\* The arms of the switch, by the letter behind the '%'.
Letters == {"T", "t", "F", "f", "e", "L", "l", "v", "n", "c", "C", "%"}

Directive(letter, config, ctx, sink) ==
  CASE letter = "T" -> DateTime(config)
    [] letter = "t" -> Tid
    [] letter = "F" -> When(HasFile(config, ctx),
                            Filename(config) \o When(IS_SET("kLine", config), LineNumber))
    [] letter = "f" -> Function(config, ctx)
    [] letter = "e" -> When(HasError(ctx), <<<<"error", ctx.err>>>>)
    [] letter = "L" -> LevelField(ctx, FALSE)
    [] letter = "l" -> LevelField(ctx, TRUE)
    [] letter = "v" -> Text(ctx)
    [] letter = "n" -> Name(config)
    [] letter = "c" -> OnConsole(sink, ColourStart(ctx))
    [] letter = "C" -> OnConsole(sink, ColourEnd)
    [] letter = "%" -> Chars(<<"%">>)

\* OP_INT adds the characters up: of two that begin with '%' the sum tells the
\* second.  Anything else is appended as it is, a lone '%' at the end too.
Operation(op, config, ctx, sink) ==
  IF Len(op) = 2 /\ op[2] \in Letters THEN Directive(op[2], config, ctx, sink) ELSE Chars(op)

\* find('%') from a position on; one past the end if there is none.
NextPercent(format, from) ==
  Min({i \in from..Len(format) : format[i] = "%"} \cup {Len(format) + 1})

MutantWidth(op) == 1
Width(op)       == Len(op)

\* The loop: From[i] is what it appends once index stands at the '%' at i.
customStringFormatter(config, ctx, sink) ==
  LET format == config.format
      Literal(i) == Chars(SubSeq(format, i, NextPercent(format, i) - 1))
      From[i \in 1..(Len(format) + 1)] ==
        IF i > Len(format) THEN <<>>
        ELSE LET op    == SubSeq(format, i, Min({i + 1, Len(format)}))
                 index == i + Width(op)
             IN  Operation(op, config, ctx, sink)
                 \o Literal(index) \o From[NextPercent(format, index)]
  IN  Literal(1) \o From[NextPercent(format, 1)]

log_formatter(config, ctx, sink) ==
  CASE config.style = "default"  -> defaultFormatter(config, ctx)
    [] config.style = "colorful" -> colorfulFormatter(config, ctx, sink)
    [] config.style = "json"     -> jsonFormatter(config, ctx)
    [] config.style = "custom"   -> customStringFormatter(config, ctx, sink)

-----------------------------------------------------------------------------
(***************************************************************************)
(* The reading of a format, position by position, that the loop is checked *)
(* against.  A '%' begins a directive unless the one before it does: iff   *)
(* it is at an odd place of its run of '%'.                                *)
(***************************************************************************)
IsHead(format, i) ==
  LET others == {j \in 1..i : format[j] # "%"}
  IN  (i - Max(others \cup {0})) % 2 = 1

IsDirective(format, i) ==
  i \in 1..(Len(format) - 1) /\ IsHead(format, i) /\ format[i + 1] \in Letters

Reading(config, ctx, sink) ==
  LET format == config.format
      At(i)  == IF IsDirective(format, i) THEN Directive(format[i + 1], config, ctx, sink)
                ELSE IF IsDirective(format, i - 1) THEN <<>>
                ELSE Chars(<<format[i]>>)
  IN  FlattenSeq([i \in DOMAIN format |-> At(i)])

Colours == {"colour", "colour end"}

\* The fields that are, and those that are not, of some kinds.
OnlyOf(fields, kinds)  == FlattenSeq([i \in DOMAIN fields |-> When(fields[i][1] \in kinds, <<fields[i]>>)])
Without(fields, kinds) == FlattenSeq([i \in DOMAIN fields |-> When(fields[i][1] \notin kinds, <<fields[i]>>)])

Uncoloured(fields) == Without(fields, Colours)
==============================================================================
