--------------------------- MODULE FormattingProofs ---------------------------
(***************************************************************************)
(* The lines that are formatted, for all formats, configurations and       *)
(* messages, any number of threads and any nesting of callbacks: what a    *)
(* formatter names, and how the lines in progress keep to it.              *)
(***************************************************************************)
EXTENDS Formatting, SequenceLemmas

Context ==
  [id : Nat, tid : AllThreads, level : Nat, err : {m.err : m \in Messages}, located : BOOLEAN]

\* A field as formatters name it.  Names and the characters of a format are
\* strings; that the literals are, too, is nothing the provers know.
Kinds  == {"name", "time", "level", "tid", "file", "line", "func", "text", "code", "error",
           "colour", "colour end", "char"}
Words  == {"full", "date", "long", "short", "of the context", "", "%",
           "TRACE", "DEBUG", "INFO", "WARN", "ERROR", "FATAL", "UNKOW",
           "TRC", "DEB", "INF", "WAR", "ERR", "FAL", "UNK"}
Values == STRING \cup Words \cup Int \cup AllThreads
Plain  == Kinds \X Values

\* The fields that a line of a message may be asked for at a destination.
Named(ctx, sink) ==
  {f \in Plain : /\ f[1] = "error" => f[2] = ctx.err
                 /\ sink = "file" => f[1] \notin Colours}

-----------------------------------------------------------------------------
(***************************************************************************)
(* What the formatters name.                                               *)
(***************************************************************************)
LEMMA WhenType ==
  ASSUME NEW S, NEW b, NEW s \in Seq(S)
  PROVE  When(b, s) \in Seq(S)
BY DEF When

LEMMA One ==
  ASSUME NEW S, NEW e \in S
  PROVE  <<e>> \in Seq(S)
OBVIOUS

LEMMA LevelTexts ==
  ASSUME NEW level \in Nat, NEW simple
  PROVE  GET_LEVEL_TEXT(level, simple) \in Words /\ InRange(level) \in Int
<1>1. InRange(level) \in 0..6
  BY DEF InRange, LevelCount
<1>2. LongTexts \in Seq(Words) /\ Len(LongTexts) = 7
  BY DEF LongTexts, Words
<1>3. ShortTexts \in Seq(Words) /\ Len(ShortTexts) = 7
  BY DEF ShortTexts, Words
<1>4. InRange(level) + 1 \in 1..7
  BY <1>1
<1>5. \A i \in 1..7 : LongTexts[i] \in Words /\ ShortTexts[i] \in Words
  BY <1>2, <1>3, ElementOfSeq
<1> QED
  BY <1>1, <1>4, <1>5 DEF GET_LEVEL_TEXT

\* A field of one kind is one that may be asked for.
LEMMA PlainNamed ==
  ASSUME NEW ctx, NEW sink, NEW kind \in Kinds \ (Colours \cup {"error"}), NEW value \in Values
  PROVE  <<kind, value>> \in Named(ctx, sink)
BY DEF Named, Plain

LEMMA WordNamed ==
  ASSUME NEW ctx, NEW sink, NEW kind \in Kinds \ (Colours \cup {"error"}), NEW value \in Words
  PROVE  <<kind, value>> \in Named(ctx, sink)
BY PlainNamed DEF Values

LEMMA Parts ==
  ASSUME NEW c \in Configs, NEW ctx \in Context, NEW sink \in Sinks
  PROVE  LET S == Seq(Named(ctx, sink)) IN
         /\ Name(c) \in S /\ DateTime(c) \in S /\ Tid \in S /\ Filename(c) \in S /\ LineNumber \in S
         /\ Function(c, ctx) \in S /\ Text(ctx) \in S /\ ErrorCode(ctx) \in S
         /\ \A simple \in BOOLEAN : LevelField(ctx, simple) \in S
         /\ When(HasError(ctx), <<<<"error", ctx.err>>>>) \in S
         /\ sink = "console" => ColourStart(ctx) \in S /\ ColourEnd \in S
<1> DEFINE N == Named(ctx, sink)
<1>1. c.log_name \in Values /\ ctx.id \in Values /\ ctx.err \in Values /\ ctx.level \in Nat
  BY ConstantsAssumption DEF Context, Values
<1>2. {"name", "time", "level", "tid", "file", "line", "func", "text", "code"}
        \subseteq Kinds \ (Colours \cup {"error"})
      /\ "error" \in Kinds \ Colours /\ Colours \subseteq Kinds \ {"error"}
  BY DEF Kinds, Colours
<1>3. <<"name", c.log_name>> \in N /\ <<"text", ctx.id>> \in N /\ <<"code", ctx.err>> \in N
  BY <1>1, <1>2, PlainNamed
<1>4. {"full", "date", "long", "short", "of the context", ""} \subseteq Words
  BY DEF Words
<1>5. <<"tid", "of the context">> \in N /\ <<"line", "of the context">> \in N
      /\ <<"func", "of the context">> \in N
      /\ <<"time", "full">> \in N /\ <<"time", "date">> \in N
      /\ <<"file", "long">> \in N /\ <<"file", "short">> \in N
  BY <1>2, <1>4, WordNamed
<1>6. \A simple : <<"level", GET_LEVEL_TEXT(ctx.level, simple)>> \in N
  BY <1>1, <1>2, LevelTexts, WordNamed
<1>7. <<"error", ctx.err>> \in N
  BY <1>1, <1>2 DEF Named, Plain
<1>8. sink = "console" => <<"colour", InRange(ctx.level)>> \in N /\ <<"colour end", "">> \in N
  <2>1. InRange(ctx.level) \in Values /\ "" \in Values
    BY <1>1, <1>4, LevelTexts DEF Values
  <2>2. "colour" \in Kinds \ {"error"} /\ "colour end" \in Kinds \ {"error"}
    BY <1>2 DEF Colours
  <2> QED
    BY <2>1, <2>2 DEF Named, Plain
<1> HIDE DEF N
<1>9. Name(c) \in Seq(N) /\ Function(c, ctx) \in Seq(N) /\ ErrorCode(ctx) \in Seq(N)
      /\ When(HasError(ctx), <<<<"error", ctx.err>>>>) \in Seq(N)
  BY <1>3, <1>5, <1>7, WhenType, One DEF Name, Function, ErrorCode
<1>10. DateTime(c) \in Seq(N) /\ Filename(c) \in Seq(N) /\ Tid \in Seq(N) /\ LineNumber \in Seq(N)
      /\ Text(ctx) \in Seq(N)
  BY <1>3, <1>5, One DEF DateTime, Filename, Tid, LineNumber, Text
<1>11. \A simple \in BOOLEAN : LevelField(ctx, simple) \in Seq(N)
  BY <1>6, One DEF LevelField
<1>12. sink = "console" => ColourStart(ctx) \in Seq(N) /\ ColourEnd \in Seq(N)
  BY <1>8, One DEF ColourStart, ColourEnd
<1> QED
  BY <1>9, <1>10, <1>11, <1>12 DEF N

\* The formatters with a fixed layout.
LEMMA Joined ==
  ASSUME NEW S, NEW s \in Seq(S), NEW t \in Seq(S)
  PROVE  s \o t \in Seq(S)
BY ConcatProperties

LEMMA SevenJoined ==
  ASSUME NEW S, NEW a \in Seq(S), NEW b \in Seq(S), NEW c \in Seq(S), NEW d \in Seq(S),
         NEW e \in Seq(S), NEW f \in Seq(S), NEW g \in Seq(S)
  PROVE  a \o b \o c \o d \o e \o f \o g \in Seq(S)
<1>1. a \o b \o c \o d \in Seq(S)
  BY Joined
<1> QED
  BY <1>1, Joined

LEMMA FixedTypes ==
  ASSUME NEW c \in Configs, NEW ctx \in Context, NEW sink \in Sinks
  PROVE  /\ defaultFormatter(c, ctx) \in Seq(Named(ctx, sink))
         /\ colorfulFormatter(c, ctx, sink) \in Seq(Named(ctx, sink))
         /\ jsonFormatter(c, ctx) \in Seq(Named(ctx, sink))
<1> DEFINE N == Named(ctx, sink)
           Paint(fields) == IF sink = "console" THEN Coloured(ctx, fields) ELSE fields
<1>1. /\ Name(c) \in Seq(N) /\ DateTime(c) \in Seq(N) /\ Tid \in Seq(N) /\ Filename(c) \in Seq(N)
      /\ LineNumber \in Seq(N) /\ Function(c, ctx) \in Seq(N) /\ Text(ctx) \in Seq(N)
      /\ ErrorCode(ctx) \in Seq(N) /\ LevelField(ctx, FALSE) \in Seq(N) /\ LevelField(ctx, TRUE) \in Seq(N)
  BY Parts
<1>2. sink = "console" => ColourStart(ctx) \in Seq(N) /\ ColourEnd \in Seq(N)
  BY Parts
<1> HIDE DEF N
<1>3. \A s \in Seq(N) : Paint(s) \in Seq(N)
  BY <1>2, Joined DEF Coloured
<1>4. \A b : /\ When(b, Name(c)) \in Seq(N) /\ When(b, DateTime(c)) \in Seq(N) /\ When(b, Tid) \in Seq(N)
             /\ When(b, LineNumber) \in Seq(N) /\ When(b, Paint(Name(c))) \in Seq(N)
             /\ When(b, Filename(c) \o LineNumber) \in Seq(N)
             /\ When(b, Filename(c) \o When(IS_SET("kLine", c), LineNumber)) \in Seq(N)
  <2>1. Filename(c) \o LineNumber \in Seq(N) /\ Paint(Name(c)) \in Seq(N)
    BY <1>1, <1>3, Joined
  <2>2. Filename(c) \o When(IS_SET("kLine", c), LineNumber) \in Seq(N)
    BY <1>1, WhenType, Joined
  <2> HIDE DEF Paint
  <2> QED
    BY <1>1, <2>1, <2>2, WhenType
<1>5. Paint(LevelField(ctx, FALSE)) \in Seq(N) /\ Paint(Text(ctx) \o ErrorCode(ctx)) \in Seq(N)
  BY <1>1, <1>3, Joined
<1>6. defaultFormatter(c, ctx) \in Seq(N)
  BY <1>1, <1>4, Joined DEF defaultFormatter
<1>7. jsonFormatter(c, ctx) \in Seq(N)
  BY <1>1, <1>4, Joined DEF jsonFormatter
<1>8. colorfulFormatter(c, ctx, sink) \in Seq(N)
  <2> HIDE DEF Paint
  <2> DEFINE name == When(c.log_name # NoName, Paint(Name(c)))
             date == When(IS_SET("kDate", c), DateTime(c))
             level == Paint(LevelField(ctx, FALSE))
             tid == When(IS_SET("kThreadId", c), Tid)
             file == When(HasFile(c, ctx), Filename(c) \o LineNumber)
             func == Function(c, ctx)
             text == Paint(Text(ctx) \o ErrorCode(ctx))
  <2>1. colorfulFormatter(c, ctx, sink) = name \o date \o level \o tid \o file \o func \o text
    BY DEF colorfulFormatter, Paint
  <2>2. name \in Seq(N) /\ date \in Seq(N) /\ tid \in Seq(N) /\ file \in Seq(N)
    BY <1>4
  <2>3. level \in Seq(N) /\ func \in Seq(N) /\ text \in Seq(N)
    BY <1>1, <1>5
  <2> HIDE DEF name, date, level, tid, file, func, text
  <2> QED
    BY <2>1, <2>2, <2>3, SevenJoined
<1> QED
  BY <1>6, <1>7, <1>8 DEF N

\* What one operation of a custom format appends.
LEMMA CharsType ==
  ASSUME NEW ctx, NEW sink, NEW s \in Seq(STRING)
  PROVE  Chars(s) \in Seq(Named(ctx, sink))
<1>1. "char" \in Kinds \ (Colours \cup {"error"})
  BY DEF Kinds, Colours
<1>2. \A i \in DOMAIN s : <<"char", s[i]>> \in Named(ctx, sink)
  <2> TAKE i \in DOMAIN s
  <2>1. s[i] \in Values
    BY DEF Values
  <2> QED
    BY <1>1, <2>1, PlainNamed
<1> QED
  BY <1>2 DEF Chars

LEMMA DirectiveType ==
  ASSUME NEW c \in Configs, NEW ctx \in Context, NEW sink \in Sinks, NEW letter \in Letters
  PROVE  Directive(letter, c, ctx, sink) \in Seq(Named(ctx, sink))
<1> DEFINE N == Named(ctx, sink)
<1>1. /\ Name(c) \in Seq(N) /\ DateTime(c) \in Seq(N) /\ Tid \in Seq(N) /\ Filename(c) \in Seq(N)
      /\ LineNumber \in Seq(N) /\ Function(c, ctx) \in Seq(N) /\ Text(ctx) \in Seq(N)
      /\ LevelField(ctx, FALSE) \in Seq(N) /\ LevelField(ctx, TRUE) \in Seq(N)
      /\ When(HasError(ctx), <<<<"error", ctx.err>>>>) \in Seq(N)
  BY Parts
<1>2. OnConsole(sink, ColourStart(ctx)) \in Seq(N) /\ OnConsole(sink, ColourEnd) \in Seq(N)
  <2>1. sink = "console" => ColourStart(ctx) \in Seq(N) /\ ColourEnd \in Seq(N)
    BY Parts
  <2> HIDE DEF N
  <2>2. <<>> \in Seq(N)
    OBVIOUS
  <2> QED
    BY <2>1, <2>2 DEF OnConsole, When
<1>3. Chars(<<"%">>) \in Seq(N)
  <2>1. "char" \in Kinds \ (Colours \cup {"error"}) /\ "%" \in Words
    BY DEF Kinds, Colours, Words
  <2>2. <<"char", "%">> \in N
    BY <2>1, WordNamed
  <2>3. Chars(<<"%">>) = <<<<"char", "%">>>>
    BY DEF Chars
  <2> QED
    BY <2>2, <2>3, One
<1> HIDE DEF N
<1>4. When(HasFile(c, ctx), Filename(c) \o When(IS_SET("kLine", c), LineNumber)) \in Seq(N)
  BY <1>1, WhenType, Joined
<1> QED
  BY <1>1, <1>2, <1>3, <1>4 DEF N, Directive, Letters

-----------------------------------------------------------------------------
(***************************************************************************)
(* The loop of customStringFormatter.                                      *)
(***************************************************************************)
Op(format, i)    == SubSeq(format, i, Min({i + 1, Len(format)}))
Index(format, i) == i + Width(Op(format, i))
Literal(format, i) == Chars(SubSeq(format, i, NextPercent(format, i) - 1))

\* What the loop appends from the position i on, if F is that of later ones.
Appends(F, i, c, ctx, sink) ==
  IF i > Len(c.format) THEN <<>>
  ELSE Operation(Op(c.format, i), c, ctx, sink)
       \o Literal(c.format, Index(c.format, i))
       \o F[NextPercent(c.format, Index(c.format, i))]

LEMMA LeastOf ==
  ASSUME NEW S \in SUBSET Nat, S # {}
  PROVE  Min(S) \in S /\ \A x \in S : Min(S) <= x
<1>1. \E x \in S : \A y \in S : x <= y
  BY LeastNumber
<1> QED
  BY <1>1 DEF Min

LEMMA NextFound ==
  ASSUME NEW format \in Seq(STRING), NEW from \in 1..(Len(format) + 1)
  PROVE  /\ NextPercent(format, from) \in from..(Len(format) + 1)
         /\ NextPercent(format, from) <= Len(format) => format[NextPercent(format, from)] = "%"
         /\ \A j \in from..(NextPercent(format, from) - 1) : format[j] # "%"
<1> DEFINE S == {i \in from..Len(format) : format[i] = "%"} \cup {Len(format) + 1}
           p == Min(S)
<1>1. Len(format) \in Nat
  OBVIOUS
<1>2. S \in SUBSET Nat /\ S # {} /\ Len(format) + 1 \in S
  BY <1>1
<1>3. \A x \in S : x \in from..(Len(format) + 1) /\ (x <= Len(format) => format[x] = "%")
  BY <1>1
<1>4. \A j \in from..Len(format) : format[j] = "%" => j \in S
  OBVIOUS
<1> HIDE DEF S
<1>5. p \in S /\ \A x \in S : p <= x
  BY <1>2, LeastOf
<1> HIDE DEF p
<1>6. p \in from..(Len(format) + 1) /\ (p <= Len(format) => format[p] = "%")
  BY <1>3, <1>5
<1>7. ASSUME NEW j \in from..(p - 1) PROVE format[j] # "%"
  <2>1. j \in from..Len(format) /\ ~(p <= j)
    BY <1>1, <1>6
  <2> QED
    BY <1>4, <1>5, <2>1
<1>8. NextPercent(format, from) = p
  BY DEF NextPercent, p, S
<1> QED
  BY <1>6, <1>7, <1>8

LEMMA ShortSeq ==
  ASSUME NEW S, NEW s \in Seq(S)
  PROVE  /\ Len(s) = 1 => s = <<s[1]>>
         /\ Len(s) = 2 => s = <<s[1], s[2]>>
OBVIOUS

LEMMA OpIs ==
  ASSUME NEW format \in Seq(STRING), NEW i \in 1..Len(format)
  PROVE  /\ Op(format, i) \in Seq(STRING)
         /\ i < Len(format) => Op(format, i) = <<format[i], format[i + 1]>> /\ Index(format, i) = i + 2
         /\ i = Len(format) => Op(format, i) = <<format[i]>> /\ Index(format, i) = i + 1
         /\ Index(format, i) \in (i + 1)..(Len(format) + 1)
<1>1. Len(format) \in Nat /\ i \in Nat /\ {i + 1, Len(format)} \in SUBSET Nat
  OBVIOUS
<1>2. \A j \in 1..Len(format) : format[j] \in STRING
  OBVIOUS
<1>3. CASE i < Len(format)
  <2>1. Min({i + 1, Len(format)}) = i + 1
    BY <1>1, <1>3, LeastOf
  <2>2. SubSeq(format, i, i + 1) = <<format[i], format[i + 1]>>
    <3>1. i \in Int /\ i + 1 \in Int /\ \A j \in i..(i + 1) : format[j] \in STRING
      BY <1>1, <1>2, <1>3
    <3> DEFINE s == SubSeq(format, i, i + 1)
    <3>2. s \in Seq(STRING) /\ Len(s) = (i + 1) - i + 1 /\ \A j \in 1..((i + 1) - i + 1) : s[j] = format[i + j - 1]
      BY <3>1, SubSeqProperties
    <3> HIDE DEF s
    <3>3. s \in Seq(STRING) /\ Len(s) = 2 /\ s[1] = format[i] /\ s[2] = format[i + 1]
      BY <1>1, <3>2
    <3>4. s = <<format[i], format[i + 1]>>
      BY <3>3, ShortSeq
    <3> QED
      BY <3>4 DEF s
  <2>3. Op(format, i) = <<format[i], format[i + 1]>>
    BY <2>1, <2>2 DEF Op
  <2>4. i \in 1..Len(format) /\ i + 1 \in 1..Len(format)
    BY <1>1, <1>3
  <2>5. Op(format, i) \in Seq(STRING) /\ Len(Op(format, i)) = 2
    BY <1>2, <2>3, <2>4
  <2>6. Index(format, i) = i + 2
    BY <2>5 DEF Index, Width
  <2> QED
    BY <1>1, <1>3, <2>3, <2>5, <2>6
<1>4. CASE i = Len(format)
  <2>1. Min({i + 1, Len(format)}) = i
    <3>1. /\ Min({i + 1, Len(format)}) \in {i + 1, Len(format)}
          /\ Min({i + 1, Len(format)}) <= Len(format)
      BY <1>1, LeastOf
    <3> QED
      BY <1>1, <1>4, <3>1
  <2>2. SubSeq(format, i, i) = <<format[i]>>
    <3>1. i \in Int /\ \A j \in i..i : format[j] \in STRING
      BY <1>1, <1>2
    <3> DEFINE s == SubSeq(format, i, i)
    <3>2. s \in Seq(STRING) /\ Len(s) = i - i + 1 /\ \A j \in 1..(i - i + 1) : s[j] = format[i + j - 1]
      BY <3>1, SubSeqProperties
    <3> HIDE DEF s
    <3>3. s \in Seq(STRING) /\ Len(s) = 1 /\ s[1] = format[i]
      BY <1>1, <3>2
    <3>4. s = <<format[i]>>
      BY <3>3, ShortSeq
    <3> QED
      BY <3>4 DEF s
  <2>3. Op(format, i) = <<format[i]>>
    BY <2>1, <2>2 DEF Op
  <2>4. Op(format, i) \in Seq(STRING) /\ Len(Op(format, i)) = 1
    BY <1>2, <2>3
  <2>5. Index(format, i) = i + 1
    BY <2>4 DEF Index, Width
  <2> QED
    BY <1>1, <1>4, <2>3, <2>4, <2>5
<1> QED
  BY <1>1, <1>3, <1>4

LEMMA LiteralType ==
  ASSUME NEW format \in Seq(STRING), NEW i \in 1..(Len(format) + 1), NEW ctx, NEW sink
  PROVE  Literal(format, i) \in Seq(Named(ctx, sink))
<1> DEFINE p == NextPercent(format, i)
<1>1. p \in i..(Len(format) + 1) /\ Len(format) \in Nat
  BY NextFound
<1> HIDE DEF p
<1>2. SubSeq(format, i, p - 1) \in Seq(STRING)
  <2>1. i \in Int /\ p - 1 \in Int /\ \A j \in i..(p - 1) : format[j] \in STRING
    BY <1>1
  <2> QED
    BY <2>1, SubSeqProperties
<1> QED
  BY <1>2, CharsType DEF Literal, p

LEMMA OperationType ==
  ASSUME NEW c \in Configs, NEW ctx \in Context, NEW sink \in Sinks, NEW op \in Seq(STRING)
  PROVE  Operation(op, c, ctx, sink) \in Seq(Named(ctx, sink))
BY CharsType, DirectiveType DEF Operation

\* Induction from the end of a format.
LEMMA Downward ==
  ASSUME NEW n \in Nat, NEW S, \A i \in 1..(n + 1) : (\A j \in (i + 1)..(n + 1) : j \in S) => i \in S
  PROVE  \A i \in 1..(n + 1) : i \in S
<1> DEFINE T == {d \in 0..n : n + 1 - d \notin S}
<1>1. T = {}
  <2> SUFFICES ASSUME T # {} PROVE FALSE
    OBVIOUS
  <2>1. T \in SUBSET Nat
    OBVIOUS
  <2>2. PICK d \in T : \A x \in T : d <= x
    <3> HIDE DEF T
    <3> QED
      BY <2>1, LeastNumber
  <2>3. d \in 0..n /\ n + 1 - d \notin S /\ n + 1 - d \in 1..(n + 1)
    OBVIOUS
  <2>4. ASSUME NEW j \in (n + 1 - d + 1)..(n + 1) PROVE j \in S
    <3>1. n + 1 - j \in 0..n /\ ~(d <= n + 1 - j) /\ n + 1 - (n + 1 - j) = j
      BY <2>3
    <3>2. n + 1 - j \notin T
      BY <2>2, <3>1
    <3> QED
      BY <3>1, <3>2
  <2> QED
    BY <2>3, <2>4
<1> SUFFICES ASSUME NEW i \in 1..(n + 1) PROVE i \in S
  OBVIOUS
<1>2. n + 1 - i \in 0..n /\ n + 1 - (n + 1 - i) = i
  OBVIOUS
<1> QED
  BY <1>1, <1>2

\* F is what the loop appends from every position from k on.
IsLoop(F, k, c, ctx, sink) ==
  \A i \in k..(Len(c.format) + 1) : F[i] = Appends(F, i, c, ctx, sink)

LEMMA LoopParts ==
  ASSUME NEW c \in Configs, NEW ctx \in Context, NEW sink \in Sinks, NEW i \in 1..Len(c.format)
  PROVE  /\ Operation(Op(c.format, i), c, ctx, sink) \o Literal(c.format, Index(c.format, i))
              \in Seq(Named(ctx, sink))
         /\ NextPercent(c.format, Index(c.format, i)) \in (i + 1)..(Len(c.format) + 1)
<1>1. c.format \in Seq(STRING) /\ Len(c.format) \in Nat
  BY ConstantsAssumption
<1>2. Op(c.format, i) \in Seq(STRING) /\ Index(c.format, i) \in (i + 1)..(Len(c.format) + 1)
  BY <1>1, OpIs
<1>3. Index(c.format, i) \in 1..(Len(c.format) + 1)
  BY <1>1, <1>2
<1>4. Operation(Op(c.format, i), c, ctx, sink) \in Seq(Named(ctx, sink))
      /\ Literal(c.format, Index(c.format, i)) \in Seq(Named(ctx, sink))
  BY <1>1, <1>2, <1>3, OperationType, LiteralType
<1>5. NextPercent(c.format, Index(c.format, i)) \in Index(c.format, i)..(Len(c.format) + 1)
  BY <1>1, <1>3, NextFound
<1> QED
  BY <1>1, <1>2, <1>4, <1>5, Joined

LEMMA LoopExists ==
  ASSUME NEW c \in Configs, NEW ctx \in Context, NEW sink \in Sinks,
         NEW k \in 1..(Len(c.format) + 1)
  PROVE  \E F \in [k..(Len(c.format) + 1) -> Seq(Named(ctx, sink))] : IsLoop(F, k, c, ctx, sink)
<1> DEFINE N == Named(ctx, sink)
           n == Len(c.format)
           Has(j) == \E F \in [j..(n + 1) -> Seq(N)] : IsLoop(F, j, c, ctx, sink)
           S == {j \in 1..(n + 1) : Has(j)}
<1>1. n \in Nat
  BY ConstantsAssumption
<1> HIDE DEF n, N
<1>2. Has(n + 1)
  <2> DEFINE F == [i \in (n + 1)..(n + 1) |-> <<>>]
  <2>1. F \in [(n + 1)..(n + 1) -> Seq(N)]
    OBVIOUS
  <2>2. IsLoop(F, n + 1, c, ctx, sink)
    BY <1>1 DEF IsLoop, Appends, n
  <2> QED
    BY <2>1, <2>2
<1>3. ASSUME NEW i \in 1..n, Has(i + 1) PROVE Has(i)
  <2> DEFINE first == Operation(Op(c.format, i), c, ctx, sink) \o Literal(c.format, Index(c.format, i))
             next == NextPercent(c.format, Index(c.format, i))
  <2>1. PICK F \in [(i + 1)..(n + 1) -> Seq(N)] : IsLoop(F, i + 1, c, ctx, sink)
    BY <1>3
  <2>2. first \in Seq(N) /\ next \in (i + 1)..(n + 1)
    BY LoopParts DEF n, N
  <2>3. \A G : Appends(G, i, c, ctx, sink) = first \o G[next]
    <3>1. ~(i > Len(c.format))
      BY <1>1 DEF n
    <3> QED
      BY <3>1, Zenon DEF Appends
  <2> HIDE DEF first, next
  <2> DEFINE G == [j \in i..(n + 1) |-> IF j = i THEN first \o F[next] ELSE F[j]]
  <2>4. first \o F[next] \in Seq(N)
    BY <2>2, Joined
  <2>5. G \in [i..(n + 1) -> Seq(N)]
    BY <1>1, <2>4
  <2>6. \A j \in (i + 1)..(n + 1) : G[j] = F[j]
    BY <1>1
  <2>7. G[i] = Appends(G, i, c, ctx, sink)
    <3>1. G[i] = first \o F[next] /\ G[next] = F[next]
      BY <1>1, <2>2, <2>6
    <3> HIDE DEF G
    <3> QED
      BY <2>3, <3>1
  <2>8. ASSUME NEW j \in (i + 1)..(n + 1) PROVE G[j] = Appends(G, j, c, ctx, sink)
    <3>1. F[j] = Appends(F, j, c, ctx, sink)
      BY <2>1 DEF IsLoop, n
    <3>2. CASE j <= n
      <4>1. j \in 1..n
        BY <1>1, <3>2
      <4>2. NextPercent(c.format, Index(c.format, j)) \in (j + 1)..(n + 1)
        BY <4>1, LoopParts DEF n
      <4>3. NextPercent(c.format, Index(c.format, j)) \in (i + 1)..(n + 1)
        BY <1>1, <4>2
      <4>4. G[NextPercent(c.format, Index(c.format, j))] = F[NextPercent(c.format, Index(c.format, j))]
        BY <2>6, <4>3
      <4> HIDE DEF G
      <4>5. Appends(G, j, c, ctx, sink) = Appends(F, j, c, ctx, sink)
        BY <4>4 DEF Appends
      <4> QED
        BY <2>6, <3>1, <4>5
    <3>3. CASE ~(j <= n)
      <4> HIDE DEF G
      <4>1. Appends(G, j, c, ctx, sink) = Appends(F, j, c, ctx, sink)
        BY <1>1, <3>3 DEF Appends, n
      <4> QED
        BY <2>6, <3>1, <4>1
    <3> QED
      BY <3>2, <3>3
  <2>9. IsLoop(G, i, c, ctx, sink)
    <3> HIDE DEF G
    <3> SUFFICES ASSUME NEW j \in i..(n + 1) PROVE G[j] = Appends(G, j, c, ctx, sink)
      BY DEF IsLoop, n
    <3>1. j = i \/ j \in (i + 1)..(n + 1)
      BY <1>1
    <3> QED
      BY <2>7, <2>8, <3>1
  <2> QED
    BY <2>5, <2>9
<1>4. ASSUME NEW i \in 1..(n + 1), \A j \in (i + 1)..(n + 1) : j \in S PROVE i \in S
  <2> HIDE DEF Has
  <2>1. CASE i = n + 1
    BY <1>2, <2>1
  <2>2. CASE i # n + 1
    <3>1. i \in 1..n /\ i + 1 \in (i + 1)..(n + 1)
      BY <1>1, <2>2
    <3>2. Has(i + 1)
      BY <1>4, <3>1
    <3> QED
      BY <1>3, <3>1, <3>2
  <2> QED
    BY <2>1, <2>2
<1>5. \A i \in 1..(n + 1) : i \in S
  <2> HIDE DEF S
  <2> QED
    BY <1>1, <1>4, Downward
<1>6. Has(k)
  <2> HIDE DEF Has
  <2> QED
    BY <1>5 DEF n
<1> QED
  BY <1>6 DEF n, N

LEMMA LoopUnique ==
  ASSUME NEW c \in Configs, NEW ctx \in Context, NEW sink \in Sinks, NEW F, NEW G,
         IsLoop(F, 1, c, ctx, sink), IsLoop(G, 1, c, ctx, sink)
  PROVE  \A i \in 1..(Len(c.format) + 1) : F[i] = G[i]
<1> DEFINE n == Len(c.format)
           S == {i \in 1..(n + 1) : F[i] = G[i]}
<1>1. n \in Nat
  BY ConstantsAssumption
<1>2. ASSUME NEW i \in 1..(n + 1), \A j \in (i + 1)..(n + 1) : F[j] = G[j]
      PROVE  F[i] = G[i]
  <2>1. F[i] = Appends(F, i, c, ctx, sink) /\ G[i] = Appends(G, i, c, ctx, sink)
    BY DEF IsLoop
  <2>2. CASE i <= n
    <3>1. NextPercent(c.format, Index(c.format, i)) \in (i + 1)..(n + 1)
      BY <1>1, <2>2, LoopParts
    <3>2. F[NextPercent(c.format, Index(c.format, i))] = G[NextPercent(c.format, Index(c.format, i))]
      BY <1>2, <3>1
    <3> QED
      BY <2>1, <3>2 DEF Appends
  <2>3. CASE ~(i <= n)
    <3>1. i > Len(c.format)
      BY <1>1, <2>3
    <3> QED
      BY <2>1, <3>1 DEF Appends
  <2> QED
    BY <2>2, <2>3
<1> HIDE DEF n
<1>3. ASSUME NEW i \in 1..(n + 1), \A j \in (i + 1)..(n + 1) : j \in S PROVE i \in S
  <2>1. \A j \in (i + 1)..(n + 1) : F[j] = G[j]
    BY <1>3
  <2> QED
    BY <1>2, <2>1
<1>4. \A i \in 1..(n + 1) : i \in S
  <2> HIDE DEF S
  <2> QED
    BY <1>1, <1>3, Downward
<1> QED
  BY <1>4 DEF n

\* A custom format is what such a function says of its first '%'.
LEMMA CustomIs ==
  ASSUME NEW c \in Configs, NEW ctx \in Context, NEW sink \in Sinks
  PROVE  \E F \in [1..(Len(c.format) + 1) -> Seq(Named(ctx, sink))] :
           /\ IsLoop(F, 1, c, ctx, sink)
           /\ customStringFormatter(c, ctx, sink) = Literal(c.format, 1) \o F[NextPercent(c.format, 1)]
<1> DEFINE n == Len(c.format)
           Rec(F) == [i \in 1..(n + 1) |-> Appends(F, i, c, ctx, sink)]
           from == CHOOSE F : F = Rec(F)
<1>1. n \in Nat /\ 1 \in 1..(n + 1) /\ c.format \in Seq(STRING)
  BY ConstantsAssumption
<1>2. customStringFormatter(c, ctx, sink) = Literal(c.format, 1) \o from[NextPercent(c.format, 1)]
  BY DEF customStringFormatter, Appends, Literal, Op, Index
<1>3. PICK G \in [1..(n + 1) -> Seq(Named(ctx, sink))] : IsLoop(G, 1, c, ctx, sink)
  BY <1>1, LoopExists
<1>4. G = Rec(G)
  BY <1>3 DEF IsLoop
<1>5. from = Rec(from)
  <2> HIDE DEF Rec
  <2> QED
    BY <1>4
<1>6. IsLoop(from, 1, c, ctx, sink)
  <2> HIDE DEF from
  <2> QED
    BY <1>5 DEF IsLoop
<1>7. NextPercent(c.format, 1) \in 1..(n + 1)
  BY <1>1, NextFound
<1>8. from[NextPercent(c.format, 1)] = G[NextPercent(c.format, 1)]
  <2> HIDE DEF from
  <2> QED
    BY <1>3, <1>6, <1>7, LoopUnique
<1> QED
  <2> HIDE DEF from
  <2> QED
    BY <1>2, <1>3, <1>8

LEMMA FormatterType ==
  ASSUME NEW c \in Configs, NEW ctx \in Context, NEW sink \in Sinks
  PROVE  log_formatter(c, ctx, sink) \in Seq(Named(ctx, sink))
<1>1. c.style \in Styles /\ c.format \in Seq(STRING)
  BY ConstantsAssumption
<1>2. customStringFormatter(c, ctx, sink) \in Seq(Named(ctx, sink))
  <2>1. PICK F \in [1..(Len(c.format) + 1) -> Seq(Named(ctx, sink))] :
          customStringFormatter(c, ctx, sink) = Literal(c.format, 1) \o F[NextPercent(c.format, 1)]
    BY CustomIs
  <2>2. 1 \in 1..(Len(c.format) + 1)
    BY <1>1
  <2>3. NextPercent(c.format, 1) \in 1..(Len(c.format) + 1)
    BY <1>1, <2>2, NextFound
  <2>4. Literal(c.format, 1) \in Seq(Named(ctx, sink)) /\ F[NextPercent(c.format, 1)] \in Seq(Named(ctx, sink))
    BY <1>1, <2>2, <2>3, LiteralType
  <2> QED
    BY <2>1, <2>4, Joined
<1> QED
  BY <1>1, <1>2, FixedTypes DEF log_formatter, Styles

-----------------------------------------------------------------------------
(***************************************************************************)
(* Taking kinds of fields out of a line, and stripping it of what threads  *)
(* put into it.                                                            *)
(***************************************************************************)
\* The parts that FlattenSeq joins in Without and OnlyOf.
Split(fields, kinds)  == [i \in DOMAIN fields |-> When(fields[i][1] \notin kinds, <<fields[i]>>)]
Splits(fields, kinds) == [i \in DOMAIN fields |-> When(fields[i][1] \in kinds, <<fields[i]>>)]

LEMMA SplitAppend ==
  ASSUME NEW S, NEW s \in Seq(S), NEW e \in S, NEW K
  PROVE  /\ Split(s, K) \in Seq(Seq(S)) /\ Splits(s, K) \in Seq(Seq(S))
         /\ Split(Append(s, e), K) = Append(Split(s, K), When(e[1] \notin K, <<e>>))
         /\ Splits(Append(s, e), K) = Append(Splits(s, K), When(e[1] \in K, <<e>>))
<1> DEFINE n == Len(s)
           t == Append(s, e)
<1>1. n \in Nat /\ DOMAIN s = 1..n /\ \A i \in 1..n : s[i] \in S
  OBVIOUS
<1>2. DOMAIN t = 1..(n + 1) /\ t[n + 1] = e /\ \A i \in 1..n : t[i] = s[i]
  BY AppendProperties
<1> HIDE DEF t, n
<1>3. \A b, f : f \in S => When(b, <<f>>) \in Seq(S)
  BY WhenType, One
<1>4. Split(s, K) \in Seq(Seq(S)) /\ Splits(s, K) \in Seq(Seq(S))
      /\ Len(Split(s, K)) = n /\ Len(Splits(s, K)) = n
  BY <1>1, <1>3 DEF Split, Splits
<1>5. When(e[1] \notin K, <<e>>) \in Seq(S) /\ When(e[1] \in K, <<e>>) \in Seq(S)
  BY <1>3
<1>6. Split(t, K) = Append(Split(s, K), When(e[1] \notin K, <<e>>))
  <2> DEFINE new == When(e[1] \notin K, <<e>>)
             u == Append(Split(s, K), new)
  <2>1. u \in Seq(Seq(S)) /\ Len(u) = n + 1 /\ u[n + 1] = new /\ \A i \in 1..n : u[i] = Split(s, K)[i]
    BY <1>1, <1>4, <1>5, AppendProperties
  <2>2. u = [i \in 1..(n + 1) |-> u[i]]
    BY <2>1
  <2>3. \A i \in 1..(n + 1) : u[i] = When(t[i][1] \notin K, <<t[i]>>)
    <3> HIDE DEF u
    <3> TAKE i \in 1..(n + 1)
    <3>1. CASE i = n + 1
      BY <1>2, <2>1, <3>1
    <3>2. CASE i \in 1..n
      BY <1>1, <1>2, <2>1, <3>2 DEF Split
    <3> QED
      BY <1>1, <3>1, <3>2
  <2> HIDE DEF u
  <2> QED
    BY <1>2, <2>2, <2>3 DEF Split, u
<1>7. Splits(t, K) = Append(Splits(s, K), When(e[1] \in K, <<e>>))
  <2> DEFINE new == When(e[1] \in K, <<e>>)
             u == Append(Splits(s, K), new)
  <2>1. u \in Seq(Seq(S)) /\ Len(u) = n + 1 /\ u[n + 1] = new /\ \A i \in 1..n : u[i] = Splits(s, K)[i]
    BY <1>1, <1>4, <1>5, AppendProperties
  <2>2. u = [i \in 1..(n + 1) |-> u[i]]
    BY <2>1
  <2>3. \A i \in 1..(n + 1) : u[i] = When(t[i][1] \in K, <<t[i]>>)
    <3> HIDE DEF u
    <3> TAKE i \in 1..(n + 1)
    <3>1. CASE i = n + 1
      BY <1>2, <2>1, <3>1
    <3>2. CASE i \in 1..n
      BY <1>1, <1>2, <2>1, <3>2 DEF Splits
    <3> QED
      BY <1>1, <3>1, <3>2
  <2> HIDE DEF u
  <2> QED
    BY <1>2, <2>2, <2>3 DEF Splits, u
<1> QED
  BY <1>4, <1>6, <1>7 DEF t

LEMMA KindsAppend ==
  ASSUME NEW S, NEW s \in Seq(S), NEW e \in S, NEW K
  PROVE  /\ Without(s, K) \in Seq(S) /\ OnlyOf(s, K) \in Seq(S)
         /\ e[1] \in K => /\ Without(Append(s, e), K) = Without(s, K)
                          /\ OnlyOf(Append(s, e), K) = Append(OnlyOf(s, K), e)
         /\ e[1] \notin K => /\ Without(Append(s, e), K) = Append(Without(s, K), e)
                             /\ OnlyOf(Append(s, e), K) = OnlyOf(s, K)
<1>1. /\ Split(s, K) \in Seq(Seq(S)) /\ Splits(s, K) \in Seq(Seq(S))
      /\ Split(Append(s, e), K) = Append(Split(s, K), When(e[1] \notin K, <<e>>))
      /\ Splits(Append(s, e), K) = Append(Splits(s, K), When(e[1] \in K, <<e>>))
  BY SplitAppend
<1>2. When(e[1] \notin K, <<e>>) \in Seq(S) /\ When(e[1] \in K, <<e>>) \in Seq(S)
  BY WhenType, One
<1>3. \A f : Without(f, K) = FlattenSeq(Split(f, K)) /\ OnlyOf(f, K) = FlattenSeq(Splits(f, K))
  BY DEF Without, OnlyOf, Split, Splits
<1>4. /\ FlattenSeq(Split(s, K)) \in Seq(S)
      /\ FlattenSeq(Append(Split(s, K), When(e[1] \notin K, <<e>>))) =
           FlattenSeq(Split(s, K)) \o When(e[1] \notin K, <<e>>)
  BY <1>1, <1>2, FlattenAppend
<1>5. /\ FlattenSeq(Splits(s, K)) \in Seq(S)
      /\ FlattenSeq(Append(Splits(s, K), When(e[1] \in K, <<e>>))) =
           FlattenSeq(Splits(s, K)) \o When(e[1] \in K, <<e>>)
  BY <1>1, <1>2, FlattenAppend
<1>6. \A v \in Seq(S) : v \o <<>> = v /\ v \o <<e>> = Append(v, e)
  BY ConcatEmptySeq
<1>7. CASE e[1] \in K
  <2>1. When(e[1] \notin K, <<e>>) = <<>> /\ When(e[1] \in K, <<e>>) = <<e>>
    BY <1>7 DEF When
  <2> QED
    BY <1>1, <1>3, <1>4, <1>5, <1>6, <1>7, <2>1
<1>8. CASE e[1] \notin K
  <2>1. When(e[1] \notin K, <<e>>) = <<e>> /\ When(e[1] \in K, <<e>>) = <<>>
    BY <1>8 DEF When
  <2> QED
    BY <1>1, <1>3, <1>4, <1>5, <1>6, <1>8, <2>1
<1> QED
  BY <1>7, <1>8

LEMMA KindsEmpty ==
  ASSUME NEW K
  PROVE  Without(<<>>, K) = <<>> /\ OnlyOf(<<>>, K) = <<>>
<1>1. [i \in DOMAIN <<>> |-> When(<<>>[i][1] \notin K, <<<<>>[i]>>)] = <<>>
      /\ [i \in DOMAIN <<>> |-> When(<<>>[i][1] \in K, <<<<>>[i]>>)] = <<>>
  OBVIOUS
<1> QED
  BY <1>1, FlattenEmpty DEF Without, OnlyOf

\* A set of sequences that has the empty one and all that are longer by one
\* element than one in it has all sequences.
LEMMA AllSeqs ==
  ASSUME NEW S, NEW G \in SUBSET Seq(S), <<>> \in G,
         \A s \in G, e \in S : Append(s, e) \in G
  PROVE  \A s \in Seq(S) : s \in G
<1> SUFFICES ASSUME NEW s \in Seq(S), s \notin G PROVE FALSE
  OBVIOUS
<1> DEFINE First(k) == SubSeq(s, 1, k)
           T == {k \in 0..Len(s) : First(k) \notin G}
<1>1. Len(s) \in Nat
  OBVIOUS
<1>2. First(Len(s)) = s /\ First(0) = <<>>
  BY <1>1, SubSeqFull, SubSeqEmpty
<1>3. ASSUME NEW k \in 1..Len(s), First(k - 1) \in G PROVE First(k) \in G
  <2>1. 1 \in 1..Len(s) /\ k \in 1..Len(s) /\ s[k] \in S
    <3>1. 1 \in 1..Len(s)
      BY <1>1
    <3> QED
      BY <3>1, ElementOfSeq
  <2>2. SubSeq(s, 1, k) = SubSeq(s, 1, k - 1) \o <<s[k]>>
    BY <2>1, SubSeqRecursiveSecond
  <2> HIDE DEF First
  <2>3. \A u \in Seq(S) : u \o <<s[k]>> = Append(u, s[k])
    OBVIOUS
  <2>4. First(k - 1) \in Seq(S)
    BY <1>3
  <2>5. First(k) = First(k - 1) \o <<s[k]>>
    BY <2>2 DEF First
  <2> QED
    BY <1>3, <2>1, <2>3, <2>4, <2>5
<1> HIDE DEF First
<1>4. T \in SUBSET Nat /\ Len(s) \in T
  BY <1>1, <1>2
<1>5. PICK k \in T : \A x \in T : k <= x
  <2> HIDE DEF T
  <2> QED
    BY <1>4, LeastNumber
<1>6. k \in 0..Len(s) /\ First(k) \notin G
  BY <1>5
<1>7. k # 0
  BY <1>2, <1>6
<1>8. k \in 1..Len(s) /\ k - 1 \in 0..Len(s) /\ ~(k <= k - 1)
  BY <1>1, <1>6, <1>7
<1>9. First(k - 1) \in G
  BY <1>5, <1>8
<1> QED
  BY <1>3, <1>6, <1>8, <1>9

LEMMA KindsType ==
  ASSUME NEW S, NEW s \in Seq(S), NEW K
  PROVE  Without(s, K) \in Seq(S) /\ OnlyOf(s, K) \in Seq(S)
<1>1. CASE S = {}
  <2>1. s = <<>> /\ <<>> \in Seq(S)
    BY <1>1, EmptySeq
  <2> QED
    BY <2>1, KindsEmpty
<1>2. CASE S # {}
  <2>1. PICK e : e \in S
    BY <1>2
  <2> QED
    BY <2>1, KindsAppend
<1> QED
  BY <1>1, <1>2

\* The same, once for each case.
LEMMA KindIn ==
  ASSUME NEW S, NEW K, NEW s \in Seq(S), NEW e \in S, e[1] \in K
  PROVE  Without(Append(s, e), K) = Without(s, K) /\ OnlyOf(Append(s, e), K) = Append(OnlyOf(s, K), e)
BY KindsAppend

LEMMA KindOut ==
  ASSUME NEW S, NEW K, NEW s \in Seq(S), NEW e \in S, e[1] \notin K
  PROVE  Without(Append(s, e), K) = Append(Without(s, K), e) /\ OnlyOf(Append(s, e), K) = OnlyOf(s, K)
BY KindsAppend

LEMMA KindsConcat ==
  ASSUME NEW S, NEW s \in Seq(S), NEW t \in Seq(S), NEW K
  PROVE  /\ Without(s \o t, K) = Without(s, K) \o Without(t, K)
         /\ OnlyOf(s \o t, K) = OnlyOf(s, K) \o OnlyOf(t, K)
<1> DEFINE Both(v, u) == /\ Without(v, K) = Without(s, K) \o Without(u, K)
                        /\ OnlyOf(v, K) = OnlyOf(s, K) \o OnlyOf(u, K)
           G == {u \in Seq(S) : Both(s \o u, u)}
<1>1. Both(s, <<>>)
  <2>1. /\ \A v \in Seq(S) : v \o <<>> = v
        /\ Without(s, K) \in Seq(S) /\ OnlyOf(s, K) \in Seq(S)
    BY ConcatEmptySeq, KindsType
  <2>2. Without(s, K) \o <<>> = Without(s, K) /\ OnlyOf(s, K) \o <<>> = OnlyOf(s, K)
    BY <2>1
  <2>3. Without(<<>>, K) = <<>> /\ OnlyOf(<<>>, K) = <<>>
    BY KindsEmpty
  <2> QED
    BY <2>2, <2>3, Zenon
<1>2. ASSUME NEW u \in Seq(S), NEW v \in Seq(S), NEW e \in S, Both(v, u)
      PROVE  Both(Append(v, e), Append(u, e))
  <2>1. Without(s, K) \in Seq(S) /\ Without(u, K) \in Seq(S) /\ OnlyOf(s, K) \in Seq(S) /\ OnlyOf(u, K) \in Seq(S)
    BY KindsType
  <2>2. Without(s, K) \o Append(Without(u, K), e) = Append(Without(v, K), e)
    BY <1>2, <2>1, AppendToConcat
  <2>3. OnlyOf(s, K) \o Append(OnlyOf(u, K), e) = Append(OnlyOf(v, K), e)
    BY <1>2, <2>1, AppendToConcat
  <2>4. ASSUME e[1] \in K
        PROVE  /\ Without(Append(v, e), K) = Without(s, K) \o Without(Append(u, e), K)
               /\ OnlyOf(Append(v, e), K) = OnlyOf(s, K) \o OnlyOf(Append(u, e), K)
    <3>1. Without(Append(u, e), K) = Without(u, K) /\ OnlyOf(Append(u, e), K) = Append(OnlyOf(u, K), e)
      BY <2>4, KindIn
    <3>2. Without(Append(v, e), K) = Without(v, K) /\ OnlyOf(Append(v, e), K) = Append(OnlyOf(v, K), e)
      BY <2>4, KindIn
    <3> QED
      BY <1>2, <2>3, <3>1, <3>2
  <2>5. ASSUME e[1] \notin K
        PROVE  /\ Without(Append(v, e), K) = Without(s, K) \o Without(Append(u, e), K)
               /\ OnlyOf(Append(v, e), K) = OnlyOf(s, K) \o OnlyOf(Append(u, e), K)
    <3>1. Without(Append(u, e), K) = Append(Without(u, K), e) /\ OnlyOf(Append(u, e), K) = OnlyOf(u, K)
      BY <2>5, KindOut
    <3>2. Without(Append(v, e), K) = Append(Without(v, K), e) /\ OnlyOf(Append(v, e), K) = OnlyOf(v, K)
      BY <2>5, KindOut
    <3> QED
      BY <1>2, <2>2, <3>1, <3>2
  <2> QED
    BY <2>4, <2>5
<1> HIDE DEF Both
<1>3. <<>> \in G
  <2>1. s \o <<>> = s /\ <<>> \in Seq(S)
    BY ConcatEmptySeq, EmptySeq
  <2> QED
    BY <1>1, <2>1
<1>4. \A u \in G, e \in S : Append(u, e) \in G
  <2> SUFFICES ASSUME NEW u \in Seq(S), NEW e \in S, Both(s \o u, u) PROVE Append(u, e) \in G
    OBVIOUS
  <2>1. s \o u \in Seq(S) /\ s \o Append(u, e) = Append(s \o u, e) /\ Append(u, e) \in Seq(S)
    BY Joined, AppendToConcat
  <2>2. Both(Append(s \o u, e), Append(u, e))
    BY <1>2, <2>1
  <2> QED
    BY <2>1, <2>2
<1>5. t \in G
  <2>1. G \in SUBSET Seq(S)
    OBVIOUS
  <2> HIDE DEF G
  <2> QED
    BY <1>3, <1>4, <2>1, AllSeqs
<1> QED
  BY <1>5 DEF Both

\* Of fields of other kinds nothing is taken out.
LEMMA NoneStep ==
  ASSUME NEW S, NEW K, NEW u \in Seq(S), NEW e \in S, e[1] \notin K,
         Without(u, K) = u, OnlyOf(u, K) = <<>>
  PROVE  Without(Append(u, e), K) = Append(u, e) /\ OnlyOf(Append(u, e), K) = <<>>
<1>1. Without(Append(u, e), K) = Append(Without(u, K), e) /\ OnlyOf(Append(u, e), K) = OnlyOf(u, K)
  BY KindOut
<1> QED
  BY <1>1

LEMMA KindsNone ==
  ASSUME NEW S, NEW K, \A f \in S : f[1] \notin K, NEW s \in Seq(S)
  PROVE  Without(s, K) = s /\ OnlyOf(s, K) = <<>>
<1> DEFINE G == {u \in Seq(S) : Without(u, K) = u /\ OnlyOf(u, K) = <<>>}
<1>1. <<>> \in G
  BY KindsEmpty
<1>2. \A u \in G, e \in S : Append(u, e) \in G
  <2> SUFFICES ASSUME NEW u \in Seq(S), NEW e \in S, Without(u, K) = u, OnlyOf(u, K) = <<>>
               PROVE  Append(u, e) \in G
    BY DEF G
  <2>1. e[1] \notin K
    OBVIOUS
  <2> HIDE DEF G
  <2>2. Append(u, e) \in Seq(S)
    BY AppendProperties
  <2>3. Without(Append(u, e), K) = Append(u, e) /\ OnlyOf(Append(u, e), K) = <<>>
    BY <2>1, NoneStep
  <2> QED
    BY <2>2, <2>3 DEF G
<1> HIDE DEF G
<1>3. s \in G
  <2>1. G \in SUBSET Seq(S)
    BY DEF G
  <2> QED
    BY <1>1, <1>2, <2>1, AllSeqs
<1> QED
  BY <1>3 DEF G

-----------------------------------------------------------------------------
(***************************************************************************)
(* What is printed, and what it says without marks, times and error texts. *)
(***************************************************************************)
Pairs == (Kinds \cup Marks) \X Values

\* The fields of a line.  A time is that of the second it was made in.
Printed(sink) ==
  {f \in Pairs : f[1] \notin {"time", "error"} /\ (sink = "file" => f[1] \notin Colours)}
  \cup {<<"time", w, s, z, s>> : w \in Values, s \in Times, z \in Int}
  \cup {<<"error", x, y>> : x \in Nat, y \in Nat}

TimelessOne(f) ==
  CASE f[1] = "time"  -> <<"time", f[2]>>
    [] f[1] = "error" -> <<"error", f[3]>>
    [] OTHER -> f

AskedOne(f, ctx) == IF f[1] = "tid" THEN <<"tid", ctx.tid>> ELSE f

LEMMA PrintedIs ==
  ASSUME NEW sink, NEW f \in Printed(sink)
  PROVE  /\ f \in Printed("console")
         /\ f[1] \in Kinds \cup Marks
         /\ sink = "file" => f[1] \notin Colours
         /\ f[1] = "time" => f[3] = f[5]
         /\ TimelessOne(f) \in Pairs /\ TimelessOne(f)[1] = f[1]
<1>1. {"time", "error"} \subseteq Kinds /\ "time" # "error" /\ "time" \notin Colours /\ "error" \notin Colours
      /\ Int \subseteq Values /\ "console" # "file"
  BY DEF Kinds, Colours, Values
<1>2. CASE f \in Pairs /\ f[1] \notin {"time", "error"} /\ (sink = "file" => f[1] \notin Colours)
  <2>1. f \in Printed("console")
    BY <1>1, <1>2 DEF Printed
  <2>2. TimelessOne(f) = f
    BY <1>2 DEF TimelessOne
  <2>3. f[1] \in Kinds \cup Marks
    BY <1>2 DEF Pairs
  <2> QED
    BY <1>2, <2>1, <2>2, <2>3
<1>3. ASSUME NEW w \in Values, NEW s \in Times, NEW z \in Int, f = <<"time", w, s, z, s>>
      PROVE  /\ f \in Printed("console") /\ f[1] = "time" /\ f[3] = f[5]
             /\ TimelessOne(f) \in Pairs /\ TimelessOne(f)[1] = "time"
  <2>1. TimelessOne(f) = <<"time", w>>
    BY <1>3 DEF TimelessOne
  <2> QED
    BY <1>1, <1>3, <2>1 DEF Printed, Pairs
<1>4. ASSUME NEW x \in Nat, NEW y \in Nat, f = <<"error", x, y>>
      PROVE  /\ f \in Printed("console") /\ f[1] = "error"
             /\ TimelessOne(f) \in Pairs /\ TimelessOne(f)[1] = "error"
  <2>1. TimelessOne(f) = <<"error", y>>
    BY <1>4 DEF TimelessOne
  <2> QED
    BY <1>1, <1>4, <2>1 DEF Printed, Pairs
<1> QED
  BY <1>1, <1>2, <1>3, <1>4 DEF Printed

LEMMA NamedIs ==
  ASSUME NEW ctx \in Context, NEW sink, NEW f \in Named(ctx, sink)
  PROVE  /\ f \in Pairs /\ f \in Plain /\ f[1] \in Kinds /\ f = <<f[1], f[2]>> /\ f[2] \in Values
         /\ f[1] = "error" => f[2] = ctx.err
         /\ sink = "file" => f[1] \notin Colours
         /\ f[1] \notin Marks
         /\ AskedOne(f, ctx) \in Pairs /\ AskedOne(f, ctx)[1] = f[1]
<1>1. f \in Kinds \X Values /\ (f[1] = "error" => f[2] = ctx.err) /\ (sink = "file" => f[1] \notin Colours)
  BY DEF Named, Plain
<1>2. ctx.tid \in Values /\ "tid" \in Kinds
  BY DEF Context, Values, Kinds
<1>3. f = <<f[1], f[2]>> /\ f[1] \in Kinds /\ f[2] \in Values
  BY <1>1
<1>4. f[1] \notin Marks
  BY <1>3 DEF Kinds, Marks
<1>5. AskedOne(f, ctx) \in Pairs /\ AskedOne(f, ctx)[1] = f[1]
  BY <1>2, <1>3 DEF AskedOne, Pairs
<1> QED
  BY <1>1, <1>3, <1>4, <1>5 DEF Pairs, Plain

\* Both work field by field.
LEMMA TimelessAppend ==
  ASSUME NEW S, NEW s \in Seq(S), NEW e \in S
  PROVE  Timeless(Append(s, e)) = Append(Timeless(s), TimelessOne(e))
<1> DEFINE T == {TimelessOne(f) : f \in S}
           n == Len(s)
           u == Append(s, e)
           v == Append(Timeless(s), TimelessOne(e))
<1>1. n \in Nat /\ DOMAIN s = 1..n /\ \A i \in 1..n : s[i] \in S
  OBVIOUS
<1>2. DOMAIN u = 1..(n + 1) /\ u[n + 1] = e /\ \A i \in 1..n : u[i] = s[i]
  BY AppendProperties
<1>3. Timeless(s) = [i \in 1..n |-> TimelessOne(s[i])] /\ Timeless(u) = [i \in 1..(n + 1) |-> TimelessOne(u[i])]
  BY <1>1, <1>2 DEF Timeless, TimelessOne
<1>0. \A f \in S : TimelessOne(f) \in T
  OBVIOUS
<1> HIDE DEF n, u, T
<1>4. Timeless(s) \in Seq(T) /\ Len(Timeless(s)) = n
  BY <1>0, <1>1, <1>3
<1>5. v \in Seq(T) /\ Len(v) = n + 1 /\ v[n + 1] = TimelessOne(e) /\ \A i \in 1..n : v[i] = Timeless(s)[i]
  BY <1>0, <1>4, AppendProperties
<1>6. v = [i \in 1..(n + 1) |-> v[i]]
  <2> HIDE DEF v
  <2> QED
    BY <1>1, <1>5
<1>7. \A i \in 1..(n + 1) : v[i] = TimelessOne(u[i])
  <2> HIDE DEF v
  <2> TAKE i \in 1..(n + 1)
  <2>1. CASE i = n + 1
    BY <1>2, <1>5, <2>1
  <2>2. CASE i \in 1..n
    BY <1>2, <1>3, <1>5, <2>2
  <2> QED
    BY <1>1, <2>1, <2>2
<1>8. v = Timeless(u)
  <2> HIDE DEF v
  <2> QED
    BY <1>3, <1>6, <1>7
<1> QED
  BY <1>8 DEF u

LEMMA AskedAppend ==
  ASSUME NEW S, NEW s \in Seq(S), NEW e \in S, NEW ctx
  PROVE  Asked(Append(s, e), ctx) = Append(Asked(s, ctx), AskedOne(e, ctx))
<1> DEFINE T == {AskedOne(f, ctx) : f \in S}
           n == Len(s)
           u == Append(s, e)
           v == Append(Asked(s, ctx), AskedOne(e, ctx))
<1>1. n \in Nat /\ DOMAIN s = 1..n /\ \A i \in 1..n : s[i] \in S
  OBVIOUS
<1>2. DOMAIN u = 1..(n + 1) /\ u[n + 1] = e /\ \A i \in 1..n : u[i] = s[i]
  BY AppendProperties
<1>3. Asked(s, ctx) = [i \in 1..n |-> AskedOne(s[i], ctx)] /\ Asked(u, ctx) = [i \in 1..(n + 1) |-> AskedOne(u[i], ctx)]
  BY <1>1, <1>2 DEF Asked, AskedOne
<1>0. \A f \in S : AskedOne(f, ctx) \in T
  OBVIOUS
<1> HIDE DEF n, u, T
<1>4. Asked(s, ctx) \in Seq(T) /\ Len(Asked(s, ctx)) = n
  BY <1>0, <1>1, <1>3
<1>5. v \in Seq(T) /\ Len(v) = n + 1 /\ v[n + 1] = AskedOne(e, ctx) /\ \A i \in 1..n : v[i] = Asked(s, ctx)[i]
  BY <1>0, <1>4, AppendProperties
<1>6. v = [i \in 1..(n + 1) |-> v[i]]
  <2> HIDE DEF v
  <2> QED
    BY <1>1, <1>5
<1>7. \A i \in 1..(n + 1) : v[i] = AskedOne(u[i], ctx)
  <2> HIDE DEF v
  <2> TAKE i \in 1..(n + 1)
  <2>1. CASE i = n + 1
    BY <1>2, <1>5, <2>1
  <2>2. CASE i \in 1..n
    BY <1>2, <1>3, <1>5, <2>2
  <2> QED
    BY <1>1, <2>1, <2>2
<1>8. v = Asked(u, ctx)
  <2> HIDE DEF v
  <2> QED
    BY <1>3, <1>6, <1>7
<1> QED
  BY <1>8 DEF u

-----------------------------------------------------------------------------
(***************************************************************************)
(* A field goes from what is still to be printed to what is printed: taken *)
(* together they say the same as before.                                   *)
(***************************************************************************)
Told(fields) == Timeless(Without(fields, Marks))

LEMMA HeadTail ==
  ASSUME NEW S, NEW s \in Seq(S), s # <<>>
  PROVE  /\ Head(s) \in S /\ Tail(s) \in Seq(S) /\ s = <<Head(s)>> \o Tail(s)
         /\ Len(Tail(s)) = Len(s) - 1 /\ Head(s) = s[1] /\ \A i \in 1..(Len(s) - 1) : Tail(s)[i] = s[i + 1]
OBVIOUS

LEMMA MoveOver ==
  ASSUME NEW S, NEW a \in Seq(S), NEW r \in Seq(S), NEW x \in S
  PROVE  Append(a, x) \o r = a \o (<<x>> \o r)
OBVIOUS

LEMMA AskedType ==
  ASSUME NEW ctx \in Context, NEW sink, NEW s \in Seq(Named(ctx, sink))
  PROVE  Asked(s, ctx) \in Seq(Pairs)
<1>1. \A i \in 1..Len(s) : AskedOne(s[i], ctx) \in Pairs
  BY NamedIs
<1>2. Asked(s, ctx) = [i \in 1..Len(s) |-> AskedOne(s[i], ctx)] /\ Len(s) \in Nat
  BY DEF Asked, AskedOne
<1> QED
  BY <1>1, <1>2

LEMMA AskedHead ==
  ASSUME NEW ctx \in Context, NEW sink, NEW s \in Seq(Named(ctx, sink)), s # <<>>
  PROVE  /\ AskedOne(Head(s), ctx) \in Pairs /\ Asked(Tail(s), ctx) \in Seq(Pairs)
         /\ Asked(s, ctx) = <<AskedOne(Head(s), ctx)>> \o Asked(Tail(s), ctx)
<1> DEFINE h == AskedOne(Head(s), ctx)
           r == Asked(Tail(s), ctx)
           v == <<h>> \o r
           n == Len(s)
<1>1. /\ Head(s) \in Named(ctx, sink) /\ Tail(s) \in Seq(Named(ctx, sink))
      /\ Len(Tail(s)) = n - 1 /\ Head(s) = s[1] /\ \A i \in 1..(n - 1) : Tail(s)[i] = s[i + 1]
  BY HeadTail
<1>2. n \in Nat /\ n # 0 /\ DOMAIN s = 1..n
  OBVIOUS
<1>3. h \in Pairs /\ r \in Seq(Pairs)
  BY <1>1, NamedIs, AskedType
<1>4. Len(r) = n - 1 /\ \A i \in 1..(n - 1) : r[i] = AskedOne(s[i + 1], ctx)
  <2>1. DOMAIN Tail(s) = 1..(n - 1)
    BY <1>1, <1>2
  <2>2. r = [i \in 1..(n - 1) |-> AskedOne(Tail(s)[i], ctx)]
    BY <2>1 DEF Asked, AskedOne
  <2> HIDE DEF r, n
  <2>3. DOMAIN r = 1..Len(r) /\ Len(r) \in Nat
    BY <1>3
  <2>4. Len(r) = n - 1
    BY <1>2, <2>2, <2>3
  <2> QED
    BY <1>1, <1>2, <2>2, <2>4
<1>5. Asked(s, ctx) = [i \in 1..n |-> AskedOne(s[i], ctx)]
  BY <1>2 DEF Asked, AskedOne
<1>6. h = AskedOne(s[1], ctx)
  BY <1>1
<1> HIDE DEF h, r, n
<1>7. v \in Seq(Pairs) /\ Len(v) = n /\ v[1] = h /\ \A i \in 2..n : v[i] = r[i - 1]
  BY <1>2, <1>3, <1>4
<1>8. v = [i \in 1..n |-> v[i]]
  <2> HIDE DEF v
  <2> QED
    BY <1>2, <1>7
<1>9. \A i \in 1..n : v[i] = AskedOne(s[i], ctx)
  <2> HIDE DEF v
  <2> TAKE i \in 1..n
  <2>1. CASE i = 1
    BY <1>6, <1>7, <2>1
  <2>2. CASE i \in 2..n
    <3>1. i - 1 \in 1..(n - 1) /\ (i - 1) + 1 = i
      BY <1>2, <2>2
    <3> QED
      BY <1>4, <1>7, <2>2, <3>1
  <2> QED
    BY <1>2, <2>1, <2>2
<1>10. v = Asked(s, ctx)
  <2> HIDE DEF v
  <2> QED
    BY <1>5, <1>8, <1>9
<1> QED
  BY <1>3, <1>10 DEF h, r

LEMMA TimelessType ==
  ASSUME NEW sink, NEW w \in Seq(Printed(sink))
  PROVE  Timeless(w) \in Seq(Pairs)
<1>1. Timeless(w) = [i \in 1..Len(w) |-> TimelessOne(w[i])] /\ Len(w) \in Nat
  BY DEF Timeless, TimelessOne
<1>2. \A i \in 1..Len(w) : TimelessOne(w[i]) \in Pairs
  BY PrintedIs
<1> QED
  BY <1>1, <1>2

LEMMA ToldAppend ==
  ASSUME NEW sink, NEW b \in Seq(Printed(sink)), NEW e \in Printed(sink)
  PROVE  /\ Told(b) \in Seq(Pairs)
         /\ e[1] \in Marks => Told(Append(b, e)) = Told(b)
         /\ e[1] \notin Marks => Told(Append(b, e)) = Append(Told(b), TimelessOne(e))
<1>1. \A f \in Printed(sink) : TimelessOne(f) \in Pairs
  BY PrintedIs
<1>2. Without(b, Marks) \in Seq(Printed(sink))
  BY KindsType
<1>3. Told(b) \in Seq(Pairs)
  BY <1>2, TimelessType DEF Told
<1>4. Timeless(Append(Without(b, Marks), e)) = Append(Told(b), TimelessOne(e))
  <2> DEFINE w == Without(b, Marks)
  <2>1. w \in Seq(Printed(sink))
    BY <1>2
  <2> HIDE DEF w
  <2>2. Timeless(Append(w, e)) = Append(Timeless(w), TimelessOne(e))
    BY <2>1, TimelessAppend
  <2> QED
    BY <2>2 DEF w, Told
<1>5. ASSUME e[1] \in Marks PROVE Told(Append(b, e)) = Told(b)
  <2>1. Without(Append(b, e), Marks) = Without(b, Marks)
    BY <1>5, KindIn
  <2> QED
    BY <2>1 DEF Told
<1>6. ASSUME e[1] \notin Marks PROVE Told(Append(b, e)) = Append(Told(b), TimelessOne(e))
  <2>1. Without(Append(b, e), Marks) = Append(Without(b, Marks), e)
    BY <1>6, KindOut
  <2> QED
    BY <1>4, <2>1 DEF Told
<1> QED
  BY <1>3, <1>5, <1>6

\* The colours of a sequence begin with its head, if that is one.
LEMMA ColoursHead ==
  ASSUME NEW S, NEW K, NEW s \in Seq(S), s # <<>>
  PROVE  /\ OnlyOf(Tail(s), K) \in Seq(S)
         /\ Head(s)[1] \in K => OnlyOf(s, K) = <<Head(s)>> \o OnlyOf(Tail(s), K)
         /\ Head(s)[1] \notin K => OnlyOf(s, K) = OnlyOf(Tail(s), K)
<1> DEFINE h == Head(s)
           r == Tail(s)
<1>1. h \in S /\ r \in Seq(S) /\ s = <<h>> \o r /\ <<h>> \in Seq(S) /\ <<>> \in Seq(S) /\ Append(<<>>, h) = <<h>>
  BY HeadTail
<1> HIDE DEF h, r
<1>2. OnlyOf(<<h>> \o r, K) = OnlyOf(<<h>>, K) \o OnlyOf(r, K) /\ OnlyOf(r, K) \in Seq(S)
  <2> DEFINE o == <<h>>
  <2>1. o \in Seq(S)
    BY <1>1
  <2> HIDE DEF o
  <2>2. OnlyOf(o \o r, K) = OnlyOf(o, K) \o OnlyOf(r, K)
    BY <1>1, <2>1, KindsConcat
  <2> QED
    BY <1>1, <2>2, KindsType DEF o
<1>3. ASSUME h[1] \in K PROVE OnlyOf(<<h>>, K) = <<h>>
  <2>1. OnlyOf(Append(<<>>, h), K) = Append(OnlyOf(<<>>, K), h)
    BY <1>1, <1>3, KindIn
  <2> QED
    BY <1>1, <2>1, KindsEmpty
<1>4. ASSUME h[1] \notin K PROVE OnlyOf(<<h>>, K) = <<>>
  <2>1. OnlyOf(Append(<<>>, h), K) = OnlyOf(<<>>, K)
    BY <1>1, <1>4, KindOut
  <2> QED
    BY <1>1, <2>1, KindsEmpty
<1>5. <<>> \o OnlyOf(r, K) = OnlyOf(r, K)
  BY <1>2, ConcatEmptySeq
<1> QED
  BY <1>1, <1>2, <1>3, <1>4, <1>5 DEF h, r

LEMMA FieldTold ==
  ASSUME NEW ctx \in Context, NEW sink, NEW b \in Seq(Printed(sink)),
         NEW todo \in Seq(Named(ctx, sink)), NEW e \in Printed(sink),
         todo # <<>>, e[1] = Head(todo)[1], TimelessOne(e) = AskedOne(Head(todo), ctx)
  PROVE  Told(Append(b, e)) \o Asked(Tail(todo), ctx) = Told(b) \o Asked(todo, ctx)
<1>1. Head(todo) \in Named(ctx, sink) /\ Tail(todo) \in Seq(Named(ctx, sink))
  BY HeadTail
<1>2. e[1] \notin Marks
  BY <1>1, NamedIs
<1>3. Told(b) \in Seq(Pairs) /\ Told(Append(b, e)) = Append(Told(b), TimelessOne(e))
  BY <1>2, ToldAppend
<1>4. /\ TimelessOne(e) \in Pairs /\ Asked(Tail(todo), ctx) \in Seq(Pairs)
      /\ Asked(todo, ctx) = <<TimelessOne(e)>> \o Asked(Tail(todo), ctx)
  BY AskedHead
<1> QED
  BY <1>3, <1>4, MoveOver

LEMMA FieldColours ==
  ASSUME NEW S, NEW b \in Seq(S), NEW todo \in Seq(S), NEW e \in S,
         todo # <<>>, e[1] = Head(todo)[1], e[1] \in Colours => e = Head(todo)
  PROVE  OnlyOf(Append(b, e), Colours) \o OnlyOf(Tail(todo), Colours)
              = OnlyOf(b, Colours) \o OnlyOf(todo, Colours)
<1>1. OnlyOf(b, Colours) \in Seq(S) /\ OnlyOf(Tail(todo), Colours) \in Seq(S)
  BY HeadTail, KindsType
<1>2. CASE e[1] \in Colours
  <2>1. OnlyOf(Append(b, e), Colours) = Append(OnlyOf(b, Colours), e)
    BY <1>2, KindIn
  <2>2. OnlyOf(todo, Colours) = <<e>> \o OnlyOf(Tail(todo), Colours)
    BY <1>2, ColoursHead
  <2> QED
    BY <1>1, <2>1, <2>2, MoveOver
<1>3. CASE e[1] \notin Colours
  <2>1. OnlyOf(Append(b, e), Colours) = OnlyOf(b, Colours)
    BY <1>3, KindOut
  <2>2. OnlyOf(todo, Colours) = OnlyOf(Tail(todo), Colours)
    BY <1>3, ColoursHead
  <2> QED
    BY <2>1, <2>2
<1> QED
  BY <1>2, <1>3

LEMMA MarkSaid ==
  ASSUME NEW sink, NEW b \in Seq(Printed(sink)), NEW e \in Printed(sink), e[1] \in Marks
  PROVE  Told(Append(b, e)) = Told(b) /\ OnlyOf(Append(b, e), Colours) = OnlyOf(b, Colours)
<1>1. e[1] \notin Colours
  BY DEF Marks, Colours
<1>2. OnlyOf(Append(b, e), Colours) = OnlyOf(b, Colours)
  BY <1>1, KindOut
<1> QED
  BY <1>2, ToldAppend

-----------------------------------------------------------------------------
(***************************************************************************)
(* What the formatters say with and without colours.  To ask for the       *)
(* thread id goes with dropping colours.                                   *)
(***************************************************************************)
LEMMA AskedEmpty ==
  ASSUME NEW ctx
  PROVE  Asked(<<>>, ctx) = <<>>
BY DEF Asked

LEMMA CommuteStep ==
  ASSUME NEW ctx \in Context, NEW sink, NEW u \in Seq(Named(ctx, sink)), NEW e \in Named(ctx, sink),
         Uncoloured(Asked(u, ctx)) = Asked(Uncoloured(u), ctx)
  PROVE  Uncoloured(Asked(Append(u, e), ctx)) = Asked(Uncoloured(Append(u, e)), ctx)
<1> DEFINE a == AskedOne(e, ctx)
           v == Asked(u, ctx)
           w == Uncoloured(u)
<1>1. a \in Pairs /\ a[1] = e[1] /\ v \in Seq(Pairs)
  BY NamedIs, AskedType
<1>2. w \in Seq(Named(ctx, sink))
  BY KindsType DEF Uncoloured
<1>3. Asked(Append(u, e), ctx) = Append(v, a)
  BY AskedAppend
<1>4. Asked(Append(w, e), ctx) = Append(Asked(w, ctx), a)
  <2> HIDE DEF w
  <2> QED
    BY <1>2, AskedAppend
<1>5. Uncoloured(v) = Asked(w, ctx)
  OBVIOUS
<1> HIDE DEF a, v, w
<1>6. CASE e[1] \in Colours
  <2>1. Without(Append(v, a), Colours) = Without(v, Colours)
    BY <1>1, <1>6, KindIn
  <2>2. Without(Append(u, e), Colours) = Without(u, Colours)
    BY <1>6, KindIn
  <2> QED
    BY <1>3, <1>5, <2>1, <2>2 DEF w, Uncoloured
<1>7. CASE e[1] \notin Colours
  <2>1. Without(Append(v, a), Colours) = Append(Without(v, Colours), a)
    BY <1>1, <1>7, KindOut
  <2>2. Without(Append(u, e), Colours) = Append(Without(u, Colours), e)
    BY <1>7, KindOut
  <2> QED
    BY <1>3, <1>4, <1>5, <2>1, <2>2 DEF w, Uncoloured
<1> QED
  BY <1>6, <1>7

LEMMA Commute ==
  ASSUME NEW ctx \in Context, NEW sink, NEW s \in Seq(Named(ctx, sink))
  PROVE  Uncoloured(Asked(s, ctx)) = Asked(Uncoloured(s), ctx)
<1> DEFINE N == Named(ctx, sink)
           G == {u \in Seq(N) : Uncoloured(Asked(u, ctx)) = Asked(Uncoloured(u), ctx)}
<1>1. <<>> \in G
  <2>1. <<>> \in Seq(N)
    BY EmptySeq
  <2>2. Uncoloured(<<>>) = <<>>
    BY KindsEmpty DEF Uncoloured
  <2> QED
    BY <2>1, <2>2, AskedEmpty
<1>2. \A u \in G, e \in N : Append(u, e) \in G
  <2> SUFFICES ASSUME NEW u \in Seq(N), NEW e \in N, Uncoloured(Asked(u, ctx)) = Asked(Uncoloured(u), ctx)
               PROVE  Append(u, e) \in G
    BY DEF G
  <2>1. Uncoloured(Asked(Append(u, e), ctx)) = Asked(Uncoloured(Append(u, e)), ctx)
    BY CommuteStep
  <2>2. Append(u, e) \in Seq(N)
    <3> HIDE DEF N
    <3> QED
      BY AppendProperties
  <2> QED
    BY <2>1, <2>2
<1> HIDE DEF G, N
<1>3. s \in G
  <2>1. G \in SUBSET Seq(N) /\ s \in Seq(N)
    BY DEF G, N
  <2> QED
    BY <1>1, <1>2, <2>1, AllSeqs
<1> QED
  BY <1>3 DEF G

\* Seven parts in a row.
SplitsInSeven(p, K) ==
  /\ Without(p[1] \o p[2] \o p[3] \o p[4] \o p[5] \o p[6] \o p[7], K) =
       Without(p[1], K) \o Without(p[2], K) \o Without(p[3], K) \o Without(p[4], K)
       \o Without(p[5], K) \o Without(p[6], K) \o Without(p[7], K)
  /\ OnlyOf(p[1] \o p[2] \o p[3] \o p[4] \o p[5] \o p[6] \o p[7], K) =
       OnlyOf(p[1], K) \o OnlyOf(p[2], K) \o OnlyOf(p[3], K) \o OnlyOf(p[4], K)
       \o OnlyOf(p[5], K) \o OnlyOf(p[6], K) \o OnlyOf(p[7], K)

LEMMA SevenKinds ==
  ASSUME NEW S, NEW K
  PROVE  \A p : (\A i \in 1..7 : p[i] \in Seq(S)) => SplitsInSeven(p, K)
<1>0. \A x, y \in Seq(S) : /\ Without(x \o y, K) = Without(x, K) \o Without(y, K)
                         /\ OnlyOf(x \o y, K) = OnlyOf(x, K) \o OnlyOf(y, K)
  BY KindsConcat
<1> SUFFICES ASSUME NEW p, \A i \in 1..7 : p[i] \in Seq(S) PROVE SplitsInSeven(p, K)
  OBVIOUS
<1> DEFINE a == p[1]
           b == p[2]
           c == p[3]
           d == p[4]
           e == p[5]
           f == p[6]
           g == p[7]
<1>9. /\ a \in Seq(S) /\ b \in Seq(S) /\ c \in Seq(S) /\ d \in Seq(S)
      /\ e \in Seq(S) /\ f \in Seq(S) /\ g \in Seq(S)
  OBVIOUS
<1> HIDE DEF a, b, c, d, e, f, g
<1> DEFINE ab == a \o b
           abc == ab \o c
           abcd == abc \o d
           abcde == abcd \o e
           abcdef == abcde \o f
<1>1. /\ ab \in Seq(S) /\ abc \in Seq(S) /\ abcd \in Seq(S) /\ abcde \in Seq(S) /\ abcdef \in Seq(S)
  BY <1>9, Joined
<1>2. Without(ab, K) = Without(a, K) \o Without(b, K) /\ OnlyOf(ab, K) = OnlyOf(a, K) \o OnlyOf(b, K)
  BY <1>0, <1>9
<1> HIDE DEF ab
<1>3. Without(abc, K) = Without(ab, K) \o Without(c, K) /\ OnlyOf(abc, K) = OnlyOf(ab, K) \o OnlyOf(c, K)
  BY <1>0, <1>1, <1>9
<1> HIDE DEF abc
<1>4. Without(abcd, K) = Without(abc, K) \o Without(d, K) /\ OnlyOf(abcd, K) = OnlyOf(abc, K) \o OnlyOf(d, K)
  BY <1>0, <1>1, <1>9
<1> HIDE DEF abcd
<1>5. Without(abcde, K) = Without(abcd, K) \o Without(e, K) /\ OnlyOf(abcde, K) = OnlyOf(abcd, K) \o OnlyOf(e, K)
  BY <1>0, <1>1, <1>9
<1> HIDE DEF abcde
<1>6. Without(abcdef, K) = Without(abcde, K) \o Without(f, K) /\ OnlyOf(abcdef, K) = OnlyOf(abcde, K) \o OnlyOf(f, K)
  BY <1>0, <1>1, <1>9
<1> HIDE DEF abcdef
<1>7. /\ Without(abcdef \o g, K) = Without(abcdef, K) \o Without(g, K)
      /\ OnlyOf(abcdef \o g, K) = OnlyOf(abcdef, K) \o OnlyOf(g, K)
  BY <1>0, <1>1, <1>9
<1>8. /\ Without(a \o b \o c \o d \o e \o f \o g, K) =
           Without(a, K) \o Without(b, K) \o Without(c, K) \o Without(d, K)
           \o Without(e, K) \o Without(f, K) \o Without(g, K)
      /\ OnlyOf(a \o b \o c \o d \o e \o f \o g, K) =
           OnlyOf(a, K) \o OnlyOf(b, K) \o OnlyOf(c, K) \o OnlyOf(d, K)
           \o OnlyOf(e, K) \o OnlyOf(f, K) \o OnlyOf(g, K)
  BY <1>2, <1>3, <1>4, <1>5, <1>6, <1>7, Zenon DEF ab, abc, abcd, abcde, abcdef
<1> QED
  BY <1>8 DEF SplitsInSeven, a, b, c, d, e, f, g

\* What is painted is the same without its colours.
LEMMA SingleKind ==
  ASSUME NEW K, NEW S, NEW e \in S, e[1] \in K
  PROVE  Without(<<e>>, K) = <<>> /\ OnlyOf(<<e>>, K) = <<e>>
<1>1. <<>> \in Seq(S) /\ Append(<<>>, e) = <<e>>
  OBVIOUS
<1>2. Without(Append(<<>>, e), K) = Without(<<>>, K) /\ OnlyOf(Append(<<>>, e), K) = Append(OnlyOf(<<>>, K), e)
  BY <1>1, KindIn
<1> QED
  BY <1>1, <1>2, KindsEmpty

LEMMA NoColours ==
  ASSUME NEW ctx \in Context, NEW s \in Seq(Named(ctx, "file"))
  PROVE  Uncoloured(s) = s /\ OnlyOf(s, Colours) = <<>> /\ s \in Seq(Named(ctx, "console"))
<1> DEFINE P == Named(ctx, "file")
<1>1. \A f \in P : f[1] \notin Colours /\ f \in Named(ctx, "console")
  BY DEF Named
<1>2. s \in Seq(P)
  OBVIOUS
<1> HIDE DEF P
<1>3. Without(s, Colours) = s /\ OnlyOf(s, Colours) = <<>>
  BY <1>1, <1>2, KindsNone
<1>4. s \in Seq(Named(ctx, "console"))
  BY <1>1, <1>2
<1> QED
  BY <1>3, <1>4 DEF Uncoloured

Ends(ctx) == ColourStart(ctx) \o ColourEnd

LEMMA EscapesNamed ==
  ASSUME NEW ctx \in Context
  PROVE  /\ <<"colour", InRange(ctx.level)>> \in Named(ctx, "console")
         /\ <<"colour end", "">> \in Named(ctx, "console")
<1>1. InRange(ctx.level) \in Values /\ "" \in Values
  BY LevelTexts DEF Values, Words, Context
<1> QED
  BY <1>1 DEF Named, Plain, Kinds

LEMMA PaintKinds ==
  ASSUME NEW ctx \in Context, NEW s \in Seq(Named(ctx, "file"))
  PROVE  /\ Coloured(ctx, s) \in Seq(Named(ctx, "console"))
         /\ Without(Coloured(ctx, s), Colours) = s
         /\ OnlyOf(Coloured(ctx, s), Colours) = Ends(ctx)
<1> DEFINE N == Named(ctx, "console")
           e == <<"colour", InRange(ctx.level)>>
           d == <<"colour end", "">>
<1>0. \A x, y \in Seq(N) : /\ Without(x \o y, Colours) = Without(x, Colours) \o Without(y, Colours)
                           /\ OnlyOf(x \o y, Colours) = OnlyOf(x, Colours) \o OnlyOf(y, Colours)
  BY KindsConcat
<1>1. ColourStart(ctx) = <<e>> /\ ColourEnd = <<d>> /\ e[1] \in Colours /\ d[1] \in Colours
  BY DEF ColourStart, ColourEnd, Colours
<1>2. e \in N /\ d \in N
  BY EscapesNamed
<1>3. s \in Seq(N) /\ Without(s, Colours) = s /\ OnlyOf(s, Colours) = <<>>
  BY NoColours DEF Uncoloured
<1> HIDE DEF N, e, d
<1>4. Ends(ctx) = <<e>> \o <<d>> /\ Coloured(ctx, s) = <<e>> \o s \o <<d>>
  <2>1. Ends(ctx) = <<e>> \o <<d>>
    BY <1>1 DEF Ends
  <2>2. Coloured(ctx, s) = ColourStart(ctx) \o s \o ColourEnd
    BY DEF Coloured
  <2> QED
    BY <1>1, <2>1, <2>2, Zenon
<1>5. /\ Without(<<e>>, Colours) = <<>> /\ OnlyOf(<<e>>, Colours) = <<e>>
      /\ Without(<<d>>, Colours) = <<>> /\ OnlyOf(<<d>>, Colours) = <<d>>
  BY <1>1, <1>2, SingleKind
<1> DEFINE start == <<e>>
           end == <<d>>
           both == start \o s
<1>6. start \in Seq(N) /\ end \in Seq(N)
  BY <1>2
<1> HIDE DEF start, end
<1>7. both \in Seq(N) /\ both \o end \in Seq(N)
  BY <1>3, <1>6, Joined
<1>8. /\ Without(both, Colours) = Without(start, Colours) \o Without(s, Colours)
      /\ OnlyOf(both, Colours) = OnlyOf(start, Colours) \o OnlyOf(s, Colours)
  BY <1>0, <1>3, <1>6
<1> HIDE DEF both
<1>9. /\ Without(both \o end, Colours) = Without(both, Colours) \o Without(end, Colours)
      /\ OnlyOf(both \o end, Colours) = OnlyOf(both, Colours) \o OnlyOf(end, Colours)
  BY <1>0, <1>6, <1>7
<1>10. <<>> \o s = s /\ s \o <<>> = s /\ start \o <<>> = start
  BY <1>3, <1>6, ConcatEmptySeq
<1>12. Without(both \o end, Colours) = s
  BY <1>3, <1>5, <1>8, <1>9, <1>10 DEF start, end
<1>13. OnlyOf(both \o end, Colours) = start \o end
  <2>1. OnlyOf(start, Colours) = start /\ OnlyOf(end, Colours) = end
    BY <1>5 DEF start, end
  <2>2. OnlyOf(both, Colours) = start
    BY <1>3, <1>8, <1>10, <2>1
  <2> QED
    BY <1>9, <2>1, <2>2
<1>14. Coloured(ctx, s) = both \o end
  BY <1>4 DEF both, start, end
<1> QED
  BY <1>4, <1>7, <1>12, <1>13, <1>14 DEF N, start, end

\* An escape sequence that ends a colour stands at every even place.
Alternate(escapes) == \A i \in DOMAIN escapes : (escapes[i][1] = "colour end") <=> (i % 2 = 0)

Even(n) == n % 2 = 0

LEMMA SameParity ==
  ASSUME NEW i \in Int, NEW n \in Int, Even(n)
  PROVE  (i - n) % 2 = i % 2
BY DEF Even

LEMMA AlternateJoined ==
  ASSUME NEW S, NEW s \in Seq(S), NEW t \in Seq(S), Alternate(s), Alternate(t), Even(Len(s)), Even(Len(t))
  PROVE  s \o t \in Seq(S) /\ Alternate(s \o t) /\ Even(Len(s \o t))
<1> DEFINE u == s \o t
<1>1. /\ u \in Seq(S) /\ Len(u) = Len(s) + Len(t) /\ Len(s) \in Nat /\ Len(t) \in Nat
      /\ \A i \in 1..Len(u) : u[i] = IF i <= Len(s) THEN s[i] ELSE t[i - Len(s)]
  BY ConcatProperties
<1>2. DOMAIN s = 1..Len(s) /\ DOMAIN t = 1..Len(t) /\ DOMAIN u = 1..Len(u)
  BY <1>1
<1> HIDE DEF u
<1>3. Even(Len(u))
  BY <1>1 DEF Even
<1>4. ASSUME NEW i \in 1..Len(u) PROVE (u[i][1] = "colour end") <=> (i % 2 = 0)
  <2>1. CASE i <= Len(s)
    <3>1. i \in DOMAIN s /\ u[i] = s[i]
      BY <1>1, <1>2, <2>1
    <3> QED
      BY <3>1 DEF Alternate
  <2>2. CASE ~(i <= Len(s))
    <3>1. i - Len(s) \in 1..Len(t) /\ u[i] = t[i - Len(s)]
      BY <1>1, <2>2
    <3>2. (i % 2 = 0) <=> ((i - Len(s)) % 2 = 0)
      <4>1. i \in Int /\ Len(s) \in Int
        BY <1>1
      <4> QED
        BY <4>1, SameParity
    <3> QED
      BY <1>2, <3>1, <3>2 DEF Alternate
  <2> QED
    BY <2>1, <2>2
<1>5. Alternate(u)
  BY <1>2, <1>4 DEF Alternate
<1> QED
  BY <1>1, <1>3, <1>5 DEF u

LEMMA EndsAlternate ==
  ASSUME NEW ctx
  PROVE  Alternate(Ends(ctx) \o Ends(ctx)) /\ Alternate(Ends(ctx) \o Ends(ctx) \o Ends(ctx))
<1> DEFINE e == <<"colour", InRange(ctx.level)>>
           d == <<"colour end", "">>
           S == {e, d}
           u == <<e>>
           v == <<d>>
           E == u \o v
<1>1. Ends(ctx) = E /\ e[1] # "colour end" /\ d[1] = "colour end"
  BY DEF Ends, ColourStart, ColourEnd
<1>2. u \in Seq(S) /\ v \in Seq(S) /\ Len(u) = 1 /\ Len(v) = 1 /\ u[1] = e /\ v[1] = d
  <2>1. e \in S /\ d \in S
    OBVIOUS
  <2> HIDE DEF e, d, S
  <2> QED
    BY <2>1
<1> HIDE DEF e, d, S, u, v
<1>3. E \in Seq(S) /\ Len(E) = 2 /\ E[1] = e /\ E[2] = d
  BY <1>2, ConcatProperties
<1> HIDE DEF E
<1>4. Alternate(E) /\ Even(Len(E))
  <2>1. DOMAIN E = {1, 2}
    BY <1>3
  <2>2. 1 % 2 # 0 /\ 2 % 2 = 0
    OBVIOUS
  <2> QED
    BY <1>1, <1>3, <2>1, <2>2 DEF Alternate, Even
<1>5. E \o E \in Seq(S) /\ Alternate(E \o E) /\ Even(Len(E \o E))
  BY <1>3, <1>4, AlternateJoined
<1>6. Alternate((E \o E) \o E)
  BY <1>3, <1>4, <1>5, AlternateJoined
<1> QED
  BY <1>1, <1>5, <1>6

LEMMA ColorfulIs ==
  ASSUME NEW c \in Configs, NEW ctx \in Context
  PROVE  /\ Uncoloured(colorfulFormatter(c, ctx, "console")) = defaultFormatter(c, ctx)
         /\ Alternate(OnlyOf(colorfulFormatter(c, ctx, "console"), Colours))
         /\ colorfulFormatter(c, ctx, "file") = defaultFormatter(c, ctx)
<1> DEFINE P == Named(ctx, "file")
           N == Named(ctx, "console")
           E == Ends(ctx)
           W(s) == Without(s, Colours)
           O(s) == OnlyOf(s, Colours)
           name == When(c.log_name # NoName, Coloured(ctx, Name(c)))
           date == When(IS_SET("kDate", c), DateTime(c))
           level == Coloured(ctx, LevelField(ctx, FALSE))
           tid == When(IS_SET("kThreadId", c), Tid)
           file == When(HasFile(c, ctx), Filename(c) \o LineNumber)
           func == Function(c, ctx)
           tail == Text(ctx) \o ErrorCode(ctx)
           text == Coloured(ctx, tail)
<1>1. "file" \in Sinks /\ "console" \in Sinks /\ "file" # "console"
  BY DEF Sinks
<1>2. /\ Name(c) \in Seq(P) /\ DateTime(c) \in Seq(P) /\ Tid \in Seq(P) /\ Filename(c) \in Seq(P)
      /\ LineNumber \in Seq(P) /\ func \in Seq(P) /\ Text(ctx) \in Seq(P)
      /\ ErrorCode(ctx) \in Seq(P) /\ LevelField(ctx, FALSE) \in Seq(P)
  BY <1>1, Parts
<1>3. date \in Seq(P) /\ tid \in Seq(P) /\ file \in Seq(P) /\ tail \in Seq(P)
  <2> HIDE DEF P
  <2> QED
    BY <1>2, WhenType, Joined
<1>4. colorfulFormatter(c, ctx, "console") = name \o date \o level \o tid \o file \o func \o text
  BY DEF colorfulFormatter
<1>5. defaultFormatter(c, ctx) = Name(c) \o date \o LevelField(ctx, FALSE) \o tid \o file \o func \o tail
  <2> DEFINE six == Name(c) \o date \o LevelField(ctx, FALSE) \o tid \o file \o func
  <2>1. defaultFormatter(c, ctx) = six \o Text(ctx) \o ErrorCode(ctx)
    BY DEF defaultFormatter
  <2>2. six \in Seq(P)
    <3> HIDE DEF P, date, tid, file, func
    <3> QED
      BY <1>2, <1>3, Joined
  <2> HIDE DEF six, P
  <2>3. six \o Text(ctx) \o ErrorCode(ctx) = six \o tail
    <3> DEFINE x == Text(ctx)
               y == ErrorCode(ctx)
               z == x \o y
    <3>1. x \in Seq(P) /\ y \in Seq(P) /\ tail = z
      BY <1>2
    <3> HIDE DEF x, y, tail
    <3>2. (six \o x) \o y = six \o z
      BY <2>2, <3>1, ConcatAssociative
    <3> QED
      BY <3>1, <3>2 DEF x, y
  <2> QED
    BY <2>1, <2>3 DEF six
<1>6. colorfulFormatter(c, ctx, "file") = defaultFormatter(c, ctx)
  <2>1. colorfulFormatter(c, ctx, "file") =
          When(c.log_name # NoName, Name(c)) \o date \o LevelField(ctx, FALSE) \o tid \o file \o func \o tail
    BY <1>1 DEF colorfulFormatter
  <2>2. When(c.log_name # NoName, Name(c)) = Name(c)
    BY DEF Name, When
  <2> HIDE DEF date, tid, file, func, tail
  <2> QED
    BY <1>5, <2>1, <2>2
<1>7. /\ W(date) = date /\ W(tid) = tid /\ W(file) = file /\ W(func) = func
      /\ O(date) = <<>> /\ O(tid) = <<>> /\ O(file) = <<>> /\ O(func) = <<>>
      /\ date \in Seq(N) /\ tid \in Seq(N) /\ file \in Seq(N) /\ func \in Seq(N)
  <2> HIDE DEF date, tid, file, func, Uncoloured
  <2> QED
    BY <1>2, <1>3, NoColours DEF Uncoloured
<1>8. /\ level \in Seq(N) /\ text \in Seq(N) /\ W(level) = LevelField(ctx, FALSE) /\ W(text) = tail
      /\ O(level) = E /\ O(text) = E
  <2> HIDE DEF tail
  <2> QED
    BY <1>2, <1>3, PaintKinds
<1>9. name \in Seq(N) /\ W(name) = Name(c) /\ (O(name) = E \/ O(name) = <<>>)
  <2>1. /\ Coloured(ctx, Name(c)) \in Seq(N) /\ W(Coloured(ctx, Name(c))) = Name(c)
        /\ O(Coloured(ctx, Name(c))) = E
    BY <1>2, PaintKinds
  <2>2. CASE c.log_name # NoName
    <3>1. name = Coloured(ctx, Name(c))
      BY <2>2 DEF When
    <3> QED
      BY <2>1, <3>1
  <2>3. CASE ~(c.log_name # NoName)
    <3>1. name = <<>> /\ Name(c) = <<>> /\ <<>> \in Seq(N)
      BY <2>3, EmptySeq DEF When, Name
    <3> QED
      BY <3>1, KindsEmpty
  <2> QED
    BY <2>2, <2>3
<1> DEFINE all == name \o date \o level \o tid \o file \o func \o text
<1>10. /\ W(all) = W(name) \o W(date) \o W(level) \o W(tid) \o W(file) \o W(func) \o W(text)
       /\ O(all) = O(name) \o O(date) \o O(level) \o O(tid) \o O(file) \o O(func) \o O(text)
  <2> HIDE DEF name, date, level, tid, file, func, text, N
  <2>1. /\ name \in Seq(N) /\ date \in Seq(N) /\ level \in Seq(N) /\ tid \in Seq(N)
        /\ file \in Seq(N) /\ func \in Seq(N) /\ text \in Seq(N)
    BY <1>7, <1>8, <1>9
  <2> DEFINE p == <<name, date, level, tid, file, func, text>>
  <2>2. /\ p[1] = name /\ p[2] = date /\ p[3] = level /\ p[4] = tid /\ p[5] = file
        /\ p[6] = func /\ p[7] = text
    OBVIOUS
  <2> HIDE DEF p
  <2>3. \A i \in 1..7 : p[i] \in Seq(N)
    BY <2>1, <2>2
  <2>4. SplitsInSeven(p, Colours)
    BY <2>3, SevenKinds
  <2> QED
    BY <2>2, <2>4 DEF SplitsInSeven
<1>11. E \in Seq(N)
  <2>1. E = ColourStart(ctx) \o ColourEnd /\ ColourStart(ctx) \in Seq(N) /\ ColourEnd \in Seq(N)
    <3> DEFINE e == <<"colour", InRange(ctx.level)>>
               d == <<"colour end", "">>
    <3>1. e \in N /\ d \in N /\ ColourStart(ctx) = <<e>> /\ ColourEnd = <<d>>
      BY EscapesNamed DEF ColourStart, ColourEnd
    <3> HIDE DEF e, d, N
    <3>2. <<e>> \in Seq(N) /\ <<d>> \in Seq(N)
      BY <3>1
    <3> QED
      BY <3>1, <3>2 DEF Ends
  <2> QED
    BY <2>1, Joined
<1>12. Alternate(O(all))
  <2>1. \A s : s \in Seq(N) => s \o <<>> = s /\ <<>> \o s = s
    BY ConcatEmptySeq
  <2>2. O(all) = O(name) \o <<>> \o E \o <<>> \o <<>> \o <<>> \o E
    BY <1>7, <1>8, <1>10, Zenon
  <2>3. E \o <<>> = E /\ <<>> \o E = E /\ <<>> \o <<>> = <<>>
    BY <1>11, <2>1
  <2>4. (E \o E) \o <<>> = E \o E
    <3>1. E \o E \in Seq(N)
      BY <1>11, Joined
    <3> QED
      BY <2>1, <3>1
  <2> HIDE DEF E, O, all
  <2>5. CASE O(name) = E
    <3>1. O(all) = E \o E \o E
      BY <2>2, <2>3, <2>4, <2>5
    <3> QED
      BY <3>1, EndsAlternate DEF E
  <2>6. CASE O(name) = <<>>
    <3>1. O(all) = E \o E
      BY <2>2, <2>3, <2>6
    <3> QED
      BY <3>1, EndsAlternate DEF E
  <2> QED
    BY <1>9, <2>5, <2>6
<1>13. W(all) = defaultFormatter(c, ctx)
  BY <1>5, <1>7, <1>8, <1>9, <1>10, Zenon
<1> QED
  BY <1>4, <1>6, <1>12, <1>13 DEF Uncoloured

\* A line of colorfulFormatter, and any line of the file, without its colours.
LEMMA ColorfulLine ==
  ASSUME NEW c \in Configs, NEW ctx \in Context, NEW sink \in Sinks
  PROVE  Uncoloured(Asked(colorfulFormatter(c, ctx, sink), ctx)) = Asked(defaultFormatter(c, ctx), ctx)
<1>1. colorfulFormatter(c, ctx, sink) \in Seq(Named(ctx, sink))
  BY FixedTypes
<1>2. Uncoloured(Asked(colorfulFormatter(c, ctx, sink), ctx)) = Asked(Uncoloured(colorfulFormatter(c, ctx, sink)), ctx)
  BY <1>1, Commute
<1>3. Uncoloured(colorfulFormatter(c, ctx, sink)) = defaultFormatter(c, ctx)
  <2>1. CASE sink = "console"
    BY <2>1, ColorfulIs
  <2>2. CASE sink = "file"
    <3>1. colorfulFormatter(c, ctx, "file") = defaultFormatter(c, ctx)
      BY ColorfulIs
    <3>2. defaultFormatter(c, ctx) \in Seq(Named(ctx, "file"))
      BY <2>2, FixedTypes
    <3>3. Uncoloured(defaultFormatter(c, ctx)) = defaultFormatter(c, ctx)
      BY <3>2, NoColours
    <3> QED
      BY <2>2, <3>1, <3>3
  <2> QED
    BY <2>1, <2>2 DEF Sinks
<1> QED
  BY <1>2, <1>3

-----------------------------------------------------------------------------
(***************************************************************************)
(* A custom format at the two destinations.                                *)
(***************************************************************************)
LEMMA NamedMore ==
  ASSUME NEW ctx, NEW s \in Seq(Named(ctx, "file"))
  PROVE  s \in Seq(Named(ctx, "console"))
<1>1. \A f \in Named(ctx, "file") : f \in Named(ctx, "console")
  BY DEF Named
<1> QED
  BY <1>1

\* Escape sequences are all that a directive says on the console only.
LEMMA DirectiveSame ==
  ASSUME NEW c \in Configs, NEW ctx \in Context, NEW letter \in Letters
  PROVE  Uncoloured(Directive(letter, c, ctx, "file")) = Uncoloured(Directive(letter, c, ctx, "console"))
<1>1. CASE letter \notin {"c", "C"}
  <2>1. Directive(letter, c, ctx, "file") = Directive(letter, c, ctx, "console")
    BY <1>1 DEF Directive, Letters
  <2> QED
    BY <2>1
<1>2. CASE letter \in {"c", "C"}
  <2> DEFINE e == <<"colour", InRange(ctx.level)>>
             d == <<"colour end", "">>
  <2>1. /\ Directive("c", c, ctx, "file") = <<>> /\ Directive("C", c, ctx, "file") = <<>>
        /\ Directive("c", c, ctx, "console") = <<e>> /\ Directive("C", c, ctx, "console") = <<d>>
    BY DEF Directive, OnConsole, When, ColourStart, ColourEnd
  <2>2. e[1] \in Colours /\ d[1] \in Colours
    BY DEF Colours
  <2> HIDE DEF e, d
  <2>3. Uncoloured(<<>>) = <<>> /\ Uncoloured(<<e>>) = <<>> /\ Uncoloured(<<d>>) = <<>>
    <3>1. e \in {e, d} /\ d \in {e, d}
      OBVIOUS
    <3> QED
      BY <2>2, <3>1, SingleKind, KindsEmpty DEF Uncoloured
  <2> QED
    BY <1>2, <2>1, <2>3
<1> QED
  BY <1>1, <1>2

LEMMA OperationSame ==
  ASSUME NEW c \in Configs, NEW ctx \in Context, NEW op \in Seq(STRING)
  PROVE  Uncoloured(Operation(op, c, ctx, "file")) = Uncoloured(Operation(op, c, ctx, "console"))
<1>1. CASE Len(op) = 2 /\ op[2] \in Letters
  BY <1>1, DirectiveSame DEF Operation
<1>2. CASE ~(Len(op) = 2 /\ op[2] \in Letters)
  <2>1. Operation(op, c, ctx, "file") = Operation(op, c, ctx, "console")
    BY <1>2 DEF Operation
  <2> QED
    BY <2>1
<1> QED
  BY <1>1, <1>2

LEMMA UncolouredConcat ==
  ASSUME NEW S, NEW s \in Seq(S), NEW t \in Seq(S)
  PROVE  Uncoloured(s \o t) = Uncoloured(s) \o Uncoloured(t)
BY KindsConcat DEF Uncoloured

\* Three parts, the first of which may differ in its colours.
LEMMA SameRest ==
  ASSUME NEW S, NEW a \in Seq(S), NEW b \in Seq(S), NEW l \in Seq(S), NEW x \in Seq(S), NEW y \in Seq(S),
         Uncoloured(a) = Uncoloured(b), Uncoloured(x) = Uncoloured(y)
  PROVE  Uncoloured(a \o l \o x) = Uncoloured(b \o l \o y)
<1>1. Uncoloured(a \o l) = Uncoloured(a) \o Uncoloured(l) /\ Uncoloured(b \o l) = Uncoloured(b) \o Uncoloured(l)
  BY UncolouredConcat
<1> DEFINE p == a \o l
           q == b \o l
<1>2. p \in Seq(S) /\ q \in Seq(S) /\ Uncoloured(p) = Uncoloured(q)
  BY <1>1, Joined
<1> HIDE DEF p, q
<1>3. Uncoloured(p \o x) = Uncoloured(p) \o Uncoloured(x) /\ Uncoloured(q \o y) = Uncoloured(q) \o Uncoloured(y)
  BY <1>2, UncolouredConcat
<1> QED
  BY <1>2, <1>3 DEF p, q

LEMMA CustomSame ==
  ASSUME NEW c \in Configs, NEW ctx \in Context
  PROVE  Uncoloured(customStringFormatter(c, ctx, "file")) = Uncoloured(customStringFormatter(c, ctx, "console"))
<1> DEFINE n == Len(c.format)
           N == Named(ctx, "console")
<1>1. n \in Nat /\ c.format \in Seq(STRING) /\ "file" \in Sinks /\ "console" \in Sinks /\ 1 \in 1..(n + 1)
  BY ConstantsAssumption DEF Sinks
<1>2. PICK F \in [1..(n + 1) -> Seq(Named(ctx, "file"))] :
        /\ IsLoop(F, 1, c, ctx, "file")
        /\ customStringFormatter(c, ctx, "file") = Literal(c.format, 1) \o F[NextPercent(c.format, 1)]
  BY <1>1, CustomIs
<1>3. PICK G \in [1..(n + 1) -> Seq(N)] :
        /\ IsLoop(G, 1, c, ctx, "console")
        /\ customStringFormatter(c, ctx, "console") = Literal(c.format, 1) \o G[NextPercent(c.format, 1)]
  BY <1>1, CustomIs
<1> DEFINE S == {i \in 1..(n + 1) : Uncoloured(F[i]) = Uncoloured(G[i])}
<1>4. \A i \in 1..(n + 1) : F[i] \in Seq(N) /\ G[i] \in Seq(N)
  BY <1>2, <1>3, NamedMore
<1>5. ASSUME NEW i \in 1..(n + 1), \A j \in (i + 1)..(n + 1) : j \in S
      PROVE  i \in S
  <2>1. F[i] = Appends(F, i, c, ctx, "file") /\ G[i] = Appends(G, i, c, ctx, "console")
    BY <1>2, <1>3 DEF IsLoop
  <2>2. CASE i > n
    <3>1. F[i] = <<>> /\ G[i] = <<>>
      BY <2>1, <2>2 DEF Appends
    <3> QED
      BY <3>1
  <2>3. CASE ~(i > n)
    <3> DEFINE op == Op(c.format, i)
               index == Index(c.format, i)
               next == NextPercent(c.format, index)
               a == Operation(op, c, ctx, "file")
               b == Operation(op, c, ctx, "console")
               l == Literal(c.format, index)
    <3>1. i \in 1..n
      BY <1>1, <2>3
    <3>2. op \in Seq(STRING) /\ index \in (i + 1)..(n + 1) /\ next \in (i + 1)..(n + 1)
      BY <1>1, <3>1, OpIs, LoopParts
    <3>3. index \in 1..(n + 1) /\ next \in 1..(n + 1)
      BY <1>1, <3>1, <3>2
    <3>4. F[i] = a \o l \o F[next] /\ G[i] = b \o l \o G[next]
      BY <2>1, <2>3 DEF Appends
    <3>5. a \in Seq(N) /\ b \in Seq(N) /\ l \in Seq(N)
      BY <1>1, <3>2, <3>3, OperationType, LiteralType, NamedMore
    <3>6. Uncoloured(a) = Uncoloured(b)
      BY <3>2, OperationSame
    <3>7. Uncoloured(F[next]) = Uncoloured(G[next]) /\ F[next] \in Seq(N) /\ G[next] \in Seq(N)
      BY <1>4, <1>5, <3>2, <3>3
    <3> HIDE DEF a, b, l, next, index, op, N
    <3>8. Uncoloured(a \o l \o F[next]) = Uncoloured(b \o l \o G[next])
      BY <3>5, <3>6, <3>7, SameRest
    <3> QED
      BY <3>4, <3>8
  <2> QED
    BY <2>2, <2>3
<1>6. \A i \in 1..(n + 1) : i \in S
  <2> HIDE DEF S, n
  <2> QED
    BY <1>1, <1>5, Downward
<1> DEFINE l == Literal(c.format, 1)
           p == NextPercent(c.format, 1)
<1>7. l \in Seq(N) /\ p \in 1..(n + 1)
  BY <1>1, LiteralType, NextFound
<1>8. Uncoloured(F[p]) = Uncoloured(G[p]) /\ F[p] \in Seq(N) /\ G[p] \in Seq(N)
  BY <1>4, <1>6, <1>7
<1> HIDE DEF l, p, N
<1> DEFINE x == F[p]
           y == G[p]
<1>9. x \in Seq(N) /\ y \in Seq(N) /\ Uncoloured(x) = Uncoloured(y)
  BY <1>8
<1>10. customStringFormatter(c, ctx, "file") = l \o x /\ customStringFormatter(c, ctx, "console") = l \o y
  BY <1>2, <1>3 DEF l, p
<1> HIDE DEF x, y
<1>11. Uncoloured(l \o x) = Uncoloured(l) \o Uncoloured(x) /\ Uncoloured(l \o y) = Uncoloured(l) \o Uncoloured(y)
  BY <1>7, <1>9, UncolouredConcat
<1> QED
  BY <1>9, <1>10, <1>11

LEMMA SinksSame ==
  ASSUME NEW c \in Configs, NEW ctx \in Context
  PROVE  Uncoloured(log_formatter(c, ctx, "file")) = Uncoloured(log_formatter(c, ctx, "console"))
<1>1. c.style \in Styles
  BY ConstantsAssumption
<1>2. CASE c.style \in {"default", "json"}
  <2>1. log_formatter(c, ctx, "file") = log_formatter(c, ctx, "console")
    BY <1>2 DEF log_formatter
  <2> QED
    BY <2>1
<1>3. CASE c.style = "colorful"
  <2>1. /\ log_formatter(c, ctx, "file") = defaultFormatter(c, ctx)
        /\ log_formatter(c, ctx, "console") = colorfulFormatter(c, ctx, "console")
    BY <1>3, ColorfulIs DEF log_formatter
  <2>2. defaultFormatter(c, ctx) \in Seq(Named(ctx, "file"))
    BY FixedTypes DEF Sinks
  <2> QED
    BY <2>1, <2>2, NoColours, ColorfulIs
<1>4. CASE c.style = "custom"
  <2>1. \A sink : log_formatter(c, ctx, sink) = customStringFormatter(c, ctx, sink)
    BY <1>4 DEF log_formatter
  <2> QED
    BY <2>1, CustomSame
<1> QED
  BY <1>1, <1>2, <1>3, <1>4 DEF Styles

-----------------------------------------------------------------------------
(***************************************************************************)
(* A custom format read position by position.                              *)
(***************************************************************************)
LEMMA GreatestOf ==
  ASSUME NEW n \in Nat, NEW S \in SUBSET (0..n), S # {}
  PROVE  Max(S) \in S /\ \A x \in S : Max(S) >= x
<1> DEFINE T == {n - x : x \in S}
<1>1. T \in SUBSET Nat /\ T # {}
  <2>1. PICK x \in S : TRUE
    OBVIOUS
  <2>2. n - x \in T
    BY <2>1
  <2>3. \A x1 \in S : n - x1 \in Nat
    OBVIOUS
  <2> QED
    BY <2>2, <2>3
<1>2. PICK d \in T : \A y \in T : d <= y
  <2> HIDE DEF T
  <2> QED
    BY <1>1, LeastNumber
<1>3. PICK m \in S : d = n - m
  OBVIOUS
<1>4. ASSUME NEW x \in S PROVE m >= x
  <2>1. n - x \in T
    OBVIOUS
  <2>2. d <= n - x
    BY <1>2, <2>1
  <2> QED
    BY <1>3, <2>2
<1>5. \E x \in S : \A y \in S : x >= y
  BY <1>4
<1> QED
  BY <1>5 DEF Max

Others(format, i) == {j \in 1..i : format[j] # "%"} \cup {0}

LEMMA OddOrEven ==
  ASSUME NEW x \in Nat
  PROVE  (x % 2 = 1) <=> ~((x - 1) % 2 = 1)
OBVIOUS

\* A '%' begins something iff the one before it does not.
LEMMA Heads ==
  ASSUME NEW format, NEW i \in Nat
  PROVE  /\ ~IsHead(format, 0)
         /\ i > 0 /\ format[i] # "%" => ~IsHead(format, i)
         /\ i > 0 /\ format[i] = "%" => (IsHead(format, i) <=> ~IsHead(format, i - 1))
<1>1. \A k : IsHead(format, k) <=> (k - Max(Others(format, k))) % 2 = 1
  BY DEF IsHead, Others
<1>2. \A k \in Nat : /\ Max(Others(format, k)) \in Others(format, k)
                     /\ \A x \in Others(format, k) : Max(Others(format, k)) >= x
  <2> TAKE k \in Nat
  <2>1. Others(format, k) \in SUBSET (0..k) /\ Others(format, k) # {}
    BY DEF Others
  <2> QED
    BY <2>1, GreatestOf
<1>3. ~IsHead(format, 0)
  <2>1. Max(Others(format, 0)) = 0
    BY <1>2 DEF Others
  <2> QED
    BY <1>1, <2>1
<1>4. ASSUME i > 0, format[i] # "%" PROVE ~IsHead(format, i)
  <2>1. i \in Others(format, i) /\ \A x \in Others(format, i) : x \in Int /\ i >= x
    BY <1>4 DEF Others
  <2>2. Max(Others(format, i)) = i
    BY <1>2, <2>1
  <2> QED
    BY <1>1, <2>2
<1>5. ASSUME i > 0, format[i] = "%" PROVE IsHead(format, i) <=> ~IsHead(format, i - 1)
  <2>1. Others(format, i) = Others(format, i - 1)
    BY <1>5 DEF Others
  <2> DEFINE m == Max(Others(format, i))
             x == i - m
  <2>2. m \in 0..(i - 1)
    <3>1. i - 1 \in Nat
      BY <1>5
    <3>2. m \in Others(format, i - 1)
      BY <1>2, <2>1, <3>1
    <3> HIDE DEF m
    <3> QED
      BY <3>1, <3>2 DEF Others
  <2>3. x \in Nat /\ (i - 1) - m = x - 1
    BY <1>5, <2>2
  <2>4. (IsHead(format, i) <=> x % 2 = 1) /\ (IsHead(format, i - 1) <=> (x - 1) % 2 = 1)
    BY <1>1, <2>1, <2>3
  <2> HIDE DEF x
  <2> QED
    BY <2>3, <2>4, OddOrEven
<1> QED
  BY <1>3, <1>4, <1>5

\* What one position is read as.
ReadAt(i, c, ctx, sink) ==
  IF IsDirective(c.format, i) THEN Directive(c.format[i + 1], c, ctx, sink)
  ELSE IF IsDirective(c.format, i - 1) THEN <<>>
  ELSE Chars(<<c.format[i]>>)

ReadParts(c, ctx, sink) == [i \in DOMAIN c.format |-> ReadAt(i, c, ctx, sink)]

Rest(k, c, ctx, sink) == FlattenSeq(SubSeq(ReadParts(c, ctx, sink), k, Len(c.format)))

LEMMA ReadType ==
  ASSUME NEW c \in Configs, NEW ctx \in Context, NEW sink \in Sinks
  PROVE  /\ ReadParts(c, ctx, sink) \in Seq(Seq(Named(ctx, sink)))
         /\ Len(ReadParts(c, ctx, sink)) = Len(c.format)
         /\ \A i \in 1..Len(c.format) : ReadParts(c, ctx, sink)[i] = ReadAt(i, c, ctx, sink)
         /\ \A i \in 1..Len(c.format) : ReadAt(i, c, ctx, sink) \in Seq(Named(ctx, sink))
<1> DEFINE n == Len(c.format)
           S == Seq(Named(ctx, sink))
<1>1. c.format \in Seq(STRING) /\ n \in Nat /\ DOMAIN c.format = 1..n /\ \A i \in 1..n : c.format[i] \in STRING
  BY ConstantsAssumption
<1>2. ASSUME NEW i \in 1..n PROVE ReadAt(i, c, ctx, sink) \in S
  <2>1. CASE IsDirective(c.format, i)
    <3>1. c.format[i + 1] \in Letters
      BY <2>1 DEF IsDirective
    <3> QED
      BY <2>1, <3>1, DirectiveType DEF ReadAt
  <2>2. CASE ~IsDirective(c.format, i) /\ IsDirective(c.format, i - 1)
    <3>1. ReadAt(i, c, ctx, sink) = <<>>
      BY <2>2 DEF ReadAt
    <3> QED
      BY <3>1
  <2>3. CASE ~IsDirective(c.format, i) /\ ~IsDirective(c.format, i - 1)
    <3>1. ReadAt(i, c, ctx, sink) = Chars(<<c.format[i]>>)
      BY <2>3 DEF ReadAt
    <3>2. <<c.format[i]>> \in Seq(STRING)
      BY <1>1
    <3> QED
      BY <3>1, <3>2, CharsType
  <2> QED
    BY <2>1, <2>2, <2>3
<1> HIDE DEF n, S
<1>3. ReadParts(c, ctx, sink) \in Seq(S) /\ Len(ReadParts(c, ctx, sink)) = n
      /\ \A i \in 1..n : ReadParts(c, ctx, sink)[i] = ReadAt(i, c, ctx, sink)
  BY <1>1, <1>2 DEF ReadParts
<1> QED
  BY <1>2, <1>3 DEF n, S

LEMMA FlattenOne ==
  ASSUME NEW S, NEW s \in Seq(S)
  PROVE  FlattenSeq(<<s>>) = s
<1>1. <<>> \in Seq(Seq(S)) /\ Append(<<>>, s) = <<s>>
  OBVIOUS
<1>2. FlattenSeq(Append(<<>>, s)) = FlattenSeq(<<>>) \o s
  BY <1>1, FlattenAppend
<1>3. <<>> \o s = s
  BY ConcatEmptySeq
<1> QED
  BY <1>1, <1>2, <1>3, FlattenEmpty

LEMMA RestIs ==
  ASSUME NEW c \in Configs, NEW ctx \in Context, NEW sink \in Sinks
  PROVE  /\ Rest(Len(c.format) + 1, c, ctx, sink) = <<>>
         /\ \A k \in 1..Len(c.format) :
              Rest(k, c, ctx, sink) = ReadAt(k, c, ctx, sink) \o Rest(k + 1, c, ctx, sink)
         /\ \A k \in 1..(Len(c.format) + 1) : Rest(k, c, ctx, sink) \in Seq(Named(ctx, sink))
         /\ Reading(c, ctx, sink) = Rest(1, c, ctx, sink)
<1> DEFINE n == Len(c.format)
           N == Named(ctx, sink)
           A == ReadParts(c, ctx, sink)
<1>1. n \in Nat
  BY ConstantsAssumption
<1>2. /\ A \in Seq(Seq(N)) /\ Len(A) = n
      /\ \A i \in 1..n : A[i] = ReadAt(i, c, ctx, sink) /\ A[i] \in Seq(N)
  BY ReadType
<1>3. Reading(c, ctx, sink) = FlattenSeq(A)
  BY DEF Reading, ReadParts, ReadAt
<1>4. \A k : Rest(k, c, ctx, sink) = FlattenSeq(SubSeq(A, k, n))
  BY DEF Rest
<1> HIDE DEF n, N, A
<1>5. SubSeq(A, n + 1, n) = <<>> /\ SubSeq(A, 1, n) = A
  BY <1>1, <1>2, SubSeqEmpty, SubSeqFull
<1>6. \A k \in 1..(n + 1) : SubSeq(A, k, n) \in Seq(Seq(N))
  <2> TAKE k \in 1..(n + 1)
  <2>1. k \in Int /\ n \in Int /\ \A i \in k..n : A[i] \in Seq(N)
    BY <1>1, <1>2
  <2> QED
    BY <2>1, SubSeqProperties
<1>7. \A k \in 1..(n + 1) : FlattenSeq(SubSeq(A, k, n)) \in Seq(N)
  BY <1>6, FlattenType
<1>8. ASSUME NEW k \in 1..n PROVE FlattenSeq(SubSeq(A, k, n)) = A[k] \o FlattenSeq(SubSeq(A, k + 1, n))
  <2> DEFINE rest == SubSeq(A, k + 1, n)
             first == <<A[k]>>
  <2>1. SubSeq(A, k, n) = first \o rest
    <3>1. k \in 1..Len(A) /\ n \in k..Len(A)
      BY <1>1, <1>2
    <3> QED
      BY <1>2, <3>1, SubSeqRecursiveFirst
  <2>2. rest \in Seq(Seq(N)) /\ first \in Seq(Seq(N)) /\ FlattenSeq(first) = A[k]
    <3>1. k + 1 \in 1..(n + 1) /\ A[k] \in Seq(N)
      BY <1>1, <1>2
    <3> QED
      BY <1>6, <3>1, FlattenOne
  <2> HIDE DEF first, rest
  <2>3. FlattenSeq(first \o rest) = FlattenSeq(first) \o FlattenSeq(rest)
    BY <2>2, FlattenConcat
  <2> QED
    BY <2>1, <2>2, <2>3 DEF rest
<1>9. \A k \in 1..n : Rest(k, c, ctx, sink) = ReadAt(k, c, ctx, sink) \o Rest(k + 1, c, ctx, sink)
  BY <1>2, <1>4, <1>8
<1> QED
  BY <1>3, <1>4, <1>5, <1>7, <1>9, FlattenEmpty DEF n, N

\* The text up to the next '%', read position by position: a directive that
\* ends just before it says nothing of it, and the '%' begins the next one.
LEMMA CharsJoined ==
  ASSUME NEW s \in Seq(STRING), NEW e \in STRING
  PROVE  Chars(<<e>> \o s) = Chars(<<e>>) \o Chars(s)
<1> DEFINE f == <<e>>
           u == f \o s
           P == {<<"char", x>> : x \in STRING}
           v == Chars(f) \o Chars(s)
<1>1. f \in Seq(STRING) /\ Len(f) = 1 /\ f[1] = e
  BY One
<1> HIDE DEF f
<1>0. \A T : \A x, y \in Seq(T) : Len(x) = 1 =>
        /\ x \o y \in Seq(T) /\ Len(x \o y) = 1 + Len(y) /\ Len(y) \in Nat
        /\ \A i \in 1..(1 + Len(y)) : (x \o y)[i] = IF i <= 1 THEN x[i] ELSE y[i - 1]
  <2> SUFFICES ASSUME NEW T, NEW x \in Seq(T), NEW y \in Seq(T), Len(x) = 1
               PROVE  /\ x \o y \in Seq(T) /\ Len(x \o y) = 1 + Len(y) /\ Len(y) \in Nat
                      /\ \A i \in 1..(1 + Len(y)) : (x \o y)[i] = IF i <= 1 THEN x[i] ELSE y[i - 1]
    OBVIOUS
  <2> DEFINE z == x \o y
  <2>1. /\ z \in Seq(T) /\ Len(z) = Len(x) + Len(y)
        /\ \A i \in 1..(Len(x) + Len(y)) : z[i] = IF i <= Len(x) THEN x[i] ELSE y[i - Len(x)]
    BY ConcatProperties
  <2> HIDE DEF z
  <2> QED
    BY <2>1 DEF z
<1>2. /\ u \in Seq(STRING) /\ Len(u) = 1 + Len(s) /\ Len(s) \in Nat
      /\ \A i \in 1..(1 + Len(s)) : u[i] = IF i <= 1 THEN f[i] ELSE s[i - 1]
  BY <1>0, <1>1
<1>3. \A w \in Seq(STRING) : /\ Chars(w) \in Seq(P) /\ Len(Chars(w)) = Len(w)
                             /\ \A i \in 1..Len(w) : Chars(w)[i] = <<"char", w[i]>>
  BY DEF Chars
<1>4. /\ v \in Seq(P) /\ Len(v) = 1 + Len(s)
      /\ \A i \in 1..(1 + Len(s)) : v[i] = IF i <= 1 THEN Chars(f)[i] ELSE Chars(s)[i - 1]
  <2>1. Chars(f) \in Seq(P) /\ Chars(s) \in Seq(P) /\ Len(Chars(f)) = 1 /\ Len(Chars(s)) = Len(s)
    BY <1>1, <1>3
  <2> HIDE DEF P
  <2> QED
    BY <1>0, <2>1
<1>5. Chars(u) \in Seq(P) /\ Len(Chars(u)) = 1 + Len(s) /\ \A i \in 1..(1 + Len(s)) : Chars(u)[i] = <<"char", u[i]>>
  BY <1>2, <1>3
<1> HIDE DEF u, v, P
<1>6. ASSUME NEW i \in 1..(1 + Len(s)) PROVE Chars(u)[i] = v[i]
  <2>1. CASE i <= 1
    <3>1. i = 1
      BY <1>2, <2>1
    <3>2. Chars(u)[1] = <<"char", f[1]>> /\ v[1] = Chars(f)[1] /\ Chars(f)[1] = <<"char", f[1]>>
      BY <1>1, <1>2, <1>3, <1>4, <1>5, <3>1
    <3> QED
      BY <3>1, <3>2
  <2>2. CASE ~(i <= 1)
    <3>1. i - 1 \in 1..Len(s)
      BY <1>2, <2>2
    <3>2. Chars(u)[i] = <<"char", s[i - 1]>> /\ v[i] = Chars(s)[i - 1]
      BY <1>2, <1>4, <1>5, <2>2
    <3> QED
      BY <1>3, <3>1, <3>2
  <2> QED
    BY <2>1, <2>2
<1>7. Chars(u) = v
  BY <1>4, <1>5, <1>6
<1> QED
  BY <1>7 DEF u, v, f

LEMMA NextSame ==
  ASSUME NEW format \in Seq(STRING), NEW j \in 1..Len(format)
  PROVE  /\ format[j] = "%" => NextPercent(format, j) = j /\ Literal(format, j) = <<>>
         /\ format[j] # "%" => /\ NextPercent(format, j) = NextPercent(format, j + 1)
                               /\ Literal(format, j) = Chars(<<format[j]>>) \o Literal(format, j + 1)
<1> DEFINE n == Len(format)
           p == NextPercent(format, j)
           q == NextPercent(format, j + 1)
<1>1. n \in Nat /\ j \in Nat /\ format[j] \in STRING /\ j \in 1..(n + 1) /\ j + 1 \in 1..(n + 1)
      /\ \A i \in 1..n : format[i] \in STRING
  OBVIOUS
<1>2. /\ p \in j..(n + 1) /\ (p <= n => format[p] = "%") /\ \A i \in j..(p - 1) : format[i] # "%"
      /\ q \in (j + 1)..(n + 1) /\ (q <= n => format[q] = "%") /\ \A i \in (j + 1)..(q - 1) : format[i] # "%"
  BY <1>1, NextFound
<1> HIDE DEF p, q
<1>3. ASSUME format[j] = "%" PROVE p = j /\ Literal(format, j) = <<>>
  <2>1. p = j
    BY <1>1, <1>2, <1>3
  <2>2. SubSeq(format, j, p - 1) = <<>>
    BY <1>1, <2>1, SubSeqEmpty
  <2>3. Chars(<<>>) = <<>>
    BY DEF Chars
  <2> QED
    BY <2>1, <2>2, <2>3 DEF Literal, p
<1>4. ASSUME format[j] # "%" PROVE p = q /\ Literal(format, j) = Chars(<<format[j]>>) \o Literal(format, j + 1)
  <2>1. p # j
    BY <1>1, <1>2, <1>4
  <2>2. p = q
    <3>1. ~(p < q)
      <4> SUFFICES ASSUME p < q PROVE FALSE
        OBVIOUS
      <4>1. p \in (j + 1)..(q - 1) /\ p <= n
        BY <1>1, <1>2, <2>1
      <4> QED
        BY <1>2, <4>1
    <3>2. ~(q < p)
      <4> SUFFICES ASSUME q < p PROVE FALSE
        OBVIOUS
      <4>1. q \in j..(p - 1) /\ q <= n
        BY <1>1, <1>2
      <4> QED
        BY <1>2, <4>1
    <3> QED
      BY <1>1, <1>2, <3>1, <3>2
  <2> DEFINE rest == SubSeq(format, j + 1, p - 1)
  <2>3. SubSeq(format, j, p - 1) = <<format[j]>> \o rest
    <3>1. p - 1 \in j..Len(format)
      BY <1>1, <1>2, <2>1
    <3> QED
      BY <3>1, SubSeqRecursiveFirst
  <2>4. rest \in Seq(STRING)
    <3>1. j + 1 \in Int /\ p - 1 \in Int /\ \A i \in (j + 1)..(p - 1) : format[i] \in STRING
      BY <1>1, <1>2
    <3> QED
      BY <3>1, SubSeqProperties
  <2> HIDE DEF rest
  <2>5. Chars(<<format[j]>> \o rest) = Chars(<<format[j]>>) \o Chars(rest)
    BY <1>1, <2>4, CharsJoined
  <2> QED
    BY <2>2, <2>3, <2>5 DEF Literal, p, q, rest
<1> QED
  BY <1>3, <1>4 DEF p, q

LEMMA LiteralRest ==
  ASSUME NEW c \in Configs, NEW ctx \in Context, NEW sink \in Sinks
  PROVE  \A j \in 1..(Len(c.format) + 1) : ~IsHead(c.format, j - 1) =>
           LET p == NextPercent(c.format, j) IN
           /\ Rest(j, c, ctx, sink) = Literal(c.format, j) \o Rest(p, c, ctx, sink)
           /\ p <= Len(c.format) => IsHead(c.format, p)
<1> DEFINE n == Len(c.format)
           N == Named(ctx, sink)
           Splits2(j, p) == Rest(j, c, ctx, sink) = Literal(c.format, j) \o Rest(p, c, ctx, sink)
           Good(j) == ~IsHead(c.format, j - 1) =>
                        /\ Splits2(j, NextPercent(c.format, j))
                        /\ NextPercent(c.format, j) <= n => IsHead(c.format, NextPercent(c.format, j))
           S == {j \in 1..(n + 1) : Good(j)}
<1>1. n \in Nat /\ c.format \in Seq(STRING)
  BY ConstantsAssumption
<1>2. /\ Rest(n + 1, c, ctx, sink) = <<>>
      /\ \A k \in 1..n : Rest(k, c, ctx, sink) = ReadAt(k, c, ctx, sink) \o Rest(k + 1, c, ctx, sink)
      /\ \A k \in 1..(n + 1) : Rest(k, c, ctx, sink) \in Seq(N)
  BY RestIs
<1>3. \A k \in 1..(n + 1) : Literal(c.format, k) \in Seq(N) /\ NextPercent(c.format, k) \in k..(n + 1)
  BY <1>1, LiteralType, NextFound
<1>4. ASSUME NEW j \in 1..(n + 1), \A k \in (j + 1)..(n + 1) : k \in S, ~IsHead(c.format, j - 1)
      PROVE  /\ Splits2(j, NextPercent(c.format, j))
             /\ NextPercent(c.format, j) <= n => IsHead(c.format, NextPercent(c.format, j))
  <2>1. CASE j = n + 1
    <3>1. NextPercent(c.format, j) = n + 1
      <4>1. NextPercent(c.format, j) \in j..(n + 1)
        BY <1>3
      <4> HIDE DEF n
      <4> QED
        BY <1>1, <2>1, <4>1
    <3>2. Literal(c.format, j) = <<>>
      <4>1. SubSeq(c.format, n + 1, n) = <<>>
        BY <1>1, SubSeqEmpty
      <4>2. Chars(<<>>) = <<>>
        BY DEF Chars
      <4>3. n + 1 - 1 = n
        BY <1>1
      <4>4. Literal(c.format, j) = Chars(SubSeq(c.format, j, NextPercent(c.format, j) - 1))
        BY DEF Literal
      <4> DEFINE m == NextPercent(c.format, j) - 1
      <4>5. m = n
        BY <3>1, <4>3
      <4> HIDE DEF m, n
      <4>6. SubSeq(c.format, j, m) = <<>>
        BY <2>1, <4>1, <4>5
      <4>7. Literal(c.format, j) = Chars(SubSeq(c.format, j, m))
        BY <4>4 DEF m
      <4> QED
        BY <4>2, <4>6, <4>7
    <3>3. <<>> \o <<>> = <<>>
      OBVIOUS
    <3>4. ~(n + 1 <= n)
      BY <1>1
    <3>5. Rest(j, c, ctx, sink) = <<>> /\ Rest(NextPercent(c.format, j), c, ctx, sink) = <<>>
      BY <1>2, <2>1, <3>1
    <3> HIDE DEF n
    <3> QED
      BY <3>1, <3>2, <3>3, <3>4, <3>5
  <2>2. CASE j <= n /\ c.format[j] = "%"
    <3>1. j \in 1..n
      BY <1>1, <2>2
    <3>2. NextPercent(c.format, j) = j /\ Literal(c.format, j) = <<>>
      BY <1>1, <2>2, <3>1, NextSame
    <3>3. IsHead(c.format, j)
      BY <1>4, <2>2, <3>1, Heads
    <3>4. Rest(j, c, ctx, sink) \in Seq(N)
      BY <1>2
    <3> HIDE DEF N
    <3>5. <<>> \o Rest(j, c, ctx, sink) = Rest(j, c, ctx, sink)
      BY <3>4, ConcatEmptySeq
    <3> QED
      BY <3>2, <3>3, <3>5
  <2>3. CASE j <= n /\ c.format[j] # "%"
    <3> DEFINE p == NextPercent(c.format, j + 1)
               e == Chars(<<c.format[j]>>)
               l == Literal(c.format, j + 1)
               r == Rest(p, c, ctx, sink)
    <3>1. j \in 1..n /\ j + 1 \in 1..(n + 1) /\ j \in Nat /\ j > 0 /\ j + 1 - 1 = j /\ j + 1 \in (j + 1)..(n + 1)
      BY <1>1, <2>3
    <3>2. NextPercent(c.format, j) = p /\ Literal(c.format, j) = e \o l
      BY <1>1, <2>3, <3>1, NextSame
    <3>3. ~IsHead(c.format, j)
      BY <2>3, <3>1, Heads
    <3>4. Splits2(j + 1, p) /\ (p <= n => IsHead(c.format, p))
      <4>1. j + 1 \in S
        BY <1>4, <3>1
      <4>2. Good(j + 1)
        BY <4>1
      <4> QED
        BY <3>1, <3>3, <4>2
    <3>5. ReadAt(j, c, ctx, sink) = e
      <4>1. ~IsDirective(c.format, j) /\ ~IsDirective(c.format, j - 1)
        BY <1>4, <3>3 DEF IsDirective
      <4> QED
        BY <4>1 DEF ReadAt
    <3>6. Rest(j, c, ctx, sink) = e \o (l \o r)
      BY <1>2, <3>1, <3>4, <3>5
    <3>7. e \in Seq(N) /\ l \in Seq(N) /\ r \in Seq(N)
      <4>1. e \in Seq(N)
        BY <3>1, <3>5, ReadType
      <4>2. p \in 1..(n + 1)
        BY <1>1, <1>3, <3>1
      <4> QED
        BY <1>2, <1>3, <3>1, <4>1, <4>2
    <3> HIDE DEF e, l, r, N
    <3>8. (e \o l) \o r = e \o (l \o r)
      BY <3>7, ConcatAssociative
    <3> QED
      BY <3>2, <3>4, <3>6, <3>8 DEF r
  <2> QED
    BY <1>1, <2>1, <2>2, <2>3
<1>5. \A j \in 1..(n + 1) : (\A k \in (j + 1)..(n + 1) : k \in S) => j \in S
  BY <1>4
<1>6. \A j \in 1..(n + 1) : j \in S
  <2> HIDE DEF S, n
  <2> QED
    BY <1>1, <1>5, Downward
<1> QED
  BY <1>6

LEMMA TwoJoined ==
  ASSUME NEW x, NEW y
  PROVE  <<x>> \o <<y>> = <<x, y>>
<1> DEFINE S == {x, y}
           s == <<x>>
           t == <<y>>
           u == s \o t
<1>1. s \in Seq(S) /\ t \in Seq(S) /\ Len(s) = 1 /\ Len(t) = 1 /\ s[1] = x /\ t[1] = y
  OBVIOUS
<1> HIDE DEF s, t, S
<1>2. u \in Seq(S) /\ Len(u) = 2 /\ u[1] = x /\ u[2] = y
  BY <1>1, ConcatProperties
<1> HIDE DEF u
<1>3. u = <<u[1], u[2]>>
  BY <1>2, ShortSeq
<1> QED
  BY <1>2, <1>3 DEF u, s, t

\* One turn of the loop reads the '%' and what is behind it.
LEMMA TurnRest ==
  ASSUME NEW c \in Configs, NEW ctx \in Context, NEW sink \in Sinks,
         NEW k \in 1..Len(c.format), c.format[k] = "%", IsHead(c.format, k)
  PROVE  /\ Rest(k, c, ctx, sink) = Operation(Op(c.format, k), c, ctx, sink) \o Rest(Index(c.format, k), c, ctx, sink)
         /\ Index(c.format, k) <= Len(c.format) => ~IsHead(c.format, Index(c.format, k) - 1)
<1> DEFINE n == Len(c.format)
           N == Named(ctx, sink)
           R(i) == Rest(i, c, ctx, sink)
           A(i) == ReadAt(i, c, ctx, sink)
           op == Op(c.format, k)
<1>1. n \in Nat /\ c.format \in Seq(STRING) /\ k \in Nat /\ k > 0 /\ k <= n
  BY ConstantsAssumption
<1>2. /\ R(n + 1) = <<>>
      /\ \A i \in 1..n : R(i) = A(i) \o R(i + 1)
      /\ \A i \in 1..(n + 1) : R(i) \in Seq(N)
      /\ \A i \in 1..n : A(i) \in Seq(N)
  BY RestIs, ReadType
<1>3. ~IsHead(c.format, k - 1) /\ ~IsDirective(c.format, k - 1)
  BY <1>1, Heads DEF IsDirective
<1>4. CASE k = n
  <2>1. op = <<c.format[k]>> /\ Index(c.format, k) = n + 1
    BY <1>1, <1>4, OpIs
  <2>2. Operation(op, c, ctx, sink) = Chars(<<c.format[k]>>)
    <3>1. Len(<<c.format[k]>>) = 1
      OBVIOUS
    <3> QED
      BY <2>1, <3>1 DEF Operation
  <2>3. A(k) = Chars(<<c.format[k]>>)
    <3>1. ~IsDirective(c.format, k)
      BY <1>1, <1>4 DEF IsDirective
    <3> QED
      BY <1>3, <3>1 DEF ReadAt
  <2>4. R(k) = A(k) \o R(n + 1)
    BY <1>1, <1>2, <1>4
  <2> HIDE DEF op, R, A, N
  <2> QED
    BY <1>1, <2>1, <2>2, <2>3, <2>4 DEF op, R, A
<1>5. CASE k < n
  <2> DEFINE x == c.format[k + 1]
             a == A(k)
             b == A(k + 1)
             r == R(k + 2)
  <2>1. op = <<c.format[k], x>> /\ Index(c.format, k) = k + 2 /\ k + 1 \in 1..n /\ k + 2 \in 1..(n + 1) /\ x \in STRING
    BY <1>1, <1>5, OpIs
  <2>2. Len(op) = 2 /\ op[2] = x
    BY <2>1
  <2>3. R(k) = a \o (b \o r) /\ a \in Seq(N) /\ b \in Seq(N) /\ r \in Seq(N)
    <3>1. R(k) = a \o R(k + 1) /\ R(k + 1) = b \o R(k + 1 + 1) /\ k + 1 + 1 = k + 2
      <4>1. k \in 1..n /\ k + 1 \in 1..n /\ k + 1 + 1 = k + 2
        BY <1>1, <2>1
      <4> HIDE DEF n, R, A
      <4> QED
        BY <1>2, <4>1
    <3>2. a \in Seq(N) /\ b \in Seq(N) /\ r \in Seq(N)
      BY <1>1, <1>2, <2>1
    <3> HIDE DEF a, b, R, A, N
    <3> QED
      BY <3>1, <3>2
  <2>4. ~IsHead(c.format, k + 1) /\ ~IsDirective(c.format, k + 1)
    <3>1. k + 1 \in Nat /\ k + 1 > 0 /\ k + 1 - 1 = k
      BY <1>1
    <3>2. ~IsHead(c.format, k + 1)
      BY <3>1, Heads
    <3> QED
      BY <3>2 DEF IsDirective
  <2>5. k + 1 - 1 = k /\ k \in 1..(n - 1)
    BY <1>1, <1>5
  <2>6. a \o b = Operation(op, c, ctx, sink)
    <3>1. CASE x \in Letters
      <4>1. IsDirective(c.format, k)
        BY <2>5, <3>1 DEF IsDirective
      <4>2. a = Directive(x, c, ctx, sink) /\ b = <<>>
        BY <2>4, <2>5, <4>1 DEF ReadAt
      <4>3. Operation(op, c, ctx, sink) = Directive(x, c, ctx, sink)
        BY <2>2, <3>1 DEF Operation
      <4> HIDE DEF a, b, N
      <4>4. a \o <<>> = a
        BY <2>3, ConcatEmptySeq
      <4> QED
        BY <4>2, <4>3, <4>4
    <3>2. CASE x \notin Letters
      <4>1. ~IsDirective(c.format, k)
        BY <3>2 DEF IsDirective
      <4>2. a = Chars(<<c.format[k]>>) /\ b = Chars(<<x>>)
        BY <1>3, <2>4, <2>5, <4>1 DEF ReadAt
      <4>3. Operation(op, c, ctx, sink) = Chars(op)
        BY <2>2, <3>2 DEF Operation
      <4>4. op = <<c.format[k]>> \o <<x>>
        BY <2>1, TwoJoined
      <4>5. <<x>> \in Seq(STRING) /\ c.format[k] \in STRING
        BY <1>1, <2>1
      <4>6. Chars(<<c.format[k]>> \o <<x>>) = Chars(<<c.format[k]>>) \o Chars(<<x>>)
        BY <4>5, CharsJoined
      <4> QED
        BY <4>2, <4>3, <4>4, <4>6
    <3> QED
      BY <3>1, <3>2
  <2> HIDE DEF a, b, r, N, op
  <2>7. (a \o b) \o r = a \o (b \o r)
    BY <2>3, ConcatAssociative
  <2>8. k + 2 - 1 = k + 1
    BY <1>1
  <2>9. R(k) = Operation(op, c, ctx, sink) \o r
    BY <2>3, <2>6, <2>7
  <2>10. r = R(Index(c.format, k)) /\ ~IsHead(c.format, Index(c.format, k) - 1)
    BY <2>1, <2>4, <2>8 DEF r
  <2> QED
    BY <2>9, <2>10 DEF op
<1> QED
  BY <1>1, <1>4, <1>5

LEMMA CustomReads ==
  ASSUME NEW c \in Configs, NEW ctx \in Context, NEW sink \in Sinks
  PROVE  customStringFormatter(c, ctx, sink) = Reading(c, ctx, sink)
<1> DEFINE n == Len(c.format)
           N == Named(ctx, sink)
           R(i) == Rest(i, c, ctx, sink)
           Starts(i) == i <= n => IsHead(c.format, i) /\ c.format[i] = "%"
<1>1. n \in Nat /\ c.format \in Seq(STRING) /\ 1 \in 1..(n + 1)
  BY ConstantsAssumption
<1>2. PICK F \in [1..(n + 1) -> Seq(N)] :
        /\ IsLoop(F, 1, c, ctx, sink)
        /\ customStringFormatter(c, ctx, sink) = Literal(c.format, 1) \o F[NextPercent(c.format, 1)]
  BY CustomIs
<1>3. R(n + 1) = <<>> /\ Reading(c, ctx, sink) = R(1) /\ \A k \in 1..(n + 1) : R(k) \in Seq(N)
  BY RestIs
\* From a position that no '%' begins something before.
<1>4. ASSUME NEW j \in 1..(n + 1), ~IsHead(c.format, j - 1)
      PROVE  LET p == NextPercent(c.format, j) IN
             /\ R(j) = Literal(c.format, j) \o R(p) /\ Starts(p) /\ p \in j..(n + 1)
  <2> DEFINE p == NextPercent(c.format, j)
  <2>1. p \in j..(n + 1) /\ (p <= n => c.format[p] = "%")
    BY <1>1, NextFound
  <2>2. R(j) = Literal(c.format, j) \o R(p) /\ (p <= n => IsHead(c.format, p))
    BY <1>4, LiteralRest
  <2> QED
    BY <2>1, <2>2
<1> DEFINE S == {k \in 1..(n + 1) : Starts(k) => F[k] = R(k)}
<1>5. ASSUME NEW k \in 1..(n + 1), \A j \in (k + 1)..(n + 1) : j \in S, Starts(k)
      PROVE  F[k] = R(k)
  <2>1. F[k] = Appends(F, k, c, ctx, sink)
    BY <1>2 DEF IsLoop
  <2>2. CASE k > n
    <3>1. k = n + 1
      BY <1>1, <2>2
    <3>2. F[k] = <<>>
      BY <2>1, <2>2 DEF Appends
    <3> QED
      BY <1>3, <3>1, <3>2
  <2>3. CASE ~(k > n)
    <3> DEFINE op == Operation(Op(c.format, k), c, ctx, sink)
               index == Index(c.format, k)
               l == Literal(c.format, index)
               p == NextPercent(c.format, index)
               r == R(p)
    <3>1. k \in 1..n /\ k <= n /\ c.format[k] = "%" /\ IsHead(c.format, k)
      BY <1>1, <1>5, <2>3
    <3>2. index \in (k + 1)..(n + 1) /\ index \in 1..(n + 1)
      BY <1>1, <3>1, OpIs
    <3>3. R(k) = op \o R(index) /\ (index <= n => ~IsHead(c.format, index - 1))
      BY <3>1, TurnRest
    <3>4. F[k] = op \o l \o F[p]
      BY <2>1, <2>3 DEF Appends
    <3>5. R(index) = l \o r /\ Starts(p) /\ p \in index..(n + 1)
      <4>1. CASE index <= n
        <5>1. ~IsHead(c.format, index - 1)
          BY <3>3, <4>1
        <5> HIDE DEF R
        <5> QED
          BY <1>4, <3>2, <5>1
      <4>2. CASE ~(index <= n)
        <5>1. index = n + 1
          BY <1>1, <3>2, <4>2
        <5>2. p \in index..(n + 1)
          BY <1>1, <3>2, NextFound
        <5>3. p = n + 1 /\ ~(p <= n)
          <6> HIDE DEF p, index, n
          <6> QED
            BY <1>1, <5>1, <5>2
        <5>4. l = <<>>
          <6> DEFINE m == p - 1
          <6>1. m = n /\ n < index
            <7> HIDE DEF p, index, n
            <7> QED
              BY <1>1, <5>1, <5>3 DEF m
          <6>2. l = Chars(SubSeq(c.format, index, m))
            BY DEF Literal
          <6> HIDE DEF m, l, index, p
          <6>3. SubSeq(c.format, index, m) = <<>>
            BY <1>1, <3>2, <6>1, SubSeqEmpty
          <6>4. Chars(<<>>) = <<>>
            BY DEF Chars
          <6> QED
            BY <6>2, <6>3, <6>4
        <5>5. <<>> \o <<>> = <<>>
          OBVIOUS
        <5> HIDE DEF l, p, index, n, R
        <5> QED
          BY <1>3, <5>1, <5>2, <5>3, <5>4, <5>5
      <4> QED
        BY <4>1, <4>2
    <3>6. p \in (k + 1)..(n + 1) /\ p \in 1..(n + 1)
      <4> HIDE DEF p, index, n
      <4> QED
        BY <1>1, <3>1, <3>2, <3>5
    <3>7. F[p] = r
      <4>1. p \in S
        BY <1>5, <3>6
      <4> QED
        BY <3>5, <4>1
    <3>8. op \in Seq(N) /\ l \in Seq(N) /\ r \in Seq(N)
      <4>1. op \in Seq(N)
        BY <1>1, <3>1, OpIs, OperationType
      <4>2. l \in Seq(N)
        BY <1>1, <3>2, LiteralType
      <4> QED
        BY <1>3, <3>6, <4>1, <4>2
    <3> HIDE DEF op, l, r, N
    <3>9. (op \o l) \o r = op \o (l \o r)
      BY <3>8, ConcatAssociative
    <3> QED
      BY <3>3, <3>4, <3>5, <3>7, <3>9
  <2> QED
    BY <2>2, <2>3
<1>6. \A k \in 1..(n + 1) : (\A j \in (k + 1)..(n + 1) : j \in S) => k \in S
  <2> HIDE DEF Starts, R
  <2> QED
    BY <1>5
<1>7. \A k \in 1..(n + 1) : k \in S
  <2> HIDE DEF S, n
  <2> QED
    BY <1>1, <1>6, Downward
<1> DEFINE p == NextPercent(c.format, 1)
<1>8. R(1) = Literal(c.format, 1) \o R(p) /\ Starts(p) /\ p \in 1..(n + 1)
  <2>1. 1 - 1 = 0 /\ ~IsHead(c.format, 0)
    <3>1. 0 \in Nat /\ 1 - 1 = 0
      OBVIOUS
    <3> QED
      BY <3>1, Heads
  <2> HIDE DEF R, Starts, n
  <2> QED
    BY <1>1, <1>4, <2>1
<1>9. F[p] = R(p)
  BY <1>7, <1>8
<1> HIDE DEF R
<1> QED
  BY <1>2, <1>3, <1>8, <1>9

-----------------------------------------------------------------------------
(***************************************************************************)
(* The invariant.                                                          *)
(***************************************************************************)
\* What is printed and what is still to be printed are together what the
\* formatter names.
Keeps(c, ctx, sink, buffer, todo) ==
  /\ Told(buffer) \o Asked(todo, ctx) = Asked(log_formatter(c, ctx, sink), ctx)
  /\ OnlyOf(buffer, Colours) \o OnlyOf(todo, Colours) = OnlyOf(log_formatter(c, ctx, sink), Colours)

Contexts(n) == {x \in Context : x.id \in 1..n}

\* A formatter in progress.  The context is in its buffer from before the
\* before callback on, and it has nothing to print from the after callback on.
Frames(c, n) ==
  {f \in [ctx : Contexts(n), sink : Sinks, pc : Pcs, m_ctx : 0..n, seen : 0..n,
          todo : Seq(Plain), buffer : Seq(Printed("console"))] :
     /\ f.todo \in Seq(Named(f.ctx, f.sink)) /\ f.buffer \in Seq(Printed(f.sink))
     /\ c.callbacks /\ f.pc # "before" => f.m_ctx = f.ctx.id
     /\ f.pc = "in after" => f.seen = f.ctx.id
     /\ f.pc \in {"in after", "write"} => f.todo = <<>>
     /\ Keeps(c, f.ctx, f.sink, f.buffer, f.todo)}

Lines(c, n, sink) ==
  {l \in [ctx : Contexts(n), text : Seq(Printed(sink))] : Keeps(c, l.ctx, sink, l.text, <<>>)}

Scalars ==
  /\ config \in Configs /\ now \in Times
  /\ t_lastSecond \in [AllThreads -> Times \cup {0}] /\ t_tm = t_lastSecond
  /\ t_timezone \in [AllThreads -> Int]
  /\ t_errnobuf \in [AllThreads -> {0} \cup ({m.err : m \in Messages} \ Known)]
  /\ started \in 0..MaxCalls /\ aborted \in BOOLEAN

\* The lines of the file are made by the outermost formatter of the worker.
FileAtBottom == \A t \in AllThreads : \A i \in DOMAIN calls[t] :
                  (calls[t][i].sink = "file") <=> (t = Worker /\ i = 1)

\* A number belongs to one message.
InUse(ctx) ==
  \/ \E i \in DOMAIN queue : queue[i] = ctx
  \/ \E t \in AllThreads : \E i \in DOMAIN calls[t] : calls[t][i].ctx = ctx
  \/ \E s \in Sinks : \E i \in DOMAIN lines[s] : lines[s][i].ctx = ctx

OneMessage == \A x, y : InUse(x) /\ InUse(y) /\ x.id = y.id => x = y

FormattingInv ==
  /\ Scalars /\ OneMessage
  /\ queue \in Seq(Contexts(started))
  /\ calls \in [AllThreads -> Seq(Frames(config, started))] /\ FileAtBottom
  /\ lines \in [Sinks -> Seq([ctx : Contexts(started), text : Seq(Printed("console"))])]
  /\ \A s \in Sinks : lines[s] \in Seq(Lines(config, started, s))
-----------------------------------------------------------------------------
(***************************************************************************)
(* Frames: what each step makes of the formatter that takes it.            *)
(***************************************************************************)
LEMMA PrintedSub ==
  ASSUME NEW sink
  PROVE  Printed(sink) \subseteq Printed("console")
BY PrintedIs

LEMMA MoreContexts ==
  ASSUME NEW c, NEW n \in Nat
  PROVE  /\ Contexts(n) \subseteq Contexts(n + 1)
         /\ Frames(c, n) \subseteq Frames(c, n + 1)
         /\ \A sink : Lines(c, n, sink) \subseteq Lines(c, n + 1, sink)
<1>1. Contexts(n) \subseteq Contexts(n + 1) /\ 0..n \subseteq 0..(n + 1)
  BY DEF Contexts
<1> QED
  BY <1>1 DEF Frames, Lines

\* A new formatter has everything still to print.
LEMMA NewFrame ==
  ASSUME config \in Configs, NEW n \in Nat, NEW ctx \in Contexts(n), NEW sink \in Sinks
  PROVE  NewFormatter(ctx, sink) \in Frames(config, n)
<1> DEFINE todo == log_formatter(config, ctx, sink)
<1>1. ctx \in Context
  BY DEF Contexts
<1>2. todo \in Seq(Named(ctx, sink))
  BY <1>1, FormatterType
<1> HIDE DEF todo
<1>3. todo \in Seq(Plain)
  BY <1>2 DEF Named
<1>4. Told(<<>>) = <<>> /\ OnlyOf(<<>>, Colours) = <<>>
  <2>1. Timeless(<<>>) = <<>>
    BY DEF Timeless
  <2> QED
    BY <2>1, KindsEmpty DEF Told
<1>5. <<>> \o Asked(todo, ctx) = Asked(todo, ctx) /\ <<>> \o OnlyOf(todo, Colours) = OnlyOf(todo, Colours)
  BY <1>1, <1>2, AskedType, KindsType, ConcatEmptySeq
<1>6. Keeps(config, ctx, sink, <<>>, todo)
  BY <1>4, <1>5 DEF Keeps, todo
<1>7. <<>> \in Seq(Printed(sink)) /\ <<>> \in Seq(Printed("console")) /\ "before" \in Pcs
      /\ 0 \in 0..n /\ "before" \notin {"in after", "write"}
  BY EmptySeq DEF Pcs
<1>8. NewFormatter(ctx, sink) = [ctx |-> ctx, sink |-> sink, pc |-> "before", m_ctx |-> 0, seen |-> 0,
                                 todo |-> todo, buffer |-> <<>>]
  BY DEF NewFormatter, todo
<1> DEFINE f == [ctx |-> ctx, sink |-> sink, pc |-> "before", m_ctx |-> 0, seen |-> 0,
                 todo |-> todo, buffer |-> <<>>]
<1>9. f \in [ctx : Contexts(n), sink : Sinks, pc : Pcs, m_ctx : 0..n, seen : 0..n,
             todo : Seq(Plain), buffer : Seq(Printed("console"))]
  BY <1>3, <1>7
<1>10. f.ctx = ctx /\ f.sink = sink /\ f.pc = "before" /\ f.todo = todo /\ f.buffer = <<>>
  OBVIOUS
<1> HIDE DEF f
<1>11. f \in Frames(config, n)
  BY <1>2, <1>6, <1>7, <1>9, <1>10 DEF Frames
<1> QED
  BY <1>8, <1>11 DEF f

LEMMA FrameContext ==
  ASSUME NEW c, NEW n \in Nat, NEW f \in Frames(c, n)
  PROVE  /\ f.ctx \in Contexts(n) /\ f.ctx \in Context /\ f.ctx.id \in 1..n /\ f.ctx.id \in 0..n
         /\ f.ctx.id \in Int
<1>1. f.ctx \in Contexts(n)
  BY DEF Frames
<1> QED
  BY <1>1 DEF Contexts

LEMMA FrameBefore ==
  ASSUME NEW c, NEW n \in Nat, NEW f \in Frames(c, n), f.pc = "before"
  PROVE  /\ [f EXCEPT !.m_ctx = f.ctx.id, !.pc = "in before"] \in Frames(c, n)
         /\ ~c.callbacks => [f EXCEPT !.pc = "fields"] \in Frames(c, n)
<1>1. f.ctx.id \in 0..n
  BY FrameContext
<1>2. {"in before", "fields"} \subseteq Pcs
      /\ "in before" \notin {"in after", "write"} /\ "fields" \notin {"in after", "write"}
  BY DEF Pcs
<1> QED
  BY <1>1, <1>2 DEF Frames

\* A mark in the buffer.
LEMMA MarkedFrame ==
  ASSUME NEW c, NEW n \in Nat, NEW f \in Frames(c, n), NEW mark \in Marks
  PROVE  LET b == Append(f.buffer, <<mark, f.ctx.id>>) IN
         /\ b \in Seq(Printed(f.sink)) /\ b \in Seq(Printed("console"))
         /\ Keeps(c, f.ctx, f.sink, b, f.todo)
<1> DEFINE e == <<mark, f.ctx.id>>
<1>0. f.ctx.id \in Int
  BY FrameContext
<1>1. f.buffer \in Seq(Printed(f.sink)) /\ f.ctx.id \in Int /\ Keeps(c, f.ctx, f.sink, f.buffer, f.todo)
  BY <1>0 DEF Frames
<1>2. e \in Printed(f.sink) /\ e[1] \in Marks
  <2>1. mark \notin {"time", "error"} /\ mark \notin Colours
    BY DEF Marks, Colours
  <2>2. e \in Pairs
    BY <1>1 DEF Pairs, Values
  <2> QED
    BY <2>1, <2>2 DEF Printed
<1> HIDE DEF e
<1>3. Append(f.buffer, e) \in Seq(Printed(f.sink))
  BY <1>1, <1>2, AppendProperties
<1>4. Append(f.buffer, e) \in Seq(Printed("console"))
  BY <1>3, PrintedSub
<1>5. Told(Append(f.buffer, e)) = Told(f.buffer) /\ OnlyOf(Append(f.buffer, e), Colours) = OnlyOf(f.buffer, Colours)
  BY <1>1, <1>2, MarkSaid
<1> QED
  BY <1>1, <1>3, <1>4, <1>5 DEF Keeps, e

LEMMA FrameReturns ==
  ASSUME NEW c, NEW n \in Nat, NEW f \in Frames(c, n)
  PROVE  /\ f.pc = "in before" =>
              [f EXCEPT !.pc = "fields", !.buffer = Append(@, <<"before", f.ctx.id>>)] \in Frames(c, n)
         /\ f.pc = "in after" =>
              [f EXCEPT !.pc = "write", !.buffer = Append(@, <<"after", f.ctx.id>>)] \in Frames(c, n)
<1>1. "before" \in Marks /\ "after" \in Marks /\ {"fields", "write"} \subseteq Pcs
      /\ "fields" \notin {"in after", "write"} /\ "in before" # "before" /\ "in after" # "before"
      /\ "write" # "in after" /\ "in after" \in {"in after", "write"}
  BY DEF Marks, Pcs
<1> DEFINE b(mark) == Append(f.buffer, <<mark, f.ctx.id>>)
<1>2. \A mark \in Marks : /\ b(mark) \in Seq(Printed(f.sink)) /\ b(mark) \in Seq(Printed("console"))
                          /\ Keeps(c, f.ctx, f.sink, b(mark), f.todo)
  BY MarkedFrame
<1>3. f.pc = "in before" => [f EXCEPT !.pc = "fields", !.buffer = b("before")] \in Frames(c, n)
  <2> HIDE DEF b
  <2> QED
    BY <1>1, <1>2 DEF Frames
<1>4. f.pc = "in after" => [f EXCEPT !.pc = "write", !.buffer = b("after")] \in Frames(c, n)
  <2> HIDE DEF b
  <2> QED
    BY <1>1, <1>2 DEF Frames
<1> QED
  BY <1>3, <1>4 DEF b

LEMMA FrameAfter ==
  ASSUME NEW c, NEW n \in Nat, NEW f \in Frames(c, n), f.pc = "fields", f.todo = <<>>
  PROVE  /\ c.callbacks => [f EXCEPT !.pc = "in after", !.seen = f.m_ctx] \in Frames(c, n)
         /\ [f EXCEPT !.pc = "write"] \in Frames(c, n)
<1>1. {"in after", "write"} \subseteq Pcs /\ "fields" # "before" /\ "write" # "in after"
  BY DEF Pcs
<1>2. f.m_ctx \in 0..n /\ (c.callbacks => f.m_ctx = f.ctx.id)
  BY <1>1 DEF Frames
<1> QED
  BY <1>1, <1>2 DEF Frames

\* A field e is printed for the next one that is asked for.
Prints(f, e) ==
  /\ f.pc = "fields" /\ f.todo # <<>> /\ e \in Printed(f.sink)
  /\ e[1] = Head(f.todo)[1] /\ TimelessOne(e) = AskedOne(Head(f.todo), f.ctx)
  /\ e[1] \in Colours => e = Head(f.todo)

LEMMA FramePut ==
  ASSUME NEW c, NEW n \in Nat, NEW f \in Frames(c, n), NEW e, Prints(f, e)
  PROVE  [f EXCEPT !.todo = Tail(@), !.buffer = Append(@, e)] \in Frames(c, n)
<1>0. /\ f.pc = "fields" /\ f.todo # <<>> /\ e \in Printed(f.sink)
      /\ e[1] = Head(f.todo)[1] /\ TimelessOne(e) = AskedOne(Head(f.todo), f.ctx)
      /\ e[1] \in Colours => e = Head(f.todo)
  BY DEF Prints
<1> DEFINE b == Append(f.buffer, e)
           r == Tail(f.todo)
<1>1. /\ f.ctx \in Context /\ f.buffer \in Seq(Printed(f.sink)) /\ f.todo \in Seq(Named(f.ctx, f.sink))
      /\ Keeps(c, f.ctx, f.sink, f.buffer, f.todo)
  BY DEF Frames, Contexts
<1>2. b \in Seq(Printed(f.sink)) /\ r \in Seq(Named(f.ctx, f.sink))
  BY <1>0, <1>1, AppendProperties, HeadTail
<1>3. Keeps(c, f.ctx, f.sink, b, r)
  <2>1. /\ Told(b) \o Asked(r, f.ctx) = Told(f.buffer) \o Asked(f.todo, f.ctx)
        /\ OnlyOf(b, Colours) \o OnlyOf(r, Colours) = OnlyOf(f.buffer, Colours) \o OnlyOf(f.todo, Colours)
    <3> DEFINE ctx == f.ctx  sink == f.sink  old == f.buffer  todo == f.todo
    <3>1. /\ ctx \in Context /\ old \in Seq(Printed(sink)) /\ todo \in Seq(Named(ctx, sink)) /\ todo # <<>>
          /\ e \in Printed(sink) /\ e[1] = Head(todo)[1] /\ TimelessOne(e) = AskedOne(Head(todo), ctx)
          /\ e[1] \in Colours => e = Head(todo)
      BY <1>0, <1>1
    <3> HIDE DEF ctx, sink, old, todo
    <3>2. Told(Append(old, e)) \o Asked(Tail(todo), ctx) = Told(old) \o Asked(todo, ctx)
      BY <3>1, FieldTold
    <3>3. OnlyOf(Append(old, e), Colours) \o OnlyOf(Tail(todo), Colours)
            = OnlyOf(old, Colours) \o OnlyOf(todo, Colours)
      <4> DEFINE S == Printed(sink) \cup Named(ctx, sink)
      <4>1. old \in Seq(S) /\ todo \in Seq(S) /\ e \in S
        <5>1. Printed(sink) \subseteq S /\ Named(ctx, sink) \subseteq S
          OBVIOUS
        <5> HIDE DEF S
        <5> QED
          BY <3>1, <5>1
      <4> HIDE DEF S
      <4> QED
        BY <3>1, <4>1, FieldColours
    <3> QED
      BY <3>2, <3>3 DEF ctx, sink, old, todo
  <2> HIDE DEF b, r
  <2> QED
    BY <1>1, <2>1 DEF Keeps
<1> HIDE DEF b, r
<1>4. b \in Seq(Printed("console")) /\ r \in Seq(Plain)
  <2>1. Named(f.ctx, f.sink) \subseteq Plain
    BY DEF Named
  <2> QED
    BY <1>2, <2>1, PrintedSub
<1>5. "fields" \notin {"in after", "write"}
  OBVIOUS
<1>6. [f EXCEPT !.todo = r, !.buffer = b] \in Frames(c, n)
  BY <1>0, <1>2, <1>3, <1>4, <1>5 DEF Frames
<1> QED
  BY <1>6 DEF b, r

\* What the three kinds of field become.
LEMMA FieldsPut ==
  ASSUME NEW c, NEW n \in Nat, NEW f \in Frames(c, n), f.todo # <<>>
  PROVE  LET h == Head(f.todo) IN
         /\ h[1] = "tid" =>
              LET e == <<"tid", f.ctx.tid>> IN
              /\ e \in Printed(f.sink) /\ e[1] = h[1] /\ e[1] \notin Colours
              /\ TimelessOne(e) = AskedOne(h, f.ctx)
         /\ h[1] \notin {"time", "error", "tid"} =>
              h \in Printed(f.sink) /\ TimelessOne(h) = AskedOne(h, f.ctx)
         /\ h[1] = "time" =>
              \A s \in Times, z \in Int :
                LET e == <<"time", h[2], s, z, s>> IN
                /\ e \in Printed(f.sink) /\ e[1] = h[1] /\ e[1] \notin Colours
                /\ TimelessOne(e) = AskedOne(h, f.ctx)
         /\ h[1] = "error" =>
              /\ h[2] = f.ctx.err
              /\ \A x \in Nat :
                   LET e == <<"error", x, h[2]>> IN
                   /\ e \in Printed(f.sink) /\ e[1] = h[1] /\ e[1] \notin Colours
                   /\ TimelessOne(e) = AskedOne(h, f.ctx)
<1> DEFINE h == Head(f.todo)
<1>1. f.ctx \in Context /\ h \in Named(f.ctx, f.sink) /\ f.ctx.err \in Nat /\ f.ctx.tid \in AllThreads
  <2>1. f.ctx \in Context /\ f.todo \in Seq(Named(f.ctx, f.sink))
    BY DEF Frames, Contexts
  <2>2. f.ctx.err \in Nat /\ f.ctx.tid \in AllThreads
    BY <2>1, ConstantsAssumption DEF Context
  <2> QED
    BY <2>1, <2>2, HeadTail
<1> HIDE DEF h
<1>2. /\ h \in Pairs /\ h = <<h[1], h[2]>> /\ h[2] \in Values
      /\ h[1] = "error" => h[2] = f.ctx.err
      /\ f.sink = "file" => h[1] \notin Colours
  BY <1>1, NamedIs
<1>3. "tid" \in Kinds /\ "tid" \notin {"time", "error"} /\ {"tid", "time", "error"} \cap Colours = {}
  BY DEF Kinds, Colours
<1>4. ASSUME h[1] = "tid"
      PROVE  LET e == <<"tid", f.ctx.tid>> IN
              /\ e \in Printed(f.sink) /\ e[1] = h[1] /\ e[1] \notin Colours
              /\ TimelessOne(e) = AskedOne(h, f.ctx)
  <2> DEFINE e == <<"tid", f.ctx.tid>>
  <2>1. e \in Pairs /\ e[1] = "tid"
    BY <1>1, <1>3 DEF Pairs, Values
  <2>2. TimelessOne(e) = e /\ AskedOne(h, f.ctx) = e
    BY <1>4 DEF TimelessOne, AskedOne
  <2> HIDE DEF e
  <2>3. e \in Printed(f.sink)
    BY <1>3, <2>1 DEF Printed
  <2> QED
    BY <1>3, <1>4, <2>1, <2>2, <2>3 DEF e
<1>5. ASSUME h[1] \notin {"time", "error", "tid"}
      PROVE  h \in Printed(f.sink) /\ TimelessOne(h) = AskedOne(h, f.ctx)
  BY <1>2, <1>5 DEF Printed, TimelessOne, AskedOne
<1>6. ASSUME h[1] = "time", NEW s \in Times, NEW z \in Int
      PROVE  LET e == <<"time", h[2], s, z, s>> IN
              /\ e \in Printed(f.sink) /\ e[1] = h[1] /\ e[1] \notin Colours
              /\ TimelessOne(e) = AskedOne(h, f.ctx)
  <2> DEFINE e == <<"time", h[2], s, z, s>>
  <2>1. e \in Printed(f.sink)
    BY <1>2 DEF Printed
  <2>2. e[1] = "time" /\ TimelessOne(e) = <<"time", h[2]>>
    BY DEF TimelessOne
  <2>3. AskedOne(h, f.ctx) = <<"time", h[2]>>
    BY <1>2, <1>6 DEF AskedOne
  <2> QED
    BY <1>3, <1>6, <2>1, <2>2, <2>3
<1>7. ASSUME h[1] = "error", NEW x \in Nat
      PROVE  LET e == <<"error", x, h[2]>> IN
              /\ e \in Printed(f.sink) /\ e[1] = h[1] /\ e[1] \notin Colours
              /\ TimelessOne(e) = AskedOne(h, f.ctx)
  <2> DEFINE e == <<"error", x, h[2]>>
  <2>1. e \in Printed(f.sink)
    BY <1>1, <1>2, <1>7 DEF Printed
  <2>2. e[1] = "error" /\ TimelessOne(e) = <<"error", h[2]>>
    BY DEF TimelessOne
  <2>3. AskedOne(h, f.ctx) = <<"error", h[2]>>
    BY <1>2, <1>7 DEF AskedOne
  <2> QED
    BY <1>3, <1>7, <2>1, <2>2, <2>3
<1> QED
  BY <1>2, <1>4, <1>5, <1>6, <1>7 DEF h

\* A formatter that is done leaves a line.
LEMMA LineOf ==
  ASSUME NEW c, NEW n \in Nat, NEW f \in Frames(c, n), f.pc = "write"
  PROVE  [ctx |-> f.ctx, text |-> f.buffer] \in Lines(c, n, f.sink)
<1>1. f.ctx \in Contexts(n) /\ f.buffer \in Seq(Printed(f.sink)) /\ f.todo = <<>>
      /\ Keeps(c, f.ctx, f.sink, f.buffer, f.todo)
  BY DEF Frames
<1> QED
  BY <1>1 DEF Lines

-----------------------------------------------------------------------------
(***************************************************************************)
(* Steps.                                                                  *)
(***************************************************************************)
\* Replacing the last element of a sequence.
LEMMA FrontIs ==
  ASSUME NEW G, NEW s \in Seq(G), s # <<>>
  PROVE  /\ Last(s) = s[Len(s)] /\ Last(s) \in G /\ Len(s) \in Nat /\ Len(s) >= 1
         /\ Front(s) \in Seq(G) /\ Len(Front(s)) = Len(s) - 1
         /\ \A i \in 1..(Len(s) - 1) : Front(s)[i] = s[i]
<1>1. Len(s) \in Nat /\ Len(s) # 0 /\ Last(s) = s[Len(s)] /\ \A i \in 1..Len(s) : s[i] \in G
  BY DEF Last
<1> DEFINE k == Len(s) - 1
           r == SubSeq(s, 1, k)
<1>2. k \in Nat /\ k <= Len(s)
  BY <1>1
<1>3. 1 \in Int /\ k \in Int /\ \A i \in 1..k : s[i] \in G
  BY <1>1, <1>2
<1> HIDE DEF k
<1>4. /\ r \in Seq(G) /\ Len(r) = IF 1 <= k THEN k - 1 + 1 ELSE 0
      /\ \A i \in 1..(k - 1 + 1) : r[i] = s[1 + i - 1]
  BY <1>3, SubSeqProperties
<1>5. Front(s) = r
  BY DEF Front, k
<1> HIDE DEF r
<1>6. Len(r) = k
  BY <1>2, <1>4
<1>7. ASSUME NEW i \in 1..k PROVE r[i] = s[i]
  <2>1. i \in 1..(k - 1 + 1) /\ 1 + i - 1 = i
    BY <1>2
  <2> QED
    BY <1>4, <2>1
<1> QED
  BY <1>1, <1>4, <1>5, <1>6, <1>7 DEF k

LEMMA LastReplaced ==
  ASSUME NEW G, NEW s \in Seq(G), NEW x \in G, s # <<>>
  PROVE  /\ Append(Front(s), x) \in Seq(G) /\ Len(Append(Front(s), x)) = Len(s)
         /\ Append(Front(s), x)[Len(s)] = x
         /\ \A i \in 1..(Len(s) - 1) : Append(Front(s), x)[i] = s[i]
<1>1. /\ Len(s) \in Nat /\ Len(s) >= 1
      /\ Front(s) \in Seq(G) /\ Len(Front(s)) = Len(s) - 1
      /\ \A i \in 1..(Len(s) - 1) : Front(s)[i] = s[i]
  BY FrontIs
<1> DEFINE front == Front(s)
           n == Len(s)
<1>2. /\ n \in Nat /\ n >= 1 /\ front \in Seq(G) /\ Len(front) = n - 1
      /\ \A i \in 1..(n - 1) : front[i] = s[i]
  BY <1>1
<1> HIDE DEF front, n
<1>3. /\ Append(front, x) \in Seq(G) /\ Len(Append(front, x)) = n
      /\ Append(front, x)[n] = x /\ \A i \in 1..(n - 1) : Append(front, x)[i] = s[i]
  BY <1>2, AppendProperties
<1> QED
  BY <1>3 DEF front, n

LEMMA LastExcept ==
  ASSUME NEW G, NEW s \in Seq(G), NEW x \in G, s # <<>>
  PROVE  [s EXCEPT ![Len(s)] = x] = Append(Front(s), x)
<1> DEFINE n == Len(s)
           u == Append(Front(s), x)
<1>1. /\ u \in Seq(G) /\ Len(u) = n /\ u[n] = x /\ \A i \in 1..(n - 1) : u[i] = s[i]
  BY LastReplaced
<1>2. n \in Nat /\ n >= 1
  BY FrontIs
<1>3. s = [i \in 1..n |-> s[i]]
  OBVIOUS
<1>4. [s EXCEPT ![n] = x] = [i \in 1..n |-> IF i = n THEN x ELSE s[i]]
  BY <1>3
<1> HIDE DEF n, u
<1>5. u = [i \in 1..n |-> u[i]]
  BY <1>1, <1>2
<1>6. \A i \in 1..n : u[i] = IF i = n THEN x ELSE s[i]
  BY <1>1, <1>2
<1> QED
  BY <1>4, <1>5, <1>6 DEF n, u

\* What a formatter in progress is for stays the same.
CallsKeep ==
  \A q \in AllThreads : \A i \in DOMAIN calls'[q] :
    i \in DOMAIN calls[q] /\ calls'[q][i].ctx = calls[q][i].ctx

LEMMA NoneAdded ==
  ASSUME OneMessage, CallsKeep, queue' = queue, lines' = lines
  PROVE  OneMessage'
<1>1. \A x : InUse(x)' => InUse(x)
  BY DEF InUse, CallsKeep
<1> QED
  BY <1>1 DEF OneMessage

\* The formatter that is the innermost of a thread goes on.
LEMMA Replaced ==
  ASSUME calls \in [AllThreads -> Seq(Frames(config, started))], FileAtBottom,
         NEW t \in AllThreads, calls[t] # <<>>,
         NEW x \in Frames(config, started), x.sink = Top(t).sink, x.ctx = Top(t).ctx,
         config' = config, started' = started,
         calls' = [calls EXCEPT ![t] = Append(Front(calls[t]), x)]
  PROVE  calls' \in [AllThreads -> Seq(Frames(config, started)')] /\ FileAtBottom' /\ CallsKeep
<1> DEFINE s == calls[t]
           u == Append(Front(s), x)
           n == Len(s)
<1>1. s \in Seq(Frames(config, started)) /\ Frames(config, started)' = Frames(config, started)
  BY DEF Frames
<1>2. /\ Top(t) = s[n] /\ n \in 1..n /\ u \in Seq(Frames(config, started)) /\ Len(u) = n
      /\ n \in Nat /\ u[n] = x /\ \A i \in 1..(n - 1) : u[i] = s[i]
  <2>1. Top(t) = Last(s) /\ s # <<>>
    BY DEF Top
  <2> DEFINE S == Frames(config, started)
  <2>2. s \in Seq(S) /\ x \in S
    BY <1>1
  <2> HIDE DEF s, S
  <2>3. /\ Append(Front(s), x) \in Seq(S) /\ Len(Append(Front(s), x)) = Len(s)
        /\ Append(Front(s), x)[Len(s)] = x
        /\ \A i \in 1..(Len(s) - 1) : Append(Front(s), x)[i] = s[i]
    BY <2>1, <2>2, LastReplaced
  <2>4. Last(s) = s[Len(s)] /\ Len(s) \in Nat /\ Len(s) >= 1
    BY <2>1, <2>2, FrontIs
  <2>5. Top(t) = s[n] /\ n \in 1..n /\ n \in Nat
    BY <2>1, <2>4
  <2>6. u \in Seq(S) /\ Len(u) = n /\ u[n] = x /\ \A i \in 1..(n - 1) : u[i] = s[i]
    BY <2>3
  <2> HIDE DEF n, u
  <2> QED
    BY <2>5, <2>6 DEF S
<1>3. DOMAIN u = 1..n /\ DOMAIN s = 1..n
  <2> HIDE DEF s, u
  <2> QED
    BY <1>1, <1>2 DEF n
<1>4. \A i \in 1..n : u[i].sink = s[i].sink /\ u[i].ctx = s[i].ctx
  <2> HIDE DEF s, u, n
  <2> QED
    BY <1>2
<1> HIDE DEF u, n
<1>8. \A i \in DOMAIN s : (s[i].sink = "file") <=> (t = Worker /\ i = 1)
  BY DEF FileAtBottom
<1> HIDE DEF s
<1>5. calls' = [calls EXCEPT ![t] = u]
  BY DEF s, u
<1>6. calls' \in [AllThreads -> Seq(Frames(config, started))]
  BY <1>2, <1>5
<1>7. FileAtBottom'
  <2> SUFFICES ASSUME NEW q \in AllThreads, NEW i \in DOMAIN calls'[q]
               PROVE  (calls'[q][i].sink = "file") <=> (q = Worker /\ i = 1)
    BY DEF FileAtBottom
  <2>1. CASE q = t
    BY <1>3, <1>4, <1>5, <1>8, <2>1
  <2>2. CASE q # t
    BY <1>5, <2>2 DEF FileAtBottom
  <2> QED
    BY <2>1, <2>2
<1>9. CallsKeep
  <2> SUFFICES ASSUME NEW q \in AllThreads, NEW i \in DOMAIN calls'[q]
               PROVE  i \in DOMAIN calls[q] /\ calls'[q][i].ctx = calls[q][i].ctx
    BY DEF CallsKeep
  <2>1. CASE q = t
    BY <1>3, <1>4, <1>5, <2>1 DEF s
  <2>2. CASE q # t
    BY <1>5, <2>2
  <2> QED
    BY <2>1, <2>2
<1> QED
  BY <1>1, <1>6, <1>7, <1>9

LEMMA TopFrame ==
  ASSUME calls \in [AllThreads -> Seq(Frames(config, started))], NEW t \in AllThreads, calls[t] # <<>>
  PROVE  /\ Top(t) \in Frames(config, started) /\ Top(t) = calls[t][Len(calls[t])]
         /\ Len(calls[t]) \in DOMAIN calls[t]
BY DEF Top, Last

\* At the start nothing is in progress and nothing written (Init).
THEOREM FormattingStart == Init => FormattingInv
<1> SUFFICES ASSUME Init PROVE FormattingInv
  OBVIOUS
<1>1. Scalars
  <2>1. config \in Configs /\ now \in Times /\ aborted \in BOOLEAN
    BY DEF Init
  <2>2. 0 \in 0..MaxCalls /\ -1 \in Int
    BY ConstantsAssumption
  <2>3. started \in 0..MaxCalls
    BY <2>2 DEF Init
  <2>4. t_timezone \in [AllThreads -> Int]
    BY <2>2 DEF Init
  <2>5. t_lastSecond \in [AllThreads -> Times \cup {0}] /\ t_tm = t_lastSecond
    BY DEF Init
  <2>6. t_errnobuf \in [AllThreads -> {0} \cup ({m.err : m \in Messages} \ Known)]
    BY DEF Init
  <2> QED
    BY <2>1, <2>3, <2>4, <2>5, <2>6 DEF Scalars
<1>2. \A S : <<>> \in Seq(S)
  BY EmptySeq
<1>3. \A x : ~InUse(x)
  BY DEF Init, InUse
<1>4. FileAtBottom
  BY DEF Init, FileAtBottom
<1> QED
  BY <1>1, <1>2, <1>3, <1>4 DEF Init, FormattingInv, OneMessage

\* A step of one formatter leaves everything else as it is.
LEMMA OneGoesOn ==
  ASSUME FormattingInv, NEW t \in AllThreads, calls[t] # <<>>,
         NEW x \in Frames(config, started), x.sink = Top(t).sink, x.ctx = Top(t).ctx, Replace(t, x),
         UNCHANGED <<config, started, queue, lines>>, Scalars'
  PROVE  FormattingInv'
<1>1. calls \in [AllThreads -> Seq(Frames(config, started))] /\ FileAtBottom
  BY DEF FormattingInv
<1>2. calls' = [calls EXCEPT ![t] = Append(Front(calls[t]), x)]
  BY DEF Replace
<1>3. calls' \in [AllThreads -> Seq(Frames(config, started)')] /\ FileAtBottom' /\ CallsKeep
  BY <1>1, <1>2, Replaced
<1>6. OneMessage'
  BY <1>3, NoneAdded DEF FormattingInv
<1>4. queue' \in Seq(Contexts(started)')
  BY DEF FormattingInv, Contexts
<1>5. /\ lines' \in [Sinks -> Seq([ctx : Contexts(started)', text : Seq(Printed("console")')])]
      /\ \A s \in Sinks : lines'[s] \in Seq(Lines(config, started, s)')
  <2>1. /\ Contexts(started)' = Contexts(started) /\ Printed("console")' = Printed("console")
        /\ \A s : Lines(config, started, s)' = Lines(config, started, s)
    BY DEF Contexts, Printed, Lines, Keeps
  <2>2. /\ lines \in [Sinks -> Seq([ctx : Contexts(started), text : Seq(Printed("console"))])]
        /\ \A s \in Sinks : lines[s] \in Seq(Lines(config, started, s))
    BY DEF FormattingInv
  <2>3. lines' = lines
    OBVIOUS
  <2> QED
    BY <2>1, <2>2, <2>3, Zenon
<1> QED
  BY <1>3, <1>4, <1>5, <1>6 DEF FormattingInv

\* A message comes in, or is taken out of the queue.
LEMMA Added ==
  ASSUME FormattingInv, NEW t \in AllThreads, NEW ctx, NEW sink,
         InUse(ctx) \/ ctx.id = started + 1, lines' = lines,
         \A i \in DOMAIN queue' : InUse(queue'[i]) \/ queue'[i] = ctx,
         calls' = [calls EXCEPT ![t] = Append(calls[t], NewFormatter(ctx, sink))]
  PROVE  OneMessage'
<1>1. /\ started \in Nat /\ queue \in Seq(Contexts(started))
      /\ calls \in [AllThreads -> Seq(Frames(config, started))]
      /\ \A s \in Sinks : lines[s] \in Seq(Lines(config, started, s))
  BY ConstantsAssumption DEF FormattingInv, Scalars
<1>2. ASSUME NEW x, InUse(x) PROVE x.id # started + 1
  <2>1. CASE \E i \in DOMAIN queue : queue[i] = x
    <3>1. x \in Contexts(started)
      BY <1>1, <2>1
    <3> QED
      BY <1>1, <3>1 DEF Contexts
  <2>2. CASE \E q \in AllThreads : \E i \in DOMAIN calls[q] : calls[q][i].ctx = x
    <3>1. PICK f \in Frames(config, started) : f.ctx = x
      BY <1>1, <2>2
    <3>2. f.ctx.id \in 1..started
      BY <1>1, FrameContext
    <3> QED
      BY <1>1, <3>1, <3>2
  <2>3. CASE \E s \in Sinks : \E i \in DOMAIN lines[s] : lines[s][i].ctx = x
    <3>1. PICK s \in Sinks : \E l \in Lines(config, started, s) : l.ctx = x
      BY <1>1, <2>3
    <3>2. x \in Contexts(started)
      BY <3>1 DEF Lines
    <3> QED
      BY <1>1, <3>2 DEF Contexts
  <2> QED
    BY <1>2, <2>1, <2>2, <2>3 DEF InUse
<1>3. ASSUME NEW q \in AllThreads, NEW i \in DOMAIN calls'[q]
      PROVE  InUse(calls'[q][i].ctx) \/ calls'[q][i].ctx = ctx
  <2> DEFINE y == NewFormatter(ctx, sink)
             s == calls[t]
             F == Frames(config, started)
  <2>1. y.ctx = ctx
    BY DEF NewFormatter
  <2>2. CASE q # t
    <3>1. i \in DOMAIN calls[q] /\ calls'[q][i] = calls[q][i]
      BY <1>1, <2>2
    <3> QED
      BY <3>1 DEF InUse
  <2>3. CASE q = t
    <3>1. s \in Seq(F) /\ calls'[q] = Append(s, y)
      BY <1>1, <2>3
    <3>2. (i \in DOMAIN s /\ calls'[q][i] = s[i]) \/ calls'[q][i] = y
      <4>1. i \in DOMAIN Append(s, y)
        BY <3>1
      <4> HIDE DEF s, y, F
      <4> QED
        BY <3>1, <4>1
    <3> QED
      BY <2>1, <3>2 DEF InUse
  <2> QED
    BY <2>2, <2>3
<1>4. ASSUME NEW x, InUse(x)' PROVE InUse(x) \/ x = ctx
  <2>1. CASE \E i \in DOMAIN queue' : queue'[i] = x
    BY <2>1
  <2>2. CASE \E q \in AllThreads : \E i \in DOMAIN calls'[q] : calls'[q][i].ctx = x
    BY <1>3, <2>2
  <2>3. CASE \E s \in Sinks : \E i \in DOMAIN lines'[s] : lines'[s][i].ctx = x
    BY <2>3 DEF InUse
  <2> QED
    BY <1>4, <2>1, <2>2, <2>3 DEF InUse
<1>5. \A x, y : InUse(x) /\ InUse(y) /\ x.id = y.id => x = y
  BY DEF FormattingInv, OneMessage
<1>6. \A x, y : InUse(x)' /\ InUse(y)' /\ x.id = y.id => x = y
  BY <1>2, <1>4, <1>5
<1> QED
  BY <1>6 DEF OneMessage

LEMMA OneMore ==
  ASSUME FormattingInv, NEW t \in AllThreads, NEW ctx \in Contexts(started + 1), NEW sink \in Sinks,
         started' = started + 1 \/ (started' = started /\ ctx \in Contexts(started)),
         UNCHANGED <<config, lines>>, Scalars', queue' \in Seq(Contexts(started)'),
         (sink = "file") <=> (t = Worker /\ calls[t] = <<>>),
         calls' = [calls EXCEPT ![t] = Append(calls[t], NewFormatter(ctx, sink))], OneMessage'
  PROVE  FormattingInv'
<1> DEFINE x == NewFormatter(ctx, sink)
           F == Frames(config, started')
           u == Append(calls[t], x)
<1>1. calls \in [AllThreads -> Seq(Frames(config, started))] /\ FileAtBottom /\ started \in Nat /\ config \in Configs
  BY ConstantsAssumption DEF FormattingInv, Scalars
<1>2. started' \in Nat /\ ctx \in Contexts(started')
  BY <1>1
<1>3. Frames(config, started) \subseteq F /\ Contexts(started) \subseteq Contexts(started')
      /\ \A s : Lines(config, started, s) \subseteq Lines(config, started', s)
  BY <1>1, MoreContexts
<1>4. x \in F /\ x.sink = sink
  BY <1>1, <1>2, NewFrame DEF NewFormatter
<1>5. calls \in [AllThreads -> Seq(F)]
  <2> HIDE DEF F
  <2> QED
    BY <1>1, <1>3
<1>6. /\ calls[t] \in Seq(F) /\ u \in Seq(F) /\ DOMAIN u = 1..(Len(calls[t]) + 1) /\ u[Len(calls[t]) + 1] = x
      /\ DOMAIN calls[t] = 1..Len(calls[t]) /\ Len(calls[t]) \in Nat
      /\ \A i \in 1..Len(calls[t]) : u[i] = calls[t][i]
  <2> DEFINE s == calls[t]
  <2>1. s \in Seq(F)
    BY <1>5
  <2> HIDE DEF s, F, x
  <2>2. /\ s \in Seq(F) /\ Append(s, x) \in Seq(F) /\ DOMAIN Append(s, x) = 1..(Len(s) + 1)
        /\ Append(s, x)[Len(s) + 1] = x /\ DOMAIN s = 1..Len(s) /\ Len(s) \in Nat
        /\ \A i \in 1..Len(s) : Append(s, x)[i] = s[i]
    BY <1>4, <2>1, AppendProperties
  <2> QED
    BY <2>2 DEF s
<1>7. calls' = [calls EXCEPT ![t] = u]
  OBVIOUS
<1>8. (calls[t] = <<>>) <=> Len(calls[t]) = 0
  <2> HIDE DEF F
  <2> QED
    BY <1>6
<1> HIDE DEF x, u, F
<1>9. calls' \in [AllThreads -> Seq(F)]
  BY <1>5, <1>6, <1>7
<1>10. FileAtBottom'
  <2> SUFFICES ASSUME NEW q \in AllThreads, NEW i \in DOMAIN calls'[q]
               PROVE  (calls'[q][i].sink = "file") <=> (q = Worker /\ i = 1)
    BY DEF FileAtBottom
  <2>1. CASE q # t
    BY <1>1, <1>7, <2>1 DEF FileAtBottom
  <2>2. CASE q = t
    <3>1. calls'[q] = u
      BY <1>1, <1>7, <2>2
    <3>2. CASE i \in DOMAIN calls[t]
      BY <1>1, <1>6, <2>2, <3>1, <3>2 DEF FileAtBottom
    <3>3. CASE i = Len(calls[t]) + 1
      <4>1. calls'[q][i].sink = sink
        BY <1>4, <1>6, <3>1, <3>3
      <4>2. i = 1 <=> Len(calls[t]) = 0
        BY <1>6, <3>3
      <4> QED
        BY <1>8, <2>2, <4>1, <4>2
    <3> QED
      BY <1>6, <3>1, <3>2, <3>3
  <2> QED
    BY <2>1, <2>2
<1>11. lines \in [Sinks -> Seq([ctx : Contexts(started'), text : Seq(Printed("console"))])]
  <2>1. lines \in [Sinks -> Seq([ctx : Contexts(started), text : Seq(Printed("console"))])]
    BY DEF FormattingInv
  <2>2. [ctx : Contexts(started), text : Seq(Printed("console"))] \subseteq [ctx : Contexts(started'), text : Seq(Printed("console"))]
    BY <1>3
  <2> DEFINE A == [ctx : Contexts(started), text : Seq(Printed("console"))]
             B == [ctx : Contexts(started'), text : Seq(Printed("console"))]
  <2>3. lines \in [Sinks -> Seq(A)] /\ A \subseteq B
    BY <2>1, <2>2
  <2> HIDE DEF A, B
  <2>4. Seq(A) \subseteq Seq(B)
    BY <2>3
  <2>5. lines \in [Sinks -> Seq(B)]
    BY <2>3, <2>4
  <2> QED
    BY <2>5 DEF B
<1>12. \A s \in Sinks : lines[s] \in Seq(Lines(config, started', s))
  <2>1. \A s \in Sinks : lines[s] \in Seq(Lines(config, started, s))
    BY DEF FormattingInv
  <2> QED
    BY <1>3, <2>1
<1>13. /\ Frames(config, started)' = F /\ Contexts(started)' = Contexts(started')
       /\ Printed("console")' = Printed("console")
       /\ \A s : Lines(config, started, s)' = Lines(config, started', s)
  BY DEF F, Frames, Contexts, Printed, Lines, Keeps
<1>14. lines' = lines
  OBVIOUS
<1> QED
  BY <1>9, <1>10, <1>11, <1>12, <1>13, <1>14 DEF FormattingInv

LEMMA ScalarsKept ==
  ASSUME Scalars, UNCHANGED <<config, caches, started>>, now' \in Times, aborted' \in BOOLEAN
  PROVE  Scalars'
BY DEF Scalars, caches

\* The formatter of a step and its configuration.
LEMMA AtTop ==
  ASSUME FormattingInv, NEW t \in AllThreads, NEW p, At(t, p)
  PROVE  /\ calls[t] # <<>> /\ Top(t).pc = p /\ Top(t) = calls[t][Len(calls[t])]
         /\ Top(t) \in Frames(config, started)
         /\ started \in Nat /\ Scalars
<1>1. started \in Nat /\ Scalars
  BY ConstantsAssumption DEF FormattingInv, Scalars
<1> QED
  BY <1>1, TopFrame DEF FormattingInv, At

LEMMA BeforeStep ==
  ASSUME FormattingInv, NEW t \in AllThreads, Before(t)
  PROVE  FormattingInv'
<1> DEFINE f == Top(t)
           k == Len(calls[t])
<1>1. /\ calls[t] # <<>> /\ f.pc = "before" /\ f = calls[t][k] /\ f \in Frames(config, started)
      /\ started \in Nat /\ Scalars
  BY AtTop DEF Before
<1>2. Scalars' /\ UNCHANGED <<config, started, queue, lines>>
  <2>1. UNCHANGED <<config, now, caches, started, queue, lines, aborted>>
    BY DEF Before
  <2>2. now' \in Times /\ aborted' \in BOOLEAN
    BY <1>1, <2>1 DEF Scalars
  <2> QED
    BY <1>1, <2>1, <2>2, ScalarsKept
<1>3. CASE config.callbacks
  <2> DEFINE x == [f EXCEPT !.m_ctx = f.ctx.id, !.pc = "in before"]
             s == calls[t]
  <2>1. x \in Frames(config, started) /\ x.sink = f.sink /\ x.ctx = f.ctx
    <3>1. x.sink = f.sink /\ x.ctx = f.ctx
      BY <1>1 DEF Frames
    <3> HIDE DEF f
    <3> QED
      BY <1>1, <3>1, FrameBefore
  <2>2. calls \in [AllThreads -> Seq(Frames(config, started))]
    BY DEF FormattingInv
  <2>3. calls' = [calls EXCEPT ![t] = [s EXCEPT ![k] = x]]
    <3>1. calls' = [calls EXCEPT ![t][k].m_ctx = f.ctx.id, ![t][k].pc = "in before"]
      BY <1>3 DEF Before, OwnBuffer
    <3>2. f = s[k] /\ k \in DOMAIN s
      BY <1>1, <2>2, TopFrame
    <3> HIDE DEF k, f
    <3> QED
      BY <2>2, <3>1, <3>2
  <2>4. [s EXCEPT ![k] = x] = Append(Front(s), x)
    <3> DEFINE S == Frames(config, started)
    <3>1. s \in Seq(S) /\ x \in S /\ s # <<>>
      BY <1>1, <2>1, <2>2
    <3> HIDE DEF s, S, x
    <3>2. [s EXCEPT ![Len(s)] = x] = Append(Front(s), x)
      BY <3>1, LastExcept
    <3> QED
      BY <3>2 DEF s
  <2>5. Replace(t, x)
    <3> HIDE DEF x
    <3> QED
      BY <2>3, <2>4 DEF Replace
  <2> HIDE DEF x
  <2> QED
    BY <1>1, <1>2, <2>1, <2>5, OneGoesOn
<1>4. CASE ~config.callbacks
  <2> DEFINE x == [f EXCEPT !.pc = "fields"]
  <2>1. x \in Frames(config, started) /\ x.sink = f.sink /\ x.ctx = f.ctx
    <3>1. x.sink = f.sink /\ x.ctx = f.ctx
      BY <1>1 DEF Frames
    <3> HIDE DEF f
    <3> QED
      BY <1>1, <1>4, <3>1, FrameBefore
  <2>2. Replace(t, x)
    BY <1>4 DEF Before
  <2> HIDE DEF x
  <2> QED
    BY <1>1, <1>2, <2>1, <2>2, OneGoesOn
<1> QED
  BY <1>3, <1>4

LEMMA ReturnsStep ==
  ASSUME FormattingInv, NEW t \in AllThreads, BeforeReturns(t) \/ AfterReturns(t)
  PROVE  FormattingInv'
<1> DEFINE f == Top(t)
<1>1. PICK p \in {"in before", "in after"} :
        /\ p = "in before" => BeforeReturns(t)
        /\ p = "in after" => AfterReturns(t)
  OBVIOUS
<1>2. At(t, p)
  BY <1>1 DEF BeforeReturns, AfterReturns
<1>3. /\ calls[t] # <<>> /\ f.pc = p /\ f \in Frames(config, started)
      /\ started \in Nat /\ Scalars
  BY <1>2, AtTop
<1>4. Scalars' /\ UNCHANGED <<config, started, queue, lines>>
  <2>1. UNCHANGED <<config, now, caches, started, queue, lines, aborted>>
    BY DEF BeforeReturns, AfterReturns
  <2>2. now' \in Times /\ aborted' \in BOOLEAN
    BY <1>3, <2>1 DEF Scalars
  <2> QED
    BY <1>3, <2>1, <2>2, ScalarsKept
<1>5. CASE p = "in before"
  <2> DEFINE x == [f EXCEPT !.pc = "fields", !.buffer = Append(@, <<"before", f.ctx.id>>)]
  <2>1. x \in Frames(config, started) /\ x.sink = f.sink /\ x.ctx = f.ctx
    <3>1. x.sink = f.sink /\ x.ctx = f.ctx
      BY <1>3 DEF Frames
    <3> HIDE DEF f
    <3> QED
      BY <1>3, <1>5, <3>1, FrameReturns
  <2>2. Replace(t, x)
    BY <1>1, <1>5 DEF BeforeReturns
  <2> HIDE DEF x
  <2> QED
    BY <1>3, <1>4, <2>1, <2>2, OneGoesOn
<1>6. CASE p = "in after"
  <2> DEFINE x == [f EXCEPT !.pc = "write", !.buffer = Append(@, <<"after", f.ctx.id>>)]
  <2>1. x \in Frames(config, started) /\ x.sink = f.sink /\ x.ctx = f.ctx
    <3>1. x.sink = f.sink /\ x.ctx = f.ctx
      BY <1>3 DEF Frames
    <3> HIDE DEF f
    <3> QED
      BY <1>3, <1>6, <3>1, FrameReturns
  <2>2. Replace(t, x)
    BY <1>1, <1>6 DEF AfterReturns
  <2> HIDE DEF x
  <2> QED
    BY <1>3, <1>4, <2>1, <2>2, OneGoesOn
<1> QED
  BY <1>5, <1>6

LEMMA AfterStep ==
  ASSUME FormattingInv, NEW t \in AllThreads, After(t)
  PROVE  FormattingInv'
<1> DEFINE f == Top(t)
<1>1. /\ calls[t] # <<>> /\ f.pc = "fields" /\ f = calls[t][Len(calls[t])]
      /\ f \in Frames(config, started) /\ started \in Nat /\ Scalars
  BY AtTop DEF After
<1>2. Scalars' /\ UNCHANGED <<config, started, queue, lines>>
  <2>1. UNCHANGED <<config, now, caches, started, queue, lines, aborted>>
    BY DEF After
  <2>2. now' \in Times /\ aborted' \in BOOLEAN
    BY <1>1, <2>1 DEF Scalars
  <2> QED
    BY <1>1, <2>1, <2>2, ScalarsKept
<1>3. f.todo = <<>>
  BY DEF After
<1>4. CASE config.callbacks
  <2> DEFINE x == [f EXCEPT !.pc = "in after", !.seen = f.m_ctx]
  <2>1. x \in Frames(config, started) /\ x.sink = f.sink /\ x.ctx = f.ctx
    <3>1. x.sink = f.sink /\ x.ctx = f.ctx
      BY <1>1 DEF Frames
    <3> HIDE DEF f
    <3> QED
      BY <1>1, <1>3, <1>4, <3>1, FrameAfter
  <2>2. Replace(t, x)
    BY <1>1, <1>4 DEF After, OwnBuffer
  <2> HIDE DEF x
  <2> QED
    BY <1>1, <1>2, <2>1, <2>2, OneGoesOn
<1>5. CASE ~config.callbacks
  <2> DEFINE x == [f EXCEPT !.pc = "write"]
  <2>1. x \in Frames(config, started) /\ x.sink = f.sink /\ x.ctx = f.ctx
    <3>1. x.sink = f.sink /\ x.ctx = f.ctx
      BY <1>1 DEF Frames
    <3> HIDE DEF f
    <3> QED
      BY <1>1, <1>3, <3>1, FrameAfter
  <2>2. Replace(t, x)
    BY <1>5 DEF After
  <2> HIDE DEF x
  <2> QED
    BY <1>1, <1>2, <2>1, <2>2, OneGoesOn
<1> QED
  BY <1>4, <1>5

\* A field is printed: the formatter's own part of the three steps.
LEMMA PutStep ==
  ASSUME FormattingInv, NEW t \in AllThreads, At(t, "fields"), Top(t).todo # <<>>,
         NEW e \in Printed(Top(t).sink), e[1] = NextField(t)[1],
         TimelessOne(e) = AskedOne(NextField(t), Top(t).ctx), e[1] \in Colours => e = NextField(t),
         Put(t, e), UNCHANGED <<config, started, queue, lines>>, Scalars'
  PROVE  FormattingInv'
<1> DEFINE f == Top(t)
           x == [f EXCEPT !.todo = Tail(@), !.buffer = Append(@, e)]
<1>1. /\ calls[t] # <<>> /\ f.pc = "fields" /\ f \in Frames(config, started) /\ started \in Nat
  BY AtTop
<1>2. x \in Frames(config, started)
  <2>1. Prints(f, e)
    BY <1>1 DEF NextField, Prints
  <2> HIDE DEF f
  <2> QED
    BY <1>1, <2>1, FramePut
<1>3. x.sink = f.sink /\ x.ctx = f.ctx
  <2> HIDE DEF f
  <2> QED
    BY <1>1 DEF Frames
<1>4. Replace(t, x)
  BY DEF Put
<1> HIDE DEF x
<1> QED
  BY <1>1, <1>2, <1>3, <1>4, OneGoesOn

LEMMA PlainFieldStep ==
  ASSUME FormattingInv, NEW t \in AllThreads, PlainField(t)
  PROVE  FormattingInv'
<1> DEFINE f == Top(t)
           h == Head(f.todo)
           e == IF h[1] = "tid" THEN <<"tid", f.ctx.tid>> ELSE h
<1>1. At(t, "fields") /\ f.todo # <<>> /\ NextField(t) = h /\ h[1] \notin {"time", "error"} /\ Put(t, e)
  BY DEF PlainField, IsField, NextField, TidOf
<1>2. f \in Frames(config, started) /\ started \in Nat /\ Scalars
  BY <1>1, AtTop
<1>3. /\ e \in Printed(f.sink) /\ e[1] = h[1] /\ TimelessOne(e) = AskedOne(h, f.ctx)
      /\ e[1] \in Colours => e = h
  <2> HIDE DEF f
  <2>1. CASE h[1] = "tid"
    BY <1>1, <1>2, <2>1, FieldsPut
  <2>2. CASE h[1] # "tid"
    <3>1. h[1] \notin {"time", "error", "tid"}
      BY <1>1, <2>2
    <3> QED
      BY <1>1, <1>2, <2>2, <3>1, FieldsPut
  <2> QED
    BY <2>1, <2>2
<1>4. UNCHANGED <<config, now, caches, started, queue, lines, aborted>>
  BY DEF PlainField
<1>5. Scalars'
  <2>1. now' \in Times /\ aborted' \in BOOLEAN
    BY <1>2, <1>4 DEF Scalars
  <2> QED
    BY <1>2, <1>4, <2>1, ScalarsKept
<1> HIDE DEF e
<1> QED
  BY <1>1, <1>3, <1>4, <1>5, PutStep

LEMMA TimeStep ==
  ASSUME FormattingInv, NEW t \in AllThreads, getCurDateTime(t)
  PROVE  FormattingInv'
<1> DEFINE f == Top(t)
           h == Head(f.todo)
           e == <<"time", h[2], now, ZoneOf(t), now>>
<1>1. At(t, "fields") /\ f.todo # <<>> /\ NextField(t) = h /\ h[1] = "time"
  BY DEF getCurDateTime, IsField, NextField
<1>2. f \in Frames(config, started) /\ started \in Nat /\ Scalars /\ now \in Times
  BY <1>1, AtTop DEF Scalars
<1>3. ZoneOf(t) \in Int
  BY <1>2, ConstantsAssumption DEF ZoneOf, Scalars, Quotient
<1>4. UNCHANGED <<config, now, t_errnobuf, started, queue, lines>>
  BY DEF getCurDateTime
<1>5. t_tm'[t] = now /\ t_tm' \in [AllThreads -> Times \cup {0}] /\ t_lastSecond' = t_tm'
  <2>1. t_lastSecond \in [AllThreads -> Times \cup {0}] /\ t_tm = t_lastSecond
    BY <1>2 DEF Scalars
  <2>2. CASE NewSecond(t)
    <3>1. t_lastSecond' = [t_lastSecond EXCEPT ![t] = now] /\ t_tm' = [t_tm EXCEPT ![t] = now]
      BY <2>2 DEF getCurDateTime
    <3> QED
      BY <1>2, <2>1, <3>1
  <2>3. CASE ~NewSecond(t)
    <3>1. t_lastSecond' = t_lastSecond /\ t_tm' = t_tm
      BY <2>3 DEF getCurDateTime
    <3> QED
      BY <2>1, <2>3, <3>1 DEF NewSecond
  <2> QED
    BY <2>2, <2>3
<1>6. Scalars'
  <2>1. t_timezone' \in [AllThreads -> Int]
    BY <1>2, <1>3 DEF getCurDateTime, Scalars
  <2>2. aborted' \in BOOLEAN
    BY <1>2 DEF getCurDateTime, Scalars
  <2> QED
    BY <1>2, <1>4, <1>5, <2>1, <2>2 DEF Scalars
<1>7. CASE aborted' = TRUE /\ UNCHANGED calls
  <2>1. /\ Frames(config, started)' = Frames(config, started) /\ Contexts(started)' = Contexts(started)
        /\ Printed("console")' = Printed("console")
        /\ \A s : Lines(config, started, s)' = Lines(config, started, s)
    BY <1>4 DEF Frames, Contexts, Printed, Lines, Keeps
  <2>2. /\ queue \in Seq(Contexts(started))
        /\ calls \in [AllThreads -> Seq(Frames(config, started))] /\ FileAtBottom
        /\ lines \in [Sinks -> Seq([ctx : Contexts(started), text : Seq(Printed("console"))])]
        /\ \A s \in Sinks : lines[s] \in Seq(Lines(config, started, s))
    BY DEF FormattingInv
  <2>3. FileAtBottom'
    BY <1>7, <2>2 DEF FileAtBottom
  <2>4. OneMessage'
    BY <1>4, <1>7, NoneAdded DEF CallsKeep, FormattingInv
  <2> QED
    BY <1>4, <1>6, <1>7, <2>1, <2>2, <2>3, <2>4 DEF FormattingInv
<1>8. CASE Put(t, <<"time", NextField(t)[2], t_tm'[t], ZoneOf(t), now>>)
  <2>1. Put(t, e)
    BY <1>1, <1>5, <1>8
  <2>2. e \in Printed(f.sink) /\ e[1] = h[1] /\ e[1] \notin Colours /\ TimelessOne(e) = AskedOne(h, f.ctx)
    <3> DEFINE z == ZoneOf(t)
    <3> HIDE DEF f, z
    <3> QED
      BY <1>1, <1>2, <1>3, FieldsPut DEF z
  <2> HIDE DEF e
  <2> QED
    BY <1>1, <1>4, <1>6, <2>1, <2>2, PutStep
<1> QED
  BY <1>7, <1>8 DEF getCurDateTime

LEMMA ErrorStep ==
  ASSUME FormattingInv, NEW t \in AllThreads, getErrorInfo(t)
  PROVE  FormattingInv'
<1> DEFINE f == Top(t)
           h == Head(f.todo)
           x == ErrorText(t, h[2])
           e == <<"error", x, h[2]>>
           Errs == {0} \cup ({m.err : m \in Messages} \ Known)
<1>1. /\ At(t, "fields") /\ f.todo # <<>> /\ NextField(t) = h /\ h[1] = "error" /\ Put(t, e)
      /\ t_errnobuf' = [t_errnobuf EXCEPT ![t] = x]
  BY DEF getErrorInfo, IsField, NextField
<1>2. f \in Frames(config, started) /\ started \in Nat /\ Scalars
  BY <1>1, AtTop
<1>3. UNCHANGED <<config, now, t_lastSecond, t_tm, t_timezone, started, queue, lines, aborted>>
  BY DEF getErrorInfo
<1>4. h[2] \in {m.err : m \in Messages}
  <2> HIDE DEF f
  <2>1. h[2] = f.ctx.err
    BY <1>1, <1>2, FieldsPut
  <2>2. f.ctx \in Context
    BY <1>2, FrameContext
  <2> QED
    BY <2>1, <2>2 DEF Context
<1>5. x \in Errs
  BY <1>2, <1>4 DEF ErrorText, Scalars
<1>6. x \in Nat
  BY <1>5, ConstantsAssumption
<1>7. Scalars'
  BY <1>1, <1>2, <1>3, <1>5 DEF Scalars
<1>8. e \in Printed(f.sink) /\ e[1] = h[1] /\ e[1] \notin Colours /\ TimelessOne(e) = AskedOne(h, f.ctx)
  <2> HIDE DEF f, x
  <2> QED
    BY <1>1, <1>2, <1>6, FieldsPut
<1> HIDE DEF e
<1> QED
  BY <1>1, <1>3, <1>7, <1>8, PutStep

\* What does not depend on a variable that is left alone.
LEMMA SetsKept ==
  ASSUME config' = config, started' = started
  PROVE  /\ Frames(config, started)' = Frames(config, started) /\ Contexts(started)' = Contexts(started)
         /\ Printed("console")' = Printed("console")
         /\ \A s : Lines(config, started, s)' = Lines(config, started, s)
BY DEF Frames, Contexts, Printed, Lines, Keeps

\* Threads may lose their innermost formatters.
LEMMA Shorter ==
  ASSUME FormattingInv, NEW t \in AllThreads, NEW d \in 0..Len(calls[t]),
         calls' = [calls EXCEPT ![t] = SubSeq(calls[t], 1, d)], config' = config, started' = started
  PROVE  calls' \in [AllThreads -> Seq(Frames(config, started)')] /\ FileAtBottom' /\ CallsKeep
<1> DEFINE s == calls[t]
           u == SubSeq(s, 1, d)
           F == Frames(config, started)
<1>1. calls \in [AllThreads -> Seq(F)] /\ FileAtBottom
  BY DEF FormattingInv
<1>2. s \in Seq(F) /\ calls' = [calls EXCEPT ![t] = u]
  BY <1>1
<1>3. \A i \in DOMAIN s : (s[i].sink = "file") <=> (t = Worker /\ i = 1)
  BY <1>1 DEF FileAtBottom
<1>4. d \in 0..Len(s)
  OBVIOUS
<1> HIDE DEF s, F
<1>5. /\ u \in Seq(F) /\ \A i \in DOMAIN u : i \in DOMAIN s /\ u[i] = s[i]
  <2>0. Len(s) \in Nat
    BY <1>2
  <2>1. 1 \in Int /\ d \in Int /\ \A i \in 1..d : s[i] \in F
    BY <1>2, <1>4
  <2>2. u \in Seq(F) /\ Len(u) = (IF 1 <= d THEN d - 1 + 1 ELSE 0) /\ \A i \in 1..(d - 1 + 1) : u[i] = s[1 + i - 1]
    BY <2>1, SubSeqProperties
  <2> HIDE DEF u
  <2>3. Len(u) = d
    BY <1>4, <2>0, <2>2
  <2>4. DOMAIN u = 1..d /\ DOMAIN s = 1..Len(s)
    BY <1>2, <2>2, <2>3
  <2>5. ASSUME NEW i \in 1..d PROVE u[i] = s[i] /\ i \in 1..Len(s)
    <3>1. i \in 1..(d - 1 + 1) /\ 1 + i - 1 = i /\ i \in 1..Len(s)
      BY <1>4, <2>0
    <3> QED
      BY <2>2, <3>1
  <2> QED
    BY <2>2, <2>4, <2>5
<1> HIDE DEF u
<1>6. calls' \in [AllThreads -> Seq(F)]
  BY <1>1, <1>2, <1>5
<1>7. FileAtBottom'
  <2> SUFFICES ASSUME NEW q \in AllThreads, NEW i \in DOMAIN calls'[q]
               PROVE  (calls'[q][i].sink = "file") <=> (q = Worker /\ i = 1)
    BY DEF FileAtBottom
  <2>1. CASE q # t
    BY <1>1, <1>2, <2>1 DEF FileAtBottom
  <2>2. CASE q = t
    <3>1. calls'[q] = u
      BY <1>1, <1>2, <2>2
    <3> QED
      BY <1>3, <1>5, <2>2, <3>1
  <2> QED
    BY <2>1, <2>2
<1>8. CallsKeep
  <2> SUFFICES ASSUME NEW q \in AllThreads, NEW i \in DOMAIN calls'[q]
               PROVE  i \in DOMAIN calls[q] /\ calls'[q][i].ctx = calls[q][i].ctx
    BY DEF CallsKeep
  <2>1. CASE q # t
    BY <1>1, <1>2, <2>1
  <2>2. CASE q = t
    <3>1. calls'[q] = u
      BY <1>1, <1>2, <2>2
    <3> QED
      BY <1>5, <2>2, <3>1 DEF s
  <2> QED
    BY <2>1, <2>2
<1> QED
  BY <1>6, <1>7, <1>8, SetsKept DEF F

LEMMA ThrowsStep ==
  ASSUME FormattingInv, NEW t \in AllThreads, CallbackThrows(t)
  PROVE  FormattingInv'
<1>1. UNCHANGED <<config, now, caches, started, queue, lines>>
  BY DEF CallbackThrows
<1>2. PICK d \in 0..(Len(calls[t]) - 1) :
        IF Passes(t, d)
        THEN calls' = [calls EXCEPT ![t] = SubSeq(calls[t], 1, d)] /\ UNCHANGED aborted
        ELSE aborted' = TRUE /\ UNCHANGED calls
  BY DEF CallbackThrows
<1>3. Scalars /\ now \in Times /\ aborted \in BOOLEAN
  BY DEF FormattingInv, Scalars
<1>4. Scalars'
  <2>1. now' \in Times /\ aborted' \in BOOLEAN
    BY <1>1, <1>2, <1>3
  <2> QED
    BY <1>1, <1>3, <2>1, ScalarsKept
<1>5. calls' \in [AllThreads -> Seq(Frames(config, started)')] /\ FileAtBottom' /\ CallsKeep
  <2>1. CASE calls' = [calls EXCEPT ![t] = SubSeq(calls[t], 1, d)]
    <3>1. Len(calls[t]) \in Nat
      BY DEF FormattingInv
    <3>2. d \in 0..Len(calls[t])
      BY <3>1
    <3> QED
      BY <1>1, <2>1, <3>2, Shorter
  <2>2. CASE UNCHANGED calls
    BY <1>1, <2>2, SetsKept DEF FormattingInv, FileAtBottom, CallsKeep
  <2> QED
    BY <1>2, <2>1, <2>2
<1>6. /\ queue \in Seq(Contexts(started))
      /\ lines \in [Sinks -> Seq([ctx : Contexts(started), text : Seq(Printed("console"))])]
      /\ \A s \in Sinks : lines[s] \in Seq(Lines(config, started, s))
  BY DEF FormattingInv
<1>7. lines' = lines /\ queue' = queue
  BY <1>1
<1>8. OneMessage'
  BY <1>5, <1>7, NoneAdded DEF FormattingInv
<1> QED
  BY <1>1, <1>4, <1>5, <1>6, <1>7, <1>8, SetsKept DEF FormattingInv

LEMMA WriteStep ==
  ASSUME FormattingInv, NEW t \in AllThreads, Write(t)
  PROVE  FormattingInv'
<1> DEFINE f == Top(t)
           sink == f.sink
           l == [ctx |-> f.ctx, text |-> f.buffer]
           A == [ctx : Contexts(started), text : Seq(Printed("console"))]
<1>1. /\ calls[t] # <<>> /\ f.pc = "write" /\ f \in Frames(config, started)
      /\ started \in Nat /\ Scalars
  BY AtTop DEF Write
<1>2. UNCHANGED <<config, now, caches, started, queue, aborted>>
  BY DEF Write
<1>3. Scalars'
  <2>1. now' \in Times /\ aborted' \in BOOLEAN
    BY <1>1, <1>2 DEF Scalars
  <2> QED
    BY <1>1, <1>2, <2>1, ScalarsKept
<1>4. calls' \in [AllThreads -> Seq(Frames(config, started)')] /\ FileAtBottom' /\ CallsKeep
  <2>1. Len(calls[t]) \in Nat /\ Len(calls[t]) - 1 \in 0..Len(calls[t])
    <3>1. calls[t] \in Seq(Frames(config, started))
      BY DEF FormattingInv
    <3>2. Len(calls[t]) \in Nat /\ Len(calls[t]) >= 1
      BY <1>1, <3>1, FrontIs
    <3> QED
      BY <3>2
  <2>2. calls' = [calls EXCEPT ![t] = SubSeq(calls[t], 1, Len(calls[t]) - 1)]
    BY DEF Write, Front
  <2> DEFINE d == Len(calls[t]) - 1
  <2>3. d \in 0..Len(calls[t]) /\ calls' = [calls EXCEPT ![t] = SubSeq(calls[t], 1, d)]
    BY <2>1, <2>2
  <2> HIDE DEF d
  <2> QED
    BY <1>2, <2>3, Shorter
<1>11. InUse(f.ctx) /\ OneMessage
  <2>1. f = calls[t][Len(calls[t])] /\ Len(calls[t]) \in DOMAIN calls[t]
    BY <1>1, TopFrame DEF FormattingInv
  <2> QED
    BY <2>1 DEF InUse, FormattingInv
<1>5. /\ queue \in Seq(Contexts(started)) /\ lines \in [Sinks -> Seq(A)]
      /\ \A s \in Sinks : lines[s] \in Seq(Lines(config, started, s))
  BY DEF FormattingInv
<1>6. lines' = [lines EXCEPT ![sink] = Append(lines[sink], l)]
  BY DEF Write
<1>7. sink \in Sinks /\ l \in A /\ l \in Lines(config, started, sink)
  <2> HIDE DEF f
  <2>1. sink \in Sinks /\ f.ctx \in Contexts(started) /\ f.buffer \in Seq(Printed("console"))
    BY <1>1 DEF Frames
  <2>2. l \in Lines(config, started, sink)
    BY <1>1, LineOf
  <2> QED
    BY <2>1, <2>2
<1>12. l.ctx = f.ctx
  OBVIOUS
<1> HIDE DEF sink, l, A
<1>8. lines' \in [Sinks -> Seq(A)]
  BY <1>5, <1>6, <1>7, AppendProperties
<1>9. \A s \in Sinks : lines'[s] \in Seq(Lines(config, started, s))
  <2> TAKE s \in Sinks
  <2>1. CASE s = sink
    <3>1. lines'[s] = Append(lines[sink], l) /\ lines[sink] \in Seq(Lines(config, started, sink))
      BY <1>5, <1>6, <1>7, <2>1
    <3> QED
      BY <1>7, <2>1, <3>1, AppendProperties
  <2>2. CASE s # sink
    BY <1>5, <1>6, <2>2
  <2> QED
    BY <2>1, <2>2
<1>10. queue' = queue
  BY <1>2
<1>13. OneMessage'
  <2>1. ASSUME NEW s \in Sinks, NEW i \in DOMAIN lines'[s] PROVE InUse(lines'[s][i].ctx)
    <3>1. CASE s # sink
      <4>1. i \in DOMAIN lines[s] /\ lines'[s][i] = lines[s][i]
        BY <1>5, <1>6, <3>1
      <4> QED
        BY <4>1 DEF InUse
    <3>2. CASE s = sink
      <4> DEFINE r == lines[s]
      <4>1. r \in Seq(A) /\ lines'[s] = Append(r, l)
        BY <1>5, <1>6, <1>7, <3>2
      <4>2. i \in DOMAIN Append(r, l)
        BY <4>1
      <4>3. (i \in DOMAIN r /\ lines'[s][i] = r[i]) \/ lines'[s][i] = l
        <5> HIDE DEF r
        <5> QED
          BY <4>1, <4>2
      <4> QED
        BY <1>11, <1>12, <4>3 DEF InUse
    <3> QED
      BY <3>1, <3>2
  <2>2. ASSUME NEW x, InUse(x)' PROVE InUse(x)
    <3>1. CASE \E i \in DOMAIN queue' : queue'[i] = x
      BY <1>10, <3>1 DEF InUse
    <3>2. CASE \E q \in AllThreads : \E i \in DOMAIN calls'[q] : calls'[q][i].ctx = x
      BY <1>4, <3>2 DEF InUse, CallsKeep
    <3>3. CASE \E s \in Sinks : \E i \in DOMAIN lines'[s] : lines'[s][i].ctx = x
      BY <2>1, <3>3
    <3> QED
      BY <2>2, <3>1, <3>2, <3>3 DEF InUse
  <2> QED
    BY <1>11, <2>2 DEF OneMessage
<1> QED
  BY <1>2, <1>3, <1>4, <1>5, <1>8, <1>9, <1>10, <1>13, SetsKept DEF FormattingInv, A

LEMMA LogCallStep ==
  ASSUME FormattingInv, NEW t \in AllThreads, NEW m \in Messages, LogCall(t, m)
  PROVE  FormattingInv'
<1> DEFINE ctx == [id |-> started + 1, tid |-> t, level |-> m.level, err |-> m.err,
                   located |-> m.located]
<1>1. /\ started' = started + 1 /\ queue' = Append(queue, ctx)
      /\ calls' = [calls EXCEPT ![t] = Append(calls[t], NewFormatter(ctx, "console"))]
      /\ UNCHANGED <<config, now, caches, lines, aborted>>
  BY DEF LogCall
<1>2. /\ Scalars /\ started \in Nat /\ started + 1 \in 0..MaxCalls /\ queue \in Seq(Contexts(started))
  BY ConstantsAssumption DEF FormattingInv, Scalars, LogCall
<1>3. Scalars'
  BY <1>1, <1>2 DEF Scalars, caches
<1>4. ctx \in Contexts(started + 1)
  <2>1. started + 1 \in 1..(started + 1) /\ started + 1 \in Nat
    BY <1>2
  <2>2. m.level \in Nat /\ m.err \in {x.err : x \in Messages} /\ m.located \in BOOLEAN
    BY ConstantsAssumption
  <2> QED
    BY <2>1, <2>2 DEF Contexts, Context
<1>5. queue' \in Seq(Contexts(started)')
  <2> DEFINE C == Contexts(started + 1)
  <2>1. Contexts(started) \subseteq C
    BY <1>2, MoreContexts
  <2>2. Contexts(started)' = C
    BY <1>1 DEF Contexts
  <2> HIDE DEF C, ctx
  <2>3. queue \in Seq(C)
    BY <1>2, <2>1
  <2>4. ctx \in C
    BY <1>4 DEF C
  <2> QED
    BY <1>1, <2>2, <2>3, <2>4, AppendProperties
<1>6. "console" \in Sinks /\ "console" # "file" /\ ~(t = Worker /\ calls[t] = <<>>)
  BY DEF Sinks, LogCall, InProgram
<1>11. ctx.id = started + 1
  OBVIOUS
<1> HIDE DEF ctx
<1>7. UNCHANGED <<config, lines>>
  BY <1>1
<1>8. started' = started + 1 \/ (started' = started /\ ctx \in Contexts(started))
  BY <1>1
<1>10. calls' = [calls EXCEPT ![t] = Append(calls[t], NewFormatter(ctx, "console"))]
  BY <1>1, Zenon
<1>9. "console" = "file" <=> (t = Worker /\ calls[t] = <<>>)
  BY <1>6
<1>12. \A i \in DOMAIN queue' : InUse(queue'[i]) \/ queue'[i] = ctx
  <2> TAKE i \in DOMAIN queue'
  <2>1. (i \in DOMAIN queue /\ queue'[i] = queue[i]) \/ queue'[i] = ctx
    BY <1>1, <1>2
  <2> QED
    BY <2>1 DEF InUse
<1>13. OneMessage'
  BY <1>7, <1>10, <1>11, <1>12, Added
<1> QED
  BY <1>3, <1>4, <1>5, <1>6, <1>7, <1>8, <1>9, <1>10, <1>13, OneMore

LEMMA TakeStep ==
  ASSUME FormattingInv, Take
  PROVE  FormattingInv'
<1> DEFINE ctx == Head(queue)
<1>1. /\ calls[Worker] = <<>> /\ queue # <<>> /\ queue' = Tail(queue)
      /\ calls' = [calls EXCEPT ![Worker] = <<NewFormatter(ctx, "file")>>]
      /\ UNCHANGED <<config, now, caches, started, lines, aborted>>
  BY DEF Take
<1>2. /\ Scalars /\ started \in Nat /\ queue \in Seq(Contexts(started)) /\ Worker \in AllThreads
      /\ now \in Times /\ aborted \in BOOLEAN
  BY ConstantsAssumption DEF FormattingInv, Scalars, AllThreads
<1>3. Scalars'
  BY <1>1, <1>2, ScalarsKept
<1>4. ctx \in Contexts(started) /\ queue' \in Seq(Contexts(started)) /\ ctx \in Contexts(started + 1)
  BY <1>1, <1>2, HeadTail, MoreContexts
<1>5. queue' \in Seq(Contexts(started)')
  BY <1>1, <1>4, SetsKept
<1>6. "file" \in Sinks
  BY DEF Sinks
<1> DEFINE x == NewFormatter(ctx, "file")
<1>7. Append(<<>>, x) = <<x>>
  <2> HIDE DEF x
  <2> QED
    OBVIOUS
<1>8. calls' = [calls EXCEPT ![Worker] = Append(calls[Worker], NewFormatter(ctx, "file"))]
  <2> HIDE DEF x
  <2> QED
    BY <1>1, <1>7 DEF x
<1>10. InUse(ctx) /\ \A i \in DOMAIN queue' : InUse(queue'[i])
  <2>1. ctx = queue[1] /\ 1 \in DOMAIN queue
    BY <1>1, <1>2
  <2>2. \A i \in DOMAIN queue' : i + 1 \in DOMAIN queue /\ queue'[i] = queue[i + 1]
    BY <1>1, <1>2
  <2> QED
    BY <2>1, <2>2 DEF InUse
<1> HIDE DEF ctx
<1>9. UNCHANGED <<config, lines>> /\ started' = started
  BY <1>1
<1>11. OneMessage'
  BY <1>2, <1>8, <1>9, <1>10, Added
<1> QED
  BY <1>1, <1>2, <1>3, <1>4, <1>5, <1>6, <1>8, <1>9, <1>11, OneMore

\* Every step keeps the invariant: what is printed and what is still to be
\* printed are what the formatter names, in each formatter in progress.
THEOREM FormattingStep == FormattingInv /\ [Next]_vars => FormattingInv'
<1> SUFFICES ASSUME FormattingInv, [Next]_vars PROVE FormattingInv'
  OBVIOUS
<1>1. CASE \E t \in AllThreads : Format(t)
  BY <1>1, BeforeStep, ReturnsStep, AfterStep, ThrowsStep, PlainFieldStep, TimeStep, ErrorStep,
     WriteStep DEF Format
<1>2. CASE \E t \in AllThreads : \E m \in Messages : LogCall(t, m)
  BY <1>2, LogCallStep
<1>3. CASE Take
  BY <1>3, TakeStep
<1>4. ASSUME UNCHANGED <<config, caches, calls, started, queue, lines, aborted>>, now' \in Times
      PROVE  FormattingInv'
  <2>1. Scalars'
    BY <1>4, ScalarsKept DEF FormattingInv, Scalars
  <2>2. FileAtBottom'
    BY <1>4 DEF FormattingInv, FileAtBottom
  <2>3. OneMessage'
    BY <1>4, NoneAdded DEF FormattingInv, CallsKeep
  <2> QED
    BY <1>4, <2>1, <2>2, <2>3, SetsKept DEF FormattingInv
<1>5. CASE SetClock
  BY <1>4, <1>5 DEF SetClock
<1>6. CASE UNCHANGED vars
  <2>1. now' \in Times
    BY <1>6 DEF vars, FormattingInv, Scalars
  <2> QED
    BY <1>4, <1>6, <2>1 DEF vars
<1> QED
  BY <1>1, <1>2, <1>3, <1>5, <1>6 DEF Next

-----------------------------------------------------------------------------
(***************************************************************************)
(* Theorems.                                                               *)
(***************************************************************************)
\* The invariant holds at all times, for any threads, configurations and messages.
THEOREM FormattingAlways == Spec => []FormattingInv
<1> QED
  BY FormattingStart, FormattingStep, PTL DEF Spec

\* Every variable keeps its type, whatever is logged from callbacks: the worker's
\* outermost formatter writes to the file and all others to the console
\* (log_it_, append_), and a buffer for error texts holds only
\* texts of numbers that strerror_r does not know (getErrorInfo).
THEOREM FormattingTypes == Spec => []TypeOK
<1>1. FormattingInv => TypeOK
  <2> SUFFICES ASSUME FormattingInv PROVE TypeOK
    OBVIOUS
  <2>1. /\ Scalars /\ calls \in [AllThreads -> Seq(Frames(config, started))] /\ FileAtBottom
        /\ started \in Nat
        /\ \A s \in Sinks : lines[s] \in Seq(Lines(config, started, s))
    BY ConstantsAssumption DEF FormattingInv, Scalars
  <2>2. ASSUME NEW t \in AllThreads, NEW i \in DOMAIN calls[t]
        PROVE  LET frame == calls[t][i] IN
               /\ frame.pc \in Pcs /\ frame.m_ctx \in 0..started /\ frame.ctx.id \in 1..started
               /\ (frame.sink = "file") <=> (t = Worker /\ i = 1)
    <3> DEFINE f == calls[t][i]
    <3>1. f \in Frames(config, started)
      BY <2>1
    <3>2. (f.sink = "file") <=> (t = Worker /\ i = 1)
      BY <2>1 DEF FileAtBottom
    <3> HIDE DEF f
    <3>3. f.ctx.id \in 1..started
      BY <2>1, <3>1, FrameContext
    <3>4. f.pc \in Pcs /\ f.m_ctx \in 0..started
      BY <3>1 DEF Frames
    <3> QED
      BY <3>2, <3>3, <3>4 DEF f
  <2>3. ASSUME NEW s \in Sinks, NEW i \in DOMAIN lines[s]
        PROVE  lines[s][i].ctx.id \in 1..started
    <3>1. lines[s][i] \in Lines(config, started, s)
      BY <2>1
    <3>2. lines[s][i].ctx \in Contexts(started)
      BY <3>1 DEF Lines
    <3> QED
      BY <3>2 DEF Contexts
  <2>4. t_tm \in [AllThreads -> Times \cup {0}]
    BY <2>1 DEF Scalars
  <2> QED
    BY <2>1, <2>2, <2>3, <2>4 DEF Scalars, TypeOK
<1> QED
  BY <1>1, FormattingAlways, PTL

\* The after callback finds the context of its own line in the output buffer, at
\* any depth of callbacks that log (OutputBuffer, trigger_helper).
THEOREM ContextsAreOwn == Spec => []ContextOfOwn
<1>1. FormattingInv => ContextOfOwn
  <2> SUFFICES ASSUME FormattingInv PROVE ContextOfOwn
    OBVIOUS
  <2>1. calls \in [AllThreads -> Seq(Frames(config, started))]
    BY DEF FormattingInv
  <2>2. \A t \in AllThreads : \A i \in DOMAIN calls[t] : calls[t][i] \in Frames(config, started)
    BY <2>1
  <2>3. \A f \in Frames(config, started) : f.pc = "in after" => f.seen = f.ctx.id
    BY DEF Frames
  <2> QED
    BY <2>2, <2>3 DEF ContextOfOwn
<1> QED
  BY <1>1, FormattingAlways, PTL

\* A line that was written.
LEMMA WrittenLine ==
  ASSUME FormattingInv, NEW sink \in Sinks, NEW l \in LinesOf(sink)
  PROVE  /\ config \in Configs /\ l.ctx \in Context /\ InUse(l.ctx) /\ l.text \in Seq(Printed(sink))
         /\ Body(l) = Asked(log_formatter(config, l.ctx, sink), l.ctx)
         /\ OnlyOf(l.text, Colours) = OnlyOf(log_formatter(config, l.ctx, sink), Colours)
<1>1. PICK i \in DOMAIN lines[sink] : l = lines[sink][i]
  BY DEF LinesOf
<1>2. l \in Lines(config, started, sink) /\ InUse(l.ctx) /\ config \in Configs
  <2>1. lines[sink] \in Seq(Lines(config, started, sink)) /\ config \in Configs
    BY DEF FormattingInv, Scalars
  <2>2. InUse(l.ctx)
    BY <1>1 DEF InUse
  <2> QED
    BY <1>1, <2>1, <2>2
<1>3. l.ctx \in Contexts(started) /\ l.text \in Seq(Printed(sink)) /\ Keeps(config, l.ctx, sink, l.text, <<>>)
  BY <1>2 DEF Lines
<1>4. l.ctx \in Context
  BY <1>3 DEF Contexts
<1> DEFINE text == l.text
           told == Told(text)
           colours == OnlyOf(text, Colours)
<1>5. told \in Seq(Pairs)
  <2>1. \A w \in Seq(Printed(sink)) : Timeless(w) \in Seq(Pairs)
    BY TimelessType
  <2> QED
    BY <1>3, <2>1, KindsType DEF Told
<1>6. colours \in Seq(Printed(sink))
  BY <1>3, KindsType
<1>7. Asked(<<>>, l.ctx) = <<>> /\ OnlyOf(<<>>, Colours) = <<>>
  BY KindsEmpty DEF Asked
<1>8. told \o <<>> = told /\ colours \o <<>> = colours
  <2> HIDE DEF told, colours
  <2> QED
    BY <1>5, <1>6, ConcatEmptySeq
<1>9. Body(l) = told
  BY DEF Body, Told
<1>10. /\ told \o <<>> = Asked(log_formatter(config, l.ctx, sink), l.ctx)
       /\ colours \o <<>> = OnlyOf(log_formatter(config, l.ctx, sink), Colours)
  BY <1>3, <1>7 DEF Keeps
<1> HIDE DEF told, colours
<1> QED
  BY <1>2, <1>3, <1>4, <1>8, <1>9, <1>10 DEF colours, text

\* The time of a line is that of the second in which its field was made, for
\* any clock (getCurDateTime).
THEOREM TimesAreCurrent == Spec => []TimeIsCurrent
<1>1. FormattingInv => TimeIsCurrent
  <2> SUFFICES ASSUME FormattingInv, NEW field \in TimeFields PROVE field[3] = field[5]
    BY DEF TimeIsCurrent
  <2>1. PICK s \in Sinks : \E l \in LinesOf(s) : field \in Range(l.text)
    BY DEF TimeFields
  <2>2. PICK l \in LinesOf(s) : field \in Range(l.text)
    BY <2>1
  <2>3. l.text \in Seq(Printed(s))
    BY WrittenLine
  <2>4. field \in Printed(s)
    BY <2>2, <2>3 DEF Range
  <2> QED
    BY <2>4, PrintedIs DEF TimeFields
<1> QED
  BY <1>1, FormattingAlways, PTL

\* Without its colours a line of colorfulFormatter is one of defaultFormatter,
\* on the console and in the file, for every configuration and message.
THEOREM ColorfulIsDefault == Spec => []ColorfulAsDefault
<1>1. FormattingInv => ColorfulAsDefault
  <2> SUFFICES ASSUME FormattingInv, config.style = "colorful", NEW s \in Sinks, NEW line \in LinesOf(s)
               PROVE  Uncoloured(Body(line)) = Asked(defaultFormatter(config, line.ctx), line.ctx)
    BY DEF ColorfulAsDefault
  <2>1. config \in Configs /\ line.ctx \in Context /\ Body(line) = Asked(log_formatter(config, line.ctx, s), line.ctx)
    BY WrittenLine
  <2>2. log_formatter(config, line.ctx, s) = colorfulFormatter(config, line.ctx, s)
    BY DEF log_formatter
  <2> QED
    BY <2>1, <2>2, ColorfulLine
<1> QED
  BY <1>1, FormattingAlways, PTL

\* No escape sequence reaches the file, and the console's alternate, whatever
\* callbacks have printed in between (colorfulFormatter).
THEOREM ColoursStayAlways == Spec => []ColoursStay
<1>1. FormattingInv => ColoursStay
  <2> SUFFICES ASSUME FormattingInv PROVE ColoursStay
    OBVIOUS
  <2>1. ASSUME NEW line \in LinesOf("file") PROVE Uncoloured(line.text) = line.text
    <3> DEFINE P == Printed("file")
    <3>1. line.text \in Seq(P)
      BY WrittenLine DEF Sinks
    <3>2. \A f \in P : f[1] \notin Colours
      BY PrintedIs
    <3> HIDE DEF P
    <3> QED
      BY <3>1, <3>2, KindsNone DEF Uncoloured
  <2>2. ASSUME config.style = "colorful", NEW line \in LinesOf("console")
        PROVE  Alternate(OnlyOf(line.text, Colours))
    <3>1. /\ config \in Configs /\ line.ctx \in Context
          /\ OnlyOf(line.text, Colours) = OnlyOf(log_formatter(config, line.ctx, "console"), Colours)
      BY WrittenLine DEF Sinks
    <3>2. log_formatter(config, line.ctx, "console") = colorfulFormatter(config, line.ctx, "console")
      BY <2>2 DEF log_formatter
    <3> QED
      BY <3>1, <3>2, ColorfulIs
  <2> QED
    BY <2>1, <2>2 DEF ColoursStay, Alternate
<1> QED
  BY <1>1, FormattingAlways, PTL

\* What comes from the context of a message is the same in the file as on the
\* console, by any formatter and whatever happens between the two: its fields
\* and literals in their order, with level, thread, error number, place and text.
\* Nothing is said of the colours, of what the callbacks append, and of the times
\* and error texts, which come from caches of the thread (log_it_, the formatters).
THEOREM SinksAlwaysAgree == Spec => []SinksAgree
<1>1. FormattingInv => SinksAgree
  <2> SUFFICES ASSUME FormattingInv, NEW f \in LinesOf("file"), NEW g \in LinesOf("console"), f.ctx.id = g.ctx.id
               PROVE  Uncoloured(Body(f)) = Uncoloured(Body(g))
    BY DEF SinksAgree
  <2>1. /\ config \in Configs /\ f.ctx \in Context /\ g.ctx \in Context /\ InUse(f.ctx) /\ InUse(g.ctx)
        /\ Body(f) = Asked(log_formatter(config, f.ctx, "file"), f.ctx)
        /\ Body(g) = Asked(log_formatter(config, g.ctx, "console"), g.ctx)
    BY WrittenLine DEF Sinks
  <2>2. f.ctx = g.ctx
    BY <2>1 DEF FormattingInv, OneMessage
  <2> DEFINE ctx == f.ctx
             s == log_formatter(config, ctx, "file")
             t == log_formatter(config, ctx, "console")
  <2>3. ctx \in Context /\ Body(f) = Asked(s, ctx) /\ Body(g) = Asked(t, ctx)
    BY <2>1, <2>2
  <2>4. s \in Seq(Named(ctx, "file")) /\ t \in Seq(Named(ctx, "console"))
    BY <2>1, <2>3, FormatterType DEF Sinks
  <2>5. Uncoloured(s) = Uncoloured(t)
    BY <2>1, <2>3, SinksSame
  <2> HIDE DEF s, t, ctx
  <2>6. Uncoloured(Asked(s, ctx)) = Asked(Uncoloured(s), ctx) /\ Uncoloured(Asked(t, ctx)) = Asked(Uncoloured(t), ctx)
    BY <2>3, <2>4, Commute
  <2> QED
    BY <2>3, <2>5, <2>6
<1> QED
  BY <1>1, FormattingAlways, PTL

\* A line of a custom format is what the format says when it is read position by
\* position, for every format (the loop of customStringFormatter).
THEOREM CustomAlwaysAsRead == Spec => []CustomAsRead
<1>1. FormattingInv => CustomAsRead
  <2> SUFFICES ASSUME FormattingInv, config.style = "custom", NEW s \in Sinks, NEW line \in LinesOf(s)
               PROVE  Body(line) = Asked(Reading(config, line.ctx, s), line.ctx)
    BY DEF CustomAsRead
  <2>1. config \in Configs /\ line.ctx \in Context /\ Body(line) = Asked(log_formatter(config, line.ctx, s), line.ctx)
    BY WrittenLine
  <2>2. log_formatter(config, line.ctx, s) = customStringFormatter(config, line.ctx, s)
    BY DEF log_formatter
  <2> QED
    BY <2>1, <2>2, CustomReads
<1> QED
  BY <1>1, FormattingAlways, PTL

===============================================================================
