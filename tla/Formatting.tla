------------------------------ MODULE Formatting ------------------------------
(***************************************************************************)
(* Lines being formatted (src/formatter.cc, include/elog/output_buffer.h,  *)
(* src/logger_util.cc): a message is queued for the worker, which formats  *)
(* it for the file, and is formatted for the console by the thread that    *)
(* logs it.  Both run the formatter of the same configuration: the before  *)
(* callback, the fields one by one, the after callback and the newline.    *)
(* Callbacks are code of the program: they keep data in the context of the *)
(* output buffer, may log and may throw.                                   *)
(*                                                                         *)
(* The time, its zone and the error text come from thread_local caches.    *)
(* The clock is in seconds and may be set forth and back.                  *)
(***************************************************************************)
EXTENDS Formatter

CONSTANTS
  Threads,     \* the threads of the program
  Worker,      \* the thread of the AsyncLogging
  Configs,     \* the configurations, with callbacks or without
  Messages,    \* what is logged: level, err and whether the call site is known
  Known,       \* the error numbers that the C library has a text for
  Offset,      \* seconds of local time ahead of UTC, as a function of the time
  Standard,    \* the same outside of daylight saving time
  MaxTime,     \* bound on the clock
  NDEBUG,      \* TRUE: assert() is compiled out
  MaxCalls,    \* bound on the messages
  MaxDepth     \* bound on the formatters in progress on one thread

Times == 1..MaxTime
AllThreads == Threads \cup {Worker}
Sinks == {"file", "console"}
Styles == {"default", "colorful", "json", "custom"}

ASSUME ConstantsAssumption ==
  /\ Worker \notin Threads
  /\ \A c \in Configs : /\ c.style \in Styles /\ c.callbacks \in BOOLEAN
                        /\ c.log_name \in STRING /\ c.format \in Seq(STRING)
  /\ \A m \in Messages : m.level \in Nat /\ m.err \in Nat /\ m.located \in BOOLEAN
  /\ MaxTime \in Nat /\ Standard \in Int /\ Offset \in [Times -> Int]
  /\ NDEBUG \in BOOLEAN /\ MaxCalls \in Nat /\ MaxDepth \in Nat

VARIABLES
  config,       \* the configuration of all messages
  now,          \* time()
  t_lastSecond, \* of each thread: the second that t_tm is the local time of
  t_tm,         \* the second that was last broken down: 0 before the first
  t_timezone,   \* the zone in hours, -1: not known yet
  t_errnobuf,   \* the error number whose text the buffer holds: 0 if empty
  calls,        \* the formatters in progress on each thread, the innermost last
  started,      \* number of messages so far: the identity of the last one
  queue,        \* the messages that the worker has not taken yet
  lines,        \* what was written, per destination
  aborted       \* an assertion has failed or the program was terminated

caches == <<t_lastSecond, t_tm, t_timezone, t_errnobuf>>
vars == <<config, now, caches, calls, started, queue, lines, aborted>>

Init ==
  /\ config \in Configs /\ now \in Times
  /\ t_lastSecond = [t \in AllThreads |-> 0] /\ t_tm = [t \in AllThreads |-> 0]
  /\ t_timezone = [t \in AllThreads |-> -1] /\ t_errnobuf = [t \in AllThreads |-> 0]
  /\ calls = [t \in AllThreads |-> <<>>]
  /\ started = 0 /\ queue = <<>> /\ lines = [s \in Sinks |-> <<>>]
  /\ aborted = FALSE

Top(t)   == Last(calls[t])
At(t, p) == ~aborted /\ calls[t] # <<>> /\ Top(t).pc = p

InCallback(t) == At(t, "in before") \/ At(t, "in after")

\* The program itself runs: outside of any call, or in a callback.
InProgram(t) == ~aborted /\ (IF calls[t] = <<>> THEN t # Worker ELSE InCallback(t))

NewFormatter(ctx, sink) ==
  [ctx |-> ctx, sink |-> sink, pc |-> "before", m_ctx |-> 0, seen |-> 0,
   todo |-> log_formatter(config, ctx, sink), buffer |-> <<>>]

Replace(t, frame) == calls' = [calls EXCEPT ![t] = Append(Front(@), frame)]

(***************************************************************************)
(* A log call hands the message to the worker and starts to format it for  *)
(* the console; the worker takes one message after the other.              *)
(***************************************************************************)
LogCall(t, m) ==
  /\ InProgram(t) /\ Len(calls[t]) < MaxDepth /\ started < MaxCalls
  /\ started' = started + 1
  /\ LET ctx == [id |-> started + 1, tid |-> t, level |-> m.level, err |-> m.err,
                 located |-> m.located]
     IN  /\ queue' = Append(queue, ctx)
         /\ calls' = [calls EXCEPT ![t] = Append(@, NewFormatter(ctx, "console"))]
  /\ UNCHANGED <<config, now, caches, lines, aborted>>

Take ==
  /\ ~aborted /\ calls[Worker] = <<>> /\ queue # <<>>
  /\ queue' = Tail(queue)
  /\ calls' = [calls EXCEPT ![Worker] = <<NewFormatter(Head(queue), "file")>>]
  /\ UNCHANGED <<config, now, caches, started, lines, aborted>>

(***************************************************************************)
(* trigger_helper.  The OutputBuffer with the context m_ctx is local to    *)
(* the formatter that runs.                                                *)
(***************************************************************************)
MutantOwnBuffer(t) == 1
OwnBuffer(t)       == Len(calls[t])

\* Without callbacks the two ends of the helper do nothing but the newline.
Before(t) ==
  /\ At(t, "before")
  /\ IF config.callbacks
     THEN calls' = [calls EXCEPT ![t][OwnBuffer(t)].m_ctx = Top(t).ctx.id,
                                 ![t][Len(calls[t])].pc = "in before"]
     ELSE Replace(t, [Top(t) EXCEPT !.pc = "fields"])
  /\ UNCHANGED <<config, now, caches, started, queue, lines, aborted>>

BeforeReturns(t) ==
  /\ At(t, "in before")
  /\ Replace(t, [Top(t) EXCEPT !.pc = "fields", !.buffer = Append(@, <<"before", Top(t).ctx.id>>)])
  /\ UNCHANGED <<config, now, caches, started, queue, lines, aborted>>

After(t) ==
  /\ At(t, "fields") /\ Top(t).todo = <<>>
  /\ IF config.callbacks
     THEN Replace(t, [Top(t) EXCEPT !.pc = "in after", !.seen = calls[t][OwnBuffer(t)].m_ctx])
     ELSE Replace(t, [Top(t) EXCEPT !.pc = "write"])
  /\ UNCHANGED <<config, now, caches, started, queue, lines, aborted>>

AfterReturns(t) ==
  /\ At(t, "in after")
  /\ Replace(t, [Top(t) EXCEPT !.pc = "write", !.buffer = Append(@, <<"after", Top(t).ctx.id>>)])
  /\ UNCHANGED <<config, now, caches, started, queue, lines, aborted>>

\* A callback throws, and the callback of the formatter at depth d, or the
\* program below all of them (d = 0), catches it.  Nothing leaves the destructor
\* that runs an after callback, and nothing the worker: resetting m_thread in
\* its handler terminates the program.
Passes(t, d) ==
  /\ \A i \in (d + 1)..Len(calls[t]) : calls[t][i].pc = "in before"
  /\ d > 0 \/ t # Worker

CallbackThrows(t) ==
  /\ InCallback(t)
  /\ \E d \in 0..(Len(calls[t]) - 1) :
       IF Passes(t, d)
       THEN calls' = [calls EXCEPT ![t] = SubSeq(@, 1, d)] /\ UNCHANGED aborted
       ELSE aborted' = TRUE /\ UNCHANGED calls
  /\ UNCHANGED <<config, now, caches, started, queue, lines>>

(***************************************************************************)
(* The fields.                                                             *)
(***************************************************************************)
NextField(t) == Head(Top(t).todo)

Put(t, field) == Replace(t, [Top(t) EXCEPT !.todo = Tail(@), !.buffer = Append(@, field)])

IsField(t, kinds) == At(t, "fields") /\ Top(t).todo # <<>> /\ NextField(t)[1] \in kinds

MutantTidOf(t) == t
TidOf(t)       == Top(t).ctx.tid

PlainField(t) ==
  /\ At(t, "fields") /\ Top(t).todo # <<>> /\ ~IsField(t, {"time", "error"})
  /\ Put(t, IF NextField(t)[1] = "tid" THEN <<"tid", TidOf(t)>> ELSE NextField(t))
  /\ UNCHANGED <<config, now, caches, started, queue, lines, aborted>>

\* C++ division rounds towards zero.
Quotient(a, b) == IF a >= 0 THEN a \div b ELSE -((-a) \div b)

\* mktime takes what gmtime_r returns for local time outside of daylight saving
\* time, so that the difference is the standard offset.
ZoneOf(t) == IF t_timezone[t] = -1 THEN Quotient(Standard, 3600) ELSE t_timezone[t]

\* %02d prints two characters for -9..99: with any other zone the length is not 23.
ZoneFits(zone) == zone \in -9..99

MutantNewSecond(t) == t_lastSecond[t] < now
NewSecond(t)       == t_lastSecond[t] # now

\* The field keeps, as history, the time at which it was made.
getCurDateTime(t) ==
  /\ IsField(t, {"time"})
  /\ IF NewSecond(t)
     THEN t_lastSecond' = [t_lastSecond EXCEPT ![t] = now] /\ t_tm' = [t_tm EXCEPT ![t] = now]
     ELSE UNCHANGED <<t_lastSecond, t_tm>>
  /\ t_timezone' = [t_timezone EXCEPT ![t] = ZoneOf(t)]
  /\ IF NextField(t)[2] = "full" /\ ~ZoneFits(ZoneOf(t)) /\ ~NDEBUG
     THEN aborted' = TRUE /\ UNCHANGED calls
     ELSE Put(t, <<"time", NextField(t)[2], t_tm'[t], ZoneOf(t), now>>) /\ UNCHANGED aborted
  /\ UNCHANGED <<config, now, t_errnobuf, started, queue, lines>>

MutantErrorText(t, err) == err

\* strerror_r of the GNU library returns its own text for an error it knows
\* and leaves the buffer alone; what it returns is not used.
ErrorText(t, err) == IF err \in Known THEN t_errnobuf[t] ELSE err

getErrorInfo(t) ==
  /\ IsField(t, {"error"})
  /\ LET err == NextField(t)[2] IN
     /\ t_errnobuf' = [t_errnobuf EXCEPT ![t] = ErrorText(t, err)]
     /\ Put(t, <<"error", ErrorText(t, err), err>>)
  /\ UNCHANGED <<config, now, t_lastSecond, t_tm, t_timezone, started, queue, lines, aborted>>

\* The line is written and the formatter is done.
Write(t) ==
  /\ At(t, "write")
  /\ lines' = [lines EXCEPT ![Top(t).sink] = Append(@, [ctx |-> Top(t).ctx, text |-> Top(t).buffer])]
  /\ calls' = [calls EXCEPT ![t] = Front(@)]
  /\ UNCHANGED <<config, now, caches, started, queue, aborted>>

SetClock ==
  /\ ~aborted
  /\ now' \in Times \ {now}
  /\ UNCHANGED <<config, caches, calls, started, queue, lines, aborted>>

Format(t) ==
  \/ Before(t) \/ BeforeReturns(t) \/ After(t) \/ AfterReturns(t) \/ CallbackThrows(t)
  \/ PlainField(t) \/ getCurDateTime(t) \/ getErrorInfo(t) \/ Write(t)

Next ==
  \/ \E t \in AllThreads : Format(t) \/ \E m \in Messages : LogCall(t, m)
  \/ Take \/ SetClock

Spec == Init /\ [][Next]_vars

-----------------------------------------------------------------------------
(***************************************************************************)
(* Properties.                                                             *)
(***************************************************************************)
Pcs == {"before", "in before", "fields", "in after", "write"}

\* Every variable keeps its type: a formatter of the worker writes to the file
\* while any other writes to the console, and the buffer for error texts holds
\* only those that the C library makes up for a number it does not know.
TypeOK ==
  /\ config \in Configs /\ now \in Times
  /\ t_lastSecond \in [AllThreads -> Times \cup {0}] /\ t_tm \in [AllThreads -> Times \cup {0}]
  /\ t_timezone \in [AllThreads -> Int]
  /\ t_errnobuf \in [AllThreads -> {0} \cup ({m.err : m \in Messages} \ Known)]
  /\ started \in 0..MaxCalls /\ aborted \in BOOLEAN
  /\ \A t \in AllThreads : \A i \in DOMAIN calls[t] :
       LET frame == calls[t][i] IN
       /\ frame.pc \in Pcs /\ frame.m_ctx \in 0..started /\ frame.ctx.id \in 1..started
       /\ (frame.sink = "file") <=> (t = Worker /\ i = 1)
  /\ \A s \in Sinks : \A i \in DOMAIN lines[s] : lines[s][i].ctx.id \in 1..started

\* The after callback finds in the output buffer the context that the before
\* callback of the same line left there, whatever the callbacks log in between
\* and whatever other threads format (OutputBuffer, trigger_helper).
ContextOfOwn ==
  \A t \in AllThreads : \A i \in DOMAIN calls[t] :
    LET frame == calls[t][i] IN frame.pc = "in after" => frame.seen = frame.ctx.id

LinesOf(s) == {lines[s][i] : i \in DOMAIN lines[s]}

Marks == {"before", "after"}

\* A line without what the callbacks append, and with its times and error texts
\* reduced to which time and the text of which error number is asked for: these
\* come from the clock and from caches of the thread that formats.
Timeless(fields) ==
  [i \in DOMAIN fields |-> CASE fields[i][1] = "time"  -> <<"time", fields[i][2]>>
                             [] fields[i][1] = "error" -> <<"error", fields[i][3]>>
                             [] OTHER -> fields[i]]
Body(line) == Timeless(Without(line.text, Marks))

\* The fields that a formatter names, with the thread id of the message.
Asked(fields, ctx) ==
  [i \in DOMAIN fields |-> IF fields[i][1] = "tid" THEN <<"tid", ctx.tid>> ELSE fields[i]]

\* A message says the same in the file, where the worker has formatted it
\* later, as on the console, as far as that comes from its context: the level,
\* the thread, the error number, the place, the names and the text, in the same
\* order with the same literals (log_it_ puts what belongs to the thread of the
\* caller into the context).  Left out are the colours, what the callbacks
\* append, and the times and the error texts, which differ: each thread has its
\* own t_tm and t_errnobuf (logger_util.cc:36, 80).  What they may be is said by
\* TimeIsCurrent and ErrorIsOwn.
SinksAgree ==
  \A f \in LinesOf("file"), c \in LinesOf("console") :
    f.ctx.id = c.ctx.id => Uncoloured(Body(f)) = Uncoloured(Body(c))

\* A line of a custom format is what the format says when it is read position
\* by position, for any format: directives next to each other, doubled, unknown
\* or cut off at the end (the loop of customStringFormatter).
CustomAsRead ==
  config.style = "custom" =>
    \A s \in Sinks : \A line \in LinesOf(s) :
      Body(line) = Asked(Reading(config, line.ctx, s), line.ctx)

\* Without its colours a line of colorfulFormatter is one of defaultFormatter.
\* README.md:418: it is "in the same format as the formatter, but with color
\* highlighting when output to the console".
ColorfulAsDefault ==
  config.style = "colorful" =>
    \A s \in Sinks : \A line \in LinesOf(s) :
      Uncoloured(Body(line)) = Asked(defaultFormatter(config, line.ctx), line.ctx)

\* No escape sequence reaches the file, and colorfulFormatter ends on the
\* console every colour that it begins before it begins another.
ColoursStay ==
  /\ \A line \in LinesOf("file") : Uncoloured(line.text) = line.text
  /\ config.style = "colorful" =>
       \A line \in LinesOf("console") :
         LET escapes == OnlyOf(line.text, Colours)
         IN  \A i \in DOMAIN escapes : (escapes[i][1] = "colour end") <=> (i % 2 = 0)

TimeFields == {field \in UNION {Range(line.text) : line \in UNION {LinesOf(s) : s \in Sinks}} :
                 field[1] = "time"}

\* The time in a line is the local time of the second in which the field was
\* made, although it is broken down only when the second of the thread's last
\* call is over, and whether the clock was set forth or back (getCurDateTime).
TimeIsCurrent == \A field \in TimeFields : field[3] = field[5]

\* The zone in a line is the one its time is in.  README.md:421: "%T: indicates
\* the whole date and time, also includes the time zone."  Violated: the zone
\* is that of winter, in whole hours rounded towards zero (logger_util.cc:52).
ZoneIsCurrent == \A field \in TimeFields : field[2] = "full" => field[4] * 3600 = Offset[field[3]]

\* No callback and no zone ends the program.  logger_util.cc:63 asserts that a
\* time has 23 characters.  Violated: it has 24 in a zone of UTC-10 or beyond.
NeverAborts == ~config.callbacks => ~aborted

ErrorFields == {field \in UNION {Range(line.text) : line \in UNION {LinesOf(s) : s \in Sinks}} :
                  field[1] = "error"}

\* The text of %e is that of the error of the message.  README.md:425: it
\* "indicates the error message if there is an error in `errno`".  Violated:
\* the buffer that is printed is not the one the text is in (logger_util.cc:80).
ErrorIsOwn == \A field \in ErrorFields : field[2] = field[3]

\* The line number is printed only if kLine is set.  README.md:216: "`kLine`:
\* whether output the line number."  Violated: formatter.cc:107 and 188 print
\* it with every file name.
LineIfAsked ==
  "kLine" \notin config.log_flag =>
    \A s \in Sinks : \A line \in LinesOf(s) : \A i \in DOMAIN line.text : line.text[i][1] # "line"

\* The date is printed only if kDate is set.  README.md:212: "`kDate`: whether
\* to output the date."  Violated: formatter.cc:241 and 306 do not look at it.
DateIfAsked == "kDate" \notin config.log_flag => TimeFields = {}
===============================================================================
