------------------------------ MODULE LoggerImpl ------------------------------
(***************************************************************************)
(* The life of the objects behind the front end (src/logger.cc): the one   *)
(* LoggerImpl, made by the first call that needs it and destroyed when     *)
(* main has returned; the Configs it owns by name, of which Log objects,   *)
(* queued messages and the worker of the AsyncLogging hold plain pointers; *)
(* the GlobalConfig; and the path, a pointer too.                          *)
(*                                                                         *)
(* The program has one thread that logs, the main thread, and one that may *)
(* load a configuration file and exit.  Of the worker this module has what *)
(* it does with configurations; AsyncLogging has the rest.                 *)
(***************************************************************************)
EXTENDS Integers, Sequences, Functions

CONSTANTS
  Names,       \* names that configurations are registered under
  Objects,     \* the Config objects that the program makes
  Global,      \* the GlobalConfig
  Logs,        \* the Log objects of the program
  Levels,      \* the levels the program uses
  log_level,   \* of each configuration
  Callbacks,   \* a callback of the program logs
  NDEBUG,      \* TRUE: assert() is compiled out
  Null,
  MaxMessages  \* bound on the messages

kFatal == 5

Configs == Objects \cup {Global}

ASSUME ConstantsAssumption ==
  /\ Global \notin Objects /\ Null \notin Configs
  /\ Levels \subseteq 0..kFatal /\ log_level \in [Configs -> 0..kFatal]
  /\ Callbacks \in BOOLEAN /\ NDEBUG \in BOOLEAN /\ MaxMessages \in Nat

VARIABLES
  pc,           \* the place of the main thread
  current,      \* the message it is logging
  started,      \* number of messages so far
  logs,         \* the Log objects: the name asked for and m_config
  state,        \* of each configuration: "new", "alive", "destroyed"
  impl,         \* of the LoggerImpl: "none", "up", "gone"
  m_localConfigFactory,
  log_filepath, \* Null, "literal", or "loaded": an array of the loading thread
  loader,       \* that thread: "none", "up", "gone"
  m_basename,   \* the path of the AsyncLogging; Null: there is none
  m_done,
  joined,       \* m_thread has been joined
  wpc,          \* the place of the worker
  queue,        \* the messages that the worker has not taken
  batch,        \* those it has taken, the one it formats at the head
  aborted       \* an assertion has failed or the program was terminated

program == <<pc, current, started, logs>>
backend == <<m_done, joined, queue>>
vars == <<program, state, impl, m_localConfigFactory, log_filepath, loader, m_basename,
          backend, wpc, batch, aborted>>

NoMessage == [config |-> Null, level |-> 0]

Init ==
  /\ pc = "program" /\ current = NoMessage /\ started = 0
  /\ logs = [l \in Logs |-> Null]
  /\ state = [c \in Configs |-> IF c = Global THEN "alive" ELSE "new"]
  /\ impl = "none" /\ m_localConfigFactory = [n \in Names |-> Null]
  /\ log_filepath = Null /\ loader = "none" /\ m_basename = Null
  /\ m_done = FALSE /\ joined = FALSE /\ wpc = "off" /\ queue = <<>> /\ batch = <<>>
  /\ aborted = FALSE

InProgram == ~aborted /\ pc = "program"

Destroy(configs) == state' = [c \in Configs |-> IF c \in configs THEN "destroyed" ELSE state[c]]

Registered == Range(m_localConfigFactory) \ {Null}

(***************************************************************************)
(* The path, and the creation of the LoggerImpl.                           *)
(***************************************************************************)
setFilepath ==
  /\ InProgram
  /\ log_filepath' = "literal"
  /\ UNCHANGED <<program, state, impl, m_localConfigFactory, loader, m_basename, backend, wpc, batch, aborted>>

loadFromJSON ==
  /\ InProgram /\ loader = "none"
  /\ loader' = "up" /\ log_filepath' = "loaded"
  /\ UNCHANGED <<program, state, impl, m_localConfigFactory, m_basename, backend, wpc, batch, aborted>>

LoaderExits ==
  /\ ~aborted /\ loader = "up"
  /\ loader' = "gone"
  /\ UNCHANGED <<program, state, impl, m_localConfigFactory, log_filepath, m_basename, backend, wpc, batch, aborted>>

\* Part of every action that needs the LoggerImpl.  If the AsyncLogging cannot
\* be made the call throws, nothing changes and the next one tries again.
GetInstance ==
  IF impl = "none"
  THEN /\ impl' = "up" /\ m_basename' = log_filepath
       /\ wpc' = IF log_filepath = Null THEN "off" ELSE "check"
  ELSE UNCHANGED <<impl, m_basename, wpc>>

(***************************************************************************)
(* Configurations and Log objects.                                         *)
(***************************************************************************)
MutantRegister(name, c) ==
  /\ m_localConfigFactory' = [m_localConfigFactory EXCEPT ![name] = c]
  /\ state' = [x \in Configs |-> IF x = c THEN "alive"
                                 ELSE IF x = m_localConfigFactory[name] THEN "destroyed" ELSE state[x]]

\* The unique_ptr of a name that is known already ends with the call.
Register(name, c) ==
  IF m_localConfigFactory[name] # Null
  THEN Destroy({c}) /\ UNCHANGED m_localConfigFactory
  ELSE /\ m_localConfigFactory' = [m_localConfigFactory EXCEPT ![name] = c]
       /\ state' = [state EXCEPT ![c] = "alive"]

RegisterConfig(name, c) ==
  /\ InProgram /\ state[c] = "new"
  /\ GetInstance /\ Register(name, c)
  /\ UNCHANGED <<program, log_filepath, loader, backend, batch, aborted>>

RegisterThrows(c) ==
  /\ InProgram /\ state[c] = "new" /\ impl = "none" /\ log_filepath # Null
  /\ Destroy({c})
  /\ UNCHANGED <<program, impl, m_localConfigFactory, log_filepath, loader, m_basename, backend, wpc, batch, aborted>>

\* getConfig gives a null pointer for a name that is not known.
NewLog(l, name) ==
  /\ InProgram /\ logs[l] = Null
  /\ GetInstance
  /\ logs' = [logs EXCEPT ![l] = [name |-> name, m_config |-> m_localConfigFactory[name]]]
  /\ UNCHANGED <<pc, current, started, state, m_localConfigFactory, log_filepath, loader, backend, batch, aborted>>

(***************************************************************************)
(* A log call: log_it_ and DoConfigLog, the file first.                    *)
(***************************************************************************)
ConfigOf(m_config) == IF m_config # Null THEN m_config ELSE Global

\* The level is looked at once the LoggerImpl exists.
log_it_(m_config, level) ==
  /\ InProgram
  /\ GetInstance
  /\ \/ /\ level < log_level[ConfigOf(m_config)]
        /\ UNCHANGED <<pc, current, started>>
     \/ /\ level >= log_level[ConfigOf(m_config)] /\ started < MaxMessages
        /\ started' = started + 1 /\ pc' = "file"
        /\ current' = [config |-> ConfigOf(m_config), level |-> level]
  /\ UNCHANGED <<logs, state, m_localConfigFactory, log_filepath, loader, backend, batch, aborted>>

\* The static functions and a Log without a name have the null pointer.  What
\* the static functions filter themselves changes nothing here.
LogCall ==
  \E m_config \in {Null} \cup {logs[l].m_config : l \in {k \in Logs : logs[k] # Null}}, level \in Levels :
    log_it_(m_config, level)

PushMsg(message, stopped) ==
  IF stopped /\ ~NDEBUG THEN aborted' = TRUE /\ UNCHANGED queue
                        ELSE queue' = Append(queue, message) /\ UNCHANGED aborted

LogFile ==
  /\ ~aborted /\ pc = "file"
  /\ pc' = "console"
  /\ IF m_basename = Null THEN UNCHANGED <<queue, aborted>> ELSE PushMsg(current, m_done)
  /\ UNCHANGED <<current, started, logs, state, impl, m_localConfigFactory, log_filepath, loader,
                 m_basename, m_done, joined, wpc, batch>>

\* Formats with the configuration of the message, at once.
LogConsole ==
  /\ ~aborted /\ pc = "console"
  /\ pc' = "fatal"
  /\ UNCHANGED <<current, started, logs, state, impl, m_localConfigFactory, log_filepath, loader,
                 m_basename, backend, wpc, batch, aborted>>

MutantStored == FALSE
Stored       == TRUE

\* do_done of a back end that exists and has not been stopped.
BeginDone(place) == m_done' = Stored /\ pc' = place

MutantStopped == m_done
Stopped       == m_basename = Null \/ m_done

\* The end of DoConfigLog: the exception is caught in the program.
CheckFatal ==
  /\ ~aborted /\ pc = "fatal"
  /\ IF current.level = kFatal /\ ~Stopped THEN BeginDone("join")
                                           ELSE pc' = "program" /\ UNCHANGED m_done
  /\ current' = NoMessage
  /\ UNCHANGED <<started, logs, state, impl, m_localConfigFactory, log_filepath, loader, m_basename,
                 joined, queue, wpc, batch, aborted>>

waitForDone ==
  /\ InProgram /\ GetInstance
  /\ IF m_basename' = Null \/ m_done THEN UNCHANGED <<pc, m_done>> ELSE BeginDone("join")
  /\ UNCHANGED <<current, started, logs, state, m_localConfigFactory, log_filepath, loader, joined,
                 queue, batch, aborted>>

Join ==
  /\ ~aborted /\ pc \in {"join", "exit join"} /\ wpc = "gone"
  /\ joined' = TRUE /\ pc' = IF pc = "join" THEN "program" ELSE "configs"
  /\ UNCHANGED <<current, started, logs, state, impl, m_localConfigFactory, log_filepath, loader,
                 m_basename, m_done, queue, wpc, batch, aborted>>

(***************************************************************************)
(* The end of main.  Making the LoggerImpl has used the GlobalConfig, which *)
(* is therefore older and destroyed after it.                              *)
(***************************************************************************)
Exit ==
  /\ InProgram
  /\ pc' = IF impl = "none" THEN "global" ELSE "exit"
  /\ UNCHANGED <<current, started, logs, state, impl, m_localConfigFactory, log_filepath, loader,
                 m_basename, backend, wpc, batch, aborted>>

\* Members are destroyed in the reverse order of their declaration: before
\* m_logging the mutex alone.
MutantDeclaredLater == Registered
DeclaredLater       == {}

\* A std::thread that is destroyed without having been joined terminates.
DestroyLogging ==
  /\ ~aborted /\ pc = "exit"
  /\ Destroy(DeclaredLater)
  /\ IF Stopped THEN /\ pc' = "configs" /\ aborted' = (m_basename # Null /\ ~joined)
                     /\ UNCHANGED m_done
                ELSE BeginDone("exit join") /\ UNCHANGED aborted
  /\ UNCHANGED <<current, started, logs, impl, m_localConfigFactory, log_filepath, loader, m_basename,
                 joined, queue, wpc, batch>>

DestroyConfigs ==
  /\ ~aborted /\ pc = "configs"
  /\ Destroy(Registered) /\ impl' = "gone" /\ pc' = "global"
  /\ UNCHANGED <<current, started, logs, m_localConfigFactory, log_filepath, loader, m_basename,
                 backend, wpc, batch, aborted>>

DestroyGlobal ==
  /\ ~aborted /\ pc = "global"
  /\ Destroy({Global}) /\ pc' = "over"
  /\ UNCHANGED <<current, started, logs, impl, m_localConfigFactory, log_filepath, loader, m_basename,
                 backend, wpc, batch, aborted>>

(***************************************************************************)
(* The worker.  It looks at m_done before it takes what is queued, and     *)
(* leaves with the rest still queued.                                      *)
(***************************************************************************)
CheckDone ==
  /\ ~aborted /\ wpc = "check"
  /\ wpc' = IF m_done THEN "gone" ELSE "collect"
  /\ UNCHANGED <<program, state, impl, m_localConfigFactory, log_filepath, loader, m_basename, backend, batch, aborted>>

Collect ==
  /\ ~aborted /\ wpc = "collect"
  /\ wpc' = "format" /\ batch' = queue /\ queue' = <<>>
  /\ UNCHANGED <<program, state, impl, m_localConfigFactory, log_filepath, loader, m_basename, m_done, joined, aborted>>

Format ==
  /\ ~aborted /\ wpc = "format"
  /\ IF batch # <<>> THEN batch' = Tail(batch) /\ UNCHANGED wpc
                     ELSE wpc' = "check" /\ UNCHANGED batch
  /\ UNCHANGED <<program, state, impl, m_localConfigFactory, log_filepath, loader, m_basename, backend, aborted>>

\* A callback that the worker runs logs with a static function.  A fatal
\* message has the worker join itself, which throws, as does the call: the
\* callback catches that, or resetting m_thread terminates the program.  In a
\* back end that is stopped already the assertion of pushMsg comes first.
CallbackLogs(level) ==
  /\ Callbacks /\ ~aborted /\ wpc = "format" /\ batch # <<>>
  /\ started < MaxMessages /\ level >= log_level[Global]
  /\ started' = started + 1
  /\ IF level # kFatal
     THEN PushMsg([config |-> Global, level |-> level], m_done) /\ UNCHANGED m_done
     ELSE /\ queue' = Append(queue, [config |-> Global, level |-> level]) /\ m_done' = TRUE
          /\ \E caught \in BOOLEAN : aborted' = (~caught \/ (m_done /\ ~NDEBUG))
  /\ UNCHANGED <<pc, current, logs, state, impl, m_localConfigFactory, log_filepath, loader, m_basename,
                 joined, wpc, batch>>

Finish == LogFile \/ LogConsole \/ CheckFatal \/ Join \/ DestroyLogging \/ DestroyConfigs \/ DestroyGlobal

Worker == CheckDone \/ Collect \/ Format

Next ==
  \/ setFilepath \/ loadFromJSON \/ LoaderExits
  \/ \E c \in Objects : RegisterThrows(c) \/ \E n \in Names : RegisterConfig(n, c)
  \/ \E l \in Logs, n \in Names : NewLog(l, n)
  \/ LogCall \/ waitForDone \/ Exit \/ Finish
  \/ Worker \/ \E level \in Levels : CallbackLogs(level)

Spec == Init /\ [][Next]_vars

\* A thread that can run does run.
FairSpec == Spec /\ WF_vars(Finish) /\ WF_vars(Worker)

-----------------------------------------------------------------------------
(***************************************************************************)
(* Properties.                                                             *)
(***************************************************************************)
Message == [config : Configs, level : Levels]

\* Every variable keeps its type, and only a back end that exists is stopped.
TypeOK ==
  /\ m_done => m_basename # Null
  /\ pc \in {"program", "file", "console", "fatal", "join", "exit", "exit join", "configs", "global", "over"}
  /\ current \in Message \cup {NoMessage} /\ started \in 0..MaxMessages
  /\ logs \in [Logs -> [name : Names, m_config : Objects \cup {Null}] \cup {Null}]
  /\ state \in [Configs -> {"new", "alive", "destroyed"}]
  /\ impl \in {"none", "up", "gone"} /\ m_localConfigFactory \in [Names -> Objects \cup {Null}]
  /\ log_filepath \in {Null, "literal", "loaded"} /\ loader \in {"none", "up", "gone"}
  /\ m_basename \in {Null, "literal", "loaded"}
  /\ m_done \in BOOLEAN /\ joined \in BOOLEAN /\ aborted \in BOOLEAN
  /\ wpc \in {"off", "check", "collect", "format", "gone"}
  /\ queue \in Seq(Message) /\ batch \in Seq(Message)

\* The configurations that a pointer leads to which may still be followed: by
\* the worker while it runs, by the log call in progress, by a Log in main.
UsedByWorker ==
  IF wpc \in {"check", "collect", "format"}
  THEN {Global} \cup {message.config : message \in Range(queue) \cup Range(batch)} ELSE {}
UsedByCall == IF pc \in {"file", "console"} THEN {current.config} ELSE {}
UsedByLogs == IF impl = "gone" THEN {} ELSE {logs[l].m_config : l \in {k \in Logs : logs[k] # Null}} \ {Null}

\* No plain pointer to a configuration is followed after its destruction:
\* while the worker may format a message, or the program may log, the
\* configurations it uses exist (registerConfig, ~LoggerImpl).
\* config.h:8: "Config must have static lifetime".
ConfigAlive ==
  ~aborted => \A c \in UsedByWorker \cup UsedByCall \cup UsedByLogs : state[c] = "alive"

\* A Log that was made for a registered name has the configuration which that
\* name stands for, however often the name is registered again.
ByName ==
  impl = "up" =>
    \A l \in Logs : logs[l] # Null /\ logs[l].m_config # Null =>
      m_localConfigFactory[logs[l].name] = logs[l].m_config

\* Once main has returned, the destructors come to an end, whatever the worker
\* is doing, and whether or not the back end has been stopped before.
ExitCompletes == (pc = "exit") ~> (pc = "over" \/ aborted)

\* Where a path is configured, messages go to the file.  README.md:342 says of
\* outFile and others: "these configurations can also only be configured once".
\* Violated: if a Config is registered before, the path has no effect.
FileChosen == impl = "up" /\ log_filepath # Null => m_basename # Null

\* The path of the back end exists.  config.h:8: "Config must have static
\* lifetime".  Violated: loadFromJSON on a thread that exits (config.cc:255).
PathAlive == m_basename = "loaded" /\ wpc \notin {"off", "gone"} => loader # "gone"

\* Nobody logs to a stopped back end, unless the program stops it itself:
\* assert(!m_done), async_logging.cc:73.  Violated: main returns while the
\* worker runs a callback that logs.
NotStoppedByExit == pc = "exit join" => ~aborted
===============================================================================
