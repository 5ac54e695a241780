--------------------------- MODULE LoggerImplProofs ---------------------------
(***************************************************************************)
(* The life of the configurations, for any program: any number of names,   *)
(* configurations, Log objects and messages, with and without assertions   *)
(* and callbacks that log.                                                 *)
(***************************************************************************)
EXTENDS LoggerImpl, SequenceTheorems, TLAPS

\* The worker may still follow a pointer.
Working == wpc \in {"check", "collect", "format"}

\* The configurations that a message may carry a pointer to.
Usable == {Global} \cup Registered

\* Where the main thread and the worker are, in the life of the LoggerImpl: the
\* configurations are destroyed only when no worker is left to use them.
PlaceInv ==
  /\ m_basename = Null <=> wpc = "off"
  /\ joined => wpc = "gone"
  /\ ~aborted /\ pc \in {"configs", "global", "over"} => ~Working
  /\ impl = "none" => pc \in {"program", "global", "over"} /\ m_basename = Null
  /\ impl = "gone" => pc \in {"global", "over"}

\* What the LoggerImpl owns lives as long as it does.
OwnInv ==
  /\ impl = "none" => /\ \A n \in Names : m_localConfigFactory[n] = Null
                      /\ \A l \in Logs : logs[l] = Null
  /\ impl # "gone" => \A n \in Names : m_localConfigFactory[n] # Null =>
                                         state[m_localConfigFactory[n]] = "alive"
  /\ pc # "over" => state[Global] = "alive"

\* Every pointer to a configuration leads to the global one or to a registered
\* one, that of a Log to the one registered under its name.
RefInv ==
  /\ \A l \in Logs : logs[l] # Null /\ logs[l].m_config # Null =>
       m_localConfigFactory[logs[l].name] = logs[l].m_config
  /\ \A i \in DOMAIN queue : queue[i].config \in Usable
  /\ \A i \in DOMAIN batch : batch[i].config \in Usable
  /\ pc \in {"file", "console"} => current \in Message /\ current.config \in Usable

LifeInv == TypeOK /\ PlaceInv /\ OwnInv /\ RefInv

-----------------------------------------------------------------------------
LEMMA LifeInit == Init => LifeInv
<1> SUFFICES ASSUME Init PROVE LifeInv
  OBVIOUS
<1> USE DEF Init
<1>1. queue \in Seq(Message) /\ batch \in Seq(Message)
  OBVIOUS
<1>2. m_done \in BOOLEAN /\ joined \in BOOLEAN /\ aborted \in BOOLEAN
  OBVIOUS
<1>3. TypeOK
  BY <1>1, <1>2, ConstantsAssumption DEF TypeOK, Configs
<1>4. PlaceInv
  BY DEF PlaceInv, Working
<1>5. OwnInv
  BY DEF OwnInv, Configs
<1>6. RefInv
  BY DEF RefInv
<1> QED
  BY <1>3, <1>4, <1>5, <1>6 DEF LifeInv

-----------------------------------------------------------------------------
\* The first call that needs the LoggerImpl makes it, with a worker if there is
\* a path.
LEMMA InstanceMade ==
  ASSUME TypeOK, PlaceInv, GetInstance
  PROVE  /\ impl' \in {"none", "up", "gone"} /\ impl' # "none"
         /\ impl # "none" => impl' = impl
         /\ impl' = "gone" => impl = "gone"
         /\ m_basename' \in {Null, "literal", "loaded"}
         /\ wpc' \in {"off", "check", "collect", "format", "gone"}
         /\ m_basename' = Null <=> wpc' = "off"
         /\ joined => wpc' = "gone"
         /\ m_done => m_basename' # Null
<1>1. CASE impl = "none"
  BY <1>1 DEF GetInstance, TypeOK, PlaceInv
<1>2. CASE impl # "none"
  BY <1>2 DEF GetInstance, TypeOK, PlaceInv
<1> QED
  BY <1>1, <1>2

LEMMA PlaceStep ==
  ASSUME TypeOK, PlaceInv, [Next]_vars
  PROVE  PlaceInv'
<1> USE DEF program, backend, PlaceInv, Working, InProgram
<1>1. ASSUME UNCHANGED <<m_basename, wpc, joined, aborted, pc, impl>> PROVE PlaceInv'
  BY <1>1
<1>2. CASE setFilepath \/ loadFromJSON \/ LoaderExits
  BY <1>1, <1>2 DEF setFilepath, loadFromJSON, LoaderExits
<1>3. ASSUME NEW c \in Objects, RegisterThrows(c) PROVE PlaceInv'
  BY <1>1, <1>3 DEF RegisterThrows
<1>4. ASSUME GetInstance, pc = "program", UNCHANGED <<joined, aborted>>,
             pc' \in {"program", "file", "join"}
      PROVE  PlaceInv'
  BY <1>4, InstanceMade
<1>5. ASSUME NEW c \in Objects, NEW n \in Names, RegisterConfig(n, c) PROVE PlaceInv'
  BY <1>4, <1>5 DEF RegisterConfig
<1>6. ASSUME NEW l \in Logs, NEW n \in Names, NewLog(l, n) PROVE PlaceInv'
  BY <1>4, <1>6 DEF NewLog
<1>7. CASE LogCall
  BY <1>4, <1>7 DEF LogCall, log_it_
<1>8. CASE waitForDone
  BY <1>4, <1>8 DEF waitForDone, BeginDone
<1>9. CASE Exit
  BY <1>9 DEF Exit, TypeOK
<1>10. CASE LogFile
  BY <1>10 DEF LogFile, PushMsg
<1>11. CASE LogConsole \/ CheckFatal
  BY <1>11 DEF LogConsole, CheckFatal, BeginDone
<1>12. CASE Join
  BY <1>12 DEF Join
<1>13. CASE DestroyLogging
  BY <1>13 DEF DestroyLogging, BeginDone, Stopped
<1>14. CASE DestroyConfigs \/ DestroyGlobal
  BY <1>14 DEF DestroyConfigs, DestroyGlobal
<1>15. CASE Worker
  BY <1>15 DEF Worker, CheckDone, Collect, Format
<1>16. ASSUME NEW level \in Levels, CallbackLogs(level) PROVE PlaceInv'
  BY <1>16 DEF CallbackLogs, PushMsg
<1>17. CASE UNCHANGED vars
  BY <1>1, <1>17 DEF vars
<1> QED
  BY <1>2, <1>3, <1>5, <1>6, <1>7, <1>8, <1>9, <1>10, <1>11, <1>12, <1>13, <1>14, <1>15, <1>16, <1>17
     DEF Next, Finish

-----------------------------------------------------------------------------
\* A registration leaves the map a map, and adds to it the new configuration
\* or nothing.
LEMMA Registering ==
  ASSUME TypeOK, NEW c \in Objects, NEW n \in Names, Register(n, c)
  PROVE  /\ m_localConfigFactory' \in [Names -> Objects \cup {Null}]
         /\ state' \in [Configs -> {"new", "alive", "destroyed"}]
         /\ \A m \in Names : m_localConfigFactory[m] # Null =>
              m_localConfigFactory'[m] = m_localConfigFactory[m]
         /\ \A x \in Configs : x # c => state'[x] = state[x]
         /\ \A m \in Names : m_localConfigFactory'[m] # m_localConfigFactory[m] =>
              m_localConfigFactory'[m] = c /\ state'[c] = "alive"
<1>1. c \in Configs
  BY DEF Configs
<1>2. CASE m_localConfigFactory[n] # Null
  BY <1>1, <1>2 DEF Register, Destroy, TypeOK
<1>3. CASE m_localConfigFactory[n] = Null
  BY <1>1, <1>3 DEF Register, TypeOK
<1> QED
  BY <1>2, <1>3

\* The type invariant in three parts: the main thread, what the LoggerImpl owns,
\* the back end.
MainTyped ==
  /\ pc \in {"program", "file", "console", "fatal", "join", "exit", "exit join", "configs", "global", "over"}
  /\ current \in Message \cup {NoMessage} /\ started \in 0..MaxMessages
  /\ logs \in [Logs -> [name : Names, m_config : Objects \cup {Null}] \cup {Null}]

OwnTyped ==
  /\ state \in [Configs -> {"new", "alive", "destroyed"}]
  /\ impl \in {"none", "up", "gone"} /\ m_localConfigFactory \in [Names -> Objects \cup {Null}]
  /\ log_filepath \in {Null, "literal", "loaded"} /\ loader \in {"none", "up", "gone"}

BackTyped ==
  /\ m_done => m_basename # Null
  /\ m_basename \in {Null, "literal", "loaded"}
  /\ m_done \in BOOLEAN /\ joined \in BOOLEAN /\ aborted \in BOOLEAN
  /\ wpc \in {"off", "check", "collect", "format", "gone"}
  /\ queue \in Seq(Message) /\ batch \in Seq(Message)

LEMMA TypeParts == TypeOK <=> MainTyped /\ OwnTyped /\ BackTyped
  BY DEF TypeOK, MainTyped, OwnTyped, BackTyped

LEMMA MainStep ==
  ASSUME TypeOK, [Next]_vars
  PROVE  MainTyped'
<1> USE DEF MainTyped
<1>1. MainTyped
  BY TypeParts
<1>2. ASSUME UNCHANGED program PROVE MainTyped'
  BY <1>1, <1>2 DEF program
<1>3. ASSUME UNCHANGED <<current, started, logs>>,
             pc' \in {"program", "file", "console", "fatal", "join", "exit", "exit join", "configs",
                      "global", "over"}
      PROVE  MainTyped'
  BY <1>1, <1>3
<1>4. started < MaxMessages => started + 1 \in 0..MaxMessages
  <2>1. MaxMessages \in Nat /\ started \in 0..MaxMessages
    BY <1>1, ConstantsAssumption
  <2> QED
    BY <2>1
<1>5. CASE setFilepath \/ loadFromJSON \/ LoaderExits
  BY <1>2, <1>5 DEF setFilepath, loadFromJSON, LoaderExits
<1>6. ASSUME NEW c \in Objects, RegisterThrows(c) \/ \E n \in Names : RegisterConfig(n, c) PROVE MainTyped'
  BY <1>2, <1>6 DEF RegisterThrows, RegisterConfig
<1>7. ASSUME NEW l \in Logs, NEW n \in Names, NewLog(l, n) PROVE MainTyped'
  <2>1. m_localConfigFactory[n] \in Objects \cup {Null}
    BY DEF TypeOK
  <2> QED
    BY <1>1, <1>7, <2>1 DEF NewLog
<1>8. CASE LogCall
  <2>1. PICK m_config \in {Null} \cup {logs[l].m_config : l \in {k \in Logs : logs[k] # Null}},
             level \in Levels : log_it_(m_config, level)
    BY <1>8 DEF LogCall
  <2>2. m_config \in Objects \cup {Null}
    BY <1>1, <2>1
  <2>3. logs' = logs
    BY <2>1 DEF log_it_
  <2>4. CASE UNCHANGED <<pc, current, started>>
    BY <1>2, <2>3, <2>4 DEF program
  <2>5. CASE pc' # pc \/ current' # current \/ started' # started
    <3>1. /\ pc' = "file" /\ started < MaxMessages /\ started' = started + 1
          /\ current' = [config |-> ConfigOf(m_config), level |-> level]
      BY <2>1, <2>5 DEF log_it_
    <3>2. current' \in Message
      BY <2>2, <3>1 DEF ConfigOf, Message, Configs
    <3> QED
      BY <1>1, <1>4, <2>3, <3>1, <3>2
  <2> QED
    BY <2>4, <2>5
<1>9. CASE LogFile \/ LogConsole \/ Join \/ Exit
  BY <1>3, <1>9 DEF LogFile, LogConsole, Join, Exit
<1>10. CASE CheckFatal
  BY <1>1, <1>10 DEF CheckFatal, BeginDone
<1>11. CASE waitForDone
  <2>1. pc' = pc \/ pc' = "join"
    BY <1>11 DEF waitForDone, BeginDone
  <2> QED
    BY <1>1, <1>3, <1>11, <2>1 DEF waitForDone
<1>12. CASE DestroyLogging \/ DestroyConfigs \/ DestroyGlobal
  BY <1>3, <1>12 DEF DestroyLogging, BeginDone, DestroyConfigs, DestroyGlobal
<1>13. CASE Worker
  BY <1>2, <1>13 DEF Worker, CheckDone, Collect, Format
<1>14. ASSUME NEW level \in Levels, CallbackLogs(level) PROVE MainTyped'
  <2>1. started < MaxMessages /\ started' = started + 1 /\ UNCHANGED <<pc, current, logs>>
    BY <1>14 DEF CallbackLogs
  <2> QED
    BY <1>1, <1>4, <2>1
<1>15. CASE UNCHANGED vars
  BY <1>2, <1>15 DEF vars
<1> QED
  BY <1>5, <1>6, <1>7, <1>8, <1>9, <1>10, <1>11, <1>12, <1>13, <1>14, <1>15 DEF Next, Finish

LEMMA OwnedStep ==
  ASSUME TypeOK, PlaceInv, [Next]_vars
  PROVE  OwnTyped'
<1> USE DEF OwnTyped
<1>1. OwnTyped
  BY TypeParts
<1>2. ASSUME UNCHANGED <<state, impl, m_localConfigFactory, log_filepath, loader>> PROVE OwnTyped'
  BY <1>1, <1>2
<1>3. ASSUME NEW configs, Destroy(configs),
             UNCHANGED <<m_localConfigFactory, log_filepath, loader>>, impl' \in {impl, "gone"}
      PROVE  OwnTyped'
  BY <1>1, <1>3 DEF Destroy
<1>4. CASE setFilepath \/ loadFromJSON \/ LoaderExits
  BY <1>1, <1>4 DEF setFilepath, loadFromJSON, LoaderExits
<1>5. ASSUME NEW c \in Objects, NEW n \in Names, RegisterConfig(n, c) PROVE OwnTyped'
  <2>1. GetInstance /\ Register(n, c) /\ UNCHANGED <<log_filepath, loader>>
    BY <1>5 DEF RegisterConfig
  <2> QED
    BY <1>1, <2>1, InstanceMade, Registering
<1>6. ASSUME NEW c \in Objects, RegisterThrows(c) PROVE OwnTyped'
  BY <1>3, <1>6 DEF RegisterThrows
<1>7. ASSUME GetInstance, UNCHANGED <<state, m_localConfigFactory, log_filepath, loader>> PROVE OwnTyped'
  BY <1>1, <1>7, InstanceMade
<1>8. ASSUME NEW l \in Logs, NEW n \in Names, NewLog(l, n) PROVE OwnTyped'
  BY <1>7, <1>8 DEF NewLog
<1>9. CASE LogCall \/ waitForDone
  BY <1>7, <1>9 DEF LogCall, log_it_, waitForDone
<1>10. CASE LogFile \/ LogConsole \/ CheckFatal \/ Join \/ Exit
  BY <1>2, <1>10 DEF LogFile, LogConsole, CheckFatal, Join, Exit
<1>11. CASE DestroyLogging \/ DestroyConfigs \/ DestroyGlobal
  BY <1>3, <1>11 DEF DestroyLogging, DestroyConfigs, DestroyGlobal
<1>12. CASE Worker
  BY <1>2, <1>12 DEF Worker, CheckDone, Collect, Format
<1>13. ASSUME NEW level \in Levels, CallbackLogs(level) PROVE OwnTyped'
  BY <1>2, <1>13 DEF CallbackLogs
<1>14. CASE UNCHANGED vars
  BY <1>2, <1>14 DEF vars
<1> QED
  BY <1>4, <1>5, <1>6, <1>8, <1>9, <1>10, <1>11, <1>12, <1>13, <1>14 DEF Next, Finish

\* What PushMsg does to the queue and to the program.
LEMMA PushTyped ==
  ASSUME BackTyped, NEW message \in Message, NEW stopped, PushMsg(message, stopped)
  PROVE  queue' \in Seq(Message) /\ aborted' \in BOOLEAN
<1>1. queue \in Seq(Message) /\ aborted \in BOOLEAN
  BY DEF BackTyped
<1>2. CASE stopped /\ ~NDEBUG
  BY <1>1, <1>2 DEF PushMsg
<1>3. CASE ~(stopped /\ ~NDEBUG)
  <2>1. queue' = Append(queue, message) /\ aborted' = aborted
    BY <1>3 DEF PushMsg
  <2> QED
    BY <1>1, <2>1
<1> QED
  BY <1>2, <1>3

LEMMA BackStep ==
  ASSUME TypeOK, PlaceInv, RefInv, [Next]_vars
  PROVE  BackTyped'
<1> USE DEF backend
<1>1. BackTyped
  BY TypeParts
<1>2. ASSUME UNCHANGED <<m_basename, backend, wpc, batch, aborted>> PROVE BackTyped'
  BY <1>1, <1>2 DEF BackTyped
<1>3. ASSUME GetInstance, UNCHANGED <<joined, queue, batch, aborted>>,
             m_done' = m_done \/ (m_done' = TRUE /\ m_basename' # Null)
      PROVE  BackTyped'
  <2>1. m_done' \in BOOLEAN
    BY <1>1, <1>3 DEF BackTyped
  <2> QED
    BY <1>1, <1>3, <2>1, InstanceMade DEF BackTyped
<1>4. ASSUME UNCHANGED <<m_basename, joined, queue, wpc, batch>>,
             m_done' = m_done \/ (m_done' = TRUE /\ m_basename # Null), aborted' \in BOOLEAN
      PROVE  BackTyped'
  <2>1. m_done' \in BOOLEAN
    BY <1>1, <1>4 DEF BackTyped
  <2>2. m_done' => m_basename' # Null
    BY <1>1, <1>4 DEF BackTyped
  <2> QED
    BY <1>1, <1>4, <2>1, <2>2 DEF BackTyped
<1>5. aborted \in BOOLEAN
  BY <1>1 DEF BackTyped
<1>6. CASE setFilepath \/ loadFromJSON \/ LoaderExits
  BY <1>2, <1>6 DEF setFilepath, loadFromJSON, LoaderExits
<1>7. ASSUME NEW c \in Objects, NEW n \in Names, RegisterConfig(n, c) PROVE BackTyped'
  BY <1>3, <1>7 DEF RegisterConfig
<1>8. ASSUME NEW c \in Objects, RegisterThrows(c) PROVE BackTyped'
  BY <1>2, <1>8 DEF RegisterThrows
<1>9. ASSUME NEW l \in Logs, NEW n \in Names, NewLog(l, n) PROVE BackTyped'
  BY <1>3, <1>9 DEF NewLog
<1>10. CASE LogCall
  BY <1>3, <1>10 DEF LogCall, log_it_
<1>11. CASE waitForDone
  BY <1>3, <1>11 DEF waitForDone, BeginDone, Stored
<1>12. CASE LogFile
  <2>1. current \in Message /\ UNCHANGED <<m_basename, m_done, joined, wpc, batch>>
    BY <1>12 DEF LogFile, RefInv
  <2>2. queue' \in Seq(Message) /\ aborted' \in BOOLEAN
    <3>1. CASE m_basename = Null
      BY <1>1, <1>12, <3>1 DEF LogFile, BackTyped
    <3>2. CASE m_basename # Null
      BY <1>1, <1>12, <2>1, <3>2, PushTyped DEF LogFile
    <3> QED
      BY <3>1, <3>2
  <2> QED
    BY <1>1, <2>1, <2>2 DEF BackTyped
<1>13. CASE LogConsole \/ Exit \/ DestroyConfigs \/ DestroyGlobal
  BY <1>2, <1>13 DEF LogConsole, Exit, DestroyConfigs, DestroyGlobal
<1>14. CASE CheckFatal
  BY <1>4, <1>5, <1>14 DEF CheckFatal, BeginDone, Stored, Stopped
<1>15. CASE Join
  BY <1>1, <1>15 DEF Join, BackTyped
<1>16. CASE DestroyLogging
  <2>1. aborted' \in BOOLEAN
    BY <1>5, <1>16 DEF DestroyLogging
  <2> QED
    BY <1>4, <1>16, <2>1 DEF DestroyLogging, BeginDone, Stored, Stopped
<1>17. CASE CheckDone
  <2>1. wpc' \in {"gone", "collect"} /\ UNCHANGED <<m_basename, backend, batch, aborted>>
    BY <1>17 DEF CheckDone
  <2> QED
    BY <1>1, <2>1 DEF BackTyped
<1>18. CASE Collect
  <2>1. wpc' = "format" /\ batch' = queue /\ queue' = <<>>
        /\ UNCHANGED <<m_basename, m_done, joined, aborted>>
    BY <1>18 DEF Collect
  <2> QED
    BY <1>1, <2>1 DEF BackTyped
<1>19. CASE Format
  <2>1. wpc' \in {"format", "check"} /\ UNCHANGED <<m_basename, backend, aborted>>
    BY <1>19 DEF Format
  <2>2. batch' \in Seq(Message)
    <3>1. batch \in Seq(Message)
      BY <1>1 DEF BackTyped
    <3> QED
      BY <1>19, <3>1 DEF Format
  <2> QED
    BY <1>1, <2>1, <2>2 DEF BackTyped
<1>20. ASSUME NEW level \in Levels, CallbackLogs(level) PROVE BackTyped'
  <2> DEFINE message == [config |-> Global, level |-> level]
  <2>1. message \in Message
    BY DEF Message, Configs
  <2>2. /\ UNCHANGED <<m_basename, joined, wpc, batch>> /\ wpc = "format"
        /\ \/ PushMsg(message, m_done) /\ m_done' = m_done
           \/ queue' = Append(queue, message) /\ m_done' = TRUE /\ aborted' \in BOOLEAN
    BY <1>20 DEF CallbackLogs
  <2> HIDE DEF message
  <2>3. m_basename # Null
    BY <2>2 DEF PlaceInv
  <2>4. queue' \in Seq(Message) /\ aborted' \in BOOLEAN
    <3>1. CASE PushMsg(message, m_done)
      BY <1>1, <2>1, <3>1, PushTyped
    <3>2. CASE queue' = Append(queue, message) /\ aborted' \in BOOLEAN
      BY <1>1, <2>1, <3>2 DEF BackTyped
    <3> QED
      BY <2>2, <3>1, <3>2
  <2>5. m_done' \in BOOLEAN
    BY <1>1, <2>2 DEF BackTyped
  <2> QED
    BY <1>1, <2>2, <2>3, <2>4, <2>5 DEF BackTyped
<1>21. CASE UNCHANGED vars
  BY <1>2, <1>21 DEF vars
<1> QED
  BY <1>6, <1>7, <1>8, <1>9, <1>10, <1>11, <1>12, <1>13, <1>14, <1>15, <1>16, <1>17, <1>18, <1>19,
     <1>20, <1>21 DEF Next, Finish, Worker

LEMMA TypeStep ==
  ASSUME TypeOK, PlaceInv, RefInv, [Next]_vars
  PROVE  TypeOK'
<1>1. MainTyped' /\ OwnTyped' /\ BackTyped'
  BY MainStep, OwnedStep, BackStep
<1> QED
  BY <1>1 DEF TypeOK, MainTyped, OwnTyped, BackTyped

-----------------------------------------------------------------------------
LEMMA OwnStep ==
  ASSUME TypeOK, PlaceInv, OwnInv, [Next]_vars
  PROVE  OwnInv'
<1> USE DEF program, InProgram
<1>1. /\ \A n \in Names : m_localConfigFactory[n] # Null =>
           m_localConfigFactory[n] \in Configs /\ m_localConfigFactory[n] # Global
      /\ Global \in Configs
  BY ConstantsAssumption DEF TypeOK, Configs
<1>2. ASSUME UNCHANGED <<state, impl, m_localConfigFactory, logs>>, pc = "over" => pc' = "over"
      PROVE  OwnInv'
  BY <1>2 DEF OwnInv
<1>3. ASSUME GetInstance, UNCHANGED <<state, m_localConfigFactory>>, pc = "over" => pc' = "over"
      PROVE  OwnInv'
  BY <1>3, InstanceMade DEF OwnInv
<1>4. CASE setFilepath \/ loadFromJSON \/ LoaderExits
  BY <1>2, <1>4 DEF setFilepath, loadFromJSON, LoaderExits
<1>5. ASSUME NEW c \in Objects, NEW n \in Names, RegisterConfig(n, c) PROVE OwnInv'
  <2>1. GetInstance /\ Register(n, c) /\ pc = "program" /\ pc' = pc /\ state[c] = "new"
    BY <1>5 DEF RegisterConfig
  <2>2. impl' # "none" /\ impl # "gone" /\ c # Global
    BY <2>1, InstanceMade, ConstantsAssumption DEF PlaceInv
  <2>3. ASSUME NEW m \in Names, m_localConfigFactory'[m] # Null
        PROVE  state'[m_localConfigFactory'[m]] = "alive"
    <3>1. CASE m_localConfigFactory'[m] = m_localConfigFactory[m]
      <4> DEFINE x == m_localConfigFactory[m]
      <4>1. x \in Configs /\ state[x] = "alive"
        BY <1>1, <2>2, <2>3, <3>1 DEF OwnInv
      <4>2. x # c
        BY <2>1, <4>1
      <4>3. state'[x] = state[x]
        BY <2>1, <4>1, <4>2, Registering
      <4> QED
        BY <3>1, <4>1, <4>3
    <3>2. CASE m_localConfigFactory'[m] # m_localConfigFactory[m]
      BY <2>1, <3>2, Registering
    <3> QED
      BY <3>1, <3>2
  <2>4. state'[Global] = "alive"
    BY <1>1, <2>1, <2>2, Registering DEF OwnInv
  <2> QED
    BY <2>2, <2>3, <2>4 DEF OwnInv
<1>6. ASSUME NEW c \in Objects, RegisterThrows(c) PROVE OwnInv'
  <2>1. /\ Destroy({c}) /\ impl = "none" /\ UNCHANGED <<impl, m_localConfigFactory, logs, pc>>
        /\ pc = "program" /\ c # Global
    BY <1>6, ConstantsAssumption DEF RegisterThrows
  <2> QED
    BY <1>1, <2>1 DEF OwnInv, Destroy
<1>7. ASSUME NEW l \in Logs, NEW n \in Names, NewLog(l, n) PROVE OwnInv'
  BY <1>3, <1>7 DEF NewLog
<1>8. CASE LogCall \/ waitForDone
  BY <1>3, <1>8 DEF LogCall, log_it_, waitForDone
<1>9. CASE LogFile \/ LogConsole \/ CheckFatal \/ Join \/ Exit
  BY <1>2, <1>9 DEF LogFile, LogConsole, CheckFatal, Join, Exit
<1>10. CASE DestroyLogging
  <2>1. Destroy({}) /\ pc = "exit" /\ UNCHANGED <<impl, m_localConfigFactory, logs>>
    BY <1>10 DEF DestroyLogging, DeclaredLater
  <2> QED
    BY <1>1, <2>1 DEF OwnInv, Destroy
<1>11. CASE DestroyConfigs
  <2>1. Destroy(Registered) /\ impl' = "gone" /\ pc = "configs"
    BY <1>11 DEF DestroyConfigs
  <2>2. Global \notin Registered
    BY <1>1 DEF Registered, Range, TypeOK
  <2> QED
    BY <1>1, <2>1, <2>2 DEF OwnInv, Destroy
<1>12. CASE DestroyGlobal
  <2>1. Destroy({Global}) /\ pc' = "over" /\ UNCHANGED <<impl, m_localConfigFactory, logs>>
    BY <1>12 DEF DestroyGlobal
  <2> QED
    BY <1>1, <2>1 DEF OwnInv, Destroy
<1>13. CASE Worker
  BY <1>2, <1>13 DEF Worker, CheckDone, Collect, Format
<1>14. ASSUME NEW level \in Levels, CallbackLogs(level) PROVE OwnInv'
  BY <1>2, <1>14 DEF CallbackLogs
<1>15. CASE UNCHANGED vars
  BY <1>2, <1>15 DEF vars
<1> QED
  BY <1>4, <1>5, <1>6, <1>7, <1>8, <1>9, <1>10, <1>11, <1>12, <1>13, <1>14, <1>15 DEF Next, Finish

-----------------------------------------------------------------------------
\* What is registered stays registered.
LEMMA UsableGrows ==
  ASSUME TypeOK, m_localConfigFactory' \in [Names -> Objects \cup {Null}],
         \A n \in Names : m_localConfigFactory[n] # Null =>
           m_localConfigFactory'[n] = m_localConfigFactory[n]
  PROVE  Usable \subseteq Usable'
  BY DEF Usable, Registered, Range, TypeOK

\* The configuration of a Log is usable.
LEMMA LogUsable ==
  ASSUME TypeOK, RefInv, NEW l \in Logs, logs[l] # Null, logs[l].m_config # Null
  PROVE  logs[l].m_config \in Usable
<1>1. logs[l].name \in Names /\ m_localConfigFactory[logs[l].name] = logs[l].m_config
  BY DEF TypeOK, RefInv
<1> QED
  BY <1>1 DEF Usable, Registered, Range, TypeOK

\* Another message at the end of the queue.
LEMMA PushUsable ==
  ASSUME TypeOK, RefInv, NEW message, message.config \in Usable,
         queue' = queue \/ queue' = Append(queue, message)
  PROVE  \A i \in DOMAIN queue' : queue'[i].config \in Usable
<1>1. queue \in Seq(Message) /\ \A i \in DOMAIN queue : queue[i].config \in Usable
  BY DEF TypeOK, RefInv
<1>2. CASE queue' = queue
  BY <1>1, <1>2
<1>3. CASE queue' = Append(queue, message)
  <2>1. /\ DOMAIN queue' = 1..(Len(queue) + 1) /\ DOMAIN queue = 1..Len(queue)
        /\ \A i \in DOMAIN queue : queue'[i] = queue[i]
        /\ queue'[Len(queue) + 1] = message /\ Len(queue) \in Nat
    BY <1>1, <1>3
  <2>2. \A i \in DOMAIN queue' : i \in DOMAIN queue \/ i = Len(queue) + 1
    BY <2>1
  <2> QED
    BY <1>1, <2>1, <2>2
<1> QED
  BY <1>2, <1>3

LEMMA RefStep ==
  ASSUME TypeOK, PlaceInv, RefInv, TypeOK', [Next]_vars
  PROVE  RefInv'
<1> USE DEF program, backend, InProgram
<1>1. ASSUME UNCHANGED <<m_localConfigFactory, logs, current, queue, batch>>,
             pc' \in {"file", "console"} => pc \in {"file", "console"}
      PROVE  RefInv'
  BY <1>1 DEF RefInv, Usable, Registered
<1>2. CASE setFilepath \/ loadFromJSON \/ LoaderExits
  BY <1>1, <1>2 DEF setFilepath, loadFromJSON, LoaderExits
<1>3. ASSUME NEW c \in Objects, NEW n \in Names, RegisterConfig(n, c) PROVE RefInv'
  <2>1. Register(n, c) /\ UNCHANGED <<pc, current, logs, queue, batch>>
    BY <1>3 DEF RegisterConfig
  <2>2. /\ m_localConfigFactory' \in [Names -> Objects \cup {Null}]
        /\ \A m \in Names : m_localConfigFactory[m] # Null =>
             m_localConfigFactory'[m] = m_localConfigFactory[m]
    BY <2>1, Registering
  <2>3. Usable \subseteq Usable'
    BY <2>2, UsableGrows
  <2>4. ASSUME NEW l \in Logs, logs[l] # Null, logs[l].m_config # Null
        PROVE  m_localConfigFactory'[logs[l].name] = logs[l].m_config
    BY <2>2, <2>4 DEF RefInv, TypeOK
  <2> QED
    BY <2>1, <2>3, <2>4 DEF RefInv
<1>4. ASSUME NEW c \in Objects, RegisterThrows(c) PROVE RefInv'
  BY <1>1, <1>4 DEF RegisterThrows
<1>5. ASSUME NEW l \in Logs, NEW n \in Names, NewLog(l, n) PROVE RefInv'
  <2>1. /\ logs' = [logs EXCEPT ![l] = [name |-> n, m_config |-> m_localConfigFactory[n]]]
        /\ UNCHANGED <<pc, current, m_localConfigFactory, queue, batch>>
    BY <1>5 DEF NewLog
  <2>2. ASSUME NEW k \in Logs, logs'[k] # Null, logs'[k].m_config # Null
        PROVE  m_localConfigFactory[logs'[k].name] = logs'[k].m_config
    <3>1. CASE k = l
      <4>1. logs'[k] = [name |-> n, m_config |-> m_localConfigFactory[n]]
        BY <2>1, <3>1 DEF TypeOK
      <4> QED
        BY <4>1
    <3>2. CASE k # l
      <4>1. logs'[k] = logs[k]
        BY <2>1, <3>2 DEF TypeOK
      <4> QED
        BY <2>2, <4>1 DEF RefInv
    <3> QED
      BY <3>1, <3>2
  <2> QED
    BY <2>1, <2>2 DEF RefInv, Usable, Registered
<1>6. CASE LogCall
  <2>1. PICK m_config \in {Null} \cup {logs[l].m_config : l \in {k \in Logs : logs[k] # Null}},
             level \in Levels : log_it_(m_config, level)
    BY <1>6 DEF LogCall
  <2>2. /\ UNCHANGED <<logs, m_localConfigFactory, queue, batch>>
        /\ \/ UNCHANGED <<pc, current>>
           \/ pc' = "file" /\ current' = [config |-> ConfigOf(m_config), level |-> level]
    BY <2>1 DEF log_it_
  <2>3. ConfigOf(m_config) \in Usable
    <3>1. CASE m_config = Null
      BY <3>1 DEF ConfigOf, Usable
    <3>2. CASE m_config # Null
      <4>1. PICK l \in Logs : logs[l] # Null /\ m_config = logs[l].m_config
        BY <2>1, <3>2
      <4> QED
        BY <3>2, <4>1, LogUsable DEF ConfigOf
    <3> QED
      BY <3>1, <3>2
  <2>4. m_config \in Objects \cup {Null}
    BY <2>1 DEF TypeOK
  <2>5. CASE UNCHANGED <<pc, current>>
    BY <2>2, <2>5 DEF RefInv, Usable, Registered
  <2>6. CASE pc' = "file" /\ current' = [config |-> ConfigOf(m_config), level |-> level]
    <3>1. current' \in Message /\ current'.config \in Usable
      BY <2>3, <2>4, <2>6 DEF ConfigOf, Message, Configs
    <3> QED
      BY <2>2, <2>6, <3>1 DEF RefInv, Usable, Registered
  <2> QED
    BY <2>2, <2>5, <2>6
<1>7. CASE LogFile
  <2>1. /\ pc = "file" /\ pc' = "console" /\ UNCHANGED <<current, logs, m_localConfigFactory, batch>>
        /\ queue' = queue \/ queue' = Append(queue, current)
    BY <1>7 DEF LogFile, PushMsg
  <2>2. current \in Message /\ current.config \in Usable
    BY <2>1 DEF RefInv
  <2>3. \A i \in DOMAIN queue' : queue'[i].config \in Usable
    BY <2>1, <2>2, PushUsable
  <2> QED
    BY <2>1, <2>2, <2>3 DEF RefInv, Usable, Registered
<1>8. CASE LogConsole \/ Join \/ Exit \/ DestroyConfigs \/ DestroyGlobal
  BY <1>1, <1>8 DEF LogConsole, Join, Exit, DestroyConfigs, DestroyGlobal
<1>9. CASE CheckFatal
  BY <1>9 DEF CheckFatal, BeginDone, RefInv, Usable, Registered
<1>10. CASE waitForDone \/ DestroyLogging
  BY <1>1, <1>10 DEF waitForDone, DestroyLogging, BeginDone
<1>11. CASE CheckDone
  BY <1>1, <1>11 DEF CheckDone
<1>12. CASE Collect
  <2>1. batch' = queue /\ queue' = <<>> /\ UNCHANGED <<pc, current, logs, m_localConfigFactory>>
    BY <1>12 DEF Collect
  <2> QED
    BY <2>1 DEF RefInv, Usable, Registered
<1>13. CASE Format
  <2>1. UNCHANGED <<pc, current, logs, m_localConfigFactory, queue>>
    BY <1>13 DEF Format
  <2>2. \A i \in DOMAIN batch' : batch'[i].config \in Usable
    <3>1. batch \in Seq(Message) /\ \A i \in DOMAIN batch : batch[i].config \in Usable
      BY DEF TypeOK, RefInv
    <3>2. CASE batch = <<>>
      BY <1>13, <3>1, <3>2 DEF Format
    <3>3. CASE batch # <<>>
      <4>1. batch' = Tail(batch)
        BY <1>13, <3>3 DEF Format
      <4>2. \A i \in DOMAIN Tail(batch) : i + 1 \in DOMAIN batch /\ Tail(batch)[i] = batch[i + 1]
        BY <3>1, <3>3
      <4> QED
        BY <3>1, <4>1, <4>2
    <3> QED
      BY <3>2, <3>3
  <2> QED
    BY <2>1, <2>2 DEF RefInv, Usable, Registered
<1>14. ASSUME NEW level \in Levels, CallbackLogs(level) PROVE RefInv'
  <2> DEFINE message == [config |-> Global, level |-> level]
  <2>1. /\ queue' = queue \/ queue' = Append(queue, message)
        /\ UNCHANGED <<pc, current, logs, m_localConfigFactory, batch>>
    BY <1>14 DEF CallbackLogs, PushMsg
  <2>2. message.config \in Usable
    BY DEF Usable
  <2> HIDE DEF message
  <2>3. \A i \in DOMAIN queue' : queue'[i].config \in Usable
    BY <2>1, <2>2, PushUsable
  <2> QED
    BY <2>1, <2>3 DEF RefInv, Usable, Registered
<1>15. CASE UNCHANGED vars
  BY <1>1, <1>15 DEF vars
<1> QED
  BY <1>2, <1>3, <1>4, <1>5, <1>6, <1>7, <1>8, <1>9, <1>10, <1>11, <1>12, <1>13, <1>14, <1>15
     DEF Next, Finish, Worker

LEMMA LifeStep == LifeInv /\ [Next]_vars => LifeInv'
  BY TypeStep, PlaceStep, OwnStep, RefStep DEF LifeInv

-----------------------------------------------------------------------------
\* Every variable keeps its type, and only a back end that exists is stopped.
THEOREM TypesKept == Spec => []TypeOK
<1>1. LifeInv => TypeOK
  BY DEF LifeInv
<1> QED
  BY <1>1, LifeInit, LifeStep, PTL DEF Spec

\* No pointer to a configuration outlives it: neither the worker, nor the log
\* call in progress, nor a Log of the program ever follows one to a destroyed
\* configuration, whatever is registered when, and however the program ends.
THEOREM PointersValid == Spec => []ConfigAlive
<1>1. LifeInv => ConfigAlive
  <2> SUFFICES ASSUME LifeInv, ~aborted, NEW c \in UsedByWorker \cup UsedByCall \cup UsedByLogs
               PROVE  state[c] = "alive"
    BY DEF ConfigAlive
  <2>1. ASSUME impl # "gone", pc # "over", c \in Usable PROVE state[c] = "alive"
    BY <2>1 DEF LifeInv, OwnInv, Usable, Registered, Range, TypeOK
  <2>2. CASE c \in UsedByWorker
    <3>1. Working
      BY <2>2 DEF UsedByWorker, Working
    <3>2. c \in Usable
      BY <2>2 DEF UsedByWorker, Range, Usable, LifeInv, RefInv
    <3>3. impl # "gone" /\ pc # "over"
      BY <3>1 DEF LifeInv, PlaceInv
    <3> QED
      BY <2>1, <3>2, <3>3
  <2>3. CASE c \in UsedByCall
    <3>1. pc \in {"file", "console"} /\ c = current.config
      BY <2>3 DEF UsedByCall
    <3> QED
      BY <2>1, <3>1 DEF LifeInv, RefInv, PlaceInv
  <2>4. CASE c \in UsedByLogs
    <3>1. impl # "gone"
      BY <2>4 DEF UsedByLogs
    <3>2. PICK l \in Logs : logs[l] # Null /\ c = logs[l].m_config /\ c # Null
      BY <2>4, <3>1 DEF UsedByLogs
    <3>3. /\ logs[l].name \in Names /\ m_localConfigFactory[logs[l].name] = c
      BY <3>2 DEF LifeInv, RefInv, TypeOK
    <3> QED
      BY <3>1, <3>2, <3>3 DEF LifeInv, OwnInv
  <2> QED
    BY <2>2, <2>3, <2>4
<1> QED
  BY <1>1, LifeInit, LifeStep, PTL DEF Spec

\* A Log of a registered name has the configuration registered first under it.
THEOREM NamesKept == Spec => []ByName
<1>1. LifeInv => ByName
  BY DEF LifeInv, RefInv, ByName
<1> QED
  BY <1>1, LifeInit, LifeStep, PTL DEF Spec
===============================================================================
