---------------------------- MODULE Telemetry_proofs ----------------------------
(***************************************************************************)
(* Proofs about Telemetry: configure_logging and configure_tracing for any *)
(* number of calls, with any arguments, under any changes of the           *)
(* environment, and llm_call for any number of threads and any nesting of  *)
(* blocks.                                                                 *)
(***************************************************************************)
EXTENDS Telemetry, SequenceTheorems, WellFoundedInduction, TLAPS

\* Whoever takes a step, the two set-ups see one of their own, or none.
LEMMA SetupSteps == Spec => /\ LogInit /\ [][LogNext]_logVars
                            /\ TraceInit /\ [][TraceNext]_traceVars
<1>1. Init => LogInit /\ TraceInit
  BY DEF Init
<1>2. [Next]_vars => [LogNext]_logVars /\ [TraceNext]_traceVars
  <2>1. ASSUME NEW t \in Threads, ThreadStep(t) PROVE UNCHANGED <<logVars, traceVars>>
    BY <2>1 DEF ThreadStep, OpenSpan, EnterCall, Enter, SetStatus, Raise, Catch, CloseSpan,
                LeaveCall, setups
  <2>2. CASE UNCHANGED vars
    BY <2>2 DEF vars, setups
  <2>. QED BY <2>1, <2>2 DEF Next
<1>. QED BY <1>1, <1>2, PTL DEF Spec

-----------------------------------------------------------------------------
(* configure_logging                                                       *)

\* The environment changes a number of times.
LEMMA EnvChangesBound == MaxEnvChanges \in Nat
BY LogAssumption

\* Initially no call has begun.
LEMMA LogInitTypes == LogInit => LogTypes
<1>. SUFFICES ASSUME LogInit PROVE LogTypes
  OBVIOUS
<1>1. handlers \subseteq LogCalls \cup {OtherHandler} /\ env \in Envs
  BY DEF LogInit
<1>3. envChanges \in 0..MaxEnvChanges
  BY EnvChangesBound DEF LogInit
<1>2. /\ wants \in [LogCalls -> Arguments]
      /\ logBefore \in [LogCalls -> SUBSET LogCalls] /\ envs \in [LogCalls -> SUBSET Envs]
  BY DEF LogInit
<1>. QED BY <1>1, <1>2, <1>3 DEF LogInit, LogTypes

\* Each statement leaves the root logger with a level that logging knows.
LEMMA LogTypesStep == LogTypes /\ [LogNext]_logVars => LogTypes'
<1>. SUFFICES ASSUME LogTypes, [LogNext]_logVars PROVE LogTypes'
  OBVIOUS
<1>. USE DEF LogTypes, LogGoto
<1>1. ASSUME NEW c \in LogCalls, BeginLogging(c) PROVE LogTypes'
  BY <1>1 DEF BeginLogging
<1>2. ASSUME NEW c \in LogCalls, TestLogFlag(c) PROVE LogTypes'
  BY <1>2 DEF TestLogFlag
<1>3. ASSUME NEW c \in LogCalls, TestHandlers(c) PROVE LogTypes'
  BY <1>3 DEF TestHandlers
<1>4. ASSUME NEW c \in LogCalls, MakeHandler(c) PROVE LogTypes'
  BY <1>4 DEF MakeHandler, FormatIn
<1>5. ASSUME NEW c \in LogCalls, AddHandler(c) PROVE LogTypes'
  BY <1>5 DEF AddHandler
<1>6. ASSUME NEW c \in LogCalls, SetLevel(c) PROVE LogTypes'
  BY <1>6, LogAssumption DEF SetLevel, LevelOf
<1>7. ASSUME NEW c \in LogCalls, MarkLogging(c) PROVE LogTypes'
  BY <1>7 DEF MarkLogging
<1>8. CASE OthersInstall
  BY <1>8 DEF OthersInstall
<1>9. CASE EnvChanges
  <2>1. env' \in Envs /\ envs' \in [LogCalls -> SUBSET Envs]
    BY <1>9 DEF EnvChanges
  <2>2. envChanges' \in 0..MaxEnvChanges
    BY <1>9, EnvChangesBound DEF EnvChanges
  <2>. QED BY <1>9, <2>1, <2>2 DEF EnvChanges
<1>10. CASE UNCHANGED logVars
  BY <1>10 DEF logVars
<1>. QED
  BY <1>1, <1>2, <1>3, <1>4, <1>5, <1>6, <1>7, <1>8, <1>9, <1>10 DEF LogNext

\* The level of the root logger is one that logging knows, and each call is at a
\* statement of configure_logging, whatever it was called with.
THEOREM LogTypesHold == Spec => []LogTypes
BY LogInitTypes, LogTypesStep, SetupSteps, PTL

\* Once anybody has got out of configure_logging there is a handler, and there always
\* will be one.  That is what stops the calls that come after, and it has to be known
\* of every moment at which a call may look: while another is between its addHandler
\* and its end, and when the flag is set.
Handled ==
  /\ logConfigured => handlers # {}
  /\ \A c \in LogCalls :
       /\ logAt[c] \in {"level", "mark", "returned", "raised"} => handlers # {}
       /\ logBefore[c] # {} => handlers # {}

\* A call that got past the tests began before any other had ended, and is in the
\* statements after addHandler when its handler is there.
FirstAreAlone ==
  \A c \in LogCalls :
    /\ logAt[c] \in {"format", "add"} \/ c \in handlers => logBefore[c] = {}
    /\ c \in handlers => logAt[c] \in {"level", "mark", "returned", "raised"}

\* The environment that a call reads, or has read, has been there since it began.
FormatsAreTimely ==
  \A c \in LogCalls :
    /\ Active(c) => env \in envs[c]
    /\ logAt[c] = "add" \/ c \in handlers => format[c] \in {FormatIn(e) : e \in envs[c]}

\* The level is the default or what a call with a handler asked for, and no longer the
\* default when such a call has set it.
LevelsAreAskedFor ==
  /\ level = "default" \/ level \in {LevelOf(wants[c]) : c \in handlers \cap LogCalls}
  /\ \A c \in LogCalls : /\ logAt[c] \in {"level", "mark"} => c \in handlers
                         /\ c \in handlers /\ logAt[c] \in {"mark", "returned"} =>
                              level # "default"

LogInv == LogTypes /\ Handled /\ FirstAreAlone /\ FormatsAreTimely /\ LevelsAreAskedFor

\* Initially the root logger has the handlers of others, if any.
LEMMA LogInitInv == LogInit => LogInv
BY LogInitTypes, LogAssumption
   DEF LogInit, LogInv, Handled, FirstAreAlone, FormatsAreTimely, LevelsAreAskedFor,
       Active, Ended

\* Every statement of every call, a foreign handler and a new environment preserve it.
LEMMA LogInvStep == LogInv /\ [LogNext]_logVars => LogInv'
<1>. SUFFICES ASSUME LogInv, [LogNext]_logVars PROVE LogInv'
  OBVIOUS
<1>0. LogTypes'
  BY LogTypesStep DEF LogInv
<1>. USE DEF LogInv, LogTypes, LogGoto, Handled, FirstAreAlone, FormatsAreTimely,
             LevelsAreAskedFor, Active, Ended
<1>1. ASSUME NEW c \in LogCalls, BeginLogging(c) PROVE LogInv'
  <2>1. c \notin handlers
    BY <1>1 DEF BeginLogging
  <2>2. Handled' /\ FirstAreAlone'
    BY <1>1, <2>1 DEF BeginLogging
  <2>3. FormatsAreTimely' /\ LevelsAreAskedFor'
    BY <1>1, <2>1 DEF BeginLogging, LevelOf
  <2>. QED BY <1>0, <2>2, <2>3
<1>2. ASSUME NEW c \in LogCalls, TestLogFlag(c) PROVE LogInv'
  <2>1. c \notin handlers
    BY <1>2 DEF TestLogFlag
  <2>. QED BY <1>0, <1>2, <2>1 DEF TestLogFlag, LevelOf
<1>3. ASSUME NEW c \in LogCalls, TestHandlers(c) PROVE LogInv'
  <2>1. c \notin handlers
    BY <1>3 DEF TestHandlers
  <2>. QED BY <1>0, <1>3, <2>1 DEF TestHandlers, LevelOf
<1>4. ASSUME NEW c \in LogCalls, MakeHandler(c) PROVE LogInv'
  <2>1. Handled' /\ FirstAreAlone' /\ FormatsAreTimely'
    BY <1>4 DEF MakeHandler
  <2>2. LevelsAreAskedFor'
    BY <1>4 DEF MakeHandler, LevelOf
  <2>. QED BY <1>0, <2>1, <2>2
<1>5. ASSUME NEW c \in LogCalls, AddHandler(c) PROVE LogInv'
  <2>1. Handled' /\ FirstAreAlone' /\ FormatsAreTimely'
    BY <1>5 DEF AddHandler
  <2>2. LevelsAreAskedFor'
    BY <1>5 DEF AddHandler, LevelOf
  <2>. QED BY <1>0, <2>1, <2>2
<1>6. ASSUME NEW c \in LogCalls, SetLevel(c) PROVE LogInv'
  <2>1. Handled' /\ FirstAreAlone' /\ FormatsAreTimely'
    BY <1>6 DEF SetLevel
  <2>2. c \in handlers
    BY <1>6 DEF SetLevel
  <2>3. LevelsAreAskedFor'
    <3>1. CASE wants[c] = "no text"
      <4>1. UNCHANGED <<handlers, level, wants>> /\ logAt' = [logAt EXCEPT ![c] = "raised"]
        BY <1>6, <3>1 DEF SetLevel
      <4>2. \A d \in LogCalls : LevelOf(wants[d])' = LevelOf(wants[d])
        BY <4>1 DEF LevelOf
      <4>. QED BY <4>1, <4>2
    <3>2. CASE wants[c] # "no text"
      <4>1. level' = LevelOf(wants[c]) /\ level' # "default"
        BY <1>6, <3>2, LogAssumption DEF SetLevel, LevelOf
      <4>2. UNCHANGED <<handlers, wants>> /\ logAt' = [logAt EXCEPT ![c] = "mark"]
        BY <1>6, <3>2 DEF SetLevel
      <4>3. LevelOf(wants[c])' = LevelOf(wants[c])
        BY <4>1, <4>2, <3>2, LogAssumption DEF LevelOf
      <4>. QED BY <2>2, <4>1, <4>2, <4>3
    <3>. QED BY <3>1, <3>2
  <2>. QED BY <1>0, <2>1, <2>3
<1>7. ASSUME NEW c \in LogCalls, MarkLogging(c) PROVE LogInv'
  <2>1. Handled' /\ FirstAreAlone' /\ FormatsAreTimely'
    BY <1>7 DEF MarkLogging
  <2>2. LevelsAreAskedFor'
    BY <1>7 DEF MarkLogging, LevelOf
  <2>. QED BY <1>0, <2>1, <2>2
<1>8. CASE OthersInstall
  <2>1. Handled' /\ FirstAreAlone' /\ FormatsAreTimely'
    BY <1>8, LogAssumption DEF OthersInstall
  <2>2. LevelsAreAskedFor'
    BY <1>8, LogAssumption DEF OthersInstall, LevelOf
  <2>. QED BY <1>0, <2>1, <2>2
<1>9. CASE EnvChanges
  <2>1. Handled' /\ FirstAreAlone'
    BY <1>9 DEF EnvChanges
  <2>2. FormatsAreTimely'
    BY <1>9 DEF EnvChanges
  <2>3. LevelsAreAskedFor'
    BY <1>9 DEF EnvChanges, LevelOf
  <2>. QED BY <1>0, <2>1, <2>2, <2>3
<1>10. CASE UNCHANGED logVars
  BY <1>0, <1>10 DEF logVars, LevelOf
<1>. QED
  BY <1>1, <1>2, <1>3, <1>4, <1>5, <1>6, <1>7, <1>8, <1>9, <1>10 DEF LogNext

\* LogInv always holds.
LEMMA LogInvariant == Spec => []LogInv
BY LogInitInv, LogInvStep, SetupSteps, PTL

\* However calls on any threads overlap, one that began when another had ended
\* installs no handler.
THEOREM LaterCallsAreQuiet == Spec => []LaterCallsInstallNothing
<1>1. LogInv => LaterCallsInstallNothing
  BY DEF LogInv, LogTypes, FirstAreAlone, LaterCallsInstallNothing
<1>. QED BY <1>1, LogInvariant, PTL

\* configure_logging never returns, or raises, without a handler on the root logger.
THEOREM NobodyEndsUnhandled == Spec => []EndedMeansHandled
<1>1. LogInv => EndedMeansHandled
  BY DEF LogInv, Handled, EndedMeansHandled, Ended
<1>. QED BY <1>1, LogInvariant, PTL

\* A handler's formatter is that of an environment there has been since the call began.
THEOREM FormatsAreReadAtCallTime == Spec => []FormatFollowsEnvironment
<1>1. LogInv => FormatFollowsEnvironment
  BY DEF LogInv, LogTypes, FormatsAreTimely, FormatFollowsEnvironment
<1>. QED BY <1>1, LogInvariant, PTL

\* When all calls that began have returned and no handler is foreign, the level is one
\* that a call with a handler asked for.
THEOREM LevelsAreNotLost == Spec => []LevelWasAskedFor
<1>1. LogInv => LevelWasAskedFor
  <2>. SUFFICES ASSUME LogInv, OtherHandler \notin handlers,
                       \A c \in LogCalls : logAt[c] \in {"idle", "returned"},
                       NEW d \in LogCalls, logAt[d] = "returned"
                PROVE  level \in {IF wants[c] = "unknown" THEN "INFO" ELSE wants[c] : c \in handlers}
    BY DEF LevelWasAskedFor
  <2>. USE DEF LogInv
  <2>1. PICK c \in handlers : c \in LogCalls
    BY DEF Handled, LogTypes
  <2>2. level # "default"
    BY <2>1 DEF FirstAreAlone, LevelsAreAskedFor
  <2>. QED BY <2>2 DEF LevelsAreAskedFor, LevelOf
<1>. QED BY <1>1, LogInvariant, PTL

-----------------------------------------------------------------------------
(* configure_tracing                                                       *)

\* Each step leaves a call at a step of configure_tracing, with an exporter once it
\* has passed the choice of one.
LEMMA TraceTypesStep == TraceTypes /\ [TraceNext]_traceVars => TraceTypes'
<1>. SUFFICES ASSUME TraceTypes, [TraceNext]_traceVars PROVE TraceTypes'
  OBVIOUS
<1>. USE DEF TraceTypes, Goto, world
<1>1. ASSUME NEW c \in Setups, Begin(c) PROVE TraceTypes'
  BY <1>1 DEF Begin
<1>2. ASSUME NEW c \in Setups, TestFlag(c) PROVE TraceTypes'
  BY <1>2 DEF TestFlag
<1>3. ASSUME NEW c \in Setups, ImportSdk(c) PROVE TraceTypes'
  BY <1>3 DEF ImportSdk
<1>4. ASSUME NEW c \in Setups, BuildProvider(c) PROVE TraceTypes'
  BY <1>4 DEF BuildProvider
<1>5. ASSUME NEW c \in Setups, ChooseExporter(c) PROVE TraceTypes'
  BY <1>5 DEF ChooseExporter, ExporterOf
<1>6. ASSUME NEW c \in Setups, AddProcessor(c) PROVE TraceTypes'
  BY <1>6 DEF AddProcessor
<1>7. ASSUME NEW c \in Setups, SetProvider(c) PROVE TraceTypes'
  BY <1>7 DEF SetProvider
<1>8. ASSUME NEW c \in Setups, Mark(c) PROVE TraceTypes'
  BY <1>8 DEF Mark
<1>9. CASE EnvironmentChanges
  <2>1. changes' \in 0..MaxChanges
    BY <1>9, ChangesAssumption DEF EnvironmentChanges
  <2>2. sdk' \in Imports /\ grpc' \in Imports
    BY <1>9 DEF EnvironmentChanges, Imports
  <2>. QED BY <1>9, <2>1, <2>2 DEF EnvironmentChanges
<1>10. CASE OthersSetProvider
  BY <1>10 DEF OthersSetProvider
<1>11. CASE UNCHANGED traceVars
  BY <1>11 DEF traceVars
<1>. QED
  BY <1>1, <1>2, <1>3, <1>4, <1>5, <1>6, <1>7, <1>8, <1>9, <1>10, <1>11
     DEF TraceNext, TraceStep

\* What OpenTelemetry holds is somebody else's provider or one that exports; the flag is
\* set, and a call is about to set it, only when OpenTelemetry holds one.
ProvidersExport ==
  /\ \A c \in processing : exporter[c] # "none"
  /\ \A c \in Setups : /\ pc[c] \in {"set", "mark"} => c \in processing
                       /\ pc[c] = "mark" => provider # None
  /\ provider \in Setups => provider \in processing
  /\ configured => provider # None

\* A call that got past the flag began before any other had configured tracing.
BuildersAreEarly ==
  \A c \in Setups :
    /\ pc[c] = "configured" => configured
    /\ before[c] # {} => configured
    /\ c \in processing => pc[c] \notin {"idle", "flag"}
    /\ pc[c] \in {"import", "build", "exporter", "processor", "set", "mark"} \/ c \in processing =>
         before[c] = {}

TraceInv == TraceTypes /\ ProvidersExport /\ BuildersAreEarly

\* Initially nothing is processed.
LEMMA TraceInitInv == TraceInit => TraceInv
<1>1. TraceInit => changes \in 0..MaxChanges
  BY ChangesAssumption DEF TraceInit
<1>. QED
  BY <1>1, TraceAssumption
     DEF TraceInit, TraceInv, TraceTypes, ProvidersExport, BuildersAreEarly

\* Every step of configure_tracing, of the environment and of other libraries
\* preserves it.
LEMMA TraceInvStep == TraceInv /\ [TraceNext]_traceVars => TraceInv'
<1>. SUFFICES ASSUME TraceInv, [TraceNext]_traceVars PROVE TraceInv'
  OBVIOUS
<1>0. TraceTypes'
  BY TraceTypesStep DEF TraceInv
<1>. USE TraceAssumption DEF TraceInv, TraceTypes, Goto, ProvidersExport, BuildersAreEarly
<1>1. ASSUME NEW c \in Setups, Begin(c) PROVE TraceInv'
  BY <1>0, <1>1 DEF Begin
<1>2. ASSUME NEW c \in Setups, TestFlag(c) PROVE TraceInv'
  BY <1>0, <1>2 DEF TestFlag
<1>3. ASSUME NEW c \in Setups, ImportSdk(c) PROVE TraceInv'
  BY <1>0, <1>3 DEF ImportSdk
<1>4. ASSUME NEW c \in Setups, BuildProvider(c) PROVE TraceInv'
  BY <1>0, <1>4 DEF BuildProvider
<1>5. ASSUME NEW c \in Setups, ChooseExporter(c) PROVE TraceInv'
  BY <1>0, <1>5 DEF ChooseExporter, ExporterOf
<1>6. ASSUME NEW c \in Setups, AddProcessor(c) PROVE TraceInv'
  BY <1>0, <1>6 DEF AddProcessor
<1>7. ASSUME NEW c \in Setups, SetProvider(c) PROVE TraceInv'
  BY <1>0, <1>7 DEF SetProvider
<1>8. ASSUME NEW c \in Setups, Mark(c) PROVE TraceInv'
  BY <1>0, <1>8 DEF Mark
<1>9. CASE EnvironmentChanges
  BY <1>0, <1>9 DEF EnvironmentChanges
<1>10. CASE OthersSetProvider
  BY <1>0, <1>10 DEF OthersSetProvider
<1>11. CASE UNCHANGED traceVars
  BY <1>0, <1>11 DEF traceVars
<1>. QED
  BY <1>1, <1>2, <1>3, <1>4, <1>5, <1>6, <1>7, <1>8, <1>9, <1>10, <1>11
     DEF TraceNext, TraceStep

\* TraceInv always holds.
LEMMA TraceInvariant == Spec => []TraceInv
BY TraceInitInv, TraceInvStep, SetupSteps, PTL

\* Whatever can be imported, or built, and when, a call that goes on to add a processor
\* has an exporter for it.
THEOREM TraceTypesHold == Spec => []TraceTypes
BY TraceInvariant, PTL DEF TraceInv

\* Tracing is never marked as configured without a provider that exports, or that of
\* somebody else.
THEOREM TracesAreVisible == Spec => []ConfiguredMeansVisible
<1>1. TraceInv => ConfiguredMeansVisible
  BY DEF TraceInv, TraceTypes, ProvidersExport, ConfiguredMeansVisible
<1>. QED BY <1>1, TraceInvariant, PTL

\* However calls on any threads overlap, one that began when another had configured
\* tracing builds no provider.
THEOREM LaterSetupsAreQuiet == Spec => []LaterCallsBuildNothing
<1>1. TraceInv => LaterCallsBuildNothing
  BY DEF TraceInv, TraceTypes, BuildersAreEarly, LaterCallsBuildNothing
<1>. QED BY <1>1, TraceInvariant, PTL

-----------------------------------------------------------------------------

\* Configuring again builds nothing, of logging nor of tracing.
THEOREM ConfiguringAgainIsIdle == Spec => []LaterCallsDoNothing
BY LaterCallsAreQuiet, LaterSetupsAreQuiet, PTL DEF LaterCallsDoNothing

\* Who has configured logging finds a handler, and a set flag of tracing a provider.
THEOREM NobodyIsUnheard == Spec => []ConfiguredMeansHeard
BY NobodyEndsUnhandled, TracesAreVisible, PTL DEF ConfiguredMeansHeard

\* Lines come in the level and in a format that was asked for.
THEOREM LoggingIsObeyed == Spec => []LoggingIsAsAsked
BY LevelsAreNotLost, FormatsAreReadAtCallTime, PTL DEF LoggingIsAsAsked

-----------------------------------------------------------------------------
(* The blocks of the threads                                               *)

\* A stack is a sequence of what is on it.
Stack(s) == s \in Seq(ToSet(s))

\* Sequences over any set are stacks.
LEMMA SequencesAreStacks == ASSUME NEW S, NEW s \in Seq(S) PROVE Stack(s)
<1>1. Len(s) \in Nat /\ s \in [1..Len(s) -> S]
  BY LenProperties
<1>2. s \in [1..Len(s) -> ToSet(s)]
  BY <1>1 DEF ToSet
<1>3. s \in UNION {[1..n -> ToSet(s)] : n \in Nat}
  BY <1>1, <1>2
<1> QED
  BY <1>3, SeqDef, Zenon DEF Stack

\* Where things are on a stack after one more is put on it.
LEMMA AfterAppend ==
  ASSUME NEW s, Stack(s), NEW b
  PROVE  /\ Len(s) \in Nat /\ DOMAIN s = 1..Len(s)
         /\ Append(s, b) \in Seq(ToSet(s) \cup {b}) /\ DOMAIN Append(s, b) = 1..(Len(s) + 1)
         /\ \A i \in 1..Len(s) : Append(s, b)[i] = s[i]
         /\ Append(s, b)[Len(s) + 1] = b
<1> DEFINE S == ToSet(s) \cup {b}
<1>1. s \in Seq(S) /\ b \in S
  BY SeqMonotonic DEF Stack
<1> HIDE DEF S
<1>2. /\ Append(s, b) \in Seq(S) /\ Len(Append(s, b)) = Len(s) + 1
      /\ \A i \in 1..Len(s) : Append(s, b)[i] = s[i]
      /\ Append(s, b)[Len(s) + 1] = b
  BY <1>1, AppendProperties
<1>3. Len(s) \in Nat /\ DOMAIN s = 1..Len(s) /\ DOMAIN Append(s, b) = 1..Len(Append(s, b))
  BY <1>1, <1>2, LenProperties
<1> QED
  BY <1>2, <1>3 DEF S

\* Entering a block puts it on the stack.
LEMMA Pushed ==
  ASSUME NEW s, Stack(s), NEW b
  PROVE  Stack(Append(s, b)) /\ ToSet(Append(s, b)) = ToSet(s) \cup {b}
<1> DEFINE r == Append(s, b)
           n == Len(s)
<1>0. /\ n \in Nat /\ DOMAIN s = 1..n /\ DOMAIN r = 1..n + 1
      /\ \A i \in 1..n : r[i] = s[i]
      /\ r[n + 1] = b
  BY AfterAppend
<1>1. ToSet(r) = ToSet(s) \cup {b}
  <2> HIDE DEF r, n
  <2> QED BY <1>0 DEF ToSet
<1>2. Stack(Append(s, b))
  BY AfterAppend, SequencesAreStacks, Zenon
<1> QED
  BY <1>1, <1>2

\* Where things are on a stack after the last is taken off.
LEMMA AfterFront ==
  ASSUME NEW s, Stack(s), s # <<>>
  PROVE  /\ Len(s) \in Nat \ {0} /\ DOMAIN s = 1..Len(s)
         /\ Front(s) \in Seq(ToSet(s)) /\ DOMAIN Front(s) = 1..Len(s) - 1
         /\ \A i \in 1..Len(s) - 1 : Front(s)[i] = s[i]
<1> DEFINE n == Len(s)
<1>1. s \in Seq(ToSet(s)) /\ n \in Nat /\ DOMAIN s = 1..n
  BY LenProperties DEF Stack
<1>2. n # 0
  BY <1>1, EmptySeq
<1>3. \A i \in 1..n - 1 : s[i] \in ToSet(s)
  BY <1>1 DEF ToSet
<1>4. /\ Front(s) \in Seq(ToSet(s))
      /\ Len(Front(s)) = n - 1
      /\ \A i \in 1..n - 1 : Front(s)[i] = s[i]
  <2>1. /\ SubSeq(s, 1, n - 1) \in Seq(ToSet(s))
        /\ Len(SubSeq(s, 1, n - 1)) = IF 1 <= n - 1 THEN n - 1 - 1 + 1 ELSE 0
        /\ \A i \in 1..n - 1 - 1 + 1 : SubSeq(s, 1, n - 1)[i] = s[1 + i - 1]
    BY <1>1, <1>3, SubSeqProperties
  <2> QED
    BY <1>1, <1>2, <2>1 DEF Front
<1>5. DOMAIN Front(s) = 1..n - 1
  BY <1>4, LenProperties
<1> QED
  BY <1>1, <1>2, <1>4, <1>5

\* Leaving the innermost one takes it off.
LEMMA Popped ==
  ASSUME NEW s, Stack(s), s # <<>>
  PROVE  Stack(Front(s)) /\ ToSet(s) = ToSet(Front(s)) \cup {Last(s)}
<1> DEFINE r == Front(s)
           n == Len(s)
<1>0. /\ n \in Nat \ {0} /\ DOMAIN s = 1..n /\ DOMAIN r = 1..n - 1
      /\ \A i \in 1..n - 1 : r[i] = s[i]
      /\ Last(s) = s[n]
  BY AfterFront DEF Last
<1>1. ToSet(s) = ToSet(r) \cup {Last(s)}
  <2> HIDE DEF r, n
  <2> QED BY <1>0 DEF ToSet
<1>2. Stack(Front(s))
  BY AfterFront, SequencesAreStacks, Zenon
<1> QED
  BY <1>1, <1>2

\* What a body writes into a context dict exchanges it in its place of the stack.
LEMMA Marked ==
  ASSUME NEW s, Stack(s), NEW n \in DOMAIN s, NEW b
  PROVE  LET r == [s EXCEPT ![n] = b]
         IN  /\ Stack(r)
             /\ ToSet(r) \subseteq ToSet(s) \cup {b} /\ b \in ToSet(r)
             /\ ToSet(s) \subseteq ToSet(r) \cup {s[n]}
<1> DEFINE r == [s EXCEPT ![n] = b]
           S == ToSet(s) \cup {b}
<1>1. s \in Seq(S) /\ b \in S /\ Len(s) \in Nat /\ DOMAIN s = 1..Len(s)
  BY SeqMonotonic, LenProperties DEF Stack
<1> HIDE DEF S
<1>3. r \in Seq(S)
  BY <1>1, ExceptSeq
<1>4. DOMAIN r = DOMAIN s /\ r[n] = b /\ \A i \in DOMAIN s : i # n => r[i] = s[i]
  OBVIOUS
<1> HIDE DEF r
<1>5. ToSet(r) \subseteq ToSet(s) \cup {b}
  BY <1>4 DEF ToSet
<1>6. b \in ToSet(r)
  BY <1>4 DEF ToSet
<1>7. ToSet(s) \subseteq ToSet(r) \cup {s[n]}
  BY <1>4 DEF ToSet
<1> QED
  BY <1>3, <1>5, <1>6, <1>7, SequencesAreStacks DEF r

-----------------------------------------------------------------------------
(* The lines of the calls                                                  *)

\* The status in a context dict is nobody's, or one that the body has put there.
CallBlock(b) == /\ b = Context(b.id, b.status, b.said)
                /\ b.status \in {"unset"} \cup b.said

\* It stays a context dict, of the same call.
LEMMA PutShape ==
  ASSUME NEW c, CallBlock(c), NEW status
  PROVE  CallBlock(Put(c, status)) /\ Put(c, status).kind = "call" /\ Put(c, status).id = c.id
BY DEF CallBlock, Put, Context

BlockTypes ==
  /\ DOMAIN blocks = Threads
  /\ exception \in [Threads -> {"none", "error", "cancel"}]
  /\ \A t \in Threads : /\ Stack(blocks[t])
                        /\ \A b \in ToSet(blocks[t]) : b.kind = "call" => CallBlock(b)

\* The calls that a thread is in.
CallsOf(t) == {b.id : b \in {c \in ToSet(blocks[t]) : c.kind = "call"}}

\* What a step changes is the stack of one thread.
LEMMA OneThread ==
  ASSUME BlockTypes, NEW t \in Threads, NEW s, blocks' = [blocks EXCEPT ![t] = s]
  PROVE  /\ DOMAIN blocks' = Threads /\ blocks'[t] = s
         /\ \A u \in Threads \ {t} : blocks'[u] = blocks[u] /\ CallsOf(u)' = CallsOf(u)
BY DEF BlockTypes, CallsOf

\* What one step does to the calls that are open: nothing, enter one, or leave one and
\* write its line.
CallStep ==
  \/ calls' = calls /\ log' = log /\ OpenCalls' = OpenCalls
  \/ \E id : calls' = calls \cup {id} /\ log' = log /\ OpenCalls' = OpenCalls \cup {id}
  \/ \E l : /\ calls' = calls /\ log' = log \cup {l}
            /\ OpenCalls = OpenCalls' \cup {l.call}
            /\ l.status \in l.said \cup {OwnStatus(l)}
            /\ l.ended = "error" => l.status = "error" /\ l.level = "WARNING"

\* The other threads' calls are what they were.
LEMMA OpenCallsStep ==
  ASSUME NEW t \in Threads, \A u \in Threads \ {t} : CallsOf(u)' = CallsOf(u), NEW old, NEW new,
         CallsOf(t)' \cup old = CallsOf(t) \cup new
  PROVE  OpenCalls' \cup old = OpenCalls \cup new
<1> DEFINE others == UNION {CallsOf(u) : u \in Threads \ {t}}
<1>1. OpenCalls = CallsOf(t) \cup others
  BY DEF OpenCalls, CallsOf
<1>2. OpenCalls' = CallsOf(t)' \cup others'
  BY DEF OpenCalls, CallsOf
<1>3. others' = others
  OBVIOUS
<1> QED
  BY <1>1, <1>2, <1>3

\* Entering a span or a call.
LEMMA EnterStep ==
  ASSUME BlockTypes, NEW t \in Threads, NEW b, Enter(t, b), b.kind = "call" => CallBlock(b)
  PROVE  BlockTypes' /\ CallStep
<1> DEFINE s == blocks[t]
<1>1. Stack(Append(s, b)) /\ ToSet(Append(s, b)) = ToSet(s) \cup {b}
  BY Pushed DEF BlockTypes
<1>2. /\ DOMAIN blocks' = Threads /\ blocks'[t] = Append(s, b)
      /\ \A u \in Threads \ {t} : blocks'[u] = blocks[u] /\ CallsOf(u)' = CallsOf(u)
  BY OneThread DEF Enter
<1>3. BlockTypes'
  BY <1>1, <1>2 DEF BlockTypes, Enter, CallBlock
<1>4. CASE b.kind = "call"
  <2>1. CallsOf(t)' \cup {} = CallsOf(t) \cup {b.id}
    BY <1>1, <1>2, <1>4 DEF CallsOf
  <2>2. OpenCalls' \cup {} = OpenCalls \cup {b.id}
    <3>1. \A old, new : CallsOf(t)' \cup old = CallsOf(t) \cup new => OpenCalls' \cup old = OpenCalls \cup new
      BY <1>2, OpenCallsStep
    <3> QED
      BY <2>1, <3>1, Zenon
  <2> QED
    BY <1>3, <1>4, <2>2 DEF Enter, CallStep
<1>5. CASE b.kind # "call"
  <2>1. CallsOf(t)' \cup {} = CallsOf(t) \cup {}
    BY <1>1, <1>2, <1>5 DEF CallsOf
  <2>2. OpenCalls' \cup {} = OpenCalls \cup {}
    BY <1>2, <2>1, OpenCallsStep
  <2> QED
    BY <1>3, <1>5, <2>2 DEF Enter, CallStep
<1> QED
  BY <1>4, <1>5

\* Leaving a span: no call is concerned.
LEMMA CloseSpanStep ==
  ASSUME BlockTypes, NEW t \in Threads, CloseSpan(t) PROVE BlockTypes' /\ CallStep
<1> DEFINE s == blocks[t]
<1>1. Stack(Front(s)) /\ ToSet(s) = ToSet(Front(s)) \cup {Last(s)}
  BY Popped DEF BlockTypes, CloseSpan
<1>2. /\ DOMAIN blocks' = Threads /\ blocks'[t] = Front(s)
      /\ \A u \in Threads \ {t} : blocks'[u] = blocks[u] /\ CallsOf(u)' = CallsOf(u)
  BY OneThread DEF CloseSpan
<1>3. BlockTypes'
  BY <1>1, <1>2 DEF BlockTypes, CloseSpan, CallBlock
<1>4. CallsOf(t)' \cup {} = CallsOf(t) \cup {}
  BY <1>1, <1>2 DEF CallsOf, CloseSpan
<1>5. OpenCalls' \cup {} = OpenCalls \cup {}
  BY <1>2, <1>4, OpenCallsStep
<1> QED
  BY <1>3, <1>5 DEF CloseSpan, CallStep

\* Leaving a call, in whatever way: its line tells how it ended.
LEMMA LeaveCallStep ==
  ASSUME BlockTypes, NEW t \in Threads, LeaveCall(t) PROVE BlockTypes' /\ CallStep
<1> DEFINE s == blocks[t]
           c == Last(s)
           l == Line(t, c, FinalStatus(c.status, exception[t]))
<1>1. Stack(Front(s)) /\ ToSet(s) = ToSet(Front(s)) \cup {c}
  BY Popped DEF BlockTypes, LeaveCall
<1>2. /\ DOMAIN blocks' = Threads /\ blocks'[t] = Front(s)
      /\ \A u \in Threads \ {t} : blocks'[u] = blocks[u] /\ CallsOf(u)' = CallsOf(u)
  BY OneThread DEF LeaveCall
<1>3. BlockTypes'
  BY <1>1, <1>2 DEF BlockTypes, LeaveCall, CallBlock
<1>4. c.kind = "call" /\ c.status \in {"unset"} \cup c.said
  BY <1>1 DEF BlockTypes, LeaveCall, CallBlock
<1>5. CallsOf(t)' \cup {c.id} = CallsOf(t) \cup {}
  BY <1>1, <1>2, <1>4 DEF CallsOf
<1>6. OpenCalls' \cup {c.id} = OpenCalls \cup {}
  <2>1. \A old, new : CallsOf(t)' \cup old = CallsOf(t) \cup new => OpenCalls' \cup old = OpenCalls \cup new
    BY <1>2, OpenCallsStep
  <2> QED
    BY <1>5, <2>1, Zenon
<1>7. log' = log \cup {l} /\ calls' = calls
  BY DEF LeaveCall, Written
<1>8. /\ l.call = c.id /\ l.ended = exception[t] /\ l.said = c.said
      /\ l.status = FinalStatus(c.status, exception[t])
      /\ l.level = IF l.status = "error" THEN "WARNING" ELSE "INFO"
  BY DEF Line
<1> HIDE DEF l
<1>9. l.status \in l.said \cup {OwnStatus(l)}
  <2>1. exception[t] \in {"none", "error", "cancel"}
    BY DEF LeaveCall, BlockTypes
  <2> QED BY <1>4, <1>8, <2>1 DEF FinalStatus, OwnStatus
<1>10. l.ended = "error" => l.status = "error" /\ l.level = "WARNING"
  BY <1>8 DEF FinalStatus
<1> QED
  BY <1>3, <1>6, <1>7, <1>8, <1>9, <1>10 DEF CallStep

\* The body of a call writes into its context dict.
LEMMA SetStatusStep ==
  ASSUME BlockTypes, NEW t \in Threads, SetStatus(t) PROVE BlockTypes' /\ CallStep
<1> DEFINE s == blocks[t]
<1>1. PICK i \in DOMAIN s, status \in Statuses :
        /\ s[i].kind = "call"
        /\ blocks' = [blocks EXCEPT ![t][i] = Put(@, status)]
  BY DEF SetStatus
<1> DEFINE c == s[i]
           b == Put(c, status)
           r == [s EXCEPT ![i] = b]
<1>2. Stack(s) /\ c \in ToSet(s) /\ DOMAIN blocks = Threads
  BY DEF BlockTypes, ToSet
<1>3. CallBlock(c)
  BY <1>1, <1>2 DEF BlockTypes
<1>5. CallBlock(b) /\ b.kind = "call" /\ b.id = c.id
  BY <1>3, PutShape
<1>6. blocks' = [blocks EXCEPT ![t] = r]
  BY <1>1, <1>2
<1> HIDE DEF b
<1>7. /\ Stack(r)
      /\ ToSet(r) \subseteq ToSet(s) \cup {b} /\ b \in ToSet(r)
      /\ ToSet(s) \subseteq ToSet(r) \cup {c}
  BY <1>2, Marked
<1> HIDE DEF r
<1>8. /\ DOMAIN blocks' = Threads /\ blocks'[t] = r
      /\ \A u \in Threads \ {t} : blocks'[u] = blocks[u] /\ CallsOf(u)' = CallsOf(u)
  BY <1>6, OneThread
<1>9. BlockTypes'
  BY <1>5, <1>7, <1>8 DEF BlockTypes, SetStatus, CallBlock
<1>0. c.kind = "call"
  BY <1>1
<1> HIDE DEF c
<1>10. CallsOf(t)' \cup {} = CallsOf(t) \cup {}
  BY <1>0, <1>2, <1>5, <1>7, <1>8 DEF CallsOf
<1>11. OpenCalls' \cup {} = OpenCalls \cup {}
  BY <1>8, <1>10, OpenCallsStep
<1> QED
  BY <1>9, <1>11 DEF SetStatus, CallStep

\* A step of any thread, or of none.
LEMMA ThreadsStep == BlockTypes /\ [Next]_vars => BlockTypes' /\ CallStep
<1> SUFFICES ASSUME BlockTypes, [Next]_vars PROVE BlockTypes' /\ CallStep
  OBVIOUS
<1>1. ASSUME NEW t \in Threads, OpenSpan(t) PROVE BlockTypes' /\ CallStep
  <2>1. PICK ids : Enter(t, [kind |-> "span", ids |-> ids])
    BY <1>1, Zenon DEF OpenSpan
  <2> QED
    BY <2>1, EnterStep
<1>2. ASSUME NEW t \in Threads, EnterCall(t) PROVE BlockTypes' /\ CallStep
  BY <1>2, EnterStep DEF EnterCall, CallBlock, Context
<1>3. ASSUME NEW t \in Threads, Raise(t) \/ Catch(t) PROVE BlockTypes' /\ CallStep
  <2>1. UNCHANGED <<blocks, calls, log>> /\ exception' \in [Threads -> {"none", "error", "cancel"}]
    BY <1>3 DEF Raise, Catch, BlockTypes
  <2> QED
    BY <2>1 DEF BlockTypes, CallStep, OpenCalls
<1>4. CASE UNCHANGED blockVars
  BY <1>4 DEF blockVars, BlockTypes, CallStep, OpenCalls
<1> QED
  BY <1>1, <1>2, <1>3, <1>4, CloseSpanStep, LeaveCallStep, SetStatusStep
     DEF Next, ThreadStep, vars

\* Every call of llm_call that began is under way or has its line, whatever unwinds it.
Accounted == NoCallIsLost /\ StatusTellsTheEnding

\* A step keeps count of the call that it enters or leaves.
LEMMA CallsAreAccounted == Spec => [](BlockTypes /\ Accounted)
<1>1. Init => BlockTypes /\ Accounted
  <2> SUFFICES ASSUME Init PROVE BlockTypes /\ Accounted
    OBVIOUS
  <2>1. Stack(<<>>) /\ ToSet(<<>>) = {}
    BY EmptySeq DEF Stack, ToSet
  <2>2. DOMAIN blocks = Threads /\ \A t \in Threads : blocks[t] = <<>>
    BY DEF Init
  <2>3. BlockTypes
    BY <2>1, <2>2 DEF Init, BlockTypes
  <2>4. OpenCalls = {}
    BY <2>1, <2>2 DEF OpenCalls
  <2> QED
    BY <2>3, <2>4 DEF Init, Accounted, NoCallIsLost, StatusTellsTheEnding
<1>2. Accounted /\ CallStep => Accounted'
  <2> SUFFICES ASSUME NoCallIsLost, StatusTellsTheEnding, CallStep
               PROVE  NoCallIsLost' /\ StatusTellsTheEnding'
    BY DEF Accounted
  <2> DEFINE written == {l.call : l \in log}
  <2>1. CASE calls' = calls /\ log' = log /\ OpenCalls' = OpenCalls
    BY <2>1 DEF NoCallIsLost, StatusTellsTheEnding
  <2>2. ASSUME NEW id, calls' = calls \cup {id}, log' = log, OpenCalls' = OpenCalls \cup {id}
        PROVE  NoCallIsLost' /\ StatusTellsTheEnding'
    BY <2>2 DEF NoCallIsLost, StatusTellsTheEnding
  <2>3. ASSUME NEW l, calls' = calls, log' = log \cup {l}, OpenCalls = OpenCalls' \cup {l.call},
               l.status \in l.said \cup {OwnStatus(l)},
               l.ended = "error" => l.status = "error" /\ l.level = "WARNING"
        PROVE  NoCallIsLost' /\ StatusTellsTheEnding'
    <3>1. {m.call : m \in log'} = written \cup {l.call}
      BY <2>3
    <3>2. NoCallIsLost'
      BY <2>3, <3>1 DEF NoCallIsLost
    <3> QED
      BY <2>3, <3>2 DEF StatusTellsTheEnding
  <2> QED
    BY <2>1, <2>2, <2>3 DEF CallStep
<1> QED
  BY <1>1, <1>2, ThreadsStep, PTL DEF Spec

\* Calls are numbered in the order of their beginning.
Numbered == /\ entered \in Nat
            /\ \A c \in calls : c[2] \in Nat /\ c[2] < entered

\* A stack holds a call once.
Distinct(s) == \A i, j \in DOMAIN s :
                 s[i].kind = "call" /\ s[j].kind = "call" /\ s[i].id = s[j].id => i = j

\* A call is open in one place, of one thread.
Apart == /\ \A t \in Threads : Distinct(blocks[t])
         /\ \A t, u \in Threads : t # u => CallsOf(t) \cap CallsOf(u) = {}

\* The open calls are those of the threads.
LEMMA OpenCallsAre == /\ OpenCalls = UNION {CallsOf(t) : t \in Threads}
                      /\ OpenCalls' = UNION {CallsOf(t)' : t \in Threads}
BY DEF OpenCalls, CallsOf

\* A call that is entered is on no stack yet.
LEMMA DistinctPushed ==
  ASSUME NEW s, Stack(s), Distinct(s), NEW b,
         b.kind = "call" => \A c \in ToSet(s) : c.kind = "call" => c.id # b.id
  PROVE  Distinct(Append(s, b))
<1> DEFINE r == Append(s, b)
           n == Len(s)
<1>1. /\ n \in Nat /\ DOMAIN s = 1..n /\ DOMAIN r = 1..n + 1
      /\ \A i \in 1..n : r[i] = s[i] /\ s[i] \in ToSet(s)
      /\ r[n + 1] = b
  BY AfterAppend DEF ToSet
<1> HIDE DEF r
<1> SUFFICES ASSUME NEW i \in DOMAIN r, NEW j \in DOMAIN r, r[i].kind = "call",
                    r[j].kind = "call", r[i].id = r[j].id
             PROVE  i = j
  BY DEF Distinct, r
<1>2. CASE i \in 1..n /\ j \in 1..n
  BY <1>1, <1>2 DEF Distinct
<1>3. CASE i = n + 1 \/ j = n + 1
  BY <1>1, <1>3
<1> QED BY <1>1, <1>2, <1>3

\* The call that is left is on the rest of the stack no more.
LEMMA DistinctPopped ==
  ASSUME NEW s, Stack(s), s # <<>>, Distinct(s)
  PROVE  /\ Distinct(Front(s))
         /\ Last(s).kind = "call" =>
              \A c \in ToSet(Front(s)) : c.kind = "call" => c.id # Last(s).id
<1> DEFINE n == Len(s)
<1>1. Distinct(Front(s))
  BY AfterFront DEF Distinct
<1>2. ASSUME NEW c \in ToSet(Front(s)), c.kind = "call", Last(s).kind = "call",
             c.id = Last(s).id
      PROVE  FALSE
  <2>1. PICK i \in 1..n - 1 : c = s[i]
    BY AfterFront DEF ToSet
  <2>2. Last(s) = s[n] /\ n \in DOMAIN s /\ i \in DOMAIN s /\ i # n
    BY AfterFront DEF Last
  <2> QED BY <1>2, <2>1, <2>2 DEF Distinct
<1> QED BY <1>1, <1>2

\* Each call that is open is so once, each that is not has one line, and the next will
\* have a number that none has.
Told == NoCallIsLost /\ Numbered /\ Apart /\ OneLineEach

\* Entering and leaving.
LEMMA ToldStep == BlockTypes /\ BlockTypes' /\ Told /\ NoCallIsLost' /\ [Next]_vars => Told'
<1> SUFFICES ASSUME BlockTypes, BlockTypes', Told, NoCallIsLost', [Next]_vars PROVE Told'
  OBVIOUS
<1>1. ASSUME NEW t \in Threads, NEW b, Enter(t, b), b.kind = "call" => b.id = <<t, entered>>
      PROVE  Told'
  <2> DEFINE s == blocks[t]
  <2>1. b.kind = "call" => b.id \notin calls
    BY <1>1 DEF Told, Numbered
  <2>2. CallsOf(t) \subseteq calls
    BY OpenCallsAre DEF Told, NoCallIsLost
  <2>3. blocks' = [blocks EXCEPT ![t] = Append(s, b)] /\ log' = log /\ entered' = entered + 1
    BY <1>1 DEF Enter
  <2>4. calls' = IF b.kind = "call" THEN calls \cup {b.id} ELSE calls
    BY <1>1 DEF Enter
  <2>5. /\ blocks'[t] = Append(s, b)
        /\ \A u \in Threads \ {t} : blocks'[u] = blocks[u] /\ CallsOf(u)' = CallsOf(u)
    BY <2>3, OneThread
  <2>6. Distinct(Append(s, b))
    BY <2>1, <2>2, DistinctPushed DEF BlockTypes, Told, Apart, CallsOf
  <2>7. CallsOf(t)' = IF b.kind = "call" THEN CallsOf(t) \cup {b.id} ELSE CallsOf(t)
    <3>1. ToSet(Append(s, b)) = ToSet(s) \cup {b}
      BY Pushed DEF BlockTypes
    <3> QED BY <2>5, <3>1 DEF CallsOf
  <2>8. \A u \in Threads : CallsOf(u) \subseteq calls
    BY OpenCallsAre DEF Told, NoCallIsLost
  <2>9. Apart'
    <3>1. \A u \in Threads : Distinct(blocks'[u])
      BY <2>5, <2>6 DEF Told, Apart
    <3>2. \A u \in Threads \ {t} : CallsOf(t)' \cap CallsOf(u)' = {}
      BY <2>1, <2>5, <2>7, <2>8 DEF Told, Apart
    <3>3. \A u, v \in Threads \ {t} : u # v => CallsOf(u)' \cap CallsOf(v)' = {}
      BY <2>5 DEF Told, Apart
    <3>4. \A u, v \in Threads : u # v => CallsOf(u)' \cap CallsOf(v)' = {}
      BY <3>2, <3>3
    <3> QED BY <3>1, <3>4 DEF Apart
  <2>10. Numbered'
    BY <1>1, <2>3, <2>4 DEF Told, Numbered
  <2>11. OpenCalls' \subseteq OpenCalls \cup (calls' \ calls)
    <3> DEFINE new == calls' \ calls
    <3>1. \A u \in Threads : CallsOf(u)' \subseteq CallsOf(u) \cup new
      <4>1. b.kind = "call" => b.id \in new
        BY <2>1, <2>4
      <4> HIDE DEF new
      <4> QED BY <2>5, <2>7, <4>1
    <3> HIDE DEF new
    <3>2. OpenCalls' \subseteq OpenCalls \cup new
      BY <3>1, OpenCallsAre
    <3> QED BY <3>2 DEF new
  <2>12. OneLineEach'
    BY <2>3, <2>11 DEF Told, OneLineEach, NoCallIsLost
  <2> QED BY <2>9, <2>10, <2>12 DEF Told
<1>2. ASSUME NEW t \in Threads, LeaveCall(t) PROVE Told'
  <2> DEFINE s == blocks[t]
             c == Last(s)
             l == Line(t, c, FinalStatus(c.status, exception[t]))
  <2>1. s # <<>> /\ c.kind = "call" /\ blocks' = [blocks EXCEPT ![t] = Front(s)]
    BY <1>2 DEF LeaveCall
  <2>2. /\ blocks'[t] = Front(s)
        /\ \A u \in Threads \ {t} : blocks'[u] = blocks[u] /\ CallsOf(u)' = CallsOf(u)
    BY <2>1, OneThread
  <2>3. Distinct(Front(s)) /\ CallsOf(t)' = CallsOf(t) \ {c.id} /\ c.id \in CallsOf(t)
    <3>1. ToSet(s) = ToSet(Front(s)) \cup {c}
      BY <2>1, Popped DEF BlockTypes
    <3>2. Distinct(Front(s)) /\ \A d \in ToSet(Front(s)) : d.kind = "call" => d.id # c.id
      BY <2>1, DistinctPopped DEF BlockTypes, Told, Apart
    <3> QED BY <2>1, <2>2, <3>1, <3>2 DEF CallsOf
  <2>4. Apart'
    BY <2>2, <2>3 DEF Told, Apart
  <2>5. OpenCalls' = OpenCalls \ {c.id} /\ c.id \in OpenCalls
    BY <2>2, <2>3, OpenCallsAre DEF Told, Apart
  <2>6. log' = log \cup {l} /\ l.call = c.id /\ UNCHANGED <<entered, calls>>
    BY <1>2 DEF LeaveCall, Written, Line
  <2> HIDE DEF l
  <2>7. OneLineEach'
    BY <2>5, <2>6 DEF Told, OneLineEach
  <2>8. Numbered'
    BY <2>6 DEF Told, Numbered
  <2> QED BY <2>4, <2>7, <2>8 DEF Told
<1>3. ASSUME NEW t \in Threads, CloseSpan(t) PROVE Told'
  <2> DEFINE s == blocks[t]
  <2>1. /\ s # <<>> /\ Last(s).kind = "span" /\ blocks' = [blocks EXCEPT ![t] = Front(s)]
        /\ UNCHANGED <<entered, calls, log>>
    BY <1>3 DEF CloseSpan
  <2>2. /\ blocks'[t] = Front(s)
        /\ \A u \in Threads \ {t} : blocks'[u] = blocks[u] /\ CallsOf(u)' = CallsOf(u)
    BY <2>1, OneThread
  <2>3. Distinct(Front(s)) /\ CallsOf(t)' = CallsOf(t)
    <3>1. ToSet(s) = ToSet(Front(s)) \cup {Last(s)}
      BY <2>1, Popped DEF BlockTypes
    <3>2. Distinct(Front(s))
      BY <2>1, DistinctPopped DEF BlockTypes, Told, Apart
    <3> QED BY <2>1, <2>2, <3>1, <3>2 DEF CallsOf
  <2>4. Apart' /\ OpenCalls' = OpenCalls
    BY <2>2, <2>3, OpenCallsAre DEF Told, Apart
  <2> QED BY <2>1, <2>4 DEF Told, OneLineEach, Numbered
<1>4. ASSUME NEW t \in Threads, SetStatus(t) PROVE Told'
  <2> DEFINE s == blocks[t]
  <2>0. PICK n \in DOMAIN s, status \in Statuses :
          /\ s[n].kind = "call"
          /\ blocks' = [blocks EXCEPT ![t][n] = Put(@, status)]
    BY <1>4 DEF SetStatus
  <2> DEFINE b == Put(s[n], status)
             r == [s EXCEPT ![n] = b]
  <2>1. Stack(s) /\ s[n] \in ToSet(s)
    BY <2>0 DEF BlockTypes, ToSet
  <2>2. b.kind = s[n].kind /\ b.id = s[n].id
    BY <2>0, <2>1 DEF BlockTypes, CallBlock, Put, Context
  <2>3. blocks' = [blocks EXCEPT ![t] = r] /\ UNCHANGED <<entered, calls, log>>
    BY <1>4, <2>0 DEF SetStatus
  <2>4. /\ blocks'[t] = r
        /\ \A u \in Threads \ {t} : blocks'[u] = blocks[u] /\ CallsOf(u)' = CallsOf(u)
    BY <2>3, OneThread
  <2> HIDE DEF b
  <2>5. /\ DOMAIN r = DOMAIN s
        /\ \A i \in DOMAIN s : r[i].kind = s[i].kind /\ r[i].id = s[i].id
    BY <2>1, <2>2
  <2> HIDE DEF r
  <2>6. Distinct(r) /\ CallsOf(t)' = CallsOf(t)
    BY <2>4, <2>5 DEF Told, Apart, Distinct, CallsOf, ToSet
  <2>7. Apart' /\ OpenCalls' = OpenCalls
    BY <2>4, <2>6, OpenCallsAre DEF Told, Apart
  <2> QED BY <2>3, <2>7 DEF Told, OneLineEach, Numbered
<1>5. CASE UNCHANGED <<blocks, entered, calls, log>>
  BY <1>5 DEF Told, OneLineEach, Numbered, Apart, Distinct, CallsOf, OpenCalls
<1>6. ASSUME NEW t \in Threads, OpenSpan(t) PROVE Told'
  <2>1. PICK ids : Enter(t, [kind |-> "span", ids |-> ids])
    BY <1>6, Zenon DEF OpenSpan
  <2> QED BY <1>1, <2>1
<1>7. ASSUME NEW t \in Threads, EnterCall(t) PROVE Told'
  BY <1>1, <1>7 DEF EnterCall, Context
<1> QED
  BY <1>2, <1>3, <1>4, <1>5, <1>6, <1>7
     DEF Next, ThreadStep, Raise, Catch, vars, blockVars

\* Every call of llm_call that began is under way, on one stack and without a line, or
\* has its line, one, that tells how it ended unless its body put down what it says, and
\* an error if an Exception left it: for any number of threads, however they nest calls
\* and spans, whatever bodies say and whatever unwinds them.
THEOREM CallsAreLogged == Spec => []EveryCallIsLogged
<1>1. Init => Told
  <2> SUFFICES ASSUME Init PROVE Told
    OBVIOUS
  <2>1. DOMAIN <<>> = {} /\ ToSet(<<>>) = {}
    BY EmptySeq DEF ToSet
  <2>2. \A t \in Threads : blocks[t] = <<>>
    BY DEF Init
  <2>3. OpenCalls = {} /\ Apart
    BY <2>1, <2>2 DEF OpenCalls, Apart, Distinct, CallsOf
  <2> QED BY <2>3 DEF Init, Told, NoCallIsLost, Numbered, OneLineEach
<1>2. BlockTypes /\ Accounted => BlockTypes /\ NoCallIsLost /\ StatusTellsTheEnding
  BY DEF Accounted
<1>3. Told => OneLineEach
  BY DEF Told
<1> QED
  BY <1>1, <1>2, <1>3, CallsAreAccounted, ToldStep, PTL DEF Spec, EveryCallIsLogged

-----------------------------------------------------------------------------
(* The ids on the lines                                                    *)

\* A set of numbers that is not empty and bounded has a greatest element.
LEMMA GreatestIsOne ==
  ASSUME NEW n \in Nat, NEW S, S \subseteq 1..n, S # {}
  PROVE  Max(S) \in S
<1> DEFINE R == {n - i : i \in S}
<1>1. R \subseteq Nat /\ R # {}
  <2>1. \A i \in S : n - i \in Nat
    OBVIOUS
  <2> QED BY <2>1
<1>2. PICK r \in R : \A j \in R : ~(<<j, r>> \in OpToRel(<, Nat))
  <2> HIDE DEF R
  <2> QED BY <1>1, NatLessThanWellFounded, WFMin
<1>3. PICK i \in S : r = n - i
  BY <1>2
<1>4. \A j \in S : i >= j
  <2> SUFFICES ASSUME NEW j \in S, j > i PROVE FALSE
    OBVIOUS
  <2>1. <<n - j, r>> \in OpToRel(<, Nat)
    BY <1>1, <1>3 DEF OpToRel
  <2> QED BY <1>2, <2>1
<1> QED BY <1>4 DEF Max

\* The spans on a stack that record.
Recording(s) == {b \in ToSet(s) : b.kind = "span" /\ b.ids # NoIds}

\* What is looked up are the ids of such a span, if there is one.
LEMMA ContextIsOfASpan ==
  ASSUME BlockTypes, NEW t \in Threads
  PROVE  IF Recording(blocks[t]) = {} THEN CurrentTraceContext(t) = NoIds
         ELSE \E b \in Recording(blocks[t]) : CurrentTraceContext(t) = b.ids
<1> DEFINE s == blocks[t]
<1>1. Len(s) \in Nat /\ DOMAIN s = 1..Len(s)
  BY LenProperties DEF BlockTypes, Stack
<1>2. Spans(t) \subseteq 1..Len(s) /\ \A i \in Spans(t) : s[i] \in Recording(s)
  BY <1>1 DEF Spans, Recording, ToSet
<1>3. Recording(s) # {} => Spans(t) # {}
  BY DEF Spans, Recording, ToSet
<1>4. Spans(t) # {} => Max(Spans(t)) \in Spans(t)
  BY <1>1, <1>2, GreatestIsOne
<1> QED BY <1>2, <1>3, <1>4 DEF CurrentTraceContext

\* The spans that a thread has open are of one trace.
OneTrace == \A t \in Threads : \A b, c \in Recording(blocks[t]) : b.ids.trace = c.ids.trace

\* Only a new span adds to the spans that a thread has open, and to their trace.
LEMMA OneTraceStep == BlockTypes /\ OneTrace /\ [Next]_vars => OneTrace'
<1> SUFFICES ASSUME BlockTypes, OneTrace, [Next]_vars PROVE OneTrace'
  OBVIOUS
<1>1. ASSUME NEW t \in Threads, NEW s, blocks' = [blocks EXCEPT ![t] = s],
             \A b, c \in Recording(s) : b.ids.trace = c.ids.trace
      PROVE  OneTrace'
  BY <1>1, OneThread DEF OneTrace
<1>2. ASSUME NEW t \in Threads, NEW s, blocks' = [blocks EXCEPT ![t] = s],
             Recording(s) \subseteq Recording(blocks[t])
      PROVE  OneTrace'
  BY <1>1, <1>2 DEF OneTrace
<1>3. ASSUME NEW t \in Threads, OpenSpan(t) PROVE OneTrace'
  <2> DEFINE id == <<t, entered>>
             real == [trace |-> NewTrace(id, CurrentTraceContext(t)), span |-> id]
             s == blocks[t]
  <2>1. PICK ids \in {NoIds, real} : Enter(t, [kind |-> "span", ids |-> ids])
    BY <1>3, Zenon DEF OpenSpan
  <2> DEFINE b == [kind |-> "span", ids |-> ids]
  <2>2. blocks' = [blocks EXCEPT ![t] = Append(s, b)]
    BY <2>1 DEF Enter
  <2>3. Recording(Append(s, b)) \subseteq Recording(s) \cup {b}
    <3>1. ToSet(Append(s, b)) = ToSet(s) \cup {b}
      BY Pushed DEF BlockTypes
    <3> QED BY <3>1 DEF Recording
  <2>4. b \in Recording(Append(s, b)) => ids = real
    BY <2>1 DEF Recording
  <2>5. \A c \in Recording(s) : ids = real => b.ids.trace = c.ids.trace
    <3> SUFFICES ASSUME NEW c \in Recording(s), ids = real PROVE b.ids.trace = c.ids.trace
      OBVIOUS
    <3>1. PICK d \in Recording(s) : CurrentTraceContext(t) = d.ids
      BY ContextIsOfASpan
    <3>2. NewTrace(id, CurrentTraceContext(t)) = d.ids.trace
      BY <3>1 DEF NewTrace, Recording
    <3> QED BY <3>2 DEF OneTrace
  <2> HIDE DEF b
  <2>6. \A c, d \in Recording(Append(s, b)) : c.ids.trace = d.ids.trace
    BY <2>3, <2>4, <2>5 DEF OneTrace
  <2> QED BY <1>1, <2>2, <2>6
<1>4. ASSUME NEW t \in Threads, EnterCall(t) PROVE OneTrace'
  <2> DEFINE b == Context(<<t, entered>>, "unset", {})
  <2>1. blocks' = [blocks EXCEPT ![t] = Append(blocks[t], b)]
    BY <1>4 DEF EnterCall, Enter
  <2>2. ToSet(Append(blocks[t], b)) = ToSet(blocks[t]) \cup {b}
    BY Pushed DEF BlockTypes
  <2>3. Recording(Append(blocks[t], b)) \subseteq Recording(blocks[t])
    BY <2>2 DEF Recording, Context
  <2> QED BY <1>2, <2>1, <2>3
<1>5. ASSUME NEW t \in Threads, CloseSpan(t) \/ LeaveCall(t) PROVE OneTrace'
  <2>1. blocks[t] # <<>> /\ blocks' = [blocks EXCEPT ![t] = Front(blocks[t])]
    BY <1>5 DEF CloseSpan, LeaveCall
  <2>2. Recording(Front(blocks[t])) \subseteq Recording(blocks[t])
    BY <2>1, Popped DEF BlockTypes, Recording
  <2> QED BY <1>2, <2>1, <2>2
<1>6. ASSUME NEW t \in Threads, SetStatus(t) PROVE OneTrace'
  <2> DEFINE s == blocks[t]
  <2>0. PICK i \in DOMAIN s, status \in Statuses :
          /\ s[i].kind = "call"
          /\ blocks' = [blocks EXCEPT ![t][i] = Put(@, status)]
    BY <1>6 DEF SetStatus
  <2> DEFINE b == Put(s[i], status)
             r == [s EXCEPT ![i] = b]
  <2>1. Stack(s) /\ s[i] \in ToSet(s)
    BY <2>0 DEF BlockTypes, ToSet
  <2>2. b.kind = "call"
    BY <2>0, <2>1 DEF BlockTypes, CallBlock, Put, Context
  <2>3. blocks' = [blocks EXCEPT ![t] = r]
    BY <2>0
  <2> HIDE DEF b
  <2>4. ToSet(r) \subseteq ToSet(s) \cup {b}
    BY <2>1, Marked
  <2>5. Recording(r) \subseteq Recording(s)
    BY <2>2, <2>4 DEF Recording
  <2> QED BY <1>2, <2>3, <2>5
<1>7. CASE UNCHANGED blocks
  BY <1>7 DEF OneTrace, Recording
<1> QED
  BY <1>3, <1>4, <1>5, <1>6, <1>7
     DEF Next, ThreadStep, Raise, Catch, vars, blockVars

\* A line is written with the ids of a span around its call.
LEMMA LineStep ==
  BlockTypes /\ OneTrace /\ LinesBelongToTheirSpans /\ [Next]_vars => LinesBelongToTheirSpans'
<1> SUFFICES ASSUME BlockTypes, OneTrace, LinesBelongToTheirSpans, [Next]_vars
             PROVE  LinesBelongToTheirSpans'
  OBVIOUS
<1> DEFINE Belongs(l) ==
      /\ IF RealSpans(l) = {} THEN l.ids = NoIds ELSE l.ids \in {b.ids : b \in RealSpans(l)}
      /\ \A b \in RealSpans(l) : b.ids.trace = l.ids.trace
<1>1. ASSUME NEW t \in Threads, LeaveCall(t) PROVE LinesBelongToTheirSpans'
  <2> DEFINE s == blocks[t]
             c == Last(s)
             l == Line(t, c, FinalStatus(c.status, exception[t]))
  <2>1. ToSet(s) = ToSet(Front(s)) \cup {c} /\ c.kind = "call"
    BY <1>1, Popped DEF BlockTypes, LeaveCall
  <2>2. l.ids = CurrentTraceContext(t) /\ RealSpans(l) = Recording(s)
    <3>1. /\ l.ids = CurrentTraceContext(t)
          /\ l.around = {b \in ToSet(s) : b.kind = "span"}
      BY DEF Line
    <3> HIDE DEF l
    <3> QED BY <3>1 DEF RealSpans, Recording
  <2>3. log' = log \cup {l}
    BY <1>1 DEF LeaveCall, Written
  <2> HIDE DEF l
  <2>4. Belongs(l)
    BY <2>2, ContextIsOfASpan DEF OneTrace
  <2>5. \A m \in log' : Belongs(m)
    BY <2>3, <2>4 DEF LinesBelongToTheirSpans
  <2> QED BY <2>5 DEF LinesBelongToTheirSpans, RealSpans
<1>2. CASE UNCHANGED log
  BY <1>2 DEF LinesBelongToTheirSpans, RealSpans
<1> QED
  BY <1>1, <1>2
     DEF Next, ThreadStep, OpenSpan, EnterCall, Enter, SetStatus, Raise, Catch, CloseSpan,
         vars, blockVars

\* A line carries the ids of a span of its own thread that is open around its call, and
\* of no other, and the spans around it are all of its trace: for any nesting, any
\* number of threads, and whenever tracing is configured.
THEOREM LinesAreOfTheirSpans == Spec => []LinesBelongToTheirSpans
<1>1. Init => BlockTypes /\ OneTrace /\ LinesBelongToTheirSpans
  <2> SUFFICES ASSUME Init PROVE BlockTypes /\ OneTrace /\ LinesBelongToTheirSpans
    OBVIOUS
  <2>1. Stack(<<>>) /\ ToSet(<<>>) = {}
    BY EmptySeq DEF Stack, ToSet
  <2>2. DOMAIN blocks = Threads /\ \A t \in Threads : blocks[t] = <<>>
    BY DEF Init
  <2>3. BlockTypes
    BY <2>1, <2>2 DEF Init, BlockTypes
  <2> QED
    BY <2>1, <2>2, <2>3 DEF Init, OneTrace, Recording, LinesBelongToTheirSpans
<1> QED
  BY <1>1, ThreadsStep, OneTraceStep, LineStep, PTL DEF Spec

=============================================================================
