-------------------------------- MODULE LogSetup --------------------------------
(***************************************************************************)
(* configure_logging of log_config.py: a module flag, tested first and set *)
(* last, that is to let the root logger be configured once.  There is no   *)
(* lock; calls on several threads interleave between any two statements    *)
(* that touch the flag or the root logger.                                 *)
(***************************************************************************)
EXTENDS Naturals, FiniteSets

CONSTANTS
  LogCalls,     \* calls of configure_logging
  Arguments,    \* what they are called with
  OtherHandler, \* handlers others install
  MaxEnvChanges \* bound: how often ENV changes

\* Names of levels, a name logging does not know, something that is no text.
ASSUME LogAssumption == /\ OtherHandler \notin LogCalls /\ MaxEnvChanges \in Nat
                        /\ Arguments \subseteq {"INFO", "DEBUG", "unknown", "no text"}

Envs == {"prod", "dev"}

VARIABLES
  \* the process
  logConfigured, \* _CONFIGURED
  handlers,     \* of the root logger: the calls that installed theirs, and OtherHandler
  level,        \* of the root logger, "default" until somebody sets it
  env,          \* current_env()
  envChanges,
  \* the calls
  wants,        \* the argument
  logAt,        \* the statement a call is at; it ends "returned" or "raised"
  format,       \* the formatter of its handler
  \* ghosts
  logBefore,    \* the calls that had ended when this one began
  envs          \* the environments there have been since it began

logVars == <<logConfigured, handlers, level, env, envChanges, wants, logAt, format,
             logBefore, envs>>

Ended(c) == logAt[c] \in {"returned", "raised"}
Active(c) == logAt[c] # "idle" /\ ~Ended(c)

LogInit == /\ logConfigured = FALSE
           /\ handlers \in {{}, {OtherHandler}}
           /\ level = "default"
           /\ env \in Envs
           /\ envChanges = 0
           /\ wants \in [LogCalls -> Arguments]
           /\ logAt = [c \in LogCalls |-> "idle"]
           /\ format = [c \in LogCalls |-> "none"]
           /\ logBefore = [c \in LogCalls |-> {}]
           /\ envs = [c \in LogCalls |-> {}]

LogGoto(c, label) == logAt' = [logAt EXCEPT ![c] = label]

BeginLogging(c) ==
  /\ logAt[c] = "idle"
  /\ LogGoto(c, "flag")
  /\ logBefore' = [logBefore EXCEPT ![c] = {d \in LogCalls : Ended(d)}]
  /\ envs' = [envs EXCEPT ![c] = {env}]
  /\ UNCHANGED <<logConfigured, handlers, level, env, envChanges, wants, format>>

TestLogFlag(c) ==
  /\ logAt[c] = "flag"
  /\ LogGoto(c, IF logConfigured THEN "returned" ELSE "handlers")
  /\ UNCHANGED <<logConfigured, handlers, level, env, envChanges, wants, format, logBefore, envs>>

\* Faulty: the flag alone is to keep a second handler out.
TestHandlers_Skipped(c) ==
  /\ logAt[c] = "handlers"
  /\ LogGoto(c, "format")
  /\ UNCHANGED <<logConfigured, handlers, level, env, envChanges, wants, format, logBefore, envs>>

\* "Already configured externally"
TestHandlers(c) ==
  /\ logAt[c] = "handlers"
  /\ IF handlers # {}
     THEN LogGoto(c, "returned") /\ logConfigured' = TRUE
     ELSE LogGoto(c, "format") /\ logConfigured' = logConfigured
  /\ UNCHANGED <<handlers, level, env, envChanges, wants, format, logBefore, envs>>

FormatIn(e) == IF e = "prod" THEN "json" ELSE "text"

\* Faulty: the environment is read at import, when nobody has set it yet.
MakeHandler_AtImport(c) ==
  /\ logAt[c] = "format"
  /\ LogGoto(c, "add")
  /\ format' = [format EXCEPT ![c] = FormatIn("dev")]
  /\ UNCHANGED <<logConfigured, handlers, level, env, envChanges, wants, logBefore, envs>>

MakeHandler(c) ==
  /\ logAt[c] = "format"
  /\ LogGoto(c, "add")
  /\ format' = [format EXCEPT ![c] = FormatIn(env)]
  /\ UNCHANGED <<logConfigured, handlers, level, env, envChanges, wants, logBefore, envs>>

AddHandler(c) ==
  /\ logAt[c] = "add"
  /\ LogGoto(c, "level")
  /\ handlers' = handlers \cup {c}
  /\ UNCHANGED <<logConfigured, level, env, envChanges, wants, format, logBefore, envs>>

LevelOf(argument) == IF argument = "unknown" THEN "INFO" ELSE argument

\* What is no text has no upper().
SetLevel(c) ==
  /\ logAt[c] = "level"
  /\ IF wants[c] = "no text"
     THEN LogGoto(c, "raised") /\ level' = level
     ELSE LogGoto(c, "mark") /\ level' = LevelOf(wants[c])
  /\ UNCHANGED <<logConfigured, handlers, env, envChanges, wants, format, logBefore, envs>>

MarkLogging(c) ==
  /\ logAt[c] = "mark"
  /\ LogGoto(c, "returned")
  /\ logConfigured' = TRUE
  /\ UNCHANGED <<handlers, level, env, envChanges, wants, format, logBefore, envs>>

\* pytest, or a framework, installs a handler of its own.
OthersInstall ==
  /\ handlers' = handlers \cup {OtherHandler}
  /\ UNCHANGED <<logConfigured, level, env, envChanges, wants, logAt, format, logBefore, envs>>

\* The program chooses an environment before, or while, it configures.
EnvChanges ==
  /\ envChanges < MaxEnvChanges /\ envChanges' = envChanges + 1
  /\ env' \in Envs \ {env}
  /\ envs' = [c \in LogCalls |-> IF Active(c) THEN envs[c] \cup {env'} ELSE envs[c]]
  /\ UNCHANGED <<logConfigured, handlers, level, wants, logAt, format, logBefore>>

LogNext == \/ \E c \in LogCalls : \/ BeginLogging(c) \/ TestLogFlag(c) \/ TestHandlers(c)
                                  \/ MakeHandler(c) \/ AddHandler(c) \/ SetLevel(c)
                                  \/ MarkLogging(c)
           \/ OthersInstall \/ EnvChanges

-----------------------------------------------------------------------------
(* Properties                                                              *)

LogTypes ==
  /\ logConfigured \in BOOLEAN
  /\ handlers \subseteq LogCalls \cup {OtherHandler}
  /\ level \in {"default", "INFO", "DEBUG"}
  /\ env \in Envs /\ envChanges \in 0..MaxEnvChanges
  /\ wants \in [LogCalls -> Arguments]
  /\ logAt \in [LogCalls -> {"idle", "flag", "handlers", "format", "add", "level", "mark",
                       "returned", "raised"}]
  /\ format \in [LogCalls -> {"none", "json", "text"}]
  /\ logBefore \in [LogCalls -> SUBSET LogCalls]
  /\ envs \in [LogCalls -> SUBSET Envs]

\* "Safe to call multiple times": a call that began when another had ended, in
\* whatever way that was, installs no handler, so that no line is written twice.
LaterCallsInstallNothing == \A c \in handlers \ {OtherHandler} : logBefore[c] = {}

\* Whoever gets out of configure_logging can log: there is a handler.
EndedMeansHandled == (\E c \in LogCalls : Ended(c)) => handlers # {}

\* When every call that began has returned, and nobody else installed a handler, the
\* level is one that a caller asked for: the branch for external handlers does not
\* swallow it.
LevelWasAskedFor ==
  /\ OtherHandler \notin handlers
  /\ \A c \in LogCalls : logAt[c] \in {"idle", "returned"}
  /\ \E c \in LogCalls : logAt[c] = "returned"
  => level \in {IF wants[c] = "unknown" THEN "INFO" ELSE wants[c] : c \in handlers}

\* "Read at call time, not at import": lines are JSON if and only if the call that
\* installed the handler was made in production.
FormatFollowsEnvironment ==
  \A c \in handlers \ {OtherHandler} : format[c] \in {FormatIn(e) : e \in envs[c]}

\* Whoever calls for logging gets lines of the level and in the format it asked for.
LoggingIsAsAsked == LevelWasAskedFor /\ FormatFollowsEnvironment

\* No invariant: "only runs once".  Two threads that both pass the tests install a
\* handler each.
LoggingRunsOnce == Cardinality(handlers \ {OtherHandler}) <= 1

\* No invariant either: the branch for external handlers is for those, and without
\* any, whoever gets out of configure_logging finds the level set.  A call that comes
\* between another's addHandler and setLevel does not.
ReturnedMeansLevelSet ==
  OtherHandler \notin handlers /\ (\E c \in LogCalls : logAt[c] = "returned") => level # "default"

=============================================================================
