------------------------------- MODULE TraceSetup -------------------------------
(***************************************************************************)
(* configure_tracing of tracing.py: build a TracerProvider with a batch    *)
(* processor for its exporter and hand it to OpenTelemetry, which keeps    *)
(* the first one it is given.  The flag is tested first and set last, with *)
(* imports and constructors in between, and there is no lock.              *)
(***************************************************************************)
EXTENDS Naturals

CONSTANTS
  Setups,       \* calls of configure_tracing
  OtherProvider, \* a provider that others have set
  None,         \* no provider
  MaxChanges    \* bound: how often the environment changes

ASSUME TraceAssumption == /\ OtherProvider \notin Setups
                          /\ None \notin Setups \cup {OtherProvider}
ASSUME ChangesAssumption == MaxChanges \in Nat

VARIABLES
  \* the environment: what importing the SDK and the OTLP exporter does, and whether
  \* OTEL_EXPORTER_OTLP_ENDPOINT is set
  sdk, grpc, endpoint, changes,
  \* the process
  configured,   \* _CONFIGURED
  provider,     \* the global provider: None, OtherProvider, or the call that built it
  processing,   \* providers with a batch processor, which is a thread
  \* the calls
  pc,           \* the step a call is at; it ends "configured", "disabled" or "raised"
  exporter,     \* what its processor exports to
  before        \* ghost: the calls that had configured tracing when this one began

world     == <<sdk, grpc, endpoint, changes>>
traceVars == <<world, configured, provider, processing, pc, exporter, before>>

Imports == {"ok", "missing", "broken"}

TraceInit == /\ sdk \in Imports /\ grpc \in Imports /\ endpoint \in BOOLEAN
             /\ changes = 0
             /\ configured = FALSE
             /\ provider \in {None, OtherProvider}
             /\ processing = {}
             /\ pc = [c \in Setups |-> "idle"]
             /\ exporter = [c \in Setups |-> "none"]
             /\ before = [c \in Setups |-> {}]

Goto(c, label) == pc' = [pc EXCEPT ![c] = label]

Begin(c) ==
  /\ pc[c] = "idle"
  /\ Goto(c, "flag")
  /\ before' = [before EXCEPT ![c] = {d \in Setups : pc[d] = "configured"}]
  /\ UNCHANGED <<world, configured, provider, processing, exporter>>

TestFlag(c) ==
  /\ pc[c] = "flag"
  /\ Goto(c, IF configured THEN "configured" ELSE "import")
  /\ UNCHANGED <<world, configured, provider, processing, exporter, before>>

\* Faulty: tracing that is not to be had counts as configured.
ImportSdk_Gives(c) ==
  /\ pc[c] = "import"
  /\ Goto(c, IF sdk = "ok" THEN "build" ELSE "disabled")
  /\ configured' = (configured \/ sdk # "ok")
  /\ UNCHANGED <<world, provider, processing, exporter, before>>

\* The lazy import of the SDK, absent or present and failing to load.
ImportSdk(c) ==
  /\ pc[c] = "import"
  /\ Goto(c, IF sdk = "ok" THEN "build" ELSE "disabled")
  /\ UNCHANGED <<world, configured, provider, processing, exporter, before>>

\* Resource and TracerProvider; constructors that nothing guards.
BuildProvider(c) ==
  /\ pc[c] = "build"
  /\ Goto(c, "exporter") \/ Goto(c, "raised")
  /\ UNCHANGED <<world, configured, provider, processing, exporter, before>>

\* An exporter that cannot be imported, or built, falls back to the console.
ExporterOf == IF endpoint /\ grpc = "ok" THEN "otlp" ELSE "console"

ChooseExporter(c) ==
  /\ pc[c] = "exporter"
  /\ Goto(c, "processor")
  /\ exporter' = [exporter EXCEPT ![c] = ExporterOf]
  /\ UNCHANGED <<world, configured, provider, processing, before>>

\* BatchSpanProcessor may raise too, and then its thread does not run.
AddProcessor(c) ==
  /\ pc[c] = "processor"
  /\ \/ Goto(c, "set") /\ processing' = processing \cup {c}
     \/ Goto(c, "raised") /\ UNCHANGED processing
  /\ UNCHANGED <<world, configured, provider, exporter, before>>

\* OpenTelemetry keeps the provider it has.
SetProvider(c) ==
  /\ pc[c] = "set"
  /\ Goto(c, "mark")
  /\ provider' = IF provider = None THEN c ELSE provider
  /\ UNCHANGED <<world, configured, processing, exporter, before>>

Mark(c) ==
  /\ pc[c] = "mark"
  /\ Goto(c, "configured")
  /\ configured' = TRUE
  /\ UNCHANGED <<world, provider, processing, exporter, before>>

\* A package is installed or repaired, the endpoint is set or unset.  What has been
\* imported once stays importable.
EnvironmentChanges ==
  /\ changes < MaxChanges /\ changes' = changes + 1
  /\ sdk'  \in IF sdk = "ok" THEN {"ok"} ELSE Imports
  /\ grpc' \in IF grpc = "ok" THEN {"ok"} ELSE Imports
  /\ endpoint' \in BOOLEAN
  /\ UNCHANGED <<configured, provider, processing, pc, exporter, before>>

\* Another library sets a provider.
OthersSetProvider ==
  /\ provider = None /\ provider' = OtherProvider
  /\ UNCHANGED <<world, configured, processing, pc, exporter, before>>

TraceStep(c) == \/ TestFlag(c) \/ ImportSdk(c) \/ BuildProvider(c) \/ ChooseExporter(c)
                \/ AddProcessor(c) \/ SetProvider(c) \/ Mark(c)

TraceNext == \/ \E c \in Setups : Begin(c) \/ TraceStep(c)
             \/ EnvironmentChanges \/ OthersSetProvider

-----------------------------------------------------------------------------
(* Properties                                                              *)

TraceTypes ==
  /\ sdk \in Imports /\ grpc \in Imports /\ endpoint \in BOOLEAN /\ changes \in 0..MaxChanges
  /\ configured \in BOOLEAN
  /\ provider \in Setups \cup {OtherProvider, None}
  /\ processing \subseteq Setups
  /\ pc \in [Setups -> {"idle", "flag", "import", "build", "exporter", "processor", "set",
                       "mark", "configured", "disabled", "raised"}]
  /\ exporter \in [Setups -> {"none", "otlp", "console"}]
  /\ \A c \in Setups : pc[c] \in {"processor", "set", "mark"} => exporter[c] # "none"
  /\ before \in [Setups -> SUBSET Setups]

\* "traces are always visible": the flag is never set without a global provider, and
\* unless that is somebody else's it has a processor with an exporter, so that
\* whatever failed before can be tried again and no span is dropped.
ConfiguredMeansVisible ==
  configured => \/ provider = OtherProvider
                \/ provider \in {c \in processing : exporter[c] # "none"}

\* "Safe to call multiple times": a call that began when another had configured
\* tracing builds nothing.  A call that failed does not count.
LaterCallsBuildNothing == \A c \in processing : before[c] = {}

\* No invariant: "only runs once".  Two threads that both pass the test build a
\* provider each, and nobody shuts down the one OpenTelemetry does not keep.
TracingRunsOnce == \A c, d \in processing : c = d

=============================================================================
