------------------------------ MODULE MCTelemetry ------------------------------
(* An instance of Telemetry for TLC: three calls of configure_logging, three of  *)
(* configure_tracing, and two threads that nest spans and calls while one of     *)
(* the latter runs.  The two set-ups share no state, nor logging with the        *)
(* threads, so that not all of them need to be under way at once.                *)
EXTENDS Telemetry, TLC

CONSTANTS l1, l2, l3, s1, s2, s3, t1, t2

LogQuiet == /\ \A c \in LogCalls : logAt[c] = "idle" /\ wants[c] = "INFO"
            /\ handlers = {} /\ env = "dev" /\ envChanges = 0

NobodyTraces == /\ \A c \in Setups : pc[c] = "idle"
                /\ sdk = "ok" /\ grpc = "ok" /\ ~endpoint /\ changes = 0 /\ provider = None

\* Which exporter there is does not matter to the threads.
OneTraces == /\ \A c \in Setups \ {s1} : pc[c] = "idle"
             /\ sdk = "ok" /\ grpc = "ok" /\ ~endpoint /\ changes = 0

\* Nor does tracing matter to what bodies say of their calls.
NothingSaid == /\ \A t \in Threads : \A b \in ToSet(blocks[t]) : b.kind = "call" => b.said = {}
               /\ \A l \in log : l.said = {}

Shown == \/ NobodyTraces /\ entered = 0
         \/ LogQuiet /\ (entered = 0 \/ OneTraces)

\* Next, of a part at a time, or of the threads and one call of configure_tracing.
MCNext ==
  \/ LogQuiet /\ OneTraces /\ \E t \in Threads : ThreadStep(t) /\ (NothingSaid' \/ NobodyTraces)
  \/ NobodyTraces /\ entered = 0 /\ LogNext /\ UNCHANGED <<traceVars, blockVars>>
  \/ LogQuiet /\ entered = 0 /\ TraceNext /\ UNCHANGED <<logVars, blockVars>>
  \/ /\ LogQuiet /\ OneTraces /\ NothingSaid
     /\ Begin(s1) \/ TraceStep(s1) \/ OthersSetProvider
     /\ UNCHANGED <<logVars, blockVars>>

MCInit == Init /\ Shown

MCSpec == MCInit /\ [][MCNext]_vars

Symmetry == Permutations(LogCalls) \cup Permutations(Threads)
=============================================================================
