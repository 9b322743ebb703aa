------------------------------- MODULE Telemetry -------------------------------
(***************************************************************************)
(* Observability as a whole: logging and tracing are configured, by        *)
(* LogSetup and TraceSetup, before, while or after threads open spans with *)
(* tracers from get_tracer and time LLM calls with llm_call.  Each line of *)
(* the JSON log carries the ids of the active span.                        *)
(*                                                                         *)
(* Spans and calls are with-blocks: each thread has a stack of them, which *)
(* an exception unwinds.  The logger that is handed to llm_call has a      *)
(* handler with the JSON formatter and level INFO.                         *)
(***************************************************************************)
EXTENDS LogSetup, TraceSetup, Sequences, SequencesExt

CONSTANTS
  Threads,
  Statuses,             \* what bodies put into their context dicts under "status"
  MaxBlocks             \* bound: blocks that are entered

ASSUME BlocksAssumption == MaxBlocks \in Nat

VARIABLES
  blocks,       \* blocks[t]: the blocks t is in, the innermost last
  entered,      \* number of blocks entered so far
  exception,    \* what t is propagating: "none", "error", or "cancel", no Exception
  calls,        \* ghost: calls that began
  log           \* the lines of the calls that ended

setups    == <<logVars, traceVars>>
blockVars == <<blocks, entered, exception, calls, log>>
vars      == <<setups, blockVars>>

Init == /\ LogInit /\ TraceInit
        /\ blocks = [t \in Threads |-> <<>>]
        /\ entered = 0
        /\ exception = [t \in Threads |-> "none"]
        /\ calls = {} /\ log = {}

\* Ids of a span that records nothing, the empty texts of a line.
NoIds == [trace |-> None, span |-> None]

\* Positions of the spans that record, in the stack of t.
Spans(t) == {i \in DOMAIN blocks[t] : blocks[t][i].kind = "span" /\ blocks[t][i].ids # NoIds}

\* Faulty: the active span of the process, whichever thread opened it.
CurrentTraceContext_Global(t) ==
  LET Tracing == {u \in Threads : Spans(u) # {}}
      u       == CHOOSE u \in Tracing : TRUE
  IN  IF Tracing = {} THEN NoIds ELSE blocks[u][Max(Spans(u))].ids

\* current_trace_context, and _get_trace_context around it: the innermost span.
CurrentTraceContext(t) == IF Spans(t) = {} THEN NoIds ELSE blocks[t][Max(Spans(t))].ids

Enter(t, block) ==
  /\ entered < MaxBlocks /\ exception[t] = "none"
  /\ blocks' = [blocks EXCEPT ![t] = Append(@, block)]
  /\ entered' = entered + 1
  /\ calls' = IF block.kind = "call" THEN calls \cup {block.id} ELSE calls
  /\ UNCHANGED <<setups, exception, log>>

\* The trace of a span with this id.
NewTrace(id, parent) == IF parent = NoIds THEN id ELSE parent.trace

\* with get_tracer().start_as_current_span(...): a span without ids if there is no
\* provider, or if OpenTelemetry fails.
OpenSpan(t) ==
  LET id == <<t, entered>>
      real == [trace |-> NewTrace(id, CurrentTraceContext(t)), span |-> id]
  IN  \E ids \in IF provider = None THEN {NoIds} ELSE {NoIds, real} :
        Enter(t, [kind |-> "span", ids |-> ids])

\* The context dict of a call, with what its body has put down so far as a ghost.
Context(id, status, said) == [kind |-> "call", id |-> id, status |-> status, said |-> said]

\* with llm_call(...) as ctx
EnterCall(t) == Enter(t, Context(<<t, entered>>, "unset", {}))

Put(ctx, status) == Context(ctx.id, status, ctx.said \cup {status})

\* "callers can attach any extra fields": the body of a call sets the status of its
\* own, or of one around it, to what it likes, any number of times.
SetStatus(t) ==
  /\ exception[t] = "none"
  /\ \E i \in DOMAIN blocks[t], status \in Statuses :
       /\ blocks[t][i].kind = "call"
       /\ blocks' = [blocks EXCEPT ![t][i] = Put(@, status)]
  /\ UNCHANGED <<setups, entered, exception, calls, log>>

\* Somewhere in the body: an Exception, or a cancellation or Ctrl-C.
Raise(t) ==
  /\ blocks[t] # <<>> /\ exception[t] = "none"
  /\ \E exc \in {"error", "cancel"} : exception' = [exception EXCEPT ![t] = exc]
  /\ UNCHANGED <<setups, blocks, entered, calls, log>>

\* The caller catches it, between two blocks or outside of all.
Catch(t) ==
  /\ exception[t] # "none"
  /\ exception' = [exception EXCEPT ![t] = "none"]
  /\ UNCHANGED <<setups, blocks, entered, calls, log>>

\* A span's end, of _NoOpSpan too, lets the exception through.
CloseSpan(t) ==
  /\ blocks[t] # <<>> /\ Last(blocks[t]).kind = "span"
  /\ blocks' = [blocks EXCEPT ![t] = Front(@)]
  /\ UNCHANGED <<setups, entered, exception, calls, log>>

\* ctx["status"] when the finally clause reads it.
FinalStatus(status, exc) ==
  CASE exc = "error" -> "error"
    [] exc = "none" /\ status = "unset" -> "ok"
    [] OTHER -> status

\* Faulty: logged after the body, not in a finally clause.
Written_AfterBody(exc) == exc = "none"

\* Whether a call that ends in this way is logged.
Written(exc) == TRUE

\* The fields of the line that the formatter and the handler put together.
Line(t, call, status) ==
  [call |-> call.id, status |-> status, said |-> call.said, ended |-> exception[t],
   level |-> IF status = "error" THEN "WARNING" ELSE "INFO",
   ids |-> CurrentTraceContext(t),
   around |-> {b \in ToSet(blocks[t]) : b.kind = "span"}]

LeaveCall(t) ==
  LET call == Last(blocks[t])
      line == Line(t, call, FinalStatus(call.status, exception[t]))
  IN  /\ blocks[t] # <<>> /\ call.kind = "call"
      /\ blocks' = [blocks EXCEPT ![t] = Front(@)]
      /\ log' = IF Written(exception[t]) THEN log \cup {line} ELSE log
      /\ UNCHANGED <<setups, entered, exception, calls>>

ThreadStep(t) == \/ OpenSpan(t) \/ EnterCall(t) \/ SetStatus(t) \/ Raise(t) \/ Catch(t)
                 \/ CloseSpan(t) \/ LeaveCall(t)

Next == \/ \E t \in Threads : ThreadStep(t)
        \/ LogNext   /\ UNCHANGED <<traceVars, blockVars>>
        \/ TraceNext /\ UNCHANGED <<logVars, blockVars>>

Spec == Init /\ [][Next]_vars

-----------------------------------------------------------------------------
(* Properties                                                              *)

\* Configuring once more, logging or tracing, adds nothing to what an earlier call
\* has built.
LaterCallsDoNothing == LaterCallsInstallNothing /\ LaterCallsBuildNothing

\* Whoever comes back from configuring, with success in the case of tracing, has
\* somewhere for its lines and spans to go.
ConfiguredMeansHeard == EndedMeansHandled /\ ConfiguredMeansVisible

OpenCalls == {b.id : b \in UNION {{c \in ToSet(blocks[t]) : c.kind = "call"} : t \in Threads}}

\* "logs a structured summary whether or not an exception occurred": each call that
\* began is open or has its line, however deep it was nested and whatever unwound it.
NoCallIsLost == calls = OpenCalls \cup {l.call : l \in log}

\* There is no second line of a call, nor one of a call that is still open.
OneLineEach == /\ \A l, m \in log : l.call = m.call => l = m
               /\ \A l \in log : l.call \notin OpenCalls

\* How a call ended, if its body put nothing down: no status if it was cancelled.
OwnStatus(l) ==
  CASE l.ended = "none" -> "ok" [] l.ended = "error" -> "error" [] OTHER -> "unset"

\* A line tells how its call ended unless its body said what it says: in particular
\* "ok" of a call that did not return is the body's own word.  A call that an Exception
\* left is an error and logged above INFO, whatever its body had put down before.
StatusTellsTheEnding ==
  \A l \in log : /\ l.status \in l.said \cup {OwnStatus(l)}
                 /\ l.ended = "error" => l.status = "error" /\ l.level = "WARNING"

\* Every call that has ended has one line, and a truthful one.
EveryCallIsLogged == NoCallIsLost /\ OneLineEach /\ StatusTellsTheEnding

RealSpans(l) == {b \in l.around : b.ids # NoIds}

\* "a record carries a trace id only inside a span the caller opened", one of the
\* same thread that is still open; and all the spans around a line are of its trace,
\* even if tracing is configured half-way through.
LinesBelongToTheirSpans ==
  \A l \in log :
    /\ IF RealSpans(l) = {} THEN l.ids = NoIds ELSE l.ids \in {b.ids : b \in RealSpans(l)}
    /\ \A b \in RealSpans(l) : b.ids.trace = l.ids.trace

=============================================================================
