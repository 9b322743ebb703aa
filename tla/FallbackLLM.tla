----------------------------- MODULE FallbackLLM -----------------------------
(***************************************************************************)
(* FallbackLLM of fallback.py: one chain of backends shared by threads     *)
(* that call invoke and by asyncio tasks that call ainvoke.                *)
(*                                                                         *)
(* With a deadline, invoke runs every backend call on a daemon thread of   *)
(* its own and abandons it when join() times out; the abandoned worker     *)
(* lives on and may still trip the chain.  ainvoke wraps the backend's     *)
(* coroutine in a task and awaits it through asyncio.wait_for, which       *)
(* cancels the task at the deadline; the task may end in any way           *)
(* nevertheless.  Without a deadline both await the backend in place.      *)
(***************************************************************************)
EXTENDS Integers, FiniteSets

CONSTANTS
  SyncCallers,     \* threads that call invoke
  AsyncCallers,    \* asyncio tasks that call ainvoke
  N,               \* number of backends in the chain
  Options,         \* constructor arguments: is timeout_s set, what retry_on matches
  OwnEndings,      \* how a backend call may end of its own accord
  MaxCalls         \* bound: calls a caller makes

Callers  == SyncCallers \cup AsyncCallers
Backends == 0..(N - 1)

\* How a backend call ends: an answer, BudgetExhausted, a member of
\* _NON_RETRYABLE, a TimeoutError of the backend's own, a CancelledError,
\* or another exception.
Endings == {"ok", "budget", "bug", "timeout", "cancelled", "error"}

\* How a call ends, once it has: as its last attempt, or "all backends failed".
Results == (Endings \ {"budget"}) \cup {"pending", "allFailed"}

ASSUME CallersAssumption == SyncCallers \cap AsyncCallers = {}
ASSUME NAssumption == N \in Nat \ {0}
ASSUME OptionsAssumption ==
  Options \subseteq [deadline : BOOLEAN,
                     retryOn : SUBSET {"bug", "timeout", "cancelled", "error"}]
ASSUME OwnEndingsAssumption == OwnEndings \subseteq Endings \ {"cancelled"}
ASSUME MaxCallsAssumption == MaxCalls \in Nat

\* The backend calls that may ever be made: caller, its call, backend.
Attempts == Callers \X (1..MaxCalls) \X Backends

VARIABLES
  options,     \* timeout_s and retry_on of the chain, fixed by its constructor
  active,      \* _active
  pc,          \* statement each caller is about to run
  cur,         \* loop variable i of the caller's call
  first,       \* where the range of the call began
  calls,       \* number of calls the caller has started
  work,        \* progress of each attempt
  ending,      \* how an attempt has ended
  wake,        \* what wait_for woke the async caller up with
  result,      \* result of the caller's last call
  exhausted,   \* backends that have raised BudgetExhausted
  tripped      \* backends that _trip_past has been called with

vars == <<options, active, pc, cur, first, calls, work, ending, wake, result,
          exhausted, tripped>>

callerVars == <<cur, first, calls, wake, result>>
workVars   == <<work, ending, exhausted>>
chainVars  == <<options, active, tripped>>

HasDeadline == options.deadline
RetryOn     == options.retryOn

Max(a, b) == IF a > b THEN a ELSE b

Attempt(c) == <<c, calls[c], cur[c]>>

Goto(c, label) == pc' = [pc EXCEPT ![c] = label]

\* The call of c is over, with result r.
EndCall(c, r) == /\ result' = [result EXCEPT ![c] = r]
                 /\ cur' = [cur EXCEPT ![c] = 0]
                 /\ first' = [first EXCEPT ![c] = 0]
                 /\ Goto(c, "idle")

Init == /\ options \in Options
        /\ active = 0
        /\ pc = [c \in Callers |-> "idle"]
        /\ cur = [c \in Callers |-> 0]
        /\ first = [c \in Callers |-> 0]
        /\ calls = [c \in Callers |-> 0]
        /\ work = [w \in Attempts |-> "none"]
        /\ ending = [w \in Attempts |-> "none"]
        /\ wake = [c \in Callers |-> "none"]
        /\ result = [c \in Callers |-> "pending"]
        /\ exhausted = {}
        /\ tripped = {}

-----------------------------------------------------------------------------
(* The loop of invoke and ainvoke                                          *)

\* Faulty: every call begins with the first backend.
StartCall_FromZero(c) ==
  /\ pc[c] = "idle"
  /\ calls[c] < MaxCalls
  /\ calls' = [calls EXCEPT ![c] = @ + 1]
  /\ cur' = [cur EXCEPT ![c] = 0]
  /\ first' = [first EXCEPT ![c] = 0]
  /\ result' = [result EXCEPT ![c] = "pending"]
  /\ Goto(c, "loop")
  /\ UNCHANGED <<chainVars, workVars, wake>>

\* The range is fixed here, from an _active read without its lock.
StartCall(c) ==
  /\ pc[c] = "idle"
  /\ calls[c] < MaxCalls
  /\ calls' = [calls EXCEPT ![c] = @ + 1]
  /\ cur' = [cur EXCEPT ![c] = active]
  /\ first' = [first EXCEPT ![c] = active]
  /\ result' = [result EXCEPT ![c] = "pending"]
  /\ Goto(c, "loop")
  /\ UNCHANGED <<chainVars, workVars, wake>>

\* One turn of the loop hands the messages to backend i.
CallBackend(c) ==
  /\ pc[c] = "loop"
  /\ cur[c] < N
  /\ work' = [work EXCEPT ![Attempt(c)] = "running"]
  /\ wake' = [wake EXCEPT ![c] = "none"]
  /\ Goto(c, "wait")
  /\ UNCHANGED <<chainVars, cur, first, calls, result, ending, exhausted>>

\* Faulty: the last backend is left out of the range.
AllFailed_OffByOne(c) ==
  /\ pc[c] = "loop"
  /\ cur[c] >= N - 1
  /\ EndCall(c, "allFailed")
  /\ UNCHANGED <<chainVars, workVars, calls, wake>>

\* The range is used up: RuntimeError("all backends failed").
AllFailed(c) ==
  /\ pc[c] = "loop"
  /\ cur[c] >= N
  /\ EndCall(c, "allFailed")
  /\ UNCHANGED <<chainVars, workVars, calls, wake>>

-----------------------------------------------------------------------------
(* The except clauses                                                      *)

\* Faulty: retry_on decides about bugs too.
Propagates_RetryOnDecides(v) ==
  v = "ok" \/ v \notin RetryOn \cup {"deadline", "budget"}

\* The answer is returned and these exceptions leave the call; BackendTimeout
\* and BudgetExhausted are caught before retry_on has a say.
Propagates(v) == \/ v \in {"ok", "bug"}
                 \/ v \notin RetryOn \cup {"deadline", "budget"}

\* The call takes verdict v on backend cur[c] and goes where its clause leads.
Judge(c, v) ==
  \/ /\ Propagates(v)
     /\ EndCall(c, v)
  \/ /\ v = "budget"
     /\ Goto(c, "trip")
     /\ UNCHANGED <<cur, first, result>>
  \/ /\ ~Propagates(v) /\ v # "budget"
     /\ cur' = [cur EXCEPT ![c] = @ + 1]
     /\ Goto(c, "loop")
     /\ UNCHANGED <<first, result>>

\* Faulty: the mark counts trips.
TripPast_Counts(i) ==
  /\ active' = active + 1
  /\ tripped' = tripped \cup {i}
  /\ UNCHANGED options

\* _trip_past, whole under _active_lock.
TripPast(i) ==
  /\ active' = Max(active, i + 1)
  /\ tripped' = tripped \cup {i}
  /\ UNCHANGED options

\* The clause for BudgetExhausted.
Trip(c) ==
  /\ pc[c] = "trip"
  /\ TripPast(cur[c])
  /\ cur' = [cur EXCEPT ![c] = @ + 1]
  /\ Goto(c, "loop")
  /\ UNCHANGED <<workVars, first, calls, wake, result>>

-----------------------------------------------------------------------------
(* Backends                                                                *)

Sync(w) == w[1] \in SyncCallers

\* The backend call of attempt w comes to an end.  On a worker thread the
\* ending has then been appended to `answer` or `failure`.
BackendEnds(w) ==
  /\ work[w] = "running"
  /\ \E e \in OwnEndings :
       /\ ending' = [ending EXCEPT ![w] = e]
       /\ exhausted' = exhausted \cup (IF e = "budget" THEN {w[3]} ELSE {})
  /\ work' = [work EXCEPT ![w] =
                IF Sync(w) /\ HasDeadline THEN "landed" ELSE "done"]
  /\ UNCHANGED <<chainVars, pc, callerVars>>

\* Faulty: the worker leaves the trip to its caller.
WorkerTrips_ByCaller(w) ==
  /\ work[w] = "landed"
  /\ ending[w] = "budget"
  /\ work' = [work EXCEPT ![w] = "tripped"]
  /\ UNCHANGED <<chainVars, pc, callerVars, ending, exhausted>>

\* The except clause of the worker, on its own thread, abandoned or not.
WorkerTrips(w) ==
  /\ work[w] = "landed"
  /\ ending[w] = "budget"
  /\ TripPast(w[3])
  /\ work' = [work EXCEPT ![w] = "tripped"]
  /\ UNCHANGED <<pc, callerVars, ending, exhausted>>

\* The caller of attempt w waits for it, and has not given it up.
Awaited(w) == pc[w[1]] = "wait" /\ Attempt(w[1]) = w

\* Faulty: the worker may end without having tripped the chain.
WorkerEnds_Early(w) ==
  /\ work[w] \in {"landed", "tripped"}
  /\ work' = [work EXCEPT ![w] = "done"]
  /\ ending' = [ending EXCEPT ![w] = IF Awaited(w) THEN @ ELSE "none"]
  /\ UNCHANGED <<chainVars, pc, callerVars, exhausted>>

\* The worker thread is no longer alive.  What an abandoned one has appended
\* is discarded.
WorkerEnds(w) ==
  /\ \/ work[w] = "landed" /\ ending[w] # "budget"
     \/ work[w] = "tripped"
  /\ work' = [work EXCEPT ![w] = "done"]
  /\ ending' = [ending EXCEPT ![w] = IF Awaited(w) THEN @ ELSE "none"]
  /\ UNCHANGED <<chainVars, pc, callerVars, exhausted>>

\* A task that was asked to stop: CancelledError if the backend lets it through,
\* and any other ending if it does not.
CancelledTaskEnds(w) ==
  /\ work[w] = "cancelling"
  /\ \E e \in Endings :
       /\ ending' = [ending EXCEPT ![w] = e]
       /\ exhausted' = exhausted \cup (IF e = "budget" THEN {w[3]} ELSE {})
  /\ work' = [work EXCEPT ![w] = "done"]
  /\ UNCHANGED <<chainVars, pc, callerVars>>

-----------------------------------------------------------------------------
(* Waiting for the backend                                                 *)

\* The caller takes over how its attempt has ended.
Collect(w) == /\ ending' = [ending EXCEPT ![w] = "none"]
              /\ UNCHANGED <<work, exhausted>>

\* join() returns because the worker is gone, or the backend returned in place.
BackendReturned(c) ==
  /\ c \in SyncCallers
  /\ pc[c] = "wait"
  /\ work[Attempt(c)] = "done"
  /\ Judge(c, ending[Attempt(c)])
  /\ Collect(Attempt(c))
  /\ UNCHANGED <<chainVars, calls, wake>>

\* Faulty: the deadline is one more exception for retry_on.
JoinTimesOut_RetryOn(c) ==
  /\ c \in SyncCallers
  /\ HasDeadline
  /\ pc[c] = "wait"
  /\ work[Attempt(c)] # "done"
  /\ Judge(c, "timeout")
  /\ UNCHANGED <<chainVars, workVars, calls, wake>>

\* Faulty: the deadline is not taken, the caller waits for the worker.
JoinTimesOut_Never(c) == FALSE /\ UNCHANGED vars

\* join() returns with the worker alive: BackendTimeout, whatever it has
\* appended meanwhile.
JoinTimesOut(c) ==
  /\ c \in SyncCallers
  /\ HasDeadline
  /\ pc[c] = "wait"
  /\ work[Attempt(c)] # "done"
  /\ Judge(c, "deadline")
  /\ UNCHANGED <<chainVars, workVars, calls, wake>>

\* An async caller is interrupted while it awaits: by the timer of wait_for
\* (why = "deadline") or because its own task is cancelled.  The backend's task
\* is asked to stop, unless it ended in the same turn of the event loop: then
\* there is nothing to stop and the interruption arrives in place of the ending.
InterruptWait(c, why, late) ==
  /\ c \in AsyncCallers
  /\ pc[c] = "wait"
  /\ wake[c] = "none"
  /\ \/ /\ work[Attempt(c)] = "running"
        /\ work' = [work EXCEPT ![Attempt(c)] = "cancelling"]
        /\ wake' = [wake EXCEPT ![c] = why]
     \/ /\ work[Attempt(c)] = "done"
        /\ HasDeadline
        /\ wake' = [wake EXCEPT ![c] = late]
        /\ UNCHANGED work
  /\ UNCHANGED <<chainVars, pc, cur, first, calls, result, ending, exhausted>>

DeadlinePasses(c) == HasDeadline /\ InterruptWait(c, "deadline", "lateDeadline")

CallerCancelled(c) == InterruptWait(c, "cancel", "lateCancel")

\* What leaves wait_for, or the bare await, in the async caller: the ending of
\* the task, except that a cancelled task at the deadline is BackendTimeout, and
\* that a TimeoutError or CancelledError that came too late to cancel the task
\* replaces its ending.  task.cancelled() is false then, so that TimeoutError
\* passes for one of the backend's own.
AsyncVerdict(c) ==
  CASE wake[c] = "lateDeadline" -> "timeout"
    [] wake[c] = "lateCancel"   -> "cancelled"
    [] wake[c] = "deadline" /\ ending[Attempt(c)] = "cancelled" -> "deadline"
    [] OTHER -> ending[Attempt(c)]

AwaitReturns(c) ==
  /\ c \in AsyncCallers
  /\ pc[c] = "wait"
  /\ work[Attempt(c)] = "done"
  /\ Judge(c, AsyncVerdict(c))
  /\ Collect(Attempt(c))
  /\ UNCHANGED <<chainVars, calls, wake>>

-----------------------------------------------------------------------------

\* The steps of a call that has begun, once it need not wait any longer.
CallerStep(c) == \/ CallBackend(c) \/ AllFailed(c) \/ Trip(c)
                 \/ BackendReturned(c) \/ JoinTimesOut(c)
                 \/ DeadlinePasses(c) \/ AwaitReturns(c)

WorkerStep(w) == WorkerTrips(w) \/ WorkerEnds(w)

Next == \/ \E c \in Callers : StartCall(c) \/ CallerStep(c) \/ CallerCancelled(c)
        \/ \E w \in Attempts : BackendEnds(w) \/ CancelledTaskEnds(w) \/ WorkerStep(w)

Spec == Init /\ [][Next]_vars

\* Callers and worker threads are scheduled and timers fire; a backend that is
\* cancelled stops in the end.  A backend that is not cancelled may hang, and
\* nobody has to call.
FairSpec == /\ Spec
            /\ \A c \in Callers : WF_vars(CallerStep(c))
            /\ \A w \in Attempts : WF_vars(WorkerStep(w)) /\ WF_vars(CancelledTaskEnds(w))

-----------------------------------------------------------------------------
(* Properties                                                              *)

\* The mark stays within one past the last backend, and every caller and attempt
\* is at a step it has.
TypeOK ==
  /\ options \in Options
  /\ active \in 0..N
  /\ pc \in [Callers -> {"idle", "loop", "wait", "trip"}]
  /\ cur \in [Callers -> 0..N]
  /\ first \in [Callers -> 0..N]
  /\ calls \in [Callers -> 0..MaxCalls]
  /\ work \in [Attempts -> {"none", "running", "landed", "tripped", "cancelling", "done"}]
  /\ ending \in [Attempts -> Endings \cup {"none"}]
  /\ wake \in [Callers -> {"none", "deadline", "cancel", "lateDeadline", "lateCancel"}]
  /\ result \in [Callers -> Results]
  /\ exhausted \subseteq Backends
  /\ tripped \subseteq Backends

\* "it advances monotonically even when a timed-out worker writes it from its
\* own thread": no step of anybody moves the mark back.
ActiveOnlyAdvances == [][active' >= active]_active

\* "skipped for the rest of this object's life": a call that starts after a
\* trip, by whichever thread and in whichever order, begins past that backend.
NewCallsSkipTripped ==
  [][\A c \in Callers : calls'[c] # calls[c] => \A i \in tripped : i < cur'[c]]_vars

\* A BudgetExhausted is never lost on the way to the mark: it is with a worker
\* that is still alive, abandoned or not, or with a call, until the chain is
\* past the backend that raised it.
ExhaustionTrips ==
  \A i \in exhausted :
    \/ i \in tripped
    \/ \E c \in Callers : pc[c] = "trip" /\ cur[c] = i
    \/ \E w \in Attempts : /\ w[3] = i /\ ending[w] = "budget"
                           /\ work[w] = "landed" \/ (work[w] = "done" /\ Awaited(w))

\* The backend of c has not answered in time, or failed in a way that retry_on
\* matches and that is no bug.  An own TimeoutError of a backend is the backend's,
\* on both paths, and retry_on decides.
MayBePassed(c) ==
  \/ ending[Attempt(c)] \in RetryOn \ {"bug"}
  \/ HasDeadline /\ Sync(Attempt(c)) /\ work[Attempt(c)] # "done"
  \/ HasDeadline /\ ~Sync(Attempt(c)) /\ ending[Attempt(c)] = "cancelled"

\* The corner in which the backend's ending, a bug or an answer included, is lost: the
\* interruption came in the very turn in which the backend ended, and retry_on
\* matches it.
RetriedLate(c) == /\ wake[c] \in {"lateDeadline", "lateCancel"}
                  /\ AsyncVerdict(c) \in RetryOn

\* A call passes on only from a backend that may be passed, whatever retry_on matches:
\* "so fallback never masks a programming error"; but for that corner.
FallsThroughOnlyWhenAllowed ==
  [][\A c \in Callers : pc[c] = "wait" /\ pc'[c] = "loop" =>
       MayBePassed(c) \/ RetriedLate(c)]_vars

\* "all backends failed" is raised only after every backend from the one that
\* was active when the call began has been asked.
AllFailedMeansAllTried ==
  [][\A c \in Callers : result[c] = "pending" /\ result'[c] = "allFailed" =>
       \A i \in Backends : i >= first[c] => work[<<c, calls[c], i>>] # "none"]_vars

\* A deadline is "always retryable, whatever `retry_on` narrows to": a call
\* fails with a TimeoutError only if a backend of it has raised one.
DeadlineNeverPropagates ==
  [][\A c \in Callers : result[c] = "pending" /\ result'[c] = "timeout" =>
       ending[Attempt(c)] = "timeout"]_vars

\* With a deadline a call comes to its end although backends hang.
CallsEndDespiteHangs ==
  \A c \in Callers : (HasDeadline /\ pc[c] # "idle") ~> pc[c] = "idle"

\* "a `BudgetExhausted` it raises afterwards ... still trips the chain": the
\* worker's exception reaches the mark without help from any caller.
LateExhaustionTrips ==
  \A w \in Attempts : (Sync(w) /\ ending[w] = "budget") ~> active > w[3]

\* "That provider is skipped": whatever is skipped lies before a provider that ran
\* out of budget, however the trips of callers and abandoned workers overtake each
\* other; the mark does not run on by itself.
MarkStandsAfterExhausted == active > 0 => active - 1 \in exhausted

\* No invariant: only providers that ran out of budget are skipped.  A call that fell
\* through from one that failed otherwise trips past both.
OnlyExhaustedAreSkipped == \A i \in Backends : i < active => i \in exhausted

=============================================================================
