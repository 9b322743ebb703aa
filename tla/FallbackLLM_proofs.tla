-------------------------- MODULE FallbackLLM_proofs --------------------------
(***************************************************************************)
(* Proofs about FallbackLLM for any number of backends, callers and calls. *)
(***************************************************************************)
EXTENDS FallbackLLM, TLAPS

\* A call under way has been counted, and its loop variable names a backend
\* whenever it waits for one or trips past it.
CallsInBounds ==
  \A c \in Callers :
    /\ pc[c] # "idle" => calls[c] \in 1..MaxCalls
    /\ pc[c] \in {"wait", "trip"} => cur[c] \in Backends

\* Whoever goes on to use an ending finds one.
EndingsAreKnown ==
  \A w \in Attempts :
    /\ work[w] \in {"landed", "tripped"} => ending[w] # "none"
    /\ work[w] = "done" /\ Awaited(w) => ending[w] # "none"

\* The mark is past every backend that was tripped.
MarkIsPastTripped == \A i \in tripped : i < active

TypeInv == TypeOK /\ CallsInBounds /\ EndingsAreKnown

IInv == TypeInv /\ MarkIsPastTripped

-----------------------------------------------------------------------------

\* The attempt a waiting caller stands for is one of the attempts.
LEMMA AttemptType ==
  ASSUME TypeOK, CallsInBounds, NEW c \in Callers,
         pc[c] # "idle", cur[c] \in Backends
  PROVE  Attempt(c) \in Attempts /\ Attempt(c)[1] = c /\ Attempt(c)[3] = cur[c]
BY DEF TypeOK, CallsInBounds, Attempt, Attempts

\* The components of an attempt.
LEMMA AttemptParts ==
  ASSUME NEW w \in Attempts
  PROVE  w[1] \in Callers /\ w[2] \in 1..MaxCalls /\ w[3] \in Backends
BY DEF Attempts

\* _trip_past keeps the mark in range, moves it forward and past its argument.
LEMMA TripPastMovesOn ==
  ASSUME TypeOK, MarkIsPastTripped, NEW i \in Backends, TripPast(i)
  PROVE  /\ active' \in 0..N /\ tripped' \subseteq Backends
         /\ options' \in Options
         /\ active' >= active
         /\ MarkIsPastTripped'
BY NAssumption DEF TypeOK, MarkIsPastTripped, TripPast, Max, Backends

\* Where the except clauses may lead a call whose verdict is known.
LEMMA JudgeType ==
  ASSUME TypeOK, CallsInBounds, NEW c \in Callers, pc[c] = "wait",
         NEW v \in Endings \cup {"deadline"}, Judge(c, v), UNCHANGED calls
  PROVE  /\ pc' \in [Callers -> {"idle", "loop", "wait", "trip"}]
         /\ cur' \in [Callers -> 0..N]
         /\ first' \in [Callers -> 0..N]
         /\ result' \in [Callers -> Results]
         /\ CallsInBounds'
         /\ pc'[c] # "wait"
         /\ \A d \in Callers \ {c} : pc'[d] = pc[d] /\ cur'[d] = cur[d]
<1>1. cur[c] \in Backends /\ cur[c] + 1 \in 0..N
  BY NAssumption DEF TypeOK, CallsInBounds, Backends
<1>2. CASE Propagates(v) /\ EndCall(c, v)
  <2>1. v \in Results
    BY <1>2 DEF Propagates, Results, Endings
  <2>. QED BY <1>2, <2>1, NAssumption DEF TypeOK, CallsInBounds, EndCall, Goto
<1>3. CASE v = "budget" /\ Goto(c, "trip") /\ UNCHANGED <<cur, first, result>>
  BY <1>1, <1>3 DEF TypeOK, CallsInBounds, Goto
<1>4. CASE cur' = [cur EXCEPT ![c] = @ + 1] /\ Goto(c, "loop") /\ UNCHANGED <<first, result>>
  BY <1>1, <1>4 DEF TypeOK, CallsInBounds, Goto
<1>. QED BY <1>2, <1>3, <1>4 DEF Judge

-----------------------------------------------------------------------------

\* Initially nothing has been called or tripped.
LEMMA InitInv == Init => IInv
BY NAssumption, MaxCallsAssumption
   DEF Init, IInv, TypeInv, TypeOK, CallsInBounds, EndingsAreKnown,
       MarkIsPastTripped, Results, Backends, Awaited

\* Every step preserves the inductive invariant.
LEMMA NextInv == IInv /\ [Next]_vars => IInv'
<1>. SUFFICES ASSUME IInv, [Next]_vars PROVE IInv'
  OBVIOUS
<1>. USE DEF IInv, TypeInv
<1>1. ASSUME NEW c \in Callers, StartCall(c) PROVE IInv'
  <2>1. TypeOK'
    BY <1>1, MaxCallsAssumption
       DEF StartCall, Goto, TypeOK, Results, chainVars, workVars
  <2>2. CallsInBounds' /\ MarkIsPastTripped'
    BY <1>1, MaxCallsAssumption
       DEF StartCall, Goto, TypeOK, CallsInBounds, MarkIsPastTripped, chainVars
  <2>3. EndingsAreKnown'
    BY <1>1 DEF StartCall, Goto, TypeOK, EndingsAreKnown, Awaited, Attempt, workVars, Attempts
  <2>. QED BY <2>1, <2>2, <2>3
<1>2. ASSUME NEW c \in Callers, CallBackend(c) PROVE IInv'
  <2>1. cur[c] \in Backends
    BY <1>2, NAssumption DEF CallBackend, TypeOK, Backends
  <2>2. TypeOK' /\ CallsInBounds' /\ MarkIsPastTripped'
    BY <1>2, <2>1
       DEF CallBackend, Goto, TypeOK, CallsInBounds, MarkIsPastTripped, chainVars
  <2>3. EndingsAreKnown'
    BY <1>2, <2>1 DEF CallBackend, Goto, TypeOK, EndingsAreKnown, Awaited, Attempt, Attempts
  <2>. QED BY <2>2, <2>3
<1>3. ASSUME NEW c \in Callers, AllFailed(c) PROVE IInv'
  <2>1. TypeOK' /\ CallsInBounds' /\ MarkIsPastTripped'
    BY <1>3, NAssumption
       DEF AllFailed, EndCall, Goto, TypeOK, CallsInBounds, MarkIsPastTripped,
           Results, chainVars, workVars
  <2>2. EndingsAreKnown'
    BY <1>3 DEF AllFailed, EndCall, Goto, TypeOK, EndingsAreKnown, Awaited, Attempt, workVars, Attempts
  <2>. QED BY <2>1, <2>2
<1>4. ASSUME NEW c \in Callers, Trip(c) PROVE IInv'
  <2>1. cur[c] \in Backends /\ cur[c] + 1 \in 0..N
    BY <1>4, NAssumption DEF Trip, TypeOK, CallsInBounds, Backends
  <2>2. /\ active' \in 0..N /\ tripped' \subseteq Backends /\ options' \in Options
        /\ MarkIsPastTripped'
    BY <1>4, <2>1, TripPastMovesOn DEF Trip
  <2>3. TypeOK' /\ CallsInBounds'
    BY <1>4, <2>1, <2>2 DEF Trip, Goto, TypeOK, CallsInBounds, workVars
  <2>4. EndingsAreKnown'
    BY <1>4 DEF Trip, Goto, TypeOK, EndingsAreKnown, Awaited, Attempt, workVars, Attempts
  <2>. QED BY <2>2, <2>3, <2>4
<1>5. ASSUME NEW c \in Callers, BackendReturned(c) PROVE IInv'
  <2>1. Attempt(c) \in Attempts /\ Attempt(c)[1] = c
    BY <1>5, AttemptType DEF BackendReturned, CallsInBounds
  <2>2. ending[Attempt(c)] \in Endings \cup {"deadline"}
    BY <1>5, <2>1 DEF BackendReturned, TypeOK, EndingsAreKnown, Awaited
  <2>3. UNCHANGED <<options, active, tripped, calls, wake, work, exhausted>>
    BY <1>5 DEF BackendReturned, Collect, chainVars
  <2>4. /\ pc' \in [Callers -> {"idle", "loop", "wait", "trip"}]
        /\ cur' \in [Callers -> 0..N] /\ first' \in [Callers -> 0..N]
        /\ result' \in [Callers -> Results]
        /\ CallsInBounds' /\ pc'[c] # "wait"
        /\ \A d \in Callers \ {c} : pc'[d] = pc[d] /\ cur'[d] = cur[d]
    BY <1>5, <2>2, <2>3, JudgeType DEF BackendReturned
  <2>5. TypeOK' /\ MarkIsPastTripped'
    BY <1>5, <2>3, <2>4 DEF BackendReturned, Collect, TypeOK, MarkIsPastTripped
  <2>6. EndingsAreKnown'
    <3>1. ending' = [ending EXCEPT ![Attempt(c)] = "none"] /\ work[Attempt(c)] = "done"
      BY <1>5 DEF BackendReturned, Collect
    <3>2. ASSUME NEW w \in Attempts, Awaited(w)' PROVE Awaited(w) /\ w # Attempt(c)
      BY <2>1, <2>3, <2>4, <3>2, AttemptParts DEF Awaited, Attempt
    <3>. QED BY <2>1, <2>3, <3>1, <3>2 DEF EndingsAreKnown, TypeOK
  <2>. QED BY <2>4, <2>5, <2>6
<1>6. ASSUME NEW c \in Callers, JoinTimesOut(c) PROVE IInv'
  <2>1. UNCHANGED <<options, active, tripped, calls, wake, work, ending, exhausted>>
    BY <1>6 DEF JoinTimesOut, chainVars, workVars
  <2>2. /\ pc' \in [Callers -> {"idle", "loop", "wait", "trip"}]
        /\ cur' \in [Callers -> 0..N] /\ first' \in [Callers -> 0..N]
        /\ result' \in [Callers -> Results]
        /\ CallsInBounds' /\ pc'[c] # "wait"
        /\ \A d \in Callers \ {c} : pc'[d] = pc[d] /\ cur'[d] = cur[d]
    BY <1>6, <2>1, JudgeType DEF JoinTimesOut
  <2>3. TypeOK' /\ MarkIsPastTripped'
    BY <2>1, <2>2 DEF TypeOK, MarkIsPastTripped
  <2>4. EndingsAreKnown'
    <3>1. ASSUME NEW w \in Attempts, Awaited(w)' PROVE Awaited(w)
      BY <2>1, <2>2, <3>1, AttemptParts DEF Awaited, Attempt
    <3>. QED BY <2>1, <3>1 DEF EndingsAreKnown
  <2>. QED BY <2>2, <2>3, <2>4
<1>7. ASSUME NEW c \in Callers, DeadlinePasses(c) \/ CallerCancelled(c) PROVE IInv'
  <2>1. /\ pc[c] = "wait"
        /\ UNCHANGED <<options, active, tripped, pc, cur, first, calls, result, ending, exhausted>>
        /\ \/ work[Attempt(c)] = "running" /\ work' = [work EXCEPT ![Attempt(c)] = "cancelling"]
           \/ work' = work
        /\ wake' \in [Callers -> {"none", "deadline", "cancel", "lateDeadline", "lateCancel"}]
    BY <1>7 DEF DeadlinePasses, CallerCancelled, InterruptWait, chainVars, TypeOK
  <2>2. Attempt(c) \in Attempts
    BY <2>1, AttemptType DEF CallsInBounds
  <2>3. TypeOK' /\ CallsInBounds' /\ MarkIsPastTripped'
    BY <2>1, <2>2 DEF TypeOK, CallsInBounds, MarkIsPastTripped
  <2>4. EndingsAreKnown'
    BY <2>1, <2>2 DEF EndingsAreKnown, Awaited, Attempt, TypeOK
  <2>. QED BY <2>3, <2>4
<1>8. ASSUME NEW c \in Callers, AwaitReturns(c) PROVE IInv'
  <2>1. Attempt(c) \in Attempts /\ Attempt(c)[1] = c
    BY <1>8, AttemptType DEF AwaitReturns, CallsInBounds
  <2>2. ending[Attempt(c)] \in Endings
    BY <1>8, <2>1 DEF AwaitReturns, TypeOK, EndingsAreKnown, Awaited
  <2>3. AsyncVerdict(c) \in Endings \cup {"deadline"}
    BY <2>2 DEF AsyncVerdict, Endings
  <2>4. UNCHANGED <<options, active, tripped, calls, wake, work, exhausted>>
    BY <1>8 DEF AwaitReturns, Collect, chainVars
  <2>5. /\ pc' \in [Callers -> {"idle", "loop", "wait", "trip"}]
        /\ cur' \in [Callers -> 0..N] /\ first' \in [Callers -> 0..N]
        /\ result' \in [Callers -> Results]
        /\ CallsInBounds' /\ pc'[c] # "wait"
        /\ \A d \in Callers \ {c} : pc'[d] = pc[d] /\ cur'[d] = cur[d]
    BY <1>8, <2>3, <2>4, JudgeType DEF AwaitReturns
  <2>6. TypeOK' /\ MarkIsPastTripped'
    BY <1>8, <2>4, <2>5 DEF AwaitReturns, Collect, TypeOK, MarkIsPastTripped
  <2>7. EndingsAreKnown'
    <3>1. ending' = [ending EXCEPT ![Attempt(c)] = "none"] /\ work[Attempt(c)] = "done"
      BY <1>8 DEF AwaitReturns, Collect
    <3>2. ASSUME NEW w \in Attempts, Awaited(w)' PROVE Awaited(w) /\ w # Attempt(c)
      BY <2>1, <2>4, <2>5, <3>2, AttemptParts DEF Awaited, Attempt
    <3>. QED BY <2>1, <2>4, <3>1, <3>2 DEF EndingsAreKnown, TypeOK
  <2>. QED BY <2>5, <2>6, <2>7
<1>9. ASSUME NEW w \in Attempts, BackendEnds(w) \/ CancelledTaskEnds(w) PROVE IInv'
  <2>1. PICK e \in Endings :
          /\ ending' = [ending EXCEPT ![w] = e]
          /\ exhausted' = exhausted \cup (IF e = "budget" THEN {w[3]} ELSE {})
    BY <1>9, OwnEndingsAssumption DEF BackendEnds, CancelledTaskEnds
  <2>2. /\ UNCHANGED <<options, active, tripped, pc, cur, first, calls, wake, result>>
        /\ \/ work' = [work EXCEPT ![w] = "landed"]
           \/ work' = [work EXCEPT ![w] = "done"]
    BY <1>9 DEF BackendEnds, CancelledTaskEnds, chainVars, callerVars
  <2>3. TypeOK' /\ CallsInBounds' /\ MarkIsPastTripped'
    BY <2>1, <2>2, AttemptParts DEF TypeOK, CallsInBounds, MarkIsPastTripped
  <2>4. EndingsAreKnown'
    BY <2>1, <2>2 DEF EndingsAreKnown, Awaited, Attempt, TypeOK, Endings
  <2>. QED BY <2>3, <2>4
<1>10. ASSUME NEW w \in Attempts, WorkerTrips(w) PROVE IInv'
  <2>1. /\ active' \in 0..N /\ tripped' \subseteq Backends /\ options' \in Options
        /\ MarkIsPastTripped'
    BY <1>10, AttemptParts, TripPastMovesOn DEF WorkerTrips
  <2>2. TypeOK' /\ CallsInBounds'
    BY <1>10, <2>1 DEF WorkerTrips, TypeOK, CallsInBounds, callerVars
  <2>3. EndingsAreKnown'
    BY <1>10 DEF WorkerTrips, EndingsAreKnown, Awaited, Attempt, TypeOK, callerVars
  <2>. QED BY <2>1, <2>2, <2>3
<1>11. ASSUME NEW w \in Attempts, WorkerEnds(w) PROVE IInv'
  <2>1. TypeOK' /\ CallsInBounds' /\ MarkIsPastTripped'
    BY <1>11 DEF WorkerEnds, TypeOK, CallsInBounds, MarkIsPastTripped, callerVars, chainVars
  <2>2. EndingsAreKnown'
    BY <1>11 DEF WorkerEnds, EndingsAreKnown, Awaited, Attempt, TypeOK, callerVars
  <2>. QED BY <2>1, <2>2
<1>12. CASE UNCHANGED vars
  BY <1>12 DEF vars, TypeOK, CallsInBounds, EndingsAreKnown, MarkIsPastTripped,
               Awaited, Attempt
<1>. QED
  BY <1>1, <1>2, <1>3, <1>4, <1>5, <1>6, <1>7, <1>8, <1>9, <1>10, <1>11, <1>12
     DEF Next, CallerStep, WorkerStep

-----------------------------------------------------------------------------

\* The state of the chain is always well-formed.
THEOREM InvariantHolds == Spec => []IInv
BY InitInv, NextInv, PTL DEF Spec

\* Every variable keeps to its type, the mark to 0..N in particular, for any
\* number of backends, callers and calls.
THEOREM TypeCorrect == Spec => []TypeOK
BY InvariantHolds, PTL DEF IInv, TypeInv

\* Nobody writes the mark but _trip_past.
LEMMA MarkStep ==
  IInv /\ [Next]_vars => active' >= active
<1>. SUFFICES ASSUME IInv, [Next]_vars PROVE active' >= active
  OBVIOUS
<1>1. ASSUME NEW c \in Callers, Trip(c) PROVE active' >= active
  BY <1>1, TripPastMovesOn DEF Trip, IInv, TypeInv, CallsInBounds
<1>2. ASSUME NEW w \in Attempts, WorkerTrips(w) PROVE active' >= active
  BY <1>2, TripPastMovesOn, AttemptParts DEF WorkerTrips, IInv, TypeInv
<1>3. active' = active => active' >= active
  BY DEF IInv, TypeInv, TypeOK
<1>. QED
  BY <1>1, <1>2, <1>3
     DEF Next, CallerStep, WorkerStep, StartCall, CallBackend, AllFailed,
         BackendReturned, JoinTimesOut, DeadlinePasses, CallerCancelled,
         InterruptWait, AwaitReturns, BackendEnds, CancelledTaskEnds,
         WorkerEnds, chainVars, vars

\* A call begins at the mark.
LEMMA StartStep ==
  ASSUME IInv, [Next]_vars, NEW c \in Callers, calls'[c] # calls[c]
  PROVE  cur'[c] = active
<1>1. PICK d \in Callers : StartCall(d)
  BY DEF Next, CallerStep, WorkerStep, CallBackend, AllFailed, Trip,
         BackendReturned, JoinTimesOut, DeadlinePasses, CallerCancelled,
         InterruptWait, AwaitReturns, BackendEnds, CancelledTaskEnds,
         WorkerTrips, WorkerEnds, callerVars, vars
<1>2. c = d
  BY <1>1 DEF StartCall, IInv, TypeInv, TypeOK
<1>. QED BY <1>1, <1>2 DEF StartCall, IInv, TypeInv, TypeOK

\* The high-water mark never moves back, whoever writes it.
THEOREM ActiveMonotone == Spec => ActiveOnlyAdvances
<1>1. IInv /\ [Next]_vars => [active' >= active]_active
  BY MarkStep
<1>. QED BY <1>1, InvariantHolds, PTL DEF Spec, ActiveOnlyAdvances

\* A call that starts after a trip begins past the backend that was tripped:
\* it starts at the mark, and the mark is past every such backend.
THEOREM StartsPastTripped == Spec => NewCallsSkipTripped
<1>1. IInv /\ [Next]_vars =>
        [\A c \in Callers : calls'[c] # calls[c] => \A i \in tripped : i < cur'[c]]_vars
  BY StartStep DEF IInv, MarkIsPastTripped
<1>. QED BY <1>1, InvariantHolds, PTL DEF Spec, NewCallsSkipTripped

-----------------------------------------------------------------------------
(* What is under way, and how nothing of it is lost                        *)

\* A call the caller may still make: a later call of its own, or a backend
\* its loop has yet to reach.
Ahead(w) ==
  \/ w[2] > calls[w[1]]
  \/ /\ w[2] = calls[w[1]]
     /\ \/ pc[w[1]] = "loop" /\ w[3] >= cur[w[1]]
        \/ pc[w[1]] \in {"wait", "trip"} /\ w[3] > cur[w[1]]

\* No attempt is made twice.
AheadIsFresh == \A w \in Attempts : Ahead(w) => work[w] = "none"

\* Only the work of a task is ever cancelled, and the task waits until it has ended.
\* Only a thread with a deadline gives its backend up.
WorkIsAwaited ==
  \A w \in Attempts :
    /\ work[w] = "cancelling" => ~Sync(w) /\ Awaited(w)
    /\ work[w] = "running" => Awaited(w) \/ (Sync(w) /\ HasDeadline)

\* No timer fires, and no cancellation arrives, in the turn of the event loop in
\* which the awaited task has completed.
NobodyIsLate == \A c \in Callers : wake[c] \notin {"lateDeadline", "lateCancel"}

\* The constructor's arguments are never written again.
LEMMA OptionsStep ==
  ASSUME [Next]_vars PROVE UNCHANGED options /\ HasDeadline' = HasDeadline
BY DEF Next, CallerStep, WorkerStep, StartCall, CallBackend, AllFailed, Trip, TripPast,
       BackendReturned, JoinTimesOut, DeadlinePasses, CallerCancelled,
       InterruptWait, AwaitReturns, BackendEnds, CancelledTaskEnds,
       WorkerTrips, WorkerEnds, chainVars, vars, HasDeadline

WorkInv == IInv /\ AheadIsFresh /\ WorkIsAwaited

\* What Judge leaves of the loop of caller c: past the backend, or over.
LEMMA JudgeMovesOn ==
  ASSUME TypeOK, NEW c \in Callers, NEW v, Judge(c, v)
  PROVE  \/ pc'[c] = "idle"
         \/ pc'[c] = "trip" /\ cur'[c] = cur[c] /\ v = "budget"
         \/ pc'[c] = "loop" /\ cur'[c] = cur[c] + 1
BY DEF Judge, EndCall, Goto, TypeOK

\* The auxiliary facts are preserved by every step.
LEMMA WorkStep ==
  ASSUME WorkInv, [Next]_vars
  PROVE  WorkInv'
<1>1. IInv /\ IInv'
  BY NextInv DEF WorkInv
<1>0. HasDeadline' = HasDeadline
  BY OptionsStep
<1>. USE DEF WorkInv
<1>2. ASSUME NEW c \in Callers, StartCall(c) PROVE AheadIsFresh' /\ WorkIsAwaited'
  BY <1>0, <1>1, <1>2, AttemptParts
     DEF StartCall, Goto, workVars, AheadIsFresh, WorkIsAwaited, Sync, Ahead, Awaited,
         Attempt, IInv, TypeInv, TypeOK, CallsInBounds
<1>3. ASSUME NEW c \in Callers, CallBackend(c) PROVE AheadIsFresh' /\ WorkIsAwaited'
  <2>1. cur[c] \in Backends
    BY <1>3, NAssumption DEF CallBackend, IInv, TypeInv, TypeOK, Backends
  <2>2. Attempt(c) \in Attempts /\ work' = [work EXCEPT ![Attempt(c)] = "running"]
    BY <1>3, <2>1, AttemptType DEF CallBackend, IInv, TypeInv
  <2>3. AheadIsFresh'
    <3>1. /\ pc[c] = "loop" /\ pc'[c] = "wait" /\ UNCHANGED <<calls, cur>>
          /\ \A d \in Callers \ {c} : pc'[d] = pc[d]
      BY <1>3 DEF CallBackend, Goto, IInv, TypeInv, TypeOK
    <3>2. ASSUME NEW w \in Attempts, Ahead(w)' PROVE Ahead(w) /\ w # Attempt(c)
      <4>1. w[1] \in Callers /\ w[2] \in Nat /\ w[3] \in Nat /\ cur[c] \in Nat /\ calls[c] \in Nat
        BY <2>1, AttemptParts DEF Backends, IInv, TypeInv, TypeOK
      <4>2. CASE w[1] = c
        BY <3>1, <3>2, <4>1, <4>2 DEF Ahead, Attempt
      <4>3. CASE w[1] # c
        BY <3>1, <3>2, <4>1, <4>3 DEF Ahead, Attempt
      <4>. QED BY <4>2, <4>3
    <3>. QED BY <2>2, <3>2 DEF AheadIsFresh, IInv, TypeInv, TypeOK
  <2>4. WorkIsAwaited'
    BY <1>0, <1>3, <2>1, <2>2, AttemptParts
       DEF CallBackend, Goto, WorkIsAwaited, Sync, Awaited, Attempt, IInv, TypeInv, TypeOK
  <2>. QED BY <2>3, <2>4
<1>4. ASSUME NEW c \in Callers, AllFailed(c) PROVE AheadIsFresh' /\ WorkIsAwaited'
  BY <1>0, <1>1, <1>4, AttemptParts
     DEF AllFailed, EndCall, Goto, workVars, AheadIsFresh, WorkIsAwaited, Sync, Ahead, Awaited,
         Attempt, IInv, TypeInv, TypeOK
<1>5. ASSUME NEW c \in Callers, Trip(c) PROVE AheadIsFresh' /\ WorkIsAwaited'
  BY <1>0, <1>1, <1>5, AttemptParts
     DEF Trip, Goto, workVars, AheadIsFresh, WorkIsAwaited, Sync, Ahead, Awaited,
         Attempt, IInv, TypeInv, TypeOK, CallsInBounds, Backends
<1>6. ASSUME NEW c \in Callers, BackendReturned(c) \/ JoinTimesOut(c) \/ AwaitReturns(c)
      PROVE AheadIsFresh' /\ WorkIsAwaited'
  <2>1. /\ UNCHANGED <<calls, work>> /\ pc[c] = "wait" /\ cur[c] \in Backends
        /\ (c \in SyncCallers /\ HasDeadline) \/ work[Attempt(c)] = "done"
    BY <1>6 DEF BackendReturned, JoinTimesOut, AwaitReturns, Collect, workVars, IInv, TypeInv,
                CallsInBounds
  <2>2. \/ pc'[c] = "idle"
        \/ pc'[c] = "trip" /\ cur'[c] = cur[c]
        \/ pc'[c] = "loop" /\ cur'[c] = cur[c] + 1
    BY <1>6, JudgeMovesOn DEF BackendReturned, JoinTimesOut, AwaitReturns, IInv, TypeInv
  <2>3. \A d \in Callers \ {c} : pc'[d] = pc[d] /\ cur'[d] = cur[d]
    BY <1>6 DEF BackendReturned, JoinTimesOut, AwaitReturns, Judge, EndCall, Goto, IInv,
                TypeInv, TypeOK
  <2>4. AheadIsFresh'
    BY <2>1, <2>2, <2>3, AttemptParts DEF AheadIsFresh, Ahead, Backends
  <2>5. WorkIsAwaited'
    BY <1>0, <2>1, <2>2, <2>3, AttemptParts DEF WorkIsAwaited, Sync, Awaited, Attempt
  <2>. QED BY <2>4, <2>5
<1>7. ASSUME NEW c \in Callers, DeadlinePasses(c) \/ CallerCancelled(c)
      PROVE AheadIsFresh' /\ WorkIsAwaited'
  <2>1. /\ UNCHANGED <<pc, calls, cur>> /\ pc[c] = "wait" /\ cur[c] \in Backends
        /\ c \in AsyncCallers
        /\ \/ /\ work[Attempt(c)] = "running"
              /\ work' = [work EXCEPT ![Attempt(c)] = "cancelling"]
           \/ UNCHANGED work
    BY <1>7 DEF DeadlinePasses, CallerCancelled, InterruptWait, IInv, TypeInv, CallsInBounds
  <2>2. Attempt(c) \in Attempts /\ Attempt(c)[1] = c /\ c \notin SyncCallers
    BY <2>1, AttemptType, CallersAssumption DEF IInv, TypeInv
  <2>3. AheadIsFresh'
    BY <2>1, <2>2, AttemptParts DEF AheadIsFresh, Ahead, IInv, TypeInv, TypeOK
  <2>4. WorkIsAwaited'
    BY <1>0, <2>1, <2>2 DEF WorkIsAwaited, Sync, Awaited, Attempt, IInv, TypeInv, TypeOK
  <2>. QED BY <2>3, <2>4
<1>8. ASSUME NEW w \in Attempts,
             BackendEnds(w) \/ CancelledTaskEnds(w) \/ WorkerTrips(w) \/ WorkerEnds(w)
      PROVE AheadIsFresh' /\ WorkIsAwaited'
  <2>1. /\ UNCHANGED <<pc, calls, cur>>
        /\ work[w] # "none"
        /\ work' = [work EXCEPT ![w] = work'[w]]
        /\ work'[w] \in {"landed", "tripped", "done"}
    BY <1>8 DEF BackendEnds, CancelledTaskEnds, WorkerTrips, WorkerEnds, callerVars,
                IInv, TypeInv, TypeOK
  <2>2. AheadIsFresh'
    BY <2>1 DEF AheadIsFresh, Ahead, IInv, TypeInv, TypeOK
  <2>3. WorkIsAwaited'
    BY <1>0, <2>1 DEF WorkIsAwaited, Sync, Awaited, Attempt, IInv, TypeInv, TypeOK
  <2>. QED BY <2>2, <2>3
<1>9. CASE UNCHANGED vars
  BY <1>0, <1>1, <1>9 DEF vars, AheadIsFresh, WorkIsAwaited, Sync, Ahead, Awaited, Attempt
<1>10. \/ \E c \in Callers : \/ StartCall(c) \/ CallBackend(c) \/ AllFailed(c) \/ Trip(c)
                            \/ BackendReturned(c) \/ JoinTimesOut(c)
                            \/ DeadlinePasses(c) \/ AwaitReturns(c) \/ CallerCancelled(c)
       \/ \E w \in Attempts : \/ BackendEnds(w) \/ CancelledTaskEnds(w)
                             \/ WorkerTrips(w) \/ WorkerEnds(w)
       \/ UNCHANGED vars
  BY DEF Next, CallerStep, WorkerStep
<1>11. AheadIsFresh' /\ WorkIsAwaited'
  <2>1. ASSUME NEW c \in Callers,
               \/ StartCall(c) \/ CallBackend(c) \/ AllFailed(c) \/ Trip(c)
               \/ BackendReturned(c) \/ JoinTimesOut(c)
               \/ DeadlinePasses(c) \/ AwaitReturns(c) \/ CallerCancelled(c)
        PROVE  AheadIsFresh' /\ WorkIsAwaited'
    BY <2>1, <1>2, <1>3, <1>4, <1>5, <1>6, <1>7
  <2>2. ASSUME NEW w \in Attempts,
               BackendEnds(w) \/ CancelledTaskEnds(w) \/ WorkerTrips(w) \/ WorkerEnds(w)
        PROVE  AheadIsFresh' /\ WorkIsAwaited'
    BY <2>2, <1>8
  <2>. QED BY <2>1, <2>2, <1>9, <1>10
<1>. QED BY <1>1, <1>11

\* At the start nothing is under way.
LEMMA WorkInit == Init => WorkInv /\ ExhaustionTrips
<1>. SUFFICES ASSUME Init PROVE WorkInv /\ ExhaustionTrips
  OBVIOUS
<1>1. IInv
  BY InitInv
<1>2. AheadIsFresh /\ WorkIsAwaited /\ ExhaustionTrips
  BY DEF Init, AheadIsFresh, WorkIsAwaited, ExhaustionTrips
<1>. QED BY <1>1, <1>2 DEF WorkInv

\* An attempt that carries a BudgetExhausted towards the mark.
Carries(w) == /\ ending[w] = "budget"
              /\ work[w] = "landed" \/ (work[w] = "done" /\ Awaited(w))

\* Every step hands a BudgetExhausted on: from the backend to its worker or its
\* caller, from there to the mark.
LEMMA ExhaustionStep ==
  ASSUME WorkInv, NobodyIsLate, ExhaustionTrips, [Next]_vars
  PROVE  ExhaustionTrips'
<1>. USE DEF WorkInv, IInv, TypeInv
<1>1. ASSUME NEW i \in exhausted, exhausted' = exhausted, tripped \subseteq tripped',
             \A c \in Callers : pc[c] = "trip" =>
               \/ cur[c] \in tripped'
               \/ pc'[c] = "trip" /\ cur'[c] = cur[c],
             \A w \in Attempts : Carries(w) =>
               \/ Carries(w)'
               \/ w[3] \in tripped'
               \/ \E c \in Callers : pc'[c] = "trip" /\ cur'[c] = w[3]
      PROVE  \/ i \in tripped'
             \/ \E c \in Callers : pc'[c] = "trip" /\ cur'[c] = i
             \/ \E w \in Attempts : w[3] = i /\ Carries(w)'
  BY <1>1 DEF ExhaustionTrips, Carries
<1>2. ASSUME exhausted' = exhausted, tripped \subseteq tripped',
             \A c \in Callers : pc[c] = "trip" =>
               \/ cur[c] \in tripped'
               \/ pc'[c] = "trip" /\ cur'[c] = cur[c],
             \A w \in Attempts : Carries(w) =>
               \/ Carries(w)'
               \/ w[3] \in tripped'
               \/ \E c \in Callers : pc'[c] = "trip" /\ cur'[c] = w[3]
      PROVE  ExhaustionTrips'
  BY <1>1, <1>2 DEF ExhaustionTrips, Carries
<1>3. ASSUME NEW c \in Callers, StartCall(c) \/ AllFailed(c) PROVE ExhaustionTrips'
  <2>1. \A w \in Attempts : Carries(w) => Carries(w)'
    BY <1>3, AttemptParts
       DEF StartCall, AllFailed, EndCall, Goto, workVars, Carries, Awaited, Attempt, TypeOK
  <2>. QED
    BY <1>2, <1>3, <2>1 DEF StartCall, AllFailed, EndCall, Goto, chainVars, workVars, TypeOK
<1>4. ASSUME NEW c \in Callers, CallBackend(c) PROVE ExhaustionTrips'
  <2>1. /\ cur[c] \in Backends /\ calls[c] \in 1..MaxCalls /\ pc[c] = "loop"
        /\ work' = [work EXCEPT ![Attempt(c)] = "running"]
        /\ UNCHANGED <<options, active, tripped, cur, calls, ending, exhausted>>
        /\ \A d \in Callers \ {c} : pc'[d] = pc[d]
        /\ pc'[c] = "wait"
    BY <1>4, NAssumption DEF CallBackend, Goto, chainVars, TypeOK, CallsInBounds, Backends
  <2>2. Attempt(c) \in Attempts /\ work[Attempt(c)] = "none"
    BY <2>1 DEF AheadIsFresh, Ahead, Attempt, Attempts, Backends
  <2>3. \A w \in Attempts : Carries(w) => Carries(w)'
    BY <2>1, <2>2, AttemptParts DEF Carries, Awaited, Attempt, TypeOK
  <2>. QED BY <1>2, <2>1, <2>3
<1>5. ASSUME NEW c \in Callers, Trip(c) PROVE ExhaustionTrips'
  <2>1. tripped' = tripped \cup {cur[c]} /\ UNCHANGED <<work, ending, exhausted, calls>>
    BY <1>5 DEF Trip, TripPast, workVars
  <2>2. \A w \in Attempts : Carries(w) => Carries(w)'
    BY <1>5, <2>1, AttemptParts DEF Trip, Goto, Carries, Awaited, Attempt, TypeOK
  <2>3. \A d \in Callers \ {c} : pc'[d] = pc[d] /\ cur'[d] = cur[d]
    BY <1>5 DEF Trip, Goto, TypeOK
  <2>. QED BY <1>2, <2>1, <2>2, <2>3
<1>6. ASSUME NEW c \in Callers, BackendReturned(c) \/ AwaitReturns(c) PROVE ExhaustionTrips'
  <2>1. /\ Attempt(c) \in Attempts /\ Attempt(c)[1] = c /\ Attempt(c)[3] = cur[c]
        /\ pc[c] = "wait"
    BY <1>6, AttemptType DEF BackendReturned, AwaitReturns, CallsInBounds
  <2>2. /\ UNCHANGED <<options, active, tripped, calls, work, exhausted>>
        /\ ending' = [ending EXCEPT ![Attempt(c)] = "none"]
    BY <1>6 DEF BackendReturned, AwaitReturns, Collect, chainVars
  <2>3. \A d \in Callers \ {c} : pc'[d] = pc[d] /\ cur'[d] = cur[d]
    BY <1>6 DEF BackendReturned, AwaitReturns, Judge, EndCall, Goto, TypeOK
  <2>4. ending[Attempt(c)] = "budget" => pc'[c] = "trip" /\ cur'[c] = cur[c]
    BY <1>6 DEF BackendReturned, AwaitReturns, AsyncVerdict, NobodyIsLate, Judge, Propagates,
                Goto, TypeOK
  <2>5. ASSUME NEW w \in Attempts, Carries(w)
        PROVE  \/ Carries(w)'
               \/ \E d \in Callers : pc'[d] = "trip" /\ cur'[d] = w[3]
    <3>1. CASE w = Attempt(c)
      BY <2>1, <2>4, <2>5, <3>1 DEF Carries
    <3>2. CASE w # Attempt(c)
      BY <2>1, <2>2, <2>3, <2>5, <3>2, AttemptParts DEF Carries, Awaited, Attempt, TypeOK
    <3>. QED BY <3>1, <3>2
  <2>. QED BY <1>2, <2>1, <2>2, <2>3, <2>5
<1>7. ASSUME NEW c \in Callers, JoinTimesOut(c) PROVE ExhaustionTrips'
  <2>1. /\ pc[c] = "wait" /\ work[Attempt(c)] # "done"
        /\ UNCHANGED <<options, active, tripped, calls, work, ending, exhausted>>
    BY <1>7 DEF JoinTimesOut, chainVars, workVars
  <2>2. \A d \in Callers \ {c} : pc'[d] = pc[d] /\ cur'[d] = cur[d]
    BY <1>7 DEF JoinTimesOut, Judge, EndCall, Goto, TypeOK
  <2>3. \A w \in Attempts : Carries(w) => Carries(w)'
    BY <2>1, <2>2, AttemptParts DEF Carries, Awaited, Attempt
  <2>. QED BY <1>2, <2>1, <2>2, <2>3
<1>8. ASSUME NEW c \in Callers, DeadlinePasses(c) \/ CallerCancelled(c) PROVE ExhaustionTrips'
  <2>1. /\ UNCHANGED <<options, active, tripped, pc, calls, cur, ending, exhausted>>
        /\ \/ work[Attempt(c)] = "running"
              /\ work' = [work EXCEPT ![Attempt(c)] = "cancelling"]
           \/ UNCHANGED work
    BY <1>8 DEF DeadlinePasses, CallerCancelled, InterruptWait, chainVars
  <2>2. \A w \in Attempts : Carries(w) => Carries(w)'
    BY <2>1 DEF Carries, Awaited, Attempt, TypeOK
  <2>. QED BY <1>2, <2>1, <2>2
<1>9. ASSUME NEW w \in Attempts, BackendEnds(w) PROVE ExhaustionTrips'
  <2>1. PICK e \in OwnEndings :
          /\ ending' = [ending EXCEPT ![w] = e]
          /\ exhausted' = exhausted \cup (IF e = "budget" THEN {w[3]} ELSE {})
    BY <1>9 DEF BackendEnds
  <2>2. /\ work[w] = "running" /\ UNCHANGED <<options, active, tripped, pc, calls, cur>>
        /\ work' = [work EXCEPT ![w] = IF Sync(w) /\ HasDeadline THEN "landed" ELSE "done"]
    BY <1>9 DEF BackendEnds, chainVars, callerVars
  <2>3. \A v \in Attempts : v # w /\ Carries(v) => Carries(v)'
    BY <2>1, <2>2 DEF Carries, Awaited, Attempt, TypeOK
  <2>0. HasDeadline \in BOOLEAN
    BY OptionsAssumption DEF HasDeadline, TypeOK
  <2>4. e = "budget" => Carries(w)'
    BY <2>1, <2>2, <2>0 DEF Carries, Awaited, Attempt, Sync, WorkIsAwaited, TypeOK
  <2>5. ~Carries(w)
    BY <2>2 DEF Carries
  <2>. QED BY <2>1, <2>2, <2>3, <2>4, <2>5 DEF ExhaustionTrips, Carries
<1>10. ASSUME NEW w \in Attempts, WorkerTrips(w) PROVE ExhaustionTrips'
  <2>1. /\ tripped' = tripped \cup {w[3]} /\ work' = [work EXCEPT ![w] = "tripped"]
        /\ UNCHANGED <<pc, calls, cur, ending, exhausted>>
    BY <1>10 DEF WorkerTrips, TripPast, callerVars
  <2>2. \A v \in Attempts : v # w /\ Carries(v) => Carries(v)'
    BY <2>1 DEF Carries, Awaited, Attempt, TypeOK
  <2>. QED BY <1>2, <2>1, <2>2
<1>11. ASSUME NEW w \in Attempts, WorkerEnds(w) PROVE ExhaustionTrips'
  <2>1. /\ UNCHANGED <<options, active, tripped, pc, calls, cur, exhausted>>
        /\ work' = [work EXCEPT ![w] = "done"]
        /\ ending' = [ending EXCEPT ![w] = IF Awaited(w) THEN @ ELSE "none"]
        /\ ~Carries(w)
    BY <1>11 DEF WorkerEnds, callerVars, chainVars, Carries
  <2>2. \A v \in Attempts : Carries(v) => Carries(v)'
    BY <2>1 DEF Carries, Awaited, Attempt, TypeOK
  <2>. QED BY <1>2, <2>1, <2>2
<1>12. ASSUME NEW w \in Attempts, CancelledTaskEnds(w) PROVE ExhaustionTrips'
  <2>1. PICK e \in Endings :
          /\ ending' = [ending EXCEPT ![w] = e]
          /\ exhausted' = exhausted \cup (IF e = "budget" THEN {w[3]} ELSE {})
    BY <1>12 DEF CancelledTaskEnds
  <2>2. /\ work[w] = "cancelling" /\ UNCHANGED <<options, active, tripped, pc, calls, cur>>
        /\ work' = [work EXCEPT ![w] = "done"]
    BY <1>12 DEF CancelledTaskEnds, chainVars, callerVars
  <2>3. \A v \in Attempts : v # w /\ Carries(v) => Carries(v)'
    BY <2>1, <2>2 DEF Carries, Awaited, Attempt, TypeOK
  <2>4. e = "budget" => Carries(w)'
    BY <2>1, <2>2 DEF Carries, Awaited, Attempt, WorkIsAwaited, TypeOK
  <2>5. ~Carries(w)
    BY <2>2 DEF Carries
  <2>. QED BY <2>1, <2>2, <2>3, <2>4, <2>5 DEF ExhaustionTrips, Carries
<1>13. CASE UNCHANGED vars
  BY <1>13 DEF vars, ExhaustionTrips, Awaited, Attempt
<1>. QED
  BY <1>3, <1>4, <1>5, <1>6, <1>7, <1>8, <1>9, <1>10, <1>11, <1>12, <1>13
     DEF Next, CallerStep, WorkerStep

\* A BudgetExhausted is never lost on its way to the mark, abandoned worker or
\* cancelled task or not, unless a task is interrupted too late, for any number of
\* backends and calls.
THEOREM NoExhaustionIsLost == Spec /\ []NobodyIsLate => []ExhaustionTrips
<1>1. WorkInv /\ ExhaustionTrips /\ NobodyIsLate /\ [Next]_vars => (WorkInv /\ ExhaustionTrips)'
  BY WorkStep, ExhaustionStep
<1>. QED BY <1>1, WorkInit, PTL DEF Spec

\* A caller leaves its wait with an ending in hand, or at the deadline.
LEMMA WaitStep ==
  ASSUME IInv, [Next]_vars, NEW c \in Callers, pc[c] = "wait", pc'[c] # "wait"
  PROVE  \/ (BackendReturned(c) \/ AwaitReturns(c)) /\ ending[Attempt(c)] \in Endings
         \/ JoinTimesOut(c)
<1>. USE DEF IInv, TypeInv
<1>1. BackendReturned(c) \/ AwaitReturns(c) \/ JoinTimesOut(c)
  <2>1. ASSUME NEW d \in Callers, BackendReturned(d) \/ AwaitReturns(d) \/ JoinTimesOut(d)
        PROVE  d = c
    BY <2>1 DEF BackendReturned, AwaitReturns, JoinTimesOut, Judge, EndCall, Goto, TypeOK
  <2>2. ASSUME NEW d \in Callers,
               StartCall(d) \/ CallBackend(d) \/ AllFailed(d) \/ Trip(d)
        PROVE FALSE
    BY <2>2 DEF StartCall, CallBackend, AllFailed, Trip, EndCall, Goto, TypeOK
  <2>3. ASSUME NEW d \in Callers, DeadlinePasses(d) \/ CallerCancelled(d) PROVE FALSE
    BY <2>3 DEF DeadlinePasses, CallerCancelled, InterruptWait
  <2>4. ASSUME NEW w \in Attempts,
               BackendEnds(w) \/ CancelledTaskEnds(w) \/ WorkerTrips(w) \/ WorkerEnds(w)
        PROVE FALSE
    BY <2>4 DEF BackendEnds, CancelledTaskEnds, WorkerTrips, WorkerEnds
  <2>. QED BY <2>1, <2>2, <2>3, <2>4 DEF Next, CallerStep, WorkerStep, vars
<1>2. Attempt(c) \in Attempts /\ Attempt(c)[1] = c
  BY AttemptType DEF CallsInBounds
<1>3. BackendReturned(c) \/ AwaitReturns(c) => ending[Attempt(c)] \in Endings
  BY <1>2 DEF BackendReturned, AwaitReturns, TypeOK, EndingsAreKnown, Awaited
<1>. QED BY <1>1, <1>3

\* Timers run only where there is a deadline.
TimersAreSet == \A c \in Callers : wake[c] = "deadline" => HasDeadline

\* Steps keep it so.
LEMMA TimerStep == TypeInv /\ TimersAreSet /\ [Next]_vars => TimersAreSet'
<1>. SUFFICES ASSUME TypeInv, TimersAreSet, [Next]_vars PROVE TimersAreSet'
  OBVIOUS
<1>1. HasDeadline' = HasDeadline
  BY OptionsStep
<1>2. ASSUME NEW c \in Callers, DeadlinePasses(c) PROVE TimersAreSet'
  BY <1>1, <1>2 DEF DeadlinePasses, InterruptWait, TimersAreSet, TypeInv, TypeOK
<1>3. ASSUME NEW c \in Callers, CallerCancelled(c) \/ CallBackend(c) PROVE TimersAreSet'
  BY <1>1, <1>3 DEF CallerCancelled, CallBackend, InterruptWait, TimersAreSet, TypeInv, TypeOK
<1>4. CASE UNCHANGED wake
  BY <1>1, <1>4 DEF TimersAreSet
<1>5. \/ UNCHANGED wake
      \/ \E c \in Callers : DeadlinePasses(c) \/ CallerCancelled(c) \/ CallBackend(c)
  BY DEF Next, CallerStep, WorkerStep, StartCall, AllFailed, Trip, BackendReturned,
         JoinTimesOut, AwaitReturns, BackendEnds, CancelledTaskEnds, WorkerTrips,
         WorkerEnds, callerVars, vars
<1>. QED BY <1>2, <1>3, <1>4, <1>5

\* A caller that passes on may pass its backend, or was interrupted too late.
LEMMA PassingOn ==
  ASSUME IInv, TimersAreSet, [Next]_vars,
         NEW c \in Callers, pc[c] = "wait", pc'[c] = "loop"
  PROVE  MayBePassed(c) \/ RetriedLate(c)
<1>1. pc'[c] # "wait"
  OBVIOUS
<1>2. CASE BackendReturned(c) /\ ending[Attempt(c)] \in Endings
  BY <1>2 DEF BackendReturned, Judge, Propagates, EndCall, Goto, Endings, IInv, TypeInv, TypeOK,
              MayBePassed
<1>3. CASE AwaitReturns(c) /\ ending[Attempt(c)] \in Endings
  <2>1. ~Sync(Attempt(c))
    BY <1>3, CallersAssumption DEF AwaitReturns, Sync, Attempt
  <2>2. AsyncVerdict(c) # "budget" /\ ~Propagates(AsyncVerdict(c))
    BY <1>3 DEF AwaitReturns, Judge, EndCall, Goto, IInv, TypeInv, TypeOK
  <2>3. CASE wake[c] \in {"lateDeadline", "lateCancel"}
    BY <2>2, <2>3 DEF AsyncVerdict, Propagates, RetriedLate
  <2>4. CASE wake[c] = "deadline" /\ ending[Attempt(c)] = "cancelled"
    BY <2>1, <2>4 DEF TimersAreSet, MayBePassed
  <2>5. CASE AsyncVerdict(c) = ending[Attempt(c)]
    BY <1>3, <2>2, <2>5 DEF Propagates, Endings, MayBePassed
  <2>. QED BY <2>3, <2>4, <2>5 DEF AsyncVerdict
<1>4. CASE JoinTimesOut(c)
  BY <1>4 DEF JoinTimesOut, Sync, Attempt, MayBePassed
<1>. QED BY <1>1, <1>2, <1>3, <1>4, WaitStep

\* A call passes on from a backend only at the deadline or after a failure that
\* retry_on matches and that is no bug, whatever retry_on is; or from an interruption
\* that came too late.
THEOREM NoBugIsMasked == Spec => FallsThroughOnlyWhenAllowed
<1>1. Init => TimersAreSet
  BY DEF Init, TimersAreSet
<1>2. IInv /\ TimersAreSet /\ [Next]_vars =>
        [\A c \in Callers : pc[c] = "wait" /\ pc'[c] = "loop" =>
           MayBePassed(c) \/ RetriedLate(c)]_vars
  BY PassingOn
<1>3. IInv => TypeInv
  BY DEF IInv
<1>. QED
  BY <1>1, <1>2, <1>3, TimerStep, InvariantHolds, PTL DEF Spec, FallsThroughOnlyWhenAllowed

\* Where retry_on matches neither a TimeoutError nor a CancelledError, or nobody is
\* interrupted too late, there is no such corner: no answer and no bug is ever passed.
THEOREM NarrowRetriesMaskNothing ==
  Spec /\ [](RetryOn \cap {"timeout", "cancelled"} = {} \/ NobodyIsLate) =>
    [][\A c \in Callers : pc[c] = "wait" /\ pc'[c] = "loop" => MayBePassed(c)]_vars
<1>1. Init => TimersAreSet
  BY DEF Init, TimersAreSet
<1>2. IInv /\ TimersAreSet /\ [Next]_vars
        /\ (RetryOn \cap {"timeout", "cancelled"} = {} \/ NobodyIsLate) =>
        [\A c \in Callers : pc[c] = "wait" /\ pc'[c] = "loop" => MayBePassed(c)]_vars
  BY PassingOn DEF RetriedLate, AsyncVerdict, NobodyIsLate
<1>3. IInv => TypeInv
  BY DEF IInv
<1>. QED BY <1>1, <1>2, <1>3, TimerStep, InvariantHolds, PTL DEF Spec

-----------------------------------------------------------------------------

\* Whoever is about to trip past a backend has its BudgetExhausted in hand.
TripsAreDue ==
  /\ \A c \in Callers : pc[c] = "trip" => cur[c] \in exhausted
  /\ \A w \in Attempts : ending[w] = "budget" => w[3] \in exhausted

MarkInv == TripsAreDue /\ MarkStandsAfterExhausted

\* A call is sent to _trip_past by BudgetExhausted alone.
LEMMA JudgeTrips ==
  ASSUME TypeOK, TripsAreDue, NEW c \in Callers, NEW v, Judge(c, v),
         v = "budget" => cur[c] \in exhausted, exhausted' = exhausted,
         \A w \in Attempts : ending'[w] \in {ending[w], "none"}
  PROVE  TripsAreDue'
<1>1. \A d \in Callers : pc'[d] = "trip" => cur'[d] \in exhausted
  <2>1. CASE Propagates(v) /\ EndCall(c, v)
    BY <2>1 DEF EndCall, Goto, TypeOK, TripsAreDue
  <2>2. CASE v = "budget" /\ Goto(c, "trip") /\ UNCHANGED <<cur, first, result>>
    BY <2>2 DEF Goto, TypeOK, TripsAreDue
  <2>3. CASE cur' = [cur EXCEPT ![c] = @ + 1] /\ Goto(c, "loop")
    BY <2>3 DEF Goto, TypeOK, TripsAreDue
  <2>. QED BY <2>1, <2>2, <2>3 DEF Judge
<1>. QED BY <1>1 DEF TripsAreDue

\* _trip_past, with the BudgetExhausted of backend i in hand, leaves the mark where
\* it is or right after i.
LEMMA TripStandsAfter ==
  ASSUME TypeOK, MarkStandsAfterExhausted, NEW i \in Backends, i \in exhausted,
         TripPast(i), exhausted' = exhausted
  PROVE  MarkStandsAfterExhausted'
BY NAssumption DEF TypeOK, MarkStandsAfterExhausted, TripPast, Max, Backends

\* Every step keeps the mark right after a backend that ran out of budget.
LEMMA MarkInvStep == IInv /\ MarkInv /\ [Next]_vars => MarkInv'
<1>. SUFFICES ASSUME IInv, MarkInv, [Next]_vars PROVE MarkInv'
  OBVIOUS
<1>. USE DEF IInv, TypeInv, MarkInv
<1>1. ASSUME NEW c \in Callers, \/ StartCall(c) \/ CallBackend(c) \/ AllFailed(c)
                               \/ DeadlinePasses(c) \/ CallerCancelled(c)
      PROVE  MarkInv'
  <2>1. /\ UNCHANGED <<active, ending, exhausted>>
        /\ \A d \in Callers : pc'[d] = "trip" => pc[d] = "trip" /\ cur'[d] = cur[d]
    BY <1>1 DEF StartCall, CallBackend, AllFailed, DeadlinePasses, CallerCancelled,
                InterruptWait, EndCall, Goto, chainVars, workVars, TypeOK
  <2>. QED BY <2>1 DEF TripsAreDue, MarkStandsAfterExhausted
<1>2. ASSUME NEW c \in Callers, Trip(c) PROVE MarkInv'
  <2>1. cur[c] \in exhausted /\ cur[c] \in Backends
    BY <1>2 DEF Trip, TripsAreDue, CallsInBounds
  <2>2. MarkStandsAfterExhausted'
    BY <1>2, <2>1, TripStandsAfter DEF Trip, workVars
  <2>3. TripsAreDue'
    BY <1>2 DEF Trip, Goto, workVars, TypeOK, TripsAreDue
  <2>. QED BY <2>2, <2>3
<1>3. ASSUME NEW c \in Callers, BackendReturned(c) PROVE MarkInv'
  <2>1. Attempt(c) \in Attempts /\ Attempt(c)[3] = cur[c]
    BY <1>3, AttemptType DEF BackendReturned, CallsInBounds
  <2>2. /\ Judge(c, ending[Attempt(c)]) /\ UNCHANGED <<active, exhausted>>
        /\ ending' = [ending EXCEPT ![Attempt(c)] = "none"]
    BY <1>3 DEF BackendReturned, Collect, chainVars
  <2>3. ending[Attempt(c)] = "budget" => cur[c] \in exhausted
    BY <2>1 DEF TripsAreDue
  <2>4. \A w \in Attempts : ending'[w] \in {ending[w], "none"}
    BY <2>2 DEF TypeOK
  <2>5. TripsAreDue'
    BY <2>2, <2>3, <2>4, JudgeTrips
  <2>. QED BY <2>2, <2>5 DEF MarkStandsAfterExhausted
<1>4. ASSUME NEW c \in Callers, JoinTimesOut(c) PROVE MarkInv'
  <2>1. Judge(c, "deadline") /\ UNCHANGED <<active, exhausted, ending>>
    BY <1>4 DEF JoinTimesOut, chainVars, workVars
  <2>2. TripsAreDue'
    BY <2>1, JudgeTrips
  <2>. QED BY <2>1, <2>2 DEF MarkStandsAfterExhausted
<1>5. ASSUME NEW c \in Callers, AwaitReturns(c) PROVE MarkInv'
  <2>1. Attempt(c) \in Attempts /\ Attempt(c)[3] = cur[c]
    BY <1>5, AttemptType DEF AwaitReturns, CallsInBounds
  <2>2. /\ Judge(c, AsyncVerdict(c)) /\ UNCHANGED <<active, exhausted>>
        /\ ending' = [ending EXCEPT ![Attempt(c)] = "none"]
    BY <1>5 DEF AwaitReturns, Collect, chainVars
  <2>3. AsyncVerdict(c) = "budget" => cur[c] \in exhausted
    BY <2>1 DEF AsyncVerdict, TripsAreDue
  <2>4. \A w \in Attempts : ending'[w] \in {ending[w], "none"}
    BY <2>2 DEF TypeOK
  <2>5. TripsAreDue'
    BY <2>2, <2>3, <2>4, JudgeTrips
  <2>. QED BY <2>2, <2>5 DEF MarkStandsAfterExhausted
<1>6. ASSUME NEW w \in Attempts, BackendEnds(w) \/ CancelledTaskEnds(w) PROVE MarkInv'
  <2>1. PICK e \in Endings :
          /\ ending' = [ending EXCEPT ![w] = e]
          /\ exhausted' = exhausted \cup (IF e = "budget" THEN {w[3]} ELSE {})
    BY <1>6, OwnEndingsAssumption DEF BackendEnds, CancelledTaskEnds
  <2>2. UNCHANGED <<active, pc, cur>>
    BY <1>6 DEF BackendEnds, CancelledTaskEnds, chainVars, callerVars
  <2>. QED BY <2>1, <2>2 DEF TripsAreDue, MarkStandsAfterExhausted, TypeOK
<1>7. ASSUME NEW w \in Attempts, WorkerTrips(w) PROVE MarkInv'
  <2>1. w[3] \in exhausted /\ w[3] \in Backends
    BY <1>7, AttemptParts DEF WorkerTrips, TripsAreDue
  <2>2. MarkStandsAfterExhausted'
    BY <1>7, <2>1, TripStandsAfter DEF WorkerTrips
  <2>3. TripsAreDue'
    BY <1>7 DEF WorkerTrips, TripsAreDue, callerVars
  <2>. QED BY <2>2, <2>3
<1>8. ASSUME NEW w \in Attempts, WorkerEnds(w) PROVE MarkInv'
  <2>1. /\ UNCHANGED <<active, pc, cur, exhausted>>
        /\ \A v \in Attempts : ending'[v] \in {ending[v], "none"}
    BY <1>8 DEF WorkerEnds, callerVars, chainVars, TypeOK
  <2>. QED BY <2>1 DEF TripsAreDue, MarkStandsAfterExhausted
<1>9. CASE UNCHANGED vars
  BY <1>9 DEF vars, TripsAreDue, MarkStandsAfterExhausted
<1>. QED
  BY <1>1, <1>2, <1>3, <1>4, <1>5, <1>6, <1>7, <1>8, <1>9
     DEF Next, CallerStep, WorkerStep

\* "That provider is skipped": the mark stands right after a provider that has run
\* out of budget, for any chain and any threads and tasks.
THEOREM NobodyIsSkippedForNothing == Spec => []MarkStandsAfterExhausted
<1>1. Init => MarkInv
  BY DEF Init, MarkInv, TripsAreDue, MarkStandsAfterExhausted
<1>2. MarkInv => MarkStandsAfterExhausted
  BY DEF MarkInv
<1>. QED BY InvariantHolds, MarkInvStep, <1>1, <1>2, PTL DEF Spec

-----------------------------------------------------------------------------
(* What a failed call has behind it                                        *)

\* A call under way has asked every backend from the start of its range up to
\* the one its loop stands at.
RangeIsAsked ==
  \A c \in Callers, i \in Backends :
    /\ pc[c] # "idle"
    /\ first[c] <= i
    /\ i < cur[c] \/ (i = cur[c] /\ pc[c] \in {"wait", "trip"})
    => work[<<c, calls[c], i>>] # "none"

\* No step unmakes an attempt.
LEMMA AttemptsStay ==
  ASSUME IInv, [Next]_vars, NEW w \in Attempts, work[w] # "none"
  PROVE  work'[w] # "none"
BY DEF Next, CallerStep, WorkerStep, StartCall, CallBackend, AllFailed, Trip,
       BackendReturned, JoinTimesOut, DeadlinePasses, CallerCancelled, InterruptWait,
       AwaitReturns, BackendEnds, CancelledTaskEnds, WorkerTrips, WorkerEnds, Collect,
       callerVars, workVars, vars, IInv, TypeInv, TypeOK

\* A call that takes its verdict stays within what it has asked.
LEMMA JudgeAsks ==
  ASSUME IInv, RangeIsAsked, NEW c \in Callers, NEW v, pc[c] = "wait", Judge(c, v),
         calls' = calls, \A w \in Attempts : work[w] # "none" => work'[w] # "none"
  PROVE  RangeIsAsked'
<1>. USE DEF IInv, TypeInv
<1>1. /\ \A d \in Callers \ {c} : pc'[d] = pc[d] /\ cur'[d] = cur[d] /\ first'[d] = first[d]
      /\ \/ pc'[c] = "idle"
         \/ pc'[c] = "trip" /\ cur'[c] = cur[c] /\ first'[c] = first[c]
         \/ pc'[c] = "loop" /\ cur'[c] = cur[c] + 1 /\ first'[c] = first[c]
  BY DEF Judge, EndCall, Goto, TypeOK
<1>2. SUFFICES ASSUME NEW d \in Callers, NEW i \in Backends,
                      pc'[d] # "idle", first'[d] <= i,
                      i < cur'[d] \/ (i = cur'[d] /\ pc'[d] \in {"wait", "trip"})
               PROVE  work'[<<d, calls'[d], i>>] # "none"
  BY DEF RangeIsAsked
<1>3. pc[d] # "idle" /\ first[d] <= i
  BY <1>1, <1>2
<1>4. i < cur[d] \/ (i = cur[d] /\ pc[d] \in {"wait", "trip"})
  BY <1>1, <1>2, NAssumption DEF TypeOK, Backends
<1>5. <<d, calls[d], i>> \in Attempts
  BY <1>3 DEF CallsInBounds, Attempts
<1>. QED BY <1>3, <1>4, <1>5 DEF RangeIsAsked

\* Every step keeps the range asked.
LEMMA AskedStep == IInv /\ RangeIsAsked /\ [Next]_vars => RangeIsAsked'
<1>. SUFFICES ASSUME IInv, RangeIsAsked, [Next]_vars PROVE RangeIsAsked'
  OBVIOUS
<1>. USE DEF IInv, TypeInv
<1>0. \A w \in Attempts : work[w] # "none" => work'[w] # "none"
  BY AttemptsStay
<1>1. ASSUME NEW c \in Callers, StartCall(c) PROVE RangeIsAsked'
  <2>1. /\ cur'[c] = first'[c] /\ first'[c] \in 0..N /\ pc'[c] = "loop"
        /\ \A d \in Callers \ {c} : /\ pc'[d] = pc[d] /\ cur'[d] = cur[d]
                                    /\ first'[d] = first[d] /\ calls'[d] = calls[d]
        /\ work' = work
    BY <1>1 DEF StartCall, Goto, TypeOK, workVars
  <2>. QED BY <2>1, NAssumption DEF RangeIsAsked, Backends
<1>2. ASSUME NEW c \in Callers, CallBackend(c) PROVE RangeIsAsked'
  <2>1. /\ cur[c] \in Backends /\ calls[c] \in 1..MaxCalls /\ pc[c] = "loop" /\ pc'[c] = "wait"
        /\ \A d \in Callers \ {c} : pc'[d] = pc[d]
        /\ UNCHANGED <<cur, first, calls>>
        /\ work' = [work EXCEPT ![Attempt(c)] = "running"]
    BY <1>2, NAssumption DEF CallBackend, Goto, TypeOK, CallsInBounds, Backends
  <2>2. work'[<<c, calls[c], cur[c]>>] = "running"
    BY <2>1 DEF Attempt, Attempts, TypeOK
  <2>3. SUFFICES ASSUME NEW d \in Callers, NEW i \in Backends,
                        pc'[d] # "idle", first[d] <= i,
                        i < cur[d] \/ (i = cur[d] /\ pc'[d] \in {"wait", "trip"})
                 PROVE  work'[<<d, calls[d], i>>] # "none"
    BY <2>1 DEF RangeIsAsked
  <2>4. CASE d = c /\ i = cur[c]
    BY <2>2, <2>4
  <2>5. CASE ~(d = c /\ i = cur[c])
    <3>1. pc[d] # "idle" /\ (i < cur[d] \/ (i = cur[d] /\ pc[d] \in {"wait", "trip"}))
      BY <2>1, <2>3, <2>5
    <3>2. <<d, calls[d], i>> \in Attempts
      BY <3>1 DEF CallsInBounds, Attempts
    <3>. QED BY <1>0, <2>3, <3>1, <3>2 DEF RangeIsAsked
  <2>. QED BY <2>4, <2>5
<1>3. ASSUME NEW c \in Callers, AllFailed(c) PROVE RangeIsAsked'
  <2>1. /\ pc'[c] = "idle" /\ UNCHANGED <<calls, work>>
        /\ \A d \in Callers \ {c} : pc'[d] = pc[d] /\ cur'[d] = cur[d] /\ first'[d] = first[d]
    BY <1>3 DEF AllFailed, EndCall, Goto, workVars, TypeOK
  <2>. QED BY <2>1 DEF RangeIsAsked
<1>4. ASSUME NEW c \in Callers, Trip(c) PROVE RangeIsAsked'
  <2>1. /\ pc[c] = "trip" /\ pc'[c] = "loop" /\ cur[c] \in Backends /\ cur'[c] = cur[c] + 1
        /\ \A d \in Callers \ {c} : pc'[d] = pc[d] /\ cur'[d] = cur[d]
        /\ UNCHANGED <<first, calls, work>>
    BY <1>4 DEF Trip, Goto, workVars, TypeOK, CallsInBounds
  <2>. QED BY <2>1, NAssumption DEF RangeIsAsked, Backends
<1>5. ASSUME NEW c \in Callers, BackendReturned(c) \/ JoinTimesOut(c) \/ AwaitReturns(c)
      PROVE  RangeIsAsked'
  <2>1. pc[c] = "wait" /\ calls' = calls
    BY <1>5 DEF BackendReturned, JoinTimesOut, AwaitReturns
  <2>2. PICK v : Judge(c, v)
    BY <1>5 DEF BackendReturned, JoinTimesOut, AwaitReturns
  <2>. QED BY <1>0, <2>1, <2>2, JudgeAsks
<1>6. ASSUME UNCHANGED <<pc, cur, first, calls>> PROVE RangeIsAsked'
  <2>1. \A c \in Callers, i \in Backends : pc[c] # "idle" => <<c, calls[c], i>> \in Attempts
    BY DEF CallsInBounds, Attempts
  <2>. QED BY <1>0, <1>6, <2>1 DEF RangeIsAsked
<1>7. ASSUME NEW c \in Callers, DeadlinePasses(c) \/ CallerCancelled(c) PROVE RangeIsAsked'
  BY <1>6, <1>7 DEF DeadlinePasses, CallerCancelled, InterruptWait
<1>8. ASSUME NEW w \in Attempts,
             BackendEnds(w) \/ CancelledTaskEnds(w) \/ WorkerTrips(w) \/ WorkerEnds(w)
      PROVE  RangeIsAsked'
  BY <1>6, <1>8 DEF BackendEnds, CancelledTaskEnds, WorkerTrips, WorkerEnds, callerVars
<1>9. CASE UNCHANGED vars
  BY <1>6, <1>9 DEF vars
<1>. QED
  BY <1>1, <1>2, <1>3, <1>4, <1>5, <1>7, <1>8, <1>9 DEF Next, CallerStep, WorkerStep

\* A call ends as "all backends failed" only where the loop is used up: no verdict
\* of a backend is called that.
LEMMA AllFailedStep ==
  ASSUME IInv, [Next]_vars, NEW c \in Callers,
         result[c] = "pending", result'[c] = "allFailed"
  PROVE  AllFailed(c)
<1>. USE DEF IInv, TypeInv
<1>1. ASSUME NEW d \in Callers, AllFailed(d) PROVE d = c
  BY <1>1 DEF AllFailed, EndCall, TypeOK
<1>2. ASSUME NEW d \in Callers, NEW v \in Endings \cup {"deadline"}, Judge(d, v)
      PROVE  FALSE
  <2>1. v # "allFailed"
    BY DEF Endings
  <2>. QED BY <1>2, <2>1 DEF Judge, EndCall, TypeOK
<1>3. ASSUME NEW d \in Callers, BackendReturned(d) PROVE FALSE
  <2>1. Attempt(d) \in Attempts /\ Attempt(d)[1] = d
    BY <1>3, AttemptType DEF BackendReturned, CallsInBounds
  <2>2. ending[Attempt(d)] \in Endings
    BY <1>3, <2>1 DEF BackendReturned, TypeOK, EndingsAreKnown, Awaited
  <2>. QED BY <1>2, <1>3, <2>2 DEF BackendReturned
<1>4. ASSUME NEW d \in Callers, JoinTimesOut(d) PROVE FALSE
  BY <1>2, <1>4 DEF JoinTimesOut
<1>5. ASSUME NEW d \in Callers, AwaitReturns(d) PROVE FALSE
  <2>1. Attempt(d) \in Attempts /\ Attempt(d)[1] = d
    BY <1>5, AttemptType DEF AwaitReturns, CallsInBounds
  <2>2. ending[Attempt(d)] \in Endings
    BY <1>5, <2>1 DEF AwaitReturns, TypeOK, EndingsAreKnown, Awaited
  <2>3. AsyncVerdict(d) \in Endings \cup {"deadline"}
    BY <2>2 DEF AsyncVerdict, Endings
  <2>. QED BY <1>2, <1>5, <2>3 DEF AwaitReturns
<1>6. ASSUME NEW d \in Callers, StartCall(d) PROVE FALSE
  BY <1>6 DEF StartCall, TypeOK
<1>7. result' # result
  OBVIOUS
<1>. QED
  BY <1>1, <1>3, <1>4, <1>5, <1>6, <1>7
     DEF Next, CallerStep, WorkerStep, CallBackend, Trip, DeadlinePasses, CallerCancelled,
         InterruptWait, BackendEnds, CancelledTaskEnds, WorkerTrips, WorkerEnds,
         callerVars, vars

\* "All backends failed" is raised only after every backend from the one that was
\* active when the call began has been asked, by threads and tasks alike.
THEOREM NoneIsLeftUnasked == Spec => AllFailedMeansAllTried
<1>1. Init => RangeIsAsked
  BY DEF Init, RangeIsAsked
<1>2. ASSUME IInv, RangeIsAsked, [Next]_vars, NEW c \in Callers,
             result[c] = "pending", result'[c] = "allFailed",
             NEW i \in Backends, i >= first[c]
      PROVE  work[<<c, calls[c], i>>] # "none"
  <2>1. AllFailed(c)
    BY <1>2, AllFailedStep
  <2>. QED
    BY <1>2, <2>1, NAssumption DEF AllFailed, RangeIsAsked, Backends, IInv, TypeInv, TypeOK
<1>3. IInv /\ RangeIsAsked /\ [Next]_vars =>
        [\A c \in Callers : result[c] = "pending" /\ result'[c] = "allFailed" =>
           \A i \in Backends : i >= first[c] => work[<<c, calls[c], i>>] # "none"]_vars
  BY <1>2
<1>. QED BY <1>1, <1>3, AskedStep, InvariantHolds, PTL DEF Spec, AllFailedMeansAllTried

\* A call fails with a TimeoutError only if a backend of it has raised one, unless a task
\* is interrupted too late: the deadline is passed on from, whatever retry_on is.
THEOREM DeadlineStaysInside == Spec /\ []NobodyIsLate => DeadlineNeverPropagates
<1>1. ASSUME IInv, NobodyIsLate, [Next]_vars, NEW c \in Callers,
             result[c] = "pending", result'[c] = "timeout"
      PROVE  ending[Attempt(c)] = "timeout"
  <2>. USE DEF IInv, TypeInv
  <2>1. ASSUME NEW d \in Callers, BackendReturned(d) PROVE ending[Attempt(c)] = "timeout"
    BY <1>1, <2>1 DEF BackendReturned, Judge, EndCall, TypeOK
  <2>2. ASSUME NEW d \in Callers, JoinTimesOut(d) PROVE FALSE
    BY <1>1, <2>2 DEF JoinTimesOut, Judge, Propagates, EndCall, TypeOK
  <2>3. ASSUME NEW d \in Callers, AwaitReturns(d) PROVE ending[Attempt(c)] = "timeout"
    BY <1>1, <2>3 DEF AwaitReturns, AsyncVerdict, NobodyIsLate, Judge, EndCall, TypeOK
  <2>4. ASSUME NEW d \in Callers, StartCall(d) \/ AllFailed(d) PROVE FALSE
    BY <1>1, <2>4 DEF StartCall, AllFailed, EndCall, TypeOK
  <2>5. result' # result
    BY <1>1
  <2>. QED
    BY <1>1, <2>1, <2>2, <2>3, <2>4, <2>5
       DEF Next, CallerStep, WorkerStep, CallBackend, Trip, DeadlinePasses, CallerCancelled,
           InterruptWait, BackendEnds, CancelledTaskEnds, WorkerTrips, WorkerEnds,
           callerVars, vars
<1>2. IInv /\ NobodyIsLate /\ [Next]_vars =>
        [\A c \in Callers : result[c] = "pending" /\ result'[c] = "timeout" =>
           ending[Attempt(c)] = "timeout"]_vars
  BY <1>1
<1>. QED BY <1>2, InvariantHolds, PTL DEF Spec, DeadlineNeverPropagates

\* Threads are never interrupted too late, nor at all: for a chain that only threads
\* call the three theorems above that assume it hold without that assumption.
THEOREM ThreadsAreNeverLate ==
  ASSUME AsyncCallers = {}
  PROVE  Spec => []NobodyIsLate
<1>1. Init => NobodyIsLate
  BY DEF Init, NobodyIsLate
<1>2. NobodyIsLate /\ TypeInv /\ [Next]_vars => NobodyIsLate'
  <2>. SUFFICES ASSUME NobodyIsLate, TypeInv, [Next]_vars PROVE NobodyIsLate'
    OBVIOUS
  <2>1. ASSUME NEW c \in Callers, DeadlinePasses(c) \/ CallerCancelled(c) PROVE FALSE
    BY <2>1 DEF DeadlinePasses, CallerCancelled, InterruptWait
  <2>2. ASSUME NEW c \in Callers, CallBackend(c) PROVE NobodyIsLate'
    BY <2>2 DEF CallBackend, NobodyIsLate, TypeInv, TypeOK
  <2>3. CASE UNCHANGED wake
    BY <2>3 DEF NobodyIsLate
  <2>4. UNCHANGED wake \/ \E c \in Callers : CallBackend(c)
    BY <2>1 DEF Next, CallerStep, WorkerStep, StartCall, AllFailed, Trip, BackendReturned,
                JoinTimesOut, AwaitReturns, BackendEnds, CancelledTaskEnds, WorkerTrips,
                WorkerEnds, callerVars, vars
  <2>. QED BY <2>2, <2>3, <2>4
<1>3. IInv => TypeInv
  BY DEF IInv
<1>. QED BY <1>1, <1>2, <1>3, InvariantHolds, PTL DEF Spec

-----------------------------------------------------------------------------
(* How long a call may last                                                *)

\* The most steps that the call of c has left: for every backend to come a call, an
\* interruption, an ending and a trip, and one step to give up.
StepsLeft(c) ==
  CASE pc[c] = "idle" -> 0
    [] pc[c] = "loop" -> 4 * (N - cur[c]) + 1
    [] pc[c] = "wait" -> 4 * (N - cur[c]) - (IF wake[c] = "none" THEN 0 ELSE 1)
    [] pc[c] = "trip" -> 4 * (N - cur[c]) - 2

\* Where the call of c stands.
Place(c) == <<pc[c], cur[c], wake[c]>>

\* The steps left are a number at every place.
LEMMA StepsAreCounted ==
  ASSUME TypeOK, CallsInBounds, NEW c \in Callers
  PROVE  StepsLeft(c) \in 0..(4 * N + 1)
<1>1. N \in Nat \ {0} /\ cur[c] \in 0..N
  BY NAssumption DEF TypeOK
<1>2. CASE pc[c] \in {"wait", "trip"}
  BY <1>1, <1>2 DEF CallsInBounds, Backends, StepsLeft
<1>3. CASE pc[c] \in {"idle", "loop"}
  BY <1>1, <1>3 DEF StepsLeft
<1>. QED BY <1>2, <1>3 DEF TypeOK

\* Of the steps of callers each touches its own call only, and that of c shortens it.
LEMMA OwnStepShortens ==
  ASSUME TypeInv, NEW c \in Callers, NEW d \in Callers,
         CallerStep(d) \/ CallerCancelled(d)
  PROVE  IF c = d THEN StepsLeft(c)' < StepsLeft(c) ELSE UNCHANGED Place(c)
<1>. USE DEF TypeInv
<1>1. N \in Nat \ {0} /\ cur[d] \in 0..N
  BY NAssumption DEF TypeOK
<1>2. pc[d] \in {"wait", "trip"} => cur[d] \in 0..(N - 1)
  BY DEF CallsInBounds, Backends
<1>3. CASE CallBackend(d)
  BY <1>1, <1>3 DEF CallBackend, Goto, StepsLeft, Place, TypeOK
<1>4. CASE AllFailed(d)
  BY <1>1, <1>4 DEF AllFailed, EndCall, Goto, StepsLeft, Place, TypeOK
<1>5. CASE Trip(d)
  BY <1>1, <1>2, <1>5 DEF Trip, Goto, StepsLeft, Place, TypeOK
<1>6. CASE DeadlinePasses(d) \/ CallerCancelled(d)
  BY <1>1, <1>2, <1>6
     DEF DeadlinePasses, CallerCancelled, InterruptWait, StepsLeft, Place, TypeOK
<1>7. CASE BackendReturned(d) \/ JoinTimesOut(d) \/ AwaitReturns(d)
  <2>1. /\ pc[d] = "wait" /\ UNCHANGED wake
        /\ \E v \in {ending[Attempt(d)], AsyncVerdict(d), "deadline"} : Judge(d, v)
    BY <1>7 DEF BackendReturned, JoinTimesOut, AwaitReturns
  <2>2. \/ pc'[d] = "idle"
        \/ pc'[d] = "trip" /\ cur'[d] = cur[d]
        \/ pc'[d] = "loop" /\ cur'[d] = cur[d] + 1
    BY <2>1, JudgeMovesOn
  <2>3. CASE c = d
    BY <1>1, <1>2, <2>1, <2>2, <2>3 DEF StepsLeft
  <2>4. CASE c # d
    BY <2>1, <2>4 DEF Judge, EndCall, Goto, Place, TypeOK
  <2>. QED BY <2>3, <2>4
<1>. QED BY <1>3, <1>4, <1>5, <1>6, <1>7 DEF CallerStep

\* A call under way asks each backend at most once and loses no time on one that it has
\* left: it takes at most 4 N + 1 steps, each of its own brings it nearer to its end, and
\* no step of a backend, an abandoned worker or another call takes it back, however often
\* the chain is tripped meanwhile.
THEOREM CallsAreBounded ==
  Spec => /\ [](\A c \in Callers : StepsLeft(c) \in 0..(4 * N + 1))
          /\ [][\A c \in Callers : calls'[c] = calls[c] =>
                  StepsLeft(c)' < StepsLeft(c) \/ UNCHANGED Place(c)]_vars
<1>1. IInv => \A c \in Callers : StepsLeft(c) \in 0..(4 * N + 1)
  BY StepsAreCounted DEF IInv, TypeInv
<1>2. ASSUME IInv, [Next]_vars, NEW c \in Callers, calls'[c] = calls[c]
      PROVE  StepsLeft(c)' < StepsLeft(c) \/ UNCHANGED Place(c)
  <2>. USE <1>2 DEF IInv, TypeInv
  <2>1. ASSUME NEW d \in Callers, StartCall(d) PROVE UNCHANGED Place(c)
    BY <2>1 DEF StartCall, Goto, Place, TypeOK
  <2>2. ASSUME NEW d \in Callers, CallerStep(d) \/ CallerCancelled(d)
        PROVE  StepsLeft(c)' < StepsLeft(c) \/ UNCHANGED Place(c)
    BY <2>2, OwnStepShortens
  <2>3. ASSUME NEW w \in Attempts,
               BackendEnds(w) \/ CancelledTaskEnds(w) \/ WorkerStep(w)
        PROVE  UNCHANGED Place(c)
    BY <2>3 DEF BackendEnds, CancelledTaskEnds, WorkerStep, WorkerTrips, WorkerEnds,
                callerVars, Place
  <2>4. CASE UNCHANGED vars
    BY <2>4 DEF vars, Place
  <2>. QED BY <2>1, <2>2, <2>3, <2>4 DEF Next
<1>3. IInv /\ [Next]_vars =>
        [\A c \in Callers : calls'[c] = calls[c] =>
           StepsLeft(c)' < StepsLeft(c) \/ UNCHANGED Place(c)]_vars
  BY <1>2
<1>. QED BY <1>1, <1>3, InvariantHolds, PTL DEF Spec

\* What ends the wait of a caller: a thread's backend is under way or has ended; a task's
\* timer can still fire, or its backend has been asked to stop, or has ended.
WaitsCanEnd ==
  \A c \in Callers : pc[c] = "wait" =>
    IF c \in SyncCallers
    THEN work[Attempt(c)] \in {"running", "landed", "tripped", "done"}
    ELSE \/ work[Attempt(c)] = "running" /\ wake[c] = "none"
         \/ work[Attempt(c)] \in {"cancelling", "done"}

\* Threads have workers, tasks have timers.
LEMMA WaitsStep ==
  ASSUME TypeInv, WaitsCanEnd, [Next]_vars
  PROVE  WaitsCanEnd'
<1>. USE DEF TypeInv
<1>1. ASSUME NEW d \in Callers, CallBackend(d) PROVE WaitsCanEnd'
  <2>1. cur[d] \in Backends
    BY <1>1, NAssumption DEF CallBackend, TypeOK, Backends
  <2>2. Attempt(d) \in Attempts
    BY <1>1, <2>1, AttemptType DEF CallBackend
  <2>3. work'[Attempt(d)] = "running" /\ wake'[d] = "none" /\ pc'[d] = "wait"
    BY <1>1, <2>2 DEF CallBackend, Goto, TypeOK
  <2>4. \A c \in Callers \ {d} : UNCHANGED <<pc[c], wake[c], Attempt(c)>>
    BY <1>1 DEF CallBackend, Goto, Attempt, TypeOK
  <2>6. ASSUME NEW c \in Callers \ {d}, pc[c] = "wait"
        PROVE  work'[Attempt(c)] = work[Attempt(c)]
    <3>1. Attempt(c) \in Attempts /\ Attempt(c) # Attempt(d)
      BY <2>6, AttemptType DEF CallsInBounds, Attempt
    <3>. QED BY <1>1, <2>2, <3>1 DEF CallBackend, TypeOK
  <2>5. UNCHANGED Attempt(d)
    BY <1>1 DEF CallBackend, Attempt
  <2>. QED BY <2>3, <2>4, <2>5, <2>6 DEF WaitsCanEnd
<1>2. ASSUME NEW d \in Callers, DeadlinePasses(d) \/ CallerCancelled(d) PROVE WaitsCanEnd'
  <2>1. /\ pc[d] = "wait" /\ d \notin SyncCallers /\ UNCHANGED <<pc, cur, calls>>
        /\ \A c \in Callers \ {d} : UNCHANGED wake[c]
        /\ \/ work[Attempt(d)] = "running" /\ work' = [work EXCEPT ![Attempt(d)] = "cancelling"]
           \/ work[Attempt(d)] = "done" /\ UNCHANGED work
    BY <1>2, CallersAssumption
       DEF DeadlinePasses, CallerCancelled, InterruptWait, chainVars, TypeOK
  <2>2. Attempt(d) \in Attempts
    BY <2>1, AttemptType DEF CallsInBounds
  <2>3. work'[Attempt(d)] \in {"cancelling", "done"}
    BY <2>1, <2>2 DEF TypeOK
  <2>4. ASSUME NEW c \in Callers \ {d}, pc[c] = "wait"
        PROVE  work'[Attempt(c)] = work[Attempt(c)]
    <3>1. Attempt(c) \in Attempts /\ Attempt(c) # Attempt(d)
      BY <2>4, AttemptType DEF CallsInBounds, Attempt
    <3>. QED BY <2>1, <2>2, <3>1 DEF TypeOK
  <2>. QED BY <2>1, <2>3, <2>4 DEF WaitsCanEnd, Attempt
<1>3. ASSUME NEW w \in Attempts,
             BackendEnds(w) \/ CancelledTaskEnds(w) \/ WorkerStep(w)
      PROVE  WaitsCanEnd'
  <2>1. /\ UNCHANGED <<pc, cur, calls, wake>> /\ work' = [work EXCEPT ![w] = work'[w]]
        /\ \/ work'[w] = "done"
           \/ work'[w] = "landed" /\ Sync(w)
           \/ work'[w] = "tripped" /\ work[w] = "landed"
    BY <1>3 DEF BackendEnds, CancelledTaskEnds, WorkerStep, WorkerTrips, WorkerEnds,
                callerVars, TypeOK
  <2>2. ASSUME NEW c \in Callers, pc[c] = "wait"
        PROVE  Attempt(c) \in Attempts /\ Attempt(c)[1] = c
    BY <2>2, AttemptType DEF CallsInBounds
  <2>. QED BY <2>1, <2>2 DEF WaitsCanEnd, Attempt, Sync, TypeOK
<1>4. ASSUME NEW d \in Callers,
             \/ StartCall(d) \/ AllFailed(d) \/ Trip(d)
             \/ BackendReturned(d) \/ JoinTimesOut(d) \/ AwaitReturns(d)
      PROVE  WaitsCanEnd'
  <2>1. UNCHANGED <<work, wake>>
    BY <1>4 DEF StartCall, AllFailed, Trip, BackendReturned, JoinTimesOut, AwaitReturns,
                Collect, workVars
  <2>2. pc'[d] # "wait"
    BY <1>4 DEF StartCall, AllFailed, Trip, BackendReturned, JoinTimesOut, AwaitReturns, Judge,
                EndCall, Goto, TypeOK
  <2>3. \A c \in Callers \ {d} : UNCHANGED <<pc[c], cur[c], calls[c]>>
    BY <1>4 DEF StartCall, AllFailed, Trip, BackendReturned, JoinTimesOut, AwaitReturns, Judge,
                EndCall, Goto, TypeOK
  <2>. QED BY <2>1, <2>2, <2>3 DEF WaitsCanEnd, Attempt
<1>5. CASE UNCHANGED vars
  BY <1>5 DEF vars, WaitsCanEnd, Attempt
<1>. QED BY <1>1, <1>2, <1>3, <1>4, <1>5 DEF Next, CallerStep

\* Nobody waits for nothing: a call that waits has a backend of its own under way or ended,
\* and a task whose timer has fired, or that was cancelled, one that was told to stop.
THEOREM NoWaitIsStuck == Spec => []WaitsCanEnd
<1>1. Init => WaitsCanEnd
  BY DEF Init, WaitsCanEnd
<1>2. IInv => TypeInv
  BY DEF IInv
<1>. QED BY <1>1, <1>2, WaitsStep, InvariantHolds, PTL DEF Spec

=============================================================================
