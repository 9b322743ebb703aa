-------------------------------- MODULE RWLock --------------------------------
(***************************************************************************)
(* The reader-writer lock of evidence_index.py: one mutex, one condition   *)
(* variable on it and three fields.  Every method body runs with the mutex *)
(* held and gives it up in exactly one place, `_cond.wait()`, so a method  *)
(* is one atomic action up to its wait, and a waiter that was notified     *)
(* runs a second one, which tests the same loop condition again.           *)
(*                                                                         *)
(* `wait()` parks the thread in the wait set of the condition, `waiters`;  *)
(* `notify_all()` empties the set.  A thread that is waiting and is no     *)
(* longer in the set has been notified and has yet to reacquire the mutex; *)
(* any other thread may get the mutex first.                               *)
(***************************************************************************)
EXTENDS Naturals, FiniteSets

CONSTANTS
  ReaderThreads,    \* threads that call acquire_read
  WriterThreads,    \* threads that call acquire_write; the sets may overlap
  Interruptible     \* threads a KeyboardInterrupt may reach inside wait()

Threads == ReaderThreads \cup WriterThreads

ASSUME InterruptibleAssumption == Interruptible \subseteq Threads
ASSUME FiniteThreadsAssumption == IsFiniteSet(Threads)

VARIABLES
  readers,          \* _readers
  writer,           \* _writer
  writersWaiting,   \* _writers_waiting
  waiters,          \* wait set of _cond
  at                \* where each thread is with respect to the lock

vars == <<readers, writer, writersWaiting, waiters, at>>

Places == {"out", "rwait", "reading", "wwait", "writing"}

\* Threads at place p.
At(p) == {t \in Threads : at[t] = p}

Init == /\ readers = 0
        /\ writer = FALSE
        /\ writersWaiting = 0
        /\ waiters = {}
        /\ at = [t \in Threads |-> "out"]

-----------------------------------------------------------------------------
(* acquire_read and release_read                                           *)

ReadBlocked == writer \/ writersWaiting > 0

\* Faulty: the loop condition of acquire_read without `_writers_waiting > 0`.
ReadLoop_IgnoresWaitingWriters(t) ==
  \/ /\ writer
     /\ waiters' = waiters \cup {t}
     /\ at' = [at EXCEPT ![t] = "rwait"]
     /\ UNCHANGED <<readers, writer, writersWaiting>>
  \/ /\ ~writer
     /\ readers' = readers + 1
     /\ at' = [at EXCEPT ![t] = "reading"]
     /\ UNCHANGED <<writer, writersWaiting, waiters>>

\* One evaluation of the loop of acquire_read: wait, or count in and leave.
ReadLoop(t) ==
  \/ /\ ReadBlocked
     /\ waiters' = waiters \cup {t}
     /\ at' = [at EXCEPT ![t] = "rwait"]
     /\ UNCHANGED <<readers, writer, writersWaiting>>
  \/ /\ ~ReadBlocked
     /\ readers' = readers + 1
     /\ at' = [at EXCEPT ![t] = "reading"]
     /\ UNCHANGED <<writer, writersWaiting, waiters>>

AcquireRead(t) == t \in ReaderThreads /\ at[t] = "out" /\ ReadLoop(t)

ResumeRead(t) == at[t] = "rwait" /\ t \notin waiters /\ ReadLoop(t)

\* Faulty: the last reader leaves silently.
ReleaseRead_NoNotify(t) ==
  /\ at[t] = "reading"
  /\ readers' = readers - 1
  /\ at' = [at EXCEPT ![t] = "out"]
  /\ UNCHANGED <<writer, writersWaiting, waiters>>

\* The last reader to leave notifies everyone.
ReleaseRead(t) ==
  /\ at[t] = "reading"
  /\ readers' = readers - 1
  /\ waiters' = IF readers = 1 THEN {} ELSE waiters
  /\ at' = [at EXCEPT ![t] = "out"]
  /\ UNCHANGED <<writer, writersWaiting>>

-----------------------------------------------------------------------------
(* acquire_write and release_write                                         *)

WriteBlocked == writer \/ readers > 0

\* Faulty: the loop condition of acquire_write without `_readers > 0`.
WriteLoop_IgnoresReaders(t, n) ==
  \/ /\ writer
     /\ writersWaiting' = n
     /\ waiters' = waiters \cup {t}
     /\ at' = [at EXCEPT ![t] = "wwait"]
     /\ UNCHANGED <<readers, writer>>
  \/ /\ ~writer
     /\ writer' = TRUE
     /\ writersWaiting' = n - 1
     /\ at' = [at EXCEPT ![t] = "writing"]
     /\ UNCHANGED <<readers, waiters>>

\* One evaluation of the loop of acquire_write by a thread already counted
\* among n waiting writers: wait, or become the writer and leave the count,
\* which is what the finally clause does.
WriteLoop(t, n) ==
  \/ /\ WriteBlocked
     /\ writersWaiting' = n
     /\ waiters' = waiters \cup {t}
     /\ at' = [at EXCEPT ![t] = "wwait"]
     /\ UNCHANGED <<readers, writer>>
  \/ /\ ~WriteBlocked
     /\ writer' = TRUE
     /\ writersWaiting' = n - 1
     /\ at' = [at EXCEPT ![t] = "writing"]
     /\ UNCHANGED <<readers, waiters>>

AcquireWrite(t) ==
  /\ t \in WriterThreads
  /\ at[t] = "out"
  /\ WriteLoop(t, writersWaiting + 1)

ResumeWrite(t) ==
  at[t] = "wwait" /\ t \notin waiters /\ WriteLoop(t, writersWaiting)

\* Faulty: the writer leaves silently.
ReleaseWrite_NoNotify(t) ==
  /\ at[t] = "writing"
  /\ writer' = FALSE
  /\ at' = [at EXCEPT ![t] = "out"]
  /\ UNCHANGED <<readers, writersWaiting, waiters>>

ReleaseWrite(t) ==
  /\ at[t] = "writing"
  /\ writer' = FALSE
  /\ waiters' = {}
  /\ at' = [at EXCEPT ![t] = "out"]
  /\ UNCHANGED <<readers, writersWaiting>>

-----------------------------------------------------------------------------
(* An exception out of wait()                                              *)

\* Faulty: acquire_write without the finally clause.
Interrupt_NoFinally(t) ==
  /\ t \in Interruptible
  /\ at[t] \in {"rwait", "wwait"}
  /\ waiters' = waiters \ {t}
  /\ at' = [at EXCEPT ![t] = "out"]
  /\ UNCHANGED <<readers, writer, writersWaiting>>

\* wait() raises in the thread (a KeyboardInterrupt, which reaches the main
\* thread only) once it holds the mutex again.  A writer leaves the count in
\* the finally clause; neither path notifies.
Interrupt(t) ==
  /\ t \in Interruptible
  /\ at[t] \in {"rwait", "wwait"}
  /\ writersWaiting' = IF at[t] = "wwait" THEN writersWaiting - 1 ELSE writersWaiting
  /\ waiters' = waiters \ {t}
  /\ at' = [at EXCEPT ![t] = "out"]
  /\ UNCHANGED <<readers, writer>>

-----------------------------------------------------------------------------

Next == \E t \in Threads :
          \/ AcquireRead(t)  \/ ResumeRead(t)  \/ ReleaseRead(t)
          \/ AcquireWrite(t) \/ ResumeWrite(t) \/ ReleaseWrite(t)
          \/ Interrupt(t)

Spec == Init /\ [][Next]_vars

\* Every section under the lock is finite, and the mutex lets every notified
\* thread through in the end.  Nobody has to call the lock again.
Fairness == \A t \in Threads : /\ WF_vars(ResumeRead(t))
                               /\ WF_vars(ResumeWrite(t))
                               /\ WF_vars(ReleaseRead(t))
                               /\ WF_vars(ReleaseWrite(t))

FairSpec == Spec /\ Fairness

-----------------------------------------------------------------------------
(* Properties                                                              *)

\* No counter is negative, and only a thread inside a wait is in the wait set.
TypeOK == /\ readers \in Nat
          /\ writer \in BOOLEAN
          /\ writersWaiting \in Nat
          /\ waiters \subseteq At("rwait") \cup At("wwait")
          /\ at \in [Threads -> Places]

\* "concurrent reads, exclusive writes": whoever is inside the writer's
\* section is alone.
Exclusion == \A t \in At("writing") : At("reading") = {} /\ At("writing") = {t}

\* The three fields say who is where; release_read and the finally clause of
\* acquire_write keep them exact on every path, interrupted ones included.
CountsAreExact == /\ readers = Cardinality(At("reading"))
                  /\ writersWaiting = Cardinality(At("wwait"))
                  /\ writer <=> At("writing") # {}

\* No lost wakeup for writers: whoever is parked in acquire_write has somebody
\* in front of it who will notify on leaving.
ParkedWriterHasCause ==
  \A t \in waiters \cap At("wwait") : WriteBlocked

\* acquire_read: "Yield to any waiting or active writer".  A parked reader has
\* such a writer in front of it.
ReadersYieldOnlyToWriters ==
  \A t \in waiters \cap At("rwait") : ReadBlocked

\* Whoever is parked in acquire_read has somebody in front of it who will
\* notify on leaving, or on leaving after that.  Weaker than the property
\* above, and what "concurrent reads" needs at the least: no reader is left
\* asleep at a lock that nobody holds and nobody waits for.
ParkedReaderHasCause ==
  \A t \in waiters \cap At("rwait") : ReadBlocked \/ readers > 0

\* Writer preference: while a writer waits, no step lets a reader in.
NoReaderPassesWaitingWriter ==
  [][At("wwait") # {} => At("reading")' \subseteq At("reading")]_vars

-----------------------------------------------------------------------------
(* The lock implements AccessControl: who is where gives the three sets.   *)

AC == INSTANCE AccessControl WITH shared <- At("reading"),
                                  exclusive <- At("writing"),
                                  claims <- At("wwait")

\* Every step of the lock is a step of AccessControl or none: parking, waking
\* up and finding the way barred again are invisible to a caller.
ImplementsAccessControl == AC!Spec

\* And it keeps the promise of AccessControl that a claim is served or withdrawn:
\* "a steady stream of readers cannot ... starve it", exceptions or not.
ImplementsFairAccess == AC!FairSpec

=============================================================================
