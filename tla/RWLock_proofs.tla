----------------------------- MODULE RWLock_proofs -----------------------------
(***************************************************************************)
(* Proofs about RWLock for any finite sets of readers and writers.         *)
(***************************************************************************)
EXTENDS RWLock, FiniteSetTheorems, TLAPS

\* The fields of the lock tell the truth about the threads, the writer is
\* alone, and a parked writer has somebody in front of it.
IInv == TypeOK /\ CountsAreExact /\ Exclusion /\ ParkedWriterHasCause

-----------------------------------------------------------------------------
(* Places and counts                                                       *)

\* The threads at one place are finitely many; none are left iff the count is 0.
LEMMA PlacesAreFinite ==
  ASSUME NEW p
  PROVE  /\ IsFiniteSet(At(p))
         /\ Cardinality(At(p)) \in Nat
         /\ Cardinality(At(p)) = 0 <=> At(p) = {}
<1>1. At(p) \subseteq Threads
  BY DEF At
<1>2. IsFiniteSet(At(p))
  BY <1>1, FiniteThreadsAssumption, FS_Subset
<1>. QED BY <1>2, FS_CardinalityType, FS_EmptySet

\* A thread that moves from s to p changes these two places and no other.
LEMMA Move ==
  ASSUME TypeOK, NEW t \in Threads, NEW s \in Places, NEW p \in Places, s # p,
         at[t] = s, at' = [at EXCEPT ![t] = p]
  PROVE  /\ at' \in [Threads -> Places]
         /\ At(p)' = At(p) \cup {t} /\ t \notin At(p)
         /\ At(s)' = At(s) \ {t} /\ t \in At(s)
         /\ \A q : q # p /\ q # s => At(q)' = At(q)
<1>1. at \in [Threads -> Places]
  BY DEF TypeOK
<1>2. /\ at'[t] = p
      /\ \A u \in Threads : u # t => at'[u] = at[u]
  BY <1>1
<1>3. At(p)' = At(p) \cup {t} /\ t \notin At(p)
  BY <1>2 DEF At
<1>4. At(s)' = At(s) \ {t} /\ t \in At(s)
  BY <1>2 DEF At
<1>5. \A q : q # p /\ q # s => At(q)' = At(q)
  BY <1>2 DEF At
<1>. QED BY <1>1, <1>3, <1>4, <1>5

\* So the count of the one grows by one, that of the other falls by one and
\* was positive.
LEMMA MoveCounts ==
  ASSUME TypeOK, NEW t \in Threads, NEW s \in Places, NEW p \in Places, s # p,
         at[t] = s, at' = [at EXCEPT ![t] = p]
  PROVE  /\ Cardinality(At(p)') = Cardinality(At(p)) + 1
         /\ Cardinality(At(s)') = Cardinality(At(s)) - 1
         /\ Cardinality(At(s)) > 0
<1>1. /\ At(p)' = At(p) \cup {t} /\ t \notin At(p)
      /\ At(s)' = At(s) \ {t} /\ t \in At(s)
  BY Move
<1>2. IsFiniteSet(At(p)) /\ IsFiniteSet(At(s))
  BY PlacesAreFinite
<1>3. Cardinality(At(p) \cup {t}) = Cardinality(At(p)) + 1
  BY <1>1, <1>2, FS_AddElement
<1>4. Cardinality(At(s) \ {t}) = Cardinality(At(s)) - 1
  BY <1>1, <1>2, FS_RemoveElement
<1>5. Cardinality(At(s)) \in Nat /\ Cardinality(At(s)) # 0
  BY <1>1, PlacesAreFinite
<1>. QED BY <1>1, <1>3, <1>4, <1>5

\* A notified thread that finds its way barred again parks where it was.
LEMMA StayAt ==
  ASSUME TypeOK, NEW t \in Threads, NEW s \in Places, at[t] = s,
         at' = [at EXCEPT ![t] = s]
  PROVE  at' = at
BY DEF TypeOK

-----------------------------------------------------------------------------
(* The invariant                                                           *)

\* Nobody is at the lock before the first call.
LEMMA InitInv == Init => IInv
<1>1. SUFFICES ASSUME Init PROVE IInv
  OBVIOUS
<1>2. At("reading") = {} /\ At("writing") = {} /\ At("wwait") = {} /\ At("rwait") = {}
  BY <1>1 DEF Init, At
<1>3. TypeOK
  BY <1>1 DEF Init, TypeOK, Places
<1>4. CountsAreExact
  BY <1>1, <1>2, FS_EmptySet DEF Init, CountsAreExact
<1>. QED BY <1>1, <1>2, <1>3, <1>4 DEF Init, IInv, Exclusion, ParkedWriterHasCause

\* A reader counts itself in only where no writer is inside.
LEMMA ReadLoopInv ==
  ASSUME IInv, NEW t \in Threads, at[t] \in {"out", "rwait"}, t \notin waiters,
         ReadLoop(t)
  PROVE  IInv'
<1>1. CASE /\ ReadBlocked
           /\ waiters' = waiters \cup {t}
           /\ at' = [at EXCEPT ![t] = "rwait"]
           /\ UNCHANGED <<readers, writer, writersWaiting>>
  <2>1. /\ at' \in [Threads -> Places]
        /\ t \in At("rwait")' /\ At("rwait") \subseteq At("rwait")'
        /\ At("wwait")' = At("wwait") /\ At("reading")' = At("reading")
        /\ At("writing")' = At("writing")
    BY <1>1, Move, StayAt DEF IInv, TypeOK, Places, At
  <2>2. TypeOK'
    BY <1>1, <2>1 DEF IInv, TypeOK
  <2>3. CountsAreExact'
    BY <1>1, <2>1 DEF IInv, CountsAreExact
  <2>4. Exclusion'
    BY <2>1 DEF IInv, Exclusion
  <2>5. t \notin At("wwait")
    BY DEF At
  <2>6. ParkedWriterHasCause'
    BY <1>1, <2>1, <2>5 DEF IInv, ParkedWriterHasCause, WriteBlocked
  <2>. QED BY <2>2, <2>3, <2>4, <2>6 DEF IInv
<1>2. CASE /\ ~ReadBlocked
           /\ readers' = readers + 1
           /\ at' = [at EXCEPT ![t] = "reading"]
           /\ UNCHANGED <<writer, writersWaiting, waiters>>
  <2>. PICK s \in {"out", "rwait"} : at[t] = s
    OBVIOUS
  <2>1. /\ at' \in [Threads -> Places]
        /\ At("reading")' = At("reading") \cup {t}
        /\ At(s)' = At(s) \ {t}
        /\ \A q : q # "reading" /\ q # s => At(q)' = At(q)
    BY <1>2, Move DEF IInv, Places
  <2>2. Cardinality(At("reading")') = Cardinality(At("reading")) + 1
    BY <1>2, MoveCounts DEF IInv, Places
  <2>3. At("wwait")' = At("wwait") /\ At("writing")' = At("writing")
    BY <2>1
  <2>4. At("writing") = {} /\ readers \in Nat
    BY <1>2 DEF IInv, CountsAreExact, ReadBlocked, TypeOK
  <2>5. CountsAreExact'
    BY <1>2, <2>2, <2>3 DEF IInv, CountsAreExact
  <2>6. Exclusion'
    BY <2>3, <2>4 DEF Exclusion
  <2>7. ParkedWriterHasCause'
    BY <1>2, <2>4 DEF ParkedWriterHasCause, WriteBlocked
  <2>8. TypeOK'
    BY <1>2, <2>1, <2>3 DEF IInv, TypeOK
  <2>. QED BY <2>5, <2>6, <2>7, <2>8 DEF IInv
<1>. QED BY <1>1, <1>2 DEF ReadLoop

\* A writer enters only an empty lock, and is counted exactly while it waits.
LEMMA WriteLoopInv ==
  ASSUME IInv, NEW t \in Threads, NEW s \in {"out", "wwait"}, at[t] = s,
         t \notin waiters, NEW n,
         n = IF s = "wwait" THEN writersWaiting ELSE writersWaiting + 1,
         WriteLoop(t, n)
  PROVE  IInv'
<1>. writersWaiting \in Nat /\ readers \in Nat /\ n \in Nat
  BY DEF IInv, TypeOK
<1>1. CASE /\ WriteBlocked
           /\ writersWaiting' = n
           /\ waiters' = waiters \cup {t}
           /\ at' = [at EXCEPT ![t] = "wwait"]
           /\ UNCHANGED <<readers, writer>>
  <2>1. /\ at' \in [Threads -> Places]
        /\ At("wwait")' = At("wwait") \cup {t}
        /\ At("rwait")' = At("rwait") /\ At("reading")' = At("reading")
        /\ At("writing")' = At("writing")
    BY <1>1, Move, StayAt DEF IInv, TypeOK, Places, At
  <2>2. writersWaiting' = Cardinality(At("wwait")')
    <3>1. CASE s = "out"
      <4>1. Cardinality(At("wwait")') = Cardinality(At("wwait")) + 1
        BY <1>1, <3>1, MoveCounts DEF IInv, Places
      <4>. QED BY <1>1, <3>1, <4>1 DEF IInv, CountsAreExact
    <3>2. CASE s = "wwait"
      BY <1>1, <2>1, <3>2, StayAt DEF IInv, CountsAreExact, At
    <3>. QED BY <3>1, <3>2
  <2>3. TypeOK'
    BY <1>1, <2>1 DEF IInv, TypeOK
  <2>4. CountsAreExact'
    BY <1>1, <2>1, <2>2 DEF IInv, CountsAreExact
  <2>5. Exclusion'
    BY <2>1 DEF IInv, Exclusion
  <2>6. ParkedWriterHasCause'
    BY <1>1 DEF ParkedWriterHasCause, WriteBlocked
  <2>. QED BY <2>3, <2>4, <2>5, <2>6 DEF IInv
<1>2. CASE /\ ~WriteBlocked
           /\ writer' = TRUE
           /\ writersWaiting' = n - 1
           /\ at' = [at EXCEPT ![t] = "writing"]
           /\ UNCHANGED <<readers, waiters>>
  <2>1. /\ at' \in [Threads -> Places]
        /\ At("writing")' = At("writing") \cup {t}
        /\ At(s)' = At(s) \ {t}
        /\ \A q : q # "writing" /\ q # s => At(q)' = At(q)
    BY <1>2, Move DEF IInv, Places
  <2>2. At("reading") = {} /\ At("writing") = {} /\ readers = 0
    BY <1>2, PlacesAreFinite DEF IInv, CountsAreExact, WriteBlocked
  <2>3. At("reading")' = {} /\ At("writing")' = {t}
    BY <2>1, <2>2
  <2>4. writersWaiting' = Cardinality(At("wwait")') /\ writersWaiting' \in Nat
    <3>1. CASE s = "out"
      BY <1>2, <2>1, <3>1 DEF IInv, CountsAreExact
    <3>2. CASE s = "wwait"
      <4>1. at[t] = "wwait" /\ at' = [at EXCEPT ![t] = "writing"]
            /\ writersWaiting' = writersWaiting - 1
        BY <1>2, <3>2
      <4>2. /\ Cardinality(At("wwait")') = Cardinality(At("wwait")) - 1
            /\ Cardinality(At("wwait")) > 0
        BY <4>1, MoveCounts DEF IInv, Places
      <4>. QED BY <4>1, <4>2 DEF IInv, CountsAreExact
    <3>. QED BY <3>1, <3>2
  <2>5. TypeOK'
    BY <1>2, <2>1, <2>4 DEF IInv, TypeOK
  <2>6. CountsAreExact'
    BY <1>2, <2>2, <2>3, <2>4, FS_EmptySet DEF CountsAreExact
  <2>7. Exclusion'
    BY <2>3 DEF Exclusion
  <2>8. ParkedWriterHasCause'
    BY <1>2 DEF ParkedWriterHasCause, WriteBlocked
  <2>. QED BY <2>5, <2>6, <2>7, <2>8 DEF IInv
<1>. QED BY <1>1, <1>2 DEF WriteLoop

\* A thread at another place than the two of a wait is not parked.
LEMMA OnlyWaitersPark ==
  ASSUME TypeOK, NEW t \in Threads, at[t] \notin {"rwait", "wwait"}
  PROVE  t \notin waiters
BY DEF TypeOK, At

\* Every step keeps the invariant, interrupts included.
LEMMA NextInv == IInv /\ [Next]_vars => IInv'
<1>. SUFFICES ASSUME IInv, [Next]_vars PROVE IInv'
  OBVIOUS
<1>0. TypeOK /\ readers \in Nat /\ writersWaiting \in Nat
  BY DEF IInv, TypeOK
<1>1. ASSUME NEW t \in Threads, AcquireRead(t) \/ ResumeRead(t) PROVE IInv'
  BY <1>0, <1>1, OnlyWaitersPark, ReadLoopInv DEF AcquireRead, ResumeRead
<1>2. ASSUME NEW t \in Threads, AcquireWrite(t) PROVE IInv'
  <2>1. t \notin waiters
    BY <1>0, <1>2, OnlyWaitersPark DEF AcquireWrite
  <2>. QED BY <1>2, <2>1, WriteLoopInv DEF AcquireWrite
<1>3. ASSUME NEW t \in Threads, ResumeWrite(t) PROVE IInv'
  BY <1>3, WriteLoopInv DEF ResumeWrite
<1>4. ASSUME NEW t \in Threads, ReleaseRead(t) PROVE IInv'
  <2>1. /\ at' \in [Threads -> Places]
        /\ At("reading")' = At("reading") \ {t}
        /\ \A q : q # "reading" /\ q # "out" => At(q)' = At(q)
    BY <1>0, <1>4, Move DEF ReleaseRead, Places
  <2>2. /\ readers' = Cardinality(At("reading")')
        /\ readers > 0 /\ readers' \in Nat
    <3>1. /\ Cardinality(At("reading")') = Cardinality(At("reading")) - 1
          /\ Cardinality(At("reading")) > 0
      BY <1>0, <1>4, MoveCounts DEF ReleaseRead, Places
    <3>. QED BY <1>0, <1>4, <3>1 DEF ReleaseRead, IInv, CountsAreExact
  <2>3. At("rwait")' = At("rwait") /\ At("wwait")' = At("wwait")
        /\ At("writing")' = At("writing")
    BY <2>1
  <2>4. TypeOK'
    BY <1>0, <1>4, <2>1, <2>2, <2>3 DEF ReleaseRead, TypeOK
  <2>5. CountsAreExact'
    BY <1>4, <2>2, <2>3 DEF ReleaseRead, IInv, CountsAreExact
  <2>6. Exclusion'
    BY <2>1, <2>3 DEF IInv, Exclusion
  <2>7. ParkedWriterHasCause'
    BY <1>0, <1>4, <2>2 DEF ReleaseRead, ParkedWriterHasCause, WriteBlocked
  <2>. QED BY <2>4, <2>5, <2>6, <2>7 DEF IInv
<1>5. ASSUME NEW t \in Threads, ReleaseWrite(t) PROVE IInv'
  <2>1. /\ at' \in [Threads -> Places]
        /\ At("writing")' = At("writing") \ {t} /\ t \in At("writing")
        /\ \A q : q # "writing" /\ q # "out" => At(q)' = At(q)
    BY <1>0, <1>5, Move DEF ReleaseWrite, Places
  <2>2. At("writing")' = {}
    BY <2>1 DEF IInv, Exclusion
  <2>3. At("wwait")' = At("wwait") /\ At("reading")' = At("reading")
    BY <2>1
  <2>4. TypeOK'
    BY <1>0, <1>5, <2>1 DEF ReleaseWrite, TypeOK
  <2>5. CountsAreExact'
    BY <1>5, <2>2, <2>3 DEF ReleaseWrite, IInv, CountsAreExact
  <2>6. Exclusion' /\ ParkedWriterHasCause'
    BY <1>5, <2>2 DEF ReleaseWrite, Exclusion, ParkedWriterHasCause
  <2>. QED BY <2>4, <2>5, <2>6 DEF IInv
<1>6. ASSUME NEW t \in Threads, Interrupt(t) PROVE IInv'
  <2>. PICK s \in {"rwait", "wwait"} : at[t] = s
    BY <1>6 DEF Interrupt
  <2>1. /\ at' \in [Threads -> Places]
        /\ At(s)' = At(s) \ {t}
        /\ \A q : q # s /\ q # "out" => At(q)' = At(q)
    BY <1>0, <1>6, Move DEF Interrupt, Places
  <2>2. writersWaiting' = Cardinality(At("wwait")') /\ writersWaiting' \in Nat
    <3>1. CASE s = "rwait"
      BY <1>0, <1>6, <2>1, <3>1 DEF Interrupt, IInv, CountsAreExact
    <3>2. CASE s = "wwait"
      <4>1. at[t] = "wwait" /\ at' = [at EXCEPT ![t] = "out"]
            /\ writersWaiting' = writersWaiting - 1
        BY <1>6, <3>2 DEF Interrupt
      <4>2. /\ Cardinality(At("wwait")') = Cardinality(At("wwait")) - 1
            /\ Cardinality(At("wwait")) > 0
        BY <1>0, <4>1, MoveCounts DEF Places
      <4>. QED BY <1>0, <4>1, <4>2 DEF IInv, CountsAreExact
    <3>. QED BY <3>1, <3>2
  <2>3. /\ At("writing")' = At("writing") /\ At("reading")' = At("reading")
        /\ At("wwait")' \subseteq At("wwait")
        /\ (At("rwait") \cup At("wwait")) \ {t} \subseteq At("rwait")' \cup At("wwait")'
    BY <2>1
  <2>4. TypeOK'
    BY <1>0, <1>6, <2>1, <2>2, <2>3 DEF Interrupt, TypeOK
  <2>5. CountsAreExact'
    BY <1>6, <2>2, <2>3 DEF Interrupt, IInv, CountsAreExact
  <2>6. Exclusion'
    BY <2>3 DEF IInv, Exclusion
  <2>7. ParkedWriterHasCause'
    BY <1>6, <2>3 DEF Interrupt, IInv, ParkedWriterHasCause, WriteBlocked
  <2>. QED BY <2>4, <2>5, <2>6, <2>7 DEF IInv
<1>7. CASE UNCHANGED vars
  BY <1>7 DEF vars, IInv, TypeOK, CountsAreExact, Exclusion, ParkedWriterHasCause,
              WriteBlocked, At
<1>. QED BY <1>1, <1>2, <1>3, <1>4, <1>5, <1>6, <1>7 DEF Next

\* The invariant holds in every reachable state.
THEOREM InvariantHolds == Spec => []IInv
BY InitInv, NextInv, PTL DEF Spec

\* Type correctness: in particular no counter is ever negative.
THEOREM TypeCorrect == Spec => []TypeOK
BY InvariantHolds, PTL DEF IInv

\* "concurrent reads, exclusive writes", with or without interrupts.
THEOREM MutualExclusion == Spec => []Exclusion
BY InvariantHolds, PTL DEF IInv

\* The three fields count the threads exactly, with or without interrupts.
THEOREM CountsNeverDrift == Spec => []CountsAreExact
BY InvariantHolds, PTL DEF IInv

\* No wakeup of a writer is ever lost.
THEOREM NoLostWriterWakeup == Spec => []ParkedWriterHasCause
BY InvariantHolds, PTL DEF IInv

-----------------------------------------------------------------------------
(* Readers                                                                 *)

\* A writer at its wait is counted, so it bars the way to readers.
LEMMA WaitingWriterBars ==
  ASSUME IInv, At("wwait") # {}
  PROVE  ReadBlocked
<1>1. Cardinality(At("wwait")) \in Nat /\ Cardinality(At("wwait")) # 0
  BY PlacesAreFinite
<1>. QED BY <1>1 DEF IInv, CountsAreExact, ReadBlocked

\* An uninterrupted step leaves no reader parked without a writer in front.
LEMMA ReadersParkedInv ==
  ASSUME IInv, ReadersYieldOnlyToWriters, Interruptible = {}, [Next]_vars
  PROVE  ReadersYieldOnlyToWriters'
<1>0. TypeOK /\ readers \in Nat /\ writersWaiting \in Nat
  BY DEF IInv, TypeOK
<1>1. ASSUME NEW t \in Threads, at[t] \in {"out", "rwait"}, ReadLoop(t)
      PROVE  ReadersYieldOnlyToWriters'
  <2>1. CASE ReadBlocked /\ UNCHANGED <<readers, writer, writersWaiting>>
    BY <2>1 DEF ReadersYieldOnlyToWriters, ReadBlocked
  <2>2. CASE ~ReadBlocked /\ at' = [at EXCEPT ![t] = "reading"] /\ UNCHANGED waiters
    <3>1. waiters \cap At("rwait") = {}
      BY <2>2 DEF ReadersYieldOnlyToWriters
    <3>2. At("rwait")' \subseteq At("rwait")
      BY <1>0, <2>2 DEF TypeOK, At
    <3>. QED BY <2>2, <3>1, <3>2 DEF ReadersYieldOnlyToWriters
  <2>. QED BY <1>1, <2>1, <2>2 DEF ReadLoop
<1>2. ASSUME NEW t \in Threads, NEW n \in Nat, n > 0, WriteLoop(t, n)
      PROVE  ReadersYieldOnlyToWriters'
  BY <1>2 DEF WriteLoop, ReadersYieldOnlyToWriters, ReadBlocked
<1>3. ASSUME NEW t \in Threads, ResumeWrite(t) PROVE ReadersYieldOnlyToWriters'
  <2>1. At("wwait") # {}
    BY <1>3 DEF ResumeWrite, At
  <2>2. writersWaiting > 0
    BY <1>0, <2>1, PlacesAreFinite DEF IInv, CountsAreExact
  <2>. QED BY <1>0, <1>2, <1>3, <2>2 DEF ResumeWrite
<1>4. ASSUME NEW t \in Threads, ReleaseRead(t) PROVE ReadersYieldOnlyToWriters'
  <2>1. At("rwait")' = At("rwait")
    BY <1>0, <1>4, Move DEF ReleaseRead, Places
  <2>. QED BY <1>4, <2>1 DEF ReleaseRead, ReadersYieldOnlyToWriters, ReadBlocked
<1>5. ASSUME NEW t \in Threads, ReleaseWrite(t) PROVE ReadersYieldOnlyToWriters'
  BY <1>5 DEF ReleaseWrite, ReadersYieldOnlyToWriters
<1>6. CASE UNCHANGED vars
  BY <1>6 DEF vars, ReadersYieldOnlyToWriters, ReadBlocked, At
<1>. QED BY <1>0, <1>1, <1>2, <1>3, <1>4, <1>5, <1>6
         DEF Next, AcquireRead, ResumeRead, AcquireWrite, Interrupt

\* Without interrupts no reader is ever left asleep at a lock no writer holds
\* or wants.
THEOREM NoReaderSleepsInVain ==
  ASSUME Interruptible = {} PROVE Spec => []ReadersYieldOnlyToWriters
<1>1. Init => ReadersYieldOnlyToWriters
  BY DEF Init, ReadersYieldOnlyToWriters
<1>2. IInv /\ ReadersYieldOnlyToWriters /\ [Next]_vars => ReadersYieldOnlyToWriters'
  BY ReadersParkedInv
<1>. QED BY <1>1, <1>2, InvariantHolds, PTL DEF Spec

\* Writer preference, for any number of readers, interrupted or not: while a
\* writer waits, no step lets a reader in.
THEOREM WriterPreference == Spec => NoReaderPassesWaitingWriter
<1>1. ASSUME IInv, [Next]_vars, At("wwait") # {}
      PROVE  At("reading")' \subseteq At("reading")
  <2>0. ReadBlocked /\ TypeOK
    BY <1>1, WaitingWriterBars DEF IInv
  <2>1. ASSUME NEW t \in Threads, ReadLoop(t) PROVE At("reading")' \subseteq At("reading")
    BY <2>0, <2>1 DEF ReadLoop, TypeOK, At
  <2>2. ASSUME NEW t \in Threads, NEW n, WriteLoop(t, n)
        PROVE  At("reading")' \subseteq At("reading")
    BY <2>0, <2>2 DEF WriteLoop, TypeOK, At
  <2>3. ASSUME NEW t \in Threads, ReleaseRead(t) \/ ReleaseWrite(t) \/ Interrupt(t)
        PROVE  At("reading")' \subseteq At("reading")
    BY <2>0, <2>3 DEF ReleaseRead, ReleaseWrite, Interrupt, TypeOK, At
  <2>4. CASE UNCHANGED vars
    BY <2>4 DEF vars, At
  <2>. QED BY <1>1, <2>1, <2>2, <2>3, <2>4
           DEF Next, AcquireRead, ResumeRead, AcquireWrite, ResumeWrite
<1>. QED BY <1>1, InvariantHolds, PTL DEF Spec, NoReaderPassesWaitingWriter

-----------------------------------------------------------------------------
(* The lock implements AccessControl                                       *)

\* Threads wait for, and hold, only what they are there to ask for.
RolesKept == /\ At("rwait") \cup At("reading") \subseteq ReaderThreads
             /\ At("wwait") \cup At("writing") \subseteq WriterThreads

\* No step changes a thread's role.
LEMMA RolesInv == TypeOK /\ RolesKept /\ [Next]_vars => RolesKept'
<1>. SUFFICES ASSUME TypeOK, RolesKept, [Next]_vars PROVE RolesKept'
  OBVIOUS
<1>1. ASSUME NEW t \in Threads, t \in ReaderThreads, ReadLoop(t) PROVE RolesKept'
  BY <1>1 DEF ReadLoop, RolesKept, TypeOK, At
<1>2. ASSUME NEW t \in Threads, NEW n, t \in WriterThreads, WriteLoop(t, n)
      PROVE  RolesKept'
  BY <1>2 DEF WriteLoop, RolesKept, TypeOK, At
<1>3. ASSUME NEW t \in Threads, at' = [at EXCEPT ![t] = "out"] PROVE RolesKept'
  BY <1>3 DEF RolesKept, TypeOK, At
<1>4. ASSUME NEW t \in Threads, AcquireRead(t) \/ ResumeRead(t) PROVE RolesKept'
  BY <1>1, <1>4 DEF AcquireRead, ResumeRead, RolesKept, At
<1>5. ASSUME NEW t \in Threads, AcquireWrite(t) \/ ResumeWrite(t) PROVE RolesKept'
  BY <1>2, <1>5 DEF AcquireWrite, ResumeWrite, RolesKept, At
<1>6. CASE UNCHANGED vars
  BY <1>6 DEF vars, RolesKept, At
<1>. QED BY <1>3, <1>4, <1>5, <1>6 DEF Next, ReleaseRead, ReleaseWrite, Interrupt

\* One evaluation of the reader's loop grants shared access or does nothing.
LEMMA ReadLoopStep ==
  ASSUME IInv, NEW t \in ReaderThreads, at[t] \in {"out", "rwait"}, ReadLoop(t)
  PROVE  AC!GrantShared(t) \/ UNCHANGED AC!vars
<1>. PICK s \in {"out", "rwait"} : at[t] = s
  OBVIOUS
<1>0. TypeOK /\ t \in Threads /\ s \in Places
  BY DEF IInv, Threads, Places
<1>1. CASE at' = [at EXCEPT ![t] = "rwait"]
  <2>1. /\ At("reading")' = At("reading") /\ At("writing")' = At("writing")
        /\ At("wwait")' = At("wwait")
    BY <1>0, <1>1 DEF TypeOK, At
  <2>. QED BY <2>1 DEF AC!vars
<1>2. CASE ~ReadBlocked /\ at' = [at EXCEPT ![t] = "reading"]
  <2>1. /\ At("reading")' = At("reading") \cup {t}
        /\ At("writing")' = At("writing") /\ At("wwait")' = At("wwait")
    BY <1>0, <1>2 DEF TypeOK, At
  <2>2. At("writing") = {} /\ At("wwait") = {}
    BY <1>2, WaitingWriterBars DEF IInv, CountsAreExact, ReadBlocked
  <2>3. t \notin At("reading")
    BY DEF At
  <2>. QED BY <2>1, <2>2, <2>3 DEF AC!GrantShared
<1>. QED BY <1>1, <1>2 DEF ReadLoop

\* One evaluation of the writer's loop records the claim or grants the access.
LEMMA WriteLoopStep ==
  ASSUME IInv, NEW t \in WriterThreads, at[t] \in {"out", "wwait"}, NEW n,
         WriteLoop(t, n)
  PROVE  AC!Claim(t) \/ AC!GrantExclusive(t) \/ UNCHANGED AC!vars
<1>. PICK s \in {"out", "wwait"} : at[t] = s
  OBVIOUS
<1>0. TypeOK /\ t \in Threads /\ readers \in Nat
  BY DEF IInv, TypeOK, Threads
<1>1. CASE at' = [at EXCEPT ![t] = "wwait"]
  <2>1. /\ At("reading")' = At("reading") /\ At("writing")' = At("writing")
        /\ At("wwait")' = At("wwait") \cup {t}
    BY <1>0, <1>1 DEF TypeOK, At
  <2>2. CASE s = "out"
    <3>1. t \notin At("reading") \cup At("writing") \cup At("wwait")
      BY <2>2 DEF At
    <3>. QED BY <2>1, <3>1 DEF AC!Claim
  <2>3. CASE s = "wwait"
    <3>1. t \in At("wwait")
      BY <1>0, <2>3 DEF At
    <3>. QED BY <2>1, <3>1 DEF AC!vars
  <2>. QED BY <2>2, <2>3
<1>2. CASE ~WriteBlocked /\ at' = [at EXCEPT ![t] = "writing"]
  <2>1. At("reading") = {} /\ At("writing") = {}
    BY <1>0, <1>2, PlacesAreFinite DEF IInv, CountsAreExact, WriteBlocked
  <2>2. /\ At("reading")' = At("reading")
        /\ At("writing")' = At("writing") \cup {t}
        /\ At("wwait")' = At("wwait") \ {t}
    BY <1>0, <1>2 DEF TypeOK, At
  <2>. QED BY <2>1, <2>2 DEF AC!GrantExclusive
<1>. QED BY <1>1, <1>2 DEF WriteLoop

\* Every step of the lock is a step of AccessControl or a stutter.
LEMMA StepRefines ==
  ASSUME IInv, RolesKept, [Next]_vars
  PROVE  [AC!Next]_(AC!vars)
<1>0. TypeOK
  BY DEF IInv
<1>1. ASSUME NEW t \in Threads, AcquireRead(t) \/ ResumeRead(t)
      PROVE  AC!GrantShared(t) \/ UNCHANGED AC!vars
  <2>1. t \in ReaderThreads /\ at[t] \in {"out", "rwait"} /\ ReadLoop(t)
    BY <1>1 DEF AcquireRead, ResumeRead, RolesKept, At
  <2>. QED BY <2>1, ReadLoopStep
<1>2. ASSUME NEW t \in Threads, AcquireWrite(t) \/ ResumeWrite(t)
      PROVE  AC!Claim(t) \/ AC!GrantExclusive(t) \/ UNCHANGED AC!vars
  <2>1. t \in WriterThreads /\ at[t] \in {"out", "wwait"} /\ \E n : WriteLoop(t, n)
    BY <1>2 DEF AcquireWrite, ResumeWrite, RolesKept, At
  <2>. QED BY <2>1, WriteLoopStep
<1>3. ASSUME NEW t \in Threads, ReleaseRead(t) PROVE AC!EndShared(t)
  <2>1. /\ At("reading")' = At("reading") \ {t} /\ t \in At("reading")
        /\ At("writing")' = At("writing") /\ At("wwait")' = At("wwait")
    BY <1>0, <1>3, Move DEF ReleaseRead, Places
  <2>. QED BY <2>1 DEF AC!EndShared
<1>4. ASSUME NEW t \in Threads, ReleaseWrite(t) PROVE AC!EndExclusive(t)
  <2>1. /\ At("writing")' = At("writing") \ {t} /\ t \in At("writing")
        /\ At("reading")' = At("reading") /\ At("wwait")' = At("wwait")
    BY <1>0, <1>4, Move DEF ReleaseWrite, Places
  <2>. QED BY <2>1 DEF AC!EndExclusive
<1>5. ASSUME NEW t \in Threads, Interrupt(t)
      PROVE  AC!Withdraw(t) \/ UNCHANGED AC!vars
  <2>1. /\ At("writing")' = At("writing") /\ At("reading")' = At("reading")
        /\ At("wwait")' = At("wwait") \ {t}
    BY <1>0, <1>5 DEF Interrupt, TypeOK, At
  <2>. QED BY <2>1 DEF AC!Withdraw, AC!vars
<1>6. CASE UNCHANGED vars
  BY <1>6 DEF vars, AC!vars, At
<1>. QED BY <1>1, <1>2, <1>3, <1>4, <1>5, <1>6 DEF Next, AC!Next, Threads

\* The lock implements shared and exclusive access with claims: what
\* EmbeddingEngine relies on needs no knowledge of the counters.
THEOREM LockImplementsAccessControl == Spec => ImplementsAccessControl
<1>1. Init => AC!Init /\ RolesKept
  BY DEF Init, AC!Init, RolesKept, At
<1>2. IInv /\ RolesKept /\ [Next]_vars => RolesKept' /\ [AC!Next]_(AC!vars)
  BY RolesInv, StepRefines DEF IInv
<1>. QED BY <1>1, <1>2, InvariantHolds, PTL DEF Spec, ImplementsAccessControl, AC!Spec

=============================================================================
