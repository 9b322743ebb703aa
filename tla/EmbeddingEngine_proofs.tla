------------------------ MODULE EmbeddingEngine_proofs ------------------------
(***************************************************************************)
(* Proofs about EmbeddingEngine for any threads, texts, normal forms,      *)
(* batches and configured sizes.  What they need of the lock comes from    *)
(* the theorems about RWLock.                                              *)
(***************************************************************************)
EXTENDS EmbeddingEngine, FiniteSetTheorems, WellFoundedInduction, TLAPS

LP == INSTANCE RWLock_proofs WITH ReaderThreads <- Callers,
                                  WriterThreads <- Callers,
                                  Interruptible <- {}

-----------------------------------------------------------------------------
(* The lock                                                                *)

\* The threads of the lock are the callers of the engine.
LEMMA LockThreads == Lock!Threads = Callers /\ LP!Threads = Callers
BY DEF Lock!Threads, LP!Threads

\* What a thread does to the lock keeps the lock's own invariant, whoever does it,
\* and moves that thread alone.
LEMMA LockStep ==
  ASSUME LP!IInv, NEW t \in Callers,
         \/ Lock!AcquireRead(t) \/ Lock!ResumeRead(t) \/ Lock!ReleaseRead(t)
         \/ Lock!AcquireWrite(t) \/ Lock!ResumeWrite(t) \/ Lock!ReleaseWrite(t)
  PROVE  LP!IInv' /\ \A u \in Callers \ {t} : at'[u] = at[u]
<1>1. LP!Next
  BY LockThreads
     DEF LP!Next,
         Lock!AcquireRead, Lock!ResumeRead, Lock!ReleaseRead, Lock!ReadLoop, Lock!ReadBlocked,
         Lock!AcquireWrite, Lock!ResumeWrite, Lock!ReleaseWrite, Lock!WriteLoop, Lock!WriteBlocked,
         LP!AcquireRead, LP!ResumeRead, LP!ReleaseRead, LP!ReadLoop, LP!ReadBlocked,
         LP!AcquireWrite, LP!ResumeWrite, LP!ReleaseWrite, LP!WriteLoop, LP!WriteBlocked
<1>2. LP!IsFiniteSet(LP!Threads)
  BY LockThreads, CallersAssumption DEF IsFiniteSet, LP!IsFiniteSet
<1>3. at \in [Callers -> LP!Places]
  BY LockThreads DEF LP!IInv, LP!TypeOK
<1>4. \A u \in Callers \ {t} : at'[u] = at[u]
  BY <1>3
     DEF Lock!AcquireRead, Lock!ResumeRead, Lock!ReleaseRead, Lock!ReadLoop,
         Lock!AcquireWrite, Lock!ResumeWrite, Lock!ReleaseWrite, Lock!WriteLoop
<1>. QED BY <1>1, <1>2, <1>4, LP!NextInv

\* The invariant of the lock outlives steps that do not touch it.
LEMMA LockStutter ==
  ASSUME LP!IInv, UNCHANGED lockVars
  PROVE  LP!IInv'
<1>1. UNCHANGED LP!vars
  BY DEF lockVars, LP!vars
<1>2. LP!IsFiniteSet(LP!Threads)
  BY LockThreads, CallersAssumption DEF IsFiniteSet, LP!IsFiniteSet
<1>. QED BY <1>1, <1>2, LP!NextInv

\* Where a thread is afterwards.
LEMMA LockPlaces ==
  ASSUME LP!IInv, NEW t \in Callers
  PROVE  /\ Lock!AcquireRead(t) \/ Lock!ResumeRead(t) => at'[t] \in {"rwait", "reading"}
         /\ Lock!AcquireWrite(t) \/ Lock!ResumeWrite(t) => at'[t] \in {"wwait", "writing"}
         /\ Lock!ReleaseRead(t) => at[t] = "reading" /\ at'[t] = "out"
         /\ Lock!ReleaseWrite(t) => at[t] = "writing" /\ at'[t] = "out"
<1>1. at \in [Callers -> LP!Places]
  BY LockThreads DEF LP!IInv, LP!TypeOK
<1>. QED BY <1>1
   DEF Lock!AcquireRead, Lock!ResumeRead, Lock!ReleaseRead, Lock!ReadLoop,
       Lock!AcquireWrite, Lock!ResumeWrite, Lock!ReleaseWrite, Lock!WriteLoop

\* Exclusion, and the types of the lock, thread by thread.
LEMMA WriterAlone ==
  ASSUME LP!IInv
  PROVE  /\ Lock!TypeOK
         /\ at \in [Callers -> {"out", "rwait", "reading", "wwait", "writing"}]
         /\ \A t, u \in Callers : at[t] = "writing" => at[u] # "reading" /\ (at[u] = "writing" => u = t)
<1>1. Lock!TypeOK
  BY DEF LP!IInv, LP!TypeOK, Lock!TypeOK, LP!At, Lock!At, LP!Places, Lock!Places, LP!Threads, Lock!Threads
<1>2. at \in [Callers -> {"out", "rwait", "reading", "wwait", "writing"}]
  BY LockThreads DEF LP!IInv, LP!TypeOK, LP!Places
<1>3. \A t, u \in Callers : at[t] = "writing" => at[u] # "reading" /\ (at[u] = "writing" => u = t)
  BY LockThreads DEF LP!IInv, LP!Exclusion, LP!At
<1>. QED BY <1>1, <1>2, <1>3

-----------------------------------------------------------------------------
(* The invariant                                                           *)

\* The limit, under pressure or not, and the most the cache may hold when nobody
\* writes.
Sizes == configuredSize \in Int /\ maxCacheSize \in {configuredSize, Reduction}

Most == Larger(configuredSize, Reduction)

Keys == {<<b.namespace, NFKC[s]>> : b \in Batches, s \in Texts}

\* A row in the cache is that of a text with the normal form in its key.
CacheFits == /\ cache \in Seq([key : Keys, row : Texts])
             /\ \A n \in 1..Len(cache) : cache[n].key[2] = NFKC[cache[n].row]

Control == /\ pc \in [Callers -> Labels]
           /\ checkDue \in BOOLEAN
           /\ calls \in [Callers -> 0..MaxCalls]

Shapes == batch \in [Callers -> Batches \cup {NoBatch}] /\ DOMAIN rows = Callers /\ DOMAIN todo = Callers

\* The rows a call has, and has still to compute, belong to its texts.
CallFits(t) ==
  /\ rows[t] \in [Positions(t) -> Texts \cup {NoRow}]
  /\ todo[t] \subseteq Positions(t)
  /\ \A i \in Positions(t) : rows[t][i] # NoRow => NFKC[rows[t][i]] = NFKC[batch[t].texts[i]]
  /\ pc[t] = "return" => Misses(t) = {}
  /\ pc[t] = "insert" => todo[t] \subseteq FirstMisses(t)

Counters == /\ totalRequests \in Nat /\ cacheHits \in Nat /\ cacheHits <= totalRequests
            /\ DOMAIN stats = Callers
            /\ \A t \in Callers : /\ stats[t] \in [size : Nat, requests : Nat, hits : Nat]
                                  /\ stats[t].hits <= stats[t].requests

\* Nobody finds more in the cache than it may hold, nor reports it.
Overshoot == /\ (\A t \in Callers : at[t] # "writing") => Len(cache) <= Most
             /\ \A t \in Callers : stats[t].size <= Most

Calls == \A t \in Callers : CallFits(t)

Inv == /\ LP!IInv /\ LockHeldOnlyInSections
       /\ Sizes /\ CacheFits /\ Control /\ Shapes /\ Calls /\ Counters /\ Overshoot

\* The limits are integers, and half of a limit is one of them.
LEMMA Limits ==
  ASSUME Sizes
  PROVE  /\ Reduction \in Int /\ Reduction >= 1 /\ Reduction <= Most
         /\ Most \in Int /\ Most >= 1
         /\ maxCacheSize \in Int /\ maxCacheSize <= Most
<1>1. configuredSize \div 2 \in Int
  BY DEF Sizes
<1>. QED BY <1>1 DEF Sizes, Reduction, Most, Larger

\* A set of natural numbers that is not empty has a least element.
LEMMA LeastIsOne ==
  ASSUME NEW S, S \subseteq Nat, S # {}
  PROVE  Least(S) \in S /\ \A j \in S : Least(S) <= j
<1>1. PICK i \in S : \A j \in S : ~(<<j, i>> \in OpToRel(<, Nat))
  BY NatLessThanWellFounded, WFMin
<1>2. \A j \in S : ~(j < i)
  <2>. SUFFICES ASSUME NEW j \in S, j < i PROVE FALSE
    OBVIOUS
  <2>1. <<j, i>> \in OpToRel(<, Nat)
    BY DEF OpToRel
  <2>. QED BY <1>1, <2>1
<1>3. \A j \in S : i <= j
  BY <1>2
<1>. QED BY <1>3 DEF Least

\* Positions are natural numbers, and a text is at each.
LEMMA TextsAt ==
  ASSUME Shapes, NEW t \in Callers
  PROVE  /\ Positions(t) \subseteq Nat /\ IsFiniteSet(Positions(t))
         /\ \A i \in Positions(t) : /\ batch[t] \in Batches /\ batch[t].texts[i] \in Texts
                                    /\ Key(t, i) \in Keys
<1>1. CASE batch[t] \in Batches
  <2>1. batch[t].texts \in Seq(Texts)
    BY <1>1, BatchesAssumption
  <2>2. Positions(t) = 1..Len(batch[t].texts) /\ Len(batch[t].texts) \in Nat
    BY <2>1 DEF Positions
  <2>3. IsFiniteSet(Positions(t))
    BY <2>2, FS_Interval
  <2>4. \A i \in Positions(t) : batch[t].texts[i] \in Texts
    BY <2>1, <2>2
  <2>5. \A i \in Positions(t) : Key(t, i) \in Keys
    BY <1>1, <2>4 DEF Key, Keys
  <2>6. Positions(t) \subseteq Nat
    BY <2>2
  <2>. QED BY <1>1, <2>3, <2>4, <2>5, <2>6
<1>2. CASE batch[t] = NoBatch
  <2>1. batch[t].texts = << >>
    <3>1. NoBatch.texts = << >>
      BY Zenon DEF NoBatch
    <3>. QED BY <1>2, <3>1
  <2>2. Positions(t) = {}
    BY <2>1 DEF Positions
  <2>. QED BY <2>2, FS_EmptySet
<1>. QED BY <1>1, <1>2 DEF Shapes

\* Each key that missed has a first position, and the row computed there is that of a
\* text with the same normal form.
LEMMA ComputedFits ==
  ASSUME Shapes, NEW t \in Callers, NEW i \in Misses(t)
  PROVE  /\ Computed(t, i) \in Texts
         /\ NFKC[Computed(t, i)] = NFKC[batch[t].texts[i]]
<1>. DEFINE Same == {j \in Misses(t) : Key(t, j) = Key(t, i)}
<1>1. Same \subseteq Nat /\ Same # {} /\ Same \subseteq Positions(t)
  BY TextsAt DEF Misses
<1>2. Least(Same) \in Same /\ \A j \in Same : Least(Same) <= j
  BY <1>1, LeastIsOne
<1>3. Least(Same) \in FirstMisses(t) /\ Key(t, Least(Same)) = Key(t, i)
  BY <1>2 DEF FirstMisses
<1>. DEFINE first == CHOOSE j \in FirstMisses(t) : Key(t, j) = Key(t, i)
<1>4. first \in FirstMisses(t) /\ Key(t, first) = Key(t, i)
  BY <1>3
<1>5. first \in Positions(t) /\ Computed(t, i) = batch[t].texts[first]
  BY <1>4 DEF FirstMisses, Misses, Computed
<1>. QED BY <1>4, <1>5, TextsAt DEF Key

-----------------------------------------------------------------------------
(* The steps                                                               *)

\* Everything holds before the first call.
LEMMA InitInv == Init => Inv
<1>. SUFFICES ASSUME Init PROVE Inv
  OBVIOUS
<1>1. LP!IInv
  <2>1. LP!IsFiniteSet(LP!Threads)
    BY LockThreads, CallersAssumption DEF IsFiniteSet, LP!IsFiniteSet
  <2>2. LP!Init
    BY DEF Init, Lock!Init, LP!Init, Lock!Threads, LP!Threads
  <2>. QED BY <2>1, <2>2, LP!InitInv
<1>2. at = [t \in Callers |-> "out"]
  BY LockThreads DEF Init, Lock!Init
<1>3. Sizes /\ CacheFits /\ Control
  <2>1. CacheFits
    BY DEF Init, CacheFits
  <2>2. Sizes
    BY ConfiguredSizesAssumption DEF Init, Sizes
  <2>3. Control
    <3>1. calls \in [Callers -> 0..MaxCalls]
      BY CallersAssumption DEF Init
    <3>2. pc \in [Callers -> Labels] /\ checkDue \in BOOLEAN
      BY DEF Init, Labels
    <3>. QED BY <3>1, <3>2 DEF Control
  <2>. QED BY <2>1, <2>2, <2>3
<1>4. Shapes
  BY DEF Init, Shapes
<1>5. Calls
  <2>. SUFFICES ASSUME NEW t \in Callers PROVE CallFits(t)
    BY DEF Calls
  <2>1. batch[t].texts = << >> /\ rows[t] = << >> /\ todo[t] = {} /\ pc[t] = "idle"
    BY DEF Init, NoBatch
  <2>2. Positions(t) = {}
    BY <2>1 DEF Positions
  <2>. QED BY <2>1, <2>2 DEF CallFits
<1>6. Counters /\ Overshoot
  BY <1>3, Limits DEF Init, NoStats, Counters, Overshoot
<1>. QED BY <1>1, <1>2, <1>3, <1>4, <1>5, <1>6 DEF Inv, LockHeldOnlyInSections, Init

\* The step of a thread leaves the calls of the others alone.
LEMMA OthersStay ==
  ASSUME Inv, NEW t \in Callers, NEW u \in Callers \ {t},
         pc'[u] = pc[u], batch'[u] = batch[u], rows'[u] = rows[u], todo'[u] = todo[u]
  PROVE  CallFits(u)'
BY DEF Inv, Calls, CallFits, Positions, Misses, FirstMisses, Key

\* A step that changes neither texts nor rows nor what is left to do, and does not end
\* at an insert or a return, leaves the call as it was.
LEMMA CallStays ==
  ASSUME Inv, NEW t \in Callers,
         pc'[t] \notin {"insert", "return"} \/ pc'[t] = pc[t],
         batch'[t] = batch[t], rows'[t] = rows[t], todo'[t] = todo[t]
  PROVE  CallFits(t)'
BY DEF Inv, Calls, CallFits, Positions, Misses, FirstMisses, Key

\* A step that leaves the cache, the limits and the statistics alone keeps what is
\* known of them, if a writer goes only when the cache is within its bound.
LEMMA CacheStays ==
  ASSUME Inv, UNCHANGED <<cache, statVars, stats>>, UNCHANGED configuredSize,
         maxCacheSize' \in {configuredSize, Reduction},
         (\A t \in Callers : at'[t] # "writing") =>
           (\A t \in Callers : at[t] # "writing") \/ Len(cache) <= Most
  PROVE  Sizes' /\ CacheFits' /\ Counters' /\ Overshoot'
BY DEF Inv, Sizes, CacheFits, Counters, Overshoot, Most, Reduction, Larger, statVars

\* Waiting for the lock and getting it.
LEMMA WaitInv ==
  ASSUME Inv, NEW t \in Callers, WaitToRead(t) \/ WaitToWrite(t)
  PROVE  Inv'
<1>1. /\ UNCHANGED <<cache, limitVars, statVars, pc, callVars, stats, calls>>
      /\ LP!IInv' /\ \A u \in Callers \ {t} : at'[u] = at[u]
  BY LockStep DEF WaitToRead, WaitToWrite, Inv
<1>2. \/ pc[t] \in {"lookup", "size"} /\ at'[t] \in {"rwait", "reading"}
      \/ pc[t] \in {"trim", "insert"} /\ at'[t] \in {"wwait", "writing"}
  BY LockPlaces DEF WaitToRead, WaitToWrite, Inv
<1>3. at[t] # "writing"
  BY WriterAlone, LockThreads
     DEF Inv, WaitToRead, WaitToWrite, Lock!AcquireRead, Lock!ResumeRead, Lock!AcquireWrite, Lock!ResumeWrite
<1>4. Sizes' /\ CacheFits' /\ Counters' /\ Overshoot'
  <2>1. (\A u \in Callers : at'[u] # "writing") => (\A u \in Callers : at[u] # "writing")
    BY <1>1, <1>3
  <2>. QED BY <1>1, <2>1, CacheStays DEF limitVars, Inv, Sizes
<1>5. Calls'
  BY <1>1, CallStays DEF Calls, callVars
<1>6. LockHeldOnlyInSections'
  BY <1>1, <1>2 DEF Inv, LockHeldOnlyInSections
<1>. QED BY <1>1, <1>4, <1>5, <1>6 DEF Inv, Control, Shapes, limitVars, callVars

\* A step without the lock that changes nothing but where a thread is, or the limit.
LEMMA LocalInv ==
  ASSUME Inv, NEW t \in Callers,
         UNCHANGED <<cache, configuredSize, statVars, callVars, stats, calls, lockVars>>,
         maxCacheSize' \in {configuredSize, Reduction}, checkDue' \in BOOLEAN,
         NEW label \in Labels \ {"insert", "return"}, Goto(t, label), at[t] = "out"
  PROVE  Inv'
<1>1. LP!IInv'
  BY LockStutter DEF Inv
<1>2. pc' \in [Callers -> Labels] /\ pc'[t] = label /\ \A u \in Callers \ {t} : pc'[u] = pc[u]
  BY DEF Inv, Control, Goto
<1>3. at' = at
  BY DEF lockVars
<1>4. Sizes' /\ CacheFits' /\ Counters' /\ Overshoot'
  BY <1>3, CacheStays
<1>5. Calls'
  <2>1. \A u \in Callers : CallFits(u)'
    BY <1>2, CallStays DEF callVars
  <2>. QED BY <2>1 DEF Calls
<1>6. LockHeldOnlyInSections'
  BY <1>2, <1>3 DEF Inv, LockHeldOnlyInSections
<1>. QED BY <1>1, <1>2, <1>4, <1>5, <1>6 DEF Inv, Control, Shapes, callVars

\* A thread that is in no section does not hold the lock.
LEMMA OutsideSections ==
  ASSUME Inv, NEW t \in Callers, pc[t] \notin {"lookup", "size", "trim", "insert"}
  PROVE  at[t] = "out"
BY WriterAlone DEF Inv, LockHeldOnlyInSections

\* The check of the memory pressure, up to the trim and after it.
LEMMA PressureInv ==
  ASSUME Inv, NEW t \in Callers,
         CheckThrottle(t) \/ ResetThrottle(t) \/ Sample(t) \/ LowerLimit(t)
  PROVE  Inv'
<1>1. at[t] = "out"
  BY OutsideSections DEF CheckThrottle, ResetThrottle, Sample, LowerLimit
<1>. USE <1>1
<1>2. CASE CheckThrottle(t)
  <2>1. PICK label \in {"reset", "lookup"} : Goto(t, label)
    BY <1>2 DEF CheckThrottle
  <2>. QED BY <1>2, <2>1, LocalInv DEF CheckThrottle, limitVars, Inv, Sizes, Control, Labels
<1>3. CASE ResetThrottle(t)
  BY <1>3, LocalInv DEF ResetThrottle, Inv, Sizes, Labels
<1>4. CASE Sample(t)
  <2>1. PICK label \in {"trim", "lookup"} : Goto(t, label)
    BY <1>4 DEF Sample
  <2>. QED BY <1>4, <2>1, LocalInv DEF Sample, Inv, Sizes, Control, Labels
<1>5. CASE LowerLimit(t)
  BY <1>5, LocalInv DEF LowerLimit, Inv, Control, Labels
<1>. QED BY <1>2, <1>3, <1>4, <1>5

\* The others' calls, for a step that touches the state of t's call alone.
LEMMA CallsStep ==
  ASSUME Inv, NEW t \in Callers, CallFits(t)',
         \A u \in Callers \ {t} : /\ pc'[u] = pc[u] /\ batch'[u] = batch[u]
                                  /\ rows'[u] = rows[u] /\ todo'[u] = todo[u]
  PROVE  Calls'
<1>1. \A u \in Callers \ {t} : CallFits(u)'
  BY OthersStay
<1>. QED BY <1>1 DEF Calls

\* Removing the oldest entries leaves a cache that fits, and is shorter.
LEMMA TailFits ==
  ASSUME CacheFits, cache # << >>, cache' = Tail(cache)
  PROVE  CacheFits' /\ Len(cache') = Len(cache) - 1
<1>. DEFINE E == [key : Keys, row : Texts]
<1>1. cache \in Seq(E)
  BY DEF CacheFits
<1>. HIDE DEF E
<1>2. Tail(cache) \in Seq(E) /\ Len(Tail(cache)) = Len(cache) - 1 /\ Len(cache) \in Nat
  BY <1>1
<1>3. \A n \in 1..Len(Tail(cache)) : Tail(cache)[n] = cache[n + 1] /\ n + 1 \in 1..Len(cache)
  BY <1>1, <1>2
<1>4. \A n \in 1..Len(cache') : cache'[n].key[2] = NFKC[cache'[n].row]
  BY <1>2, <1>3 DEF CacheFits
<1>. QED BY <1>2, <1>4 DEF CacheFits, E

\* A turn of a loop that drops the oldest entry, in a section of the writer.
LEMMA DropInv ==
  ASSUME Inv, NEW t \in Callers, at[t] = "writing", cache # << >>, cache' = Tail(cache),
         UNCHANGED <<limitVars, statVars, pc, callVars, stats, calls, lockVars>>
  PROVE  Inv'
<1>1. LP!IInv'
  BY LockStutter DEF Inv
<1>2. at' = at /\ pc' = pc
  BY DEF lockVars
<1>3. Overshoot' /\ Sizes' /\ Counters'
  BY <1>2 DEF Inv, Overshoot, Sizes, Counters, limitVars, statVars, Most, Reduction, Larger
<1>4. CacheFits'
  BY TailFits DEF Inv
<1>5. Calls'
  BY <1>2, CallStays DEF Calls, callVars
<1>6. LockHeldOnlyInSections'
  BY <1>2 DEF Inv, LockHeldOnlyInSections
<1>. QED BY <1>1, <1>3, <1>4, <1>5, <1>6 DEF Inv, Control, Shapes, limitVars, callVars

\* The turns of both loops that drop entries.
LEMMA TrimInv ==
  ASSUME Inv, NEW t \in Callers, TrimOldest(t) \/ Evict(t)
  PROVE  Inv'
<1>1. CASE TrimOldest(t)
  <2>1. Len(cache) >= 1 /\ cache \in Seq([key : Keys, row : Texts])
    BY <1>1, Limits DEF TrimOldest, Inv, CacheFits
  <2>2. cache # << >>
    BY <2>1
  <2>. QED BY <1>1, <2>2, DropInv DEF TrimOldest
<1>2. CASE Evict(t)
  BY <1>2, DropInv DEF Evict
<1>. QED BY <1>1, <1>2

\* Leaving a section without touching the cache: to a statement that is neither an
\* insert nor a return, or with a call that fits it.
LEMMA LeaveInv ==
  ASSUME Inv, NEW t \in Callers,
         \/ Lock!ReleaseRead(t)
         \/ Lock!ReleaseWrite(t) /\ Len(cache) <= Most,
         NEW label \in Labels, Goto(t, label), Shapes', CallFits(t)',
         \A u \in Callers \ {t} : /\ batch'[u] = batch[u]
                                  /\ rows'[u] = rows[u] /\ todo'[u] = todo[u],
         UNCHANGED <<cache, limitVars, calls>>,
         \/ UNCHANGED <<statVars, stats>>
         \/ Counters' /\ \A u \in Callers : stats'[u].size <= Most
  PROVE  Inv'
<1>1. LP!IInv' /\ \A u \in Callers \ {t} : at'[u] = at[u]
  BY LockStep DEF Inv
<1>2. at'[t] = "out"
  BY LockPlaces DEF Inv
<1>3. pc' \in [Callers -> Labels] /\ pc'[t] = label /\ \A u \in Callers \ {t} : pc'[u] = pc[u]
  BY DEF Inv, Control, Goto
<1>4. LockHeldOnlyInSections'
  BY <1>1, <1>2, <1>3 DEF Inv, LockHeldOnlyInSections
<1>5. Calls'
  BY <1>3, CallsStep
<1>6. (\A u \in Callers : at'[u] # "writing") => Len(cache) <= Most
  <2>1. CASE Lock!ReleaseRead(t)
    <3>1. at[t] = "reading"
      BY <2>1, LockPlaces DEF Inv
    <3>. QED BY <1>1, <3>1 DEF Inv, Overshoot
  <2>. QED BY <2>1
<1>7. Sizes' /\ CacheFits' /\ Most' = Most
  BY DEF Inv, Sizes, CacheFits, limitVars, Most, Reduction, Larger
<1>8. Counters' /\ \A u \in Callers : stats'[u].size <= Most
  BY DEF Inv, Counters, Overshoot, statVars
<1>9. Overshoot'
  BY <1>6, <1>7, <1>8 DEF Overshoot
<1>. QED BY <1>1, <1>3, <1>4, <1>5, <1>7, <1>8, <1>9 DEF Inv, Control, limitVars

\* A step of a call outside the lock, or inside a section that it stays in, that
\* touches neither cache nor limits.
LEMMA CallInv ==
  ASSUME Inv, NEW t \in Callers,
         NEW label \in Labels, Goto(t, label), label = pc[t] \/ at[t] = "out",
         Shapes', CallFits(t)', calls' \in [Callers -> 0..MaxCalls],
         \A u \in Callers \ {t} : /\ batch'[u] = batch[u]
                                  /\ rows'[u] = rows[u] /\ todo'[u] = todo[u],
         UNCHANGED <<cache, limitVars, lockVars>>,
         \/ UNCHANGED <<statVars, stats>>
         \/ Counters' /\ \A u \in Callers : stats'[u].size <= Most
  PROVE  Inv'
<1>1. LP!IInv' /\ at' = at
  BY LockStutter DEF Inv, lockVars
<1>2. pc' \in [Callers -> Labels] /\ pc'[t] = label /\ \A u \in Callers \ {t} : pc'[u] = pc[u]
  BY DEF Inv, Control, Goto
<1>3. LockHeldOnlyInSections'
  BY <1>1, <1>2 DEF Inv, LockHeldOnlyInSections
<1>4. Calls'
  BY <1>2, CallsStep
<1>5. Sizes' /\ CacheFits' /\ Most' = Most
  BY DEF Inv, Sizes, CacheFits, limitVars, Most, Reduction, Larger
<1>6. Counters' /\ \A u \in Callers : stats'[u].size <= Most
  BY DEF Inv, Counters, Overshoot, statVars
<1>7. Overshoot'
  BY <1>1, <1>5, <1>6 DEF Inv, Overshoot
<1>. QED BY <1>1, <1>2, <1>3, <1>4, <1>5, <1>6, <1>7 DEF Inv, Control, limitVars

-----------------------------------------------------------------------------
(* embed_batch and get_stats                                               *)

\* A call begins with no rows and everything to do.
LEMMA StartBatchInv ==
  ASSUME Inv, NEW t \in Callers, StartBatch(t)
  PROVE  Inv'
<1>1. PICK b \in Batches : /\ batch' = [batch EXCEPT ![t] = b]
                           /\ rows' = [rows EXCEPT ![t] = [i \in DOMAIN b.texts |-> NoRow]]
                           /\ todo' = [todo EXCEPT ![t] = DOMAIN b.texts]
  BY DEF StartBatch
<1>2. /\ Goto(t, "throttle") /\ at[t] = "out"
      /\ calls' \in [Callers -> 0..MaxCalls]
      /\ stats' = [stats EXCEPT ![t] = NoStats]
      /\ UNCHANGED <<cache, limitVars, statVars, lockVars>>
  <2>1. calls[t] + 1 \in 0..MaxCalls
    BY CallersAssumption DEF StartBatch, Inv, Control
  <2>. QED BY <2>1, OutsideSections DEF StartBatch, Inv, Control
<1>3. /\ batch'[t] = b /\ rows'[t] = [i \in DOMAIN b.texts |-> NoRow] /\ todo'[t] = DOMAIN b.texts
      /\ \A u \in Callers \ {t} : /\ batch'[u] = batch[u]
                                  /\ rows'[u] = rows[u] /\ todo'[u] = todo[u]
      /\ Shapes'
  BY <1>1 DEF Inv, Shapes
<1>4. pc'[t] = "throttle"
  BY <1>2 DEF Goto, Inv, Control
<1>5. CallFits(t)'
  BY <1>3, <1>4 DEF CallFits, Positions
<1>6. Counters' /\ \A u \in Callers : stats'[u].size <= Most
  <2>1. Most \in Int /\ Most >= 1
    BY Limits DEF Inv
  <2>. QED BY <1>2, <2>1 DEF Inv, Counters, Overshoot, statVars, NoStats
<1>. QED BY <1>2, <1>3, <1>5, <1>6, CallInv DEF Labels

\* A cached row belongs to every text with its key.
LEMMA LookUpInv ==
  ASSUME Inv, NEW t \in Callers, LookUp(t)
  PROVE  Inv'
<1>. DEFINE i == Least(todo[t])
<1>1. /\ pc[t] = "lookup" /\ todo[t] # {} /\ todo' = [todo EXCEPT ![t] = @ \ {i}]
      /\ rows' = IF Cached(Key(t, i)) THEN [rows EXCEPT ![t][i] = CachedRow(Key(t, i))] ELSE rows
      /\ UNCHANGED <<cache, limitVars, statVars, pc, batch, stats, calls, lockVars>>
  BY DEF LookUp
<1>2. CallFits(t) /\ Shapes
  BY DEF Inv, Calls
<1>3. i \in Positions(t)
  <2>1. todo[t] \subseteq Nat
    BY <1>2, TextsAt DEF CallFits
  <2>. QED BY <1>1, <1>2, <2>1, LeastIsOne DEF CallFits
<1>4. ASSUME Cached(Key(t, i))
      PROVE  /\ CachedRow(Key(t, i)) \in Texts
             /\ NFKC[CachedRow(Key(t, i))] = NFKC[batch[t].texts[i]]
  <2>. DEFINE n == CHOOSE m \in DOMAIN cache : cache[m].key = Key(t, i)
  <2>1. n \in DOMAIN cache /\ cache[n].key = Key(t, i) /\ CachedRow(Key(t, i)) = cache[n].row
    BY <1>4 DEF Cached, CachedRow
  <2>. HIDE DEF n
  <2>2. cache[n].row \in Texts /\ cache[n].key[2] = NFKC[cache[n].row]
    <3>. DEFINE E == [key : Keys, row : Texts]
    <3>1. cache \in Seq(E) /\ \A m \in 1..Len(cache) : cache[m].key[2] = NFKC[cache[m].row]
      BY DEF Inv, CacheFits
    <3>. HIDE DEF E
    <3>2. n \in 1..Len(cache) /\ cache[n] \in E
      BY <2>1, <3>1
    <3>. QED BY <3>1, <3>2 DEF E
  <2>3. Key(t, i)[2] = NFKC[batch[t].texts[i]]
    BY DEF Key
  <2>. QED BY <2>1, <2>2, <2>3
<1>. HIDE DEF i
<1>5. /\ todo'[t] \subseteq todo[t]
      /\ rows'[t] \in [Positions(t) -> Texts \cup {NoRow}]
      /\ \A j \in Positions(t) : rows'[t][j] = rows[t][j] \/ (j = i /\ Cached(Key(t, i)) /\ rows'[t][j] = CachedRow(Key(t, i)))
      /\ \A u \in Callers \ {t} : todo'[u] = todo[u] /\ rows'[u] = rows[u]
      /\ DOMAIN rows' = Callers /\ DOMAIN todo' = Callers
  BY <1>1, <1>2, <1>3, <1>4 DEF CallFits, Shapes
<1>6. CallFits(t)'
  BY <1>1, <1>2, <1>4, <1>5 DEF CallFits, Positions
<1>7. Goto(t, "lookup")
  BY <1>1 DEF Goto, Inv, Control
<1>. QED BY <1>1, <1>5, <1>6, <1>7, CallInv DEF Inv, Shapes, Control, Labels

\* The lookups end.
LEMMA LookUpDoneInv ==
  ASSUME Inv, NEW t \in Callers, LookUpDone(t)
  PROVE  Inv'
<1>1. pc'[t] = "count"
  BY DEF LookUpDone, Goto, Inv, Control
<1>2. CallFits(t)'
  BY <1>1, CallStays DEF LookUpDone, callVars
<1>. QED BY <1>2, LeaveInv DEF LookUpDone, callVars, Inv, Shapes, Labels

\* A call counts no more hits than texts, and returns at once only if all are hits.
LEMMA CountHitsInv ==
  ASSUME Inv, NEW t \in Callers, CountHits(t)
  PROVE  Inv'
<1>1. at[t] = "out"
  BY OutsideSections DEF CountHits
<1>2. /\ UNCHANGED <<cache, limitVars, callVars, stats, calls, lockVars>>
      /\ Goto(t, IF Misses(t) = {} THEN "return" ELSE "encode")
  BY DEF CountHits
<1>3. pc'[t] = IF Misses(t) = {} THEN "return" ELSE "encode"
  BY <1>2 DEF Goto, Inv, Control
<1>4. CallFits(t)'
  BY <1>2, <1>3 DEF Inv, Calls, CallFits, Positions, Misses, callVars
<1>5. Counters'
  <2>. DEFINE requests == Cardinality(Positions(t))
              hits == Cardinality(Positions(t) \ Misses(t))
  <2>1. requests \in Nat /\ hits \in Nat /\ hits <= requests
    <3>1. IsFiniteSet(Positions(t)) /\ Positions(t) \ Misses(t) \subseteq Positions(t)
      BY TextsAt DEF Inv
    <3>. QED BY <3>1, FS_Subset, FS_CardinalityType
  <2>2. totalRequests' = totalRequests + requests /\ cacheHits' = cacheHits + hits
    BY DEF CountHits
  <2>. QED BY <1>2, <2>1, <2>2 DEF Inv, Counters
<1>6. \A u \in Callers : stats'[u].size <= Most
  BY <1>2 DEF Inv, Overshoot
<1>. QED BY <1>1, <1>2, <1>4, <1>5, <1>6, CallInv DEF callVars, Inv, Shapes, Control, Labels

\* One position for every key that missed is to be inserted.
LEMMA EncodeInv ==
  ASSUME Inv, NEW t \in Callers, Encode(t)
  PROVE  Inv'
<1>1. at[t] = "out"
  BY OutsideSections DEF Encode
<1>2. pc'[t] = "insert" /\ todo'[t] = FirstMisses(t) /\ batch' = batch /\ rows' = rows
      /\ DOMAIN todo' = Callers /\ \A u \in Callers \ {t} : todo'[u] = todo[u]
  BY DEF Encode, Goto, Inv, Control, Shapes
<1>3. FirstMisses(t) \subseteq Positions(t)
  BY DEF FirstMisses, Misses
<1>4. CallFits(t)'
  BY <1>2, <1>3 DEF Inv, Calls, CallFits, Positions, Misses, FirstMisses, Key
<1>. QED BY <1>1, <1>2, <1>4, CallInv DEF Encode, Inv, Shapes, Control, Labels

\* A call that is over has no texts, no rows and nothing to do.
LEMMA FinishFits ==
  ASSUME Inv, NEW t \in Callers, Finish(t)
  PROVE  /\ Shapes' /\ CallFits(t)'
         /\ \A u \in Callers \ {t} : /\ batch'[u] = batch[u]
                                     /\ rows'[u] = rows[u] /\ todo'[u] = todo[u]
<1>1. /\ batch'[t] = NoBatch /\ rows'[t] = << >> /\ todo'[t] = {} /\ Shapes'
      /\ \A u \in Callers \ {t} : /\ batch'[u] = batch[u]
                                  /\ rows'[u] = rows[u] /\ todo'[u] = todo[u]
  BY DEF Finish, Inv, Shapes
<1>2. pc'[t] = "idle"
  BY DEF Finish, Goto, Inv, Control
<1>3. NoBatch.texts = << >>
  BY Zenon DEF NoBatch
<1>4. Positions(t)' = {}
  BY <1>1, <1>3 DEF Positions
<1>5. CallFits(t)'
  BY <1>1, <1>2, <1>4 DEF CallFits, Misses
<1>. QED BY <1>1, <1>5

\* Calls end with an answer, with the model's exception, or with that of the eviction
\* loop.
LEMMA FinishInv ==
  ASSUME Inv, NEW t \in Callers, EncodeFails(t) \/ Return(t) \/ EvictFromEmpty(t)
  PROVE  Inv'
<1>1. CASE EncodeFails(t) \/ Return(t)
  <2>1. at[t] = "out"
    BY <1>1, OutsideSections DEF EncodeFails, Return
  <2>2. Finish(t) /\ UNCHANGED <<cache, limitVars, statVars, stats, calls, lockVars>>
    BY <1>1 DEF EncodeFails, Return
  <2>. QED BY <2>1, <2>2, FinishFits, CallInv DEF Finish, Inv, Control, Labels
<1>2. CASE EvictFromEmpty(t)
  <2>1. Finish(t) /\ UNCHANGED <<cache, limitVars, statVars, stats, calls>>
        /\ Lock!ReleaseWrite(t) /\ cache = << >>
    BY <1>2 DEF EvictFromEmpty
  <2>2. Len(cache) <= Most
    BY <2>1, Limits DEF Inv
  <2>. QED BY <2>1, <2>2, FinishFits, LeaveInv DEF Finish, Labels
<1>. QED BY <1>1, <1>2

\* An inserted row is that of a text with the normal form in its key.
LEMMA InsertInv ==
  ASSUME Inv, NEW t \in Callers, Insert(t)
  PROVE  Inv'
<1>. DEFINE i     == Least(todo[t])
            entry == [key |-> Key(t, i), row |-> Computed(t, i)]
            E     == [key : Keys, row : Texts]
<1>1. /\ pc[t] = "insert" /\ at[t] = "writing" /\ todo[t] # {}
      /\ todo' = [todo EXCEPT ![t] = @ \ {i}]
      /\ cache' = IF Cached(entry.key)
                  THEN [n \in DOMAIN cache |-> IF cache[n].key = entry.key THEN entry ELSE cache[n]]
                  ELSE Append(cache, entry)
      /\ UNCHANGED <<limitVars, statVars, pc, batch, rows, stats, calls, lockVars>>
  BY DEF Insert
<1>2. CallFits(t) /\ Shapes
  BY DEF Inv, Calls
<1>3. i \in Misses(t) /\ i \in Positions(t)
  <2>1. todo[t] \subseteq Nat /\ todo[t] \subseteq Misses(t)
    BY <1>1, <1>2, TextsAt DEF CallFits, FirstMisses
  <2>. QED BY <1>1, <2>1, LeastIsOne DEF Misses
<1>4. entry \in E /\ entry.key[2] = NFKC[entry.row]
  BY <1>2, <1>3, ComputedFits, TextsAt DEF Key
<1>5. cache \in Seq(E) /\ \A n \in 1..Len(cache) : cache[n].key[2] = NFKC[cache[n].row]
  BY DEF Inv, CacheFits
<1>. HIDE DEF i, entry, E
<1>6. cache' \in Seq(E) /\ \A n \in 1..Len(cache') : cache'[n].key[2] = NFKC[cache'[n].row]
  <2>1. CASE Cached(entry.key)
    <3>1. cache' = [n \in 1..Len(cache) |-> IF cache[n].key = entry.key THEN entry ELSE cache[n]]
          /\ Len(cache) \in Nat
      BY <1>1, <1>5, <2>1
    <3>2. \A n \in 1..Len(cache) : cache[n] \in E
      BY <1>5
    <3>3. \A n \in 1..Len(cache) : cache'[n] \in E /\ cache'[n].key[2] = NFKC[cache'[n].row]
      BY <1>4, <1>5, <3>1, <3>2
    <3>4. cache' \in Seq(E) /\ Len(cache') = Len(cache)
      <4>1. cache' \in [1..Len(cache) -> E]
        BY <3>1, <3>3
      <4>. QED BY <3>1, <4>1
    <3>. QED BY <3>3, <3>4
  <2>2. CASE ~Cached(entry.key)
    BY <1>1, <1>4, <1>5, <2>2
  <2>. QED BY <2>1, <2>2
<1>7. CacheFits'
  BY <1>6 DEF CacheFits, E
<1>8. /\ todo'[t] \subseteq todo[t] /\ DOMAIN todo' = Callers
      /\ \A u \in Callers \ {t} : todo'[u] = todo[u]
  BY <1>1, <1>2 DEF Shapes
<1>9. Calls'
  <2>1. CallFits(t)'
    BY <1>1, <1>2, <1>8 DEF CallFits, Positions, Misses, FirstMisses, Key
  <2>. QED BY <1>1, <1>8, <2>1, CallsStep
<1>10. LP!IInv' /\ at' = at
  BY <1>1, LockStutter DEF Inv, lockVars
<1>11. Sizes' /\ Counters' /\ Overshoot'
  BY <1>1, <1>10 DEF Inv, Sizes, Counters, Overshoot, limitVars, statVars, Most, Reduction, Larger
<1>. QED BY <1>1, <1>7, <1>8, <1>9, <1>10, <1>11
     DEF Inv, LockHeldOnlyInSections, Control, Shapes, limitVars

\* The rows that were computed fill the gaps.
LEMMA InsertDoneInv ==
  ASSUME Inv, NEW t \in Callers, InsertDone(t)
  PROVE  Inv'
<1>1. /\ rows' = [rows EXCEPT ![t] = [i \in DOMAIN @ |-> IF @[i] = NoRow THEN Computed(t, i) ELSE @[i]]]
      /\ Goto(t, "return") /\ Lock!ReleaseWrite(t) /\ Len(cache) <= maxCacheSize
      /\ UNCHANGED <<cache, limitVars, statVars, batch, todo, stats, calls>>
  BY DEF InsertDone
<1>2. Len(cache) <= Most
  <2>1. Len(cache) \in Nat
    BY DEF Inv, CacheFits
  <2>. QED BY <1>1, <2>1, Limits DEF Inv
<1>3. CallFits(t) /\ Shapes
  BY DEF Inv, Calls
<1>4. \A i \in Positions(t) : rows'[t][i] = IF rows[t][i] = NoRow THEN Computed(t, i) ELSE rows[t][i]
  BY <1>1, <1>3 DEF CallFits, Shapes
<1>5. DOMAIN rows' = Callers /\ rows'[t] = [i \in Positions(t) |-> rows'[t][i]]
      /\ \A u \in Callers \ {t} : rows'[u] = rows[u]
  BY <1>1, <1>3 DEF CallFits, Shapes
<1>6. \A i \in Positions(t) : rows'[t][i] \in Texts /\ NFKC[rows'[t][i]] = NFKC[batch[t].texts[i]]
  BY <1>3, <1>4, ComputedFits DEF CallFits, Misses
<1>7. pc'[t] = "return"
  BY <1>1 DEF Goto, Inv, Control
<1>8. CallFits(t)'
  <2>1. Positions(t)' = Positions(t) /\ batch' = batch /\ todo' = todo
    BY <1>1 DEF Positions
  <2>2. \A i \in Positions(t) : rows'[t][i] # NoRow
    BY <1>6, NoRowAssumption
  <2>3. rows'[t] \in [Positions(t) -> Texts \cup {NoRow}]
    BY <1>5, <1>6
  <2>4. Misses(t)' = {}
    BY <2>1, <2>2 DEF Misses
  <2>. QED BY <1>3, <1>6, <1>7, <2>1, <2>3, <2>4 DEF CallFits
<1>. QED BY <1>1, <1>2, <1>3, <1>5, <1>8, LeaveInv DEF Shapes, Labels

\* The counters are read together.
LEMMA StartStatsInv ==
  ASSUME Inv, NEW t \in Callers, StartStats(t)
  PROVE  Inv'
<1>1. /\ Goto(t, "size") /\ at[t] = "out"
      /\ calls' \in [Callers -> 0..MaxCalls]
      /\ stats' = [stats EXCEPT ![t].requests = totalRequests, ![t].hits = cacheHits]
      /\ UNCHANGED <<cache, limitVars, statVars, callVars, lockVars>>
  <2>1. calls[t] + 1 \in 0..MaxCalls
    BY CallersAssumption DEF StartStats, Inv, Control
  <2>. QED BY <2>1, OutsideSections DEF StartStats, Inv, Control
<1>2. pc'[t] = "size"
  BY <1>1 DEF Goto, Inv, Control
<1>3. CallFits(t)'
  BY <1>1, <1>2, CallStays DEF callVars
<1>4. Counters' /\ \A u \in Callers : stats'[u].size <= Most
  BY <1>1 DEF Inv, Counters, Overshoot, statVars
<1>. QED BY <1>1, <1>3, <1>4, CallInv DEF Inv, Shapes, callVars, Labels

\* The size is read when no writer is inside.
LEMMA ReadSizeInv ==
  ASSUME Inv, NEW t \in Callers, ReadSize(t)
  PROVE  Inv'
<1>1. /\ Goto(t, "idle") /\ Lock!ReleaseRead(t)
      /\ stats' = [stats EXCEPT ![t].size = Len(cache)]
      /\ UNCHANGED <<cache, limitVars, statVars, callVars, calls>>
  BY DEF ReadSize
<1>2. pc'[t] = "idle"
  BY <1>1 DEF Goto, Inv, Control
<1>3. CallFits(t)'
  BY <1>1, <1>2, CallStays DEF callVars
<1>4. Len(cache) \in Nat /\ Len(cache) <= Most
  <2>1. at[t] = "reading"
    BY <1>1, LockPlaces DEF Inv
  <2>2. \A u \in Callers : at[u] # "writing"
    BY <2>1, WriterAlone DEF Inv
  <2>. QED BY <2>2 DEF Inv, Overshoot, CacheFits
<1>5. Counters' /\ \A u \in Callers : stats'[u].size <= Most
  BY <1>1, <1>4 DEF Inv, Counters, Overshoot, statVars
<1>. QED BY <1>1, <1>3, <1>5, LeaveInv DEF Inv, Shapes, callVars, Labels

\* The trim ends with a cache within its bound.
LEMMA TrimDoneInv ==
  ASSUME Inv, NEW t \in Callers, TrimDone(t)
  PROVE  Inv'
<1>1. pc'[t] = "lower"
  BY DEF TrimDone, Goto, Inv, Control
<1>2. CallFits(t)'
  BY <1>1, CallStays DEF TrimDone, callVars
<1>3. Len(cache) <= Most
  <2>1. Len(cache) \in Nat
    BY DEF Inv, CacheFits
  <2>. QED BY <2>1, Limits DEF Inv, TrimDone
<1>. QED BY <1>2, <1>3, LeaveInv DEF TrimDone, Inv, Shapes, callVars, Labels

\* Steps of nobody.
LEMMA NobodyInv ==
  ASSUME Inv, IntervalPasses \/ UNCHANGED vars
  PROVE  Inv'
<1>1. UNCHANGED <<cache, configuredSize, maxCacheSize, statVars, pc, callVars, stats, calls, lockVars>>
      /\ checkDue' \in BOOLEAN
  BY DEF IntervalPasses, vars, limitVars, Inv, Control
<1>2. LP!IInv' /\ at' = at
  BY <1>1, LockStutter DEF Inv, lockVars
<1>3. Sizes' /\ CacheFits' /\ Counters' /\ Overshoot'
  BY <1>1, <1>2, CacheStays DEF Inv, Sizes
<1>4. Calls'
  BY <1>1, CallStays DEF Calls, callVars
<1>. QED BY <1>1, <1>2, <1>3, <1>4 DEF Inv, LockHeldOnlyInSections, Control, Shapes, callVars

\* The invariant is inductive.
LEMMA NextInv == Inv /\ [Next]_vars => Inv'
<1>. SUFFICES ASSUME Inv, [Next]_vars PROVE Inv'
  OBVIOUS
<1>1. ASSUME NEW t \in Callers, LocalStep(t) PROVE Inv'
  BY <1>1, WaitInv, PressureInv, TrimInv, TrimDoneInv, LookUpInv, LookUpDoneInv, CountHitsInv,
     InsertInv, FinishInv, InsertDoneInv, ReadSizeInv
     DEF LocalStep
<1>2. ASSUME NEW t \in Callers, StartBatch(t) \/ StartStats(t) \/ Encode(t) \/ EncodeFails(t)
      PROVE  Inv'
  BY <1>2, StartBatchInv, StartStatsInv, EncodeInv, FinishInv
<1>3. CASE IntervalPasses \/ UNCHANGED vars
  BY <1>3, NobodyInv
<1>. QED BY <1>1, <1>2, <1>3 DEF Next

\* The invariant always holds.
LEMMA Invariant == Spec => []Inv
BY InitInv, NextInv, PTL DEF Spec

-----------------------------------------------------------------------------
(* The theorems                                                            *)

\* A call returns embeddings of its own texts, whatever other calls insert, evict and
\* trim, for any texts, normal forms, namespaces, threads and limits.
THEOREM RowsAreOfTheirTexts == Spec => []RowsBelongToTheirTexts
<1>1. Inv => RowsBelongToTheirTexts
  BY DEF Inv, Calls, CallFits, Misses, RowsBelongToTheirTexts
<1>. QED BY <1>1, Invariant, PTL

\* Where at least one entry was asked for, the cache holds more than that only while a
\* writer is inside, and pressure moves the limit to half of it and back.  The floor of
\* 1 is then no more than what was asked for; below 1 it is.
THEOREM LimitIsKept == Spec => []OvershootOnlyWhileWriting
<1>1. ASSUME Sizes, configuredSize >= 1
      PROVE  /\ Most = configuredSize
             /\ maxCacheSize <= configuredSize
             /\ maxCacheSize \in {configuredSize, configuredSize \div 2}
  <2>1. /\ configuredSize \div 2 \in Int /\ configuredSize \div 2 <= configuredSize
        /\ configuredSize > 1 => configuredSize \div 2 >= 1
    BY <1>1 DEF Sizes
  <2>. QED BY <1>1, <2>1 DEF Sizes, Reduction, Most, Larger
<1>2. Inv => OvershootOnlyWhileWriting
  BY <1>1, LockThreads DEF Inv, Overshoot, OvershootOnlyWhileWriting, Lock!At
<1>. QED BY <1>2, Invariant, PTL

\* get_stats reports no overshoot and no more hits than requests.
THEOREM StatisticsAreSound == Spec => []StatsAreConsistent
<1>1. Inv => StatsAreConsistent
  BY DEF Inv, Counters, Overshoot, Most, StatsAreConsistent
<1>. QED BY <1>1, Invariant, PTL

\* No thread has the lock, or waits for it, outside the with blocks.
THEOREM LockOnlyInSections == Spec => []LockHeldOnlyInSections
<1>1. Inv => LockHeldOnlyInSections
  BY DEF Inv
<1>. QED BY <1>1, Invariant, PTL

\* The cache changes only by a writer's hand, with no reader inside.
THEOREM ReadersSeeOneCache == Spec => CacheStandsStillUnderReaders
<1>1. ASSUME Inv, [Next]_vars, cache' # cache
      PROVE  Lock!At("reading") = {} /\ Lock!At("writing") # {}
  <2>1. PICK t \in Callers : at[t] = "writing"
    BY <1>1
       DEF Next, LocalStep, WaitToRead, WaitToWrite, CheckThrottle, ResetThrottle, Sample,
           TrimOldest, TrimDone, LowerLimit, LookUp, LookUpDone, CountHits, Insert, Evict,
           EvictFromEmpty, InsertDone, Return, ReadSize, StartBatch, StartStats, Encode,
           EncodeFails, IntervalPasses, vars
  <2>. QED BY <1>1, <2>1, WriterAlone, LockThreads DEF Inv, Lock!At
<1>2. Inv /\ [Next]_vars =>
        [cache' # cache => Lock!At("reading") = {} /\ Lock!At("writing") # {}]_vars
  BY <1>1
<1>. QED BY <1>2, Invariant, PTL DEF Spec, CacheStandsStillUnderReaders

\* Every variable keeps to its type.
THEOREM TypeCorrect == Spec => []TypeOK
<1>1. Inv => TypeOK
  <2>. SUFFICES ASSUME Inv PROVE TypeOK
    OBVIOUS
  <2>1. Lock!TypeOK
    BY WriterAlone DEF Inv
  <2>. QED BY <2>1 DEF Inv, Sizes, CacheFits, Keys, Control, Shapes, Calls, CallFits, Counters, TypeOK
<1>. QED BY <1>1, Invariant, PTL

-----------------------------------------------------------------------------
(* The engine as a user of the lock                                        *)

\* What its threads do to the lock are steps of RWLock, whose theorems therefore hold in
\* the engine: nobody releases what it has not acquired, or acquires twice, on any path.
THEOREM EngineKeepsToItsLock == Spec => LP!Spec
<1>1. Init => LP!Init
  BY DEF Init, Lock!Init, LP!Init, Lock!Threads, LP!Threads
<1>2. ASSUME Inv, [Next]_vars PROVE [LP!Next]_(LP!vars)
  <2>1. ASSUME NEW t \in Callers,
               \/ Lock!AcquireRead(t) \/ Lock!ResumeRead(t) \/ Lock!ReleaseRead(t)
               \/ Lock!AcquireWrite(t) \/ Lock!ResumeWrite(t) \/ Lock!ReleaseWrite(t)
        PROVE  LP!Next
    BY <2>1, LockThreads
       DEF LP!Next,
           Lock!AcquireRead, Lock!ResumeRead, Lock!ReleaseRead, Lock!ReadLoop, Lock!ReadBlocked,
           Lock!AcquireWrite, Lock!ResumeWrite, Lock!ReleaseWrite, Lock!WriteLoop,
           Lock!WriteBlocked,
           LP!AcquireRead, LP!ResumeRead, LP!ReleaseRead, LP!ReadLoop, LP!ReadBlocked,
           LP!AcquireWrite, LP!ResumeWrite, LP!ReleaseWrite, LP!WriteLoop, LP!WriteBlocked
  <2>2. ASSUME NEW t \in Callers, LocalStep(t)
        PROVE  \/ UNCHANGED lockVars
               \/ Lock!AcquireRead(t) \/ Lock!ResumeRead(t) \/ Lock!ReleaseRead(t)
               \/ Lock!AcquireWrite(t) \/ Lock!ResumeWrite(t) \/ Lock!ReleaseWrite(t)
    BY <2>2
       DEF LocalStep, WaitToRead, WaitToWrite, CheckThrottle, ResetThrottle, Sample, TrimOldest,
           TrimDone, LowerLimit, LookUp, LookUpDone, CountHits, Insert, Evict, EvictFromEmpty,
           InsertDone, Return, ReadSize
  <2>3. UNCHANGED lockVars \/ \E t \in Callers : LocalStep(t)
    BY <1>2 DEF Next, StartBatch, StartStats, Encode, EncodeFails, IntervalPasses, vars
  <2>4. UNCHANGED lockVars => UNCHANGED LP!vars
    BY DEF lockVars, LP!vars
  <2>. QED BY <2>1, <2>2, <2>3, <2>4
<1>3. Inv /\ [Next]_vars => [LP!Next]_(LP!vars)
  BY <1>2
<1>. QED BY <1>1, <1>3, Invariant, PTL DEF Spec, LP!Spec

\* Somebody who does not sleep will let t go on, and it is in a section under the lock or
\* about to enter one, not at the model.
LetsOn(u) ==
  /\ at[u] \in {"reading", "writing"} \/ (at[u] = "wwait" /\ u \notin waiters)
  /\ pc[u] \in {"lookup", "size", "trim", "insert"}

\* "a cache hit never blocks behind another thread's inference": whoever sleeps at the lock
\* does so because of such a thread.
SleepersWaitForSections == \A t \in waiters : \E u \in Callers \ {t} : LetsOn(u)

\* However many threads encode, and for however long, they keep nobody waiting.
THEOREM InferenceBlocksNobody == Spec => []SleepersWaitForSections
<1>1. Spec => [](LP!ParkedWriterHasCause /\ LP!ReadersYieldOnlyToWriters)
  <2>1. LP!IsFiniteSet(LP!Threads)
    BY LockThreads, CallersAssumption DEF IsFiniteSet, LP!IsFiniteSet
  <2>2. LP!Spec => []LP!ParkedWriterHasCause
    BY <2>1, LP!NoLostWriterWakeup
  <2>3. LP!Spec => []LP!ReadersYieldOnlyToWriters
    BY <2>1, LP!NoReaderSleepsInVain
  <2>. QED BY <2>2, <2>3, EngineKeepsToItsLock, PTL
<1>2. ASSUME Inv, LP!ParkedWriterHasCause, LP!ReadersYieldOnlyToWriters
      PROVE  SleepersWaitForSections
  <2>1. LP!IsFiniteSet(LP!Threads)
    BY LockThreads, CallersAssumption DEF IsFiniteSet, LP!IsFiniteSet
  <2>2. \A p : LP!Cardinality(LP!At(p)) \in Nat /\ (LP!Cardinality(LP!At(p)) = 0 <=> LP!At(p) = {})
    BY <2>1, LP!PlacesAreFinite
  <2>3. /\ writer => LP!At("writing") # {}
        /\ readers > 0 => LP!At("reading") # {}
        /\ writersWaiting > 0 => LP!At("wwait") # {}
    BY <1>2, <2>2 DEF Inv, LP!IInv, LP!CountsAreExact
  <2>4. \A u \in Callers : at[u] \in {"reading", "writing"} => LetsOn(u)
    BY <1>2 DEF Inv, LockHeldOnlyInSections, LetsOn
  <2>5. writer \/ readers > 0 => \E u \in Callers : at[u] \in {"reading", "writing"}
    BY <2>3, LockThreads DEF LP!At
  <2>6. ASSUME NEW t \in waiters PROVE \E u \in Callers \ {t} : LetsOn(u)
    <3>1. t \in Callers /\ at[t] \in {"rwait", "wwait"}
      BY <1>2, LockThreads DEF Inv, LP!IInv, LP!TypeOK, LP!At
    <3>2. CASE writer \/ readers > 0
      BY <2>4, <2>5, <3>1, <3>2
    <3>3. CASE at[t] = "wwait"
      BY <1>2, <3>1, <3>2, <3>3, LockThreads DEF LP!ParkedWriterHasCause, LP!WriteBlocked, LP!At
    <3>4. CASE at[t] = "rwait" /\ ~(writer \/ readers > 0)
      <4>1. PICK u \in Callers : at[u] = "wwait"
        BY <1>2, <2>3, <3>1, <3>4, LockThreads
           DEF LP!ReadersYieldOnlyToWriters, LP!ReadBlocked, LP!At
      <4>2. u \notin waiters
        BY <1>2, <3>4, <4>1, LockThreads DEF LP!ParkedWriterHasCause, LP!WriteBlocked, LP!At
      <4>3. u # t /\ LetsOn(u)
        BY <1>2, <3>4, <4>1, <4>2 DEF Inv, LockHeldOnlyInSections, LetsOn
      <4>. QED BY <4>3
    <3>. QED BY <3>1, <3>2, <3>3, <3>4
  <2>. QED BY <2>6 DEF SleepersWaitForSections
<1>. QED BY <1>1, <1>2, Invariant, PTL

-----------------------------------------------------------------------------
(* How a call goes forward                                                 *)

\* The order of the parts of embed_batch; get_stats has one.
Part(label) ==
  CASE label = "throttle" -> 1 [] label = "reset"  -> 2 [] label = "sample" -> 3
    [] label = "trim"     -> 4 [] label = "lower"  -> 5 [] label = "lookup" -> 6
    [] label = "count"    -> 7 [] label = "encode" -> 8 [] label = "insert" -> 9
    [] label = "return"   -> 10 [] label = "size"  -> 11 [] label = "idle"  -> 12

\* The call of t is in a later part, or over; or a text of its loop is done; or the cache,
\* which it is cutting down, is shorter.
Forward(t) ==
  \/ Part(pc'[t]) > Part(pc[t])
  \/ pc'[t] = pc[t] /\ todo'[t] # todo[t] /\ todo'[t] \subseteq todo[t]
  \/ pc'[t] = pc[t] /\ todo'[t] = todo[t] /\ Len(cache') < Len(cache)

\* The call of t stays where it is; if it is cutting down the cache, so does that.
Rests(t) == pc'[t] = pc[t] /\ todo'[t] = todo[t] /\ (at[t] = "writing" => cache' = cache)

\* A step of t that is not the start of a call takes it forward, unless it waits.
LEMMA OwnStep ==
  ASSUME Inv, NEW t \in Callers, LocalStep(t) \/ Encode(t) \/ EncodeFails(t)
  PROVE  Forward(t) \/ Rests(t)
<1>1. DOMAIN pc = Callers /\ DOMAIN todo = Callers /\ pc[t] \in Labels
  BY DEF Inv, Control, Shapes
<1>2. cache \in Seq([key : Keys, row : Texts])
  BY DEF Inv, CacheFits
<1>3. todo[t] \subseteq Nat
  BY TextsAt DEF Inv, Calls, CallFits
<1>4. CASE WaitToRead(t) \/ WaitToWrite(t)
  BY <1>4 DEF WaitToRead, WaitToWrite, callVars, Rests
<1>5. CASE TrimOldest(t) \/ Evict(t)
  <2>1. cache # << >> /\ cache' = Tail(cache)
    <3>1. TrimOldest(t) => Len(cache) > Reduction /\ Reduction \in Int /\ Reduction >= 1
      BY Limits DEF TrimOldest, Inv
    <3>2. Len(<< >>) = 0
      OBVIOUS
    <3>. QED BY <1>5, <3>1, <3>2 DEF TrimOldest, Evict
  <2>2. Len(cache') < Len(cache)
    BY <1>2, <2>1
  <2>. QED BY <1>5, <2>2 DEF TrimOldest, Evict, callVars, Forward
<1>6. CASE LookUp(t) \/ Insert(t)
  <2>1. Least(todo[t]) \in todo[t]
    BY <1>3, <1>6, LeastIsOne DEF LookUp, Insert
  <2>. QED BY <1>1, <1>6, <2>1 DEF LookUp, Insert, Forward
<1>7. CASE \/ CheckThrottle(t) \/ ResetThrottle(t) \/ Sample(t) \/ TrimDone(t) \/ LowerLimit(t)
           \/ LookUpDone(t) \/ CountHits(t) \/ EvictFromEmpty(t) \/ InsertDone(t) \/ Return(t)
           \/ ReadSize(t) \/ Encode(t) \/ EncodeFails(t)
  <2>1. \E l, m \in Labels : pc[t] = l /\ pc'[t] = m /\ Part(m) > Part(l)
    BY <1>1, <1>7
       DEF CheckThrottle, ResetThrottle, Sample, TrimDone, LowerLimit, LookUpDone, CountHits,
           EvictFromEmpty, InsertDone, Return, ReadSize, Encode, EncodeFails, Finish, Goto,
           Labels, Part
  <2>. QED BY <2>1 DEF Forward
<1>. QED BY <1>4, <1>5, <1>6, <1>7 DEF LocalStep

\* Nobody else moves it.
LEMMA OthersStep ==
  ASSUME Inv, NEW t \in Callers, NEW u \in Callers \ {t},
         LocalStep(u) \/ Encode(u) \/ EncodeFails(u) \/ StartBatch(u) \/ StartStats(u)
  PROVE  Rests(t)
<1>1. DOMAIN pc = Callers /\ DOMAIN todo = Callers
  BY DEF Inv, Control, Shapes
<1>2. pc'[t] = pc[t] /\ todo'[t] = todo[t]
  BY <1>1
     DEF LocalStep, WaitToRead, WaitToWrite, CheckThrottle, ResetThrottle, Sample, TrimOldest,
         TrimDone, LowerLimit, LookUp, LookUpDone, CountHits, Insert, Evict, EvictFromEmpty,
         InsertDone, Return, ReadSize, Encode, EncodeFails, StartBatch, StartStats, Finish, Goto,
         callVars
<1>3. cache' # cache => at[u] = "writing"
  BY DEF LocalStep, WaitToRead, WaitToWrite, CheckThrottle, ResetThrottle, Sample, TrimOldest,
         TrimDone, LowerLimit, LookUp, LookUpDone, CountHits, Insert, Evict, EvictFromEmpty,
         InsertDone, Return, ReadSize, Encode, EncodeFails, StartBatch, StartStats
<1>4. at[t] = "writing" => at[u] # "writing"
  BY WriterAlone DEF Inv
<1>. QED BY <1>2, <1>3, <1>4 DEF Rests

\* No loop of a call can run for ever: each of its own steps takes it to a later part, or
\* a text further, or an entry further down the cache it evicts from, and no other thread
\* takes it back, not by inserting nor by moving the limit under the eviction; its only
\* other steps are waits for the lock.
THEOREM CallsGoForward ==
  Spec => [][\A t \in Callers : calls'[t] = calls[t] => Forward(t) \/ Rests(t)]_vars
<1>1. ASSUME Inv, [Next]_vars, NEW t \in Callers, calls'[t] = calls[t]
      PROVE  Forward(t) \/ Rests(t)
  <2>1. ASSUME NEW u \in Callers,
               LocalStep(u) \/ StartBatch(u) \/ StartStats(u) \/ Encode(u) \/ EncodeFails(u)
        PROVE  Forward(t) \/ Rests(t)
    <3>1. CASE u # t
      BY <1>1, <2>1, <3>1, OthersStep
    <3>2. CASE u = t /\ (StartBatch(u) \/ StartStats(u))
      <4>1. calls \in [Callers -> 0..MaxCalls] /\ MaxCalls \in Nat
        BY <1>1, CallersAssumption DEF Inv, Control
      <4>. QED BY <1>1, <3>2, <4>1 DEF StartBatch, StartStats
    <3>3. CASE u = t /\ (LocalStep(u) \/ Encode(u) \/ EncodeFails(u))
      BY <1>1, <3>3, OwnStep
    <3>. QED BY <2>1, <3>1, <3>2, <3>3
  <2>2. CASE IntervalPasses \/ UNCHANGED vars
    BY <2>2 DEF IntervalPasses, vars, callVars, Rests
  <2>. QED BY <1>1, <2>1, <2>2 DEF Next
<1>2. Inv /\ [Next]_vars =>
        [\A t \in Callers : calls'[t] = calls[t] => Forward(t) \/ Rests(t)]_vars
  BY <1>1
<1>. QED BY <1>2, Invariant, PTL DEF Spec

=============================================================================
