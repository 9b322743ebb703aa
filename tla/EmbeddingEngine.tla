--------------------------- MODULE EmbeddingEngine ---------------------------
(***************************************************************************)
(* EmbeddingEngine of evidence_index.py: the insertion-ordered embedding   *)
(* cache shared by threads that run embed_batch and get_stats, guarded by  *)
(* the RWLock of module RWLock, with the memory-pressure check that every  *)
(* embed_batch starts with.                                                *)
(*                                                                         *)
(* An embedding is represented by the text it was computed from, and       *)
(* unicodedata.normalize("NFKC", _) by the class NFKC[text] of the text:   *)
(* the length-prefixed key of _normalize_cache_key and its digest keep     *)
(* exactly the namespace and that class.                                   *)
(***************************************************************************)
EXTENDS Integers, Sequences, FiniteSets

CONSTANTS
  Callers,          \* threads that share the engine
  Texts,            \* input strings
  NFKC,             \* normal form of each text
  Batches,          \* arguments of embed_batch: [namespace, texts]
  ConfiguredSizes,  \* values of CONFIG["max_embedding_cache"], any integers
  MaxCalls,         \* bound: calls a thread makes
  NoRow             \* None in the vectors of a call

ASSUME ConfiguredSizesAssumption == ConfiguredSizes \subseteq Int
ASSUME BatchesAssumption == \A b \in Batches : b.texts \in Seq(Texts)
ASSUME NoRowAssumption == NoRow \notin Texts
ASSUME CallersAssumption == IsFiniteSet(Callers) /\ MaxCalls \in Nat

VARIABLES
  configuredSize,   \* _configured_cache_size
  cache,            \* _cache, oldest insertion first: [key, row]
  maxCacheSize,     \* _max_cache_size
  checkDue,         \* 30 s have passed since _last_memory_check
  totalRequests,    \* _total_requests
  cacheHits,        \* _cache_hits
  pc,               \* statement each thread is about to run
  batch,            \* arguments of the thread's call
  rows,             \* vectors of the call, by position in the batch
  todo,             \* positions a loop of the call still has to visit
  stats,            \* what get_stats has read, until the thread calls again
  calls,            \* number of calls the thread has started
  readers, writer, writersWaiting, waiters, at     \* the RWLock

Lock == INSTANCE RWLock WITH ReaderThreads <- Callers,
                             WriterThreads <- Callers,
                             Interruptible <- {}

lockVars  == <<readers, writer, writersWaiting, waiters, at>>
statVars  == <<totalRequests, cacheHits>>
limitVars == <<configuredSize, maxCacheSize, checkDue>>
callVars  == <<batch, rows, todo>>
vars == <<cache, limitVars, statVars, pc, callVars, stats, calls, lockVars>>

Larger(a, b) == IF a > b THEN a ELSE b

\* The limit under pressure: half of the configured one, not of the current.
Reduction == Larger(1, configuredSize \div 2)

Positions(t) == DOMAIN batch[t].texts

\* Faulty: the key forgets the normal form of the text.
Key_NoText(t, i) == <<batch[t].namespace, "">>

\* _normalize_cache_key of text i of the call of thread t.
Key(t, i) == <<batch[t].namespace, NFKC[batch[t].texts[i]]>>

Misses(t) == {i \in Positions(t) : rows[t][i] = NoRow}

\* first_index_for_key: one position for each key that missed.
FirstMisses(t) ==
  {i \in Misses(t) : \A j \in Misses(t) : Key(t, j) = Key(t, i) => i <= j}

\* emb_for_key: the row computed for the key of position i.
Computed(t, i) ==
  batch[t].texts[CHOOSE j \in FirstMisses(t) : Key(t, j) = Key(t, i)]

Least(S) == CHOOSE i \in S : \A j \in S : i <= j

Cached(key) == \E n \in DOMAIN cache : cache[n].key = key

CachedRow(key) == cache[CHOOSE n \in DOMAIN cache : cache[n].key = key].row

NoBatch == [namespace |-> "", texts |-> << >>]

NoStats == [size |-> 0, requests |-> 0, hits |-> 0]

Init == /\ configuredSize \in ConfiguredSizes
        /\ cache = << >>
        /\ maxCacheSize = configuredSize
        /\ checkDue = FALSE
        /\ totalRequests = 0 /\ cacheHits = 0
        /\ pc = [t \in Callers |-> "idle"]
        /\ batch = [t \in Callers |-> NoBatch]
        /\ rows = [t \in Callers |-> << >>]
        /\ todo = [t \in Callers |-> {}]
        /\ stats = [t \in Callers |-> NoStats]
        /\ calls = [t \in Callers |-> 0]
        /\ Lock!Init

Goto(t, label) == pc' = [pc EXCEPT ![t] = label]

-----------------------------------------------------------------------------
(* Waiting for the lock                                                    *)

\* Entering `with self._lock.read_lock`: around the lookups and around the
\* len() of get_stats.
WaitToRead(t) ==
  /\ pc[t] \in {"lookup", "size"}
  /\ Lock!AcquireRead(t) \/ Lock!ResumeRead(t)
  /\ UNCHANGED <<cache, limitVars, statVars, pc, callVars, stats, calls>>

\* Entering `with self._lock.write_lock`: around the trim and the inserts.
WaitToWrite(t) ==
  /\ pc[t] \in {"trim", "insert"}
  /\ Lock!AcquireWrite(t) \/ Lock!ResumeWrite(t)
  /\ UNCHANGED <<cache, limitVars, statVars, pc, callVars, stats, calls>>

-----------------------------------------------------------------------------
(* _check_memory_pressure                                                  *)

\* The interval since the last check runs out.
IntervalPasses ==
  /\ ~checkDue
  /\ checkDue' = TRUE
  /\ UNCHANGED <<cache, configuredSize, maxCacheSize, statVars, pc, callVars, stats, calls, lockVars>>

\* The throttle is read here and reset in ResetThrottle, with no lock held.
CheckThrottle(t) ==
  /\ pc[t] = "throttle"
  /\ Goto(t, IF checkDue THEN "reset" ELSE "lookup")
  /\ UNCHANGED <<cache, limitVars, statVars, callVars, stats, calls, lockVars>>

ResetThrottle(t) ==
  /\ pc[t] = "reset"
  /\ checkDue' = FALSE
  /\ Goto(t, "sample")
  /\ UNCHANGED <<cache, configuredSize, maxCacheSize, statVars, callVars, stats, calls, lockVars>>

\* psutil reports pressure, or none, which restores the limit, or raises,
\* which is logged and changes nothing.
Sample(t) ==
  /\ pc[t] = "sample"
  /\ \/ Goto(t, "trim") /\ UNCHANGED maxCacheSize
     \/ Goto(t, "lookup") /\ maxCacheSize' = configuredSize
     \/ Goto(t, "lookup") /\ UNCHANGED maxCacheSize
  /\ UNCHANGED <<cache, configuredSize, checkDue, statVars, callVars, stats, calls, lockVars>>

\* Faulty: the oldest entry is dropped without the write lock.
TrimOldest_NoLock(t) ==
  /\ pc[t] = "trim" /\ at[t] = "out"
  /\ Len(cache) > Reduction
  /\ cache' = Tail(cache)
  /\ UNCHANGED <<limitVars, statVars, pc, callVars, stats, calls, lockVars>>

TrimOldest(t) ==
  /\ pc[t] = "trim" /\ at[t] = "writing"
  /\ Len(cache) > Reduction
  /\ cache' = Tail(cache)
  /\ UNCHANGED <<limitVars, statVars, pc, callVars, stats, calls, lockVars>>

TrimDone(t) ==
  /\ pc[t] = "trim"
  /\ Len(cache) <= Reduction
  /\ Lock!ReleaseWrite(t)
  /\ Goto(t, "lower")
  /\ UNCHANGED <<cache, limitVars, statVars, callVars, stats, calls>>

\* The limit comes down after the write lock has been released; below a size
\* of 1 it goes up.
LowerLimit(t) ==
  /\ pc[t] = "lower"
  /\ maxCacheSize' = Reduction
  /\ Goto(t, "lookup")
  /\ UNCHANGED <<cache, configuredSize, checkDue, statVars, callVars, stats, calls, lockVars>>

-----------------------------------------------------------------------------
(* embed_batch                                                             *)

\* A batch without texts returns before it touches anything and is left out.
StartBatch(t) ==
  /\ pc[t] = "idle"
  /\ calls[t] < MaxCalls
  /\ calls' = [calls EXCEPT ![t] = @ + 1]
  /\ \E b \in {x \in Batches : x.texts # << >>} :
       /\ batch' = [batch EXCEPT ![t] = b]
       /\ rows' = [rows EXCEPT ![t] = [i \in DOMAIN b.texts |-> NoRow]]
       /\ todo' = [todo EXCEPT ![t] = DOMAIN b.texts]
  /\ Goto(t, "throttle")
  /\ stats' = [stats EXCEPT ![t] = NoStats]
  /\ UNCHANGED <<cache, limitVars, statVars, lockVars>>

\* One turn of the read loop.
LookUp(t) ==
  /\ pc[t] = "lookup" /\ at[t] = "reading"
  /\ todo[t] # {}
  /\ LET i == Least(todo[t])
     IN  /\ todo' = [todo EXCEPT ![t] = @ \ {i}]
         /\ rows' = IF Cached(Key(t, i))
                    THEN [rows EXCEPT ![t][i] = CachedRow(Key(t, i))]
                    ELSE rows
  /\ UNCHANGED <<cache, limitVars, statVars, pc, batch, stats, calls, lockVars>>

\* Faulty: the read lock is still held when the misses are encoded.
LookUpDone_KeepsLock(t) ==
  /\ pc[t] = "lookup" /\ at[t] = "reading"
  /\ todo[t] = {}
  /\ Goto(t, "count")
  /\ UNCHANGED <<cache, limitVars, statVars, callVars, stats, calls, lockVars>>

LookUpDone(t) ==
  /\ pc[t] = "lookup"
  /\ todo[t] = {}
  /\ Lock!ReleaseRead(t)
  /\ Goto(t, "count")
  /\ UNCHANGED <<cache, limitVars, statVars, callVars, stats, calls>>

\* Under _stats_lock, which is held for nothing else.
CountHits(t) ==
  /\ pc[t] = "count"
  /\ totalRequests' = totalRequests + Cardinality(Positions(t))
  /\ cacheHits' = cacheHits + Cardinality(Positions(t) \ Misses(t))
  /\ Goto(t, IF Misses(t) = {} THEN "return" ELSE "encode")
  /\ UNCHANGED <<cache, limitVars, callVars, stats, calls, lockVars>>

\* model.encode returns a row for every text it was given.
Encode(t) ==
  /\ pc[t] = "encode"
  /\ todo' = [todo EXCEPT ![t] = FirstMisses(t)]
  /\ Goto(t, "insert")
  /\ UNCHANGED <<cache, limitVars, statVars, batch, rows, stats, calls, lockVars>>

\* What the call leaves behind when it is over.
Finish(t) ==
  /\ Goto(t, "idle")
  /\ batch' = [batch EXCEPT ![t] = NoBatch]
  /\ rows' = [rows EXCEPT ![t] = << >>]
  /\ todo' = [todo EXCEPT ![t] = {}]

\* model.encode raises, or returns another number of rows, which zip refuses.
EncodeFails(t) ==
  /\ pc[t] = "encode"
  /\ Finish(t)
  /\ UNCHANGED <<cache, limitVars, statVars, stats, calls, lockVars>>

\* One turn of the insert loop.  A key that is already there, inserted by
\* another thread since the lookup, keeps its place in the order.
Insert(t) ==
  /\ pc[t] = "insert" /\ at[t] = "writing"
  /\ todo[t] # {}
  /\ LET i     == Least(todo[t])
         entry == [key |-> Key(t, i), row |-> Computed(t, i)]
     IN  /\ todo' = [todo EXCEPT ![t] = @ \ {i}]
         /\ cache' = IF Cached(entry.key)
                     THEN [n \in DOMAIN cache |->
                             IF cache[n].key = entry.key THEN entry ELSE cache[n]]
                     ELSE Append(cache, entry)
  /\ UNCHANGED <<limitVars, statVars, pc, batch, rows, stats, calls, lockVars>>

\* One turn of the eviction loop, which reads the limit afresh every time.
Evict(t) ==
  /\ pc[t] = "insert" /\ at[t] = "writing"
  /\ todo[t] = {}
  /\ Len(cache) > maxCacheSize
  /\ cache # << >>
  /\ cache' = Tail(cache)
  /\ UNCHANGED <<limitVars, statVars, pc, callVars, stats, calls, lockVars>>

\* Faulty: the exception leaves the write lock held.
EvictFromEmpty_KeepsLock(t) ==
  /\ pc[t] = "insert" /\ at[t] = "writing"
  /\ todo[t] = {}
  /\ Len(cache) > maxCacheSize
  /\ cache = << >>
  /\ Finish(t)
  /\ UNCHANGED <<cache, limitVars, statVars, stats, calls, lockVars>>

\* Below a negative limit popitem meets an empty cache and its KeyError leaves
\* through the context manager of the write lock.
EvictFromEmpty(t) ==
  /\ pc[t] = "insert"
  /\ todo[t] = {}
  /\ Len(cache) > maxCacheSize
  /\ cache = << >>
  /\ Lock!ReleaseWrite(t)
  /\ Finish(t)
  /\ UNCHANGED <<cache, limitVars, statVars, stats, calls>>

\* Faulty: the loop stops one entry early.
InsertDone_OffByOne(t) ==
  /\ pc[t] = "insert"
  /\ todo[t] = {}
  /\ Len(cache) <= maxCacheSize + 1
  /\ Lock!ReleaseWrite(t)
  /\ rows' = [rows EXCEPT ![t] = [i \in DOMAIN @ |->
                IF @[i] = NoRow THEN Computed(t, i) ELSE @[i]]]
  /\ Goto(t, "return")
  /\ UNCHANGED <<cache, limitVars, statVars, batch, todo, stats, calls>>

\* The missing rows come from what was computed, not from the cache.
InsertDone(t) ==
  /\ pc[t] = "insert"
  /\ todo[t] = {}
  /\ Len(cache) <= maxCacheSize
  /\ Lock!ReleaseWrite(t)
  /\ rows' = [rows EXCEPT ![t] = [i \in DOMAIN @ |->
                IF @[i] = NoRow THEN Computed(t, i) ELSE @[i]]]
  /\ Goto(t, "return")
  /\ UNCHANGED <<cache, limitVars, statVars, batch, todo, stats, calls>>

Return(t) ==
  /\ pc[t] = "return"
  /\ Finish(t)
  /\ UNCHANGED <<cache, limitVars, statVars, stats, calls, lockVars>>

-----------------------------------------------------------------------------
(* get_stats                                                               *)

\* The two counters, under _stats_lock.
StartStats(t) ==
  /\ pc[t] = "idle"
  /\ calls[t] < MaxCalls
  /\ calls' = [calls EXCEPT ![t] = @ + 1]
  /\ stats' = [stats EXCEPT ![t].requests = totalRequests, ![t].hits = cacheHits]
  /\ Goto(t, "size")
  /\ UNCHANGED <<cache, limitVars, statVars, callVars, lockVars>>

\* Faulty: len() without the read lock.
ReadSize_NoLock(t) ==
  /\ pc[t] = "size" /\ at[t] = "out"
  /\ stats' = [stats EXCEPT ![t].size = Len(cache)]
  /\ Goto(t, "idle")
  /\ UNCHANGED <<cache, limitVars, statVars, callVars, calls, lockVars>>

\* len(), later and under the read lock.
ReadSize(t) ==
  /\ pc[t] = "size"
  /\ Lock!ReleaseRead(t)
  /\ stats' = [stats EXCEPT ![t].size = Len(cache)]
  /\ Goto(t, "idle")
  /\ UNCHANGED <<cache, limitVars, statVars, callVars, calls>>

-----------------------------------------------------------------------------

\* Everything but model.encode, on which there is no bound.
LocalStep(t) ==
  \/ WaitToRead(t) \/ WaitToWrite(t)
  \/ CheckThrottle(t) \/ ResetThrottle(t) \/ Sample(t)
  \/ TrimOldest(t) \/ TrimDone(t) \/ LowerLimit(t)
  \/ LookUp(t) \/ LookUpDone(t) \/ CountHits(t)
  \/ Insert(t) \/ Evict(t) \/ EvictFromEmpty(t) \/ InsertDone(t) \/ Return(t)
  \/ ReadSize(t)

Next == \/ \E t \in Callers : \/ LocalStep(t)
                              \/ StartBatch(t) \/ StartStats(t)
                              \/ Encode(t) \/ EncodeFails(t)
        \/ IntervalPasses

Spec == Init /\ [][Next]_vars

\* The scheduler runs every thread that can run, but the model may never
\* answer and nobody has to call the engine again.
FairSpec == Spec /\ \A t \in Callers : WF_vars(LocalStep(t))

-----------------------------------------------------------------------------
(* Properties                                                              *)

Labels == {"idle", "throttle", "reset", "sample", "trim", "lower", "lookup",
           "count", "encode", "insert", "return", "size"}

\* The keys in the cache are those of normal forms, the rows those of texts, what
\* a call keeps has the shape of its batch, and the limit is the configured one or
\* the reduced one.
TypeOK ==
  /\ cache \in Seq([key : {<<b.namespace, NFKC[x]>> : b \in Batches, x \in Texts},
                    row : Texts])
  /\ maxCacheSize \in {configuredSize, Reduction} /\ checkDue \in BOOLEAN
  /\ totalRequests \in Nat /\ cacheHits \in Nat
  /\ pc \in [Callers -> Labels]
  /\ batch \in [Callers -> Batches \cup {NoBatch}]
  /\ \A t \in Callers : /\ rows[t] \in [Positions(t) -> Texts \cup {NoRow}]
                        /\ todo[t] \subseteq Positions(t)
  /\ calls \in [Callers -> 0..MaxCalls]
  /\ Lock!TypeOK

\* A call answers with one row per text, each of them the embedding of a text
\* with the same normal form, whether it was cached by whichever thread or
\* computed, evicted meanwhile or not.
RowsBelongToTheirTexts ==
  \A t \in Callers : pc[t] = "return" =>
    \A i \in Positions(t) :
      rows[t][i] # NoRow /\ NFKC[rows[t][i]] = NFKC[batch[t].texts[i]]

\* Where the operator asked for at least one entry: the cache holds more than that
\* only while a writer is between its inserts and its evictions, whatever the limit
\* does under its feet, and pressure moves the limit to half of it and back, never
\* to half of a half.
OvershootOnlyWhileWriting ==
  configuredSize >= 1 =>
    /\ Lock!At("writing") = {} => Len(cache) <= configuredSize
    /\ maxCacheSize <= configuredSize
    /\ maxCacheSize \in {configuredSize, configuredSize \div 2}

\* No invariant: "never exceed what the operator asked for".  Below a size of 1
\* pressure raises the limit to 1.
PressureNeverRaisesLimit == maxCacheSize <= configuredSize

\* The overshoot is never reported: get_stats sees the cache between writers,
\* and no more hits than requests.
StatsAreConsistent ==
  \A t \in Callers : /\ stats[t].size <= Larger(configuredSize, Reduction)
                     /\ stats[t].hits <= stats[t].requests

\* Lookups share a cache that stands still: no step changes it while a thread
\* is inside a read section, and only the writer changes it.
CacheStandsStillUnderReaders ==
  [][cache' # cache => /\ Lock!At("reading") = {}
                       /\ Lock!At("writing") # {}]_vars

\* The lock is held inside the with blocks and nowhere else; in particular no
\* thread encodes, or leaves through an exception, holding it.
LockHeldOnlyInSections ==
  \A t \in Callers : /\ at[t] \in {"rwait", "reading"} => pc[t] \in {"lookup", "size"}
                     /\ at[t] \in {"wwait", "writing"} => pc[t] \in {"trim", "insert"}

\* "a cache hit never blocks behind another thread's inference": every call
\* comes to its end or to an encode of its own, even if the encode of another
\* thread never ends.
HitsDoNotWaitForInference ==
  \A t \in Callers : pc[t] # "idle" ~> pc[t] \in {"idle", "encode"}

=============================================================================
