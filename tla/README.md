# Verification of rag-llm-infra

TLA+ models of everything in `rag_llm_infra` that has state or decides something, of
the scripts that guard the repository, the TLC configurations that check them on
small instances, and TLAPS proofs of most of their safety properties for instances of
any size. Source paths are relative to `src/rag_llm_infra/` of the repository, except
those that begin with `eval/`, `scripts/` or `tests/`.

## The system

The package is a small kit for retrieval-augmented generation. There is one process;
what makes it hard is that almost every object is shared by threads (the handlers of
`serve.py` run on a pool, `FallbackLLM` starts workers of its own) and some by asyncio
tasks as well. The service persists nothing. The scripts do: they leave floors in a
file and, when they are killed, mutations in the working tree.

| Component | State | Operations | What is hard |
|---|---|---|---|
| `RWLock` (`evidence_index.py`) | `_readers`, `_writer`, `_writers_waiting`, one condition | acquire/release for reading and for writing | wake-ups, writer preference, exceptions out of `wait()` |
| `EmbeddingEngine` (`evidence_index.py`) | insertion-ordered `_cache`, `_max_cache_size`, two counters, time of the last memory check | `embed_batch`, `get_stats`, `_check_memory_pressure` | lookup and insert are two critical sections with inference in between; the limit changes under the eviction; the throttle has no lock |
| `FallbackLLM` (`fallback.py`) | `_active`, the index of the first backend still eligible | `invoke`, `ainvoke`, `close`, `aclose` | abandoned workers that go on living, deadlines that race with answers, the order of the except clauses |
| `OpenAIBackend` (`llm_protocol.py`) | `_client`, `_aclient`, built on first use | `invoke`, `ainvoke`, `close`, `aclose` | unsynchronised lazy construction, closing while abandoned workers run |
| `MockBackend`, `AnthropicBackend`, `get_llm` (`llm_protocol.py`) | none | `invoke`, `ainvoke`; the choice of a class | mixed chains: some have a client to close and some have not |
| `NumpyVectorStore`, `FAISSVectorStore` (`vector_store.py`) | the matrix or index | `add`, `search`, `size`, `reset` | ties, padding, `k` beyond the corpus, an `add` that fails |
| `QdrantVectorStore` (`vector_store.py`) | `_dim`, and a collection on a server | the same, in several requests each | requests lost or half done, a second writer, count and query apart |
| `get_vector_store` | none | picks one of the three | three classes, one promise |
| `serve.py` | `_index`, one tuple of documents and store; the environment | `/index`, `/query`, `/health` | overlapping requests, configuration read at several moments |
| `log_config.py` | `_CONFIGURED`, the root logger | `configure_logging`, `llm_call`, the JSON line | test and set are apart; a line must be written whatever ends the call |
| `tracing.py` | `_CONFIGURED`, the global provider | `configure_tracing`, `get_tracer`, `current_trace_context` | the same, with imports that fail in between; spans of many threads |
| `faithfulness.py` | none | `groundedness` | - |
| `eval/`, `scripts/derive_eval_floors.py` | fixtures, `eval_floors.json` | two gates, the derivation of their floors | rounded thresholds that must still separate; floors older than the fixture |
| `scripts/replay_mutations.py` | the working tree | `main`, `replay`, `gate_caught`, `imports_cleanly` | interrupts, kills and reruns between writing a mutation and taking it back; gates that hang or break off |

How they interact: `serve` builds a `NumpyVectorStore` per corpus and swaps it in
with one assignment; `EmbeddingEngine` guards its cache with an `RWLock`;
`FallbackLLM` calls its backends, usually `OpenAIBackend`s, on threads or tasks,
learns of exhausted budgets through an exception that may arrive on either thread,
and closes all of them. The three vector stores stand behind one protocol. Whoever
calls a model wraps the call in `llm_call`, whose line takes its trace ids from the
span `tracing` has made current. `derive_eval_floors` writes one file that both
evaluation gates read, and the gates are among those the mutation replay runs.

What makes each correct:

- the lock: exclusion, writer preference, no lost wake-up, exact counters;
- the engine: a call returns the embeddings of its own texts whatever the others do
  to the cache, the cache respects its limit whenever somebody can look at it, the
  lock is held exactly inside the `with` blocks, inference blocks nobody else;
- the chain: nothing is skipped that did not run out of budget, an exhausted backend
  is skipped by every later call, no exhaustion is lost, bugs are not masked,
  deadlines hold;
- the clients: closing the chain closes what the backends know of;
- the stores: the best `min(k, size)` rows, in order, never padded; an `add` replaces
  the corpus or leaves it;
- the service: each request takes effect at one instant and an answer comes from one
  published corpus, nobody gets in without the key, and a variable bounds requests as it
  says or not at all;
- observability: who is configured is heard, configuring again does nothing, every
  call has exactly one line, which tells how it ended unless its body says otherwise, and a
  line belongs to the span around it;
- the gates: floors accept the fixture they come from, tolerate what they are meant to
  and separate good answers from bad ones even when they are old;
- the replay: it passes only if each defect had a gate that was red for it, and puts back
  what it found.

## Modules

| Module | Models | Notes |
|---|---|---|
| `AccessControl` | what a caller of the lock may rely on | abstract; three sets of threads |
| `RWLock` | the lock, one action per stretch between two waits | implements `AccessControl` |
| `EmbeddingEngine` | `embed_batch`, `get_stats`, the pressure check | uses `RWLock` as an instance |
| `FallbackLLM` | `invoke`, `ainvoke`, `_within_deadline`, `_trip_past` | |
| `ClientLifecycle` | lazy clients, their use by calls on any chain of `get_llm`'s backends, `close`, `aclose` | |
| `Ranking` | which rows are the best ones | shared by the stores and by `Serve` |
| `VectorStore` | `VectorStoreProtocol` for a sequential caller | abstract |
| `LocalStore` | the NumPy and the FAISS store | |
| `QdrantStore` | the Qdrant store, request by request, against a server | |
| `VectorStores` | `get_vector_store` and the store it returns | composes the two above; implements `VectorStore` |
| `CorpusService` | what `serve` promises to those who send requests: each takes effect at one instant | abstract |
| `Serve` | `/index` and `/query` from the middleware to the response | implements `CorpusService` |
| `LogSetup` | `configure_logging`, statement by statement | |
| `TraceSetup` | `configure_tracing`, statement by statement | |
| `Telemetry` | nested spans and `llm_call`s of many threads, and the line each call writes | extends the two above |
| `RetrievalEval` | the retrieval gate and its floors | |
| `GenerationEval` | `groundedness`, the generation gate and its floors | |
| `MutationReplay` | the replay of the registry over a working tree that outlives it | |
| `QualityGates` | the three together; one script writes the floors of both gates | extends the three above |
| `X_proofs` | theorems about `X` | eight modules: `RWLock`, `EmbeddingEngine`, `FallbackLLM`, `ClientLifecycle`, `VectorStores`, `Serve`, `Telemetry`, `QualityGates` |
| `MC*` | instances for TLC | constants, symmetry, and for two of them which parts move together |

Definitions named `X_Something` that are preceded by a comment beginning with
"Faulty" are deliberately wrong variants of `X`. No specification uses them; they
are put in place of `X` to see that the properties notice.

### How state and actions correspond to the code

**RWLock.** The five variables are the three fields, the wait set of the condition
and, as a ghost, where each thread is. A method body runs under the mutex and gives
it up only in `wait()`, so one evaluation of its loop is one action (`ReadLoop`,
`WriteLoop`), taken by a thread that arrives (`AcquireRead`) or that was notified
(`ResumeRead`). Between notification and resumption anybody may take the mutex.
`Interrupt` is an exception out of `wait()`, with the `finally` clause; Python raises
`KeyboardInterrupt` on the main thread only, hence the constant `Interruptible`.

**EmbeddingEngine.** `pc` names the statement a thread is about to run. Every read
or write of shared state outside a lock is a step of its own (throttle, reset,
limit), and so is every turn of the loops inside a section. An embedding is
the text it was computed from; normalisation is a table `NFKC` under which two
texts may coincide, and a key is the pair of namespace and normal form, which is
what the length-prefixed digest preserves. `psutil` may report pressure, none, or
raise. `model.encode` may hang, and may fail. The configured size is any integer, as
in the code: there is no validation. What a call of `get_stats` saw is forgotten when its thread
calls again.

**FallbackLLM.** A backend call is an attempt `<<caller, call, backend>>`. Its
progress is separate from its caller's: `JoinTimesOut` lets a thread go on while the
worker lives, `WorkerTrips` and `WorkerEnds` are the worker's own steps. A task's
`wait_for` cancels: the backend's task may then end in any way, and the timer or a
cancellation may fire in the very turn of the event loop in which it ends
(`InterruptWait`). `Judge` is the chain of `except` clauses in their order, under the default
`retry_on` as under a narrow one.

**ClientLifecycle.** A client is named after the call that built it. On a thread the
test, the construction, the assignment and the read of the property are four steps;
a task does all of them without an `await`. `sort` says which class of `get_llm` each
backend of the chain is of: only `OpenAIBackend` has clients, the Anthropic stub
raises, the mock answers or raises. What a call makes of an answer is left to
`FallbackLLM`; here it stops at any backend. Closing starts when no call is under way,
but abandoned workers may be.

**Vector stores.** Scores are a table; ranking is stated by `Best`: distinct rows,
descending, none left out that would beat one that is in. `LocalStore` follows the
two in-process classes statement by statement, `add` binding its index last. What
`argpartition` leaves is any order of any best rows (`Partitions`); `Lexsort` is the order of
their places by score and row number, and the answer is the partition in that order.
`QdrantStore` makes every request a step that can be answered, refused or lost,
before or after it was carried out; `env` says which stores name the collection and
whether requests get lost.

**Serve.** A request goes through `BoundBody` (the middleware, on the event loop),
`RequireKey` and the validation of its fields, then its handler's steps; a body that is no
JSON is refused before the key is looked at (`RefuseGarbled`). The length of a body is in
bytes, of which a message of the instance has enough, so that a bound of one byte refuses
it. `mine` is what a handler holds in local variables. `envs` and `indexes` are ghosts: the
environments and corpora there have been since the request arrived, which the properties
quantify over. `CorpusService` has one corpus and no environments, keys or locals; there a
request is answered in one step, or looks and answers in two. `Serve` implements it with
`corpus` as `index.docs` and `seen` as the documents that a handler holds between its read
of `_index` and its answer (`Taken`): `Publish` and `TakeSnapshot` are the instants, the
steps before them stutter, and whatever turns a request away is `TurnAway`.

**LogSetup, TraceSetup.** Each statement of `configure_logging` and
`configure_tracing` that reads or writes the flag, the root logger or the global
provider is a step, on any number of threads. The SDK and the exporter may be absent,
present and broken, or repaired later; constructors may raise; other libraries may
install a handler or a provider of their own at any moment, and OpenTelemetry keeps
the first provider it is given.

**Telemetry.** `blocks` is each thread's stack of open `with` blocks, spans and calls.
`exception` is what it is propagating: an `Exception`, or something that is none, as a
cancellation or Ctrl-C. Leaving a block is a step that the exception survives, so that
every nesting unwinds in every way. The dict that `llm_call` yields is free: `SetStatus` lets a
body put down any status, in its own call or one around it, any number of times, and the ghost
`said` remembers them. A line records what the formatter and the handler
put together: the status, the level, the ids of the span that is current.

**RetrievalEval, GenerationEval.** The retrieval metrics depend only on how many
queries find their document at which rank, which is the whole state: queries are
added, dropped and slip between ranks, and the floors are derived again or left stale.
For generation a text is its set of words; answers are relabelled, documents change,
one more is retrieved, and the metric may be distorted into one that is inverted or
constant. Scores are fractions; `round(_, 4)` and the floor to three digits are
computed in integers, with the float error of the floor as a choice.

**MutationReplay.** A file is the set of mutations that are live in it; reading,
writing, loading, gating and restoring are steps. From the write on the script may be
interrupted, and `finally` runs; it may be killed anywhere (`Kill`), or interrupted within
`finally` itself (`InterruptRestore`), and then the file keeps its mutation, or is `torn` if it
was being written. The tree outlives the process and the next run finds what
it left. Whether an anchor still occurs exactly once, given what is live in the file, is the
constant `Clobbers`; in a torn file it is anybody's guess. The credit is for exit code 1,
whoever caused it: `Red` is true of a gate that catches one of the mutations that are live, that
is red by itself (`flaky`), or that a torn file stops.

## What is checked

| Run | Instance | Shows | Distinct states |
|---|---|---|---|
| `MCRWLock` | two readers, two writers, one thread that does both; a reader, a writer and the last one interruptible | exclusion, exact counters, preference, no forgotten writer; implements `AccessControl` with its liveness | 669 (equal threads are not identified) |
| `MCEmbeddingEngine` | two threads, two calls each, limits 4, 2 and -1, two batches with shared keys | six properties, one of them liveness | 0.6 million |
| `MCFallbackLLM_threads` | two threads, two backends, default arguments, and deadline with narrow `retry_on` | six properties, two of them liveness | 35 thousand |
| `MCFallbackLLM_mixed` | a thread and a task, two backends, every ending, with and without a deadline, both sorts of `retry_on` | nothing is skipped, nothing is masked but in one corner | 0.1 million |
| `MCClientLifecycle` | two calls of either kind, any two backends of `get_llm`, with deadlines, `close` and `aclose` | what may stay open, tasks share their client | 1.6 million |
| `MCVectorStores` | every choice of backend, four calls on Qdrant by one or two stores | five properties, among them the contract | 0.8 million |
| `MCServe` | three requests of ten kinds, six environments, one change of it | four properties, among them the refinement of `CorpusService` | 2.7 million |
| `MCTelemetry` | three calls of each set-up, two threads, blocks nested three deep, bodies that set `ok` or `error` | five properties | 0.9 million |
| `MCQualityGates` | up to 14 queries, four answers and three documents, three mutations of two files, two replays, one kill, two gates that may hang or flake | five properties, one of them liveness | 0.9 million |

Three more runs end in a violation on purpose, see "Where the code differs".

**Bounds.** They are named constants, and the sizes of the sets.

- Two threads show every race of two; with two calls each, one of them fills the cache and
  then hits while the other hangs (`HitsDoNotWaitForInference`). A third call of
  `configure_logging` is there because it comes after two that raced.
- Two backends suffice for the chain because its only arithmetic is `i + 1` and the maximum;
  three were tried for the safety properties with the same result, and the proofs cover any
  number. One call per caller (`MaxCalls`) is enough there, as a caller's second call is
  another caller's late one.
- A cache limit of 2 is exceeded by the keys at hand, 4 can be halved twice, -1 makes the
  eviction loop raise.
- Four calls of a store are fill, disturb, repair, ask. The corpora tie inside an answer and
  across its end, and grow, shrink and change dimension.
- The environments of the service cover no key, an unusable key, a wrong key, a bound that
  is unset, not a number, negative or zero, one byte, and one between the lengths of two
  bodies; `MaxChanges` is one change, which can fall between any two reads.
- `MaxEnvChanges` and `MaxChanges` in the telemetry likewise; `MaxBlocks` is three: a call
  between two spans, or a span between two calls, is the deepest nesting that the current
  span and the level of the exception distinguish.
- `MaxQueries` is 14, the fixture has six; the proof goes to 166. Four answers give the
  groundedness scores 0, 1/3, 1/2, 2/3 and 1, on, below and above the midpoint.
- `MaxRuns` and `MaxKills`: a killed replay and the one that finds what it left. Two
  mutations share a file: one keeps its anchor, so that a replay goes on over what a killed
  one left, the other takes its own and the first one's away; the third is a control. A
  runner that is stuck runs no gate, so its gates are of one sort (`FewerSetups`).

**One part at a time.** `MCTelemetry` and `MCQualityGates` restrict what moves together
(`MCInit`, `MCNext`): the two set-ups share no state, and the threads only
look at the provider; the three scripts share none but the floors. An invariant of one
part cannot depend on where another stands, so only one of them leaves the state it
starts from, or the threads together with one call of `configure_tracing`. The proofs
are about the unrestricted specifications.

`CHECK_DEADLOCK FALSE` is set where a bound ends the
run; the real system stops as well when nobody calls. `RWLock` never stops and is
checked for deadlock.

**Symmetry** is used only in runs without liveness, over threads, calls and requests.

**Fairness.** In every case weak fairness of steps that the scheduler or a timer takes by
itself, never of calls that a user would have to make:

- `RWLock`: a notified thread gets the mutex, and a section under the lock ends (the
  sections of the engine are loops over one batch or one cache).
- `EmbeddingEngine`: every local step of a thread; `Encode` is excluded, since a model
  may hang.
- `FallbackLLM`: the steps of callers and workers and the timers; a backend that is
  running may hang, one that was *cancelled* ends (asyncio delivers the cancellation
  at its next `await`; a backend that swallows it and loops for ever would block
  `wait_for` itself).
- `MutationReplay`: the script runs on, a gate that hangs being ended by the timeout of
  `subprocess.run`. Nobody has to start, interrupt or kill anything.

## What is proved

Every invariant is proved in the same way: it is joined with what makes it
inductive, and each action has a step of the proof, mostly a lemma. Types are proved
rather than checked, as the prover needs them anyway. Assumptions on constants are
named and stated in the modules, where TLC evaluates them on each run: finite sets of
threads, `N > 0`, options, endings, batches and corpora of the right kind, scores that
can be compared (the vectors are finite), a registry that has a defect, a control and a
gate for each of its entries.

**`RWLock_proofs`**, for every finite set of threads and every set of interruptible ones:
`TypeCorrect`, `MutualExclusion`, `CountsNeverDrift`, `NoLostWriterWakeup`,
`WriterPreference`, `LockImplementsAccessControl`; and `NoReaderSleepsInVain` where no
thread is interrupted, which is exactly what the run `MCRWLock_stranded` shows to be
necessary. The inductive invariant joins the types, the exactness of the counters and
exclusion with the two facts about the wait set. The counters are why it is needed:
`_readers > 0` says something about threads only because it equals a cardinality, so the
proof carries `readers = Cardinality(...)` through every action with the library's facts on
finite sets. `writer` and `readers` exclude each other, from which exclusion follows.

**`EmbeddingEngine_proofs`**, for any threads, texts, normal forms, batches and sizes,
negative ones included: `RowsAreOfTheirTexts`, `LimitIsKept`, `StatisticsAreSound`,
`LockOnlyInSections`, `ReadersSeeOneCache`, `TypeCorrect`. Every step of the engine that
touches the lock is a step of `RWLock`, and every other one stutters there, so the lock's
inductive invariant is a conjunct of the engine's and `WriterAlone` is all that the engine's
proofs use of it. The rest says of each thread, by its place in the code, what it holds: a
row found or computed has the normal form of the text at its position, what is still to be
looked up or inserted are positions of its batch, and a call that returns has no misses
left. That each text is inserted from the first of its misses rests on the library's
`WFMin`. When nobody writes, the cache holds no more than the larger of the configured size
and what pressure makes of it, which `LimitIsKept` states where the configured size is at
least 1: there the floor of 1 is no more than what was asked for. `EngineKeepsToItsLock`
states the first of these as a refinement, `Spec => Lock!Spec`, which makes the lock's
theorems available for the engine. `InferenceBlocksNobody` comes from two of them: whoever
sleeps at the lock does so because of a thread that is awake and in, or about to enter, a
section, and a thread at `encode` is neither. `CallsGoForward` orders the parts of
`embed_batch`: a step of a call leads to a later part, or takes a text off the loop, or an
entry off the cache, and no other thread undoes that.

**`FallbackLLM_proofs`**, for every number of backends, callers and calls and every
constructor argument: `TypeCorrect`, `ActiveMonotone`, `StartsPastTripped` and
`NobodyIsSkippedForNothing`. The
invariant adds to the types that a caller that waits or trips has a valid index, that
every finished attempt somebody waits for has an ending, that the mark is past
every tripped backend, and that who trips has an exhausted one in hand. A call starts at
the mark, which makes `StartsPastTripped` inductive. `NoneIsLeftUnasked` adds that a call
has asked its range up to where its loop stands. Two more theorems assume that
no timer fires, and no cancellation arrives, in the turn of the event loop in which the
awaited task completes (`[]NobodyIsLate`): `NoExhaustionIsLost`, whose invariant
also says that no attempt is made twice and that whoever may not give an attempt up awaits it,
and `DeadlineStaysInside`. Without the assumption both are false for
tasks, see below. `NoBugIsMasked` assumes nothing: whatever `retry_on` matches, a call passes on
from a failure that may be passed, at a deadline, or in that very corner; and
`NarrowRetriesMaskNothing` closes the corner where `retry_on` matches neither a timeout nor a
cancellation, or nobody is late. `ThreadsAreNeverLate` shows that for
threads there is nothing to assume.
How long a call may last is counted (`StepsLeft`): for each backend still to come a call, an
interruption, an ending and a trip, and one step to give up. `CallsAreBounded` says that each
step of the call makes that number smaller and that no other step touches it; so a call
ends after at most `4N + 1` of its own steps, though the mark may move under it at any time.
`NoWaitIsStuck` says that there is always something left that can end a wait.

**`ClientLifecycle_proofs`**, for any chain of any backends and any number of calls:
`TypeCorrect`, `CloseLeavesOrphans`, `TasksShareTheirClient`. The invariant says that a call
works on no backend but the one it waits for, except for the workers it has given up, that
the async clients that are open are those in the slots, and that what is open of a
backend that closing has dealt with is an orphan or there because a `close` raised. An orphan is
a thread's client of which the backend holds another one, or that was built by the worker of a
call that had given it up. Such a worker may store its client after the close as well: then the
backend holds it, and nobody will close it.
`TurnsLeaveNothing` says where orphans come from: without a deadline, and as long as no two
threads are in a call at a time (`[]ThreadsTakeTurns`), what has been closed is closed, but
for a `close` that raised. A thread then finds either the client of the slot or none, and
nobody comes between its test and its assignment. Tasks may overlap as they like.

**`VectorStores_proofs`**, for any corpora, queries, similarities and sets of stores:
`TypeCorrect`, `ServerHoldsOneCorpus`, `AddsInstall`, `PaddingHasACause`, `AnswersRepeat`, and
`StoresKeepTheContract`: each store's initial states are the contract's and each of its
steps is one of the contract, or stutters. The invariant adds to the Qdrant store's types
that a width that was counted is right until somebody disturbs the collection, and
what the one owner of a collection finds on the server between two of its requests. The
refinement is stated of steps in which no other store disturbs the collection. For
NumPy's `search` it has to be shown that `lexsort` *has* a result for every corpus.
That takes no induction: a row's place is the number of rows that are not behind it, and
by the library's facts on cardinalities this is a bijection onto the places.
`AnswersRepeat` needs that it has *one*: two partitions with the same rows are sorted into one
sequence, and two with different rows differ only where the lowest score stands.
`SearchesCanAnswer` draws the conclusion: a search that is not refused has a slice for
`argpartition` to leave and a best answer to return, so the other theorems are not about
searches that never end. `AnswersAgree` says how far the contract fixes an answer: two of
them, of whatever backends, have the same scores in the same places. If one had a better
score at place `n`, its first `n` rows would all have to be among the first `n - 1` of the
other, which the library's pigeonhole forbids.

**`Serve_proofs`**, for any number of requests, corpora, environments and changes:
`AnswersAreOfOneCorpus`, `OnlyKeysGetThrough`, `BoundsHold`, `CorpusStays`,
`RequestsTakeEffectAtOnce`, `TypeCorrect`. The invariant: the environment that a handler has
read is one of those there were since its request arrived, and so is the corpus; the
snapshot it holds pairs the documents with the store built from them, which is why a row
that `Best` returns is within the documents and no query ends in an `IndexError`.
`RequestsTakeEffectAtOnce` is the refinement of `CorpusService`, one lemma for each step
that does something there. It needs from the invariant that an answer is ranked over the
documents it is cut from, and that a request has no reply before its handler gives one.
`BoundsHold` has two halves: nothing is accepted beyond a bound, and nothing refused as too
large within it, where a variable's bound is the positive number that it holds, or the
default.

**`Telemetry_proofs`**, for any number of calls of either set-up: `LogTypesHold`,
`TraceTypesHold`, `ConfiguringAgainIsIdle`, `NobodyIsUnheard`, `LoggingIsObeyed`; and for any
threads, nesting and exceptions `CallsAreLogged`, `LinesAreOfTheirSpans`. Whatever
the threads do, each set-up sees one of its own steps or none (`SetupSteps`). The
invariants order the calls: who got past the tests began before the first call ended,
a handler is there from `addHandler` on, the level is one that somebody asked for, a
format belongs to an environment of its call's time. Of the stacks of blocks, each step
leaves the open calls alone, enters one, or leaves one and writes its line; and the spans
a thread has open are of one trace, as each takes over that of the span it begins in.
That a call has *one* line, and none while it is open, follows from the numbers the calls
are given as they begin: those of open calls differ and are not among those of lines, and
lines differ in theirs, so that leaving a block takes a number from one side to the other.
What the line says of the ending holds because an open call has no status but those that its
body has put down.

**`QualityGates_proofs`**: `ToleratesExactlyOneSlipAlways`, for every fixture of up to 166
queries. A floor rounded down to thousandths gives away less than `n` thousandths of a
query, and below a sixth of one no worse ranking fits in between; the first fixture for
which it really fails has 223 queries, where one at rank 3 passes the MRR floor.
`MoreEvidenceHelps` says that one more retrieved document never lowers groundedness, by the
library's facts on cardinalities of subsets. `FloorsAlwaysSeparate` holds for any documents
and any answers of up to twenty content words: two scores that the producer tells apart are
then at least a fortieth apart, which is more than all the rounding of the floors gives
away, and the margin it writes is never 0. `TreeStaysClean` and `PassIsEarned` are for any
registry. Until a replay is broken off, nothing is live in the tree but the entry under
replay, which `finally` takes out. `PassIsEarned` assumes nothing about kills: the invariant
keeps what was left in the tree (`Left`) apart from the entry, shows that no step of a
process changes it, that every entry replayed so far fits what was left, and that whoever
was not listed as a survivor had a gate that was red, over what was left and the entry. So a
`PASS` is worth what its gates are: where nothing was left and no gate is red by itself,
each defect is caught by a gate of its own. `ReplayIsBounded` counts the steps of a run:
with `n` entries of up to `m` gates each there are no more than `n (m + 6)`, each makes the
number smaller, and an interrupt or a kill only shortens it.

**Only model-checked** is liveness, about which the prover cannot reason:
`ImplementsFairAccess`, `HitsDoNotWaitForInference`, `CallsEndDespiteHangs`,
`LateExhaustionTrips`, `RunsEnd`. Every other property of a passing run is the subject of a
theorem. Of three of the five the part that needs no fairness is proved as well, for every
size; what stays with TLC is that the steps it counts are enabled, and are taken:

| Liveness | What is proved of it | What is left to TLC |
|---|---|---|
| `CallsEndDespiteHangs` | `CallsAreBounded`, `NoWaitIsStuck` | timers fire, cancelled tasks end, callers go on |
| `RunsEnd` | `ReplayIsBounded` | the script goes on, hanging gates are ended |
| `HitsDoNotWaitForInference` | `InferenceBlocksNobody`, `CallsGoForward` | threads outside the model go on, the notified one gets the mutex |

## Where the code differs from what it says

The first three are shown by runs that end in a violation.

- `MCRWLock_stranded`: an exception out of the writer's `wait()` corrects the count but
  does not notify, so a reader that yielded to that writer sleeps on at a free lock.
- `MCFallbackLLM_late_deadline`: on the asyncio path a deadline that fires as the
  backend's task completes is taken for the backend's own `TimeoutError`; a
  narrow `retry_on` then lets it out of the call. For the same reason a
  `BudgetExhausted` that arrives in that turn is lost; and under the default `retry_on`, which
  matches the `TimeoutError`, a bug or an answer of the backend is passed over, in spite of "so
  fallback never masks a programming error" (`RetriedLate` in `FallsThroughOnlyWhenAllowed`).
- `MCEmbeddingEngine_raised`: with a configured cache size of 0 (or below) memory pressure
  *raises* the limit to 1 (`evidence_index.py:231`), which the comment above that line means to
  rule out. `OvershootOnlyWhileWriting` therefore speaks of sizes from 1 on.

The next ones have a definition that TLC finds violated when it is added to the
configuration of the module; each is marked "No invariant" or "No property" where it is
defined.

- `OnlyExhaustedAreSkipped` (`FallbackLLM`): the mark is one index. Tripping backend 1
  skips backend 0 for good as well, although its failure was passing and the module
  promises that only "that provider" is skipped.
- `AnswersComeFromCorpora` (`QdrantStore`): `_dim` is set when the collection is created;
  if the upsert fails, `add` has raised but `search` answers as if an empty corpus had
  been added.
- `FailureStaysWithItsBackend` (`ClientLifecycle`): a `close` that raises ends the loop of
  `FallbackLLM.close` (`fallback.py:146`), and the backends after it stay open.
- `LoggingRunsOnce`, `TracingRunsOnce`: flag and handler, flag and provider are tested and
  set apart (`log_config.py:100`, `tracing.py:39`). Two threads install two handlers, and
  each line is written twice; or build two providers, one of which nobody shuts down.
- `ReturnedMeansLevelSet` (`LogSetup`): a call that finds the handler another has just
  added returns before `setLevel` has run. Likewise, a call whose level is no text installs
  the handler and then raises; trying again finds the handler and never sets a level.

Eight more were met while modelling; no definition insists on the contrary.

- Twelve entries of `tests/mutations.json` (M1, M3, M4, M5, M17, M29, M69, M70, M74, M81,
  M82, M90) have a replacement that contains their anchor. If the replay is killed while one
  of those is live, or Ctrl-C reaches the `write_bytes` of its `finally` clause
  (`scripts/replay_mutations.py:99`), the next replay does not see that its anchor is stale,
  applies it once more, restores the file to the mutated state, and may pass on a tree that
  is not clean, on a red that the leftover lends to another entry. `PassMeansHeld` says no
  more than that.
- `gate_caught` credits any exit code 1 (`scripts/replay_mutations.py:48`), although "the
  guard never produced that red" is what it is to exclude: a gate that is red on the clean
  tree, that flakes, or a `python` gate that dies with a traceback. Only a control with such
  a gate shows it.
- A small bound, `RAG_MAX_BODY_BYTES=1` say, is a positive integer, so it is kept, and
  refuses every valid request; with no `RAG_API_KEY` every `/index` and `/query` is answered
  503. Both are what the operator asked for.
- A body that is no JSON is refused with 422 or 400 before the key is checked, since FastAPI
  parses bodies before it runs dependencies.
- `close` cannot reach the client that an abandoned worker builds or stores after it.
- A call's range is fixed when it starts (`fallback.py:160`): it goes on to a backend that
  another call has tripped meanwhile, in spite of "never retry an exhausted backend"
  (`fallback.py:172`). `NewCallsSkipTripped` speaks of new calls only.
- The limit is lowered after the write lock is released (`evidence_index.py:235`): an insert
  in between leaves the cache above its new limit until the next insert.
  `OvershootOnlyWhileWriting` therefore compares with the configured limit.
- `llm_call` sets its status in `except Exception` (`log_config.py:153`): a call that ends
  by cancellation or Ctrl-C is logged without a status, and at INFO, unless its body has set
  one. The dict is free, and `setdefault` (`log_config.py:152`) keeps what a body put there:
  one that sets `ok` and is then cancelled is logged as `ok`, and one that sets `error` and
  returns as `error`.

## What is not modelled

- Embedding arithmetic, NumPy, FAISS, HTTP, the SDKs, the Qdrant server, OpenTelemetry:
  external; the models say only what the code relies on.
- The disk of the service, because nothing is stored: a restart is the initial state.
- The other fields of a JSON line, the wording of messages, reports of the gates.
- `/health`, which returns a constant; requests without texts, which return
  before they touch anything; request bodies that lie about their length (the server
  enforces `Content-Length`).
- Asyncio tasks in `Telemetry`: OpenTelemetry keeps a context per task, so that a task counts as
  a thread there.
- Benchmarks and the example: measurements and a demonstration, no logic of the program.
- Tests and CI, except the registry of mutations as an input of the replay.

## Plan

Done, in this order: the lock and its proofs; the engine on top of it; the chain and its
proofs; the clients; the stores and the service; observability; the gates and the replay;
then the proofs of engine, clients, stores, service, telemetry, gates and replay; then
`CorpusService` and its refinement, and what of termination needs no fairness.

What could still be added: `ToleratesExactlyOneSlipAlways` up to 222 queries, where the
property ends; and what of `LateExhaustionTrips` and `ImplementsFairAccess` needs no
fairness. A change of the code changes the definitions that translate its lines, and with
them their runs and proofs. Should
`InterruptWait` lose its corner (for instance by asking the timer rather than the
task who raised the error), `[]NobodyIsLate` can be dropped from the theorems.
