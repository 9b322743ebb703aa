---------------------------- MODULE ClientLifecycle ----------------------------
(***************************************************************************)
(* The SDK clients of a chain of OpenAIBackends: built lazily by the first *)
(* call that needs one, closed by FallbackLLM.close and aclose.  A backend *)
(* has a sync client, which threads build with no lock between them, and   *)
(* an async one, which tasks of one event loop build.  A chain may also    *)
(* hold the two other backends of get_llm, which have no transport.        *)
(*                                                                         *)
(* What a call makes of a backend's answer is FallbackLLM's subject; here  *)
(* it asks the backends in turn and stops at any of them.                  *)
(***************************************************************************)
EXTENDS Naturals, FiniteSets

CONSTANTS
  Calls,                  \* calls of the chain
  N,                      \* number of backends
  Deadline,               \* whether timeout_s is set
  None                    \* no client

ASSUME NAssumption == N \in Nat \ {0} /\ Deadline \in BOOLEAN
ASSUME CallsAssumption == None \notin Calls

Backends == 1..N
Kinds == {"sync", "async"}

\* get_llm: the class it constructs for a name.
BackendOf == [name \in {"auto", "openai", "anthropic", "mock"} |->
                CASE name \in {"auto", "openai"} -> "OpenAIBackend"
                  [] name = "anthropic"          -> "AnthropicBackend"
                  [] name = "mock"               -> "MockBackend"]

VARIABLES
  sort,       \* sort[b]: the class of b
  kind,       \* invoke, on a thread ("sync"), or ainvoke, by a task ("async")
  active,     \* number of backends the chain has tripped past, _active
  client,     \* client[k][b]: the call that built the _client (_aclient) of b
  open,       \* clients open: <<b, call that built it>>
  asking,     \* the backend each call waits for: 0 before, N + 1 after
  at,         \* at[c][b]: where the attempt of c on b is
  uses,       \* uses[c][b]: the client it sends its request on
  gaveUp,     \* attempts <<c, b>> given up at their deadline
  closing,    \* closing[k]: the backend close (aclose) is at: 0 before, N + 1 after
  raised      \* <<k, b>>: closing the client of kind k of b ended in an exception

vars == <<sort, kind, active, client, open, asking, at, uses, gaveUp, closing, raised>>

SyncCalls  == {c \in Calls : kind[c] = "sync"}
AsyncCalls == {c \in Calls : kind[c] = "async"}

Init == /\ \E names \in [Backends -> DOMAIN BackendOf] :
              sort = [b \in Backends |-> BackendOf[names[b]]]
        /\ kind \in [Calls -> Kinds]
        /\ active = 0
        /\ client = [k \in Kinds |-> [b \in Backends |-> None]]
        /\ open = {}
        /\ asking = [c \in Calls |-> 0]
        /\ at = [c \in Calls |-> [b \in Backends |-> "none"]]
        /\ uses = [c \in Calls |-> [b \in Backends |-> None]]
        /\ gaveUp = {}
        /\ closing = [k \in Kinds |-> 0]
        /\ raised = {}

Goto(c, b, label) == at' = [at EXCEPT ![c][b] = label]

\* c now waits for backend b, or is over.
Ask(c, b) ==
  /\ asking' = [asking EXCEPT ![c] = b]
  /\ at' = IF b \in Backends THEN [at EXCEPT ![c][b] = "check"] ELSE at

-----------------------------------------------------------------------------
(* Calls                                                                   *)

\* A program shuts down once it has stopped calling.
StartCall(c) ==
  /\ asking[c] = 0 /\ closing[kind[c]] = 0
  /\ Ask(c, active + 1)
  /\ UNCHANGED <<active, client, open, uses, gaveUp, closing, raised>>

\* The attempt c waits for is over: that is the answer, or an error that ends the
\* call, or one that sends it to the next backend, but never the stub's.
Proceed(c) ==
  /\ asking[c] \in Backends /\ at[c][asking[c]] = "done"
  /\ \/ Ask(c, N + 1)
     \/ sort[asking[c]] # "AnthropicBackend" /\ Ask(c, asking[c] + 1)
  /\ UNCHANGED <<active, client, open, uses, gaveUp, closing, raised>>

\* The deadline: the worker is left alone, the task is cancelled.
GiveUp(c) ==
  LET b == asking[c]
      left == IF c \in SyncCalls THEN at ELSE [at EXCEPT ![c][b] = "done"]
  IN  /\ Deadline /\ b \in Backends /\ at[c][b] # "done"
      /\ asking' = [asking EXCEPT ![c] = b + 1]
      /\ at' = IF b + 1 \in Backends THEN [left EXCEPT ![c][b + 1] = "check"] ELSE left
      /\ gaveUp' = gaveUp \cup {<<c, b>>}
      /\ UNCHANGED <<active, client, open, uses, closing, raised>>

\* The request ends, or the client cannot be built; a backend whose budget is
\* spent is tripped past, whoever waits for it.
AttemptEnds(c, b) ==
  /\ at[c][b] \in {"use", "build"} \/ (at[c][b] = "check" /\ c \in AsyncCalls)
  /\ sort[b] = "OpenAIBackend"
  /\ Goto(c, b, "done")
  /\ \/ active' = active
     \/ /\ at[c][b] = "use"
        /\ active' = IF b > active THEN b ELSE active
  /\ UNCHANGED <<client, open, asking, uses, gaveUp, closing, raised>>

\* The stub raises NotImplementedError.  The mock answers, or its callable raises
\* what it likes.
AttemptNeedsNoClient(c, b) ==
  /\ at[c][b] = "check" /\ sort[b] # "OpenAIBackend"
  /\ Goto(c, b, "done")
  /\ \/ active' = active
     \/ /\ sort[b] = "MockBackend"
        /\ active' = IF b > active THEN b ELSE active
  /\ UNCHANGED <<client, open, asking, uses, gaveUp, closing, raised>>

-----------------------------------------------------------------------------
(* OpenAIBackend.client and aclient                                        *)

\* Threads: the test, the construction, the assignment and the read of the
\* property are steps of their own.
Check(c, b) ==
  /\ c \in SyncCalls /\ at[c][b] = "check" /\ sort[b] = "OpenAIBackend"
  /\ Goto(c, b, IF client["sync"][b] = None THEN "build" ELSE "fetch")
  /\ UNCHANGED <<active, client, open, asking, uses, gaveUp, closing, raised>>

Build(c, b) ==
  /\ at[c][b] = "build"
  /\ open' = open \cup {<<b, c>>}
  /\ Goto(c, b, "store")
  /\ UNCHANGED <<active, client, asking, uses, gaveUp, closing, raised>>

Store(c, b) ==
  /\ at[c][b] = "store"
  /\ client' = [client EXCEPT !["sync"][b] = c]
  /\ Goto(c, b, "fetch")
  /\ UNCHANGED <<active, open, asking, uses, gaveUp, closing, raised>>

Fetch(c, b) ==
  /\ at[c][b] = "fetch"
  /\ uses' = [uses EXCEPT ![c][b] = client["sync"][b]]
  /\ Goto(c, b, "use")
  /\ UNCHANGED <<active, client, open, asking, gaveUp, closing, raised>>

\* Faulty: the test is dropped, and every task builds a client.
RunTask_BuildsAnew(c, b) ==
  /\ c \in AsyncCalls /\ at[c][b] = "check" /\ sort[b] = "OpenAIBackend"
  /\ client' = [client EXCEPT !["async"][b] = c]
  /\ open' = open \cup {<<b, c>>}
  /\ uses' = [uses EXCEPT ![c][b] = c]
  /\ Goto(c, b, "use")
  /\ UNCHANGED <<active, asking, gaveUp, closing, raised>>

\* Tasks: nothing is awaited before the request.
RunTask(c, b) ==
  /\ c \in AsyncCalls /\ at[c][b] = "check" /\ sort[b] = "OpenAIBackend"
  /\ LET built == client["async"][b] = None
         mine  == IF built THEN c ELSE client["async"][b]
     IN  /\ client' = [client EXCEPT !["async"][b] = mine]
         /\ open' = IF built THEN open \cup {<<b, c>>} ELSE open
         /\ uses' = [uses EXCEPT ![c][b] = mine]
  /\ Goto(c, b, "use")
  /\ UNCHANGED <<active, asking, gaveUp, closing, raised>>

-----------------------------------------------------------------------------
(* FallbackLLM.close and aclose                                            *)

\* Faulty: only the backends that are still eligible are closed.
Close_FromActive(k) ==
  /\ closing[k] = 0
  /\ \A c \in Calls : kind[c] = k => asking[c] \in {0, N + 1}
  /\ closing' = [closing EXCEPT ![k] = active + 1]
  /\ UNCHANGED <<active, client, open, asking, at, uses, gaveUp, raised>>

\* The first step, when every call has returned.
Close(k) ==
  /\ closing[k] = 0
  /\ \A c \in Calls : kind[c] = k => asking[c] \in {0, N + 1}
  /\ closing' = [closing EXCEPT ![k] = 1]
  /\ UNCHANGED <<active, client, open, asking, at, uses, gaveUp, raised>>

\* Backend by backend, the client it has now, if any; closing one may fail.
CloseNext(k) ==
  LET b == closing[k] IN
  /\ b \in Backends
  /\ \/ /\ open' = open \ {<<b, client[k][b]>>}
        /\ closing' = [closing EXCEPT ![k] = b + 1]
        /\ raised' = raised
     \/ /\ client[k][b] # None
        /\ closing' = [closing EXCEPT ![k] = N + 1]
        /\ raised' = raised \cup {<<k, b>>}
        /\ open' = open
  /\ UNCHANGED <<active, client, asking, at, uses, gaveUp>>

ClientStep(c, b) == Check(c, b) \/ Build(c, b) \/ Store(c, b) \/ Fetch(c, b) \/ RunTask(c, b)

Next == /\ \/ \E c \in Calls : StartCall(c) \/ Proceed(c) \/ GiveUp(c)
           \/ \E c \in Calls, b \in Backends : \/ ClientStep(c, b) \/ AttemptEnds(c, b)
                                             \/ AttemptNeedsNoClient(c, b)
           \/ \E k \in Kinds : Close(k) \/ CloseNext(k)
        /\ UNCHANGED <<sort, kind>>

Spec == Init /\ [][Next]_vars

-----------------------------------------------------------------------------
(* Properties                                                              *)

Labels == {"none", "check", "build", "store", "fetch", "use", "done"}

\* The mark stays within the chain, and a client is stored, and used, only when
\* it was built.
TypeOK ==
  /\ sort \in [Backends -> {"OpenAIBackend", "AnthropicBackend", "MockBackend"}]
  /\ kind \in [Calls -> Kinds]
  /\ active \in 0..N
  /\ asking \in [Calls -> 0..N + 1]
  /\ at \in [Calls -> [Backends -> Labels]]
  /\ closing \in [Kinds -> 0..N + 1]
  /\ raised \subseteq Kinds \X Backends
  /\ \A b \in Backends :
       /\ \A k \in Kinds : client[k][b] # None => kind[client[k][b]] = k
       /\ \A c \in Calls : at[c][b] \in {"store", "fetch", "use"} /\ closing[kind[c]] = 0 =>
            \E d \in Calls : kind[d] = kind[c] /\ <<b, d>> \in open

\* A thread's client that its backend does not hold, because a later store replaced
\* it, or that a worker built after its call had given it up.  A worker may store it
\* even after the close: then the backend holds it, and nobody will close it.
Orphan(b, c) == c \in SyncCalls /\ (client["sync"][b] # c \/ <<c, b>> \in gaveUp)

\* "Close every backend in the chain, including ones already tripped": what is open
\* after a close that has come to the end of the chain is a client that two threads
\* built at once, of which the backend keeps one; or the client of a worker whose
\* call had given it up, which it may build, use and store at any time; or one of a
\* backend that the loop skipped, because the close of it or of one before it raised.
\* Tasks that share a client leave nothing but behind a raise.
OnlyOrphansStayOpen ==
  \A k \in Kinds, b \in Backends, c \in Calls :
    closing[k] = N + 1 /\ kind[c] = k /\ <<b, c>> \in open =>
      Orphan(b, c) \/ \E d \in 1..b : <<k, d>> \in raised

\* No invariant: a close that raises closes all the others.  The exception ends the
\* loop, and the backends that follow keep their clients.
FailureStaysWithItsBackend ==
  \A k \in Kinds, b \in Backends, c \in Calls :
    closing[k] = N + 1 /\ kind[c] = k /\ <<b, c>> \in open =>
      Orphan(b, c) \/ <<k, b>> \in raised

\* "if one was built": tasks that overlap, time out and are cancelled still share
\* the one async client of a backend, so that closing it closes them all.
AsyncClientIsUnique ==
  \A b \in Backends : \A c, d \in AsyncCalls : {<<b, c>>, <<b, d>>} \subseteq open => c = d

=============================================================================
