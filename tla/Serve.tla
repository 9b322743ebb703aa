--------------------------------- MODULE Serve ---------------------------------
(***************************************************************************)
(* serve.py: requests to /index and /query.  The middleware runs on the    *)
(* event loop, the key check and the handlers on threads of a pool, so     *)
(* requests overlap at every step.  All they share is `_index` and the     *)
(* environment, which is read afresh wherever it is needed and which the   *)
(* deployment may change at any time.                                      *)
(*                                                                         *)
(* A document stands for its embedding, and what the store finds is taken  *)
(* from Ranking, which NumpyVectorStore implements (VectorStores).          *)
(***************************************************************************)
EXTENDS Ranking, FiniteSets

CONSTANTS
  Requests,         \* identities of requests
  Messages,         \* what a request may say, as below
  Environments,     \* values of the variables: [key, maxBody, maxDocs]
  DefaultMaxBody, DefaultMaxDocs,
  Unset,            \* no such variable, or no such header
  Junk,             \* a value that is no number
  NoKey,            \* RAG_API_KEY is unset or blank
  OddKey,           \* RAG_API_KEY is not ASCII
  MaxChanges        \* bound: changes of the environment

\* A message is [op |-> "index", length, key, docs], [op |-> "query", length, key,
\* query, k], or [op |-> "garbled", length, key], whose body is no JSON; length is the
\* Content-Length header, in bytes.
ASSUME DefaultsAssumption == DefaultMaxBody \in Nat \ {0} /\ DefaultMaxDocs \in Nat \ {0}
ASSUME EnvironmentsAssumption ==
  /\ {Unset, Junk} \cap Int = {}
  /\ \A e \in Environments : {e.maxBody, e.maxDocs} \subseteq {Unset, Junk} \cup Int
ASSUME MessagesAssumption ==
  \A m \in Messages : /\ m.length \in {Unset, Junk} \cup Nat
                      /\ \/ m.op = "garbled"
                         \/ m.op = "index" /\ m.docs \in Seq({m.docs[n] : n \in DOMAIN m.docs})
                         \/ m.op = "query" /\ m.k \in Int

VARIABLES
  index,      \* _index: NoIndex, or the snapshot [docs, store]
  env,        \* os.environ
  changes,    \* number of changes of env
  pc,         \* where each request is
  msg,        \* what it says
  mine,       \* what its handler holds: the new store, or the snapshot it took
  reply,      \* [status, docs]
  envs,       \* environments there have been since it arrived
  indexes     \* values of _index there have been since it arrived

vars == <<index, env, changes, pc, msg, mine, reply, envs, indexes>>

NoIndex == [docs |-> << >>, store |-> << >>]
NoMessage == [op |-> "none"]
NoReply == [status |-> 0, docs |-> << >>]

Active == {r \in Requests : pc[r] \notin {"new", "done"}}

Goto(r, label) == pc' = [pc EXCEPT ![r] = label]

\* The request is over.
Respond(r, status, docs) ==
  /\ reply' = [reply EXCEPT ![r] = [status |-> status, docs |-> docs]]
  /\ mine' = [mine EXCEPT ![r] = NoIndex]
  /\ Goto(r, "done")

Refuse(r, status) == Respond(r, status, << >>) /\ UNCHANGED <<index, indexes>>

Proceed(r, label) == Goto(r, label) /\ UNCHANGED <<index, indexes, reply, mine>>

Init == /\ index = NoIndex
        /\ env \in Environments
        /\ changes = 0
        /\ pc = [r \in Requests |-> "new"]
        /\ msg = [r \in Requests |-> NoMessage]
        /\ mine = [r \in Requests |-> NoIndex]
        /\ reply = [r \in Requests |-> NoReply]
        /\ envs = [r \in Requests |-> {}]
        /\ indexes = [r \in Requests |-> {}]

-----------------------------------------------------------------------------

\* Faulty: a number is taken as it is.
PositiveInt_AnyInt(raw, default) == IF raw \in {Unset, Junk} THEN default ELSE raw

\* _positive_int
PositiveInt(raw, default) ==
  IF raw \in {Unset, Junk} THEN default ELSE IF raw < 1 THEN default ELSE raw

MaxBody(e) == PositiveInt(e.maxBody, DefaultMaxBody)
MaxDocs(e) == PositiveInt(e.maxDocs, DefaultMaxDocs)

EnvironmentChanges ==
  /\ changes < MaxChanges
  /\ changes' = changes + 1
  /\ env' \in Environments \ {env}
  /\ envs' = [r \in Requests |-> IF r \in Active THEN envs[r] \cup {env'} ELSE envs[r]]
  /\ UNCHANGED <<index, pc, msg, mine, reply, indexes>>

Arrive(r) ==
  /\ pc[r] = "new"
  /\ \E m \in Messages : msg' = [msg EXCEPT ![r] = m]
  /\ envs' = [envs EXCEPT ![r] = {env}]
  /\ indexes' = [indexes EXCEPT ![r] = {index}]
  /\ Goto(r, "body")
  /\ UNCHANGED <<index, env, changes, mine, reply>>

-----------------------------------------------------------------------------
(* Before the handler                                                      *)

\* bound_request_body; both endpoints are POST.
BoundBody(r) ==
  /\ pc[r] = "body"
  /\ LET declared == msg[r].length
     IN  \/ declared = Unset /\ Refuse(r, 411)
         \/ declared = Junk  /\ Refuse(r, 400)
         \/ /\ declared \notin {Unset, Junk}
            /\ IF declared > MaxBody(env) THEN Refuse(r, 413) ELSE Proceed(r, "key")
  /\ UNCHANGED <<env, changes, msg, envs>>

\* FastAPI parses the body before it looks at dependencies and fields.
RefuseGarbled(r) ==
  /\ pc[r] = "key" /\ msg[r].op = "garbled"
  /\ \E status \in {400, 422} : Refuse(r, status)
  /\ UNCHANGED <<env, changes, msg, envs>>

\* The fields of IndexRequest and QueryRequest.
Valid(m) == IF m.op = "index" THEN m.docs # << >> ELSE m.k >= 1

\* Faulty: without a key there is nothing to compare with.
RequireKey_OpenWithoutKey(r) ==
  /\ pc[r] = "key" /\ msg[r].op # "garbled"
  /\ \/ env.key = OddKey /\ Refuse(r, 503)
     \/ env.key \notin {OddKey, NoKey, msg[r].key} /\ Refuse(r, 401)
     \/ /\ env.key \in {NoKey, msg[r].key} \ {OddKey}
        /\ IF Valid(msg[r]) THEN Proceed(r, msg[r].op) ELSE Refuse(r, 422)
  /\ UNCHANGED <<env, changes, msg, envs>>

\* require_api_key, which reads the variable once, and then the body's fields.
RequireKey(r) ==
  /\ pc[r] = "key" /\ msg[r].op # "garbled"
  /\ \/ env.key \in {NoKey, OddKey} /\ Refuse(r, 503)
     \/ env.key \notin {NoKey, OddKey, msg[r].key} /\ Refuse(r, 401)
     \/ /\ env.key \notin {NoKey, OddKey} /\ env.key = msg[r].key
        /\ IF Valid(msg[r]) THEN Proceed(r, msg[r].op) ELSE Refuse(r, 422)
  /\ UNCHANGED <<env, changes, msg, envs>>

-----------------------------------------------------------------------------
(* index                                                                   *)

CheckCorpus(r) ==
  /\ pc[r] = "index"
  /\ IF Len(msg[r].docs) > MaxDocs(env) THEN Refuse(r, 413) ELSE Proceed(r, "build")
  /\ UNCHANGED <<env, changes, msg, envs>>

\* Faulty: the corpus in use is withdrawn while its successor is built.
BuildStore_ClearsIndex(r) ==
  /\ pc[r] = "build"
  /\ mine' = [mine EXCEPT ![r] = [docs |-> msg[r].docs, store |-> msg[r].docs]]
  /\ index' = NoIndex
  /\ indexes' = [q \in Requests |-> IF q \in Active THEN indexes[q] \cup {NoIndex} ELSE indexes[q]]
  /\ Goto(r, "publish")
  /\ UNCHANGED <<env, changes, msg, reply, envs>>

\* A store of the request's own is filled, which takes its time.
BuildStore(r) ==
  /\ pc[r] = "build"
  /\ mine' = [mine EXCEPT ![r] = [docs |-> msg[r].docs, store |-> msg[r].docs]]
  /\ Goto(r, "publish")
  /\ UNCHANGED <<index, env, changes, msg, reply, envs, indexes>>

\* One assignment swaps documents and store together.
Publish(r) ==
  /\ pc[r] = "publish"
  /\ index' = mine[r]
  /\ indexes' = [q \in Requests |-> IF q \in Active THEN indexes[q] \cup {index'} ELSE indexes[q]]
  /\ Respond(r, 201, << >>)
  /\ UNCHANGED <<env, changes, msg, envs>>

-----------------------------------------------------------------------------
(* query                                                                   *)

\* Faulty: the snapshot is not taken, and the documents are looked up later.
TakeSnapshot_StoreOnly(r) ==
  /\ pc[r] = "query"
  /\ IF index = NoIndex
     THEN Refuse(r, 409)
     ELSE /\ \E i \in indexes[r] \ {NoIndex} :
               mine' = [mine EXCEPT ![r] = [docs |-> index.docs, store |-> i.store]]
          /\ Goto(r, "search")
          /\ UNCHANGED <<index, indexes, reply>>
  /\ UNCHANGED <<env, changes, msg, envs>>

TakeSnapshot(r) ==
  /\ pc[r] = "query"
  /\ IF index = NoIndex
     THEN Refuse(r, 409)
     ELSE /\ mine' = [mine EXCEPT ![r] = index]
          /\ Goto(r, "search")
          /\ UNCHANGED <<index, indexes, reply>>
  /\ UNCHANGED <<env, changes, msg, envs>>

\* The best rows of the store, at most as many as there are documents.
Found(m, snapshot) ==
  LET corpus == [rows |-> snapshot.store]
  IN  Best(corpus, m.query, Smaller(Smaller(m.k, Len(snapshot.docs)), Size(corpus)))

\* A row without a document would be an IndexError.
Search(r) ==
  /\ pc[r] = "search"
  /\ \E rows \in Found(msg[r], mine[r]) :
       IF \A n \in DOMAIN rows : rows[n] \in DOMAIN mine[r].docs
       THEN Respond(r, 200, [n \in DOMAIN rows |-> mine[r].docs[rows[n]]])
       ELSE Respond(r, 500, << >>)
  /\ UNCHANGED <<index, env, changes, msg, envs, indexes>>

-----------------------------------------------------------------------------

Next == \/ EnvironmentChanges
        \/ \E r \in Requests : \/ Arrive(r) \/ BoundBody(r) \/ RefuseGarbled(r) \/ RequireKey(r)
                               \/ CheckCorpus(r) \/ BuildStore(r) \/ Publish(r)
                               \/ TakeSnapshot(r) \/ Search(r)

Spec == Init /\ [][Next]_vars

-----------------------------------------------------------------------------
(* Properties                                                              *)

Labels == {"new", "body", "key", "index", "build", "publish", "query", "search", "done"}

\* Every snapshot, published or held, pairs documents with the store built from
\* them, and every request is at a step of its own endpoint.
TypeOK ==
  /\ env \in Environments
  /\ pc \in [Requests -> Labels]
  /\ \A r \in Requests : msg[r] \in Messages \cup {NoMessage}
  /\ \A r \in Requests : /\ pc[r] \in {"index", "build", "publish"} => msg[r].op = "index"
                         /\ pc[r] \in {"query", "search"} => msg[r].op = "query"
                         /\ mine[r].docs = mine[r].store
  /\ index.docs = index.store

\* "/query cannot read a new store paired with stale docs and IndexError": an
\* answer consists of the best documents of one corpus that was published while
\* the request was being served, and there is no other answer.
AnswersComeFromOneCorpus ==
  \A r \in Requests : reply[r].status \in {200, 500} =>
    \E i \in indexes[r] \ {NoIndex} : \E rows \in Found(msg[r], i) :
      reply[r].docs = [n \in DOMAIN rows |-> i.docs[rows[n]]] /\ rows # << >>

\* A query is told to index documents first only if it arrived before the first
\* corpus was accepted: from then on there is a corpus at every moment, also while
\* another one is being built.
NotReadyOnlyBeforeFirstCorpus ==
  /\ \A r \in Requests : reply[r].status = 409 => NoIndex \in indexes[r]
  /\ (\E r \in Requests : reply[r].status = 201) => index # NoIndex

\* What a query's handler holds of the corpus it has taken.
Taken(r) == IF pc[r] = "search" THEN mine[r].docs ELSE << >>

Corpus == INSTANCE CorpusService WITH corpus <- index.docs,
                                      seen <- [r \in Requests |-> Taken(r)]

\* However requests overlap, each is answered as if it had been served alone, an
\* accepted corpus at the assignment that publishes it and a query at the "single
\* atomic read": in particular no query is told that there is no corpus once one has
\* been accepted, and none ends in an IndexError.
ImplementsCorpusService == Corpus!Spec

\* Refused for its fields, which are looked at after the key.
BadFields(r) == reply[r].status = 422 /\ msg[r].op # "garbled"

\* Whoever gets past the key check has sent a key that was configured, and one
\* that can be configured, while the request was being served.
OnlyKeyHoldersGetThrough ==
  \A r \in Requests :
    \/ pc[r] \in {"index", "build", "publish", "query", "search"}
    \/ reply[r].status \in {200, 201, 409} \/ BadFields(r)
    => \E e \in envs[r] : e.key = msg[r].key /\ e.key \notin {NoKey, OddKey}

\* A size is beyond what the operator asked for, a positive number, or beyond the
\* default where nothing was asked for, or nothing that makes sense.
Exceeds(size, asked, default) == IF asked \in Nat \ {0} THEN size > asked ELSE size > default

BodyExceeds(r, e) == Exceeds(msg[r].length, e.maxBody, DefaultMaxBody)
CorpusExceeds(r, e) == msg[r].op = "index" /\ Exceeds(Len(msg[r].docs), e.maxDocs, DefaultMaxDocs)

\* A body is read, and a corpus accepted, only within a bound that was in force while
\* the request was being served.
AcceptedWithinBounds ==
  \A r \in Requests :
    /\ pc[r] \notin {"new", "body", "done"} \/ reply[r].status \in {200, 201, 409} =>
         \E e \in envs[r] : ~BodyExceeds(r, e)
    /\ reply[r].status = 201 => \E e \in envs[r] : ~CorpusExceeds(r, e)

\* "a typo in an environment variable must not turn every request into a 500 or
\* a 413": a request is too large only for a positive number that was asked for, or
\* for the default.
RefusedBeyondBounds ==
  \A r \in Requests : reply[r].status = 413 =>
    \E e \in envs[r] : BodyExceeds(r, e) \/ CorpusExceeds(r, e)

\* A variable bounds requests as it says, or else not at all.
BoundsAreKept == AcceptedWithinBounds /\ RefusedBeyondBounds

=============================================================================
