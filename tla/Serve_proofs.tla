------------------------------ MODULE Serve_proofs ------------------------------
(***************************************************************************)
(* Proofs about Serve, for any requests, corpora and environments, and any *)
(* number of changes of the environment.                                   *)
(***************************************************************************)
EXTENDS Serve, SequenceTheorems, TLAPS

\* The corpora that /index accepts, and what is made of them.
Accepted == {m \in Messages : m.op = "index" /\ m.docs # << >>}

Snapshots == {[docs |-> m.docs, store |-> m.docs] : m \in Accepted} \cup {NoIndex}

TypeInv ==
  /\ index \in Snapshots
  /\ env \in Environments
  /\ pc \in [Requests -> Labels]
  /\ msg \in [Requests -> Messages \cup {NoMessage}]
  /\ mine \in [Requests -> Snapshots]
  /\ DOMAIN reply = Requests
  /\ envs \in [Requests -> SUBSET Environments]
  /\ indexes \in [Requests -> SUBSET Snapshots]

\* What a request at a step has behind it.
Progress(r) ==
  /\ pc[r] # "done" => reply[r].status = 0
  /\ pc[r] \notin {"new", "done"} => msg[r] \in Messages /\ env \in envs[r] /\ index \in indexes[r]
  /\ pc[r] \in {"index", "build", "publish"} => msg[r] \in Accepted
  /\ pc[r] \in {"query", "search"} => msg[r].op = "query" /\ msg[r].k >= 1
  /\ pc[r] = "publish" => mine[r] # NoIndex
  /\ pc[r] = "search" => mine[r] \in indexes[r] \ {NoIndex}

\* What a request that was answered, or got past the checks, has behind it.
Checked(r) ==
  /\ pc[r] \in {"index", "build", "publish", "query", "search"}
     \/ reply[r].status \in {200, 201, 409} \/ BadFields(r) =>
       \E e \in envs[r] : e.key = msg[r].key /\ e.key \notin {NoKey, OddKey}
  /\ pc[r] \notin {"new", "body", "done"} \/ reply[r].status \in {200, 201, 409} =>
       \E e \in envs[r] : ~BodyExceeds(r, e)
  /\ pc[r] \in {"build", "publish"} \/ reply[r].status = 201 =>
       \E e \in envs[r] : ~CorpusExceeds(r, e)
  /\ reply[r].status = 413 => \E e \in envs[r] : BodyExceeds(r, e) \/ CorpusExceeds(r, e)
  /\ reply[r].status = 409 => NoIndex \in indexes[r]
  /\ reply[r].status = 201 => index # NoIndex

Inv == TypeInv /\ \A r \in Requests : Progress(r) /\ Checked(r)

-----------------------------------------------------------------------------

\* A bound is what the variable asks for, or else the default.
LEMMA BoundsAreAsked ==
  ASSUME NEW e \in Environments, NEW size \in Nat
  PROVE  /\ size > MaxBody(e) <=> Exceeds(size, e.maxBody, DefaultMaxBody)
         /\ size > MaxDocs(e) <=> Exceeds(size, e.maxDocs, DefaultMaxDocs)
<1>1. /\ e.maxBody \in {Unset, Junk} \cup Int /\ e.maxDocs \in {Unset, Junk} \cup Int
      /\ Unset \notin Int /\ Junk \notin Int
  BY EnvironmentsAssumption
<1>. QED BY <1>1, DefaultsAssumption DEF MaxBody, MaxDocs, PositiveInt, Exceeds

\* An accepted corpus has documents.
LEMMA AcceptedHasDocs ==
  ASSUME NEW m \in Accepted
  PROVE  /\ m \in Messages /\ Len(m.docs) \in Nat \ {0} /\ DOMAIN m.docs = 1..Len(m.docs)
<1>1. m \in Messages /\ m.op = "index" /\ m.docs # << >>
  BY DEF Accepted
<1>2. m.docs \in Seq({m.docs[n] : n \in DOMAIN m.docs})
  BY <1>1, MessagesAssumption
<1>3. Len(m.docs) \in Nat \ {0}
  BY <1>1, <1>2, EmptySeq
<1>4. DOMAIN m.docs = 1..Len(m.docs)
  BY <1>2, LenProperties
<1>. QED BY <1>1, <1>3, <1>4

\* A snapshot pairs documents with the store built from them.
LEMMA SnapshotsPair ==
  ASSUME NEW s \in Snapshots
  PROVE  s.docs = s.store
BY DEF Snapshots, NoIndex

\* A response ends the request and touches no other.
LEMMA RespondEffect ==
  ASSUME TypeInv, NEW r \in Requests, NEW status, NEW docs, Respond(r, status, docs)
  PROVE  /\ pc' = [pc EXCEPT ![r] = "done"] /\ mine' = [mine EXCEPT ![r] = NoIndex]
         /\ DOMAIN reply' = Requests
         /\ reply'[r].status = status /\ reply'[r].docs = docs
         /\ \A q \in Requests \ {r} : reply'[q] = reply[q]
         /\ pc' \in [Requests -> Labels] /\ mine' \in [Requests -> Snapshots]
BY DEF TypeInv, Respond, Goto, Labels, Snapshots

\* A step of request r leaves the others where they are, except that they see a new
\* corpus.
LEMMA OthersStay ==
  ASSUME Inv, NEW r \in Requests, NEW q \in Requests \ {r},
         pc'[q] = pc[q], msg'[q] = msg[q], mine'[q] = mine[q], reply'[q] = reply[q],
         envs'[q] = envs[q], env' = env,
         \/ index' = index /\ indexes'[q] = indexes[q]
         \/ /\ index' # NoIndex
            /\ indexes'[q] = IF pc[q] \notin {"new", "done"} THEN indexes[q] \cup {index'} ELSE indexes[q]
  PROVE  Progress(q)' /\ Checked(q)'
BY DEF Inv, TypeInv, Progress, Checked, Labels, BadFields, BodyExceeds, CorpusExceeds

\* A request that is refused is over.
LEMMA RefuseStep ==
  ASSUME Inv, NEW r \in Requests, NEW status \in {400, 401, 409, 411, 413, 422, 503},
         pc[r] \notin {"new", "done"},
         Refuse(r, status), UNCHANGED <<env, msg, envs>>,
         status = 422 /\ msg[r].op # "garbled" => \E e \in envs[r] : e.key = msg[r].key /\ e.key \notin {NoKey, OddKey},
         status = 409 => pc[r] = "query" /\ index = NoIndex,
         status = 413 => \E e \in envs[r] : BodyExceeds(r, e) \/ CorpusExceeds(r, e)
  PROVE  Inv'
<1>. USE DEF Inv
<1>1. Respond(r, status, << >>) /\ UNCHANGED <<index, indexes>>
  BY DEF Refuse
<1>2. /\ pc' = [pc EXCEPT ![r] = "done"] /\ mine' = [mine EXCEPT ![r] = NoIndex]
      /\ DOMAIN reply' = Requests /\ reply'[r].status = status
      /\ \A q \in Requests \ {r} : reply'[q] = reply[q]
      /\ pc' \in [Requests -> Labels] /\ mine' \in [Requests -> Snapshots]
  BY <1>1, RespondEffect
<1>3. TypeInv'
  BY <1>1, <1>2 DEF TypeInv
<1>4. \A q \in Requests \ {r} : Progress(q)' /\ Checked(q)'
  BY <1>1, <1>2, OthersStay DEF TypeInv
<1>5. pc'[r] = "done"
  BY <1>2 DEF TypeInv
<1>6. Progress(r)'
  BY <1>5 DEF Progress
<1>7. Checked(r)'
  BY <1>1, <1>2, <1>5 DEF Checked, Progress, BadFields, BodyExceeds, CorpusExceeds
<1>. QED BY <1>3, <1>4, <1>6, <1>7

\* A request that goes on changes nothing but where it is.
LEMMA ProceedStep ==
  ASSUME Inv, NEW r \in Requests, NEW label \in Labels,
         Proceed(r, label), UNCHANGED <<env, msg, envs>>,
         Progress(r)', Checked(r)'
  PROVE  Inv'
<1>. USE DEF Inv
<1>1. /\ pc' = [pc EXCEPT ![r] = label]
      /\ UNCHANGED <<index, indexes, reply, mine>>
  BY DEF Proceed, Goto
<1>2. TypeInv'
  BY <1>1 DEF TypeInv
<1>3. \A q \in Requests \ {r} : Progress(q)' /\ Checked(q)'
  BY <1>1, OthersStay DEF TypeInv
<1>. QED BY <1>2, <1>3

\* A step before the answer sees the request, its environment and its corpora.
LEMMA Underway ==
  ASSUME Inv, NEW r \in Requests, pc[r] \notin {"new", "done"}
  PROVE  /\ reply[r].status = 0 /\ msg[r] \in Messages
         /\ env \in envs[r] /\ index \in indexes[r] /\ env \in Environments
BY DEF Inv, TypeInv, Progress

LEMMA EnvironmentChangesInv ==
  ASSUME Inv, EnvironmentChanges
  PROVE  Inv'
<1>1. /\ env' \in Environments
      /\ envs' = [r \in Requests |-> IF r \in Active THEN envs[r] \cup {env'} ELSE envs[r]]
      /\ UNCHANGED <<index, pc, msg, mine, reply, indexes>>
  BY DEF EnvironmentChanges
<1>2. TypeInv'
  BY <1>1 DEF TypeInv, Inv
<1>3. ASSUME NEW r \in Requests PROVE Progress(r)' /\ Checked(r)'
  <2>1. envs'[r] = IF pc[r] \notin {"new", "done"} THEN envs[r] \cup {env'} ELSE envs[r]
    BY <1>1 DEF Active
  <2>2. Progress(r)'
    BY <1>1, <2>1 DEF Progress, Inv
  <2>3. envs[r] \subseteq envs'[r]
    BY <2>1
  <2>4. Checked(r)'
    BY <1>1, <2>3 DEF Checked, Inv, BadFields, BodyExceeds, CorpusExceeds
  <2>. QED BY <2>2, <2>4
<1>. QED BY <1>2, <1>3 DEF Inv

LEMMA ArriveInv ==
  ASSUME Inv, NEW r \in Requests, Arrive(r)
  PROVE  Inv'
<1>1. PICK m \in Messages : msg' = [msg EXCEPT ![r] = m]
  BY DEF Arrive
<1>2. /\ pc[r] = "new" /\ pc' = [pc EXCEPT ![r] = "body"]
      /\ envs' = [envs EXCEPT ![r] = {env}] /\ indexes' = [indexes EXCEPT ![r] = {index}]
      /\ UNCHANGED <<index, env, mine, reply>>
  BY DEF Arrive, Goto
<1>3. TypeInv'
  BY <1>1, <1>2 DEF TypeInv, Inv, Labels
<1>4. \A q \in Requests \ {r} : Progress(q)' /\ Checked(q)'
  BY <1>1, <1>2, OthersStay DEF TypeInv, Inv
<1>5. /\ pc'[r] = "body" /\ reply'[r].status = 0 /\ msg'[r] = m
      /\ envs'[r] = {env} /\ indexes'[r] = {index}
  BY <1>1, <1>2 DEF TypeInv, Inv, Progress
<1>6. Progress(r)' /\ Checked(r)'
  BY <1>2, <1>5 DEF Progress, Checked, BadFields
<1>. QED BY <1>3, <1>4, <1>6 DEF Inv

\* A body is measured against the bound of the moment.
LEMMA BoundBodyInv ==
  ASSUME Inv, NEW r \in Requests, BoundBody(r)
  PROVE  Inv'
<1>1. pc[r] = "body" /\ UNCHANGED <<env, msg, envs>>
  BY DEF BoundBody
<1>2. /\ reply[r].status = 0 /\ msg[r] \in Messages
      /\ env \in envs[r] /\ index \in indexes[r] /\ env \in Environments
  BY <1>1, Underway
<1>3. CASE Refuse(r, 411) \/ Refuse(r, 400)
  BY <1>1, <1>3, RefuseStep
<1>4. CASE msg[r].length \notin {Unset, Junk} /\ msg[r].length > MaxBody(env) /\ Refuse(r, 413)
  <2>1. msg[r].length \in Nat
    BY <1>2, <1>4, MessagesAssumption
  <2>2. BodyExceeds(r, env)
    BY <1>2, <1>4, <2>1, BoundsAreAsked DEF BodyExceeds
  <2>. QED BY <1>1, <1>2, <1>4, <2>2, RefuseStep
<1>5. CASE msg[r].length \notin {Unset, Junk} /\ ~(msg[r].length > MaxBody(env)) /\ Proceed(r, "key")
  <2>1. msg[r].length \in Nat
    BY <1>2, <1>5, MessagesAssumption
  <2>2. \E e \in envs[r] : ~BodyExceeds(r, e)
    BY <1>2, <1>5, <2>1, BoundsAreAsked DEF BodyExceeds
  <2>3. pc'[r] = "key" /\ UNCHANGED <<index, indexes, reply, mine>>
    BY <1>5 DEF Proceed, Goto, Inv, TypeInv
  <2>4. Progress(r)'
    BY <1>1, <1>2, <2>3 DEF Progress
  <2>5. (\E e \in envs[r] : ~BodyExceeds(r, e))'
    BY <1>1, <2>2 DEF BodyExceeds
  <2>6. Checked(r)'
    BY <1>1, <1>2, <2>3, <2>5 DEF Checked, BadFields
  <2>. QED BY <1>1, <1>5, <2>4, <2>6, ProceedStep DEF Labels
<1>. QED BY <1>3, <1>4, <1>5 DEF BoundBody

LEMMA RefuseGarbledInv ==
  ASSUME Inv, NEW r \in Requests, RefuseGarbled(r)
  PROVE  Inv'
BY RefuseStep DEF RefuseGarbled

\* Whoever gets through has sent the key that is configured at this moment.
LEMMA RequireKeyInv ==
  ASSUME Inv, NEW r \in Requests, RequireKey(r)
  PROVE  Inv'
<1>1. pc[r] = "key" /\ msg[r].op # "garbled" /\ UNCHANGED <<env, msg, envs>>
  BY DEF RequireKey
<1>2. /\ reply[r].status = 0 /\ msg[r] \in Messages
      /\ env \in envs[r] /\ index \in indexes[r] /\ env \in Environments
  BY <1>1, Underway
<1>3. CASE Refuse(r, 503) \/ Refuse(r, 401)
  BY <1>1, <1>3, RefuseStep
<1>4. CASE env.key \notin {NoKey, OddKey} /\ env.key = msg[r].key
  <2>1. \E e \in envs[r] : e.key = msg[r].key /\ e.key \notin {NoKey, OddKey}
    BY <1>2, <1>4
  <2>2. CASE Refuse(r, 422)
    BY <1>1, <2>1, <2>2, RefuseStep
  <2>3. CASE Valid(msg[r]) /\ Proceed(r, msg[r].op)
    <3>1. \/ msg[r].op = "index" /\ msg[r] \in Accepted
          \/ msg[r].op = "query" /\ msg[r].k >= 1
      BY <1>1, <1>2, <2>3, MessagesAssumption DEF Valid, Accepted
    <3>2. pc'[r] = msg[r].op /\ UNCHANGED <<index, indexes, reply, mine>>
      BY <2>3 DEF Proceed, Goto, Inv, TypeInv
    <3>3. Progress(r)'
      BY <1>1, <1>2, <3>1, <3>2 DEF Progress
    <3>4. \E e \in envs[r] : ~BodyExceeds(r, e)
      BY <1>1 DEF Checked, Inv
    <3>5. (\E e \in envs[r] : ~BodyExceeds(r, e))'
      BY <1>1, <3>4 DEF BodyExceeds
    <3>6. Checked(r)'
      <4>1. (\E e \in envs[r] : e.key = msg[r].key /\ e.key \notin {NoKey, OddKey})'
        BY <1>1, <2>1
      <4>2. pc'[r] \in {"index", "query"} /\ reply'[r].status = 0
        BY <1>2, <3>1, <3>2
      <4>. QED BY <3>5, <4>1, <4>2 DEF Checked, BadFields
    <3>7. msg[r].op \in Labels
      BY <3>1 DEF Labels
    <3>. QED BY <1>1, <2>3, <3>3, <3>6, <3>7, ProceedStep
  <2>. QED BY <1>3, <1>4, <2>2, <2>3 DEF RequireKey
<1>. QED BY <1>3, <1>4 DEF RequireKey

LEMMA CheckCorpusInv ==
  ASSUME Inv, NEW r \in Requests, CheckCorpus(r)
  PROVE  Inv'
<1>1. pc[r] = "index" /\ UNCHANGED <<env, msg, envs>>
  BY DEF CheckCorpus
<1>2. /\ reply[r].status = 0 /\ env \in envs[r] /\ env \in Environments
      /\ msg[r] \in Accepted
  BY <1>1, Underway DEF Inv, Progress
<1>3. Len(msg[r].docs) \in Nat /\ msg[r].op = "index"
  BY <1>2, AcceptedHasDocs DEF Accepted
<1>4. Len(msg[r].docs) > MaxDocs(env) <=> CorpusExceeds(r, env)
  BY <1>2, <1>3, BoundsAreAsked DEF CorpusExceeds
<1>5. CASE Len(msg[r].docs) > MaxDocs(env) /\ Refuse(r, 413)
  BY <1>1, <1>2, <1>5, <1>4, RefuseStep
<1>6. CASE ~(Len(msg[r].docs) > MaxDocs(env)) /\ Proceed(r, "build")
  <2>1. pc'[r] = "build" /\ UNCHANGED <<index, indexes, reply, mine>>
    BY <1>6 DEF Proceed, Goto, Inv, TypeInv
  <2>2. \E e \in envs[r] : ~CorpusExceeds(r, e)
    BY <1>2, <1>6, <1>4
  <2>3. (\E e \in envs[r] : ~CorpusExceeds(r, e))'
    BY <1>1, <2>2 DEF CorpusExceeds
  <2>4. Progress(r)'
    BY <1>1, <2>1 DEF Inv, Progress
  <2>5. Checked(r)'
    <3>1. /\ (\E e \in envs[r] : e.key = msg[r].key /\ e.key \notin {NoKey, OddKey})'
          /\ (\E e \in envs[r] : ~BodyExceeds(r, e))'
      BY <1>1 DEF Inv, Checked, BodyExceeds
    <3>2. reply'[r].status = 0
      BY <1>2, <2>1
    <3>. QED BY <2>1, <2>3, <3>1, <3>2 DEF Checked, BadFields
  <2>. QED BY <1>1, <1>6, <2>4, <2>5, ProceedStep DEF Labels
<1>. QED BY <1>5, <1>6 DEF CheckCorpus

LEMMA BuildStoreInv ==
  ASSUME Inv, NEW r \in Requests, BuildStore(r)
  PROVE  Inv'
<1> DEFINE new == [docs |-> msg[r].docs, store |-> msg[r].docs]
<1>1. /\ pc[r] = "build" /\ pc' = [pc EXCEPT ![r] = "publish"]
      /\ mine' = [mine EXCEPT ![r] = new]
      /\ UNCHANGED <<index, env, msg, reply, envs, indexes>>
  BY DEF BuildStore, Goto
<1>2. msg[r] \in Accepted
  BY <1>1 DEF Inv, Progress
<1>3. new \in Snapshots /\ new # NoIndex
  BY <1>2 DEF Snapshots, NoIndex, Accepted
<1>4. TypeInv'
  BY <1>1, <1>3 DEF TypeInv, Inv, Labels
<1>5. \A q \in Requests \ {r} : Progress(q)' /\ Checked(q)'
  BY <1>1, OthersStay DEF TypeInv, Inv
<1>6. pc'[r] = "publish" /\ mine'[r] = new
  BY <1>1 DEF TypeInv, Inv
<1>7. Progress(r)'
  BY <1>1, <1>3, <1>6 DEF Progress, Inv
<1>8. Checked(r)'
  BY <1>1, <1>6 DEF Checked, Inv, BadFields, BodyExceeds, CorpusExceeds
<1>. QED BY <1>4, <1>5, <1>7, <1>8 DEF Inv

\* What is published is a corpus, which every request under way then has met.
LEMMA PublishInv ==
  ASSUME Inv, NEW r \in Requests, Publish(r)
  PROVE  Inv'
<1>1. /\ pc[r] = "publish" /\ index' = mine[r] /\ UNCHANGED <<env, msg, envs>>
      /\ Respond(r, 201, << >>)
      /\ indexes' = [q \in Requests |-> IF q \in Active THEN indexes[q] \cup {index'} ELSE indexes[q]]
  BY DEF Publish
<1>2. index' \in Snapshots /\ index' # NoIndex
  BY <1>1 DEF Inv, TypeInv, Progress
<1>3. /\ pc' = [pc EXCEPT ![r] = "done"] /\ mine' = [mine EXCEPT ![r] = NoIndex]
      /\ DOMAIN reply' = Requests /\ reply'[r].status = 201
      /\ \A q \in Requests \ {r} : reply'[q] = reply[q]
      /\ pc' \in [Requests -> Labels] /\ mine' \in [Requests -> Snapshots]
  BY <1>1, RespondEffect DEF Inv
<1>4. indexes' \in [Requests -> SUBSET Snapshots]
  BY <1>1, <1>2 DEF Inv, TypeInv
<1>5. TypeInv'
  BY <1>1, <1>2, <1>3, <1>4 DEF TypeInv, Inv
<1>6. \A q \in Requests :
        indexes'[q] = IF pc[q] \notin {"new", "done"} THEN indexes[q] \cup {index'} ELSE indexes[q]
  BY <1>1 DEF Active
<1>7. ASSUME NEW q \in Requests \ {r} PROVE Progress(q)' /\ Checked(q)'
  <2>1. /\ pc'[q] = pc[q] /\ msg'[q] = msg[q] /\ mine'[q] = mine[q] /\ reply'[q] = reply[q]
        /\ envs'[q] = envs[q] /\ env' = env
    BY <1>1, <1>3 DEF TypeInv, Inv
  <2>. QED BY <1>2, <1>6, <2>1, OthersStay
<1>8. pc'[r] = "done"
  BY <1>3 DEF Inv, TypeInv
<1>9. Progress(r)'
  BY <1>8 DEF Progress
<1>10. Checked(r)'
  BY <1>1, <1>2, <1>3, <1>8 DEF Checked, Inv, BadFields, BodyExceeds, CorpusExceeds
<1>. QED BY <1>5, <1>7, <1>9, <1>10 DEF Inv

LEMMA TakeSnapshotInv ==
  ASSUME Inv, NEW r \in Requests, TakeSnapshot(r)
  PROVE  Inv'
<1>1. pc[r] = "query" /\ UNCHANGED <<env, msg, envs>>
  BY DEF TakeSnapshot
<1>2. CASE index = NoIndex /\ Refuse(r, 409)
  BY <1>1, <1>2, RefuseStep
<1>3. CASE index # NoIndex /\ mine' = [mine EXCEPT ![r] = index] /\ Goto(r, "search")
           /\ UNCHANGED <<index, indexes, reply>>
  <2>1. pc' = [pc EXCEPT ![r] = "search"]
    BY <1>3 DEF Goto
  <2>2. TypeInv'
    BY <1>1, <1>3, <2>1 DEF TypeInv, Inv, Labels
  <2>3. \A q \in Requests \ {r} : Progress(q)' /\ Checked(q)'
    BY <1>1, <1>3, <2>1, OthersStay DEF TypeInv, Inv
  <2>4. pc'[r] = "search" /\ mine'[r] = index
    BY <1>3, <2>1 DEF TypeInv, Inv
  <2>5. Progress(r)'
    BY <1>1, <1>3, <2>4 DEF Progress, Inv
  <2>6. Checked(r)'
    BY <1>1, <1>3, <2>4 DEF Checked, Inv, BadFields, BodyExceeds, CorpusExceeds
  <2>. QED BY <2>2, <2>3, <2>5, <2>6 DEF Inv
<1>. QED BY <1>2, <1>3 DEF TakeSnapshot

LEMMA SearchInv ==
  ASSUME Inv, NEW r \in Requests, Search(r)
  PROVE  Inv'
<1>1. pc[r] = "search" /\ UNCHANGED <<index, env, msg, envs, indexes>>
  BY DEF Search
<1>2. PICK status, docs : status \in {200, 500} /\ Respond(r, status, docs)
  BY DEF Search
<1>3. /\ pc' = [pc EXCEPT ![r] = "done"] /\ mine' = [mine EXCEPT ![r] = NoIndex]
      /\ DOMAIN reply' = Requests /\ reply'[r].status = status
      /\ \A q \in Requests \ {r} : reply'[q] = reply[q]
      /\ pc' \in [Requests -> Labels] /\ mine' \in [Requests -> Snapshots]
  BY <1>2, RespondEffect DEF Inv
<1>4. TypeInv'
  BY <1>1, <1>3 DEF TypeInv, Inv
<1>5. \A q \in Requests \ {r} : Progress(q)' /\ Checked(q)'
  BY <1>1, <1>3, OthersStay DEF TypeInv, Inv
<1>6. pc'[r] = "done"
  BY <1>3 DEF Inv, TypeInv
<1>7. Progress(r)'
  BY <1>6 DEF Progress
<1>8. Checked(r)'
  BY <1>1, <1>2, <1>3, <1>6 DEF Checked, Inv, BadFields, BodyExceeds, CorpusExceeds
<1>. QED BY <1>4, <1>5, <1>7, <1>8 DEF Inv

\* The invariant is inductive.
LEMMA Invariant == Spec => []Inv
<1>1. Init => Inv
  <2>. SUFFICES ASSUME Init PROVE Inv
    OBVIOUS
  <2>1. TypeInv
    BY DEF Init, TypeInv, Snapshots, Labels
  <2>2. \A r \in Requests : pc[r] = "new" /\ reply[r].status = 0
    BY DEF Init, NoReply
  <2>. QED BY <2>1, <2>2 DEF Inv, Progress, Checked, BadFields
<1>2. Inv /\ [Next]_vars => Inv'
  <2>. SUFFICES ASSUME Inv, [Next]_vars PROVE Inv'
    OBVIOUS
  <2>1. CASE EnvironmentChanges
    BY <2>1, EnvironmentChangesInv
  <2>2. ASSUME NEW r \in Requests,
               \/ Arrive(r) \/ BoundBody(r) \/ RefuseGarbled(r) \/ RequireKey(r) \/ CheckCorpus(r)
               \/ BuildStore(r) \/ Publish(r) \/ TakeSnapshot(r) \/ Search(r)
        PROVE  Inv'
    BY <2>2, ArriveInv, BoundBodyInv, RefuseGarbledInv, RequireKeyInv, CheckCorpusInv,
       BuildStoreInv, PublishInv, TakeSnapshotInv, SearchInv
  <2>3. CASE UNCHANGED vars
    BY <2>3 DEF vars, Inv, TypeInv, Progress, Checked, BadFields, BodyExceeds, CorpusExceeds
  <2>. QED BY <2>1, <2>2, <2>3 DEF Next
<1>. QED BY <1>1, <1>2, PTL DEF Spec

-----------------------------------------------------------------------------

\* Whoever gets past the key check has sent a key that was configured while the
\* request was being served, for any messages and environments.
THEOREM OnlyKeysGetThrough == Spec => []OnlyKeyHoldersGetThrough
<1>1. Inv => OnlyKeyHoldersGetThrough
  BY DEF Inv, Checked, OnlyKeyHoldersGetThrough
<1>. QED BY <1>1, Invariant, PTL

\* No corpus is accepted, and no body read, beyond a bound that was in force, and none
\* is refused as too large but beyond one: the positive number that its variable held
\* while the request was being served, or the default if it held anything else.
THEOREM BoundsHold == Spec => []BoundsAreKept
<1>1. Inv => AcceptedWithinBounds
  BY DEF Inv, Checked, AcceptedWithinBounds
<1>2. Inv => RefusedBeyondBounds
  BY DEF Inv, Checked, RefusedBeyondBounds
<1>. QED BY <1>1, <1>2, Invariant, PTL DEF BoundsAreKept

\* From the first accepted corpus on there is one at every moment.
THEOREM CorpusStays == Spec => []NotReadyOnlyBeforeFirstCorpus
<1>1. Inv => NotReadyOnlyBeforeFirstCorpus
  BY DEF Inv, Checked, NotReadyOnlyBeforeFirstCorpus
<1>. QED BY <1>1, Invariant, PTL

\* Every request is at a step of its endpoint, and documents stay with their store.
THEOREM TypeCorrect == Spec => []TypeOK
<1>1. ASSUME Inv, NEW r \in Requests
      PROVE  /\ pc[r] \in {"index", "build", "publish"} => msg[r].op = "index"
             /\ pc[r] \in {"query", "search"} => msg[r].op = "query"
             /\ mine[r].docs = mine[r].store
  BY <1>1, SnapshotsPair DEF Inv, TypeInv, Progress, Accepted
<1>2. Inv => index.docs = index.store
  BY SnapshotsPair DEF Inv, TypeInv
<1>3. Inv => TypeOK
  BY <1>1, <1>2 DEF Inv, TypeInv, TypeOK
<1>. QED BY <1>3, Invariant, PTL

-----------------------------------------------------------------------------

Answered(r) ==
  reply[r].status \in {200, 500} =>
    \E i \in indexes[r] \ {NoIndex} : \E rows \in Found(msg[r], i) :
      reply[r].docs = [n \in DOMAIN rows |-> i.docs[rows[n]]] /\ rows # << >>

\* A store finds at least one row, and only rows that have a document.
LEMMA FoundRowsHaveDocs ==
  ASSUME NEW s \in Snapshots \ {NoIndex}, NEW m, m.k \in Int, m.k >= 1,
         NEW rows \in Found(m, s)
  PROVE  rows # << >> /\ \A n \in DOMAIN rows : rows[n] \in DOMAIN s.docs
<1>1. PICK a \in Accepted : s = [docs |-> a.docs, store |-> a.docs]
  BY DEF Snapshots
<1> DEFINE len == Len(a.docs)
           width == Smaller(Smaller(m.k, len), len)
<1>2. len \in Nat \ {0} /\ DOMAIN a.docs = 1..len
  BY AcceptedHasDocs
<1>3. width \in Nat \ {0}
  BY <1>2 DEF Smaller
<1>4. rows \in [1..width -> 1..len]
  BY <1>1 DEF Found, Best, Size
<1>5. rows[1] \in 1..len /\ 1 \in DOMAIN rows
  BY <1>3, <1>4
<1>6. rows # << >>
  BY <1>5
<1>. QED BY <1>1, <1>2, <1>4, <1>6

\* The answer of a search is that of the snapshot that the request took.
LEMMA SearchAnswers ==
  ASSUME Inv, NEW r \in Requests, Search(r)
  PROVE  Answered(r)'
<1>1. /\ pc[r] = "search" /\ UNCHANGED <<msg, indexes>>
      /\ mine[r] \in Snapshots \ {NoIndex} /\ mine[r] \in indexes[r] \ {NoIndex}
      /\ msg[r] \in Messages /\ msg[r].op = "query" /\ msg[r].k >= 1
  BY DEF Search, Inv, TypeInv, Progress
<1>2. msg[r].k \in Int
  BY <1>1, MessagesAssumption
<1>3. PICK rows \in Found(msg[r], mine[r]) :
        IF \A n \in DOMAIN rows : rows[n] \in DOMAIN mine[r].docs
        THEN Respond(r, 200, [n \in DOMAIN rows |-> mine[r].docs[rows[n]]])
        ELSE Respond(r, 500, << >>)
  BY DEF Search
<1>4. rows # << >> /\ \A n \in DOMAIN rows : rows[n] \in DOMAIN mine[r].docs
  BY <1>1, <1>2, FoundRowsHaveDocs
<1>5. Respond(r, 200, [n \in DOMAIN rows |-> mine[r].docs[rows[n]]])
  BY <1>3, <1>4
<1>6. reply'[r].docs = [n \in DOMAIN rows |-> mine[r].docs[rows[n]]]
  BY <1>5, RespondEffect DEF Inv
<1>7. \E i \in indexes'[r] \ {NoIndex} : \E s \in Found(msg'[r], i) :
        reply'[r].docs = [n \in DOMAIN s |-> i.docs[s[n]]] /\ s # << >>
  BY <1>1, <1>4, <1>6
<1>. QED BY <1>7 DEF Answered, NoIndex

\* An answer that was given stays the answer of a corpus.
LEMMA AnswersStay ==
  ASSUME Inv, Inv', [Next]_vars, NEW q \in Requests, Answered(q)
  PROVE  Answered(q)'
<1>1. CASE reply'[q].status \notin {200, 500}
  BY <1>1 DEF Answered
<1>2. CASE /\ reply'[q] = reply[q] /\ indexes[q] \subseteq indexes'[q]
           /\ \/ msg'[q] = msg[q]
              \/ reply[q].status = 0
  <2>. SUFFICES ASSUME reply[q].status \in {200, 500} PROVE Answered(q)'
    BY <1>1, <1>2
  <2>1. msg'[q] = msg[q]
    BY <1>2
  <2>2. PICK i \in indexes[q] \ {NoIndex} : \E rows \in Found(msg[q], i) :
          reply[q].docs = [n \in DOMAIN rows |-> i.docs[rows[n]]] /\ rows # << >>
    BY DEF Answered
  <2>. QED BY <1>2, <2>1, <2>2 DEF Answered, NoIndex
<1>3. CASE EnvironmentChanges
  BY <1>2, <1>3 DEF EnvironmentChanges
<1>4. ASSUME NEW r \in Requests, Arrive(r) PROVE Answered(q)'
  <2>1. /\ pc[r] = "new" /\ reply' = reply
        /\ \E m \in Messages : msg' = [msg EXCEPT ![r] = m]
        /\ indexes' = [indexes EXCEPT ![r] = {index}]
    BY <1>4 DEF Arrive
  <2>2. CASE q = r
    <3>1. reply'[q].status = 0
      BY <2>1, <2>2 DEF Inv, Progress
    <3>. QED BY <1>1, <3>1
  <2>3. CASE q # r
    <3>1. msg'[q] = msg[q] /\ indexes'[q] = indexes[q]
      BY <2>1, <2>3 DEF Inv, TypeInv
    <3>. QED BY <1>2, <2>1, <3>1
  <2>. QED BY <2>2, <2>3
<1>5. ASSUME NEW r \in Requests,
             NEW status, NEW docs, Respond(r, status, docs), status \notin {200, 500},
             msg' = msg, indexes[q] \subseteq indexes'[q]
      PROVE  Answered(q)'
  <2>1. reply'[r].status = status /\ (q # r => reply'[q] = reply[q])
    BY <1>5, RespondEffect DEF Inv
  <2>. QED BY <1>1, <1>2, <1>5, <2>1
<1>6. ASSUME NEW r \in Requests, NEW status, Refuse(r, status), status \notin {200, 500}, msg' = msg
      PROVE  Answered(q)'
  BY <1>5, <1>6 DEF Refuse
<1>7. ASSUME UNCHANGED <<reply, msg, indexes>> PROVE Answered(q)'
  BY <1>2, <1>7
<1>8. ASSUME NEW r \in Requests, NEW label, Proceed(r, label), msg' = msg PROVE Answered(q)'
  BY <1>7, <1>8 DEF Proceed
<1>9. ASSUME NEW r \in Requests, BoundBody(r) PROVE Answered(q)'
  BY <1>6, <1>8, <1>9 DEF BoundBody
<1>10. ASSUME NEW r \in Requests, RefuseGarbled(r) \/ RequireKey(r) PROVE Answered(q)'
  BY <1>6, <1>8, <1>10 DEF RefuseGarbled, RequireKey
<1>11. ASSUME NEW r \in Requests, CheckCorpus(r) PROVE Answered(q)'
  BY <1>6, <1>8, <1>11 DEF CheckCorpus
<1>12. ASSUME NEW r \in Requests, BuildStore(r) PROVE Answered(q)'
  BY <1>7, <1>12 DEF BuildStore
<1>13. ASSUME NEW r \in Requests, Publish(r) PROVE Answered(q)'
  <2>1. indexes[q] \subseteq indexes'[q] /\ Respond(r, 201, << >>) /\ msg' = msg
    BY <1>13 DEF Publish
  <2>. QED BY <1>5, <2>1
<1>14. ASSUME NEW r \in Requests, TakeSnapshot(r) PROVE Answered(q)'
  <2>1. msg' = msg /\ (Refuse(r, 409) \/ UNCHANGED <<index, indexes, reply>>)
    BY <1>14 DEF TakeSnapshot
  <2>. QED BY <1>6, <1>7, <2>1
<1>15. ASSUME NEW r \in Requests, Search(r) PROVE Answered(q)'
  <2>1. msg' = msg /\ indexes' = indexes
    BY <1>15 DEF Search
  <2>2. PICK status, docs : Respond(r, status, docs)
    BY <1>15 DEF Search
  <2>3. CASE q = r
    BY <1>15, <2>3, SearchAnswers
  <2>4. CASE q # r
    BY <1>2, <2>1, <2>2, <2>4, RespondEffect DEF Inv
  <2>. QED BY <2>3, <2>4
<1>16. CASE UNCHANGED vars
  BY <1>7, <1>16 DEF vars
<1>. QED BY <1>3, <1>4, <1>9, <1>10, <1>11, <1>12, <1>13, <1>14, <1>15, <1>16 DEF Next

\* "/query cannot read a new store paired with stale docs and IndexError": for any
\* corpora, similarities and messages, however many requests overlap.
THEOREM AnswersAreOfOneCorpus == Spec => []AnswersComeFromOneCorpus
<1>1. Init => \A r \in Requests : Answered(r)
  BY DEF Init, Answered, NoReply
<1>2. Inv /\ Inv' /\ (\A r \in Requests : Answered(r)) /\ [Next]_vars
        => (\A r \in Requests : Answered(r))'
  BY AnswersStay
<1>3. (\A r \in Requests : Answered(r)) => AnswersComeFromOneCorpus
  BY DEF Answered, AnswersComeFromOneCorpus
<1>. QED BY <1>1, <1>2, <1>3, Invariant, PTL DEF Spec


-----------------------------------------------------------------------------
(* The abstract service                                                    *)

\* A request that has not come says nothing, one that is not over has no reply, and a
\* store that is about to be published is that of the request's own documents.
Untouched(r) == /\ pc[r] = "new" => msg[r] = NoMessage
                /\ pc[r] # "done" => reply[r] = NoReply
                /\ pc[r] = "publish" => mine[r].docs = msg[r].docs

\* What one step of request r may do to it.
LEMMA UntouchedStep ==
  Inv /\ (\A r \in Requests : Untouched(r)) /\ [Next]_vars => (\A r \in Requests : Untouched(r))'
<1>. SUFFICES ASSUME Inv, \A r \in Requests : Untouched(r), [Next]_vars, NEW q \in Requests
              PROVE  Untouched(q)'
  OBVIOUS
<1>1. CASE UNCHANGED <<pc, msg, reply, mine>>
  BY <1>1 DEF Untouched
<1>2. ASSUME NEW r \in Requests, NEW status, NEW docs, Respond(r, status, docs), msg' = msg
      PROVE  Untouched(q)'
  <2>1. /\ pc' = [pc EXCEPT ![r] = "done"] /\ mine' = [mine EXCEPT ![r] = NoIndex]
        /\ \A u \in Requests \ {r} : reply'[u] = reply[u]
    BY <1>2, RespondEffect DEF Inv
  <2>. QED BY <1>2, <2>1 DEF Untouched, Inv, TypeInv
<1>3. ASSUME NEW r \in Requests, NEW status, Refuse(r, status), msg' = msg PROVE Untouched(q)'
  BY <1>2, <1>3 DEF Refuse
<1>4. ASSUME NEW r \in Requests, NEW label, pc[r] \notin {"new", "done"}, label \notin {"new", "publish"},
             pc' = [pc EXCEPT ![r] = label], msg' = msg, reply' = reply,
             \A u \in Requests \ {r} : mine'[u] = mine[u]
      PROVE  Untouched(q)'
  BY <1>4 DEF Untouched, Inv, TypeInv
<1>5. ASSUME NEW r \in Requests, NEW label, Proceed(r, label), pc[r] \notin {"new", "done"},
             label \notin {"new", "publish"}, msg' = msg
      PROVE  Untouched(q)'
  BY <1>4, <1>5 DEF Proceed, Goto
<1>6. ASSUME NEW r \in Requests, Arrive(r) PROVE Untouched(q)'
  BY <1>6 DEF Arrive, Goto, Untouched, Inv, TypeInv
<1>7. ASSUME NEW r \in Requests, BoundBody(r) PROVE Untouched(q)'
  BY <1>3, <1>5, <1>7 DEF BoundBody
<1>8. ASSUME NEW r \in Requests, RequireKey(r) PROVE Untouched(q)'
  <2>1. pc[r] = "key" /\ msg' = msg /\ msg[r].op # "garbled"
    BY <1>8 DEF RequireKey
  <2>2. msg[r].op \notin {"new", "publish"}
    BY <2>1, Underway, MessagesAssumption
  <2>. QED BY <1>3, <1>5, <1>8, <2>1, <2>2 DEF RequireKey
<1>9. ASSUME NEW r \in Requests, CheckCorpus(r) PROVE Untouched(q)'
  BY <1>3, <1>5, <1>9 DEF CheckCorpus
<1>10. ASSUME NEW r \in Requests, BuildStore(r) PROVE Untouched(q)'
  BY <1>10 DEF BuildStore, Goto, Untouched, Inv, TypeInv
<1>11. ASSUME NEW r \in Requests, Publish(r) PROVE Untouched(q)'
  BY <1>2, <1>11 DEF Publish
<1>12. ASSUME NEW r \in Requests, TakeSnapshot(r) PROVE Untouched(q)'
  <2>1. pc[r] = "query" /\ msg' = msg
    BY <1>12 DEF TakeSnapshot
  <2>2. CASE Refuse(r, 409)
    BY <1>3, <2>1, <2>2
  <2>3. CASE mine' = [mine EXCEPT ![r] = index] /\ Goto(r, "search") /\ reply' = reply
    BY <1>4, <2>1, <2>3 DEF Goto, Inv, TypeInv
  <2>. QED BY <1>12, <2>2, <2>3 DEF TakeSnapshot
<1>13. ASSUME NEW r \in Requests, Search(r) PROVE Untouched(q)'
  BY <1>2, <1>13 DEF Search
<1>14. CASE EnvironmentChanges \/ UNCHANGED vars
  BY <1>1, <1>14 DEF EnvironmentChanges, vars
<1>15. ASSUME NEW r \in Requests, RefuseGarbled(r) PROVE Untouched(q)'
  BY <1>3, <1>15 DEF RefuseGarbled
<1>. QED
  BY <1>6, <1>7, <1>8, <1>9, <1>10, <1>11, <1>12, <1>13, <1>14, <1>15 DEF Next

LEMMA UntouchedUntilTheirTurn == Spec => [](\A r \in Requests : Untouched(r))
<1>1. Init => \A r \in Requests : Untouched(r)
  BY DEF Init, Untouched
<1>. QED BY <1>1, Invariant, UntouchedStep, PTL DEF Spec

\* The corpora that queries hold, in the abstract.
Seen == [r \in Requests |-> Taken(r)]

\* Only from and to the search does what a query holds change.
LEMMA SeenStays ==
  ASSUME TypeInv, NEW r \in Requests, NEW label, label # "search", pc[r] # "search",
         pc' = [pc EXCEPT ![r] = label], \A q \in Requests \ {r} : mine'[q] = mine[q]
  PROVE  Seen' = Seen
<1>1. \A q \in Requests : Taken(q)' = Taken(q)
  BY DEF Taken, TypeInv
<1>. QED BY <1>1 DEF Seen

\* A request that is not over, nor in its search, can be answered.
LEMMA PendingIs ==
  ASSUME Inv, NEW r \in Requests, Untouched(r), pc[r] \notin {"new", "search", "done"}
  PROVE  Corpus!Pending(r)
<1>1. msg[r] \in Messages
  BY Underway
<1>2. msg[r] # Corpus!NoMessage
  <2>1. msg[r].op \in {"index", "query", "garbled"}
    BY <1>1, MessagesAssumption
  <2>2. Corpus!NoMessage.op = "none"
    BY DEF Corpus!NoMessage
  <2>. QED BY <2>1, <2>2
<1>3. reply[r] = Corpus!NoReply
  BY DEF Untouched, NoReply, Corpus!NoReply
<1>4. [q \in Requests |-> Taken(q)][r] = << >>
  BY DEF Taken
<1>. QED BY <1>2, <1>3, <1>4 DEF Corpus!Pending

\* A response, in the abstract.
LEMMA RespondReplies ==
  ASSUME NEW r \in Requests, NEW status, NEW docs, Respond(r, status, docs)
  PROVE  Corpus!Replies(r, status, docs)
BY DEF Respond, Corpus!Replies

\* A response that is not a search's leaves what queries hold.
LEMMA SeenOutlastsReplies ==
  ASSUME Inv, NEW r \in Requests, pc[r] # "search", NEW status, NEW docs,
         Respond(r, status, docs)
  PROVE  Seen' = Seen
<1>1. pc' = [pc EXCEPT ![r] = "done"] /\ mine' = [mine EXCEPT ![r] = NoIndex]
  BY DEF Respond, Goto
<1>2. \A q \in Requests \ {r} : mine'[q] = mine[q]
  BY <1>1 DEF Inv, TypeInv
<1>. QED BY <1>1, <1>2, SeenStays DEF Inv

\* A refusal turns a request away.
LEMMA RefuseTurnsAway ==
  ASSUME Inv, NEW r \in Requests, Untouched(r), pc[r] \notin {"new", "search", "done"},
         NEW status \in {400, 401, 411, 413, 422, 503}, Refuse(r, status), msg' = msg
  PROVE  Corpus!TurnAway(r)
<1>1. Corpus!Pending(r)
  BY PendingIs
<1>2. Respond(r, status, << >>) /\ index' = index
  BY DEF Refuse
<1>3. Corpus!Replies(r, status, << >>)
  BY <1>2, RespondReplies
<1>4. Seen' = Seen
  BY <1>2, SeenOutlastsReplies
<1>5. \E code \in {400, 401, 411, 413, 422, 503} : Corpus!Replies(r, code, << >>)
  BY <1>3
<1>. QED BY <1>1, <1>2, <1>4, <1>5 DEF Corpus!TurnAway, Seen

\* What the snapshot's store finds is the best of its documents.
LEMMA FoundIsBest ==
  ASSUME NEW s \in Snapshots \ {NoIndex}, NEW m, m.k \in Int
  PROVE  Found(m, s) = Corpus!Best([rows |-> s.docs], m.query, Smaller(m.k, Len(s.docs)))
<1>1. PICK a \in Accepted : s = [docs |-> a.docs, store |-> a.docs]
  BY DEF Snapshots
<1>2. Len(a.docs) \in Nat
  BY AcceptedHasDocs
<1> DEFINE c == [rows |-> a.docs]
<1>3. Smaller(Smaller(m.k, Len(a.docs)), Size(c)) = Smaller(m.k, Len(a.docs))
  BY <1>2 DEF Smaller, Size
<1>4. \A width : Best(c, m.query, width) = Corpus!Best(c, m.query, width)
  BY DEF Best, Corpus!Best, Size, Corpus!Size, Score, Corpus!Score
<1>. QED BY <1>1, <1>3, <1>4 DEF Found

\* A search answers.
LEMMA SearchIsAnswer ==
  ASSUME Inv, NEW r \in Requests, Search(r)
  PROVE  Corpus!Answer(r)
<1>1. /\ pc[r] = "search" /\ UNCHANGED <<msg, index>>
      /\ mine[r] \in Snapshots \ {NoIndex}
      /\ msg[r] \in Messages /\ msg[r].op = "query" /\ msg[r].k >= 1
  BY DEF Search, Inv, TypeInv, Progress
<1>2. msg[r].k \in Int
  BY <1>1, MessagesAssumption
<1>3. PICK rows \in Found(msg[r], mine[r]) :
        IF \A n \in DOMAIN rows : rows[n] \in DOMAIN mine[r].docs
        THEN Respond(r, 200, [n \in DOMAIN rows |-> mine[r].docs[rows[n]]])
        ELSE Respond(r, 500, << >>)
  BY DEF Search
<1>4. \A n \in DOMAIN rows : rows[n] \in DOMAIN mine[r].docs
  BY <1>1, <1>2, FoundRowsHaveDocs
<1>5. Respond(r, 200, [n \in DOMAIN rows |-> mine[r].docs[rows[n]]])
  BY <1>3, <1>4
<1>6. Seen[r] = mine[r].docs /\ mine[r].docs # << >>
  BY <1>1 DEF Seen, Taken, Snapshots, Accepted
<1>7. Corpus!Replies(r, 200, [n \in DOMAIN rows |-> Seen[r][rows[n]]])
  BY <1>5, <1>6, RespondReplies
<1>8. rows \in Corpus!Best([rows |-> Seen[r]], msg[r].query,
                           Corpus!Smaller(msg[r].k, Len(Seen[r])))
  BY <1>1, <1>2, <1>3, <1>6, FoundIsBest DEF Smaller, Corpus!Smaller
<1>9. Seen' = [Seen EXCEPT ![r] = << >>]
  <2>1. pc' = [pc EXCEPT ![r] = "done"] /\ mine' = [mine EXCEPT ![r] = NoIndex]
    BY <1>5 DEF Respond, Goto
  <2>2. \A q \in Requests : Taken(q)' = IF q = r THEN << >> ELSE Taken(q)
    BY <2>1 DEF Taken, Inv, TypeInv
  <2>. QED BY <2>2 DEF Seen
<1>. QED
  BY <1>1, <1>6, <1>7, <1>8, <1>9 DEF Corpus!Answer, Seen

\* The assignment to _index accepts the corpus.
LEMMA PublishIsAccept ==
  ASSUME Inv, NEW r \in Requests, Untouched(r), Publish(r)
  PROVE  Corpus!Accept(r)
<1>1. pc[r] = "publish" /\ index' = mine[r] /\ msg' = msg /\ Respond(r, 201, << >>)
  BY DEF Publish
<1>2. Corpus!Pending(r)
  BY <1>1, PendingIs
<1>3. msg[r] \in Accepted /\ index'.docs = msg[r].docs
  BY <1>1 DEF Inv, Progress, Untouched
<1>4. Corpus!Replies(r, 201, << >>)
  BY <1>1, RespondReplies
<1>5. Seen' = Seen
  BY <1>1, SeenOutlastsReplies
<1>. QED
  BY <1>1, <1>2, <1>3, <1>4, <1>5 DEF Corpus!Accept, Accepted, Seen

\* The single read of _index is the instant of a query.
LEMMA TakeSnapshotIsLook ==
  ASSUME Inv, NEW r \in Requests, Untouched(r), TakeSnapshot(r)
  PROVE  Corpus!Look(r)
<1>1. pc[r] = "query" /\ msg' = msg /\ msg[r].op = "query"
  BY DEF TakeSnapshot, Inv, Progress
<1>2. Corpus!Pending(r)
  BY <1>1, PendingIs
<1>3. index = NoIndex <=> index.docs = << >>
  BY DEF Inv, TypeInv, Snapshots, Accepted, NoIndex
<1>4. CASE index = NoIndex /\ Refuse(r, 409)
  <2>1. Respond(r, 409, << >>) /\ index' = index
    BY <1>4 DEF Refuse
  <2>2. Corpus!Replies(r, 409, << >>)
    BY <2>1, RespondReplies
  <2>3. Seen' = Seen
    BY <1>1, <2>1, SeenOutlastsReplies
  <2>. QED BY <1>1, <1>2, <1>3, <1>4, <2>1, <2>2, <2>3 DEF Corpus!Look, Seen
<1>5. CASE index # NoIndex /\ mine' = [mine EXCEPT ![r] = index] /\ Goto(r, "search")
           /\ UNCHANGED <<index, reply>>
  <2>1. \A q \in Requests : Taken(q)' = IF q = r THEN index.docs ELSE Taken(q)
    BY <1>5 DEF Goto, Taken, Inv, TypeInv
  <2>2. Seen' = [Seen EXCEPT ![r] = index.docs]
    BY <2>1 DEF Seen
  <2>. QED BY <1>1, <1>2, <1>3, <1>5, <2>2 DEF Corpus!Look, Seen
<1>. QED BY <1>4, <1>5 DEF TakeSnapshot

\* A request that comes asks.
LEMMA ArriveIsAsk ==
  ASSUME Inv, NEW r \in Requests, Untouched(r), Arrive(r)
  PROVE  Corpus!Ask(r)
<1>1. /\ msg[r] = NoMessage /\ \E m \in Messages : msg' = [msg EXCEPT ![r] = m]
      /\ UNCHANGED <<index, reply>>
  BY DEF Arrive, Untouched
<1>2. Seen' = Seen
  BY SeenStays DEF Arrive, Goto, Inv
<1>. QED BY <1>1, <1>2 DEF Corpus!Ask, NoMessage, Corpus!NoMessage, Seen

\* Each step is one of the abstract service, or none.
LEMMA ServiceStep ==
  Inv /\ (\A r \in Requests : Untouched(r)) /\ [Next]_vars => [Corpus!Next]_(Corpus!vars)
<1>. SUFFICES ASSUME Inv, \A r \in Requests : Untouched(r), [Next]_vars
              PROVE  Corpus!Next \/ UNCHANGED <<index.docs, msg, Seen, reply>>
  BY DEF Corpus!vars, Seen
<1>1. ASSUME NEW r \in Requests, NEW label, Proceed(r, label), label # "search",
             pc[r] # "search", msg' = msg
      PROVE  UNCHANGED <<index.docs, msg, Seen, reply>>
  BY <1>1, SeenStays DEF Proceed, Goto, Inv
<1>2. ASSUME NEW r \in Requests, BoundBody(r)
      PROVE  Corpus!TurnAway(r) \/ UNCHANGED <<index.docs, msg, Seen, reply>>
  BY <1>1, <1>2, RefuseTurnsAway DEF BoundBody
<1>3. ASSUME NEW r \in Requests, RequireKey(r)
      PROVE  Corpus!TurnAway(r) \/ UNCHANGED <<index.docs, msg, Seen, reply>>
  <2>1. pc[r] = "key" /\ msg' = msg /\ msg[r].op # "garbled"
    BY <1>3 DEF RequireKey
  <2>2. msg[r].op # "search"
    BY <2>1, Underway, MessagesAssumption
  <2>. QED BY <1>1, <1>3, <2>1, <2>2, RefuseTurnsAway DEF RequireKey
<1>4. ASSUME NEW r \in Requests, CheckCorpus(r)
      PROVE  Corpus!TurnAway(r) \/ UNCHANGED <<index.docs, msg, Seen, reply>>
  BY <1>1, <1>4, RefuseTurnsAway DEF CheckCorpus
<1>5. ASSUME NEW r \in Requests, BuildStore(r)
      PROVE  UNCHANGED <<index.docs, msg, Seen, reply>>
  BY <1>5, SeenStays DEF BuildStore, Goto, Inv, TypeInv
<1>6. CASE EnvironmentChanges \/ UNCHANGED vars
  <2>1. UNCHANGED <<index, pc, msg, mine, reply>>
    BY <1>6 DEF EnvironmentChanges, vars
  <2>. QED BY <2>1 DEF Seen, Taken
<1>7. ASSUME NEW r \in Requests, RefuseGarbled(r) PROVE Corpus!TurnAway(r)
  BY <1>7, RefuseTurnsAway DEF RefuseGarbled
<1>. QED
  BY <1>2, <1>3, <1>4, <1>5, <1>6, <1>7, ArriveIsAsk, PublishIsAccept, TakeSnapshotIsLook,
     SearchIsAnswer
     DEF Next, Corpus!Next

\* However requests overlap, each is answered as if it had been served alone at one
\* instant: serve implements CorpusService, for any requests, corpora, similarities and
\* environments.
THEOREM RequestsTakeEffectAtOnce == Spec => ImplementsCorpusService
<1>1. Init => Corpus!Init
  <2>. SUFFICES ASSUME Init PROVE Corpus!Init
    OBVIOUS
  <2>1. \A r \in Requests : Taken(r) = << >>
    BY DEF Init, Taken
  <2>. QED
    BY <2>1 DEF Init, Corpus!Init, NoIndex, NoMessage, NoReply, Corpus!NoMessage, Corpus!NoReply
<1>. QED
  BY <1>1, Invariant, UntouchedUntilTheirTurn, ServiceStep, PTL
     DEF Spec, ImplementsCorpusService, Corpus!Spec

=============================================================================
