-------------------------- MODULE VectorStores_proofs --------------------------
(***************************************************************************)
(* Proofs about the store that get_vector_store returns, for any corpora,  *)
(* queries, similarities and stores that share a collection.               *)
(***************************************************************************)
EXTENDS VectorStores, FiniteSetTheorems, WellFoundedInduction, TLAPS

-----------------------------------------------------------------------------
(* The inductive invariant of the Qdrant store                             *)

\* A width that was counted is right until the collection changes.
CountedWidths ==
  \A s \in Stores : pc[s] = "query" =>
    /\ call[s].k >= 1
    /\ ~disturbed[s] => limit[s] = Qdrant!Effective(call[s].k)

\* What the owner finds on the server between two of its requests.
OwnerState(s) ==
  /\ pc[s] = "create" => collection = Qdrant!Missing
  /\ pc[s] = "upsert" => collection = Qdrant!Created(s) /\ dim[s] = collection.dim
  /\ pc[s] = "query"  => /\ collection.dim = call[s].query.dim /\ dim[s] = collection.dim
                         /\ ~disturbed[s]
  /\ collection.rows # << >> =>
       collection \in Corpora /\ (dim[s] # Unset => dim[s] = collection.dim)

\* What it finds if no request ever gets lost.
AnsweredState(s) ==
  ~Qdrant!Adding(s) /\ dim[s] # Unset => collection \in Corpora /\ dim[s] = collection.dim

OwnerInv == \A s \in env.users : env.users = {s} =>
              OwnerState(s) /\ (~env.lossy => AnsweredState(s))

QdrantInv == Qdrant!TypeOK /\ CountedWidths /\ OwnerInv

-----------------------------------------------------------------------------
(* Facts about the arguments of calls                                      *)

\* A call has the arguments of its operation.
LEMMA CallShape ==
  ASSUME NEW c \in Qdrant!Contract!Calls
  PROVE  /\ c.op = "add" => c.corpus \in Corpora
         /\ c.op = "search" => c.query \in Queries /\ c.k \in Ks
         /\ c.op = "none" => c = Qdrant!Contract!NoCall
BY DEF Qdrant!Contract!Calls, Qdrant!Contract!NoCall

\* What add leaves on the server are collections.
LEMMA CorporaAreCollections ==
  \A c \in Corpora : /\ c \in Qdrant!Collections /\ c.dim \in Nat \ {0}
                     /\ [dim |-> c.dim, rows |-> << >>] \in Qdrant!Collections
BY CorporaAssumption DEF Qdrant!Collections, Qdrant!Dims

LEMMA MissingIsNone ==
  /\ Qdrant!Missing \in Qdrant!Collections /\ Qdrant!Missing.rows = << >>
  /\ \A c \in Corpora : c.dim # Qdrant!Missing.dim
BY CorporaAreCollections DEF Qdrant!Missing, Qdrant!Collections

\* An upsert into a collection without rows leaves the corpus itself; any other leaves
\* rows of both.
LEMMA UpsertedShape ==
  ASSUME Qdrant!TypeOK, NEW s \in Stores, pc[s] = "upsert", Qdrant!Upsertable(s)
  PROVE  /\ Qdrant!Upserted(s) \in Qdrant!Collections
         /\ collection = Qdrant!Created(s) => Qdrant!Upserted(s) = call[s].corpus
<1> DEFINE new == call[s].corpus
           old == collection
           merged == [i \in DOMAIN old.rows \cup DOMAIN new.rows |->
                        IF i \in DOMAIN new.rows THEN new.rows[i] ELSE old.rows[i]]
<1>1. new \in Corpora /\ new \in Qdrant!Collections /\ old \in Qdrant!Collections
  <2>1. call[s] \in Qdrant!Contract!Calls /\ call[s].op = "add" /\ old \in Qdrant!Collections
    BY DEF Qdrant!TypeOK, Qdrant!Adding
  <2> QED BY <2>1, CallShape, CorporaAreCollections
<1>2. /\ new = [dim |-> new.dim, rows |-> new.rows] /\ new.rows \in Seq(Qdrant!Vectors)
      /\ old = [dim |-> old.dim, rows |-> old.rows] /\ old.rows \in Seq(Qdrant!Vectors)
      /\ old.dim \in Qdrant!Dims \cup {0}
  BY <1>1 DEF Qdrant!Collections
<1>3. Qdrant!Upserted(s) = [dim |-> old.dim, rows |-> merged]
  BY <1>2 DEF Qdrant!Upserted
<1>4. merged \in Seq(Qdrant!Vectors)
  <2> DEFINE n == IF Len(old.rows) < Len(new.rows) THEN Len(new.rows) ELSE Len(old.rows)
  <2>1. n \in Nat /\ DOMAIN old.rows \cup DOMAIN new.rows = 1..n
    BY <1>2
  <2>2. merged \in [1..n -> Qdrant!Vectors]
    BY <1>2, <2>1
  <2> HIDE DEF merged, n
  <2> QED BY <2>1, <2>2
<1>5. ASSUME collection = Qdrant!Created(s) PROVE merged = new.rows /\ old.dim = new.dim
  <2>1. old.rows = << >> /\ old.dim = new.dim
    BY <1>5 DEF Qdrant!Created
  <2>2. DOMAIN old.rows \cup DOMAIN new.rows = DOMAIN new.rows
    BY <1>2, <2>1
  <2>3. merged = [i \in DOMAIN new.rows |-> new.rows[i]]
    BY <2>2
  <2> QED BY <1>2, <2>1, <2>3
<1> HIDE DEF merged, new, old
<1>6. Qdrant!Upserted(s) \in Qdrant!Collections
  BY <1>2, <1>3, <1>4 DEF Qdrant!Collections
<1> QED BY <1>2, <1>3, <1>5, <1>6 DEF new

-----------------------------------------------------------------------------
(* One step of a Qdrant store                                              *)

\* A step of one of the stores.
StepOf(s) ==
  \/ Qdrant!Begin(s) \/ Qdrant!EndWithoutRequest(s)
  \/ Qdrant!CheckExists(s) \/ Qdrant!Delete(s) \/ Qdrant!Create(s) \/ Qdrant!Upsert(s)
  \/ Qdrant!AddRefused(s)
  \/ Qdrant!Count(s) \/ Qdrant!Query(s) \/ Qdrant!SearchFails(s)
  \/ Qdrant!Drop(s) \/ Qdrant!RequestLost(s)

\* A step leaves the calls of other stores alone, and they notice a change of the
\* collection.
LEMMA OthersStand ==
  ASSUME Qdrant!TypeOK, NEW s \in Stores, StepOf(s), NEW u \in Stores \ {s}
  PROVE  /\ pc'[u] = pc[u] /\ call'[u] = call[u] /\ limit'[u] = limit[u] /\ reply'[u] = reply[u]
         /\ \/ collection' = collection /\ disturbed'[u] = disturbed[u]
            \/ disturbed'[u]
<1>1. /\ DOMAIN pc = Stores /\ DOMAIN call = Stores /\ DOMAIN limit = Stores
      /\ DOMAIN reply = Stores /\ DOMAIN disturbed = Stores /\ u \in Stores /\ u # s
  BY DEF Qdrant!TypeOK
<1>2. ASSUME NEW r, Qdrant!Return(s, r)
      PROVE  pc'[u] = pc[u] /\ call'[u] = call[u] /\ limit'[u] = limit[u] /\ reply'[u] = reply[u]
  BY <1>1, <1>2 DEF Qdrant!Return, Qdrant!Goto
<1>3. ASSUME NEW l, Qdrant!Proceed(s, l)
      PROVE  pc'[u] = pc[u] /\ call'[u] = call[u] /\ reply'[u] = reply[u]
  BY <1>1, <1>3 DEF Qdrant!Proceed, Qdrant!Goto
<1>4. ASSUME NEW c, Qdrant!Server(c)
      PROVE  (collection' = collection /\ disturbed'[u] = disturbed[u]) \/ disturbed'[u]
  BY <1>1, <1>4 DEF Qdrant!Server, Qdrant!TypeOK
<1>5. ASSUME Qdrant!ServerUnchanged
      PROVE  collection' = collection /\ disturbed'[u] = disturbed[u]
  BY <1>5 DEF Qdrant!ServerUnchanged
<1>6. CASE Qdrant!Begin(s)
  BY <1>1, <1>5, <1>6 DEF Qdrant!Begin, Qdrant!Goto
<1>7. CASE Qdrant!EndWithoutRequest(s)
  BY <1>2, <1>5, <1>7 DEF Qdrant!EndWithoutRequest
<1>8. CASE Qdrant!CheckExists(s)
  BY <1>3, <1>5, <1>8 DEF Qdrant!CheckExists
<1>9. CASE Qdrant!Delete(s)
  BY <1>3, <1>4, <1>9 DEF Qdrant!Delete
<1>10. CASE Qdrant!Create(s)
  BY <1>2, <1>3, <1>4, <1>10 DEF Qdrant!Create
<1>11. CASE Qdrant!Upsert(s)
  BY <1>2, <1>4, <1>11 DEF Qdrant!Upsert
<1>12. CASE Qdrant!AddRefused(s)
  BY <1>2, <1>5, <1>12 DEF Qdrant!AddRefused
<1>13. CASE Qdrant!Count(s)
  BY <1>1, <1>2, <1>3, <1>13 DEF Qdrant!Count
<1>14. CASE Qdrant!Query(s)
  BY <1>2, <1>5, <1>14 DEF Qdrant!Query
<1>15. CASE Qdrant!SearchFails(s)
  BY <1>2, <1>5, <1>15 DEF Qdrant!SearchFails
<1>16. CASE Qdrant!Drop(s)
  BY <1>2, <1>4, <1>5, <1>16 DEF Qdrant!Drop
<1>17. CASE Qdrant!RequestLost(s)
  BY <1>2, <1>4, <1>5, <1>17 DEF Qdrant!RequestLost
<1> QED
  BY <1>6, <1>7, <1>8, <1>9, <1>10, <1>11, <1>12, <1>13, <1>14, <1>15, <1>16, <1>17 DEF StepOf

\* Types and the request a store is at, after any step of any store.
LEMMA TypeStep ==
  ASSUME Qdrant!TypeOK, NEW s \in Stores, StepOf(s), UNCHANGED env
  PROVE  Qdrant!TypeOK'
<1>1. /\ collection \in Qdrant!Collections /\ dim \in [Stores -> Qdrant!Dims \cup {Unset}]
      /\ pc \in [Stores -> Qdrant!Labels] /\ call \in [Stores -> Qdrant!Contract!Calls]
      /\ DOMAIN reply = Stores /\ limit \in [Stores -> Nat] /\ calls \in 0..MaxCalls
      /\ before \in [Stores -> Qdrant!Collections \cup {Unset}]
      /\ disturbed \in [Stores -> BOOLEAN] /\ env' \in Environments
  BY DEF Qdrant!TypeOK
<1>2. /\ pc[s] = "idle" => call[s] = Qdrant!Contract!NoCall
      /\ Qdrant!Adding(s) => call[s].op = "add" /\ call[s].corpus \in Corpora
      /\ pc[s] = "begun" => call[s].op \notin {"add", "none"}
      /\ pc[s] = "query" => call[s].op = "search"
  BY CallShape DEF Qdrant!TypeOK
<1>3. Qdrant!Contract!NoCall \in Qdrant!Contract!Calls
  BY DEF Qdrant!Contract!NoCall, Qdrant!Contract!Calls
<1> DEFINE Fits(u) == /\ pc[u] = "idle" => call[u] = Qdrant!Contract!NoCall
                      /\ Qdrant!Adding(u) => call[u].op = "add"
                      /\ pc[u] = "begun" => call[u].op \notin {"add", "none"}
                      /\ pc[u] = "query" => call[u].op = "search"
           Calling == /\ pc' \in [Stores -> Qdrant!Labels]
                      /\ call' \in [Stores -> Qdrant!Contract!Calls]
                      /\ DOMAIN reply' = Stores
                      /\ before' \in [Stores -> Qdrant!Collections \cup {Unset}]
                      /\ Fits(s)'
           Serving == collection' \in Qdrant!Collections /\ disturbed' \in [Stores -> BOOLEAN]
           Rest    == dim' \in [Stores -> Qdrant!Dims \cup {Unset}]
                      /\ limit' \in [Stores -> Nat] /\ calls' \in 0..MaxCalls
<1>4. \A u \in Stores \ {s} : Fits(u)'
  BY OthersStand DEF Qdrant!TypeOK, Qdrant!Adding
<1>5. SUFFICES Calling /\ Serving /\ Rest
  BY <1>1, <1>4 DEF Qdrant!TypeOK
<1>6. ASSUME NEW r, Qdrant!Return(s, r) PROVE Calling /\ limit' \in [Stores -> Nat]
  BY <1>1, <1>3, <1>6 DEF Qdrant!Return, Qdrant!Goto, Qdrant!Labels, Qdrant!Adding
<1>7. ASSUME NEW l \in Qdrant!Labels, Qdrant!Proceed(s, l),
             \/ l \in {"exists", "delete", "create", "upsert"} /\ Qdrant!Adding(s)
             \/ l = "query" /\ call[s].op = "search"
      PROVE  Calling
  BY <1>1, <1>2, <1>7 DEF Qdrant!Proceed, Qdrant!Goto, Qdrant!Labels, Qdrant!Adding
<1>8. ASSUME NEW c \in Qdrant!Collections, Qdrant!Server(c) PROVE Serving
  BY <1>1, <1>8 DEF Qdrant!Server
<1>9. ASSUME Qdrant!ServerUnchanged PROVE Serving
  BY <1>1, <1>9 DEF Qdrant!ServerUnchanged
<1>10. Qdrant!Adding(s) => /\ call[s].corpus.dim \in Qdrant!Dims
                           /\ Qdrant!Created(s) \in Qdrant!Collections
                           /\ call[s].corpus \in Qdrant!Collections
  BY <1>2, CorporaAreCollections DEF Qdrant!Created, Qdrant!Dims
<1>11. Qdrant!Missing \in Qdrant!Collections
  BY MissingIsNone
<1> HIDE DEF Serving
<1>12. CASE Qdrant!Begin(s)
  <2>1. PICK c \in Qdrant!Contract!Calls \ {Qdrant!Contract!NoCall} :
          /\ call' = [call EXCEPT ![s] = c]
          /\ Qdrant!Goto(s, IF c.op = "add" THEN "exists" ELSE "begun")
    BY <1>12 DEF Qdrant!Begin
  <2>2. c.op # "none"
    BY CallShape
  <2>3. Qdrant!View(s) \in Qdrant!Collections \cup {Unset}
    BY <1>1 DEF Qdrant!View
  <2>4. Calling
    BY <1>1, <1>12, <2>1, <2>2, <2>3
       DEF Qdrant!Begin, Qdrant!Goto, Qdrant!Labels, Qdrant!Adding
  <2>5. Rest
    BY <1>1, <1>12, StoresAssumption DEF Qdrant!Begin
  <2> QED BY <1>9, <1>12, <2>4, <2>5 DEF Qdrant!Begin
<1> HIDE DEF Calling
<1>13. CASE Qdrant!EndWithoutRequest(s)
  BY <1>1, <1>6, <1>9, <1>13 DEF Qdrant!EndWithoutRequest
<1>14. CASE Qdrant!CheckExists(s)
  BY <1>1, <1>7, <1>9, <1>14 DEF Qdrant!CheckExists, Qdrant!Adding, Qdrant!Labels
<1>15. CASE Qdrant!Delete(s)
  BY <1>1, <1>7, <1>8, <1>11, <1>15 DEF Qdrant!Delete, Qdrant!Adding, Qdrant!Labels
<1>16. CASE Qdrant!Create(s)
  <2>1. Qdrant!Adding(s) /\ Qdrant!Server(Qdrant!Created(s))
    BY <1>16 DEF Qdrant!Create, Qdrant!Adding
  <2>2. dim' \in [Stores -> Qdrant!Dims \cup {Unset}] /\ calls' \in 0..MaxCalls
    BY <1>1, <1>10, <1>16, <2>1 DEF Qdrant!Create
  <2>3. CASE call[s].corpus.rows = << >>
    BY <1>6, <1>8, <1>10, <1>16, <2>1, <2>2, <2>3 DEF Qdrant!Create
  <2>4. CASE call[s].corpus.rows # << >>
    BY <1>1, <1>7, <1>8, <1>10, <1>16, <2>1, <2>2, <2>4 DEF Qdrant!Create, Qdrant!Labels
  <2> QED BY <2>3, <2>4
<1>17. CASE Qdrant!Upsert(s)
  BY <1>1, <1>6, <1>8, <1>17, UpsertedShape DEF Qdrant!Upsert
<1>18. CASE Qdrant!AddRefused(s)
  BY <1>1, <1>6, <1>9, <1>18 DEF Qdrant!AddRefused
<1>19. CASE Qdrant!Count(s)
  <2>1. call[s].op = "search" /\ call[s].k \in Int /\ call[s].k >= 1
    <3>1. call[s] \in Qdrant!Contract!Calls
      BY <1>1
    <3> QED BY <1>19, <3>1, CallShape, CorporaAssumption DEF Qdrant!Count, Qdrant!SearchAllowed
  <2>2. Qdrant!Effective(call[s].k) \in Nat
    <3>1. collection.rows \in Seq(Qdrant!Vectors)
      BY <1>1 DEF Qdrant!Collections
    <3> QED BY <2>1, <3>1
            DEF Qdrant!Effective, Qdrant!Contract!Smaller, Qdrant!Contract!Size
  <2>3. Serving
    BY <1>1, <1>19 DEF Qdrant!Count, Serving
  <2>4. CASE collection.rows = << >>
    BY <1>1, <1>6, <1>19, <2>3, <2>4 DEF Qdrant!Count
  <2>5. CASE collection.rows # << >>
    BY <1>1, <1>7, <1>19, <2>1, <2>2, <2>3, <2>5 DEF Qdrant!Count, Qdrant!Labels
  <2> QED BY <2>4, <2>5
<1>20. CASE Qdrant!Query(s)
  BY <1>1, <1>6, <1>9, <1>20 DEF Qdrant!Query
<1>21. CASE Qdrant!SearchFails(s)
  BY <1>1, <1>6, <1>9, <1>21 DEF Qdrant!SearchFails
<1>22. CASE Qdrant!Drop(s)
  BY <1>1, <1>6, <1>8, <1>9, <1>11, <1>22 DEF Qdrant!Drop
<1>23. CASE Qdrant!RequestLost(s)
  BY <1>1, <1>6, <1>8, <1>9, <1>10, <1>11, <1>23, UpsertedShape
     DEF Qdrant!RequestLost, Qdrant!Adding
<1> QED
  BY <1>12, <1>13, <1>14, <1>15, <1>16, <1>17, <1>18, <1>19, <1>20, <1>21, <1>22, <1>23
     DEF StepOf

\* The store that moves is at a query only right after it counted.
LEMMA QueryComesFromCount ==
  ASSUME Qdrant!TypeOK, NEW s \in Stores, StepOf(s), pc'[s] = "query"
  PROVE  Qdrant!Count(s) /\ collection.rows # << >> /\ Qdrant!Proceed(s, "query")
<1>1. DOMAIN pc = Stores
  BY DEF Qdrant!TypeOK
<1>2. \A r : ~Qdrant!Return(s, r)
  BY <1>1 DEF Qdrant!Return, Qdrant!Goto
<1>3. \A l : Qdrant!Proceed(s, l) => l = "query"
  BY <1>1 DEF Qdrant!Proceed, Qdrant!Goto
<1>4. ~Qdrant!Begin(s)
  BY <1>1 DEF Qdrant!Begin, Qdrant!Goto
<1>5. ~Qdrant!EndWithoutRequest(s) /\ ~Qdrant!AddRefused(s) /\ ~Qdrant!Upsert(s)
      /\ ~Qdrant!Query(s) /\ ~Qdrant!SearchFails(s) /\ ~Qdrant!Drop(s) /\ ~Qdrant!RequestLost(s)
  BY <1>2 DEF Qdrant!EndWithoutRequest, Qdrant!AddRefused, Qdrant!Upsert, Qdrant!Query,
              Qdrant!SearchFails, Qdrant!Drop, Qdrant!RequestLost
<1>6. ~Qdrant!CheckExists(s) /\ ~Qdrant!Delete(s) /\ ~Qdrant!Create(s)
  BY <1>2, <1>3 DEF Qdrant!CheckExists, Qdrant!Delete, Qdrant!Create
<1> QED BY <1>2, <1>4, <1>5, <1>6 DEF StepOf, Qdrant!Count

\* Widths stay right, whoever moves.
LEMMA WidthStep ==
  ASSUME Qdrant!TypeOK, CountedWidths, NEW s \in Stores, StepOf(s)
  PROVE  CountedWidths'
<1>1. SUFFICES ASSUME NEW u \in Stores, pc'[u] = "query"
               PROVE  /\ call'[u].k >= 1
                      /\ ~disturbed'[u] => limit'[u] = Qdrant!Effective(call[u].k)'
  BY DEF CountedWidths
<1>2. CASE u = s
  <2>1. /\ Qdrant!SearchAllowed(s) /\ collection' = collection
        /\ limit' = [limit EXCEPT ![s] = Qdrant!Effective(call[s].k)]
        /\ call' = call
    BY <1>1, <1>2, QueryComesFromCount DEF Qdrant!Count, Qdrant!Proceed
  <2>2. DOMAIN limit = Stores
    BY DEF Qdrant!TypeOK
  <2> QED BY <1>2, <2>1, <2>2
          DEF Qdrant!SearchAllowed, Qdrant!Effective, Qdrant!Contract!Size
<1>3. CASE u # s
  <2>1. /\ pc'[u] = pc[u] /\ call'[u] = call[u] /\ limit'[u] = limit[u]
        /\ (collection' = collection /\ disturbed'[u] = disturbed[u]) \/ disturbed'[u]
    BY <1>3, OthersStand
  <2> QED BY <1>1, <2>1 DEF CountedWidths, Qdrant!Effective, Qdrant!Contract!Size
<1> QED BY <1>2, <1>3

\* A sole owner's state after its own step.
LEMMA OwnerStep ==
  ASSUME QdrantInv, NEW s \in Stores, env.users = {s}, StepOf(s), UNCHANGED env
  PROVE  OwnerInv'
<1>1. /\ collection \in Qdrant!Collections /\ dim \in [Stores -> Qdrant!Dims \cup {Unset}]
      /\ DOMAIN pc = Stores /\ DOMAIN call = Stores /\ DOMAIN disturbed = Stores
      /\ Unset \notin Qdrant!Dims
  BY CorporaAssumption DEF QdrantInv, Qdrant!TypeOK, Qdrant!Dims
<1>2. OwnerState(s) /\ (~env.lossy => AnsweredState(s))
  BY DEF QdrantInv, OwnerInv
<1>3. /\ Qdrant!Adding(s) => call[s].op = "add" /\ call[s].corpus \in Corpora
      /\ pc[s] = "query" => call[s].op = "search"
  BY CallShape DEF QdrantInv, Qdrant!TypeOK
<1>4. Qdrant!TypeOK
  BY DEF QdrantInv
<1>5. SUFFICES OwnerState(s)' /\ (~env.lossy => AnsweredState(s)')
  BY DEF OwnerInv
<1>6. ASSUME NEW r, Qdrant!Return(s, r) PROVE pc'[s] = "idle"
  BY <1>1, <1>6 DEF Qdrant!Return, Qdrant!Goto
<1>7. ASSUME NEW l, Qdrant!Proceed(s, l) PROVE pc'[s] = l /\ call' = call
  BY <1>1, <1>7 DEF Qdrant!Proceed, Qdrant!Goto
\* Steps that leave the server and _dim, and end the call or make it wait.
<1>8. ASSUME collection' = collection, dim' = dim, pc'[s] \in {"idle", "begun"},
             ~env.lossy => ~Qdrant!Adding(s)
      PROVE  OwnerState(s)' /\ (~env.lossy => AnsweredState(s)')
  BY <1>2, <1>8 DEF OwnerState, AnsweredState, Qdrant!Adding
<1>9. CASE Qdrant!Begin(s)
  <2>1. pc[s] = "idle" /\ collection' = collection /\ dim' = dim
    BY <1>9 DEF Qdrant!Begin, Qdrant!ServerUnchanged
  <2>2. pc'[s] \in {"exists", "begun"}
    BY <1>1, <1>9 DEF Qdrant!Begin, Qdrant!Goto
  <2> QED BY <1>2, <2>1, <2>2 DEF OwnerState, AnsweredState, Qdrant!Adding
<1>10. CASE Qdrant!EndWithoutRequest(s)
  BY <1>6, <1>8, <1>10 DEF Qdrant!EndWithoutRequest, Qdrant!ServerUnchanged, Qdrant!Adding
<1>11. CASE Qdrant!CheckExists(s)
  <2>1. /\ collection' = collection /\ dim' = dim /\ call' = call
        /\ pc'[s] = IF Qdrant!Exists THEN "delete" ELSE "create"
    BY <1>7, <1>11 DEF Qdrant!CheckExists, Qdrant!ServerUnchanged
  <2> QED BY <1>2, <2>1 DEF OwnerState, AnsweredState, Qdrant!Adding, Qdrant!Exists
<1>12. CASE Qdrant!Delete(s)
  <2>1. collection' = Qdrant!Missing /\ dim' = dim /\ pc'[s] = "create"
    BY <1>7, <1>12 DEF Qdrant!Delete, Qdrant!Server
  <2> QED BY <2>1, MissingIsNone DEF OwnerState, AnsweredState, Qdrant!Adding
<1>13. CASE Qdrant!Create(s)
  <2>1. /\ collection' = Qdrant!Created(s) /\ Qdrant!Adding(s)
        /\ dim' = [dim EXCEPT ![s] = call[s].corpus.dim]
    BY <1>13 DEF Qdrant!Create, Qdrant!Server, Qdrant!Adding
  <2>2. collection'.rows = << >> /\ collection'.dim = call[s].corpus.dim
        /\ dim'[s] = call[s].corpus.dim /\ call[s].corpus \in Corpora
    BY <1>1, <1>3, <2>1 DEF Qdrant!Created
  <2>3. CASE call[s].corpus.rows = << >>
    <3>1. pc'[s] = "idle"
      BY <1>6, <1>13, <2>3 DEF Qdrant!Create
    <3>2. collection' = call[s].corpus
      <4>1. call[s].corpus \in Qdrant!Collections
        BY <2>2, CorporaAreCollections
      <4> QED BY <2>1, <2>3, <4>1 DEF Qdrant!Created, Qdrant!Collections
    <3> QED BY <2>2, <3>1, <3>2 DEF OwnerState, AnsweredState, Qdrant!Adding
  <2>4. CASE call[s].corpus.rows # << >>
    <3>1. pc'[s] = "upsert" /\ call' = call
      BY <1>7, <1>13, <2>4 DEF Qdrant!Create
    <3> QED BY <2>1, <2>2, <3>1 DEF OwnerState, AnsweredState, Qdrant!Adding, Qdrant!Created
  <2> QED BY <2>3, <2>4
<1>14. CASE Qdrant!Upsert(s)
  <2>1. /\ pc[s] = "upsert" /\ Qdrant!Upsertable(s) /\ collection = Qdrant!Created(s)
        /\ dim' = dim /\ dim[s] = collection.dim /\ pc'[s] = "idle"
        /\ collection' = Qdrant!Upserted(s) /\ call[s].corpus \in Corpora
    BY <1>2, <1>3, <1>6, <1>14 DEF Qdrant!Upsert, Qdrant!Server, OwnerState, Qdrant!Adding
  <2>2. collection' = call[s].corpus
    BY <1>4, <2>1, UpsertedShape
  <2> QED BY <2>1, <2>2 DEF OwnerState, AnsweredState, Qdrant!Adding, Qdrant!Upsertable
<1>15. CASE Qdrant!AddRefused(s)
  <2>1. /\ pc[s] = "create" => ~Qdrant!Exists
        /\ pc[s] = "upsert" => Qdrant!Upsertable(s)
    BY <1>2 DEF OwnerState, Qdrant!Exists, Qdrant!Upsertable, Qdrant!Created
  <2> QED BY <1>15, <2>1 DEF Qdrant!AddRefused
<1>16. CASE Qdrant!Count(s)
  <2>1. /\ Qdrant!SearchAllowed(s) /\ collection' = collection /\ dim' = dim
    BY <1>16 DEF Qdrant!Count
  <2>2. ~Qdrant!Adding(s) /\ dim[s] # Unset /\ call[s].query.dim = dim[s]
    BY <2>1 DEF Qdrant!SearchAllowed, Qdrant!Adding
  <2>3. CASE collection.rows = << >>
    BY <1>6, <1>8, <1>16, <2>1, <2>2, <2>3 DEF Qdrant!Count
  <2>4. CASE collection.rows # << >>
    <3>1. /\ pc'[s] = "query" /\ call' = call /\ ~disturbed'[s]
      BY <1>1, <1>7, <1>16, <2>4 DEF Qdrant!Count
    <3> QED BY <1>2, <2>1, <2>2, <2>4, <3>1 DEF OwnerState, AnsweredState, Qdrant!Adding
  <2> QED BY <2>3, <2>4
<1>17. CASE Qdrant!Query(s)
  BY <1>6, <1>8, <1>17 DEF Qdrant!Query, Qdrant!ServerUnchanged, Qdrant!Adding
<1>18. CASE Qdrant!SearchFails(s)
  BY <1>6, <1>8, <1>18
     DEF Qdrant!SearchFails, Qdrant!ServerUnchanged, Qdrant!SearchAllowed, Qdrant!Adding
<1>19. CASE Qdrant!Drop(s)
  <2>1. /\ dim' = [dim EXCEPT ![s] = Unset] /\ pc'[s] = "idle"
        /\ collection' \in {collection, Qdrant!Missing}
    BY <1>6, <1>19 DEF Qdrant!Drop, Qdrant!Server, Qdrant!ServerUnchanged
  <2>2. dim'[s] = Unset
    BY <1>1, <2>1
  <2> QED BY <1>2, <2>1, <2>2, MissingIsNone DEF OwnerState, AnsweredState, Qdrant!Adding
<1>20. CASE Qdrant!RequestLost(s)
  <2>1. env.lossy /\ pc'[s] = "idle" /\ dim' = dim
    BY <1>6, <1>20 DEF Qdrant!RequestLost
  <2>2. CASE Qdrant!ServerUnchanged
    BY <1>8, <2>1, <2>2 DEF Qdrant!ServerUnchanged
  <2>3. CASE pc[s] = "delete" /\ Qdrant!Server(Qdrant!Missing)
    BY <2>1, <2>3, MissingIsNone DEF OwnerState, Qdrant!Server
  <2>4. CASE pc[s] = "create" /\ Qdrant!Server(Qdrant!Created(s))
    BY <2>1, <2>4 DEF OwnerState, Qdrant!Server, Qdrant!Created
  <2>5. CASE pc[s] = "upsert" /\ Qdrant!Upsertable(s) /\ Qdrant!Server(Qdrant!Upserted(s))
    <3>1. /\ collection = Qdrant!Created(s) /\ dim[s] = collection.dim
          /\ call[s].corpus \in Corpora /\ collection' = Qdrant!Upserted(s)
      BY <1>2, <1>3, <2>5 DEF OwnerState, Qdrant!Adding, Qdrant!Server
    <3>2. collection' = call[s].corpus /\ dim[s] = call[s].corpus.dim
      BY <1>4, <2>5, <3>1, UpsertedShape DEF Qdrant!Created
    <3> QED BY <2>1, <3>1, <3>2 DEF OwnerState
  <2> QED BY <1>20, <2>2, <2>3, <2>4, <2>5, <2>1 DEF Qdrant!RequestLost
<1> QED
  BY <1>9, <1>10, <1>11, <1>12, <1>13, <1>14, <1>15, <1>16, <1>17, <1>18, <1>19, <1>20
     DEF StepOf

-----------------------------------------------------------------------------
(* The invariant holds                                                     *)

\* What Cardinality says of owners.
LEMMA SoleOwner ==
  ASSUME env \in Environments, Qdrant!Owned
  PROVE  \E s \in Stores : env.users = {s} /\ Qdrant!Owner = s
<1>1. IsFiniteSet(env.users) /\ Cardinality(env.users) = 1
  <2>1. env.users \subseteq Stores
    BY StoresAssumption
  <2> QED BY <2>1, StoresAssumption, FS_Subset
          DEF Qdrant!Owned, Qdrant!Cardinality, Cardinality
<1>2. PICK s : env.users = {s}
  BY <1>1, FS_Singleton
<1>3. Qdrant!Owner = s
  BY <1>2 DEF Qdrant!Owner
<1> QED BY <1>2, <1>3, StoresAssumption

LEMMA InvInit == Init => QdrantInv
<1> SUFFICES ASSUME Init PROVE QdrantInv
  OBVIOUS
<1>1. Qdrant!Init
  BY DEF Init
<1>2. Qdrant!TypeOK
  <2>1. Qdrant!Contract!NoCall \in Qdrant!Contract!Calls
    BY DEF Qdrant!Contract!NoCall, Qdrant!Contract!Calls
  <2>2. collection \in Qdrant!Collections
    BY <1>1, MissingIsNone DEF Qdrant!Init
  <2> QED BY <1>1, <2>1, <2>2, StoresAssumption
          DEF Qdrant!Init, Qdrant!TypeOK, Qdrant!Labels, Qdrant!Adding
<1>3. CountedWidths
  BY <1>1 DEF Qdrant!Init, CountedWidths
<1>4. OwnerInv
  <2>1. env.users \subseteq Stores
    BY <1>1, StoresAssumption DEF Qdrant!Init
  <2> QED BY <1>1, <2>1, MissingIsNone DEF Qdrant!Init, OwnerInv, OwnerState, AnsweredState
<1> QED BY <1>2, <1>3, <1>4 DEF QdrantInv

LEMMA InvStep == QdrantInv /\ [Next]_vars => QdrantInv'
<1> SUFFICES ASSUME QdrantInv, [Next]_vars PROVE QdrantInv'
  OBVIOUS
<1>1. CASE UNCHANGED qdrantVars
  BY <1>1
     DEF qdrantVars, QdrantInv, Qdrant!TypeOK, Qdrant!Adding, CountedWidths, Qdrant!Effective,
         Qdrant!Contract!Size, OwnerInv, OwnerState, AnsweredState, Qdrant!Created
<1>2. CASE Qdrant!Next
  <2>1. PICK s \in env.users : StepOf(s)
    BY <1>2 DEF Qdrant!Next, StepOf
  <2>2. s \in Stores /\ UNCHANGED env
    BY <1>2, StoresAssumption DEF Qdrant!Next, QdrantInv, Qdrant!TypeOK
  <2>3. Qdrant!TypeOK' /\ CountedWidths'
    BY <2>1, <2>2, TypeStep, WidthStep DEF QdrantInv
  <2>4. CASE env.users = {s}
    BY <2>1, <2>2, <2>3, <2>4, OwnerStep DEF QdrantInv
  <2>5. CASE env.users # {s}
    BY <2>1, <2>2, <2>3, <2>5 DEF QdrantInv, OwnerInv
  <2> QED BY <2>4, <2>5
<1> QED BY <1>1, <1>2 DEF Next, LocalNext, QdrantNext, vars

\* What is on the server and in the memory of the stores keeps its shape, whatever
\* requests get lost and whoever shares the collection.
THEOREM TypeCorrect == Spec => []Qdrant!TypeOK
<1>1. QdrantInv => Qdrant!TypeOK
  BY DEF QdrantInv
<1> QED BY <1>1, InvInit, InvStep, PTL DEF Spec

\* Under one owner there are the rows of one corpus on the server, all of them, or
\* none, and its queries have their dimension.
THEOREM ServerHoldsOneCorpus == Spec => []OwnerSeesOneCorpus
<1>1. ASSUME QdrantInv PROVE OwnerSeesOneCorpus
  <2>1. env \in Environments /\ env.users \subseteq Stores
    BY <1>1, StoresAssumption DEF QdrantInv, Qdrant!TypeOK
  <2>2. Qdrant!Owned => \E s \in Stores : env.users = {s} /\ OwnerState(s)
    BY <1>1, <2>1, SoleOwner DEF QdrantInv, OwnerInv
  <2> QED BY <2>2
          DEF OwnerSeesOneCorpus, Qdrant!CorporaAreNotMixed, Qdrant!QueriesFitTheCollection,
              OwnerState
<1> QED BY <1>1, InvInit, InvStep, PTL DEF Spec

\* The owner's add that returns has installed its corpus, whole, whatever failed
\* before it.
THEOREM AddsInstall == Spec => AddInstallsItsCorpus
<1>1. ASSUME QdrantInv, [Next]_vars, Qdrant!Owned, NEW s \in env.users,
             call[s].op = "add", reply'[s].kind = "done", pc'[s] = "idle"
      PROVE  \/ collection' = call[s].corpus /\ dim'[s] = collection'.dim
             \/ UNCHANGED Qdrant!vars
  <2>1. env.users = {s} /\ s \in Stores /\ OwnerState(s)
    BY <1>1, SoleOwner DEF QdrantInv, Qdrant!TypeOK, OwnerInv
  <2>2. /\ DOMAIN pc = Stores /\ DOMAIN dim = Stores /\ DOMAIN reply = Stores
        /\ Qdrant!TypeOK /\ pc[s] # "idle" /\ pc[s] # "begun" /\ pc[s] # "query"
    BY <1>1, <2>1 DEF QdrantInv, Qdrant!TypeOK, Qdrant!Contract!NoCall
  <2>3. call[s].corpus \in Corpora
    BY <1>1, <2>1, CallShape DEF QdrantInv, Qdrant!TypeOK
  <2>4. CASE UNCHANGED qdrantVars
    BY <2>4 DEF qdrantVars, Qdrant!vars
  <2>5. CASE Qdrant!Next
    <3>1. StepOf(s)
      BY <2>1, <2>5 DEF Qdrant!Next, StepOf
    <3>2. /\ ~Qdrant!Proceed(s, "delete") /\ ~Qdrant!Proceed(s, "create")
          /\ ~Qdrant!Proceed(s, "upsert")
      BY <1>1, <2>1, <2>2 DEF Qdrant!Proceed, Qdrant!Goto
    <3>3. ~Qdrant!Return(s, Qdrant!Failed)
      BY <1>1, <2>1, <2>2 DEF Qdrant!Return, Qdrant!Failed, Qdrant!Contract!Outcome
    <3>4. CASE Qdrant!Create(s)
      <4>1. /\ collection' = Qdrant!Created(s) /\ call[s].corpus.rows = << >>
            /\ dim' = [dim EXCEPT ![s] = call[s].corpus.dim]
        BY <3>2, <3>4 DEF Qdrant!Create, Qdrant!Server
      <4>2. call[s].corpus \in Qdrant!Collections
        BY <2>3, CorporaAreCollections
      <4> QED BY <2>1, <2>2, <4>1, <4>2 DEF Qdrant!Created, Qdrant!Collections
    <3>5. CASE Qdrant!Upsert(s)
      <4>1. /\ pc[s] = "upsert" /\ Qdrant!Upsertable(s) /\ collection = Qdrant!Created(s)
            /\ dim' = dim /\ dim[s] = collection.dim /\ collection' = Qdrant!Upserted(s)
        BY <2>1, <3>5 DEF Qdrant!Upsert, Qdrant!Server, OwnerState
      <4> QED BY <2>1, <2>2, <4>1, UpsertedShape DEF Qdrant!Upsertable
    <3> QED
      BY <1>1, <2>2, <3>1, <3>2, <3>3, <3>4, <3>5
         DEF StepOf, Qdrant!Begin, Qdrant!EndWithoutRequest, Qdrant!CheckExists, Qdrant!Delete,
             Qdrant!AddRefused, Qdrant!Count, Qdrant!Query, Qdrant!SearchFails, Qdrant!Drop,
             Qdrant!RequestLost, Qdrant!SearchAllowed
  <2> QED BY <1>1, <2>4, <2>5 DEF Next, LocalNext, QdrantNext, vars
<1>2. QdrantInv /\ [Next]_vars =>
        [\A s \in env.users :
           Qdrant!Owned /\ call[s].op = "add" /\ reply'[s].kind = "done" /\ pc'[s] = "idle" =>
             collection' = call[s].corpus /\ dim'[s] = collection'.dim]_(Qdrant!vars)
  BY <1>1
<1> QED BY <1>2, InvInit, InvStep, PTL
        DEF Spec, AddInstallsItsCorpus, Qdrant!AddInstallsItsCorpus

\* An answer is padded only if the collection changed under the search, with any
\* number of stores on one collection.
THEOREM PaddingHasACause == Spec => PaddedOnlyIfDisturbed
<1>1. ASSUME QdrantInv, [Next]_vars, NEW s \in Stores, pc[s] = "query", pc'[s] = "idle",
             reply'[s].kind = "rows", ~disturbed[s],
             NEW n \in DOMAIN reply'[s].rows, reply'[s].rows[n] = 0
      PROVE  FALSE
  <2>1. Qdrant!TypeOK /\ DOMAIN pc = Stores /\ DOMAIN reply = Stores
    BY <1>1 DEF QdrantInv, Qdrant!TypeOK
  <2>2. PICK t \in env.users : StepOf(t)
    BY <1>1 DEF Next, LocalNext, QdrantNext, vars, qdrantVars, Qdrant!Next, StepOf
  <2>3. t \in Stores /\ t = s
    BY <1>1, <2>1, <2>2, OthersStand, StoresAssumption DEF Qdrant!TypeOK
  <2>4. ~Qdrant!Return(s, Qdrant!Failed)
    BY <1>1, <2>1 DEF Qdrant!Return, Qdrant!Failed, Qdrant!Contract!Outcome
  <2>5. Qdrant!Query(s)
    BY <1>1, <2>2, <2>3, <2>4
       DEF StepOf, Qdrant!Begin, Qdrant!EndWithoutRequest, Qdrant!CheckExists, Qdrant!Delete,
           Qdrant!Create, Qdrant!Upsert, Qdrant!AddRefused, Qdrant!Count, Qdrant!SearchAllowed,
           Qdrant!SearchFails, Qdrant!Drop, Qdrant!RequestLost
  <2> DEFINE size == Qdrant!Contract!Size(collection)
             found == Qdrant!Contract!Smaller(limit[s], size)
  <2>6. size \in Nat /\ call[s].k \in Int /\ call[s].k >= 1
        /\ limit[s] = Qdrant!Contract!Smaller(call[s].k, size)
    <3>1. size \in Nat
      BY <2>1 DEF Qdrant!TypeOK, Qdrant!Collections, Qdrant!Contract!Size
    <3>2. call[s].k \in Int
      BY <1>1, <2>1, CallShape, CorporaAssumption DEF Qdrant!TypeOK
    <3> QED BY <1>1, <3>1, <3>2 DEF QdrantInv, CountedWidths, Qdrant!Effective
  <2>7. limit[s] \in Nat /\ found = limit[s]
    <3> HIDE DEF size
    <3> QED BY <2>6 DEF Qdrant!Contract!Smaller
  <2>8. PICK best \in Qdrant!Contract!Best(collection, call[s].query, found) :
          Qdrant!Return(s, Qdrant!Contract!Rows(
            [m \in 1..limit[s] |-> IF m <= found THEN best[m] ELSE 0]))
    BY <2>5 DEF Qdrant!Query
  <2>9. reply'[s].rows = [m \in 1..limit[s] |-> IF m <= found THEN best[m] ELSE 0]
    BY <2>1, <2>8 DEF Qdrant!Return, Qdrant!Contract!Rows
  <2>10. \A m \in 1..found : best[m] \in 1..size
    BY <2>8 DEF Qdrant!Contract!Best
  <2> HIDE DEF found, size
  <2>11. n \in 1..limit[s] /\ reply'[s].rows[n] = best[n]
    BY <1>1, <2>7, <2>9
  <2> QED BY <1>1, <2>6, <2>7, <2>10, <2>11
<1>2. QdrantInv /\ [Next]_vars =>
        [\A s \in Stores :
           /\ pc[s] = "query" /\ pc'[s] = "idle" /\ reply'[s].kind = "rows"
           /\ \E n \in DOMAIN reply'[s].rows : reply'[s].rows[n] = 0
           => disturbed[s]]_(Qdrant!vars)
  BY <1>1
<1> QED BY <1>2, InvInit, InvStep, PTL
        DEF Spec, PaddedOnlyIfDisturbed, Qdrant!PaddedOnlyIfDisturbed

-----------------------------------------------------------------------------
(* The store implements its contract                                       *)

\* The contracts that the two kinds of store and their caller see rank alike.
LEMMA RankingsAgree ==
  ASSUME NEW c, NEW q, NEW width
  PROVE  /\ Contract!Best(c, q, width) = Qdrant!Contract!Best(c, q, width)
         /\ Contract!Best(c, q, width) = Local!Contract!Best(c, q, width)
         /\ Contract!Size(c) = Qdrant!Contract!Size(c) /\ Contract!Size(c) = Len(c.rows)
         /\ Contract!Calls = Qdrant!Contract!Calls /\ Contract!Calls = Local!Contract!Calls
BY DEF Contract!Best, Qdrant!Contract!Best, Local!Contract!Best,
       Contract!Size, Qdrant!Contract!Size, Local!Contract!Size,
       Contract!Score, Qdrant!Contract!Score, Local!Contract!Score,
       Contract!Calls, Qdrant!Contract!Calls, Local!Contract!Calls

\* The one answer in no rows.
LEMMA EmptyIsBest ==
  ASSUME NEW c, NEW q, c.rows = << >>
  PROVE  << >> \in Contract!Best(c, q, 0)
<1>1. Contract!Size(c) = 0
  BY DEF Contract!Size
<1>2. 1..0 = {} /\ << >> \in [1..0 -> 1..0]
  OBVIOUS
<1> QED BY <1>1, <1>2 DEF Contract!Best

\* A step of the owner of a collection, with no request lost, is a step of the contract
\* or is hidden from the caller.
LEMMA OwnerRefines ==
  ASSUME QdrantInv, NEW s \in Stores, env.users = {s}, ~env.lossy, StepOf(s), UNCHANGED env,
         ~InProcess, UNCHANGED backend, Qdrant!Owner = s
  PROVE  Contract!Next \/ UNCHANGED Contract!vars
<1>1. /\ collection \in Qdrant!Collections /\ dim \in [Stores -> Qdrant!Dims \cup {Unset}]
      /\ DOMAIN pc = Stores /\ DOMAIN call = Stores /\ DOMAIN reply = Stores
      /\ DOMAIN before = Stores
      /\ Qdrant!TypeOK /\ call[s] \in Contract!Calls
  BY RankingsAgree DEF QdrantInv, Qdrant!TypeOK
<1>2. OwnerState(s) /\ AnsweredState(s) /\ OwnerInv'
  BY OwnerStep DEF QdrantInv, OwnerInv
<1>3. OwnerState(s)' /\ AnsweredState(s)'
  BY <1>2 DEF OwnerInv
<1>4. Qdrant!Owner' = s /\ ~InProcess'
  BY DEF Qdrant!Owner, InProcess
<1> DEFINE held  == Qdrant!Held(s)
           after == Qdrant!Held(s)'
<1>5. ASSUME after = held, call'[s] = call[s], reply'[s] = reply[s]
      PROVE  UNCHANGED Contract!vars
  BY <1>4, <1>5 DEF Contract!vars
<1>6. ASSUME call[s] = Contract!NoCall, call'[s] \in Contract!Calls \ {Contract!NoCall},
             after = held, reply'[s] = reply[s]
      PROVE  Contract!Next
  BY <1>4, <1>6 DEF Contract!Next, Contract!Begin
<1>7. ASSUME call'[s] = Contract!NoCall, after = held, call[s].op \in {"badAdd", "badSearch"},
             reply'[s] = Contract!Outcome(IF call[s].op = "badSearch" /\ held = Unset
                                          THEN "RuntimeError" ELSE "ValueError")
      PROVE  Contract!Next
  BY <1>4, <1>7 DEF Contract!Next, Contract!Refuse, Contract!Return
<1>8. ASSUME call'[s] = Contract!NoCall, call[s].op = "add", after = call[s].corpus,
             reply'[s] = Contract!Outcome("done")
      PROVE  Contract!Next
  BY <1>4, <1>8 DEF Contract!Next, Contract!Add, Contract!Return
<1>9. ASSUME call'[s] = Contract!NoCall, call[s].op = "search", after = held,
             \/ held = Unset /\ reply'[s] = Contract!Outcome("RuntimeError")
             \/ /\ held # Unset /\ (call[s].k < 1 \/ call[s].query.dim # held.dim)
                /\ reply'[s] = Contract!Outcome("ValueError")
             \/ /\ held # Unset /\ call[s].k >= 1 /\ call[s].query.dim = held.dim
                /\ \E r \in Contract!Best(held, call[s].query,
                                          Contract!Smaller(call[s].k, Contract!Size(held))) :
                     reply'[s] = Contract!Rows(r)
      PROVE  Contract!Next
  BY <1>4, <1>9 DEF Contract!Next, Contract!Search, Contract!Return
<1>10. ASSUME call'[s] = Contract!NoCall, call[s].op = "reset", after = Unset,
              reply'[s] = Contract!Outcome("done")
       PROVE  Contract!Next
  BY <1>4, <1>10 DEF Contract!Next, Contract!Reset, Contract!Return
<1>11. /\ ~Qdrant!Adding(s) => held = IF dim[s] = Unset THEN Unset ELSE collection
       /\ Qdrant!Adding(s)  => held = before[s]
       /\ ~Qdrant!Adding(s)' => after = IF dim'[s] = Unset THEN Unset ELSE collection'
       /\ Qdrant!Adding(s)' => after = before'[s]
  BY DEF Qdrant!Held, Qdrant!View
<1>12. ~Qdrant!Adding(s) /\ dim[s] # Unset => /\ collection # Unset /\ Qdrant!Exists
                                              /\ collection.dim = dim[s]
  BY <1>2, CorporaAssumption, MissingIsNone DEF AnsweredState, Qdrant!Exists
<1> HIDE DEF held, after
<1>13. ASSUME NEW r, Qdrant!Return(s, r)
       PROVE  /\ reply'[s] = r /\ call'[s] = Contract!NoCall /\ pc'[s] = "idle"
              /\ ~Qdrant!Adding(s)'
  BY <1>1, <1>13
     DEF Qdrant!Return, Qdrant!Goto, Qdrant!Adding, Qdrant!Contract!NoCall, Contract!NoCall
<1>14. ASSUME NEW l, Qdrant!Proceed(s, l)
       PROVE  /\ pc'[s] = l /\ reply'[s] = reply[s] /\ call'[s] = call[s]
              /\ before'[s] = before[s]
  BY <1>1, <1>14 DEF Qdrant!Proceed, Qdrant!Goto
<1>15. \A k : Contract!Outcome(k) = Qdrant!Contract!Outcome(k)
  BY DEF Contract!Outcome, Qdrant!Contract!Outcome
<1>16. \A r : Contract!Rows(r) = Qdrant!Contract!Rows(r)
  BY DEF Contract!Rows, Qdrant!Contract!Rows
<1>17. CASE Qdrant!Begin(s)
  <2>1. /\ pc[s] = "idle" /\ collection' = collection /\ dim' = dim /\ reply' = reply
        /\ before'[s] = Qdrant!View(s)
    BY <1>1, <1>17 DEF Qdrant!Begin, Qdrant!ServerUnchanged
  <2>2. call'[s] \in Contract!Calls \ {Contract!NoCall} /\ call[s] = Contract!NoCall
    BY <1>1, <1>17, <2>1, RankingsAgree
       DEF Qdrant!Begin, Qdrant!Contract!NoCall, Contract!NoCall, Qdrant!TypeOK
  <2>3. after = held
    BY <1>11, <2>1 DEF Qdrant!Adding, Qdrant!View
  <2> QED BY <1>6, <2>1, <2>2, <2>3
<1>18. CASE Qdrant!EndWithoutRequest(s)
  <2>1. /\ collection' = collection /\ dim' = dim /\ ~Qdrant!Adding(s)
    BY <1>18 DEF Qdrant!EndWithoutRequest, Qdrant!ServerUnchanged, Qdrant!Adding
  <2>2. CASE /\ call[s].op \in {"search", "badSearch"} /\ dim[s] = Unset
             /\ Qdrant!Return(s, Qdrant!Contract!Outcome("RuntimeError"))
    BY <1>7, <1>9, <1>11, <1>13, <1>15, <2>1, <2>2
  <2>3. CASE /\ \/ call[s].op = "badAdd"
                \/ call[s].op = "badSearch" /\ dim[s] # Unset
                \/ /\ call[s].op = "search" /\ dim[s] # Unset
                   /\ call[s].k < 1 \/ call[s].query.dim # dim[s]
             /\ Qdrant!Return(s, Qdrant!Contract!Outcome("ValueError"))
    BY <1>7, <1>9, <1>11, <1>12, <1>13, <1>15, <2>1, <2>3
  <2>4. CASE /\ call[s].op = "reset" /\ dim[s] = Unset
             /\ Qdrant!Return(s, Qdrant!Contract!Outcome("done"))
    BY <1>10, <1>11, <1>13, <1>15, <2>1, <2>4
  <2> QED BY <1>18, <2>2, <2>3, <2>4 DEF Qdrant!EndWithoutRequest
<1>19. CASE Qdrant!CheckExists(s)
  BY <1>5, <1>11, <1>14, <1>19 DEF Qdrant!CheckExists, Qdrant!Adding
<1>20. CASE Qdrant!Delete(s)
  BY <1>5, <1>11, <1>14, <1>20 DEF Qdrant!Delete, Qdrant!Adding
<1>21. call[s].op = "add" => /\ call[s].corpus \in Corpora /\ call[s].corpus.dim # Unset
                             /\ call[s].corpus \in Qdrant!Collections
  BY <1>1, RankingsAgree, CallShape, CorporaAssumption, CorporaAreCollections
<1>22. CASE Qdrant!Create(s)
  <2>1. /\ collection' = Qdrant!Created(s) /\ Qdrant!Adding(s) /\ call[s].op = "add"
        /\ dim'[s] = call[s].corpus.dim
    BY <1>1, <1>22 DEF Qdrant!Create, Qdrant!Server, Qdrant!Adding, Qdrant!TypeOK
  <2>2. CASE call[s].corpus.rows = << >>
    <3>1. Qdrant!Return(s, Qdrant!Contract!Outcome("done"))
      BY <1>22, <2>2 DEF Qdrant!Create
    <3>2. after = call[s].corpus
      BY <1>11, <1>13, <1>21, <2>1, <2>2, <3>1 DEF Qdrant!Created, Qdrant!Collections
    <3> QED BY <1>8, <1>13, <1>15, <2>1, <3>1, <3>2
  <2>3. CASE call[s].corpus.rows # << >>
    <3>1. Qdrant!Proceed(s, "upsert")
      BY <1>22, <2>3 DEF Qdrant!Create
    <3> QED BY <1>5, <1>11, <1>14, <2>1, <3>1 DEF Qdrant!Adding
  <2> QED BY <2>2, <2>3
<1>23. CASE Qdrant!Upsert(s)
  <2>1. /\ pc[s] = "upsert" /\ Qdrant!Upsertable(s) /\ collection = Qdrant!Created(s)
        /\ dim' = dim /\ dim[s] = collection.dim /\ collection' = Qdrant!Upserted(s)
        /\ call[s].op = "add" /\ Qdrant!Return(s, Qdrant!Contract!Outcome("done"))
    BY <1>1, <1>2, <1>23 DEF Qdrant!Upsert, Qdrant!Server, OwnerState, Qdrant!TypeOK, Qdrant!Adding
  <2>2. collection' = call[s].corpus /\ dim'[s] # Unset
    BY <1>1, <1>21, <2>1, UpsertedShape DEF Qdrant!Upsertable
  <2> QED BY <1>8, <1>11, <1>13, <1>15, <2>1, <2>2
<1>24. CASE Qdrant!AddRefused(s)
  <2>1. /\ pc[s] = "create" => ~Qdrant!Exists
        /\ pc[s] = "upsert" => Qdrant!Upsertable(s)
    BY <1>2 DEF OwnerState, Qdrant!Exists, Qdrant!Upsertable, Qdrant!Created
  <2> QED BY <1>24, <2>1 DEF Qdrant!AddRefused
<1>25. call[s].op = "search" => call[s].k \in Int
  BY <1>1, RankingsAgree, CallShape, CorporaAssumption
<1>26. Len(collection.rows) \in Nat
  BY <1>1 DEF Qdrant!Collections
<1>27. CASE Qdrant!Count(s)
  <2>1. /\ collection' = collection /\ dim' = dim /\ ~Qdrant!Adding(s) /\ call[s].op = "search"
        /\ dim[s] # Unset /\ call[s].k >= 1 /\ call[s].query.dim = dim[s]
    BY <1>27 DEF Qdrant!Count, Qdrant!SearchAllowed, Qdrant!Adding
  <2>2. held = collection
    BY <1>11, <2>1
  <2>3. CASE collection.rows = << >>
    <3>1. Qdrant!Return(s, Qdrant!Contract!Rows(<< >>))
      BY <1>27, <2>3 DEF Qdrant!Count
    <3>2. Contract!Smaller(call[s].k, Contract!Size(held)) = 0
      BY <1>25, <2>1, <2>2, <2>3 DEF Contract!Smaller, Contract!Size
    <3>3. << >> \in Contract!Best(held, call[s].query,
                                 Contract!Smaller(call[s].k, Contract!Size(held)))
      BY <2>2, <2>3, <3>2, EmptyIsBest
    <3>4. after = held /\ call'[s] = Contract!NoCall /\ reply'[s] = Contract!Rows(<< >>)
      BY <1>11, <1>13, <1>16, <2>1, <2>2, <3>1
    <3>5. held # Unset /\ call[s].query.dim = held.dim
      BY <1>12, <2>1, <2>2
    <3> QED BY <1>9, <2>1, <3>3, <3>4, <3>5
  <2>4. CASE collection.rows # << >>
    BY <1>5, <1>11, <1>14, <1>27, <2>1, <2>4 DEF Qdrant!Count, Qdrant!Adding
  <2> QED BY <2>3, <2>4
<1>28. CASE Qdrant!Query(s)
  <2> DEFINE size == Len(collection.rows)
             width == Contract!Smaller(call[s].k, size)
  <2>1. /\ pc[s] = "query" /\ collection' = collection /\ dim' = dim /\ ~Qdrant!Adding(s)
        /\ dim[s] = collection.dim /\ collection.dim = call[s].query.dim /\ ~disturbed[s]
    BY <1>2, <1>28 DEF Qdrant!Query, Qdrant!ServerUnchanged, Qdrant!Adding, OwnerState
  <2>2. call[s].op = "search" /\ dim[s] # Unset
    BY <1>1, <2>1, CorporaAssumption DEF Qdrant!TypeOK, Qdrant!Collections, Qdrant!Dims
  <2>3. held = collection /\ held # Unset
    BY <1>11, <1>12, <2>1, <2>2
  <2>4. call[s].k >= 1 /\ limit[s] = width
    BY <2>1, RankingsAgree
       DEF QdrantInv, CountedWidths, Qdrant!Effective, Qdrant!Contract!Smaller,
           Contract!Smaller, Qdrant!Contract!Size
  <2>5. width \in Nat /\ Qdrant!Contract!Smaller(limit[s], size) = width
    BY <1>25, <1>26, <2>2, <2>4 DEF Contract!Smaller, Qdrant!Contract!Smaller
  <2>6. Qdrant!Contract!Size(collection) = size /\ Contract!Size(collection) = size
    BY DEF Qdrant!Contract!Size, Contract!Size
  <2> HIDE DEF size, width
  <2>7. PICK best \in Contract!Best(collection, call[s].query, width) :
          Qdrant!Return(s, Qdrant!Contract!Rows(
            [n \in 1..width |-> IF n <= width THEN best[n] ELSE 0]))
    <3>1. Contract!Best(collection, call[s].query, width) =
            Qdrant!Contract!Best(collection, call[s].query, width)
      BY RankingsAgree
    <3>2. Qdrant!Contract!Smaller(limit[s], Qdrant!Contract!Size(collection)) = width
      BY <2>5, <2>6
    <3> QED BY <1>28, <2>4, <3>1, <3>2 DEF Qdrant!Query
  <2>8. best = [n \in 1..width |-> IF n <= width THEN best[n] ELSE 0]
    BY <2>5, <2>7 DEF Contract!Best
  <2>9. after = held /\ call'[s] = Contract!NoCall /\ reply'[s] = Contract!Rows(best)
    BY <1>11, <1>13, <1>16, <2>1, <2>2, <2>3, <2>7, <2>8
  <2> QED BY <1>9, <2>1, <2>2, <2>3, <2>4, <2>6, <2>7, <2>9 DEF width
<1>29. CASE Qdrant!SearchFails(s)
  <2>1. ~Qdrant!Adding(s)
    BY <1>29 DEF Qdrant!SearchFails, Qdrant!SearchAllowed, Qdrant!Adding
  <2> QED BY <1>2, <1>12, <1>29, <2>1
          DEF Qdrant!SearchFails, Qdrant!SearchAllowed, OwnerState
<1>30. CASE Qdrant!Drop(s)
  <2>1. /\ dim'[s] = Unset /\ call[s].op = "reset"
        /\ Qdrant!Return(s, Qdrant!Contract!Outcome("done"))
    BY <1>1, <1>30 DEF Qdrant!Drop
  <2> QED BY <1>10, <1>11, <1>13, <1>15, <2>1
<1>31. ~Qdrant!RequestLost(s)
  BY DEF Qdrant!RequestLost
<1> QED
  BY <1>17, <1>18, <1>19, <1>20, <1>22, <1>23, <1>24, <1>27, <1>28, <1>29, <1>30, <1>31
     DEF StepOf

\* An in-process store holds a corpus or none.
LocalInv == index \in Corpora \cup {Unset} /\ localCall \in Contract!Calls

\* Appending no padding changes nothing.
LEMMA NoPadding ==
  ASSUME NEW c \in Corpora, NEW q, NEW k \in Int, k >= 1,
         NEW n, n = Contract!Smaller(k, Contract!Size(c)),
         NEW best \in Contract!Best(c, q, n)
  PROVE  best \o [m \in 1..(n - n) |-> 0] = best
<1>1. Contract!Size(c) \in Nat
  BY CorporaAssumption DEF Contract!Size
<1>2. n \in Nat
  BY <1>1 DEF Contract!Smaller
<1> DEFINE R == 1..Contract!Size(c)
<1>3. best \in [1..n -> R]
  BY DEF Contract!Best
<1> HIDE DEF R
<1>4. best \in Seq(R) /\ Len(best) = n
  BY <1>2, <1>3
<1>5. [m \in 1..(n - n) |-> 0] = << >>
  BY <1>2
<1> QED BY <1>4, <1>5

\* What lexsort compares.
LEMMA BeforeShape ==
  ASSUME NEW p, NEW l, NEW m
  PROVE  Local!Before(p, l, m) <=> \/ Local!Score(p[l]) > Local!Score(p[m])
                                   \/ Local!Score(p[l]) = Local!Score(p[m]) /\ p[l] < p[m]
BY DEF Local!Before

\* Places of a partition stand in a strict order, in which any two can be compared.
LEMMA BeforeIsTotal ==
  ASSUME index \in Corpora, localCall.query \in Queries, NEW n \in Nat, NEW p \in Local!Partitions(n)
  PROVE  /\ p \in [1..n -> 1..Local!Size]
         /\ \A i \in 1..Local!Size : Local!Score(i) \in Int
         /\ \A l, m \in 1..n : l # m => Local!Before(p, l, m) \/ Local!Before(p, m, l)
         /\ \A l, m, o \in 1..n :
              Local!Before(p, l, m) /\ Local!Before(p, m, o) => Local!Before(p, l, o)
         /\ \A l, m \in 1..n : Local!Before(p, l, m) => ~Local!Before(p, m, l)
<1> DEFINE size == Local!Size
           score(i) == Local!Score(i)
<1>1. /\ p \in [1..n -> 1..size]
      /\ \A l, m \in 1..n : p[l] = p[m] => l = m
  BY DEF Local!Partitions
<1>2. /\ index.rows \in Seq(Qdrant!Vectors) /\ size \in Nat /\ size = Len(index.rows)
  BY CorporaAssumption DEF Local!Size
<1>3. \A i \in 1..size : index.rows[i] \in Qdrant!Vectors
  BY <1>2
<1>4. \A i \in 1..size : score(i) \in Int
  BY <1>3, SimilarityAssumption DEF Local!Score
<1>5. \A l, m : Local!Before(p, l, m) <=>
        \/ score(p[l]) > score(p[m])
        \/ score(p[l]) = score(p[m]) /\ p[l] < p[m]
  BY BeforeShape
<1> HIDE DEF size, score
<1>6. \A l \in 1..n : p[l] \in Int /\ score(p[l]) \in Int
  <2>. SUFFICES ASSUME NEW l \in 1..n PROVE p[l] \in Int /\ score(p[l]) \in Int
    OBVIOUS
  <2>1. p[l] \in 1..size
    BY <1>1
  <2>. QED BY <1>2, <1>4, <2>1
<1>7. \A l, m \in 1..n : l # m => Local!Before(p, l, m) \/ Local!Before(p, m, l)
  <2>. SUFFICES ASSUME NEW l \in 1..n, NEW m \in 1..n, l # m
                PROVE  Local!Before(p, l, m) \/ Local!Before(p, m, l)
    OBVIOUS
  <2>1. p[l] # p[m]
    BY <1>1
  <2>2. /\ p[l] \in Int /\ p[m] \in Int /\ score(p[l]) \in Int /\ score(p[m]) \in Int
    BY <1>6
  <2>3. \/ score(p[l]) > score(p[m])
        \/ score(p[m]) > score(p[l])
        \/ score(p[l]) = score(p[m]) /\ p[l] < p[m]
        \/ score(p[m]) = score(p[l]) /\ p[m] < p[l]
    BY <2>1, <2>2
  <2>. QED BY <1>5, <2>3
<1>8. \A l, m, o \in 1..n :
        Local!Before(p, l, m) /\ Local!Before(p, m, o) => Local!Before(p, l, o)
  BY <1>5, <1>6
<1>9. \A l, m \in 1..n : Local!Before(p, l, m) => ~Local!Before(p, m, l)
  BY <1>5, <1>6
<1>. QED BY <1>1, <1>4, <1>7, <1>8, <1>9 DEF size, score

\* The places before a place and the place itself are as many as its rank: counting
\* them puts the places in a sequence, and that is one lexsort may choose.
LEMMA LexsortSorts ==
  ASSUME index \in Corpora, localCall.query \in Queries, NEW n \in Nat, NEW p \in Local!Partitions(n)
  PROVE  /\ DOMAIN p = 1..n
         /\ Local!Lexsort(p) \in [1..n -> 1..n]
         /\ \A l, m \in 1..n :
              l < m => Local!Before(p, Local!Lexsort(p)[l], Local!Lexsort(p)[m])
<1> DEFINE T == 1..n
           upTo(i) == {j \in T : j = i \/ Local!Before(p, j, i)}
           place == [i \in T |-> Cardinality(upTo(i))]
           sorted == [m \in T |-> CHOOSE i \in T : place[i] = m]
<1>2. IsFiniteSet(T) /\ Cardinality(T) = n
  BY FS_Interval
<1>3. /\ \A i, j \in T : i # j => Local!Before(p, i, j) \/ Local!Before(p, j, i)
      /\ \A i, j, l \in T : Local!Before(p, i, j) /\ Local!Before(p, j, l) => Local!Before(p, i, l)
      /\ \A i, j \in T : Local!Before(p, i, j) => ~Local!Before(p, j, i)
      /\ DOMAIN p = T
  BY BeforeIsTotal
<1>4. ASSUME NEW i \in T PROVE IsFiniteSet(upTo(i)) /\ place[i] \in T
  <2>1. upTo(i) \in SUBSET T /\ i \in upTo(i)
    OBVIOUS
  <2>2. IsFiniteSet(upTo(i)) /\ Cardinality(upTo(i)) <= n /\ Cardinality(upTo(i)) \in Nat
    BY <1>2, <2>1, FS_Subset, FS_CardinalityType
  <2>3. Cardinality(upTo(i)) # 0
    BY <2>1, <2>2, FS_EmptySet
  <2> QED BY <2>2, <2>3
<1>5. ASSUME NEW i \in T, NEW j \in T, Local!Before(p, i, j) PROVE place[i] < place[j]
  <2>1. upTo(i) \in SUBSET upTo(j)
    BY <1>3, <1>5
  <2>2. j \in upTo(j) /\ j \notin upTo(i)
    BY <1>3, <1>5
  <2>3. IsFiniteSet(upTo(j)) /\ place[i] \in Nat /\ place[j] \in Nat
    BY <1>4
  <2>4. place[i] <= place[j] /\ place[i] # place[j]
    BY <2>1, <2>2, <2>3, FS_Subset
  <2> QED BY <2>3, <2>4
<1> HIDE DEF place
<1>6. place \in Injection(T, T)
  <2>1. place \in [T -> T]
    BY <1>4 DEF place
  <2>2. ASSUME NEW i \in T, NEW j \in T, place[i] = place[j] PROVE i = j
    <3>1. place[i] \in Nat /\ ~(place[i] < place[j]) /\ ~(place[j] < place[i])
      <4>1. place[i] \in T
        BY <1>4
      <4> QED BY <2>2, <4>1
    <3> QED BY <1>3, <1>5, <3>1
  <2> QED BY <2>1, <2>2 DEF Injection, IsInjective
<1>7. place \in Surjection(T, T)
  BY <1>2, <1>6, FS_Injection
<1>8. \A m \in T : sorted[m] \in T /\ place[sorted[m]] = m
  BY <1>7 DEF Surjection
<1>9. sorted \in [T -> T]
  BY <1>8
<1> HIDE DEF sorted
<1>10. \A l, m \in T : l < m => Local!Before(p, sorted[l], sorted[m])
  <2> SUFFICES ASSUME NEW l \in T, NEW m \in T, l < m
               PROVE  Local!Before(p, sorted[l], sorted[m])
    OBVIOUS
  <2>1. sorted[l] # sorted[m] /\ ~Local!Before(p, sorted[m], sorted[l])
    <3>1. sorted[l] \in T /\ sorted[m] \in T /\ ~(place[sorted[m]] < place[sorted[l]])
      BY <1>8
    <3> QED BY <1>5, <1>8, <3>1
  <2> QED BY <1>3, <1>8, <2>1
<1> HIDE DEF T
<1>11. \E o \in [DOMAIN p -> DOMAIN p] :
         \A l, m \in DOMAIN p : l < m => Local!Before(p, o[l], o[m])
  BY <1>3, <1>9, <1>10
<1>12. /\ Local!Lexsort(p) \in [T -> T]
       /\ \A l, m \in T : l < m => Local!Before(p, Local!Lexsort(p)[l], Local!Lexsort(p)[m])
  BY <1>3, <1>11, Zenon DEF Local!Lexsort
<1> QED BY <1>3, <1>12 DEF T

\* A sorted partition has the rows of the partition, by score and then by number.
LEMMA SortedShape ==
  ASSUME index \in Corpora, localCall.query \in Queries, NEW n \in Nat, NEW p \in Local!Partitions(n)
  PROVE  LET s == Local!Sorted(p)
         IN  /\ s \in [1..n -> 1..Local!Size]
             /\ \A l, m \in 1..n : l < m =>
                  \/ Local!Score(s[l]) > Local!Score(s[m])
                  \/ Local!Score(s[l]) = Local!Score(s[m]) /\ s[l] < s[m]
             /\ \A i \in 1..Local!Size : (\A m \in 1..n : s[m] # i) =>
                  \A m \in 1..n : Local!Score(s[m]) >= Local!Score(i)
<1> DEFINE o == Local!Lexsort(p)
           s == Local!Sorted(p)
           T == 1..n
<1>1. /\ p \in [T -> 1..Local!Size] /\ DOMAIN p = T /\ o \in [T -> T]
      /\ \A l, m \in T : l < m => Local!Before(p, o[l], o[m])
      /\ \A l, m \in T : Local!Before(p, l, m) => ~Local!Before(p, m, l)
  BY BeforeIsTotal, LexsortSorts
<1>2. \A m \in T : s[m] = p[o[m]]
  BY <1>1 DEF Local!Sorted
<1>3. s \in [T -> 1..Local!Size]
  BY <1>1 DEF Local!Sorted
<1> HIDE DEF o, s
<1>4. o \in Surjection(T, T)
  <2>1. \A l, m \in T : o[l] = o[m] => l = m
    <3> SUFFICES ASSUME NEW l \in T, NEW m \in T, o[l] = o[m], l # m PROVE FALSE
      OBVIOUS
    <3>1. l < m \/ m < l
      OBVIOUS
    <3>2. o[l] \in T /\ Local!Before(p, o[l], o[l])
      BY <1>1, <3>1
    <3>. QED BY <1>1, <3>2
  <2>2. o \in Injection(T, T)
    BY <1>1, <2>1 DEF Injection, IsInjective
  <2>3. IsFiniteSet(T) /\ Cardinality(T) = n
    BY FS_Interval
  <2>. QED BY <2>2, <2>3, FS_Injection
<1>5. \A l, m \in T : l < m => \/ Local!Score(s[l]) > Local!Score(s[m])
                               \/ Local!Score(s[l]) = Local!Score(s[m]) /\ s[l] < s[m]
  <2>. SUFFICES ASSUME NEW l \in T, NEW m \in T, l < m
                PROVE  \/ Local!Score(s[l]) > Local!Score(s[m])
                       \/ Local!Score(s[l]) = Local!Score(s[m]) /\ s[l] < s[m]
    OBVIOUS
  <2>1. Local!Before(p, o[l], o[m]) /\ s[l] = p[o[l]] /\ s[m] = p[o[m]]
    BY <1>1, <1>2
  <2>. QED BY <2>1, BeforeShape
<1>6. \A l \in T : \E m \in T : s[m] = p[l]
  <2>1. \A l \in T : \E m \in T : o[m] = l
    BY <1>4 DEF Surjection
  <2>. QED BY <1>2, <2>1
<1>7. ASSUME NEW i \in 1..Local!Size, \A m \in T : s[m] # i, NEW m \in T
      PROVE  Local!Score(s[m]) >= Local!Score(i)
  <2>1. \A l \in T : p[l] # i
    BY <1>6, <1>7
  <2>2. \A l \in T : Local!Score(p[l]) >= Local!Score(i)
    BY <2>1 DEF Local!Partitions
  <2>. QED BY <1>1, <1>2, <2>2
<1>. QED BY <1>3, <1>5, <1>7 DEF s

\* What NumPy's search returns are the best rows.
LEMMA SortedIsBest ==
  ASSUME index \in Corpora, localCall.query \in Queries, NEW n \in Nat, NEW p \in Local!Partitions(n)
  PROVE  Local!Sorted(p) \in Contract!Best(index, localCall.query, n)
<1> DEFINE s == Local!Sorted(p)
           size == Local!Size
           score(i) == Local!Score(i)
<1>1. /\ s \in [1..n -> 1..size]
      /\ \A l, m \in 1..n : l < m => \/ score(s[l]) > score(s[m])
                                     \/ score(s[l]) = score(s[m]) /\ s[l] < s[m]
      /\ \A i \in 1..size : (\A m \in 1..n : s[m] # i) => \A m \in 1..n : score(s[m]) >= score(i)
  BY SortedShape
<1>2. \A i \in 1..size : score(i) \in Int
  BY BeforeIsTotal
<1>3. /\ Contract!Size(index) = size
      /\ \A i : Contract!Score(index, localCall.query, i) = score(i)
  BY DEF Contract!Size, Local!Size, Contract!Score, Local!Score
<1> HIDE DEF s, size, score
<1>4. \A l, m \in 1..n : l < m => s[l] # s[m] /\ score(s[l]) >= score(s[m])
  <2>. SUFFICES ASSUME NEW l \in 1..n, NEW m \in 1..n, l < m
                PROVE  s[l] # s[m] /\ score(s[l]) >= score(s[m])
    OBVIOUS
  <2>1. s[l] \in 1..size /\ s[m] \in 1..size
    BY <1>1
  <2>2. s[l] \in Int /\ score(s[l]) \in Int /\ score(s[m]) \in Int
    BY <1>2, <2>1
  <2>. QED BY <1>1, <2>2
<1> QED BY <1>1, <1>3, <1>4 DEF Contract!Best, s

\* Every step of an in-process store is one of the contract.
LEMMA LocalRefines ==
  ASSUME LocalInv, InProcess, Local!Next
  PROVE  LocalInv' /\ (Contract!Next \/ UNCHANGED Contract!vars)
<1>1. Local!Contract!Calls = Contract!Calls
  BY RankingsAgree
<1>2. /\ Local!Contract!NoCall = Contract!NoCall /\ Contract!NoCall \in Contract!Calls
      /\ \A k : Local!Contract!Outcome(k) = Contract!Outcome(k)
      /\ \A r : Local!Contract!Rows(r) = Contract!Rows(r)
      /\ \A a, b : Local!Contract!Smaller(a, b) = Contract!Smaller(a, b)
      /\ Contract!Size(index) = Len(index.rows) /\ Local!Size = Len(index.rows)
  BY DEF Local!Contract!NoCall, Contract!NoCall, Local!Contract!Outcome, Contract!Outcome,
         Local!Contract!Rows, Contract!Rows, Local!Contract!Smaller, Contract!Smaller,
         Contract!Size, Local!Size, Contract!Calls
<1>3. /\ localCall.op = "add" => localCall.corpus \in Corpora
      /\ localCall.op = "search" => localCall.k \in Int
  BY RankingsAgree, CallShape, CorporaAssumption DEF LocalInv
<1>4. UNCHANGED backend /\ InProcess'
  BY DEF Local!Next, Local!Begin, Local!AddRefused, Local!AddFails, Local!Add,
         Local!SearchBeforeAdd, Local!SearchRefused, Local!SearchEmpty, Local!NumpySearch,
         Local!FaissSearch, Local!Reset, Local!Return, Local!Raise, InProcess
<1>5. LocalInv'
  BY <1>1, <1>2, <1>3
     DEF Local!Next, Local!Begin, Local!AddRefused, Local!AddFails, Local!Add,
         Local!SearchBeforeAdd, Local!SearchRefused, Local!SearchEmpty, Local!NumpySearch,
         Local!FaissSearch, Local!Reset, Local!Return, Local!Raise, LocalInv, Contract!Calls
<1> SUFFICES Contract!Next \/ UNCHANGED Contract!vars
  BY <1>5
<1>6. CASE Local!Begin
  BY <1>1, <1>2, <1>4, <1>6 DEF Local!Begin, Contract!Next, Contract!Begin
<1>7. CASE Local!AddRefused
  BY <1>2, <1>4, <1>7
     DEF Local!AddRefused, Local!Raise, Local!Return, Contract!Next, Contract!Refuse,
         Contract!Return
<1>8. CASE Local!AddFails \/ Local!Add
  BY <1>2, <1>4, <1>8
     DEF Local!AddFails, Local!Add, Local!Raise, Local!Return, Contract!Next, Contract!Add,
         Contract!Return
<1>9. CASE Local!SearchBeforeAdd
  BY <1>2, <1>4, <1>9
     DEF Local!SearchBeforeAdd, Local!Raise, Local!Return, Contract!Next, Contract!Search,
         Contract!Refuse, Contract!Return
<1>10. CASE Local!SearchRefused
  BY <1>2, <1>4, <1>10
     DEF Local!SearchRefused, Local!Raise, Local!Return, Contract!Next, Contract!Search,
         Contract!Refuse, Contract!Return
<1>11. CASE Local!SearchEmpty
  <2>1. /\ localCall.op = "search" /\ index # Unset /\ localCall.k >= 1
        /\ localCall.query.dim = index.dim /\ Local!Size = 0
        /\ Local!Return(Local!Contract!Rows(<< >>)) /\ index' = index
    BY <1>11 DEF Local!SearchEmpty, Local!SearchAllowed
  <2>2. Contract!Smaller(localCall.k, Contract!Size(index)) = 0
    BY <1>2, <1>3, <2>1 DEF Contract!Smaller
  <2>3. index.rows = << >>
    <3>1. index.rows \in Seq(Qdrant!Vectors) /\ Len(index.rows) = 0
      BY <1>2, <2>1, CorporaAssumption DEF LocalInv
    <3> QED BY <3>1
  <2>4. << >> \in Contract!Best(index, localCall.query, 0)
    BY <2>3, EmptyIsBest
  <2> QED BY <1>2, <1>4, <2>1, <2>2, <2>4
          DEF Local!Return, Contract!Next, Contract!Search, Contract!Return
<1>12. CASE Local!FaissSearch
  <2> DEFINE n == Contract!Smaller(localCall.k, Contract!Size(index))
  <2>1. /\ localCall.op = "search" /\ index # Unset /\ localCall.k >= 1
        /\ localCall.query.dim = index.dim /\ index' = index
        /\ \E r \in Local!FlatSearch(Local!Effective(localCall.k)) :
             Local!Return(Local!Contract!Rows(r))
    BY <1>12 DEF Local!FaissSearch, Local!SearchAllowed
  <2>2. Contract!Size(index) \in Nat
    BY <2>1, CorporaAssumption DEF LocalInv, Contract!Size
  <2>3. Local!Effective(localCall.k) = n /\ Contract!Smaller(n, Local!Size) = n
    <3>1. Local!Effective(localCall.k) = n
      BY <1>2 DEF Local!Effective
    <3>2. Local!Size = Contract!Size(index)
      BY <1>2
    <3> QED BY <1>3, <2>1, <2>2, <3>1, <3>2 DEF Contract!Smaller
  <2> HIDE DEF n
  <2>4. Local!FlatSearch(n) =
          {r \o [m \in 1..(n - n) |-> 0] : r \in Contract!Best(index, localCall.query, n)}
    <3>1. Local!Contract!Best(index, localCall.query, n) = Contract!Best(index, localCall.query, n)
      BY RankingsAgree
    <3>2. Local!Contract!Smaller(n, Local!Size) = n
      BY <1>2, <2>3
    <3> QED BY <3>1, <3>2 DEF Local!FlatSearch
  <2>5. PICK r \in Contract!Best(index, localCall.query, n) :
          Local!Return(Local!Contract!Rows(r))
    <3>1. index \in Corpora /\ localCall.k \in Int
      BY <1>3, <2>1 DEF LocalInv
    <3>2. \A r \in Contract!Best(index, localCall.query, n) : r \o [m \in 1..(n - n) |-> 0] = r
      BY <2>1, <3>1, NoPadding DEF n
    <3>3. PICK r \in Local!FlatSearch(n) : Local!Return(Local!Contract!Rows(r))
      BY <2>1, <2>3
    <3>4. r \in Contract!Best(index, localCall.query, n)
      BY <2>4, <3>2, <3>3
    <3> QED BY <3>3, <3>4
  <2> QED BY <1>2, <1>4, <2>1, <2>5
          DEF n, Local!Return, Contract!Next, Contract!Search, Contract!Return
<1>13. CASE Local!Reset
  BY <1>2, <1>4, <1>13 DEF Local!Reset, Local!Return, Contract!Next, Contract!Reset, Contract!Return
<1>14. CASE Local!NumpySearch
  <2> DEFINE n == Contract!Smaller(localCall.k, Contract!Size(index))
  <2>1. /\ localCall.op = "search" /\ index # Unset /\ localCall.k >= 1
        /\ localCall.query.dim = index.dim /\ index' = index
        /\ \E p \in Local!Partitions(Local!Effective(localCall.k)) :
             Local!Return(Local!Contract!Rows(Local!Sorted(p)))
    BY <1>14 DEF Local!NumpySearch, Local!SearchAllowed, Local!Answers
  <2>2. index \in Corpora /\ localCall.query \in Queries
    BY <2>1, RankingsAgree, CallShape DEF LocalInv
  <2>3. n \in Nat
    <3>1. Contract!Size(index) \in Nat
      BY <2>2, CorporaAssumption DEF Contract!Size
    <3> QED BY <1>3, <2>1, <3>1 DEF Contract!Smaller
  <2>4. Local!Effective(localCall.k) = n
    BY <1>2 DEF Local!Effective
  <2> HIDE DEF n
  <2>5. PICK r \in Contract!Best(index, localCall.query, n) :
          Local!Return(Local!Contract!Rows(r))
    BY <2>1, <2>2, <2>3, <2>4, SortedIsBest
  <2> QED BY <1>2, <1>4, <2>1, <2>5
          DEF n, Local!Return, Contract!Next, Contract!Search, Contract!Return
<1> QED
  BY <1>6, <1>7, <1>8, <1>9, <1>10, <1>11, <1>12, <1>13, <1>14 DEF Local!Next

\* The store begins empty, as the contract's does.
LEMMA ContractInit == Init => Contract!Init /\ LocalInv
<1> SUFFICES ASSUME Init PROVE Contract!Init /\ LocalInv
  OBVIOUS
<1>1. /\ index = Unset /\ localCall = Contract!NoCall /\ localReply = Contract!Outcome("none")
      /\ Local!Contract!NoCall \in Contract!Calls
  BY DEF Init, Local!Init, Local!Contract!Init, Local!Contract!NoCall, Local!Contract!Outcome,
         Contract!NoCall, Contract!Outcome, Contract!Calls
<1>2. LocalInv
  BY <1>1 DEF LocalInv, Contract!NoCall, Local!Contract!NoCall
<1>3. Qdrant!Owner \in Stores => /\ Qdrant!Held(Qdrant!Owner) = Unset
                                 /\ call[Qdrant!Owner] = Contract!NoCall
                                 /\ reply[Qdrant!Owner] = Contract!Outcome("none")
  BY DEF Init, Qdrant!Init, Qdrant!Held, Qdrant!Adding, Qdrant!View, Qdrant!Contract!NoCall,
         Contract!NoCall, Qdrant!Contract!Outcome, Contract!Outcome
<1>4. Qdrant!Owner \in Stores
  BY StoresAssumption DEF Init, Qdrant!Init, Qdrant!Owner
<1> QED BY <1>1, <1>2, <1>3, <1>4 DEF Contract!Init

\* Each step is one of the contract or hidden from the caller.
LEMMA ContractStep ==
  QdrantInv /\ LocalInv /\ [Next]_vars =>
    /\ LocalInv'
    /\ [Undisturbed => Contract!Next]_(Contract!vars)
<1> SUFFICES ASSUME QdrantInv, LocalInv, [Next]_vars
             PROVE  /\ LocalInv'
                    /\ Undisturbed => Contract!Next \/ UNCHANGED Contract!vars
  OBVIOUS
<1>1. CASE LocalNext
  BY <1>1, LocalRefines DEF LocalNext, InProcess
<1>2. CASE QdrantNext
  <2>1. LocalInv' /\ ~InProcess /\ Qdrant!Next /\ UNCHANGED <<backend, env>>
    BY <1>2 DEF QdrantNext, localVars, LocalInv, InProcess, Qdrant!Next, Contract!Calls
  <2>2. ASSUME Undisturbed PROVE Contract!Next \/ UNCHANGED Contract!vars
    <3>1. PICK s \in Stores : env.users = {s} /\ Qdrant!Owner = s
      BY <2>1, <2>2, SoleOwner DEF Undisturbed, QdrantInv, Qdrant!TypeOK
    <3>2. StepOf(s)
      BY <2>1, <3>1 DEF Qdrant!Next, StepOf
    <3> QED BY <2>1, <2>2, <3>1, <3>2, OwnerRefines DEF Undisturbed
  <2> QED BY <2>1, <2>2
<1>3. CASE UNCHANGED vars
  BY <1>3
     DEF vars, localVars, qdrantVars, LocalInv, Contract!vars, InProcess, Qdrant!Held,
         Qdrant!Owner, Qdrant!Adding, Qdrant!View, Contract!Calls
<1> QED BY <1>1, <1>2, <1>3 DEF Next

\* Whatever get_vector_store returns keeps the promises of VectorStoreProtocol, for any
\* corpora, queries and similarities: NumPy, FAISS, and Qdrant where it owns its
\* collection and its requests are answered.
THEOREM StoresKeepTheContract == Spec => ImplementsContract
<1> QED BY ContractInit, ContractStep, InvInit, InvStep, PTL DEF Spec, ImplementsContract

-----------------------------------------------------------------------------
(* What is common to all answers to a query                                *)

\* Scores of the rows of a corpus can be compared.
LEMMA ScoresAreNumbers ==
  ASSUME NEW c \in Corpora, NEW q \in Queries
  PROVE  /\ Contract!Size(c) \in Nat
         /\ \A i \in 1..Contract!Size(c) : Contract!Score(c, q, i) \in Int
<1>1. c.rows \in Seq(Qdrant!Vectors) /\ Len(c.rows) \in Nat
  BY CorporaAssumption
<1>2. \A i \in 1..Len(c.rows) : c.rows[i] \in Qdrant!Vectors
  BY <1>1
<1>. QED BY <1>1, <1>2, SimilarityAssumption DEF Contract!Size, Contract!Score

\* Rows that are better than the n-th of another answer are among the n - 1 before it,
\* so that there cannot be n of them.
LEMMA NoAnswerIsBetter ==
  ASSUME NEW c \in Corpora, NEW q \in Queries, NEW width \in Nat,
         NEW s \in Contract!Best(c, q, width), NEW t \in Contract!Best(c, q, width),
         NEW n \in 1..width
  PROVE  Contract!Score(c, q, s[n]) <= Contract!Score(c, q, t[n])
<1> DEFINE size == Contract!Size(c)
           score(i) == Contract!Score(c, q, i)
<1>1. /\ size \in Nat /\ \A i \in 1..size : score(i) \in Int
      /\ s \in [1..width -> 1..size] /\ t \in [1..width -> 1..size]
      /\ \A l, m \in 1..width : l < m => s[l] # s[m] /\ score(s[l]) >= score(s[m])
      /\ \A l, m \in 1..width : l < m => score(t[l]) >= score(t[m])
      /\ \A i \in 1..size : (\A m \in 1..width : t[m] # i) => \A m \in 1..width : score(t[m]) >= score(i)
  BY ScoresAreNumbers DEF Contract!Best
<1> HIDE DEF size, score
<1>2. SUFFICES ASSUME score(s[n]) > score(t[n]) PROVE FALSE
  <2>1. score(s[n]) \in Int /\ score(t[n]) \in Int
    BY <1>1
  <2>. QED BY <2>1 DEF score
<1>3. \A l \in 1..n : l \in 1..width /\ s[l] \in 1..size /\ score(s[l]) > score(t[n])
  <2> SUFFICES ASSUME NEW l \in 1..n
               PROVE  l \in 1..width /\ s[l] \in 1..size /\ score(s[l]) > score(t[n])
    OBVIOUS
  <2>1. l \in 1..width /\ (l < n \/ l = n)
    OBVIOUS
  <2>2. s[l] \in 1..size /\ score(s[l]) >= score(s[n])
    BY <1>1, <2>1
  <2>3. score(s[l]) \in Int /\ score(s[n]) \in Int /\ score(t[n]) \in Int
    BY <1>1, <2>2
  <2>. QED BY <1>2, <2>1, <2>2, <2>3
<1>4. \A l \in 1..n : \E m \in 1..n - 1 : t[m] = s[l]
  <2> SUFFICES ASSUME NEW l \in 1..n PROVE \E m \in 1..n - 1 : t[m] = s[l]
    OBVIOUS
  <2>1. score(s[l]) \in Int /\ score(t[n]) \in Int
    BY <1>1, <1>3
  <2>2. PICK m \in 1..width : t[m] = s[l]
    <3> SUFFICES ASSUME \A m \in 1..width : t[m] # s[l] PROVE FALSE
      OBVIOUS
    <3>1. score(t[n]) >= score(s[l]) /\ score(s[l]) > score(t[n])
      BY <1>1, <1>3
    <3>. QED BY <2>1, <3>1
  <2>3. ~(n <= m)
    <3>1. n < m => score(t[n]) >= score(t[m])
      BY <1>1
    <3>2. score(t[m]) = score(s[l]) /\ score(s[l]) > score(t[n])
      BY <1>3, <2>2
    <3>3. n <= m => n = m \/ n < m
      OBVIOUS
    <3>. QED BY <2>1, <3>1, <3>2, <3>3
  <2>. QED BY <2>2, <2>3
<1> DEFINE at == [l \in 1..n |-> CHOOSE m \in 1..n - 1 : t[m] = s[l]]
<1>5. at \in [1..n -> 1..n - 1] /\ \A l \in 1..n : t[at[l]] = s[l]
  BY <1>4
<1> HIDE DEF at
<1>6. /\ IsFiniteSet(1..n) /\ Cardinality(1..n) = n
      /\ IsFiniteSet(1..n - 1) /\ Cardinality(1..n - 1) = n - 1
  BY FS_Interval
<1>7. PICK l, m \in 1..n : l # m /\ at[l] = at[m]
  <2> DEFINE A == 1..n
             B == 1..n - 1
  <2>1. IsFiniteSet(A) /\ IsFiniteSet(B) /\ Cardinality(B) < Cardinality(A) /\ at \in [A -> B]
    BY <1>5, <1>6
  <2> HIDE DEF A, B
  <2>2. \E x, y \in A : x # y /\ at[x] = at[y]
    BY <2>1, FS_PigeonHole
  <2>. QED BY <2>2 DEF A
<1>8. s[l] = s[m] /\ l \in 1..width /\ m \in 1..width
  <2>1. t[at[l]] = s[l] /\ t[at[m]] = s[m]
    BY <1>5
  <2>2. s[l] = s[m]
    BY <1>7, <2>1, Zenon
  <2>3. \A i \in 1..n : i \in 1..width
    OBVIOUS
  <2>. QED BY <2>2, <2>3, Zenon
<1>9. l < m \/ m < l
  BY <1>7
<1>. QED BY <1>1, <1>8, <1>9

\* Any two answers that the contract allows to a query, of the same store at different
\* times or of different backends, have as many rows with the same scores in the same
\* places: they differ only in which of the rows of equal score they show, and that for
\* any corpora, queries and similarities.
THEOREM AnswersAgree ==
  ASSUME NEW c \in Corpora, NEW q \in Queries, NEW k \in Ks, k >= 1,
         NEW s \in Contract!Best(c, q, Contract!Smaller(k, Contract!Size(c))),
         NEW t \in Contract!Best(c, q, Contract!Smaller(k, Contract!Size(c)))
  PROVE  /\ DOMAIN s = DOMAIN t
         /\ \A n \in DOMAIN s : Contract!Score(c, q, s[n]) = Contract!Score(c, q, t[n])
<1> DEFINE size == Contract!Size(c)
           width == Contract!Smaller(k, size)
<1>1. size \in Nat /\ width \in Nat
  BY ScoresAreNumbers, CorporaAssumption DEF Contract!Smaller
<1>2. s \in [1..width -> 1..size] /\ t \in [1..width -> 1..size]
  BY DEF Contract!Best
<1> HIDE DEF width
<1>3. ASSUME NEW n \in 1..width PROVE Contract!Score(c, q, s[n]) = Contract!Score(c, q, t[n])
  <2>1. /\ Contract!Score(c, q, s[n]) <= Contract!Score(c, q, t[n])
        /\ Contract!Score(c, q, t[n]) <= Contract!Score(c, q, s[n])
    BY <1>1, NoAnswerIsBetter DEF width
  <2>2. s[n] \in 1..size /\ t[n] \in 1..size
    BY <1>2
  <2>3. Contract!Score(c, q, s[n]) \in Int /\ Contract!Score(c, q, t[n]) \in Int
    BY <2>2, ScoresAreNumbers
  <2>. QED BY <2>1, <2>3
<1>. QED BY <1>2, <1>3

\* A set of places that is not empty has a first.
LEMMA FirstPlace ==
  ASSUME NEW S, S \subseteq Nat, S # {}
  PROVE  \E i \in S : \A j \in S : i <= j
<1>1. PICK i \in S : \A j \in S : ~(<<j, i>> \in OpToRel(<, Nat))
  BY NatLessThanWellFounded, WFMin
<1>2. \A j \in S : ~(j < i)
  <2>. SUFFICES ASSUME NEW j \in S, j < i PROVE FALSE
    OBVIOUS
  <2>1. <<j, i>> \in OpToRel(<, Nat)
    BY DEF OpToRel
  <2>. QED BY <1>1, <2>1
<1>. QED BY <1>2

\* Where two sorted partitions first differ, one of them has a row that the other left
\* out; so its score is the lowest, and those after it are no higher.
LEMMA OnlyTiesAreOpen ==
  ASSUME index \in Corpora, localCall.query \in Queries, NEW n \in Nat,
         NEW p \in Local!Partitions(n), NEW r \in Local!Partitions(n)
  PROVE  LET s == Local!Sorted(p)
             t == Local!Sorted(r)
         IN  /\ Local!Documents(s) = Local!Documents(t) => s = t
             /\ \A m \in 1..n : s[m] # t[m] => Local!Score(s[m]) = Local!Score(s[n])
<1> DEFINE s == Local!Sorted(p)
           t == Local!Sorted(r)
           size == Local!Size
           score(i) == Local!Score(i)
           differing == {m \in 1..n : s[m] # t[m]}
<1>1. /\ s \in [1..n -> 1..size] /\ t \in [1..n -> 1..size]
      /\ \A l, m \in 1..n : l < m => \/ score(s[l]) > score(s[m])
                                     \/ score(s[l]) = score(s[m]) /\ s[l] < s[m]
      /\ \A l, m \in 1..n : l < m => \/ score(t[l]) > score(t[m])
                                     \/ score(t[l]) = score(t[m]) /\ t[l] < t[m]
      /\ \A i \in 1..size : (\A m \in 1..n : s[m] # i) => \A m \in 1..n : score(s[m]) >= score(i)
      /\ \A i \in 1..size : (\A m \in 1..n : t[m] # i) => \A m \in 1..n : score(t[m]) >= score(i)
  BY SortedShape
<1>2. size \in Nat /\ \A i \in 1..size : score(i) \in Int
  BY BeforeIsTotal, CorporaAssumption DEF Local!Size
<1>3. \A m \in 1..n : score(s[m]) = score(t[m])
  <2>. SUFFICES ASSUME NEW m \in 1..n PROVE score(s[m]) = score(t[m])
    OBVIOUS
  <2>1. /\ Contract!Score(index, localCall.query, s[m]) <= Contract!Score(index, localCall.query, t[m])
        /\ Contract!Score(index, localCall.query, t[m]) <= Contract!Score(index, localCall.query, s[m])
    BY SortedIsBest, NoAnswerIsBetter
  <2>2. score(s[m]) <= score(t[m]) /\ score(t[m]) <= score(s[m])
    BY <2>1 DEF Contract!Score, Local!Score
  <2>3. score(s[m]) \in Int /\ score(t[m]) \in Int
    BY <1>1, <1>2
  <2>. QED BY <2>2, <2>3
<1>4. Local!Documents(s) = {s[m] : m \in 1..n} /\ Local!Documents(t) = {t[m] : m \in 1..n}
  BY <1>1 DEF Local!Documents
<1> HIDE DEF s, t, size, score
<1>5. \A l, m \in 1..n : l < m => score(s[l]) >= score(s[m]) /\ s[l] # s[m] /\ t[l] # t[m]
  <2>. SUFFICES ASSUME NEW l \in 1..n, NEW m \in 1..n, l < m
                PROVE  score(s[l]) >= score(s[m]) /\ s[l] # s[m] /\ t[l] # t[m]
    OBVIOUS
  <2>1. /\ s[l] \in Int /\ s[m] \in Int /\ t[l] \in Int /\ t[m] \in Int
        /\ score(s[l]) \in Int /\ score(s[m]) \in Int
        /\ score(t[l]) \in Int /\ score(t[m]) \in Int
    <3>1. s[l] \in 1..size /\ s[m] \in 1..size /\ t[l] \in 1..size /\ t[m] \in 1..size
      BY <1>1
    <3>. QED BY <1>2, <3>1
  <2>2. \/ score(s[l]) > score(s[m])
        \/ score(s[l]) = score(s[m]) /\ s[l] < s[m]
    BY <1>1
  <2>3. \/ score(t[l]) > score(t[m])
        \/ score(t[l]) = score(t[m]) /\ t[l] < t[m]
    BY <1>1
  <2>. QED BY <2>1, <2>2, <2>3
<1>6. CASE differing = {}
  <2>1. \A m \in 1..n : s[m] = t[m]
    BY <1>6
  <2>2. s = t
    BY <1>1, <2>1
  <2>. QED BY <2>1, <2>2 DEF s, t
<1>7. CASE differing # {}
  <2>1. PICK f \in differing : \A m \in differing : f <= m
    <3>1. differing \subseteq Nat
      OBVIOUS
    <3> HIDE DEF differing
    <3>. QED BY <1>7, <3>1, FirstPlace
  <2>2. f \in 1..n /\ s[f] # t[f] /\ \A m \in 1..n : m < f => s[m] = t[m]
    BY <2>1
  <2>3. s[f] \in 1..size /\ t[f] \in 1..size /\ score(s[f]) \in Int /\ score(s[f]) = score(t[f])
    BY <1>1, <1>2, <1>3, <2>2
  <2>4. (\A m \in 1..n : t[m] # s[f]) \/ (\A m \in 1..n : s[m] # t[f])
    <3>. SUFFICES ASSUME NEW l \in 1..n, t[l] = s[f], NEW m \in 1..n, s[m] = t[f] PROVE FALSE
      OBVIOUS
    <3>1. ~(l < f) /\ ~(m < f)
      BY <1>5, <2>2
    <3>2. l # f /\ m # f
      BY <2>2
    <3>3. f < l /\ f < m
      BY <2>2, <3>1, <3>2
    <3>4. t[f] < s[f] /\ s[f] < t[f]
      <4>1. score(t[l]) = score(s[f]) /\ score(s[m]) = score(t[f])
        OBVIOUS
      <4>. QED BY <1>1, <2>2, <2>3, <3>3, <4>1
    <3>. QED BY <1>2, <2>3, <3>4
  <2>5. n \in 1..n /\ score(s[n]) \in Int /\ score(s[n]) = score(t[n])
    BY <1>1, <1>2, <1>3, <2>2
  <2>6. score(s[f]) <= score(s[n])
    <3>1. CASE \A m \in 1..n : t[m] # s[f]
      BY <1>1, <2>3, <2>5, <3>1
    <3>2. CASE \A m \in 1..n : s[m] # t[f]
      BY <1>1, <2>3, <2>5, <3>2
    <3>. QED BY <2>4, <3>1, <3>2
  <2>7. ASSUME NEW m \in 1..n, s[m] # t[m] PROVE score(s[m]) = score(s[n])
    <3>1. score(s[m]) \in Int /\ f <= m
      BY <1>1, <1>2, <2>1, <2>7
    <3>2. score(s[f]) >= score(s[m]) /\ score(s[m]) >= score(s[n])
      <4>1. f < m => score(s[f]) >= score(s[m])
        BY <1>5, <2>2
      <4>2. m < n => score(s[m]) >= score(s[n])
        BY <1>5, <2>5
      <4>3. (f < m \/ f = m) /\ (m < n \/ m = n)
        BY <2>2, <3>1
      <4>. QED BY <2>3, <2>5, <3>1, <4>1, <4>2, <4>3
    <3>. QED BY <2>3, <2>5, <2>6, <3>1, <3>2
  <2>8. Local!Documents(s) # Local!Documents(t)
    <3>1. s[f] \in {s[m] : m \in 1..n} /\ t[f] \in {t[m] : m \in 1..n}
      BY <2>2
    <3>. QED BY <1>4, <2>4, <3>1
  <2>. QED BY <2>7, <2>8 DEF s, t, score
<1>. QED BY <1>6, <1>7

\* Whatever order argpartition leaves the rows in, a search of the NumPy store has one
\* answer but for which of the documents at the lowest score come back, for any corpus,
\* query and similarity.
THEOREM AnswersRepeat == Spec => []OnlyBoundaryTiesAreOpen
<1>1. LocalInv => OnlyBoundaryTiesAreOpen
  <2>. SUFFICES ASSUME LocalInv, Local!SearchAllowed,
                       NEW p \in Local!Partitions(Local!Effective(localCall.k)),
                       NEW r \in Local!Partitions(Local!Effective(localCall.k))
                PROVE  LET s == Local!Sorted(p)
                           t == Local!Sorted(r)
                       IN  /\ Local!Documents(s) = Local!Documents(t) => s = t
                           /\ \A m \in DOMAIN s : s[m] # t[m] =>
                                Local!Score(s[m]) = Local!Score(s[Local!Effective(localCall.k)])
    BY DEF OnlyBoundaryTiesAreOpen, Local!OnlyBoundaryTiesAreOpen, Local!Answers
  <2> DEFINE n == Local!Effective(localCall.k)
  <2>1. index \in Corpora /\ localCall.query \in Queries /\ localCall.k \in Int /\ localCall.k >= 1
    BY RankingsAgree, CallShape, CorporaAssumption DEF LocalInv, Local!SearchAllowed
  <2>2. Local!Size \in Nat
    BY <2>1, CorporaAssumption DEF Local!Size
  <2>3. n \in Nat
    BY <2>1, <2>2 DEF Local!Effective, Local!Contract!Smaller
  <2> HIDE DEF n
  <2>4. p \in Local!Partitions(n) /\ r \in Local!Partitions(n)
    BY DEF n
  <2>5. DOMAIN Local!Sorted(p) = 1..n
    BY <2>1, <2>3, <2>4, SortedShape
  <2>. QED BY <2>1, <2>3, <2>4, <2>5, OnlyTiesAreOpen DEF n
<1>. QED BY <1>1, ContractInit, ContractStep, InvInit, InvStep, PTL DEF Spec

\* The first n rows of all in the order of lexsort are a partition.
LEMMA PartitionsExist ==
  ASSUME index \in Corpora, localCall.query \in Queries, NEW n \in 0..Local!Size
  PROVE  Local!Partitions(n) # {}
<1> DEFINE size == Local!Size
           all == [i \in 1..size |-> i]
           s == Local!Sorted(all)
           first == [m \in 1..n |-> s[m]]
           score(i) == Local!Score(i)
<1>1. size \in Nat /\ n \in Nat /\ n <= size
  BY CorporaAssumption DEF Local!Size
<1>2. all \in Local!Partitions(size)
  BY DEF Local!Partitions
<1>3. /\ s \in [1..size -> 1..size]
      /\ \A l, m \in 1..size : l < m => \/ score(s[l]) > score(s[m])
                                        \/ score(s[l]) = score(s[m]) /\ s[l] < s[m]
  BY <1>1, <1>2, SortedShape
<1>4. \A i \in 1..size : score(i) \in Int
  BY <1>1, <1>2, BeforeIsTotal
<1> HIDE DEF s, size, all, score
<1>5. \A l, m \in 1..size : l < m => s[l] # s[m] /\ score(s[l]) >= score(s[m])
  <2>. SUFFICES ASSUME NEW l \in 1..size, NEW m \in 1..size, l < m
                PROVE  s[l] # s[m] /\ score(s[l]) >= score(s[m])
    OBVIOUS
  <2>1. s[l] \in Int /\ score(s[l]) \in Int /\ score(s[m]) \in Int
    BY <1>1, <1>3, <1>4
  <2>. QED BY <1>3, <2>1
<1>6. s \in Surjection(1..size, 1..size)
  <2>1. \A l, m \in 1..size : s[l] = s[m] => l = m
    <3> SUFFICES ASSUME NEW l \in 1..size, NEW m \in 1..size, s[l] = s[m], l # m PROVE FALSE
      OBVIOUS
    <3>1. l < m \/ m < l
      BY <1>1
    <3>. QED BY <1>5, <3>1
  <2>2. s \in Injection(1..size, 1..size)
    BY <1>3, <2>1 DEF Injection, IsInjective
  <2>3. IsFiniteSet(1..size) /\ Cardinality(1..size) = size
    BY <1>1, FS_Interval
  <2>. QED BY <2>2, <2>3, FS_Injection
<1>7. \A m \in 1..n : m \in 1..size
  BY <1>1
<1>8. /\ first \in [1..n -> 1..size]
      /\ \A l, m \in 1..n : first[l] = first[m] => l = m
  <2>1. first \in [1..n -> 1..size]
    BY <1>3, <1>7
  <2>2. ASSUME NEW l \in 1..n, NEW m \in 1..n, first[l] = first[m] PROVE l = m
    <3>1. s[l] = s[m] /\ ~(l < m) /\ ~(m < l)
      BY <1>5, <1>7, <2>2
    <3>. QED BY <1>1, <3>1
  <2>. QED BY <2>1, <2>2
<1>9. ASSUME NEW i \in 1..size, \A m \in 1..n : first[m] # i, NEW m \in 1..n
      PROVE  score(first[m]) >= score(i)
  <2>1. PICK l \in 1..size : i = s[l]
    BY <1>6 DEF Surjection
  <2>2. l \notin 1..n
    BY <1>9, <2>1
  <2>3. m < l /\ first[m] = s[m]
    BY <1>1, <1>7, <2>2
  <2>. QED BY <1>5, <1>7, <2>1, <2>3
<1> HIDE DEF first
<1>10. first \in Local!Partitions(n)
  BY <1>8, <1>9 DEF Local!Partitions, size, score
<1>. QED BY <1>10

\* A search that an in-process store does not refuse can be answered: argpartition has
\* rows to leave, the contract a best answer, whatever the corpus and the query.
THEOREM SearchesCanAnswer ==
  Spec => [](InProcess /\ Local!SearchAllowed =>
               /\ Local!Answers # {}
               /\ Contract!Best(index, localCall.query,
                                Contract!Smaller(localCall.k, Contract!Size(index))) # {})
<1>1. ASSUME LocalInv, Local!SearchAllowed
      PROVE  /\ Local!Answers # {}
             /\ Contract!Best(index, localCall.query,
                              Contract!Smaller(localCall.k, Contract!Size(index))) # {}
  <2> DEFINE n == Local!Effective(localCall.k)
  <2>1. index \in Corpora /\ localCall.query \in Queries /\ localCall.k \in Int /\ localCall.k >= 1
    BY <1>1, RankingsAgree, CallShape, CorporaAssumption DEF LocalInv, Local!SearchAllowed
  <2>2. Local!Size \in Nat /\ Local!Size = Contract!Size(index)
    BY <2>1, CorporaAssumption DEF Local!Size, Contract!Size
  <2>3. n \in 0..Local!Size /\ n = Contract!Smaller(localCall.k, Contract!Size(index))
    BY <2>1, <2>2 DEF Local!Effective, Local!Contract!Smaller, Contract!Smaller
  <2> HIDE DEF n
  <2>4. PICK p \in Local!Partitions(n) : TRUE
    BY <2>1, <2>3, PartitionsExist
  <2>5. Local!Sorted(p) \in Contract!Best(index, localCall.query, n)
    BY <2>1, <2>2, <2>3, <2>4, SortedIsBest
  <2>. QED BY <2>3, <2>4, <2>5 DEF n, Local!Answers
<1>. QED BY <1>1, ContractInit, ContractStep, InvInit, InvStep, PTL DEF Spec

=============================================================================
