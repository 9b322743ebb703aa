------------------------------ MODULE QdrantStore ------------------------------
(***************************************************************************)
(* QdrantVectorStore of vector_store.py: stores that name one collection   *)
(* of one Qdrant endpoint, which an operation reads and writes in several  *)
(* requests.  A request may be answered, refused by the server, or lost,   *)
(* and a lost one may have been carried out; the error leaves the          *)
(* operation where it stands.                                              *)
(***************************************************************************)
EXTENDS Integers, Sequences, FiniteSets

CONSTANTS
  Stores,         \* store objects, in any processes
  Environments,   \* [users, lossy]: which stores name the collection, and whether
                  \* requests get lost
  MaxCalls,       \* bound: calls that are made
  Corpora, Queries, Ks, Similarity,     \* as in VectorStore
  Unset           \* None in _dim

VARIABLES
  env,            \* the environment, which does not change
  collection,     \* on the server: Missing, or [dim, rows], row i with id i
  dim,            \* _dim of each store
  pc,             \* request each store is about to make
  call,           \* arguments of its call
  reply,          \* what its last call returned or raised
  limit,          \* k_eff of its search
  calls,          \* number of calls made
  before,         \* what it held when its call began
  disturbed       \* the collection has changed since the store counted it

vars == <<env, collection, dim, pc, call, reply, limit, calls, before, disturbed>>

Missing == [dim |-> 0, rows |-> << >>]

Exists == collection # Missing

View(s) == IF dim[s] = Unset THEN Unset ELSE collection

Adding(s) == pc[s] \in {"exists", "delete", "create", "upsert"}

\* "This store owns the collection it names."
Owned == Cardinality(env.users) = 1

Owner == CHOOSE s \in env.users : TRUE

\* What the store holds in the eyes of its caller: an add shows when it is over.
Held(s) == IF Adding(s) THEN before[s] ELSE View(s)

Contract == INSTANCE VectorStore WITH held <- Held(Owner), call <- call[Owner],
                                      reply <- reply[Owner]

Failed == Contract!Outcome("failed")

Init == /\ env \in Environments
        /\ collection = Missing
        /\ dim = [s \in Stores |-> Unset]
        /\ pc = [s \in Stores |-> "idle"]
        /\ call = [s \in Stores |-> Contract!NoCall]
        /\ reply = [s \in Stores |-> Contract!Outcome("none")]
        /\ limit = [s \in Stores |-> 0]
        /\ calls = 0
        /\ before = [s \in Stores |-> Unset]
        /\ disturbed = [s \in Stores |-> FALSE]

-----------------------------------------------------------------------------

Goto(s, label) == pc' = [pc EXCEPT ![s] = label]

\* The call of s returns or raises r.
Return(s, r) == /\ reply' = [reply EXCEPT ![s] = r]
                /\ call' = [call EXCEPT ![s] = Contract!NoCall]
                /\ before' = [before EXCEPT ![s] = Unset]
                /\ limit' = [limit EXCEPT ![s] = 0]
                /\ Goto(s, "idle")

\* The call of s goes on with request label.
Proceed(s, label) == Goto(s, label) /\ UNCHANGED <<reply, call, before>>

\* The server leaves col behind.
Server(col) ==
  /\ collection' = col
  /\ disturbed' = [s \in Stores |-> disturbed[s] \/ col # collection]

ServerUnchanged == UNCHANGED <<collection, disturbed>>

Begin(s) ==
  /\ pc[s] = "idle"
  /\ calls < MaxCalls
  /\ calls' = calls + 1
  /\ \E c \in Contract!Calls \ {Contract!NoCall} :
       /\ call' = [call EXCEPT ![s] = c]
       /\ Goto(s, IF c.op = "add" THEN "exists" ELSE "begun")
  /\ before' = [before EXCEPT ![s] = View(s)]
  /\ ServerUnchanged
  /\ UNCHANGED <<dim, reply, limit>>

\* The calls that end before they make a request: an array that
\* _as_2d_float32 refuses, a search before the first add or with a k or a
\* dimension it cannot have, and a reset with nothing to delete.
EndWithoutRequest(s) ==
  /\ pc[s] = "begun"
  /\ LET c      == call[s]
         search == c.op \in {"search", "badSearch"}
     IN  \/ /\ search /\ dim[s] = Unset
            /\ Return(s, Contract!Outcome("RuntimeError"))
         \/ /\ \/ c.op = "badAdd"
               \/ c.op = "badSearch" /\ dim[s] # Unset
               \/ c.op = "search" /\ dim[s] # Unset /\ (c.k < 1 \/ c.query.dim # dim[s])
            /\ Return(s, Contract!Outcome("ValueError"))
         \/ /\ c.op = "reset" /\ dim[s] = Unset
            /\ Return(s, Contract!Outcome("done"))
  /\ ServerUnchanged
  /\ UNCHANGED <<dim, calls>>

-----------------------------------------------------------------------------
(* add                                                                     *)

\* Faulty: a collection that is there is taken as it is.
CheckExists_KeepsOld(s) ==
  /\ pc[s] = "exists"
  /\ IF Exists /\ collection.dim = call[s].corpus.dim
     THEN dim' = [dim EXCEPT ![s] = collection.dim] /\ Proceed(s, "upsert")
     ELSE UNCHANGED dim /\ Proceed(s, IF Exists THEN "delete" ELSE "create")
  /\ ServerUnchanged
  /\ UNCHANGED <<limit, calls>>

\* Faulty: _dim is set before the collection is replaced.
CheckExists_DimEarly(s) ==
  /\ pc[s] = "exists"
  /\ dim' = [dim EXCEPT ![s] = call[s].corpus.dim]
  /\ Proceed(s, IF Exists THEN "delete" ELSE "create")
  /\ ServerUnchanged
  /\ UNCHANGED <<limit, calls>>

CheckExists(s) ==
  /\ pc[s] = "exists"
  /\ Proceed(s, IF Exists THEN "delete" ELSE "create")
  /\ ServerUnchanged
  /\ UNCHANGED <<dim, limit, calls>>

\* delete_collection does not mind a collection that is gone.
Delete(s) ==
  /\ pc[s] = "delete"
  /\ Server(Missing)
  /\ Proceed(s, "create")
  /\ UNCHANGED <<dim, limit, calls>>

\* What create_collection and upsert leave on the server, if it accepts them.
Created(s) == [dim |-> call[s].corpus.dim, rows |-> << >>]

Upserted(s) ==
  LET new == call[s].corpus.rows
      old == collection.rows
  IN  [collection EXCEPT !.rows =
         [i \in DOMAIN old \cup DOMAIN new |-> IF i \in DOMAIN new THEN new[i] ELSE old[i]]]

Upsertable(s) == collection.dim = call[s].corpus.dim

\* _dim is set, and an add without rows is over.
Create(s) ==
  /\ pc[s] = "create" /\ ~Exists
  /\ Server(Created(s))
  /\ dim' = [dim EXCEPT ![s] = call[s].corpus.dim]
  /\ IF call[s].corpus.rows = << >>
     THEN Return(s, Contract!Outcome("done"))
     ELSE Proceed(s, "upsert") /\ UNCHANGED limit
  /\ UNCHANGED calls

Upsert(s) ==
  /\ pc[s] = "upsert" /\ Upsertable(s)
  /\ Server(Upserted(s))
  /\ Return(s, Contract!Outcome("done"))
  /\ UNCHANGED <<dim, calls>>

\* The collection was created, deleted or replaced by another store meanwhile.
AddRefused(s) ==
  /\ \/ pc[s] = "create" /\ Exists
     \/ pc[s] = "upsert" /\ ~Upsertable(s)
  /\ Return(s, Failed)
  /\ ServerUnchanged
  /\ UNCHANGED <<dim, calls>>

-----------------------------------------------------------------------------
(* search                                                                  *)

SearchAllowed(s) == /\ pc[s] = "begun" /\ call[s].op = "search"
                    /\ dim[s] # Unset
                    /\ call[s].k >= 1 /\ call[s].query.dim = dim[s]

\* Faulty: k itself is the row width.
Effective_AsAsked(k) == k

\* k_eff, the row width, from the count just taken.
Effective(k) == Contract!Smaller(k, Contract!Size(collection))

\* count() gives the row width; an empty collection is not asked any more.
Count(s) ==
  /\ SearchAllowed(s) /\ Exists
  /\ IF collection.rows = << >>
     THEN Return(s, Contract!Rows(<< >>)) /\ UNCHANGED disturbed
     ELSE /\ limit' = [limit EXCEPT ![s] = Effective(call[s].k)]
          /\ disturbed' = [disturbed EXCEPT ![s] = FALSE]
          /\ Proceed(s, "query")
  /\ UNCHANGED <<collection, dim, calls>>

\* The server answers with the best rows it has now, and the row is padded up
\* to the width that was counted.
Query(s) ==
  /\ pc[s] = "query"
  /\ collection.dim = call[s].query.dim
  /\ LET found == Contract!Smaller(limit[s], Contract!Size(collection))
     IN  \E best \in Contract!Best(collection, call[s].query, found) :
           Return(s, Contract!Rows([n \in 1..limit[s] |-> IF n <= found THEN best[n] ELSE 0]))
  /\ ServerUnchanged
  /\ UNCHANGED <<dim, calls>>

\* The collection was dropped, or replaced by one of another dimension.
SearchFails(s) ==
  /\ \/ SearchAllowed(s) /\ ~Exists
     \/ pc[s] = "query" /\ collection.dim # call[s].query.dim
  /\ Return(s, Failed)
  /\ ServerUnchanged
  /\ UNCHANGED <<dim, calls>>

-----------------------------------------------------------------------------
(* reset                                                                   *)

\* A delete that fails is logged, carried out or not, and _dim is cleared.
Drop(s) ==
  /\ pc[s] = "begun" /\ call[s].op = "reset"
  /\ dim[s] # Unset
  /\ Server(Missing) \/ (env.lossy /\ ServerUnchanged)
  /\ dim' = [dim EXCEPT ![s] = Unset]
  /\ Return(s, Contract!Outcome("done"))
  /\ UNCHANGED calls

-----------------------------------------------------------------------------

\* A request of an add or a search is lost, on its way there or on its way
\* back, and the exception leaves the call.
RequestLost(s) ==
  /\ env.lossy
  /\ Adding(s) \/ SearchAllowed(s) \/ pc[s] = "query"
  /\ \/ ServerUnchanged
     \/ pc[s] = "delete" /\ Server(Missing)
     \/ pc[s] = "create" /\ ~Exists /\ Server(Created(s))
     \/ pc[s] = "upsert" /\ Upsertable(s) /\ Server(Upserted(s))
  /\ Return(s, Failed)
  /\ UNCHANGED <<dim, calls>>

Next == /\ \E s \in env.users :
             \/ Begin(s) \/ EndWithoutRequest(s)
             \/ CheckExists(s) \/ Delete(s) \/ Create(s) \/ Upsert(s) \/ AddRefused(s)
             \/ Count(s) \/ Query(s) \/ SearchFails(s)
             \/ Drop(s) \/ RequestLost(s)
        /\ UNCHANGED env

Spec == Init /\ [][Next]_vars

-----------------------------------------------------------------------------
(* Properties                                                              *)

Labels == {"idle", "begun", "exists", "delete", "create", "upsert", "query"}

Dims    == {c.dim : c \in Corpora}
Vectors == UNION {{c.rows[i] : i \in DOMAIN c.rows} : c \in Corpora}

Collections == [dim : Dims \cup {0}, rows : Seq(Vectors)]

\* What is on the server, and what the stores remember of it, has its shape, and a
\* store makes the requests of the call it is in.
TypeOK == /\ env \in Environments
          /\ collection \in Collections
          /\ dim \in [Stores -> Dims \cup {Unset}]
          /\ pc \in [Stores -> Labels]
          /\ call \in [Stores -> Contract!Calls]
          /\ DOMAIN reply = Stores
          /\ limit \in [Stores -> Nat]
          /\ calls \in 0..MaxCalls
          /\ before \in [Stores -> Collections \cup {Unset}]
          /\ disturbed \in [Stores -> BOOLEAN]
          /\ \A s \in Stores : /\ pc[s] = "idle" => call[s] = Contract!NoCall
                               /\ Adding(s) => call[s].op = "add"
                               /\ pc[s] = "begun" => call[s].op \notin {"add", "none"}
                               /\ pc[s] = "query" => call[s].op = "search"

\* "That happens when the collection changes between the count and the query":
\* a row is padded for no other reason, whoever writes the collection and
\* whichever requests get lost.
PaddedOnlyIfDisturbed ==
  [][\A s \in Stores :
       /\ pc[s] = "query" /\ pc'[s] = "idle" /\ reply'[s].kind = "rows"
       /\ \E n \in DOMAIN reply'[s].rows : reply'[s].rows[n] = 0
       => disturbed[s]]_vars

\* The owner's add that ends well installs its corpus and nothing else, whatever
\* failed adds and resets before it have left on the server.
AddInstallsItsCorpus ==
  [][\A s \in env.users : Owned /\ call[s].op = "add" /\ reply'[s].kind = "done" /\ pc'[s] = "idle" =>
       collection' = call[s].corpus /\ dim'[s] = collection'.dim]_vars

\* Under one owner the server never holds rows of two corpora, nor part of one.
CorporaAreNotMixed ==
  Owned /\ collection.rows # << >> => collection \in Corpora

\* The owner's query goes to a collection of its dimension: _dim never belongs to another
\* corpus than the rows on the server.
QueriesFitTheCollection ==
  Owned => \A s \in env.users : pc[s] = "query" => collection.dim = call[s].query.dim

\* No property: an answer of the owner's store comes from a corpus that some add has
\* installed.  An add that fails between create_collection and upsert leaves an empty
\* collection, and a search then answers with no rows instead of raising.
AnswersComeFromCorpora ==
  [][\A s \in env.users :
       Owned /\ call[s].op = "search" /\ reply'[s].kind = "rows" /\ pc'[s] = "idle" =>
         collection \in Corpora]_vars

=============================================================================
