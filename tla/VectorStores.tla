------------------------------ MODULE VectorStores ------------------------------
(***************************************************************************)
(* get_vector_store of vector_store.py and the store it returns: whichever *)
(* backend that is, its caller deals with one VectorStoreProtocol.         *)
(***************************************************************************)
EXTENDS Integers, FiniteSets, Sequences

CONSTANTS
  Corpora, Queries, Ks, Similarity, Unset,    \* as in VectorStore
  Stores, Environments, MaxCalls              \* as in QdrantStore

VARIABLES
  backend,                                    \* class of the store returned
  index, localCall, localReply,               \* an in-process store
  env, collection, dim, pc, call, reply,      \* a store that talks to Qdrant, and
  limit, calls, before, disturbed             \* others that do

Local == INSTANCE LocalStore WITH call <- localCall, reply <- localReply

Qdrant == INSTANCE QdrantStore

ASSUME CorporaAssumption ==
  /\ \A c \in Corpora : c \in [dim : Nat \ {0}, rows : Seq(Qdrant!Vectors)]
  /\ \A q \in Queries : q.dim \in Nat
  /\ Ks \subseteq Int
  /\ Unset \notin Corpora /\ Unset \notin Nat

\* Vectors are finite, so any two scores can be compared.
ASSUME SimilarityAssumption ==
  \A q \in Queries, v \in Qdrant!Vectors : Similarity[<<q.vector, v>>] \in Int

ASSUME StoresAssumption ==
  /\ IsFiniteSet(Stores) /\ MaxCalls \in Nat
  /\ Environments \subseteq [users : (SUBSET Stores) \ {{}}, lossy : BOOLEAN]

localVars  == <<index, localCall, localReply>>
qdrantVars == <<env, collection, dim, pc, call, reply, limit, calls, before, disturbed>>
vars       == <<backend, localVars, qdrantVars>>

\* The backend that get_vector_store returns, if it does not raise: the argument
\* `backend`, whether `collection` is given, and FAISS_AVAILABLE.
Returned(requested, named, faissAvailable) ==
  {b \in {"numpy", "faiss", "qdrant"} :
     /\ named <=> b = "qdrant"
     /\ b = "faiss" => faissAvailable
     /\ \/ requested = b
        \/ requested = "auto" /\ b = IF faissAvailable THEN "faiss" ELSE "numpy"}

Init == /\ \E requested \in {"auto", "numpy", "faiss", "qdrant"}, n, f \in BOOLEAN :
             backend \in Returned(requested, n, f)
        /\ Local!Init
        /\ Qdrant!Init

LocalNext  == backend # "qdrant" /\ Local!Next /\ UNCHANGED qdrantVars

QdrantNext == backend = "qdrant" /\ Qdrant!Next /\ UNCHANGED <<backend, localVars>>

Next == LocalNext \/ QdrantNext

Spec == Init /\ [][Next]_vars

-----------------------------------------------------------------------------
(* Properties                                                              *)

\* Of the NumPy store: the same corpus and query have the same answer, but for which of
\* the documents at the lowest score come back.
OnlyBoundaryTiesAreOpen == Local!OnlyBoundaryTiesAreOpen

\* Of the Qdrant store, whoever else writes the collection: a row is padded only
\* if the collection changed under the search.
PaddedOnlyIfDisturbed == Qdrant!PaddedOnlyIfDisturbed

\* Of the Qdrant store that owns its collection, with requests lost: an add that
\* returns has installed its corpus, whole;
AddInstallsItsCorpus == Qdrant!AddInstallsItsCorpus

\* and whatever was lost, the server holds no rows but one corpus, whole, and a query
\* never meets a collection of another dimension.
OwnerSeesOneCorpus == Qdrant!CorporaAreNotMixed /\ Qdrant!QueriesFitTheCollection

InProcess == backend # "qdrant"

\* The store returned, as its caller sees it.
Contract == INSTANCE VectorStore WITH
  held  <- IF InProcess THEN index ELSE Qdrant!Held(Qdrant!Owner),
  call  <- IF InProcess THEN localCall ELSE call[Qdrant!Owner],
  reply <- IF InProcess THEN localReply ELSE reply[Qdrant!Owner]

\* The docstring's conditions on Qdrant: one owner; and the server answers.
Undisturbed == InProcess \/ (Qdrant!Owned /\ ~env.lossy)

\* Swapping the store "is then a config change, not a rewrite": whatever
\* get_vector_store returns keeps the promises of VectorStoreProtocol: the rows are
\* distinct, the best ones, best first, min(k, size) of them and never padded.  A
\* Qdrant store does so where it owns its collection and its requests are answered.
ImplementsContract ==
  Contract!Init /\ [][Undisturbed => Contract!Next]_(Contract!vars)

=============================================================================
