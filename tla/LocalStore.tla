------------------------------- MODULE LocalStore -------------------------------
(***************************************************************************)
(* The two in-process stores of vector_store.py.  NumpyVectorStore and     *)
(* FAISSVectorStore take the same steps in the same order; they differ in  *)
(* how the best rows are found.                                            *)
(***************************************************************************)
EXTENDS Integers, Sequences, FiniteSets

CONSTANTS
  Corpora, Queries, Ks, Similarity, Unset         \* as in VectorStore

VARIABLES
  backend,    \* the class of the store, "numpy" or "faiss"
  index,      \* _matrix or _index; Unset for None
  call, reply

vars == <<backend, index, call, reply>>

Contract == INSTANCE VectorStore WITH held <- index

Size == Len(index.rows)

Score(i) == Similarity[<<call.query.vector, index.rows[i]>>]

Init == Contract!Init

Begin == /\ call = Contract!NoCall
         /\ call' \in Contract!Calls \ {Contract!NoCall}
         /\ UNCHANGED <<backend, index, reply>>

Return(r) == reply' = r /\ call' = Contract!NoCall /\ UNCHANGED backend

Raise(error) == Return(Contract!Outcome(error)) /\ UNCHANGED index

-----------------------------------------------------------------------------

\* _as_2d_float32 refuses the array.
AddRefused == call.op = "badAdd" /\ Raise("ValueError")

\* Faulty: the old index is dropped before the new one is built.
AddFails_DropsFirst == /\ call.op = "add"
                       /\ index' = Unset
                       /\ Return(Contract!Outcome("failed"))

\* Normalising or building the new index raises, and the old one stays.
AddFails == call.op = "add" /\ Raise("failed")

\* The new index is bound in the last statement.
Add == /\ call.op = "add"
       /\ index' = call.corpus
       /\ Return(Contract!Outcome("done"))

-----------------------------------------------------------------------------

SearchBeforeAdd == call.op \in {"search", "badSearch"} /\ index = Unset /\ Raise("RuntimeError")

\* k, the array and its dimension are checked, in this order.
SearchRefused ==
  /\ call.op \in {"search", "badSearch"} /\ index # Unset
  /\ call.op = "search" => call.k < 1 \/ call.query.dim # index.dim
  /\ Raise("ValueError")

SearchAllowed == /\ call.op = "search" /\ index # Unset
                 /\ call.k >= 1 /\ call.query.dim = index.dim

SearchEmpty == /\ SearchAllowed
               /\ Size = 0
               /\ Return(Contract!Rows(<< >>))
               /\ UNCHANGED index

\* argpartition(-similarities, k - 1)[:k]: some k rows that no other row beats, in
\* any order.
Partitions(k) ==
  {p \in [1..k -> 1..Size] :
     /\ \A l, m \in 1..k : p[l] = p[m] => l = m
     /\ \A i \in 1..Size : (\A m \in 1..k : p[m] # i) => \A m \in 1..k : Score(p[m]) >= Score(i)}

\* Faulty: a stable sort on the score leaves ties where the partition put them.
Before_ScoreOnly(p, l, m) ==
  Score(p[l]) > Score(p[m]) \/ (Score(p[l]) = Score(p[m]) /\ l < m)

\* Place l of the partition goes before place m: on the score, descending, then on the
\* row number.
Before(p, l, m) ==
  Score(p[l]) > Score(p[m]) \/ (Score(p[l]) = Score(p[m]) /\ p[l] < p[m])

\* lexsort: the places of the partition in that order, which take_along_axis follows.
Lexsort(p) == CHOOSE o \in [DOMAIN p -> DOMAIN p] :
                \A l, m \in DOMAIN p : l < m => Before(p, o[l], o[m])

Sorted(p) == [n \in DOMAIN p |-> p[Lexsort(p)[n]]]

\* IndexFlatIP.search pads with -1 up to the k it is asked for.
FlatSearch(k) == LET n == Contract!Smaller(k, Size)
                 IN  {s \o [m \in 1..(k - n) |-> 0] : s \in Contract!Best(index, call.query, n)}

\* Faulty: k is passed on as it came.
Effective_AsAsked(k) == k

\* k_eff
Effective(k) == Contract!Smaller(k, Size)

\* What NumPy may answer.
Answers == {Sorted(p) : p \in Partitions(Effective(call.k))}

NumpySearch == /\ backend = "numpy"
               /\ SearchAllowed /\ Size > 0
               /\ \E s \in Answers : Return(Contract!Rows(s))
               /\ UNCHANGED index

FaissSearch == /\ backend = "faiss"
               /\ SearchAllowed /\ Size > 0
               /\ \E s \in FlatSearch(Effective(call.k)) : Return(Contract!Rows(s))
               /\ UNCHANGED index

-----------------------------------------------------------------------------

\* faiss's own reset may raise, which is logged; the reference is dropped anyway.
Reset == /\ call.op = "reset"
         /\ index' = Unset
         /\ Return(Contract!Outcome("done"))

Next == \/ Begin \/ AddRefused \/ AddFails \/ Add
        \/ SearchBeforeAdd \/ SearchRefused \/ SearchEmpty
        \/ NumpySearch \/ FaissSearch \/ Reset

Spec == Init /\ [][Next]_vars

-----------------------------------------------------------------------------
(* Property                                                                *)

Documents(s) == {s[n] : n \in DOMAIN s}

\* "What every backend does guarantee is repeatability", NumPy by its sort: in whatever
\* order argpartition leaves the rows, answers that name the same documents are one
\* answer, and any two differ only at the lowest score, which more documents may share
\* than there are slots left.
OnlyBoundaryTiesAreOpen ==
  backend = "numpy" /\ SearchAllowed /\ Size > 0 =>
    \A s, t \in Answers :
      /\ Documents(s) = Documents(t) => s = t
      /\ \A n \in DOMAIN s : s[n] # t[n] => Score(s[n]) = Score(s[Effective(call.k)])

=============================================================================
