-------------------------------- MODULE MCServe --------------------------------
(* An instance of Serve for TLC: three requests overlap on corpora of different *)
(* sizes with documents in common, and meet every kind of environment and of     *)
(* request, with a change of the environment between any two steps.              *)
EXTENDS Serve, TLC

CONSTANTS r1, r2, r3

\* {"query":"p","k":1}
Query(key, k) ==
  [op |-> "query", length |-> 19, key |-> key, query |-> [vector |-> "p"], k |-> k]

Index(docs, length) == [op |-> "index", length |-> length, key |-> "k1", docs |-> docs]

MCSimilarity == [x \in {"p"} \X {"a", "b", "c"} |->
                   CASE x[2] = "a" -> 2 [] x[2] = "b" -> 1 [] x[2] = "c" -> 1]

Garbled(key) == [op |-> "garbled", length |-> 19, key |-> key]

\* Corpora that are answered from, of {"documents":["a"]} and so on, and what is wrong
\* with a request: a header that is missing or no number, no documents, another key,
\* a k of 0, no JSON.
MCMessages == {Index(<<"a">>, 19), Index(<<"c", "b">>, 23), Index(<<"b", "a">>, Unset),
               Index(<<"a">>, Junk), Index(<< >>, 16),
               Query("k1", 1), Query("k1", 5), Query("k2", 1), Query("k1", 0), Garbled("k2")}

Env(key, body, docs) == [key |-> key, maxBody |-> body, maxDocs |-> docs]

\* No key, one that cannot be used, and two; bounds that are not set, are no
\* number, are no bound, turn the second corpus away, or everybody.
MCEnvironments == {Env("k2", Junk, 0),
                   Env(NoKey, Unset, Unset), Env(OddKey, Unset, Unset),
                   Env("k1", 0, 1), Env("k1", 19, Junk), Env("k1", 1, Unset)}

Symmetry == Permutations(Requests)
=============================================================================
