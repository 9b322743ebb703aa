-------------------------------- MODULE Ranking --------------------------------
(***************************************************************************)
(* Which rows of a corpus answer a query.  A corpus is [dim, rows], a      *)
(* query [dim, vector]; Similarity gives the score of a query's vector and *)
(* a row's, so normalisation and the inner product are part of it.  Rows   *)
(* are numbered from 1 and 0 stands for the padding index -1.              *)
(***************************************************************************)
EXTENDS Integers, Sequences

CONSTANT Similarity     \* score of each <<vector of a query, vector of a row>>

Smaller(a, b) == IF a < b THEN a ELSE b

Size(c) == Len(c.rows)

Score(c, q, i) == Similarity[<<q.vector, c.rows[i]>>]

\* Sequences of `width` rows of c, best first, that no row left out beats.
Best(c, q, width) ==
  {s \in [1..width -> 1..Size(c)] :
     /\ \A m, n \in 1..width : m < n => s[m] # s[n] /\ Score(c, q, s[m]) >= Score(c, q, s[n])
     /\ \A i \in 1..Size(c) : (\A n \in 1..width : s[n] # i) =>
          \A n \in 1..width : Score(c, q, s[n]) >= Score(c, q, i)}
=============================================================================
