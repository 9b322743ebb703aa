----------------------------- MODULE MCVectorStores -----------------------------
(* Instances of VectorStores for TLC.  Vectors u, v and w are at three distances *)
(* from query p, and v ties with w from query q.  The corpora repeat them, so    *)
(* ties fall inside the answer and across its end, and each adds rows to, takes  *)
(* rows from or changes the dimension of another.                                *)
EXTENDS VectorStores

CONSTANTS s1, s2

Vector(d, s) == [dim |-> d, vector |-> s]

MCQueries == {Vector(2, "p"), Vector(2, "q"), Vector(3, "p")}

Corpus(d, s) == [dim |-> d, rows |-> s]

MCCorpora == {Corpus(2, <<"u">>), Corpus(2, <<"v", "u", "w", "v">>), Corpus(3, <<"w">>),
              Corpus(2, << >>)}

MCSimilarity == [x \in {"p", "q"} \X {"u", "v", "w"} |->
                   CASE x = <<"p", "u">> -> 2
                     [] x = <<"p", "v">> -> 1
                     [] x = <<"p", "w">> -> -1
                     [] x = <<"q", "u">> -> 0
                     [] OTHER -> 1]

Alone(lossy) == [users |-> {s1}, lossy |-> lossy]

\* One owner, with the server answering or not, and two stores on one collection.
MCEnvironments == {Alone(FALSE), Alone(TRUE), [users |-> {s1, s2}, lossy |-> TRUE]}
=============================================================================
