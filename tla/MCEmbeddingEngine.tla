--------------------------- MODULE MCEmbeddingEngine ---------------------------
(* Instances of EmbeddingEngine for TLC.  Texts x and xw are different       *)
(* strings with one normal form (the "full-width" x); y is another one.       *)
EXTENDS EmbeddingEngine

CONSTANTS t1, t2, x, xw, y

ThreeTexts == {x, xw, y}

MCNFKC == [s \in ThreeTexts |-> IF s = xw THEN x ELSE s]

On(ns, s) == [namespace |-> ns, texts |-> s]

\* A key twice in a batch, as two strings, one text in two namespaces, and more
\* keys than the smallest cache can hold.
MixedBatches == {On("a", <<y, x>>), On("b", <<x, xw>>)}

\* A size that all batches together exceed, one that can be halved twice, and one
\* that int() accepts and nothing refuses.
Sizes == {2, 4, -1}

OneText == {On("a", <<x>>)}

NoEntry == {0}
=============================================================================
