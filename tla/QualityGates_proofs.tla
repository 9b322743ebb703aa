-------------------------- MODULE QualityGates_proofs --------------------------
(***************************************************************************)
(* Proofs about QualityGates: the retrieval floors, for every number of    *)
(* queries up to 166 and every way the queries may slip, the groundedness  *)
(* of any finite answer under any documents, the floors of the generation  *)
(* gate, and the replay of any registry, whatever the other scripts do     *)
(* meanwhile.                                                              *)
(***************************************************************************)
EXTENDS QualityGates, FiniteSetTheorems, SequenceTheorems, TLAPS

\* Rounding down to thousandths loses less than one of them.
LEMMA Division ==
  ASSUME NEW a \in Nat, NEW n \in Nat \ {0}
  PROVE  /\ a \div n \in Nat
         /\ (a \div n) * n <= a
         /\ a < (a \div n) * n + n
  BY SMT

\* Each floor lies below its score, by less than a thousandth.
Tight(f, n) ==
  /\ f.recall \in Nat /\ f.mrr \in Nat
  /\ f.recall * n <= 1000 * (n - 1)
  /\ 1000 * (n - 1) < f.recall * n + n
  /\ f.mrr * (2 * n) <= 1000 * (2 * n - 1)
  /\ 1000 * (2 * n - 1) < f.mrr * (2 * n) + 2 * n

\* The derived floors are fractions, and tight.
LEMMA DerivedBounds ==
  \A n \in Nat \ {0} : Derived(n) \in Thresholds /\ Tight(Derived(n), n)
<1> TAKE n \in Nat \ {0}
<1> DEFINE p == (1000 * (n - 1)) \div n
           q == (1000 * (2 * n - 1)) \div (2 * n)
<1>1. /\ 1000 * (n - 1) \in Nat /\ 1000 * (2 * n - 1) \in Nat
      /\ 2 * n \in Nat \ {0}
  OBVIOUS
<1>2. p \in Nat /\ p * n <= 1000 * (n - 1) /\ 1000 * (n - 1) < p * n + n
  BY <1>1, Division
<1>3. q \in Nat /\ q * (2 * n) <= 1000 * (2 * n - 1) /\ 1000 * (2 * n - 1) < q * (2 * n) + 2 * n
  <2> DEFINE A == 1000 * (2 * n - 1)
             B == 2 * n
  <2>1. A \in Nat /\ B \in Nat \ {0}
    BY <1>1
  <2> HIDE DEF A, B
  <2>2. A \div B \in Nat /\ (A \div B) * B <= A /\ A < (A \div B) * B + B
    BY <2>1, Division
  <2> QED
    BY <2>2 DEF A, B
<1>4. p <= 1000
  <2>1. SUFFICES ASSUME p >= 1001 PROVE FALSE
    BY <1>2
  <2>2. p * n >= 1001 * n
    BY <1>2, <2>1
  <2> QED
    BY <1>2, <2>2
<1>5. q <= 1000
  <2>1. SUFFICES ASSUME q >= 1001 PROVE FALSE
    BY <1>3
  <2>2. q * (2 * n) >= 1001 * (2 * n)
    BY <1>3, <2>1
  <2> QED
    BY <1>3, <2>2
<1>6. Derived(n) = [recall |-> p, mrr |-> q]
  BY DEF Derived, Thousandths
<1>7. Derived(n) \in Thresholds
  BY <1>2, <1>3, <1>4, <1>5, <1>6 DEF Thresholds
<1>8. Tight(Derived(n), n)
  BY <1>2, <1>3, <1>6 DEF Tight
<1> QED
  BY <1>7, <1>8

-----------------------------------------------------------------------------

\* The shape of the state, with N bounded: a fixture is never empty, and never larger
\* than the rounding of the floors allows.
THEOREM TypeCorrect == Spec => []RankTypes
<1>1. Init => RankTypes
  <2> SUFFICES ASSUME NEW n \in 1..MaxQueries,
                      found = [r \in Ranks |-> IF r = 1 THEN n ELSE 0],
                      thresholds = Derived(n)
               PROVE  RankTypes
    BY DEF Init, RankInit
  <2>1. found \in [Ranks -> Nat] /\ N = n
    BY MaxQueriesAssumption DEF Ranks, K, N
  <2>2. thresholds \in Thresholds
    <3>1. n \in Nat \ {0}
      BY MaxQueriesAssumption
    <3> QED
      BY <3>1, DerivedBounds
  <2> QED
    BY <2>1, <2>2 DEF RankTypes
<1>2. RankTypes /\ [Next]_vars => RankTypes'
  <2> SUFFICES ASSUME RankTypes, [Next]_vars PROVE RankTypes'
    OBVIOUS
  <2> USE MaxQueriesAssumption DEF RankTypes
  <2>1. ASSUME NEW r \in Ranks, NEW s \in Ranks, Slip(r, s) PROVE RankTypes'
    <3>1. found' \in [Ranks -> Nat]
      BY <2>1 DEF Slip
    <3>2. N' = N
      <4>1. /\ r # s
            /\ found' = [i \in Ranks |-> IF i = r THEN found[i] - 1
                                        ELSE IF i = s THEN found[i] + 1 ELSE found[i]]
        BY <2>1 DEF Slip
      <4>2. r \in {0, 1, 2, 3} /\ s \in {0, 1, 2, 3} /\ Ranks = {0, 1, 2, 3}
        BY DEF Ranks, K
      <4>3. \A i \in Ranks : found[i] \in Nat
        OBVIOUS
      <4> QED
        BY <4>1, <4>2, <4>3 DEF N
    <3> QED
      BY <2>1, <3>1, <3>2 DEF Slip
  <2>2. ASSUME NEW r \in Ranks, AddQuery(r) PROVE RankTypes'
    <3>1. found' \in [Ranks -> Nat]
      BY <2>2 DEF AddQuery
    <3>2. N' = N + 1
      BY <2>2 DEF AddQuery, N, Ranks, K
    <3> QED
      BY <2>2, <3>1, <3>2 DEF AddQuery
  <2>3. ASSUME NEW r \in Ranks, DropQuery(r) PROVE RankTypes'
    <3>1. found' \in [Ranks -> Nat]
      BY <2>3 DEF DropQuery
    <3>2. N' = N - 1
      BY <2>3 DEF DropQuery, N, Ranks, K
    <3> QED
      BY <2>3, <3>1, <3>2 DEF DropQuery
  <2>4. CASE Derive
    <3>1. N \in Nat \ {0}
      OBVIOUS
    <3>2. thresholds' = Derived(N)
      BY <2>4 DEF Derive
    <3>3. thresholds' \in Thresholds
      BY <3>1, <3>2, DerivedBounds
    <3>4. found' = found /\ N' = N
      BY <2>4 DEF Derive, N
    <3> QED
      BY <3>3, <3>4
  <2>5. CASE UNCHANGED rankVars
    BY <2>5 DEF rankVars, N
  <2> QED
    BY <2>1, <2>2, <2>3, <2>4, <2>5 DEF Next, RankNext, vars
<1> QED
  BY <1>1, <1>2, PTL DEF Spec

\* A gate whose floors are fresh is green exactly when at most one query has slipped,
\* by one rank: no number of queries up to 166 makes the rounding forgive a second
\* slip or a worse one, or refuse the one that is tolerated.
THEOREM ToleratesExactlyOneSlipAlways == Spec => []ToleratesExactlyOneSlip
<1>1. RankTypes => ToleratesExactlyOneSlip
  <2> SUFFICES ASSUME RankTypes, FreshThresholds PROVE RankGatePasses <=> AtMostOneSlip
    BY DEF ToleratesExactlyOneSlip
  <2>1. /\ found[0] \in Nat /\ found[1] \in Nat /\ found[2] \in Nat /\ found[3] \in Nat
        /\ N \in 1..166
    BY MaxQueriesAssumption DEF RankTypes, Ranks, K
  <2>2. N = found[0] + found[1] + found[2] + found[3]
    BY DEF N
  <2>3. Tight(thresholds, N)
    <3>1. N \in Nat \ {0} /\ thresholds = Derived(N)
      BY <2>1 DEF FreshThresholds
    <3> QED
      BY <3>1, DerivedBounds
  <2> DEFINE p == thresholds.recall * N
             q == thresholds.mrr * N
  <2>4. p \in Nat /\ q \in Nat /\ thresholds.mrr * (2 * N) = 2 * q /\ thresholds.mrr * 6 * N = 6 * q
    BY <2>1, <2>3 DEF Tight
  <2>5. /\ p <= 1000 * (N - 1) /\ 1000 * (N - 1) < p + N
        /\ 2 * q <= 1000 * (2 * N - 1) /\ 1000 * (2 * N - 1) < 2 * q + 2 * N
    BY <2>3, <2>4 DEF Tight
  <2> HIDE DEF p, q
  <2>6. (1000 * found[1] >= p /\ 1000 * (6 * found[1] + 3 * found[2] + 2 * found[3]) >= 6 * q)
          <=> (found[1] = N \/ (found[1] = N - 1 /\ found[2] = 1))
    <3> DEFINE z == found[0]
               a == found[1]
               b == found[2]
               c == found[3]
               n == N
    <3>1. /\ z \in Nat /\ a \in Nat /\ b \in Nat /\ c \in Nat /\ n \in 1..166
          /\ p \in Nat /\ q \in Nat
          /\ n = z + a + b + c
          /\ p <= 1000 * (n - 1) /\ 1000 * (n - 1) < p + n
          /\ 2 * q <= 1000 * (2 * n - 1) /\ 1000 * (2 * n - 1) < 2 * q + 2 * n
      BY <2>1, <2>2, <2>4, <2>5
    <3> HIDE DEF z, a, b, c, n
    <3>2. (1000 * a >= p /\ 1000 * (6 * a + 3 * b + 2 * c) >= 6 * q)
            <=> (a = n \/ (a = n - 1 /\ b = 1))
      <4>1. ASSUME 1000 * a >= p, 1000 * (6 * a + 3 * b + 2 * c) >= 6 * q
            PROVE  a = n \/ (a = n - 1 /\ b = 1)
        <5>1. a >= n - 1 /\ a <= n
          BY <3>1, <4>1
        <5>2. ASSUME a = n - 1 PROVE b = 1
          <6>1. z + b + c = 1
            BY <3>1, <5>2
          <6>2. 3000 * b + 2000 * c > 3000 - 6 * n
            BY <3>1, <4>1, <5>2
          <6> QED
            BY <3>1, <6>1, <6>2
        <5> QED
          BY <3>1, <5>1, <5>2
      <4>2. ASSUME a = n \/ (a = n - 1 /\ b = 1)
            PROVE  1000 * a >= p /\ 1000 * (6 * a + 3 * b + 2 * c) >= 6 * q
        BY <3>1, <4>2
      <4> QED
        BY <4>1, <4>2
    <3> QED
      BY <3>2 DEF z, a, b, c, n
  <2> QED
    BY <2>4, <2>6 DEF RankGatePasses, AtMostOneSlip, Hits, ReciprocalRanks, p
<1> QED
  BY <1>1, TypeCorrect, PTL

-----------------------------------------------------------------------------

\* search returns two documents, or three if k was raised.
Retrieved == contexts \in Seq(Docs) /\ Len(contexts) \in 2..3

\* A pair of documents is a sequence of them.
LEMMA RetrievalIsSeq ==
  ASSUME NEW r \in Retrievals
  PROVE  r \in Seq(Docs) /\ Len(r) = 2
<1>1. r \in [1..2 -> Docs]
  BY DEF Retrievals
<1>2. r \in UNION {[1..n -> Docs] : n \in Nat}
  BY <1>1
<1>3. r \in Seq(Docs)
  BY <1>2, SeqDef, Zenon
<1>. QED BY <1>1, <1>3, LenProperties

\* Every step leaves two or three of them.
LEMMA RetrievedStep == Retrieved /\ [Next]_vars => Retrieved'
<1>. SUFFICES ASSUME Retrieved, [Next]_vars PROVE Retrieved'
  OBVIOUS
<1>1. CASE Retrieve
  <2>1. CASE contexts' \in Retrievals
    BY <2>1, RetrievalIsSeq DEF Retrieved
  <2>2. CASE \E d \in Docs : Len(contexts) = 2 /\ contexts' = Append(contexts, d)
    <3>1. PICK d \in Docs : Len(contexts) = 2 /\ contexts' = Append(contexts, d)
      BY <2>2
    <3>2. contexts' \in Seq(Docs) /\ Len(contexts') = Len(contexts) + 1
      BY <3>1, AppendProperties DEF Retrieved
    <3>. QED BY <3>1, <3>2 DEF Retrieved
  <2>. QED BY <1>1, <2>1, <2>2 DEF Retrieve
<1>2. CASE UNCHANGED contexts
  BY <1>2 DEF Retrieved
<1>. QED
  BY <1>1, <1>2 DEF Next, RankNext, Slip, AddQuery, DropQuery, ScoreNext, Relabel, Distort,
                    Derive, vars, scoreVars

\* What supports an answer only grows with the documents.
LEMMA SupportGrows ==
  ASSUME NEW s \in Seq(Docs), NEW d
  PROVE  Support(s) \subseteq Support(Append(s, d))
<1>1. ToSet(s) \subseteq ToSet(Append(s, d))
  BY DEF ToSet
<1>. QED BY <1>1 DEF Support

\* The score of an answer is a fraction of its content words, and grows with them.
LEMMA GroundednessGrows ==
  ASSUME NEW a \in Answers, NEW s, NEW t, Support(s) \subseteq Support(t)
  PROVE  LessEq(Groundedness(a, s), Groundedness(a, t))
<1>. DEFINE claim == ContentTokens(a)
            m == Cardinality(claim \cap Support(s))
            n == Cardinality(claim \cap Support(t))
            w == Cardinality(claim)
<1>1. IsFiniteSet(claim)
  BY AnswersAssumption, FS_Subset DEF ContentTokens
<1>2. IsFiniteSet(claim \cap Support(t)) /\ claim \cap Support(s) \subseteq claim \cap Support(t)
  BY <1>1, FS_Subset
<1>3. m \in Nat /\ n \in Nat /\ w \in Nat /\ m <= n
  BY <1>1, <1>2, FS_Subset, FS_CardinalityType
<1>4. CASE claim = {}
  BY <1>4 DEF Groundedness, LessEq
<1>5. CASE claim # {}
  <2>1. Groundedness(a, s) = <<m, w>> /\ Groundedness(a, t) = <<n, w>>
    BY <1>5 DEF Groundedness
  <2>. HIDE DEF m, n, w
  <2>2. m * w <= n * w
    BY <1>3
  <2>. QED BY <2>1, <2>2 DEF LessEq
<1>. QED BY <1>4, <1>5

\* One document more never lowers the groundedness of an answer, however many words
\* it has and whatever the documents say.
THEOREM MoreEvidenceHelps == Spec => MoreEvidenceNeverHurts
<1>1. Init => Retrieved
  BY RetrievalIsSeq DEF Init, ScoreInit, Retrieved
<1>2. Retrieved /\ [Next]_vars =>
        [Len(contexts') > Len(contexts) =>
           \A a \in Answers : LessEq(Groundedness(a, contexts), Groundedness(a, contexts'))]_scoreVars
  <2>. SUFFICES ASSUME Retrieved, [Next]_vars, Len(contexts') > Len(contexts), NEW a \in Answers
                PROVE  LessEq(Groundedness(a, contexts), Groundedness(a, contexts'))
    OBVIOUS
  <2>1. PICK d \in Docs : contexts' = Append(contexts, d)
    <3>1. contexts' # contexts
      BY DEF Retrieved
    <3>2. Retrieve
      BY <3>1 DEF Next, RankNext, ScoreNext, Relabel, Distort, Derive, vars, scoreVars
    <3>. QED BY <3>2, RetrievalIsSeq DEF Retrieve, Retrieved
  <2>. QED BY <2>1, SupportGrows, GroundednessGrows DEF Retrieved
<1>. QED BY <1>1, <1>2, RetrievedStep, PTL DEF Spec, MoreEvidenceNeverHurts

-----------------------------------------------------------------------------
(* The floors of the generation gate                                       *)

\* Multiplying keeps the order of natural numbers.
LEMMA Multiplying ==
  ASSUME NEW a \in Int, NEW b \in Int, NEW c \in Nat, a <= b
  PROVE  a * c <= b * c
BY SMT

Scores == Nat \X (1..20)

\* The state the scores are computed from.
FixtureTypes ==
  /\ faithful \in Populations /\ hallucinated \in Populations
  /\ metric \in Distortions \cup {"sound"}

\* A score is a fraction with a small denominator, whatever became of the metric.
LEMMA ScoreType ==
  ASSUME metric \in Distortions \cup {"sound"}, NEW a \in Answers, NEW texts
  PROVE  Score(a, texts) \in Scores
<1> DEFINE claim == ContentTokens(a)
           m == Cardinality(claim \cap Support(texts))
           w == Cardinality(claim)
<1>1. IsFiniteSet(claim) /\ w <= 20
  BY AnswersAssumption, FS_Subset DEF ContentTokens
<1>2. m \in Nat /\ w \in Nat /\ m <= w /\ (claim # {} => w # 0)
  <2>1. claim \cap Support(texts) \in SUBSET claim
    OBVIOUS
  <2>2. IsFiniteSet(claim \cap Support(texts)) /\ m <= w
    BY <1>1, <2>1, FS_Subset
  <2> QED BY <1>1, <2>2, FS_CardinalityType, FS_EmptySet
<1>3. Groundedness(a, texts) = IF claim = {} THEN <<1, 1>> ELSE <<m, w>>
  BY DEF Groundedness
<1> HIDE DEF m, w
<1>4. \E p \in Nat, q \in 1..20 : p <= q /\ Groundedness(a, texts) = <<p, q>>
  BY <1>1, <1>2, <1>3
<1>5. PICK p \in Nat, q \in 1..20 : p <= q /\ Groundedness(a, texts) = <<p, q>>
  BY <1>4
<1>6. Score(a, texts) \in {<<p, q>>, <<q - p, q>>, <<0, 1>>, <<1, 2>>, <<1, 1>>}
  BY <1>5 DEF Score, Distortions
<1>7. q - p \in Nat
  BY <1>5
<1> QED BY <1>6, <1>7 DEF Scores

\* LessEq is total on scores, so that one of two answers scores worst.
LEMMA WorstOfTwo ==
  ASSUME NEW s \in Scores, NEW t \in Scores
  PROVE  /\ \E x \in {s, t} : \A y \in {s, t} : LessEq(x, y)
         /\ \E x \in {s, t} : \A y \in {s, t} : LessEq(y, x)
<1>1. /\ s[1] * t[2] \in Int /\ t[1] * s[2] \in Int
  BY DEF Scores
<1>2. LessEq(s, t) \/ LessEq(t, s)
  BY <1>1 DEF LessEq
<1>3. LessEq(s, s) /\ LessEq(t, t)
  BY DEF LessEq, Scores
<1> QED BY <1>2, <1>3

\* So evaluate finds a worst case of each population.
LEMMA WorstCases == FixtureTypes => Grounded \in Scores /\ Hallucinated \in Scores
<1> SUFFICES ASSUME FixtureTypes PROVE Grounded \in Scores /\ Hallucinated \in Scores
  OBVIOUS
<1>1. ASSUME NEW P \in Populations
      PROVE  \E s, t \in Scores : {Score(a, contexts) : a \in P} = {s, t}
  <2>1. PICK a \in Answers, b \in Answers : P = {a, b}
    BY DEF Populations
  <2>2. {Score(c, contexts) : c \in P} = {Score(a, contexts), Score(b, contexts)}
    BY <2>1
  <2>3. Score(a, contexts) \in Scores /\ Score(b, contexts) \in Scores
    BY ScoreType DEF FixtureTypes
  <2> QED BY <2>2, <2>3
<1>2. Grounded \in Scores
  <2> DEFINE S == {Score(a, contexts) : a \in faithful}
  <2>1. PICK s \in Scores, t \in Scores : S = {s, t}
    BY <1>1 DEF FixtureTypes
  <2> HIDE DEF S
  <2>2. \E x \in S : \A y \in S : LessEq(x, y)
    BY <2>1, WorstOfTwo
  <2>3. (CHOOSE x \in S : \A y \in S : LessEq(x, y)) \in Scores
    BY <2>1, <2>2
  <2> QED BY <2>3 DEF Grounded, S
<1>3. Hallucinated \in Scores
  <2> DEFINE S == {Score(a, contexts) : a \in hallucinated}
  <2>1. PICK s \in Scores, t \in Scores : S = {s, t}
    BY <1>1 DEF FixtureTypes
  <2> HIDE DEF S
  <2>2. \E x \in S : \A y \in S : LessEq(y, x)
    BY <2>1, WorstOfTwo
  <2>3. (CHOOSE x \in S : \A y \in S : LessEq(y, x)) \in Scores
    BY <2>1, <2>2
  <2> QED BY <2>3 DEF Hallucinated, S
<1> QED BY <1>2, <1>3

\* round(_, 4) is off by half of a ten-thousandth at most.
LEMMA Rounding ==
  ASSUME NEW s \in Scores
  PROVE  /\ Round4(s) \in Nat
         /\ 2 * (Round4(s) * s[2]) <= 20000 * s[1] + s[2]
         /\ 20000 * s[1] + s[2] < 2 * (Round4(s) * s[2]) + 2 * s[2]
<1> DEFINE A == 20000 * s[1] + s[2]
           B == 2 * s[2]
           r == A \div B
<1>1. s[1] \in Nat /\ s[2] \in Nat /\ s[2] >= 1
  BY DEF Scores
<1>2. A \in Nat /\ B \in Nat \ {0}
  BY <1>1
<1>3. r \in Nat /\ r * B <= A /\ A < r * B + B
  <2> HIDE DEF A, B
  <2> QED BY <1>2, Division
<1>4. Round4(s) = r
  BY DEF Round4
<1> HIDE DEF r
<1>5. r * B = 2 * (r * s[2])
  BY <1>1, <1>3
<1> QED BY <1>3, <1>4, <1>5

\* A floor is less than a thousandth below the half of a number of ten-thousandths, or
\* exactly one.
LEMMA Flooring ==
  ASSUME NEW x \in Nat, NEW f \in Floor3(x)
  PROVE  f \in Nat /\ 20 * f <= x /\ x <= 20 * f + 20
BY SMT DEF Floor3

\* Two scores that the producer tells apart lie on two sides of 1/2, and not closely:
\* with 20 words at most, the lower one is not above 0.475.
LEMMA Gap ==
  ASSUME NEW g \in Scores, NEW h \in Scores, Separates(Round4(g), Round4(h))
  PROVE  Round4(h) <= 4750 /\ Round4(g) >= 5000
<1>1. /\ Round4(g) >= 5000 /\ Round4(h) <= 4999 /\ Round4(h) \in Nat
      /\ h[1] \in Nat /\ h[2] \in Nat /\ 1 <= h[2] /\ h[2] <= 20
  BY Rounding DEF Separates, Scores
<1> DEFINE r == Round4(h)
<1>2. /\ 2 * (r * h[2]) <= 20000 * h[1] + h[2]
      /\ 20000 * h[1] + h[2] < 2 * (r * h[2]) + 2 * h[2]
  BY Rounding
<1> HIDE DEF r
<1>3. r \in Nat /\ r <= 4999
  BY <1>1 DEF r
<1>4. 2 * h[1] < h[2]
  <2>1. r * h[2] <= 4999 * h[2]
    BY <1>1, <1>3, Multiplying
  <2> QED BY <1>1, <1>2, <1>3, <2>1
<1>5. r <= 4750
  <2> SUFFICES ASSUME 4751 <= r PROVE FALSE
    BY <1>3
  <2>1. 4751 * h[2] <= r * h[2]
    BY <1>1, <1>3, Multiplying
  <2> QED BY <1>1, <1>2, <1>3, <1>4, <2>1
<1> QED BY <1>1, <1>5 DEF r

\* Floors that the producer writes ask for a margin, and for less than there was.
LEMMA FreshFloors ==
  ASSUME FixtureTypes, NEW f \in Derivable
  PROVE  /\ f.line \in Nat /\ f.margin \in Nat \ {0}
         /\ 1000 * Grounded[1] >= f.line * Grounded[2]
         /\ 1000 * Hallucinated[1] <= f.line * Hallucinated[2]
         /\ 1000 * (Grounded[1] * Hallucinated[2] - Hallucinated[1] * Grounded[2])
              >= f.margin * Grounded[2] * Hallucinated[2]
<1> DEFINE g == Grounded
           h == Hallucinated
           w == Round4(g)
           v == Round4(h)
<1>1. g \in Scores /\ h \in Scores
  BY WorstCases
<1>2. /\ g[1] \in Nat /\ g[2] \in Nat /\ g[2] >= 1
      /\ h[1] \in Nat /\ h[2] \in Nat /\ h[2] >= 1
  BY <1>1 DEF Scores
<1>3. Separates(w, v) /\ f.line \in Floor3(w + v) /\ f.margin \in Floor3(w - v)
  BY DEF Derivable
<1>4. w \in Nat /\ v \in Nat /\ v <= 4750 /\ w >= 5000
  BY <1>1, <1>3, Rounding, Gap
<1>5. /\ 2 * (w * g[2]) <= 20000 * g[1] + g[2] /\ 20000 * g[1] + g[2] < 2 * (w * g[2]) + 2 * g[2]
      /\ 2 * (v * h[2]) <= 20000 * h[1] + h[2] /\ 20000 * h[1] + h[2] < 2 * (v * h[2]) + 2 * h[2]
  BY <1>1, Rounding
<1> HIDE DEF g, h, w, v
<1>6. /\ f.line \in Nat /\ 20 * f.line <= w + v /\ w + v <= 20 * f.line + 20
      /\ f.margin \in Nat /\ 20 * f.margin <= w - v /\ w - v <= 20 * f.margin + 20
  <2>1. w + v \in Nat /\ w - v \in Nat
    BY <1>4
  <2> QED BY <1>3, <2>1, Flooring
<1>7. f.margin # 0
  BY <1>4, <1>6
<1>8. 1000 * g[1] >= f.line * g[2]
  <2>1. (20 * f.line) * g[2] <= (w + v) * g[2]
    BY <1>2, <1>4, <1>6, Multiplying
  <2>2. v * g[2] <= 4750 * g[2] /\ 5000 * g[2] <= w * g[2]
    BY <1>2, <1>4, Multiplying
  <2>3. (20 * f.line) * g[2] = 20 * (f.line * g[2]) /\ (w + v) * g[2] = w * g[2] + v * g[2]
    BY <1>2, <1>4, <1>6
  <2> QED BY <1>2, <1>4, <1>5, <1>6, <2>1, <2>2, <2>3
<1>9. 1000 * h[1] <= f.line * h[2]
  <2>1. (w + v) * h[2] <= (20 * f.line + 20) * h[2]
    BY <1>2, <1>4, <1>6, Multiplying
  <2>2. v * h[2] <= 4750 * h[2] /\ 5000 * h[2] <= w * h[2]
    BY <1>2, <1>4, Multiplying
  <2>3. /\ (20 * f.line + 20) * h[2] = 20 * (f.line * h[2]) + 20 * h[2]
        /\ (w + v) * h[2] = w * h[2] + v * h[2]
    BY <1>2, <1>4, <1>6
  <2> QED BY <1>2, <1>4, <1>5, <1>6, <2>1, <2>2, <2>3
<1>10. 1000 * (g[1] * h[2] - h[1] * g[2]) >= f.margin * g[2] * h[2]
  <2> DEFINE G == g[1] * h[2]
             H == h[1] * g[2]
             D == g[2] * h[2]
             W == w * D
             V == v * D
             M == f.margin * D
  <2>1. G \in Nat /\ H \in Nat /\ D \in Nat
    BY <1>2
  <2>2. W \in Nat /\ V \in Nat /\ M \in Nat
    BY <1>4, <1>6, <2>1
  <2>3. 2 * W <= 20000 * G + D
    <3>1. (2 * (w * g[2])) * h[2] <= (20000 * g[1] + g[2]) * h[2]
      BY <1>2, <1>4, <1>5, Multiplying
    <3>2. (2 * (w * g[2])) * h[2] = 2 * W /\ (20000 * g[1] + g[2]) * h[2] = 20000 * G + D
      BY <1>2, <1>4
    <3> QED BY <3>1, <3>2
  <2>4. 20000 * H + D <= 2 * V + 2 * D
    <3>1. (20000 * h[1] + h[2]) * g[2] <= (2 * (v * h[2]) + 2 * h[2]) * g[2]
      BY <1>2, <1>4, <1>5, Multiplying
    <3>2. /\ (20000 * h[1] + h[2]) * g[2] = 20000 * H + D
          /\ (2 * (v * h[2]) + 2 * h[2]) * g[2] = 2 * V + 2 * D
      BY <1>2, <1>4
    <3> QED BY <3>1, <3>2
  <2>5. 20 * M <= W - V
    <3>1. (20 * f.margin) * D <= (w - v) * D
      BY <1>4, <1>6, <2>1, Multiplying
    <3>2. (20 * f.margin) * D = 20 * M /\ (w - v) * D = W - V
      BY <1>4, <1>6, <2>1
    <3> QED BY <3>1, <3>2
  <2>6. 250 * D <= W - V
    <3>1. 250 * D <= (w - v) * D
      BY <1>4, <2>1, Multiplying
    <3>2. (w - v) * D = W - V
      BY <1>4, <2>1
    <3> QED BY <3>1, <3>2
  <2>7. f.margin * g[2] * h[2] = M
    BY <1>2, <1>6
  <2> HIDE DEF G, H, D, W, V, M
  <2>8. 1000 * (G - H) >= M
    BY <2>1, <2>2, <2>3, <2>4, <2>5, <2>6
  <2> QED BY <2>7, <2>8 DEF G, H
<1> QED BY <1>6, <1>7, <1>8, <1>9, <1>10 DEF g, h

\* What the theorem below rests on.
ScoreTypes == FixtureTypes /\ floors.margin \in Nat \ {0}

\* The gate asks for a margin, so that it is green only for separate populations.
LEMMA MarginSeparates == ScoreTypes => GreenMeansSeparated
<1> SUFFICES ASSUME ScoreTypes, GatePasses, LessEq(Grounded, Hallucinated) PROVE FALSE
  BY DEF GreenMeansSeparated
<1> DEFINE g == Grounded
           h == Hallucinated
           D == g[2] * h[2]
           M == floors.margin * D
<1>1. g \in Scores /\ h \in Scores
  BY WorstCases DEF ScoreTypes
<1>2. /\ g[1] \in Nat /\ g[2] \in Nat /\ g[2] >= 1
      /\ h[1] \in Nat /\ h[2] \in Nat /\ h[2] >= 1
  BY <1>1 DEF Scores
<1>3. 1000 * (g[1] * h[2] - h[1] * g[2]) >= floors.margin * g[2] * h[2]
  BY DEF GatePasses
<1>4. g[1] * h[2] <= h[1] * g[2]
  BY DEF LessEq
<1> HIDE DEF g, h
<1>5. D \in Nat /\ 1 <= D
  <2>1. 1 * h[2] <= g[2] * h[2]
    BY <1>2, Multiplying
  <2> QED BY <1>2, <2>1
<1>6. floors.margin \in Nat /\ 1 <= floors.margin
  BY DEF ScoreTypes
<1>7. floors.margin * g[2] * h[2] = M
  BY <1>2, <1>6
<1>8. 1 <= M
  <2> HIDE DEF D
  <2>1. 1 * D <= floors.margin * D
    BY <1>5, <1>6, Multiplying
  <2> QED BY <1>5, <1>6, <2>1
<1>9. 1000 * (g[1] * h[2] - h[1] * g[2]) <= 0
  <2> DEFINE G == g[1] * h[2]
             H == h[1] * g[2]
  <2>1. G \in Nat /\ H \in Nat /\ G <= H
    BY <1>2, <1>4 DEF g, h
  <2> HIDE DEF G, H
  <2>2. 1000 * (G - H) <= 0
    BY <2>1
  <2> QED BY <2>2 DEF G, H
<1>10. M <= 0
  <2> DEFINE L == 1000 * (g[1] * h[2] - h[1] * g[2])
  <2>1. L \in Int /\ M \in Int /\ L >= M /\ L <= 0
    BY <1>2, <1>3, <1>5, <1>6, <1>7, <1>9 DEF g, h
  <2> HIDE DEF L, M
  <2> QED BY <2>1
<1>11. M \in Int
  BY <1>5, <1>6
<1> HIDE DEF M
<1> QED BY <1>8, <1>10, <1>11

\* Floors are replaced by fresh ones only.
LEMMA ScoreStep == ScoreTypes /\ [Next]_vars => ScoreTypes'
<1> SUFFICES ASSUME ScoreTypes, [Next]_vars PROVE ScoreTypes'
  OBVIOUS
<1>1. CASE ScoreNext
  BY <1>1 DEF ScoreTypes, FixtureTypes, ScoreNext, Relabel, Retrieve, Distort
<1>2. CASE Derive
  <2>1. floors'.margin \in Nat \ {0}
    BY <1>2, FreshFloors DEF Derive, ScoreTypes
  <2> QED BY <1>2, <2>1 DEF Derive, ScoreTypes, FixtureTypes
<1>3. CASE UNCHANGED scoreVars
  BY <1>3 DEF scoreVars, ScoreTypes, FixtureTypes
<1> QED BY <1>1, <1>2, <1>3 DEF Next, vars

\* Whatever is edited, and however old the floors are, the gate accepts the fixture its
\* floors were derived from, and no metric that does not tell its populations apart,
\* for any answers of up to twenty content words and any documents.
THEOREM FloorsAlwaysSeparate == Spec => []FloorsSeparate
<1>1. Init => ScoreTypes
  <2> SUFFICES ASSUME Init PROVE ScoreTypes
    OBVIOUS
  <2>1. FixtureTypes /\ floors \in Derivable
    BY DEF Init, ScoreInit, FixtureTypes
  <2> QED BY <2>1, FreshFloors DEF ScoreTypes
<1>2. ScoreTypes => FloorsSeparate
  <2> SUFFICES ASSUME ScoreTypes PROVE FloorsSeparate
    OBVIOUS
  <2>1. FreshFloorsAcceptTheirFixture
    BY FreshFloors DEF FreshFloorsAcceptTheirFixture, GatePasses, ScoreTypes
  <2> QED BY <2>1, MarginSeparates DEF FloorsSeparate
<1> QED BY <1>1, <1>2, ScoreStep, PTL DEF Spec

-----------------------------------------------------------------------------
(* The replay of the mutations                                             *)

\* Until somebody breaks off a replay nothing is in the tree but the entry under replay,
\* from the write to the end of the finally clause, which goes back to nothing.
TreeInv ==
  /\ kills \in Nat
  /\ kills = 0 => /\ torn = {} /\ (pc \in {"write", "load", "gates", "restore"} => original = {})
                  /\ live \subseteq {entry}
                  /\ pc \notin {"load", "gates", "restore"} => live = {}

\* Every step leaves nothing but the entry under replay.
LEMMA TreeStep == TreeInv /\ [ReplayNext]_replayVars => TreeInv'
<1> SUFFICES ASSUME TreeInv, [ReplayNext]_replayVars PROVE TreeInv'
  OBVIOUS
<1> USE DEF TreeInv, tree
<1>1. CASE Start
  BY <1>1 DEF Start
<1>2. CASE Read
  BY <1>2 DEF Read, InFile, Exit
<1>3. CASE Write
  BY <1>3 DEF Write
<1>4. CASE Load
  BY <1>4 DEF Load, Leave
<1>5. CASE RunGate
  BY <1>5 DEF RunGate, Leave
<1>6. CASE Interrupt
  BY <1>6 DEF Interrupt, Leave
<1>7. CASE Restore
  BY <1>7 DEF Restore, InFile
<1>8. CASE Record
  BY <1>8 DEF Record, Exit
<1>9. CASE Kill \/ InterruptRestore
  BY <1>9 DEF Kill, InterruptRestore, BreakOff
<1>10. CASE UNCHANGED replayVars
  BY <1>10 DEF replayVars
<1> QED
  BY <1>1, <1>2, <1>3, <1>4, <1>5, <1>6, <1>7, <1>8, <1>9, <1>10 DEF ReplayNext, ReplayStep

\* Whatever the other scripts do, the replay takes one of its steps or none.
LEMMA ReplaySteps == Spec => ReplayInit /\ [][ReplayNext]_replayVars
<1>1. Init => ReplayInit
  BY DEF Init
<1>2. [Next]_vars => [ReplayNext]_replayVars
  BY DEF Next, Derive, vars
<1> QED
  BY <1>1, <1>2, PTL DEF Spec

\* A replay that nobody kills, nor interrupts as it puts the file back, leaves the tree as
\* it was, for any registry, whatever gates hang, break off or are interrupted, and however
\* often it is run.
THEOREM TreeStaysClean == Spec => []TreeIsRestored
<1>1. ReplayInit => TreeInv
  BY DEF ReplayInit, TreeInv
<1>2. TreeInv => TreeIsRestored
  BY DEF TreeInv, TreeIsRestored
<1> QED
  BY <1>1, <1>2, TreeStep, ReplaySteps, PTL

\* The state of the script and of the tree.
ReplayTypes ==
  /\ pc \in {"stopped", "read", "write", "load", "gates", "restore", "record"}
  /\ live \subseteq Ids /\ original \subseteq Ids /\ entry \in Ids
  /\ gate \in Nat \ {0}
  /\ runner \in {"honest", "green", "red"}
  /\ catches \in [Gates -> SUBSET Defects]
  /\ pc \in {"restore", "record"} => outcome \in {"caught", "survived", "unloadable", "raised"}

\* What earlier replays left in the tree, and what the finally clause goes back to.
Left == IF pc \in {"load", "gates", "restore"} THEN (live \ InFile(entry)) \cup original ELSE live

\* The bytes that were read show what others left in the file; what is in the tree
\* besides is the entry.
LeftoversStay ==
  /\ pc = "write" => original = InFile(entry)
  /\ pc \in {"load", "gates"} => live = Left \cup {entry}

\* The anchor of an entry is there in spite of what was left, or anybody's guess.
Fits(e, left) == \/ Registry[e].file \in torn
                 \/ \A i \in left : Registry[i].file = Registry[e].file => <<i, e>> \notin Clobbers

\* A gate of its own is red for a defect, in a tree in which something was left.
Held(e, left) == \E n \in DOMAIN Registry[e].gates : Red(Registry[e].gates[n], left \cup {e})

\* An outcome has its cause.
OutcomeIsDue ==
  /\ pc = "load" \/ (pc = "gates" /\ runner = "red") => gate = 1
  /\ pc \in {"restore", "record"} =>
       /\ outcome = "caught" => runner = "red" \/ (runner = "honest" /\ Held(entry, Left))
       /\ outcome = "survived" => runner # "red"

\* Who is not in the lists was rightly left out.
Due(e, left) == /\ e \in Defects => \/ e \in survivors
                                    \/ runner = "red" \/ (runner = "honest" /\ Held(e, left))
                /\ e \in Controls /\ runner = "red" => e \in controlsCaught
                /\ Fits(e, left)

VerdictsAreDue ==
  /\ pc # "stopped" => \A e \in Ids : e < entry => Due(e, Left)
  /\ pc \notin {"stopped", "read"} => Fits(entry, Left)
  /\ PassMeansHeld

ReplayInv == ReplayTypes /\ LeftoversStay /\ OutcomeIsDue /\ VerdictsAreDue

\* What a step of a process that goes on leaves as it was.
SameTree == UNCHANGED <<setup, torn>> /\ Left' = Left

\* The first entry has a number, and so has the one after each but the last.
LEMMA EntriesAreNumbered ==
  /\ Ids \subseteq Nat /\ 1 \in Ids
  /\ \A e \in Ids : 1 <= e /\ e <= Len(Registry) /\ (e # Len(Registry) => e + 1 \in Ids)
BY RegistryAssumption DEF Defects

\* A verdict needs a gate, and every entry names one.
LEMMA GatesAreNamed ==
  ASSUME NEW e \in Ids
  PROVE  /\ Len(Registry[e].gates) \in Nat \ {0}
         /\ DOMAIN Registry[e].gates = 1..Len(Registry[e].gates)
         /\ \A n \in DOMAIN Registry[e].gates : Registry[e].gates[n] \in Gates
<1> DEFINE s == Registry[e].gates
<1>1. s \in Seq(Gates) /\ s # <<>>
  BY RegistryAssumption
<1> HIDE DEF s
<1>2. Len(s) \in Nat /\ DOMAIN s = 1..Len(s) /\ \A n \in DOMAIN s : s[n] \in Gates
  BY <1>1, LenProperties, ElementOfSeq
<1>3. Len(s) # 0
  BY <1>1, EmptySeq
<1> QED
  BY <1>2, <1>3 DEF s

\* Types, after any step.
LEMMA ReplayTypesStep == ReplayTypes /\ [ReplayNext]_replayVars => ReplayTypes'
<1> SUFFICES ASSUME ReplayTypes, [ReplayNext]_replayVars PROVE ReplayTypes'
  OBVIOUS
<1> USE DEF ReplayTypes, setup, tree
<1>1. CASE Start /\ UNCHANGED setup
  BY <1>1, EntriesAreNumbered DEF Start
<1>2. CASE Read /\ UNCHANGED setup
  BY <1>2 DEF Read, Exit, InFile
<1>3. CASE Write /\ UNCHANGED setup
  BY <1>3 DEF Write
<1>4. CASE Load /\ UNCHANGED setup
  BY <1>4 DEF Load, Leave
<1>5. CASE RunGate /\ UNCHANGED setup
  BY <1>5 DEF RunGate, Leave
<1>6. CASE Interrupt /\ UNCHANGED setup
  BY <1>6 DEF Interrupt, Leave
<1>7. CASE Restore /\ UNCHANGED setup
  BY <1>7 DEF Restore, InFile
<1>8. CASE Record /\ UNCHANGED setup
  BY <1>8, EntriesAreNumbered DEF Record, Exit
<1>9. CASE (Kill \/ InterruptRestore) /\ UNCHANGED setup
  BY <1>9 DEF Kill, InterruptRestore, BreakOff, Exit
<1>10. CASE UNCHANGED replayVars
  BY <1>10 DEF replayVars
<1> QED
  BY <1>1, <1>2, <1>3, <1>4, <1>5, <1>6, <1>7, <1>8, <1>9, <1>10 DEF ReplayNext, ReplayStep

\* The file is put back as it was read, whatever others left in it, so that no step of a
\* process changes what was left but its violent end.
LEMMA LeftoversStep ==
  ASSUME ReplayTypes, LeftoversStay, [ReplayNext]_replayVars
  PROVE  LeftoversStay' /\ (pc # "stopped" /\ pc' # "stopped" => SameTree)
<1> USE DEF LeftoversStay, Left, InFile, SameTree, tree
<1>0. UNCHANGED setup
  BY DEF ReplayNext, replayVars
<1>1. CASE Start
  BY <1>1 DEF Start
<1>2. CASE Read
  BY <1>0, <1>2 DEF Read, Exit
<1>3. CASE Write
  BY <1>0, <1>3 DEF Write, ReplayTypes
<1>4. CASE Load
  BY <1>0, <1>4 DEF Load, Leave
<1>5. CASE RunGate
  BY <1>0, <1>5 DEF RunGate, Leave
<1>6. CASE Interrupt
  BY <1>0, <1>6 DEF Interrupt, Leave
<1>7. CASE Restore
  BY <1>0, <1>7 DEF Restore
<1>8. CASE Record
  BY <1>0, <1>8 DEF Record, Exit
<1>9. CASE Kill \/ InterruptRestore
  BY <1>9 DEF Kill, InterruptRestore, BreakOff, Exit
<1>10. CASE UNCHANGED replayVars
  BY <1>10 DEF replayVars
<1> QED
  BY <1>1, <1>2, <1>3, <1>4, <1>5, <1>6, <1>7, <1>8, <1>9, <1>10 DEF ReplayNext, ReplayStep

\* In the same tree a gate is as red, and an entry fits as well, as before.
LEMMA SameStaysDue ==
  ASSUME NEW e, SameTree
  PROVE  Held(e, Left)' = Held(e, Left) /\ Fits(e, Left)' = Fits(e, Left)
<1>1. Left' = Left /\ UNCHANGED <<catches, hangs, flaky, torn>>
  BY DEF SameTree, setup
<1>2. \A g : Red(g, Left \cup {e})' = Red(g, Left \cup {e})
  BY <1>1 DEF Red
<1> HIDE DEF Left
<1> QED
  BY <1>1, <1>2 DEF Held, Fits

\* A gate that fails has a cause to, and a runner that is stuck on red stops at the first.
LEMMA OutcomeStep ==
  ASSUME ReplayTypes, ReplayTypes', LeftoversStay, OutcomeIsDue,
         [ReplayNext]_replayVars, pc # "stopped" /\ pc' # "stopped" => SameTree
  PROVE  OutcomeIsDue'
<1> USE DEF OutcomeIsDue
<1>1. runner' = runner
  BY DEF ReplayNext, replayVars, setup
<1>2. CASE Start \/ Read \/ Kill \/ InterruptRestore
  BY <1>2, <1>1 DEF Start, Read, Kill, InterruptRestore, BreakOff, Exit
<1>3. CASE Write
  BY <1>3, <1>1 DEF Write
<1>4. CASE Load
  BY <1>4, <1>1 DEF Load, Leave
<1>5. CASE RunGate
  <2> DEFINE g == Registry[entry].gates[gate]
  <2>0. pc = "gates" /\ pc' # "stopped" /\ entry' = entry
    BY <1>5 DEF RunGate, Leave
  <2>1. Len(Registry[entry].gates) \in Nat \ {0} /\ gate \in Nat \ {0}
    BY GatesAreNamed DEF ReplayTypes
  <2>2. CASE gate > Len(Registry[entry].gates) /\ Leave("survived")
    <3>1. runner # "red"
      BY <1>5, <2>1, <2>2 DEF RunGate
    <3> QED
      BY <1>1, <2>2, <3>1 DEF Leave
  <2>3. ASSUME gate <= Len(Registry[entry].gates), NEW caught \in GateCaught(g), caught, Leave("caught")
        PROVE  OutcomeIsDue'
    <3>1. gate \in DOMAIN Registry[entry].gates
      BY <2>1, <2>3, GatesAreNamed DEF ReplayTypes
    <3>2. runner = "red" \/ (runner = "honest" /\ Held(entry, Left))
      <4>1. live = Left \cup {entry}
        BY <2>0 DEF LeftoversStay
      <4>2. CASE runner = "honest"
        <5>1. GateCaught(g) = {Red(g, live), FALSE}
          BY <4>2 DEF GateCaught
        <5>2. Red(g, live)
          BY <2>3, <5>1, Zenon
        <5> QED
          BY <3>1, <4>1, <4>2, <5>2 DEF Held
      <4>3. runner # "green"
        <5>1. runner = "green" => GateCaught(g) = {FALSE}
          BY DEF GateCaught
        <5> QED
          BY <2>3, <5>1, Zenon
      <4> QED
        BY <4>2, <4>3 DEF ReplayTypes
    <3>3. Held(entry, Left)' = Held(entry, Left)
      <4>1. \A e : Held(e, Left)' = Held(e, Left)
        BY <2>0, SameStaysDue
      <4> QED
        BY <2>0, <4>1 DEF Held
    <3> QED
      BY <1>1, <2>3, <3>2, <3>3 DEF Leave
  <2>4. ASSUME NEW caught \in GateCaught(g), ~caught, pc' = pc PROVE OutcomeIsDue'
    <3>1. runner # "red"
      <4>1. runner = "red" => GateCaught(g) = {TRUE}
        BY DEF GateCaught
      <4>2. runner = "red" => caught = TRUE
        BY <2>4, <4>1, Zenon
      <4> QED
        BY <2>4, <4>2
    <3> QED
      BY <1>1, <1>5, <2>4, <3>1 DEF RunGate
  <2>5. CASE gate <= Len(Registry[entry].gates)
    <3>1. ~(gate > Len(Registry[entry].gates))
      BY <2>1, <2>5
    <3>2. PICK caught \in GateCaught(g) : IF caught THEN Leave("caught") ELSE pc' = pc
      BY <1>5, <3>1, Zenon DEF RunGate
    <3>3. CASE caught
      <4>1. Leave("caught")
        BY <3>2, <3>3, Zenon
      <4> QED
        BY <2>3, <2>5, <3>3, <4>1, Zenon
    <3>4. CASE ~caught
      <4>1. pc' = pc
        BY <3>2, <3>4, Zenon
      <4> QED
        BY <2>4, <3>4, <4>1, Zenon
    <3> QED
      BY <3>3, <3>4, Zenon
  <2>6. CASE ~(gate <= Len(Registry[entry].gates))
    BY <1>5, <2>2, <2>6, Zenon DEF RunGate
  <2> QED
    BY <2>5, <2>6, Zenon
<1>6. CASE Interrupt
  BY <1>6, <1>1 DEF Interrupt, Leave
<1>7. CASE Restore
  <2>1. pc = "restore" /\ pc' = "record" /\ UNCHANGED <<outcome, entry>>
    BY <1>7 DEF Restore
  <2>2. Held(entry, Left)' = Held(entry, Left)
    <3>1. \A e : Held(e, Left)' = Held(e, Left)
      BY <2>1, SameStaysDue
    <3> QED
      BY <2>1, <3>1 DEF Held
  <2> QED
    BY <1>1, <2>1, <2>2
<1>8. CASE Record
  BY <1>8, <1>1 DEF Record, Exit
<1>9. CASE UNCHANGED replayVars
  BY <1>9 DEF replayVars, tree, setup, Left, InFile, Held, Red
<1> QED
  BY <1>2, <1>3, <1>4, <1>5, <1>6, <1>7, <1>8, <1>9 DEF ReplayNext, ReplayStep

\* The lists only grow while a process runs, so that the verdicts stay due.
LEMMA DueStays ==
  ASSUME NEW e \in Ids, Due(e, Left), SameTree,
         survivors \subseteq survivors', controlsCaught \subseteq controlsCaught'
  PROVE  Due(e, Left)'
<1>1. Held(e, Left)' = Held(e, Left) /\ Fits(e, Left)' = Fits(e, Left)
  BY SameStaysDue
<1>2. runner' = runner
  BY DEF SameTree, setup
<1> QED
  BY <1>1, <1>2 DEF Due

\* Recording an outcome makes the verdict on the entry due, and the last one is PASS
\* only if both lists are empty.
LEMMA RecordStep ==
  ASSUME ReplayTypes, OutcomeIsDue, VerdictsAreDue, Record, UNCHANGED setup
  PROVE  VerdictsAreDue'
<1>1. /\ pc = "record" /\ Left = live /\ Left' = live /\ live' = live /\ torn' = torn
      /\ survivors' = Lost /\ controlsCaught' = Spurious
  BY DEF Left, Record, Exit, tree
<1>2. SameTree
  BY <1>1 DEF SameTree
<1>3. survivors \subseteq survivors' /\ controlsCaught \subseteq controlsCaught'
  BY <1>1 DEF Lost, Spurious
<1>4. ASSUME outcome \in {"caught", "survived"}, NEW e \in Ids, e = entry
      PROVE  Due(e, Left)'
  <2>1. /\ outcome = "caught" => runner = "red" \/ (runner = "honest" /\ Held(e, Left))
        /\ outcome = "survived" => runner # "red"
    BY <1>1, <1>4 DEF OutcomeIsDue
  <2>2. Fits(e, Left)
    BY <1>1, <1>4 DEF VerdictsAreDue
  <2>3. /\ e \in Defects => e \in survivors' \/ runner = "red" \/ (runner = "honest" /\ Held(e, Left))
        /\ e \in Controls /\ runner = "red" => e \in controlsCaught'
    BY <1>1, <1>4, <2>1 DEF Lost, Spurious
  <2>4. Held(e, Left)' = Held(e, Left) /\ Fits(e, Left)' = Fits(e, Left) /\ runner' = runner
    BY <1>2, SameStaysDue DEF SameTree, setup
  <2> QED
    BY <2>2, <2>3, <2>4 DEF Due
<1>5. ASSUME outcome \in {"caught", "survived"}, NEW e \in Ids, e <= entry
      PROVE  Due(e, Left)'
  <2>1. CASE e = entry
    BY <1>4, <1>5, <2>1
  <2>2. CASE e < entry
    <3>1. Due(e, Left)
      BY <1>1, <2>2 DEF VerdictsAreDue
    <3> QED
      BY <1>2, <1>3, <3>1, DueStays
  <2> QED
    BY <1>5, <2>1, <2>2, EntriesAreNumbered DEF ReplayTypes
<1>6. CASE outcome \in {"unloadable", "raised"}
  <2>1. outcome = "unloadable" => pc' = "stopped" /\ exit' = 2
    BY DEF Record, Exit
  <2>2. outcome = "raised" => pc' = "stopped" /\ exit' = 1
    BY DEF Record, Exit
  <2>3. pc' = "stopped" /\ ~Passed'
    BY <1>6, <2>1, <2>2 DEF Passed
  <2>4. PassMeansHeld'
    BY <2>3 DEF PassMeansHeld
  <2> QED
    BY <2>3, <2>4 DEF VerdictsAreDue
<1>7. CASE outcome \in {"caught", "survived"} /\ entry # Len(Registry)
  <2>1. pc' = "read" /\ entry' = entry + 1
    BY <1>7 DEF Record
  <2>2. \A e \in Ids : e < entry' => e <= entry
    BY <2>1, EntriesAreNumbered DEF ReplayTypes
  <2>3. \A e \in Ids : e < entry' => Due(e, Left)'
    BY <1>5, <1>7, <2>2
  <2>4. (\A e \in Ids : e < entry => Due(e, Left))'
    BY <2>3
  <2> QED
    BY <2>1, <2>4 DEF VerdictsAreDue, PassMeansHeld, Passed
<1>8. CASE outcome \in {"caught", "survived"} /\ entry = Len(Registry)
  <2>1. pc' = "stopped" /\ exit' = Verdict
    BY <1>8 DEF Record, Exit
  <2>2. SUFFICES ASSUME Verdict = 0 PROVE PassMeansHeld'
    BY <2>1 DEF VerdictsAreDue, PassMeansHeld, Passed
  <2>3. survivors' = {} /\ controlsCaught' = {}
    BY <1>1, <2>2 DEF Verdict
  <2>4. \A e \in Ids : e <= entry
    BY <1>8, EntriesAreNumbered
  <2>5. \A e \in Ids : Due(e, Left)'
    BY <1>5, <1>8, <2>4
  <2>6. runner' # "red"
    <3>1. PICK e \in Ids : e \in Controls
      BY RegistryAssumption DEF Controls
    <3>2. Due(e, Left)'
      BY <2>5
    <3> QED
      BY <2>3, <3>1, <3>2 DEF Due
  <2>7. \A e \in Defects : runner' = "honest" /\ Held(e, Left)'
    <3> SUFFICES ASSUME NEW e \in Defects PROVE runner' = "honest" /\ Held(e, Left)'
      OBVIOUS
    <3>1. Due(e, Left)'
      BY <2>5 DEF Defects
    <3> QED
      BY <2>3, <2>6, <3>1 DEF Due
  <2>8. runner' = "honest"
    BY <2>7, RegistryAssumption
  <2>9. \A e \in Defects : (\E n \in DOMAIN Registry[e].gates : Red(Registry[e].gates[n], live \cup {e}))'
    <3>1. Left' = live'
      BY <1>1
    <3> QED
      BY <2>7, <3>1 DEF Held, Red
  <2>10. \A e \in Ids : (TRUE \in AnchorPresent(e))'
    <3> SUFFICES ASSUME NEW e \in Ids PROVE (TRUE \in AnchorPresent(e))'
      OBVIOUS
    <3>1. Due(e, Left)' /\ Left' = live'
      BY <1>1, <2>5
    <3>2. Fits(e, live)'
      BY <3>1 DEF Due, Fits
    <3> QED
      BY <3>2 DEF Fits, AnchorPresent, InFile
  <2> QED
    BY <2>8, <2>9, <2>10 DEF PassMeansHeld
<1> QED
  BY <1>1, <1>6, <1>7, <1>8 DEF ReplayTypes

\* An entry is applied only where it fits, and the verdicts stay due in every step.
LEMMA VerdictStep ==
  ASSUME ReplayTypes, OutcomeIsDue, VerdictsAreDue, [ReplayNext]_replayVars,
         pc # "stopped" /\ pc' # "stopped" => SameTree
  PROVE  VerdictsAreDue'
<1>1. UNCHANGED setup
  BY DEF ReplayNext, replayVars
<1>2. CASE Record
  BY <1>1, <1>2, RecordStep
<1>3. CASE Start
  <2>1. pc' = "read" /\ entry' = 1
    BY <1>3 DEF Start
  <2>2. \A e \in Ids : ~(e < 1)
    BY EntriesAreNumbered
  <2> QED
    BY <2>1, <2>2 DEF VerdictsAreDue, PassMeansHeld, Passed
<1>4. CASE pc # "stopped" /\ pc' = "stopped" /\ exit' # 0
  BY <1>4 DEF VerdictsAreDue, PassMeansHeld, Passed
<1>5. CASE /\ UNCHANGED <<entry, survivors, controlsCaught>>
           /\ pc # "stopped" /\ pc' \notin {"stopped", "read"}
           /\ pc = "read" => Fits(entry, Left)
  <2>1. SameTree
    BY <1>5
  <2>2. \A e \in Ids : Due(e, Left) => Due(e, Left)'
    BY <1>5, <2>1, DueStays
  <2>3. (\A e \in Ids : e < entry => Due(e, Left))'
    BY <1>5, <2>2 DEF VerdictsAreDue
  <2>4. Fits(entry, Left)'
    <3>1. \A e : Fits(e, Left)' = Fits(e, Left)
      BY <2>1, SameStaysDue
    <3>2. Fits(entry, Left)
      BY <1>5 DEF VerdictsAreDue
    <3> QED
      BY <1>5, <3>1, <3>2 DEF Fits
  <2> QED
    BY <1>5, <2>3, <2>4 DEF VerdictsAreDue, PassMeansHeld, Passed
<1>6. CASE UNCHANGED replayVars
  <2>1. SameTree /\ UNCHANGED <<entry, survivors, controlsCaught, pc, exit, live>>
    BY <1>6 DEF SameTree, replayVars, setup, tree, verdict, Left, InFile
  <2>2. \A e \in Ids : Due(e, Left) => Due(e, Left)'
    BY <2>1, DueStays
  <2>3. (\A e \in Ids : e < entry => Due(e, Left))' \/ pc' = "stopped"
    BY <2>1, <2>2 DEF VerdictsAreDue
  <2>4. Fits(entry, Left)' \/ pc' \in {"stopped", "read"}
    <3>1. \A e : Fits(e, Left)' = Fits(e, Left)
      BY <2>1, SameStaysDue
    <3> QED
      BY <2>1, <3>1 DEF VerdictsAreDue, Fits
  <2>5. PassMeansHeld'
    BY <2>1 DEF VerdictsAreDue, PassMeansHeld, Passed, Red, AnchorPresent, InFile, SameTree, setup
  <2> QED
    BY <2>3, <2>4, <2>5 DEF VerdictsAreDue
<1>7. CASE Read
  <2>1. pc = "read" /\ UNCHANGED <<entry, survivors, controlsCaught>>
    BY <1>7 DEF Read
  <2>2. PICK present \in AnchorPresent(entry) :
          IF present THEN pc' = "write" ELSE pc' = "stopped" /\ exit' = 2
    BY <1>7 DEF Read, Exit
  <2>3. present = TRUE => Fits(entry, Left)
    BY <2>1, <2>2 DEF AnchorPresent, Fits, Left, InFile
  <2>4. present \in BOOLEAN
    BY <2>2 DEF AnchorPresent
  <2> QED
    BY <1>4, <1>5, <2>1, <2>2, <2>3, <2>4
<1>8. Kill \/ InterruptRestore => pc # "stopped" /\ pc' = "stopped" /\ exit' # 0
  BY DEF Kill, InterruptRestore, BreakOff, Exit
<1>9. Write \/ Load \/ RunGate \/ Restore \/ Interrupt =>
        /\ UNCHANGED <<entry, survivors, controlsCaught>>
        /\ pc \notin {"stopped", "read"} /\ pc' \notin {"stopped", "read"}
  BY DEF Write, Load, RunGate, Restore, Interrupt, Leave, verdict
<1> QED
  BY <1>2, <1>3, <1>4, <1>5, <1>6, <1>7, <1>8, <1>9 DEF ReplayNext, ReplayStep

\* PASS is printed only for an honest runner and a registry in which each defect has a gate
\* that was red for it, for any registry, gates and file contents and any number of
\* interrupted, killed and repeated runs: a gate that catches it where neither an earlier
\* replay left something in the tree nor the gate is red by itself.
THEOREM PassIsEarned == Spec => []PassMeansHeld
<1>1. ReplayInit => ReplayInv
  BY EntriesAreNumbered DEF ReplayInit, ReplayInv, ReplayTypes, LeftoversStay, OutcomeIsDue,
                            VerdictsAreDue, PassMeansHeld, Passed
<1>2. ReplayInv /\ [ReplayNext]_replayVars => ReplayInv'
  BY ReplayTypesStep, LeftoversStep, OutcomeStep, VerdictStep DEF ReplayInv
<1>3. ReplayInv => PassMeansHeld
  BY DEF ReplayInv, VerdictsAreDue
<1> QED
  BY <1>1, <1>2, <1>3, ReplaySteps, PTL

-----------------------------------------------------------------------------
(* How long a replay may take                                              *)

\* The most steps that replay has left for its entry, of up to most gates.
StepsOfEntry(most) ==
  CASE pc = "read"    -> most + 6
    [] pc = "write"   -> most + 5
    [] pc = "load"    -> most + 4
    [] pc = "gates"   -> most + 4 - gate
    [] pc = "restore" -> 2
    [] pc = "record"  -> 1

\* The most steps that the run has left.
StepsLeft(most) ==
  IF pc = "stopped" THEN 0
                    ELSE (Len(Registry) - entry) * (most + 6) + StepsOfEntry(most)

\* The loop over the gates begins with the first and ends one past the last of them.
GatesInOrder == /\ pc = "load" => gate = 1
                /\ pc = "gates" => gate <= Len(Registry[entry].gates) + 1

\* One entry less.
LEMMA OneLess ==
  ASSUME NEW n \in Nat, NEW e \in 1..n, NEW k \in Nat
  PROVE  /\ (n - e) * k \in Nat
         /\ (n - e) * k + k <= n * k
         /\ (n - (e + 1)) * k + k = (n - e) * k
<1>1. (n - e) * k \in Nat
  BY SMT
<1>2. (n - e) + 1 <= n /\ ((n - e) + 1) * k = (n - e) * k + k
  BY SMT
<1>3. ((n - e) + 1) * k <= n * k
  BY <1>2, Multiplying
<1>4. (n - (e + 1)) * k + k = (n - e) * k
  BY SMT
<1> QED
  BY <1>1, <1>2, <1>3, <1>4

\* What is left of the entry is a number.
LEMMA EntryIsCounted ==
  ASSUME NEW most \in Nat, \A e \in Ids : Len(Registry[e].gates) <= most,
         ReplayTypes, GatesInOrder, pc # "stopped"
  PROVE  StepsOfEntry(most) \in 1..(most + 6)
<1>1. Len(Registry[entry].gates) \in Nat /\ Len(Registry[entry].gates) <= most
  BY GatesAreNamed DEF ReplayTypes
<1>2. gate \in Nat \ {0}
  BY DEF ReplayTypes
<1>3. pc = "gates" => gate <= most + 1
  BY <1>1, <1>2 DEF GatesInOrder
<1>4. pc \in {"read", "write", "load", "gates", "restore", "record"}
  BY DEF ReplayTypes
<1> QED
  BY <1>2, <1>3, <1>4 DEF StepsOfEntry

\* What is left of the run is one.
LEMMA RunIsCounted ==
  ASSUME NEW most \in Nat, \A e \in Ids : Len(Registry[e].gates) <= most,
         ReplayTypes, GatesInOrder
  PROVE  StepsLeft(most) \in 0..(Len(Registry) * (most + 6))
<1>1. Len(Registry) \in Nat /\ entry \in 1..Len(Registry) /\ most + 6 \in Nat
  BY RegistryAssumption DEF ReplayTypes
<1> DEFINE Each == most + 6
           D == (Len(Registry) - entry) * Each
           L == Len(Registry) * Each
<1>2. D \in Nat /\ D + Each <= L /\ L \in Nat
  <2>1. Each \in Nat
    OBVIOUS
  <2> HIDE DEF Each
  <2> QED
    BY <1>1, <2>1, OneLess, SMT
<1>3. pc # "stopped" => StepsOfEntry(most) \in 1..Each
  BY EntryIsCounted
<1>4. StepsLeft(most) = IF pc = "stopped" THEN 0 ELSE D + StepsOfEntry(most)
  BY DEF StepsLeft
<1>5. StepsLeft(most) \in 0..L
  <2>1. Each \in Nat
    OBVIOUS
  <2> HIDE DEF D, Each, L
  <2> QED
    BY <1>2, <1>3, <1>4, <2>1
<1> QED
  BY <1>5

\* A step that stays with its entry, and one that goes on to the next.
LEMMA RunShortens ==
  ASSUME NEW most \in Nat, \A e \in Ids : Len(Registry[e].gates) <= most,
         ReplayTypes, GatesInOrder, ReplayTypes', GatesInOrder', pc # "stopped",
         \/ pc' = "stopped"
         \/ entry' = entry /\ pc' # "stopped" /\ StepsOfEntry(most)' < StepsOfEntry(most)
         \/ entry' = entry + 1 /\ pc' = "read"
  PROVE  StepsLeft(most)' < StepsLeft(most)
<1> DEFINE Each == most + 6
           D == (Len(Registry) - entry) * Each
           E == (Len(Registry) - (entry + 1)) * Each
<1>1. Len(Registry) \in Nat /\ entry \in 1..Len(Registry) /\ Each \in Nat
  BY RegistryAssumption DEF ReplayTypes
<1>2. D \in Nat /\ E + Each = D
  <2> HIDE DEF Each
  <2> QED
    BY <1>1, OneLess
<1>3. StepsOfEntry(most) \in 1..Each
  BY EntryIsCounted
<1>4. StepsLeft(most) = D + StepsOfEntry(most)
  BY DEF StepsLeft
<1>5. CASE pc' = "stopped"
  <2>1. StepsLeft(most)' = 0
    BY <1>5 DEF StepsLeft
  <2> HIDE DEF D, Each, E
  <2> QED
    BY <1>1, <1>2, <1>3, <1>4, <2>1
<1>6. CASE entry' = entry /\ pc' # "stopped" /\ StepsOfEntry(most)' < StepsOfEntry(most)
  <2>1. StepsLeft(most)' = D + StepsOfEntry(most)'
    BY <1>6 DEF StepsLeft
  <2>2. StepsOfEntry(most)' \in Int
    BY <1>6 DEF StepsOfEntry, ReplayTypes
  <2> HIDE DEF D, Each, E
  <2> QED
    BY <1>1, <1>2, <1>3, <1>4, <1>6, <2>1, <2>2
<1>7. CASE entry' = entry + 1 /\ pc' = "read"
  <2>1. StepsLeft(most)' = E + Each
    BY <1>7 DEF StepsLeft, StepsOfEntry
  <2> HIDE DEF D, Each, E
  <2> QED
    BY <1>1, <1>2, <1>3, <1>4, <2>1
<1> QED
  BY <1>5, <1>6, <1>7

\* The loop keeps to its order.
LEMMA GatesStep ==
  ASSUME ReplayTypes, GatesInOrder, [ReplayNext]_replayVars
  PROVE  GatesInOrder'
<1>1. Len(Registry[entry].gates) \in Nat
  BY GatesAreNamed DEF ReplayTypes
<1>2. CASE RunGate
  BY <1>1, <1>2 DEF RunGate, Leave, GatesInOrder, ReplayTypes
<1>3. CASE Load \/ Write
  BY <1>1, <1>3 DEF Load, Write, Leave, GatesInOrder
<1>4. CASE Start \/ Read \/ Restore \/ Record \/ Interrupt \/ Kill \/ InterruptRestore
  BY <1>4 DEF Start, Read, Restore, Record, Interrupt, Kill, InterruptRestore, BreakOff, Exit, Leave, GatesInOrder
<1>5. CASE UNCHANGED replayVars
  BY <1>5 DEF GatesInOrder, replayVars
<1> QED
  BY <1>2, <1>3, <1>4, <1>5 DEF ReplayNext, ReplayStep

\* Where the steps of a run lead.
LEMMA StepsGoOn ==
  ASSUME NEW most \in Nat, \A e \in Ids : Len(Registry[e].gates) <= most,
         ReplayTypes, GatesInOrder, ReplayStep \/ Interrupt \/ InterruptRestore \/ Kill
  PROVE  /\ pc # "stopped"
         /\ \/ pc' = "stopped"
            \/ entry' = entry /\ pc' # "stopped" /\ StepsOfEntry(most)' < StepsOfEntry(most)
            \/ entry' = entry + 1 /\ pc' = "read"
<1>1. /\ gate \in Nat \ {0}
      /\ pc = "load" => gate = 1
      /\ pc = "gates" => gate <= most + 1
  <2>1. Len(Registry[entry].gates) \in Nat /\ Len(Registry[entry].gates) <= most
    BY GatesAreNamed DEF ReplayTypes
  <2> QED
    BY <2>1 DEF ReplayTypes, GatesInOrder
<1>2. CASE Read
  BY <1>2 DEF Read, Exit, StepsOfEntry
<1>3. CASE Write
  BY <1>3 DEF Write, StepsOfEntry
<1>4. CASE Load
  BY <1>1, <1>4 DEF Load, Leave, StepsOfEntry
<1>5. CASE RunGate
  BY <1>1, <1>5 DEF RunGate, Leave, StepsOfEntry
<1>6. CASE Interrupt
  BY <1>1, <1>6 DEF Interrupt, Leave, StepsOfEntry
<1>7. CASE Restore
  BY <1>7 DEF Restore, StepsOfEntry
<1>8. CASE Record
  BY <1>8 DEF Record, Exit
<1>9. CASE Kill \/ InterruptRestore
  BY <1>9 DEF Kill, InterruptRestore, BreakOff, Exit
<1> QED
  BY <1>2, <1>3, <1>4, <1>5, <1>6, <1>7, <1>8, <1>9 DEF ReplayStep

\* Whoever interrupts or kills the script, whatever its gates answer and however long they
\* take: a replay goes through its entries and their gates in order and never back, and
\* of a registry of n entries with up to m gates each it takes no more than n (m + 6) steps.
THEOREM ReplayIsBounded ==
  ASSUME NEW most \in Nat, \A e \in Ids : Len(Registry[e].gates) <= most
  PROVE  Spec => /\ [](StepsLeft(most) \in 0..(Len(Registry) * (most + 6)))
                 /\ [][runs' = runs => StepsLeft(most)' < StepsLeft(most)]_replayVars
<1> DEFINE Inv == ReplayTypes /\ GatesInOrder /\ runs \in Nat
           Shorter == runs' = runs => StepsLeft(most)' < StepsLeft(most)
<1>1. ReplayInit => Inv
  BY EntriesAreNumbered DEF ReplayInit, ReplayTypes, GatesInOrder
<1>2. Inv /\ [ReplayNext]_replayVars => Inv'
  <2>1. runs \in Nat /\ [ReplayNext]_replayVars => runs' \in Nat
    BY DEF ReplayNext, ReplayStep, Start, Read, Write, Load, RunGate, Restore, Record,
           Interrupt, InterruptRestore, Kill, BreakOff, replayVars
  <2> QED
    BY <2>1, ReplayTypesStep, GatesStep
<1>3. Inv => StepsLeft(most) \in 0..(Len(Registry) * (most + 6))
  BY RunIsCounted
<1>4. Inv /\ [ReplayNext]_replayVars => [Shorter]_replayVars
  <2>1. ASSUME Inv, ReplayStep \/ Interrupt \/ InterruptRestore \/ Kill, UNCHANGED setup
        PROVE  StepsLeft(most)' < StepsLeft(most)
    <3>1. Inv'
      BY <1>2, <2>1 DEF ReplayNext
    <3> QED
      BY <2>1, <3>1, StepsGoOn, RunShortens
  <2>2. Inv /\ Start => runs' # runs
    BY DEF Start
  <2>3. SUFFICES ASSUME Inv, ReplayNext, runs' = runs PROVE StepsLeft(most)' < StepsLeft(most)
    OBVIOUS
  <2> QED
    BY <2>1, <2>2, <2>3 DEF ReplayNext
<1> QED
  BY <1>1, <1>2, <1>3, <1>4, ReplaySteps, PTL

=============================================================================
