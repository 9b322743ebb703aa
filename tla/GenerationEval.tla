----------------------------- MODULE GenerationEval -----------------------------
(***************************************************************************)
(* The groundedness metric (faithfulness.py), the gate that scores answers *)
(* labelled faithful and hallucinated with it (eval/generation_eval.py),   *)
(* and the floors derived from those scores (scripts/derive_eval_floors).  *)
(*                                                                         *)
(* A text is the set of its lower-cased words, a score the pair of a       *)
(* numerator and a denominator.  Floors are in thousandths, the rounded    *)
(* scores they are derived from in ten-thousandths.                        *)
(***************************************************************************)
EXTENDS Integers, FiniteSetsExt, SequencesExt

CONSTANTS
  NotContent,   \* the stop words and the words of one letter
  Answers,      \* bound: answers a label may be put on
  Docs          \* bound: documents of the store

\* Up to 20 content words no score is a tie of round(_, 4), and labelled populations
\* on two sides of 1/2 are far enough apart for the rounding of the floors.
ASSUME AnswersAssumption ==
  \A a \in Answers : IsFiniteSet(a) /\ Cardinality(a \ NotContent) <= 20

VARIABLES
  faithful, hallucinated,   \* the labelled answers
  contexts,                 \* what retrieve(QUERY) returns
  metric,                   \* "sound", or how a change of groundedness distorted it
  floors                    \* the "generation" floors in eval/eval_floors.json

scoreVars == <<faithful, hallucinated, contexts, metric, floors>>

\* "inverted", and the constant scores 0, 1/2 and 1.
Distortions == {"inverted", "zero", "half", "one"}

-----------------------------------------------------------------------------
(* The metric                                                              *)

ContentTokens(text) == text \ NotContent

Support(texts) == UNION {ContentTokens(text) : text \in ToSet(texts)}

Groundedness(answer, texts) ==
  LET claim == ContentTokens(answer)
  IN  IF claim = {} THEN <<1, 1>>
      ELSE <<Cardinality(claim \cap Support(texts)), Cardinality(claim)>>

\* The function the gate and the producer both import as groundedness.
Score(answer, texts) ==
  LET g == Groundedness(answer, texts)
  IN  CASE metric = "sound"    -> g
        [] metric = "inverted" -> <<g[2] - g[1], g[2]>>
        [] metric = "zero"     -> <<0, 1>>
        [] metric = "half"     -> <<1, 2>>
        [] metric = "one"      -> <<1, 1>>

LessEq(s, t) == s[1] * t[2] <= t[1] * s[2]

\* evaluate: the worst case of each population.
Grounded == LET S == {Score(a, contexts) : a \in faithful}
            IN  CHOOSE s \in S : \A t \in S : LessEq(s, t)
Hallucinated == LET S == {Score(a, contexts) : a \in hallucinated}
                IN  CHOOSE s \in S : \A t \in S : LessEq(t, s)

-----------------------------------------------------------------------------
(* The floors                                                              *)

\* round(score, 4)
Round4(s) == (20000 * s[1] + s[2]) \div (2 * s[2])

\* Faulty: floors are derived from whatever the metric says.
Separates_Any(w, h) == TRUE

\* Below it the producer refuses.
Separates(w, h) == h < 5000 /\ 5000 <= w

\* math.floor(1000 * (x / 2)) for x ten-thousandths.  When 20 divides x, the float
\* product may fall just short of the integer.
Floor3(x) == {x \div 20} \cup IF x % 20 = 0 /\ x > 0 THEN {x \div 20 - 1} ELSE {}

\* What _generation may write.  grounded_min and hallucinated_max are one number.
Derivable == LET w == Round4(Grounded)
                 h == Round4(Hallucinated)
             IN  IF Separates(w, h) THEN [line : Floor3(w + h), margin : Floor3(w - h)] ELSE {}

-----------------------------------------------------------------------------
(* Actions                                                                 *)

\* One answer or two.
Populations == {{a, b} : a, b \in Answers}

\* k = 2 documents, in the order of the search.
Retrievals == {r \in [1..2 -> Docs] : r[1] # r[2]}

ScoreInit == /\ faithful \in Populations /\ hallucinated \in Populations
             /\ contexts \in Retrievals
             /\ metric = "sound"
             /\ floors \in Derivable

\* An edit of FAITHFUL_ANSWERS or HALLUCINATED_ANSWERS.
Relabel == /\ \/ \E P \in Populations : faithful' = P /\ UNCHANGED hallucinated
              \/ \E P \in Populations : hallucinated' = P /\ UNCHANGED faithful
           /\ UNCHANGED <<contexts, metric, floors>>

\* An edit of DOCS or of the search, or a larger k.
Retrieve == /\ \/ contexts' \in Retrievals
               \/ \E d \in Docs : Len(contexts) = 2 /\ contexts' = Append(contexts, d)
            /\ UNCHANGED <<faithful, hallucinated, metric, floors>>

Distort == /\ metric' \in Distortions \cup {"sound"}
           /\ UNCHANGED <<faithful, hallucinated, contexts, floors>>

ScoreNext == Relabel \/ Retrieve \/ Distort

-----------------------------------------------------------------------------
(* Properties                                                              *)

\* The exit code 0 of main.  The scores are not rounded here.  At equality the float
\* margin may also miss its floor.
GatePasses ==
  /\ 1000 * Grounded[1] >= floors.line * Grounded[2]
  /\ 1000 * Hallucinated[1] <= floors.line * Hallucinated[2]
  /\ 1000 * (Grounded[1] * Hallucinated[2] - Hallucinated[1] * Grounded[2])
       >= floors.margin * Grounded[2] * Hallucinated[2]

\* A producer that has just written the floors leaves a green gate behind: the
\* ceiling of the hallucinated answers is rounded down like the floor of the
\* faithful ones, and stays above every one of them.
FreshFloorsAcceptTheirFixture == floors \in Derivable => GatePasses

\* "a metric that discriminates": whatever floors are committed, however old they
\* are, the gate is green only if every faithful answer scores above every
\* hallucinated one.  A metric stuck at any number fails it.
GreenMeansSeparated == GatePasses => ~LessEq(Grounded, Hallucinated)

\* The floors let through the fixture they were derived from, and no metric, whenever
\* it was broken, that cannot tell its two populations apart.
FloorsSeparate == FreshFloorsAcceptTheirFixture /\ GreenMeansSeparated

\* Retrieving one more document never lowers an answer's groundedness ("the union
\* of `contexts`"), so a larger k cannot make a faithful answer fail its floor.
MoreEvidenceNeverHurts ==
  [][Len(contexts') > Len(contexts) =>
       \A a \in Answers : LessEq(Groundedness(a, contexts), Groundedness(a, contexts'))]_scoreVars

=============================================================================
