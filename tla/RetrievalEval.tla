----------------------------- MODULE RetrievalEval -----------------------------
(***************************************************************************)
(* eval/retrieval_eval.py and the retrieval half of                        *)
(* scripts/derive_eval_floors.py: recall@1 and MRR of a list of queries,   *)
(* floors derived from their number alone, and the gate that compares the  *)
(* two.  Both metrics depend only on how many queries find their document  *)
(* at which rank.                                                          *)
(*                                                                         *)
(* Floors are in thousandths.  The code computes in floats, which give the *)
(* quotients and comparisons below exactly up to a thousand queries.       *)
(***************************************************************************)
EXTENDS Integers

CONSTANT MaxQueries     \* bound: queries of the fixture

\* Beyond it the rounding of the floors may let a worse slip through.
ASSUME MaxQueriesAssumption == MaxQueries \in 1..166

VARIABLES
  found,      \* found[r]: queries whose document is at rank r; 0 is not among the k
  thresholds  \* THRESHOLDS, the "retrieval" floors in eval/eval_floors.json

rankVars == <<found, thresholds>>

K == 3              \* k of evaluate
Ranks == 0..K

\* len(QUERIES)
N == found[0] + found[1] + found[2] + found[3]

\* Faulty: rounded up.
Thousandths_Up(a, b) == (1000 * a) \div b + 1

\* The fraction a / b, rounded down to thousandths.
Thousandths(a, b) == (1000 * a) \div b

\* One of n queries slips one rank.
Derived(n) == [recall |-> Thousandths(n - 1, n), mrr |-> Thousandths(2 * n - 1, 2 * n)]

RankInit == \E n \in 1..MaxQueries : /\ found = [r \in Ranks |-> IF r = 1 THEN n ELSE 0]
                                     /\ thresholds = Derived(n)

\* A change of the store, or of the fixture, moves a query to another rank.
Slip(r, s) ==
  /\ found[r] > 0 /\ r # s
  /\ found' = [found EXCEPT ![r] = @ - 1, ![s] = @ + 1]
  /\ UNCHANGED thresholds

AddQuery(r) == /\ N < MaxQueries
               /\ found' = [found EXCEPT ![r] = @ + 1]
               /\ UNCHANGED thresholds

DropQuery(r) == /\ N > 1 /\ found[r] > 0
                /\ found' = [found EXCEPT ![r] = @ - 1]
                /\ UNCHANGED thresholds

\* The script that derives the thresholds again derives all floors: QualityGates.
RankNext == \/ \E r, s \in Ranks : Slip(r, s)
            \/ \E r \in Ranks : AddQuery(r) \/ DropQuery(r)

-----------------------------------------------------------------------------

\* n * recall@1 and 6 * n * mrr, as evaluate adds them up.
Hits == found[1]
ReciprocalRanks == 6 * found[1] + 3 * found[2] + 2 * found[3]

\* The exit code 0 of main.
RankGatePasses == /\ 1000 * Hits >= thresholds.recall * N
                  /\ 1000 * ReciprocalRanks >= thresholds.mrr * 6 * N

\* "Re-running the producer must reproduce the committed artefact"
FreshThresholds == thresholds = Derived(N)

-----------------------------------------------------------------------------
(* Properties                                                              *)

Thresholds == [recall : 0..1000, mrr : 0..1000]

RankTypes == /\ found \in [Ranks -> Nat]
             /\ N \in 1..MaxQueries
             /\ thresholds \in Thresholds

AtMostOneSlip == \/ Hits = N
                 \/ Hits = N - 1 /\ found[2] = 1

\* "One query slipping by a single rank is tolerated; anything worse, or a second
\* one, is not": the two floors, rounded as they are, draw exactly this line.
ToleratesExactlyOneSlip == FreshThresholds => (RankGatePasses <=> AtMostOneSlip)

=============================================================================
