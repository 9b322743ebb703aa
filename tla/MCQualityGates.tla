---------------------------- MODULE MCQualityGates ----------------------------
(* An instance of QualityGates for TLC.  The three scripts share no state but   *)
(* the file of floors, so that it is enough to let one of them at a time leave  *)
(* the state it starts from.                                                    *)
EXTENDS QualityGates

\* The scores 0, 1/3, 1/2, 2/3 and 1.
StopWords == {"the"}
Texts == {{"the"}, {"faiss", "search"}, {"faiss", "tape", "redis"}, {"tape", "the"}}
Documents == {{"faiss", "search", "the"}, {"search", "qdrant"}, {"tape", "archive"}}

\* Three mutations of two files, one of them a control.
Entry(file, gates, control) == [file |-> file, gates |-> gates, control |-> control]

MCRegistry == <<Entry("a", <<"g1", "g2">>, FALSE), Entry("a", <<"g2">>, FALSE),
                Entry("b", <<"g1">>, TRUE)>>

\* The replacement of the first mutation keeps its anchor, as that of M1, M3 and ten more
\* entries of tests/mutations.json does, so that a replay goes on over what another left.
\* The others take their own away, and the second that of the first as well.
MCClobbers == {<<2, 2>>, <<3, 3>>, <<2, 1>>}

\* A runner that is stuck runs no gate, so that it is enough to let it have one sort of
\* them, and a gate that hangs has no other faults.
FewerSetups == /\ runner # "honest" => hangs = {} /\ flaky = {} /\ \A g \in Gates : catches[g] = {}
               /\ hangs \cap flaky = {}

RankQuiet   == found = [r \in Ranks |-> IF r = 1 THEN 6 ELSE 0] /\ thresholds = Derived(6)
ScoreQuiet  == /\ faithful = {{"faiss", "search"}} /\ hallucinated = {{"tape", "the"}}
               /\ contexts = <<{"faiss", "search", "the"}, {"search", "qdrant"}>>
               /\ metric = "sound" /\ floors = [line |-> 500, margin |-> 500]
ReplayQuiet == /\ runs = 0 /\ runner = "honest" /\ breaks = {} /\ hangs = {} /\ flaky = {}
               /\ catches = [g \in Gates |-> Defects]

OneAtATime == \/ RankQuiet /\ ScoreQuiet
              \/ RankQuiet /\ ReplayQuiet
              \/ ScoreQuiet /\ ReplayQuiet

\* Next, of a script at a time.
MCNext ==
  \/ ScoreQuiet /\ ReplayQuiet /\ RankNext /\ UNCHANGED <<scoreVars, replayVars>>
  \/ RankQuiet /\ ReplayQuiet /\ ScoreNext /\ UNCHANGED <<rankVars, replayVars>>
  \/ RankQuiet /\ ScoreQuiet /\ ReplayNext /\ UNCHANGED <<rankVars, scoreVars>>
  \/ ReplayQuiet /\ Derive

MCInit == Init /\ OneAtATime /\ FewerSetups

MCSpec == MCInit /\ [][MCNext]_vars /\ ReplayFairness
=============================================================================
