------------------------------ MODULE QualityGates ------------------------------
(***************************************************************************)
(* The scripts that guard the repository: the retrieval gate, the          *)
(* generation gate and the replay of the mutation registry.  The two gates *)
(* read floors from one file, eval/eval_floors.json, which one script      *)
(* derives from both fixtures at once.                                     *)
(***************************************************************************)
EXTENDS RetrievalEval, GenerationEval, MutationReplay

vars == <<rankVars, scoreVars, replayVars>>

Init == RankInit /\ ScoreInit /\ ReplayInit

\* main of derive_eval_floors.  The generation half comes first: if it refuses,
\* nothing is written.
Derive == /\ floors' \in Derivable
          /\ thresholds' = Derived(N)
          /\ UNCHANGED <<found, faithful, hallucinated, contexts, metric, replayVars>>

Next == \/ RankNext   /\ UNCHANGED <<scoreVars, replayVars>>
        \/ ScoreNext  /\ UNCHANGED <<rankVars, replayVars>>
        \/ ReplayNext /\ UNCHANGED <<rankVars, scoreVars>>
        \/ Derive

Spec == Init /\ [][Next]_vars

=============================================================================
