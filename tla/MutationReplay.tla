----------------------------- MODULE MutationReplay -----------------------------
(***************************************************************************)
(* scripts/replay_mutations.py: apply one registered mutation at a time to *)
(* the working tree, run its gates, restore the file, and require that     *)
(* every defect turns a gate red and no control does.                      *)
(*                                                                         *)
(* A file stands for the set of mutations that are live in it, and may be  *)
(* torn: cut short, because its writing was.  The tree outlives the        *)
(* process: what a killed replay leaves behind, the next one finds.        *)
(***************************************************************************)
EXTENDS Naturals, Sequences, FiniteSets

CONSTANTS
  Registry,       \* tests/mutations.json: a sequence of [file, gates, control]
  Gates,          \* the commands its entries name
  Clobbers,       \* <<i, j>>: with i live, the anchor of j is not there once
  MaxRuns,        \* bound: how often the script is started
  MaxKills        \* bound: how often it is killed, or interrupted as it restores

Ids      == DOMAIN Registry
Controls == {e \in Ids : Registry[e].control}
Defects  == Ids \ Controls

\* What tests/test_mutation_registry.py asserts of the registry: there is a control, and
\* every entry has a gate.
ASSUME RegistryAssumption ==
  /\ Len(Registry) \in Nat /\ Ids = 1..Len(Registry)
  /\ \A e \in Ids : Registry[e].gates \in Seq(Gates) \ {<<>>}
  /\ Controls # {} /\ Defects # {}

VARIABLES
  \* what the script finds: does not change
  runner,         \* whether gates are run, "honest", or stuck on "green" or "red"
  catches,        \* catches[g]: the mutations that make a test of gate g fail
  breaks,         \* mutations with which the file no longer loads
  hangs,          \* gates that never end
  flaky,          \* gates that may exit with 1 whatever is in the tree
  \* the working tree
  live,           \* mutations live in it
  torn,           \* files that are cut short
  \* the process
  pc,             \* where it is; "stopped" when there is none
  entry, gate,    \* the entry under replay and its gate
  original,       \* mutations that were live in the file when it was read
  outcome,        \* what replay is about to return
  survivors, controlsCaught,
  exit,           \* how the last process ended: its exit code (1 when replay
                  \* raised), 3 when it was killed, 4 when none has ended
  runs, kills

setup   == <<runner, catches, breaks, hangs, flaky>>
tree    == <<live, torn>>
verdict == <<survivors, controlsCaught, exit>>
replayVars    == <<setup, tree, pc, entry, gate, original, outcome, verdict, runs, kills>>

InFile(e) == {i \in live : Registry[i].file = Registry[e].file}

\* text.count(entry["find"]) == 1, which is anybody's guess in a torn file.
AnchorPresent(e) == IF Registry[e].file \in torn
                    THEN BOOLEAN ELSE {\A i \in InFile(e) : <<i, e>> \notin Clobbers}

ReplayInit == /\ runner \in {"honest", "green", "red"}
              /\ catches \in [Gates -> SUBSET Defects]
              /\ breaks \in SUBSET Ids
              /\ hangs \in SUBSET Gates /\ flaky \in SUBSET Gates
              /\ live = {} /\ torn = {}
              /\ pc = "stopped"
              /\ entry = 1 /\ gate = 1
              /\ original = {}
              /\ outcome = "none"
              /\ survivors = {} /\ controlsCaught = {}
              /\ exit = 4
              /\ runs = 0 /\ kills = 0

-----------------------------------------------------------------------------

Start ==
  /\ pc = "stopped" /\ runs < MaxRuns
  /\ runs' = runs + 1
  /\ pc' = "read"
  /\ entry' = 1 /\ gate' = 1 /\ original' = {} /\ outcome' = "none"
  /\ survivors' = {} /\ controlsCaught' = {} /\ exit' = 4
  /\ UNCHANGED <<tree, kills>>

Exit(code) == pc' = "stopped" /\ exit' = code

\* The bytes of the file are read, and its anchor is looked for: a stale entry
\* ends the run.
Read ==
  /\ pc = "read"
  /\ \E present \in AnchorPresent(entry) :
       IF present THEN original' = InFile(entry) /\ pc' = "write" /\ exit' = exit
                  ELSE original' = original /\ Exit(2)
  /\ UNCHANGED <<tree, entry, gate, outcome, survivors, controlsCaught, runs, kills>>

Write ==
  /\ pc = "write"
  /\ live' = live \cup {entry}
  /\ pc' = "load" /\ gate' = 1
  /\ UNCHANGED <<torn, entry, original, outcome, verdict, runs, kills>>

\* Where try ends and finally begins.
Leave(result) == pc' = "restore" /\ outcome' = result

\* imports_cleanly runs into what breaks the file that was mutated, and perhaps into what
\* is wrong with others that it imports.
Unloadable  == live \cap breaks # {} \/ torn # {}
CertainlyIs == InFile(entry) \cap breaks # {} /\ Registry[entry].file \notin torn

\* Faulty: the file that does not load is not put back.
Load_KeepsBroken ==
  /\ pc = "load"
  /\ \/ Unloadable   /\ pc' = "record" /\ outcome' = "unloadable"
     \/ ~CertainlyIs /\ pc' = "gates" /\ outcome' = outcome
  /\ UNCHANGED <<tree, entry, gate, original, verdict, runs, kills>>

\* imports_cleanly.
Load ==
  /\ pc = "load"
  /\ \/ Unloadable   /\ Leave("unloadable")
     \/ ~CertainlyIs /\ pc' = "gates" /\ outcome' = outcome
  /\ UNCHANGED <<tree, entry, gate, original, verdict, runs, kills>>

\* A gate exits with 1 for a test that fails by a mutation in the tree, and as well for
\* one that fails by itself, or if it is a script that a torn file stops.
Red(g, mutations) ==
  g \notin hangs /\ (g \in flaky \/ torn # {} \/ mutations \cap catches[g] # {})

\* Faulty: any exit code but 0 earns the credit.
GateCaught_AnyFailure(g) ==
  CASE runner = "green" -> {FALSE}
    [] runner = "red"   -> {TRUE}
    [] OTHER            -> IF g \in hangs THEN {FALSE} ELSE {Red(g, live), TRUE}

\* Faulty: no timeout, and a gate that hangs does not return.
GateCaught_NoTimeout(g) ==
  CASE runner = "green" -> {FALSE}
    [] runner = "red"   -> {TRUE}
    [] OTHER            -> IF g \in hangs THEN {} ELSE {Red(g, live), FALSE}

\* The values gate_caught may return: the gate exited with 1, or with anything else, hit
\* its timeout, or broke off.
GateCaught(g) ==
  CASE runner = "green" -> {FALSE}
    [] runner = "red"   -> {TRUE}
    [] OTHER            -> {Red(g, live), FALSE}

\* The first gate that catches the mutation ends the loop.
RunGate ==
  /\ pc = "gates"
  /\ \/ /\ gate > Len(Registry[entry].gates)
        /\ Leave("survived") /\ gate' = gate
     \/ /\ gate <= Len(Registry[entry].gates)
        /\ \E caught \in GateCaught(Registry[entry].gates[gate]) :
             IF caught THEN Leave("caught") /\ gate' = gate
                       ELSE gate' = gate + 1 /\ UNCHANGED <<pc, outcome>>
  /\ UNCHANGED <<tree, entry, original, verdict, runs, kills>>

\* An error of the write, Ctrl-C, or the timeout of the import, which nobody catches.
\* How much of the file was written does not matter: finally writes it anew.
Interrupt ==
  /\ pc \in {"write", "load", "gates"}
  /\ Leave("raised")
  /\ UNCHANGED <<tree, entry, gate, original, verdict, runs, kills>>

\* The finally clause.
Restore ==
  /\ pc = "restore"
  /\ live' = (live \ InFile(entry)) \cup original
  /\ pc' = "record"
  /\ UNCHANGED <<torn, entry, gate, original, outcome, verdict, runs, kills>>

\* survivors and controls_caught once the outcome of the entry is in.
Lost == IF outcome = "survived" THEN survivors \cup ({entry} \cap Defects) ELSE survivors

Spurious == IF outcome = "caught" THEN controlsCaught \cup ({entry} \cap Controls)
                                  ELSE controlsCaught

\* The exit code after the last entry.
Verdict == IF Spurious # {} \/ Lost # {} THEN 1 ELSE 0

\* The loop body of main once replay has returned, or raised.
Record ==
  /\ pc = "record"
  /\ survivors' = Lost /\ controlsCaught' = Spurious
  /\ CASE outcome = "unloadable" -> Exit(2) /\ entry' = entry
       [] outcome = "raised"     -> Exit(1) /\ entry' = entry
       [] OTHER -> IF entry = Len(Registry)
                   THEN Exit(Verdict) /\ entry' = entry
                   ELSE pc' = "read" /\ entry' = entry + 1 /\ exit' = exit
  /\ UNCHANGED <<tree, gate, original, outcome, runs, kills>>

\* The process ends where it is.  A file it was writing is as before, or torn.
BreakOff(code) ==
  /\ kills < MaxKills /\ kills' = kills + 1
  /\ torn' \in {torn} \cup (IF pc \in {"write", "restore"}
                           THEN {torn \cup {Registry[entry].file}} ELSE {})
  /\ Exit(code)
  /\ UNCHANGED <<live, entry, gate, original, outcome, survivors, controlsCaught, runs>>

\* SIGTERM, SIGKILL or a power cut: no finally clause runs.
Kill == pc # "stopped" /\ BreakOff(3)

\* Ctrl-C, or an error, while the finally clause writes the file.
InterruptRestore == pc = "restore" /\ BreakOff(1)

ReplayStep == Read \/ Write \/ Load \/ RunGate \/ Restore \/ Record

ReplayNext == (Start \/ ReplayStep \/ Interrupt \/ InterruptRestore \/ Kill) /\ UNCHANGED setup

\* The script runs on: every gate ends, by its timeout at the latest.
ReplayFairness == WF_replayVars(ReplayStep /\ UNCHANGED setup)

-----------------------------------------------------------------------------
(* Properties                                                              *)

\* "restore the file's original bytes": a replay that is not killed, nor interrupted while
\* it writes them, leaves the tree as it was, whatever its gates do and however it ends.
TreeIsRestored ==
  kills = 0 /\ pc \notin {"load", "gates", "restore"} => live = {} /\ torn = {}

Passed == pc = "stopped" /\ exit = 0

\* What the line "PASS: every registered defect turns a gate red" is worth.  "a runner
\* stuck on "green" fails on the defects, a runner stuck on "red" fails on the controls";
\* each defect has a gate that ends, and that was red for it: by itself, by a torn file,
\* by a mutation an earlier replay left in the tree, or because it catches the defect.
\* And what was left in the tree has taken nobody's anchor away.
PassMeansHeld ==
  Passed =>
    /\ runner = "honest"
    /\ \A e \in Defects :
         \E n \in DOMAIN Registry[e].gates : Red(Registry[e].gates[n], live \cup {e})
    /\ \A e \in Ids : TRUE \in AnchorPresent(e)

\* The replay ends even if a gate does not.
RunsEnd == pc # "stopped" ~> pc = "stopped"

=============================================================================
