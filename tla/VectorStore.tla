------------------------------ MODULE VectorStore ------------------------------
(***************************************************************************)
(* What VectorStoreProtocol promises its caller: add replaces the corpus,  *)
(* or fails and leaves it; search answers with the best rows there are, and *)
(* distinguishes an empty store from one that was never filled; reset      *)
(* empties it.  Calls are sequential.                                      *)
(*                                                                         *)
(* One query stands for a batch: the rows found for it do not depend on    *)
(* the others.                                                             *)
(***************************************************************************)
EXTENDS Ranking

CONSTANTS
  Corpora,       \* arguments of add: [dim, rows], rows a sequence of vectors
  Queries,       \* arguments of search: [dim, vector]
  Ks,            \* values of k
  Unset          \* the store before the first add and after a reset

VARIABLES
  held,          \* the corpus the store holds
  call,          \* the call under way
  reply          \* what the last call returned or raised

vars == <<held, call, reply>>

Calls == [op : {"add"}, corpus : Corpora] \cup [op : {"search"}, query : Queries, k : Ks]
         \cup [op : {"badAdd", "badSearch", "reset", "none"}]

NoCall == [op |-> "none"]

Rows(s)   == [kind |-> "rows", rows |-> s]
Outcome(kind) == [kind |-> kind]

Init == held = Unset /\ call = NoCall /\ reply = Outcome("none")

Begin == /\ call = NoCall
         /\ call' \in Calls \ {NoCall}
         /\ UNCHANGED <<held, reply>>

Return(r) == reply' = r /\ call' = NoCall

\* An array that is not two-dimensional, or not finite, is refused.
Refuse == /\ call.op \in {"badAdd", "badSearch"}
          /\ Return(Outcome(IF call.op = "badSearch" /\ held = Unset
                            THEN "RuntimeError" ELSE "ValueError"))
          /\ UNCHANGED held

Add == /\ call.op = "add"
       /\ \/ held' = call.corpus /\ Return(Outcome("done"))
          \/ UNCHANGED held      /\ Return(Outcome("failed"))

Search ==
  /\ call.op = "search"
  /\ \/ held = Unset /\ Return(Outcome("RuntimeError"))
     \/ /\ held # Unset
        /\ call.k < 1 \/ call.query.dim # held.dim
        /\ Return(Outcome("ValueError"))
     \/ /\ held # Unset
        /\ call.k >= 1 /\ call.query.dim = held.dim
        /\ \E s \in Best(held, call.query, Smaller(call.k, Size(held))) : Return(Rows(s))
  /\ UNCHANGED held

Reset == call.op = "reset" /\ held' = Unset /\ Return(Outcome("done"))

Next == Begin \/ Refuse \/ Add \/ Search \/ Reset

Spec == Init /\ [][Next]_vars
=============================================================================
