----------------------------- MODULE CorpusService -----------------------------
(***************************************************************************)
(* What serve.py promises to those who send requests: each takes effect at *)
(* one instant, as if there were no others.  A corpus that is accepted     *)
(* replaces the one before; a query is told that there is none, or is      *)
(* answered from the corpus of the instant at which it looks, and from     *)
(* nothing else; a request that is turned away changes nothing.            *)
(***************************************************************************)
EXTENDS Ranking

CONSTANTS Requests, Messages      \* as in Serve

VARIABLES
  corpus,     \* the documents, << >> when there are none
  msg,        \* what each request says
  seen,       \* the corpus that a query has looked at and not yet answered from
  reply       \* [status, docs]

vars == <<corpus, msg, seen, reply>>

NoMessage == [op |-> "none"]
NoReply == [status |-> 0, docs |-> << >>]

Init == /\ corpus = << >>
        /\ msg = [r \in Requests |-> NoMessage]
        /\ seen = [r \in Requests |-> << >>]
        /\ reply = [r \in Requests |-> NoReply]

Ask(r) ==
  /\ msg[r] = NoMessage
  /\ \E m \in Messages : msg' = [msg EXCEPT ![r] = m]
  /\ UNCHANGED <<corpus, seen, reply>>

\* Asked, and neither answered nor about to be.
Pending(r) == msg[r] # NoMessage /\ seen[r] = << >> /\ reply[r] = NoReply

Replies(r, status, docs) == reply' = [reply EXCEPT ![r] = [status |-> status, docs |-> docs]]

TurnAway(r) ==
  /\ Pending(r)
  /\ \E status \in {400, 401, 411, 413, 422, 503} : Replies(r, status, << >>)
  /\ UNCHANGED <<corpus, msg, seen>>

Accept(r) ==
  /\ Pending(r) /\ msg[r].op = "index" /\ msg[r].docs # << >>
  /\ corpus' = msg[r].docs
  /\ Replies(r, 201, << >>)
  /\ UNCHANGED <<msg, seen>>

Look(r) ==
  /\ Pending(r) /\ msg[r].op = "query"
  /\ IF corpus = << >> THEN Replies(r, 409, << >>) /\ UNCHANGED seen
                       ELSE seen' = [seen EXCEPT ![r] = corpus] /\ UNCHANGED reply
  /\ UNCHANGED <<corpus, msg>>

Answer(r) ==
  /\ seen[r] # << >>
  /\ \E rows \in Best([rows |-> seen[r]], msg[r].query, Smaller(msg[r].k, Len(seen[r]))) :
       Replies(r, 200, [n \in DOMAIN rows |-> seen[r][rows[n]]])
  /\ seen' = [seen EXCEPT ![r] = << >>]
  /\ UNCHANGED <<corpus, msg>>

Next == \E r \in Requests : Ask(r) \/ TurnAway(r) \/ Accept(r) \/ Look(r) \/ Answer(r)

Spec == Init /\ [][Next]_vars
=============================================================================
