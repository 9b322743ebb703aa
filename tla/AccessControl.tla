----------------------------- MODULE AccessControl -----------------------------
(***************************************************************************)
(* What RWLock promises to EmbeddingEngine, with no mutex, no condition    *)
(* variable and no counters: shared or exclusive access, and a writer that *)
(* has asked for access keeps newcomers out until it has had it.           *)
(***************************************************************************)
CONSTANTS ReaderThreads, WriterThreads

VARIABLES
  shared,      \* threads that have shared access
  exclusive,   \* threads that have exclusive access
  claims       \* threads that have asked for exclusive access and wait for it

vars == <<shared, exclusive, claims>>

Init == shared = {} /\ exclusive = {} /\ claims = {}

GrantShared(t) ==
  /\ t \in ReaderThreads \ (shared \cup exclusive \cup claims)
  /\ exclusive = {} /\ claims = {}
  /\ shared' = shared \cup {t}
  /\ UNCHANGED <<exclusive, claims>>

EndShared(t) ==
  /\ t \in shared
  /\ shared' = shared \ {t}
  /\ UNCHANGED <<exclusive, claims>>

Claim(t) ==
  /\ t \in WriterThreads \ (shared \cup exclusive \cup claims)
  /\ claims' = claims \cup {t}
  /\ UNCHANGED <<shared, exclusive>>

Withdraw(t) ==
  /\ t \in claims
  /\ claims' = claims \ {t}
  /\ UNCHANGED <<shared, exclusive>>

GrantExclusive(t) ==
  /\ t \in WriterThreads \ shared
  /\ shared = {} /\ exclusive = {}
  /\ exclusive' = {t}
  /\ claims' = claims \ {t}
  /\ UNCHANGED shared

EndExclusive(t) ==
  /\ t \in exclusive
  /\ exclusive' = exclusive \ {t}
  /\ UNCHANGED <<shared, claims>>

Next == \E t \in ReaderThreads \cup WriterThreads :
          \/ GrantShared(t) \/ EndShared(t)
          \/ Claim(t) \/ Withdraw(t) \/ GrantExclusive(t) \/ EndExclusive(t)

\* A claim does not wait for ever, whatever the readers do.
Fairness == /\ WF_vars(\E t \in claims : GrantExclusive(t))
            /\ WF_vars(\E t \in shared : EndShared(t))
            /\ WF_vars(\E t \in exclusive : EndExclusive(t))

Spec == Init /\ [][Next]_vars

FairSpec == Spec /\ Fairness
=============================================================================
