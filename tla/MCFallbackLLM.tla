----------------------------- MODULE MCFallbackLLM -----------------------------
(* Instances of FallbackLLM for TLC: threads s1 .. s3 that call invoke, tasks  *)
(* a1, a2 that call ainvoke, and the values of retry_on the tests use.  One    *)
(* call each is enough: a caller's second call is a call of another caller     *)
(* that starts late.                                                           *)
EXTENDS FallbackLLM

CONSTANTS s1, s2, s3, a1, a2

\* retry_on = (Exception,), the default: CancelledError is no Exception.
AnyException == {"bug", "timeout", "error"}

\* retry_on = (ConnectionError,)
Narrow == {"error"}

\* FallbackLLM(backends), and with both arguments.
DefaultOrStrict == {[deadline |-> FALSE, retryOn |-> AnyException],
                    [deadline |-> TRUE,  retryOn |-> Narrow]}

\* With and without a deadline, and any retry_on above.
EveryOption == {[deadline |-> d, retryOn |-> r] : d \in BOOLEAN, r \in {AnyException, Narrow}}

Strict == {[deadline |-> TRUE, retryOn |-> Narrow]}

\* Enough where only the trips matter.
BudgetOrNot == {"ok", "budget", "error"}

AnyEnding == {"ok", "budget", "bug", "error", "timeout"}
=============================================================================
