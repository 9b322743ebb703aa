------------------------- MODULE ClientLifecycle_proofs -------------------------
(***************************************************************************)
(* Proofs about ClientLifecycle, for any number of calls, of either kind,  *)
(* and any chain of backends, with and without a deadline.                 *)
(***************************************************************************)
EXTENDS ClientLifecycle, TLAPS

\* Clients are built by calls of their kind, and no call of ainvoke is between two
\* statements of the sync property.
TypeInv ==
  /\ sort \in [Backends -> {"OpenAIBackend", "AnthropicBackend", "MockBackend"}]
  /\ kind \in [Calls -> Kinds]
  /\ active \in 0..N
  /\ client \in [Kinds -> [Backends -> Calls \cup {None}]]
  /\ open \subseteq Backends \X Calls
  /\ asking \in [Calls -> 0..N + 1]
  /\ at \in [Calls -> [Backends -> Labels]]
  /\ closing \in [Kinds -> 0..N + 1]
  /\ raised \subseteq Kinds \X Backends
  /\ \A b \in Backends, k \in Kinds : client[k][b] # None => kind[client[k][b]] = k
  /\ \A b \in Backends, c \in Calls : at[c][b] \in {"build", "store", "fetch"} => c \in SyncCalls

\* A call works on no backend but the one it waits for, except that a thread goes on
\* with those it has given up.
AttemptsAreAwaited ==
  /\ \A b \in Backends, c \in Calls :
       at[c][b] \notin {"none", "done"} => asking[c] = b \/ (c \in SyncCalls /\ <<c, b>> \in gaveUp)
  /\ \A k \in Kinds, c \in Calls :
       closing[k] > 0 /\ kind[c] = k => asking[c] \in {0, N + 1}

\* The async clients that are open are those their backends know of.
TasksShare ==
  \A b \in Backends, c \in Calls : <<b, c>> \in open /\ c \in AsyncCalls => client["async"][b] = c

\* What close and aclose have dealt with.
Dealt(k, b) == b < closing[k]

\* What is open of it is an orphan, or there because a close raised.
DealtIsClosed ==
  \A k \in Kinds, b \in Backends, c \in Calls :
    Dealt(k, b) /\ kind[c] = k /\ <<b, c>> \in open =>
      Orphan(b, c) \/ \E d \in 1..b : <<k, d>> \in raised

Inv == TypeInv /\ AttemptsAreAwaited /\ TasksShare /\ DealtIsClosed

-----------------------------------------------------------------------------

\* The shape of a call that moves on to another backend.
LEMMA AskType ==
  ASSUME TypeInv, NEW c \in Calls, NEW b \in 0..N + 1, Ask(c, b)
  PROVE  /\ asking' = [asking EXCEPT ![c] = b] /\ asking' \in [Calls -> 0..N + 1]
         /\ at' \in [Calls -> [Backends -> Labels]]
         /\ \A d \in Calls, e \in Backends :
              at'[d][e] = IF d = c /\ e = b THEN "check" ELSE at[d][e]
BY NAssumption DEF TypeInv, Ask, Backends, Labels

\* Nothing of a call's kind has been closed while the call waits for a backend.
LEMMA AskingMeansUnclosed ==
  ASSUME TypeInv, AttemptsAreAwaited, NEW c \in Calls, asking[c] \in Backends
  PROVE  kind[c] \in Kinds /\ closing[kind[c]] = 0
<1>1. kind[c] \in Kinds /\ closing[kind[c]] \in 0..N + 1
  BY DEF TypeInv
<1>2. asking[c] \notin {0, N + 1}
  BY NAssumption DEF Backends
<1>3. ~(closing[kind[c]] > 0)
  BY <1>1, <1>2 DEF AttemptsAreAwaited
<1>. QED BY <1>1, <1>3, NAssumption

\* Every backend is initially without a client.
LEMMA InitInv == Init => Inv
<1>. SUFFICES ASSUME Init PROVE Inv
  OBVIOUS
<1>1. sort \in [Backends -> {"OpenAIBackend", "AnthropicBackend", "MockBackend"}]
  BY DEF Init, BackendOf
<1>2. 0 \in 0..N /\ 0 \in 0..N + 1
  BY NAssumption
<1>. QED
  BY <1>1, <1>2, CallsAssumption
     DEF Init, Inv, TypeInv, AttemptsAreAwaited, TasksShare, DealtIsClosed, Dealt, Labels,
         Backends, Kinds

\* Calls, workers, tasks and the two closes preserve it, whatever their order.
LEMMA NextInv == Inv /\ [Next]_vars => Inv'
<1>. SUFFICES ASSUME Inv, [Next]_vars PROVE Inv'
  OBVIOUS
<1>. USE DEF Inv
<1>1. ASSUME NEW c \in Calls, StartCall(c), UNCHANGED <<sort, kind>> PROVE Inv'
  <2>1. active + 1 \in 0..N + 1 /\ active + 1 > 0
    BY NAssumption DEF TypeInv
  <2>2. /\ asking' = [asking EXCEPT ![c] = active + 1] /\ asking' \in [Calls -> 0..N + 1]
        /\ at' \in [Calls -> [Backends -> Labels]]
        /\ \A d \in Calls, e \in Backends :
             at'[d][e] = IF d = c /\ e = active + 1 THEN "check" ELSE at[d][e]
    BY <1>1, <2>1, AskType DEF StartCall
  <2>3. TypeInv'
    BY <1>1, <2>2 DEF StartCall, TypeInv, SyncCalls
  <2>4. AttemptsAreAwaited'
    BY <1>1, <2>1, <2>2, NAssumption DEF StartCall, TypeInv, AttemptsAreAwaited, SyncCalls, Backends
  <2>5. TasksShare' /\ DealtIsClosed'
    BY <1>1 DEF StartCall, TasksShare, DealtIsClosed, Dealt, Orphan, SyncCalls, AsyncCalls
  <2>. QED BY <2>3, <2>4, <2>5
<1>2. ASSUME NEW c \in Calls, Proceed(c), UNCHANGED <<sort, kind>> PROVE Inv'
  <2>1. PICK b \in 1..N + 1 : Ask(c, b)
    BY <1>2, NAssumption DEF Proceed, Backends
  <2>2. /\ asking' = [asking EXCEPT ![c] = b] /\ asking' \in [Calls -> 0..N + 1]
        /\ at' \in [Calls -> [Backends -> Labels]]
        /\ \A d \in Calls, e \in Backends :
             at'[d][e] = IF d = c /\ e = b THEN "check" ELSE at[d][e]
    BY <2>1, AskType
  <2>3. /\ asking[c] \in Backends /\ at[c][asking[c]] = "done"
        /\ UNCHANGED <<sort, kind, active, client, open, uses, gaveUp, closing, raised>>
    BY <1>2 DEF Proceed
  <2>4. TypeInv'
    <3>1. \A e \in Backends, d \in Calls :
            at'[d][e] \in {"build", "store", "fetch"} => at'[d][e] = at[d][e]
      BY <2>2
    <3>2. \A e \in Backends, d \in Calls :
            at'[d][e] \in {"build", "store", "fetch"} => d \in SyncCalls'
      BY <2>3, <3>1 DEF TypeInv, SyncCalls
    <3>. QED BY <2>2, <2>3, <3>2 DEF TypeInv
  <2>5. kind[c] \in Kinds /\ closing[kind[c]] = 0
    BY <2>3, AskingMeansUnclosed
  <2>6. AttemptsAreAwaited'
    BY <2>2, <2>3, <2>5, NAssumption DEF TypeInv, AttemptsAreAwaited, SyncCalls, Backends
  <2>7. TasksShare' /\ DealtIsClosed'
    BY <2>3 DEF TasksShare, DealtIsClosed, Dealt, Orphan, SyncCalls, AsyncCalls
  <2>. QED BY <2>4, <2>6, <2>7
<1>3. ASSUME NEW c \in Calls, GiveUp(c), UNCHANGED <<sort, kind>> PROVE Inv'
  <2>0. PICK b \in Backends : b = asking[c]
    BY <1>3 DEF GiveUp
  <2>1. /\ b = asking[c] /\ b + 1 \in 0..N + 1
        /\ asking' = [asking EXCEPT ![c] = b + 1] /\ gaveUp' = gaveUp \cup {<<c, b>>}
        /\ UNCHANGED <<sort, kind, active, client, open, uses, closing, raised>>
    BY <1>3, <2>0, NAssumption DEF GiveUp, Backends
  <2>2. /\ at' \in [Calls -> [Backends -> Labels]]
        /\ \A d \in Calls, e \in Backends :
             at'[d][e] = IF d = c /\ e = b + 1 THEN "check"
                         ELSE IF d = c /\ e = b /\ c \notin SyncCalls THEN "done" ELSE at[d][e]
    BY <1>3, <2>1 DEF GiveUp, TypeInv, Labels, Backends
  <2>3. TypeInv'
    <3>1. \A e \in Backends, d \in Calls :
            at'[d][e] \in {"build", "store", "fetch"} => at'[d][e] = at[d][e]
      BY <2>2
    <3>2. \A e \in Backends, d \in Calls :
            at'[d][e] \in {"build", "store", "fetch"} => d \in SyncCalls'
      BY <2>1, <3>1 DEF TypeInv, SyncCalls
    <3>3. asking' \in [Calls -> 0..N + 1]
      BY <2>1 DEF TypeInv
    <3>. QED BY <2>1, <2>2, <3>2, <3>3 DEF TypeInv
  <2>4. kind[c] \in Kinds /\ closing[kind[c]] = 0
    BY <2>1, AskingMeansUnclosed
  <2>5. AttemptsAreAwaited'
    BY <2>1, <2>2, <2>4, NAssumption DEF TypeInv, AttemptsAreAwaited, SyncCalls, Backends
  <2>6. TasksShare' /\ DealtIsClosed'
    BY <2>1 DEF TasksShare, DealtIsClosed, Dealt, Orphan, SyncCalls, AsyncCalls
  <2>. QED BY <2>3, <2>5, <2>6
<1>4. ASSUME NEW c \in Calls, NEW b \in Backends, AttemptEnds(c, b) \/ AttemptNeedsNoClient(c, b),
             UNCHANGED <<sort, kind>>
      PROVE  Inv'
  <2>1. /\ at' = [at EXCEPT ![c][b] = "done"] /\ active' \in {active, b}
        /\ UNCHANGED <<client, open, asking, uses, gaveUp, closing, raised>>
    BY <1>4 DEF AttemptEnds, AttemptNeedsNoClient, Goto
  <2>2. TypeInv'
    BY <1>4, <2>1, NAssumption DEF TypeInv, SyncCalls, Labels, Backends
  <2>3. AttemptsAreAwaited'
    BY <1>4, <2>1 DEF AttemptsAreAwaited, TypeInv, SyncCalls
  <2>4. TasksShare' /\ DealtIsClosed'
    BY <1>4, <2>1 DEF TasksShare, DealtIsClosed, Dealt, Orphan, SyncCalls, AsyncCalls
  <2>. QED BY <2>2, <2>3, <2>4
<1>5. ASSUME NEW c \in Calls, NEW b \in Backends, Check(c, b) \/ Fetch(c, b),
             UNCHANGED <<sort, kind>>
      PROVE  Inv'
  <2>1. /\ at[c][b] \in {"check", "fetch"} /\ c \in SyncCalls
        /\ \E label \in {"build", "fetch", "use"} : at' = [at EXCEPT ![c][b] = label]
        /\ UNCHANGED <<active, client, open, asking, gaveUp, closing, raised>>
    BY <1>5 DEF Check, Fetch, Goto, TypeInv
  <2>2. TypeInv'
    BY <1>5, <2>1 DEF TypeInv, SyncCalls, Labels
  <2>3. AttemptsAreAwaited'
    BY <1>5, <2>1 DEF AttemptsAreAwaited, TypeInv, SyncCalls
  <2>4. TasksShare' /\ DealtIsClosed'
    BY <1>5, <2>1 DEF TasksShare, DealtIsClosed, Dealt, Orphan, SyncCalls, AsyncCalls
  <2>. QED BY <2>2, <2>3, <2>4
<1>6. ASSUME NEW c \in Calls, NEW b \in Backends, Build(c, b), UNCHANGED <<sort, kind>> PROVE Inv'
  <2>1. /\ at[c][b] = "build" /\ at' = [at EXCEPT ![c][b] = "store"] /\ open' = open \cup {<<b, c>>}
        /\ UNCHANGED <<active, client, asking, gaveUp, closing, raised>> /\ c \in SyncCalls
    BY <1>6 DEF Build, Goto, TypeInv
  <2>2. TypeInv'
    BY <1>6, <2>1 DEF TypeInv, SyncCalls, Labels
  <2>3. AttemptsAreAwaited'
    BY <1>6, <2>1 DEF AttemptsAreAwaited, TypeInv, SyncCalls
  <2>4. TasksShare'
    BY <1>6, <2>1 DEF TasksShare, SyncCalls, AsyncCalls
  <2>5. ASSUME Dealt("sync", b) PROVE <<c, b>> \in gaveUp
    <3>1. closing["sync"] > 0 /\ kind[c] = "sync"
      BY <2>1, <2>5, NAssumption DEF Dealt, TypeInv, Backends, SyncCalls, Kinds
    <3>2. asking[c] # b
      BY <3>1, NAssumption DEF AttemptsAreAwaited, Kinds, Backends
    <3>. QED BY <2>1, <3>2 DEF AttemptsAreAwaited
  <2>6. DealtIsClosed'
    BY <1>6, <2>1, <2>5 DEF DealtIsClosed, Dealt, Orphan, SyncCalls
  <2>. QED BY <2>2, <2>3, <2>4, <2>6
<1>7. ASSUME NEW c \in Calls, NEW b \in Backends, Store(c, b), UNCHANGED <<sort, kind>> PROVE Inv'
  <2>1. /\ at[c][b] = "store" /\ at' = [at EXCEPT ![c][b] = "fetch"]
        /\ client' = [client EXCEPT !["sync"][b] = c] /\ c \in SyncCalls
        /\ UNCHANGED <<active, open, asking, gaveUp, closing, raised>>
    BY <1>7 DEF Store, Goto, TypeInv
  <2>2. TypeInv'
    BY <1>7, <2>1 DEF TypeInv, SyncCalls, Labels, Kinds
  <2>3. AttemptsAreAwaited'
    BY <1>7, <2>1 DEF AttemptsAreAwaited, TypeInv, SyncCalls
  <2>4. TasksShare'
    BY <1>7, <2>1 DEF TasksShare, TypeInv, AsyncCalls, Kinds
  <2>5. ASSUME Dealt("sync", b) PROVE <<c, b>> \in gaveUp
    <3>1. closing["sync"] > 0 /\ kind[c] = "sync"
      BY <2>1, <2>5, NAssumption DEF Dealt, TypeInv, Backends, SyncCalls, Kinds
    <3>2. asking[c] # b
      BY <3>1, NAssumption DEF AttemptsAreAwaited, Kinds, Backends
    <3>. QED BY <2>1, <3>2 DEF AttemptsAreAwaited
  <2>6. DealtIsClosed'
    BY <1>7, <2>1, <2>5 DEF DealtIsClosed, Dealt, Orphan, SyncCalls, TypeInv, Kinds
  <2>. QED BY <2>2, <2>3, <2>4, <2>6
<1>8. ASSUME NEW c \in Calls, NEW b \in Backends, RunTask(c, b), UNCHANGED <<sort, kind>> PROVE Inv'
  <2>1. /\ c \in AsyncCalls /\ at[c][b] = "check" /\ at' = [at EXCEPT ![c][b] = "use"]
        /\ UNCHANGED <<active, asking, gaveUp, closing, raised>>
        /\ \/ /\ client["async"][b] = None
              /\ client' = [client EXCEPT !["async"][b] = c] /\ open' = open \cup {<<b, c>>}
           \/ /\ client' = [client EXCEPT !["async"][b] = client["async"][b]] /\ open' = open
    BY <1>8 DEF RunTask, Goto
  <2>2. TypeInv'
    <3>0. "async" \in Kinds /\ "use" \in Labels
      BY DEF Kinds, Labels
    <3>1. /\ open' \subseteq Backends \X Calls
          /\ client' \in [Kinds -> [Backends -> Calls \cup {None}]]
          /\ at' \in [Calls -> [Backends -> Labels]]
      <4>1. open' \subseteq Backends \X Calls
        BY <2>1 DEF TypeInv
      <4>2. at' \in [Calls -> [Backends -> Labels]]
        BY <2>1, <3>0 DEF TypeInv
      <4>3. client["async"] \in [Backends -> Calls \cup {None}]
        BY <3>0 DEF TypeInv
      <4>4. PICK d \in Calls \cup {None} : client' = [client EXCEPT !["async"][b] = d]
        BY <2>1, <4>3
      <4>5. client' \in [Kinds -> [Backends -> Calls \cup {None}]]
        BY <3>0, <4>4 DEF TypeInv
      <4>. QED BY <4>1, <4>2, <4>5
    <3>2. \A e \in Backends, k \in Kinds : client'[k][e] # None => kind[client'[k][e]] = k
      BY <2>1 DEF TypeInv, AsyncCalls, Kinds
    <3>3. \A e \in Backends, d \in Calls :
            at'[d][e] \in {"build", "store", "fetch"} => d \in SyncCalls
      BY <2>1 DEF TypeInv
    <3>. QED BY <1>8, <2>1, <3>1, <3>2, <3>3 DEF TypeInv, SyncCalls
  <2>3. AttemptsAreAwaited'
    BY <1>8, <2>1 DEF AttemptsAreAwaited, TypeInv, SyncCalls
  <2>4. TasksShare'
    BY <1>8, <2>1, CallsAssumption DEF TasksShare, TypeInv, AsyncCalls, Kinds
  <2>5. asking[c] = b /\ kind[c] = "async"
    BY <2>1 DEF AttemptsAreAwaited, SyncCalls, AsyncCalls
  <2>6. closing["async"] = 0
    BY <2>5, AskingMeansUnclosed
  <2>7. \A e \in Backends, d \in Calls : Dealt("sync", e) /\ kind[d] = "sync" /\ <<e, d>> \in open' =>
           <<e, d>> \in open /\ client'["sync"][e] = client["sync"][e]
    BY <2>1, <2>5 DEF TypeInv, Kinds
  <2>8. \A e \in Backends : ~Dealt("async", e)
    BY <2>6, NAssumption DEF Dealt, Backends
  <2>9. DealtIsClosed'
    BY <1>8, <2>1, <2>7, <2>8 DEF DealtIsClosed, Dealt, Orphan, SyncCalls, Kinds
  <2>. QED BY <2>2, <2>3, <2>4, <2>9
<1>9. ASSUME NEW k \in Kinds, Close(k), UNCHANGED <<sort, kind>> PROVE Inv'
  <2>1. TypeInv'
    BY <1>9, NAssumption DEF Close, TypeInv, SyncCalls
  <2>2. AttemptsAreAwaited'
    BY <1>9 DEF Close, AttemptsAreAwaited, TypeInv, SyncCalls
  <2>3. TasksShare'
    BY <1>9 DEF Close, TasksShare, AsyncCalls
  <2>4. DealtIsClosed'
    BY <1>9 DEF Close, DealtIsClosed, Dealt, Orphan, SyncCalls, TypeInv, Backends
  <2>. QED BY <2>1, <2>2, <2>3, <2>4
<1>10. ASSUME NEW k \in Kinds, CloseNext(k), UNCHANGED <<sort, kind>> PROVE Inv'
  <2>. DEFINE b == closing[k]
  <2>1. b \in Backends /\ UNCHANGED <<active, client, asking, at, uses, gaveUp>>
    BY <1>10 DEF CloseNext
  <2>2. CASE /\ open' = open \ {<<b, client[k][b]>>}
             /\ closing' = [closing EXCEPT ![k] = b + 1]
             /\ raised' = raised
    <3>1. TypeInv'
      BY <1>10, <2>1, <2>2, NAssumption DEF TypeInv, SyncCalls, Backends
    <3>2. AttemptsAreAwaited'
      BY <1>10, <2>1, <2>2 DEF AttemptsAreAwaited, TypeInv, SyncCalls, Backends
    <3>3. TasksShare'
      BY <1>10, <2>1, <2>2 DEF TasksShare, AsyncCalls
    <3>4. ASSUME NEW c \in Calls, kind[c] = k, <<b, c>> \in open' PROVE Orphan(b, c)
      BY <2>1, <2>2, <3>4 DEF Orphan, TasksShare, SyncCalls, AsyncCalls, Kinds
    <3>5. DealtIsClosed'
      BY <1>10, <2>1, <2>2, <3>4 DEF DealtIsClosed, Dealt, Orphan, SyncCalls, TypeInv, Backends
    <3>. QED BY <3>1, <3>2, <3>3, <3>5
  <2>3. CASE /\ closing' = [closing EXCEPT ![k] = N + 1]
             /\ raised' = raised \cup {<<k, b>>}
             /\ open' = open
    <3>1. TypeInv'
      BY <1>10, <2>1, <2>3, NAssumption DEF TypeInv, SyncCalls, Backends
    <3>2. AttemptsAreAwaited'
      BY <1>10, <2>1, <2>3 DEF AttemptsAreAwaited, TypeInv, SyncCalls, Backends
    <3>3. TasksShare'
      BY <1>10, <2>1, <2>3 DEF TasksShare, AsyncCalls
    <3>4. DealtIsClosed'
      BY <1>10, <2>1, <2>3, NAssumption DEF DealtIsClosed, Dealt, Orphan, SyncCalls, TypeInv, Backends
    <3>. QED BY <3>1, <3>2, <3>3, <3>4
  <2>. QED BY <1>10, <2>2, <2>3 DEF CloseNext
<1>11. CASE UNCHANGED vars
  BY <1>11 DEF vars, TypeInv, AttemptsAreAwaited, TasksShare, DealtIsClosed, Dealt, Orphan,
               SyncCalls, AsyncCalls
<1>. QED
  BY <1>1, <1>2, <1>3, <1>4, <1>5, <1>6, <1>7, <1>8, <1>9, <1>10, <1>11 DEF Next, ClientStep

\* The invariant always holds.
LEMMA Invariant == Spec => []Inv
BY InitInv, NextInv, PTL DEF Spec

\* After a close that has come to the end of the chain, however calls, deadlines and
\* workers interleaved before and after it, a client is open only if its backend holds
\* another, if the worker of a call that gave it up built it, or if the close of its
\* backend or of one before that raised.
THEOREM CloseLeavesOrphans == Spec => []OnlyOrphansStayOpen
<1>1. Inv => OnlyOrphansStayOpen
  <2>. SUFFICES ASSUME Inv, NEW k \in Kinds, NEW b \in Backends, NEW c \in Calls,
                       closing[k] = N + 1, kind[c] = k, <<b, c>> \in open
                PROVE  Orphan(b, c) \/ \E d \in 1..b : <<k, d>> \in raised
    BY DEF OnlyOrphansStayOpen
  <2>1. Dealt(k, b)
    BY NAssumption DEF Dealt, Backends
  <2>. QED BY <2>1 DEF Inv, DealtIsClosed
<1>. QED BY <1>1, Invariant, PTL

\* Tasks never have two open clients of one backend, whatever is cancelled and closed.
THEOREM TasksShareTheirClient == Spec => []AsyncClientIsUnique
<1>1. Inv => AsyncClientIsUnique
  BY DEF Inv, TasksShare, AsyncClientIsUnique, AsyncCalls
<1>. QED BY <1>1, Invariant, PTL

-----------------------------------------------------------------------------

\* Until it is closed, what a backend knows of, or a thread is about to store, is open;
\* and whoever is about to read the client, or has, finds one.
UsedIsOpen ==
  /\ \A k \in Kinds, b \in Backends :
       closing[k] = 0 /\ client[k][b] # None => <<b, client[k][b]>> \in open
  /\ \A c \in Calls, b \in Backends :
       /\ at[c][b] = "store" /\ closing["sync"] = 0 => <<b, c>> \in open
       /\ at[c][b] \in {"fetch", "use"} => client[kind[c]][b] # None

\* Every step preserves it.
LEMMA UsedStep == Inv /\ UsedIsOpen /\ [Next]_vars => UsedIsOpen'
<1>. SUFFICES ASSUME Inv, UsedIsOpen, [Next]_vars PROVE UsedIsOpen'
  OBVIOUS
<1>. USE DEF Inv
<1>1. ASSUME UNCHANGED <<kind, client, open, closing>>,
             \A c \in Calls, b \in Backends :
               at'[c][b] \in {"store", "fetch", "use"} => at'[c][b] = at[c][b]
      PROVE  UsedIsOpen'
  BY <1>1 DEF UsedIsOpen
<1>2. ASSUME NEW c \in Calls, StartCall(c), UNCHANGED <<sort, kind>> PROVE UsedIsOpen'
  <2>1. active + 1 \in 0..N + 1
    BY NAssumption DEF TypeInv
  <2>. QED BY <1>1, <1>2, <2>1, AskType DEF StartCall
<1>3. ASSUME NEW c \in Calls, Proceed(c), UNCHANGED <<sort, kind>> PROVE UsedIsOpen'
  <2>1. PICK b \in 0..N + 1 : Ask(c, b)
    BY <1>3, NAssumption DEF Proceed, Backends
  <2>2. UNCHANGED <<kind, client, open, closing>>
    BY <1>3 DEF Proceed
  <2>. QED BY <1>1, <2>1, <2>2, AskType
<1>4. ASSUME NEW c \in Calls, GiveUp(c), UNCHANGED <<sort, kind>> PROVE UsedIsOpen'
  BY <1>1, <1>4 DEF GiveUp, TypeInv
<1>5. ASSUME NEW c \in Calls, NEW b \in Backends, AttemptEnds(c, b) \/ AttemptNeedsNoClient(c, b),
             UNCHANGED <<sort, kind>>
      PROVE  UsedIsOpen'
  BY <1>1, <1>5 DEF AttemptEnds, AttemptNeedsNoClient, Goto, TypeInv
<1>6. ASSUME NEW c \in Calls, NEW b \in Backends, Check(c, b), UNCHANGED <<sort, kind>>
      PROVE  UsedIsOpen'
  BY <1>6 DEF Check, Goto, TypeInv, UsedIsOpen, SyncCalls
<1>7. ASSUME NEW c \in Calls, NEW b \in Backends, Build(c, b), UNCHANGED <<sort, kind>>
      PROVE  UsedIsOpen'
  BY <1>7 DEF Build, Goto, TypeInv, UsedIsOpen
<1>8. ASSUME NEW c \in Calls, NEW b \in Backends, Store(c, b), UNCHANGED <<sort, kind>>
      PROVE  UsedIsOpen'
  <2>1. /\ at[c][b] = "store" /\ at' = [at EXCEPT ![c][b] = "fetch"] /\ c # None
        /\ client' = [client EXCEPT !["sync"][b] = c] /\ kind[c] = "sync"
        /\ UNCHANGED <<kind, open, closing>>
    BY <1>8, CallsAssumption DEF Store, Goto, TypeInv, SyncCalls
  <2>. QED BY <2>1 DEF TypeInv, UsedIsOpen, Kinds
<1>9. ASSUME NEW c \in Calls, NEW b \in Backends, Fetch(c, b), UNCHANGED <<sort, kind>>
      PROVE  UsedIsOpen'
  BY <1>9 DEF Fetch, Goto, TypeInv, UsedIsOpen
<1>10. ASSUME NEW c \in Calls, NEW b \in Backends, RunTask(c, b), UNCHANGED <<sort, kind>>
       PROVE  UsedIsOpen'
  <2>1. /\ at' = [at EXCEPT ![c][b] = "use"] /\ c # None /\ kind[c] = "async"
        /\ UNCHANGED <<kind, closing>>
        /\ \/ /\ client["async"][b] = None
              /\ client' = [client EXCEPT !["async"][b] = c] /\ open' = open \cup {<<b, c>>}
           \/ /\ client["async"][b] # None /\ client' = client /\ open' = open
    BY <1>10, CallsAssumption DEF RunTask, Goto, AsyncCalls, TypeInv, Kinds
  <2>2. \A e \in Backends : client'["sync"][e] = client["sync"][e]
    BY <2>1 DEF TypeInv, Kinds
  <2>3. \A e \in Backends : client'["async"][e] = IF e = b /\ client["async"][b] = None THEN c
                                                ELSE client["async"][e]
    BY <2>1 DEF TypeInv, Kinds
  <2>4. \A k \in Kinds, e \in Backends :
          closing'[k] = 0 /\ client'[k][e] # None => <<e, client'[k][e]>> \in open'
    BY <2>1, <2>2, <2>3 DEF UsedIsOpen, Kinds
  <2>5. \A d \in Calls, e \in Backends :
          /\ at'[d][e] = "store" /\ closing'["sync"] = 0 => <<e, d>> \in open'
          /\ at'[d][e] \in {"fetch", "use"} => client'[kind'[d]][e] # None
    <3>1. ASSUME NEW d \in Calls, NEW e \in Backends
          PROVE  /\ at'[d][e] = IF d = c /\ e = b THEN "use" ELSE at[d][e]
                 /\ kind[d] \in {"sync", "async"}
      BY <2>1 DEF TypeInv, Kinds
    <3>2. ASSUME NEW d \in Calls, NEW e \in Backends, at'[d][e] = "store", closing'["sync"] = 0
          PROVE  <<e, d>> \in open'
      BY <2>1, <3>1, <3>2 DEF UsedIsOpen
    <3>3. ASSUME NEW d \in Calls, NEW e \in Backends, at'[d][e] \in {"fetch", "use"}
          PROVE  client'[kind'[d]][e] # None
      <4>1. CASE d = c /\ e = b
        BY <2>1, <2>3, <4>1
      <4>2. CASE ~(d = c /\ e = b)
        <5>1. at[d][e] \in {"fetch", "use"}
          BY <3>1, <3>3, <4>2
        <5>2. client[kind[d]][e] # None
          BY <5>1 DEF UsedIsOpen
        <5>3. kind'[d] = kind[d] /\ (kind[d] = "sync" \/ kind[d] = "async")
          BY <2>1, <3>1
        <5>. QED BY <2>1, <2>2, <2>3, <5>2, <5>3
      <4>. QED BY <4>1, <4>2
    <3>. QED BY <3>2, <3>3
  <2>. QED BY <2>4, <2>5 DEF UsedIsOpen
<1>11. ASSUME NEW k \in Kinds, Close(k), UNCHANGED <<sort, kind>> PROVE UsedIsOpen'
  BY <1>11 DEF Close, TypeInv, UsedIsOpen
<1>12. ASSUME NEW k \in Kinds, CloseNext(k), UNCHANGED <<sort, kind>> PROVE UsedIsOpen'
  <2>1. closing[k] # 0 /\ UNCHANGED <<client, at, kind>>
    BY <1>12, NAssumption DEF CloseNext, Backends
  <2>2. /\ closing'[k] # 0
        /\ \A j \in Kinds \ {k} : closing'[j] = closing[j]
    BY <1>12, NAssumption DEF CloseNext, TypeInv, Backends
  <2>3. open' \in {open, open \ {<<closing[k], client[k][closing[k]]>>}}
    BY <1>12 DEF CloseNext
  <2>4. \A j \in Kinds \ {k}, b \in Backends, c \in Calls :
          kind[c] = j /\ <<b, c>> \in open => <<b, c>> \in open'
    <3>1. closing[k] \in Backends
      BY <1>12 DEF CloseNext
    <3>. QED BY <2>3, <3>1, CallsAssumption DEF TypeInv
  <2>5. \A c \in Calls, b \in Backends : at[c][b] = "store" => kind[c] = "sync"
    BY DEF TypeInv, SyncCalls
  <2>6. \A j \in Kinds, b \in Backends : client[j][b] # None => client[j][b] \in Calls /\ kind[client[j][b]] = j
    BY DEF TypeInv
  <2>. QED BY <2>1, <2>2, <2>4, <2>5, <2>6 DEF UsedIsOpen, Kinds
<1>13. CASE UNCHANGED vars
  BY <1>13 DEF vars, UsedIsOpen
<1>. QED
  BY <1>2, <1>3, <1>4, <1>5, <1>6, <1>7, <1>8, <1>9, <1>10, <1>11, <1>12, <1>13
     DEF Next, ClientStep

\* Every variable has its shape, and before the close nobody holds a client that is
\* not open.
THEOREM TypeCorrect == Spec => []TypeOK
<1>1. Init => UsedIsOpen
  BY CallsAssumption DEF Init, UsedIsOpen, Kinds
<1>2. Inv /\ UsedIsOpen => TypeOK
  <2>. SUFFICES ASSUME Inv, UsedIsOpen PROVE TypeOK
    OBVIOUS
  <2>1. ASSUME NEW b \in Backends, NEW c \in Calls, at[c][b] \in {"store", "fetch", "use"},
               closing[kind[c]] = 0
        PROVE  \E d \in Calls : kind[d] = kind[c] /\ <<b, d>> \in open
    <3>1. kind[c] \in Kinds
      BY DEF Inv, TypeInv
    <3>2. CASE at[c][b] = "store"
      BY <2>1, <3>2 DEF Inv, TypeInv, UsedIsOpen, SyncCalls
    <3>3. CASE at[c][b] \in {"fetch", "use"}
      <4>1. client[kind[c]][b] # None
        BY <3>3 DEF UsedIsOpen
      <4>. QED BY <2>1, <3>1, <4>1 DEF Inv, TypeInv, UsedIsOpen
    <3>. QED BY <2>1, <3>2, <3>3
  <2>. QED BY <2>1 DEF Inv, TypeInv, TypeOK
<1>. QED BY <1>1, <1>2, Invariant, UsedStep, PTL DEF Spec

-----------------------------------------------------------------------------
(* Where orphans come from                                                 *)

\* At most one thread at a time is in a call.
ThreadsTakeTurns ==
  \A c, d \in SyncCalls : asking[c] \in Backends /\ asking[d] \in Backends => c = d

\* What has been closed is closed, but for a close that raised.
NothingStaysOpen ==
  \A k \in Kinds, b \in Backends, c \in Calls :
    closing[k] = N + 1 /\ kind[c] = k /\ <<b, c>> \in open => \E d \in 1..b : <<k, d>> \in raised

\* A client that a thread has built is the one its backend knows of or is about to;
\* whoever builds one has found none, and nobody has come between.
ThreadsAreKnown ==
  /\ gaveUp = {}
  /\ \A b \in Backends, c \in SyncCalls :
       /\ <<b, c>> \in open => client["sync"][b] = c \/ at[c][b] = "store"
       /\ at[c][b] \in {"build", "store"} => client["sync"][b] = None

\* Threads that take turns keep it so where there is no deadline.
LEMMA KnownStep ==
  ASSUME ~Deadline, Inv, ThreadsAreKnown, ThreadsTakeTurns, [Next]_vars
  PROVE  ThreadsAreKnown'
<1>. USE DEF Inv
<1>1. \A b \in Backends, c \in SyncCalls : at[c][b] \notin {"none", "done"} => asking[c] = b
  BY DEF AttemptsAreAwaited, ThreadsAreKnown, SyncCalls
<1>2. SyncCalls \subseteq Calls /\ SyncCalls \cap AsyncCalls = {} /\ None \notin Calls
  BY CallsAssumption DEF SyncCalls, AsyncCalls
<1>3. ASSUME NEW c \in Calls, StartCall(c) \/ Proceed(c), UNCHANGED <<sort, kind>>
      PROVE  ThreadsAreKnown'
  <2>1. UNCHANGED <<client, open, gaveUp>>
    BY <1>3 DEF StartCall, Proceed
  <2>2. PICK b \in Nat : Ask(c, b)
    BY <1>3, NAssumption DEF StartCall, Proceed, TypeInv, Backends
  <2>3. /\ asking[c] \notin Backends \/ at[c][asking[c]] = "done"
    BY <1>3, NAssumption DEF StartCall, Proceed, Backends
  <2>4. ASSUME NEW e \in Backends, NEW d \in SyncCalls
        PROVE  at'[d][e] = at[d][e] \/ (d = c /\ at'[d][e] = "check" /\ at[d][e] # "store")
    BY <1>1, <1>2, <2>2, <2>3, <2>4 DEF Ask, TypeInv
  <2>. QED BY <1>3, <2>1, <2>4 DEF ThreadsAreKnown, SyncCalls
<1>4. ASSUME NEW c \in Calls, GiveUp(c) PROVE FALSE
  BY <1>4 DEF GiveUp
<1>5. ASSUME NEW c \in Calls, NEW b \in Backends,
             AttemptEnds(c, b) \/ AttemptNeedsNoClient(c, b) \/ Fetch(c, b), UNCHANGED <<sort, kind>>
      PROVE  ThreadsAreKnown'
  <2>1. UNCHANGED <<client, open, gaveUp>>
    BY <1>5 DEF AttemptEnds, AttemptNeedsNoClient, Fetch
  <2>2. ASSUME NEW e \in Backends, NEW d \in SyncCalls
        PROVE  at'[d][e] = at[d][e] \/ (at'[d][e] \in {"use", "done"} /\ at[d][e] # "store")
    <3>1. /\ at[c][b] # "store"
          /\ \E label \in {"use", "done"} : at' = [at EXCEPT ![c][b] = label]
      BY <1>5 DEF AttemptEnds, AttemptNeedsNoClient, Fetch, Goto
    <3>. QED BY <1>2, <3>1 DEF TypeInv
  <2>. QED BY <1>5, <2>1, <2>2 DEF ThreadsAreKnown, SyncCalls
<1>6. ASSUME NEW c \in Calls, NEW b \in Backends, Check(c, b), UNCHANGED <<sort, kind>>
      PROVE  ThreadsAreKnown'
  <2>1. UNCHANGED <<client, open, gaveUp>> /\ c \in SyncCalls
    BY <1>6 DEF Check
  <2>2. ASSUME NEW e \in Backends, NEW d \in SyncCalls
        PROVE  \/ at'[d][e] = at[d][e]
               \/ /\ at[d][e] = "check" /\ at'[d][e] \in {"build", "fetch"}
                  /\ at'[d][e] = "build" => client["sync"][e] = None
    BY <1>2, <1>6 DEF Check, Goto, TypeInv
  <2>. QED BY <1>6, <2>1, <2>2 DEF ThreadsAreKnown, SyncCalls
<1>7. ASSUME NEW c \in Calls, NEW b \in Backends, Build(c, b), UNCHANGED <<sort, kind>>
      PROVE  ThreadsAreKnown'
  <2>1. /\ UNCHANGED <<client, gaveUp>> /\ open' = open \cup {<<b, c>>}
        /\ at[c][b] = "build" /\ at' = [at EXCEPT ![c][b] = "store"]
    BY <1>7 DEF Build, Goto
  <2>2. ASSUME NEW e \in Backends, NEW d \in SyncCalls
        PROVE  at'[d][e] = IF d = c /\ e = b THEN "store" ELSE at[d][e]
    BY <1>2, <2>1 DEF TypeInv
  <2>. QED BY <1>7, <2>1, <2>2 DEF ThreadsAreKnown, SyncCalls
<1>8. ASSUME NEW c \in Calls, NEW b \in Backends, Store(c, b), UNCHANGED <<sort, kind>>
      PROVE  ThreadsAreKnown'
  <2>1. /\ UNCHANGED <<open, gaveUp>> /\ client' = [client EXCEPT !["sync"][b] = c]
        /\ at[c][b] = "store" /\ at' = [at EXCEPT ![c][b] = "fetch"]
    BY <1>8 DEF Store, Goto
  <2>2. c \in SyncCalls /\ asking[c] = b
    BY <1>1, <2>1 DEF TypeInv
  <2>3. ASSUME NEW e \in Backends, NEW d \in SyncCalls
        PROVE  /\ at'[d][e] = IF d = c /\ e = b THEN "fetch" ELSE at[d][e]
               /\ client'["sync"][e] = IF e = b THEN c ELSE client["sync"][e]
    BY <1>2, <2>1 DEF TypeInv, Kinds
  <2>4. ASSUME NEW d \in SyncCalls \ {c}
        PROVE  at[d][b] \notin {"build", "store"} /\ <<b, d>> \notin open
    <3>1. at[d][b] \notin {"build", "store"}
      BY <1>1, <2>2 DEF ThreadsTakeTurns
    <3>2. client["sync"][b] = None /\ d # None
      BY <1>2, <2>1, <2>2 DEF ThreadsAreKnown
    <3>. QED BY <3>1, <3>2 DEF ThreadsAreKnown
  <2>. QED BY <1>8, <2>1, <2>3, <2>4 DEF ThreadsAreKnown, SyncCalls
<1>9. ASSUME NEW c \in Calls, NEW b \in Backends, RunTask(c, b), UNCHANGED <<sort, kind>>
      PROVE  ThreadsAreKnown'
  <2>1. ASSUME NEW e \in Backends, NEW d \in SyncCalls
        PROVE  /\ at'[d][e] = at[d][e] /\ client'["sync"][e] = client["sync"][e]
               /\ <<e, d>> \in open' => <<e, d>> \in open
    BY <1>2, <1>9 DEF RunTask, Goto, TypeInv, Kinds
  <2>2. UNCHANGED gaveUp
    BY <1>9 DEF RunTask
  <2>. QED BY <1>9, <2>1, <2>2 DEF ThreadsAreKnown, SyncCalls
<1>10. ASSUME NEW k \in Kinds, Close(k) \/ CloseNext(k), UNCHANGED <<sort, kind>>
       PROVE  ThreadsAreKnown'
  <2>1. open' \subseteq open /\ UNCHANGED <<client, at, gaveUp>>
    BY <1>10 DEF Close, CloseNext
  <2>. QED BY <1>10, <2>1 DEF ThreadsAreKnown, SyncCalls
<1>11. CASE UNCHANGED vars
  BY <1>11 DEF vars, ThreadsAreKnown, SyncCalls
<1>. QED
  BY <1>3, <1>4, <1>5, <1>6, <1>7, <1>8, <1>9, <1>10, <1>11 DEF Next, ClientStep

\* Orphans need a race or a deadline: where threads take turns, no worker is ever left
\* alone and tasks do what they like, close and aclose leave no client open but behind a
\* close that raised.
THEOREM TurnsLeaveNothing ==
  ASSUME ~Deadline
  PROVE  Spec /\ []ThreadsTakeTurns => []NothingStaysOpen
<1>1. Init => ThreadsAreKnown
  BY DEF Init, ThreadsAreKnown, SyncCalls
<1>2. ASSUME Inv, ThreadsAreKnown, OnlyOrphansStayOpen PROVE NothingStaysOpen
  <2>. SUFFICES ASSUME NEW k \in Kinds, NEW b \in Backends, NEW c \in Calls,
                       closing[k] = N + 1, kind[c] = k, <<b, c>> \in open, Orphan(b, c)
                PROVE  FALSE
    BY <1>2 DEF NothingStaysOpen, OnlyOrphansStayOpen
  <2>1. c \in SyncCalls /\ at[c][b] = "store"
    BY <1>2 DEF ThreadsAreKnown, Orphan
  <2>2. asking[c] = b
    BY <1>2, <2>1 DEF Inv, AttemptsAreAwaited, ThreadsAreKnown, SyncCalls
  <2>3. asking[c] \in {0, N + 1}
    BY <1>2, <2>1, NAssumption DEF Inv, AttemptsAreAwaited, SyncCalls
  <2>. QED BY <2>2, <2>3, NAssumption DEF Backends
<1>3. ThreadsAreKnown /\ Inv /\ ThreadsTakeTurns /\ [Next]_vars => ThreadsAreKnown'
  BY KnownStep
<1>. QED BY <1>1, <1>2, <1>3, Invariant, CloseLeavesOrphans, PTL DEF Spec

=============================================================================
