------------------------- MODULE SingleFlightCacheProofs -------------------------
(***************************************************************************)
(* Theorems about the single-flight cache, for any callers and keys.       *)
(***************************************************************************)
EXTENDS SingleFlightCache, TLAPS

(* The inductive invariant.  Flights: the registered future of a key is    *)
(* the pending work of exactly the caller fetching it.                     *)
Flights ==
    /\ \A k \in Keys : inflight[k] # None =>
         pc[inflight[k]] = "fetching" /\ keyOf[inflight[k]] = k
    /\ \A c \in Callers : pc[c] = "fetching" => inflight[keyOf[c]] = c

(* Futures: a done future says what became of its owner, or that a waiter  *)
(* on it was cancelled.                                                    *)
Futures ==
    \A c \in Callers :
        /\ future[c] = "pending" => pc[c] = "fetching"
        /\ future[c] = "value" => pc[c] = "returned" /\ got[c] = c
        /\ future[c] = "error" => pc[c] = "raised"
        /\ future[c] = "cancelled" =>
              pc[c] = "cancelled" \/ \E d \in hit : joined[d] = c
        /\ pc[c] # "returned" => got[c] = None
        /\ pc[c] = "idle" => future[c] = "none"
        /\ pc[c] = "fetching" => future[c] # "none"

(* Joins: whoever waits or waited did so on a future of its own key.       *)
Joins ==
    \A c \in Callers :
        /\ pc[c] = "waiting" => joined[c] # None
        /\ pc[c] = "idle" => joined[c] = None
        /\ joined[c] # None => /\ joined[c] # c
                               /\ future[c] = "none"
                               /\ future[joined[c]] # "none"
                               /\ keyOf[joined[c]] = keyOf[c]
                               /\ pc[c] # "fetching"

Inv == TypeOK /\ Flights /\ Futures /\ Joins

LEMMA InvInit == Init => Inv
  BY NoneAssumption DEF Init, Inv, TypeOK, Flights, Futures, Joins, Ended

LEMMA InvStep == Inv /\ [Next]_vars => Inv'
  <1> SUFFICES ASSUME Inv, [Next]_vars PROVE Inv'
    OBVIOUS
  <1> USE NoneAssumption DEF Inv, TypeOK, Flights, Futures, Joins, Ended
  <1>1. ASSUME NEW c \in Callers, Hit(c) PROVE Inv'
    <2>1. cache[keyOf[c]] \in [value : Callers, expired : BOOLEAN]
      BY <1>1 DEF Hit, Fresh
    <2>2. cache[keyOf[c]].value \in Callers
      BY <2>1
    <2> QED BY <1>1, <2>2 DEF Hit
  <1>2. ASSUME NEW c \in Callers, Own(c) PROVE Inv'
    <2> DEFINE k == keyOf[c]
    <2>1. /\ pc[c] = "idle" /\ inflight[k] = None /\ k \in Keys
          /\ inflight' = [inflight EXCEPT ![k] = c]
          /\ future' = [future EXCEPT ![c] = "pending"]
          /\ pc' = [pc EXCEPT ![c] = "fetching"]
          /\ UNCHANGED <<cache, keyOf, joined, got, hit>>
      BY <1>2 DEF Own, MayOwn
    <2>2. TypeOK' BY <2>1
    <2>3. Flights' BY <2>1
    <2>4. Futures' BY <2>1
    <2>5. Joins' BY <2>1
    <2> QED BY <2>2, <2>3, <2>4, <2>5
  <1>3. ASSUME NEW c \in Callers, Join(c) PROVE Inv'
    BY <1>3 DEF Join, MayOwn
  <1>4. ASSUME NEW c \in Callers, FetchReturns(c) PROVE Inv'
    BY <1>4 DEF FetchReturns, Resolve, Pop
  <1>5. ASSUME NEW c \in Callers, FetchRaises(c) PROVE Inv'
    BY <1>5 DEF FetchRaises, Resolve, Pop
  <1>6. ASSUME NEW c \in Callers, CancelOwner(c) PROVE Inv'
    BY <1>6 DEF CancelOwner, Resolve, Pop
  <1>7. ASSUME NEW c \in Callers, CancelWaiter(c) PROVE Inv'
    BY <1>7 DEF CancelWaiter
  <1>8. ASSUME NEW c \in Callers, Wake(c) PROVE Inv'
    <2> DEFINE o == joined[c]
    <2>1. o \in Callers /\ o # c /\ future[o] \in {"value", "error", "cancelled"}
      BY <1>8 DEF Wake
    <2>2. CASE future[o] = "value" BY <2>1, <2>2, <1>8 DEF Wake
    <2>3. CASE future[o] = "error" BY <2>1, <2>3, <1>8 DEF Wake
    <2>4. CASE future[o] = "cancelled" BY <2>1, <2>4, <1>8 DEF Wake
    <2> QED BY <2>1, <2>2, <2>3, <2>4
  <1>9. ASSUME NEW k \in Keys, Expire(k) PROVE Inv'
    <2>1. cache[k] \in [value : Callers, expired : BOOLEAN]
      BY <1>9 DEF Expire, Fresh
    <2>2. [cache[k] EXCEPT !.expired = TRUE] \in [value : Callers, expired : BOOLEAN]
      BY <2>1
    <2> QED BY <1>9, <2>2 DEF Expire
  <1>10. ASSUME NEW ks, Invalidate(ks) PROVE Inv'
    BY <1>10 DEF Invalidate
  <1>11. CASE UNCHANGED vars
    BY <1>11 DEF vars
  <1> QED
    BY <1>1, <1>2, <1>3, <1>4, <1>5, <1>6, <1>7, <1>8, <1>9, <1>10, <1>11
    DEF Next, Call, Fetch, Cancel, Done

LEMMA InvAlways == Spec => []Inv
  BY InvInit, InvStep, PTL DEF Spec

(* Type correctness.                                                       *)
THEOREM TypeCorrect == Spec => []TypeOK
  <1>1. Inv => TypeOK BY DEF Inv
  <1> QED BY <1>1, InvAlways, PTL

(* At most one fetch of a key is ever running.                             *)
THEOREM OneFetchPerKey == Spec => []SingleFlight
  <1>1. Inv => SingleFlight BY DEF Inv, Flights, SingleFlight
  <1> QED BY <1>1, InvAlways, PTL

(* No dead future stays registered, and no pending one is awaited without  *)
(* an owner at work on it.                                                 *)
THEOREM EveryFutureIsOwned == Spec => []NoDeadFuture
  <1>1. Inv => NoDeadFuture
    BY DEF Inv, TypeOK, Flights, Futures, Joins, NoDeadFuture
  <1> QED BY <1>1, InvAlways, PTL

(* What a waiter gets is what its owner got, or a cancellation that was    *)
(* meant for another waiter on the same future.                            *)
THEOREM OutcomesAreShared == Spec => []SharedOutcome
  <1>1. Init => SharedOutcome BY DEF Init, SharedOutcome
  <1>2. Inv /\ SharedOutcome /\ [Next]_vars => SharedOutcome'
    <2> SUFFICES ASSUME Inv, SharedOutcome, [Next]_vars PROVE SharedOutcome'
      OBVIOUS
    <2> USE NoneAssumption
        DEF Inv, TypeOK, Flights, Futures, Joins, SharedOutcome, Ended
    <2>1. ASSUME NEW c \in Callers, Call(c) PROVE SharedOutcome'
      BY <2>1 DEF Call, Hit, Own, Join
    <2>2. ASSUME NEW c \in Callers, FetchReturns(c) PROVE SharedOutcome'
      BY <2>2 DEF FetchReturns, Resolve
    <2>3. ASSUME NEW c \in Callers, FetchRaises(c) PROVE SharedOutcome'
      BY <2>3 DEF FetchRaises, Resolve
    <2>4. ASSUME NEW c \in Callers, Cancel(c) PROVE SharedOutcome'
      BY <2>4 DEF Cancel, CancelOwner, CancelWaiter, Resolve
    <2>5. ASSUME NEW c \in Callers, Wake(c) PROVE SharedOutcome'
      BY <2>5 DEF Wake
    <2>6. CASE UNCHANGED <<pc, joined, got, hit>>
      BY <2>6
    <2> QED
      BY <2>1, <2>2, <2>3, <2>4, <2>5, <2>6
      DEF Next, Fetch, Expire, Invalidate, Done, vars
  <1> QED BY <1>1, <1>2, InvAlways, PTL DEF Spec

(* What is cached, and what a call returns, was fetched for its key, and   *)
(* by a fetch that succeeded.                                              *)
THEOREM OnlyFetchedValues == Spec => []ValuesWereFetched
  <1>1. Init => ValuesWereFetched BY DEF Init, ValuesWereFetched
  <1>2. Inv /\ ValuesWereFetched /\ [Next]_vars => ValuesWereFetched'
    <2> SUFFICES ASSUME Inv, ValuesWereFetched, [Next]_vars PROVE ValuesWereFetched'
      OBVIOUS
    <2> USE NoneAssumption
        DEF Inv, TypeOK, Flights, Futures, Joins, ValuesWereFetched, Ended
    <2>1. ASSUME NEW c \in Callers, Hit(c) PROVE ValuesWereFetched'
      <3>1. /\ keyOf[c] \in Keys /\ cache[keyOf[c]] # None
            /\ cache[keyOf[c]] \in [value : Callers, expired : BOOLEAN]
        BY <2>1 DEF Hit, Fresh
      <3>2. LET v == cache[keyOf[c]].value
            IN  v \in Callers /\ keyOf[v] = keyOf[c] /\ pc[v] = "returned"
        BY <3>1
      <3> QED BY <2>1, <3>1, <3>2 DEF Hit
    <2>2. ASSUME NEW c \in Callers, Own(c) \/ Join(c) PROVE ValuesWereFetched'
      BY <2>2 DEF Own, Join
    <2>3. ASSUME NEW c \in Callers, FetchReturns(c) PROVE ValuesWereFetched'
      BY <2>3 DEF FetchReturns
    <2>4. ASSUME NEW c \in Callers, FetchRaises(c) PROVE ValuesWereFetched'
      BY <2>4 DEF FetchRaises
    <2>5. ASSUME NEW c \in Callers, Cancel(c) PROVE ValuesWereFetched'
      BY <2>5 DEF Cancel, CancelOwner, CancelWaiter
    <2>6. ASSUME NEW c \in Callers, Wake(c) PROVE ValuesWereFetched'
      <3> DEFINE o == joined[c]
      <3>1. /\ o \in Callers /\ o # c /\ keyOf[o] = keyOf[c]
            /\ future[o] \in {"value", "error", "cancelled"}
        BY <2>6 DEF Wake
      <3>2. CASE future[o] = "value"
        <4>1. pc[o] = "returned" BY <3>1, <3>2
        <4>2. pc' = [pc EXCEPT ![c] = "returned"] /\ got' = [got EXCEPT ![c] = o]
          BY <2>6, <3>2 DEF Wake
        <4> QED BY <2>6, <3>1, <4>1, <4>2 DEF Wake
      <3>3. CASE future[o] # "value"
        <4>1. pc'[c] \in {"raised", "cancelled"} BY <2>6, <3>1, <3>3 DEF Wake
        <4> QED BY <2>6, <3>1, <4>1 DEF Wake
      <3> QED BY <3>2, <3>3
    <2>7. ASSUME NEW k \in Keys, Expire(k) PROVE ValuesWereFetched'
      <3>1. cache[k] # None /\ cache[k] \in [value : Callers, expired : BOOLEAN]
        BY <2>7 DEF Expire, Fresh
      <3>2. cache'[k].value = cache[k].value BY <2>7, <3>1 DEF Expire
      <3> QED BY <2>7, <3>1, <3>2 DEF Expire
    <2>8. ASSUME NEW ks, Invalidate(ks) PROVE ValuesWereFetched'
      BY <2>8 DEF Invalidate
    <2>9. CASE UNCHANGED <<cache, pc, keyOf, got>>
      BY <2>9
    <2> QED
      BY <2>1, <2>2, <2>3, <2>4, <2>5, <2>6, <2>7, <2>8, <2>9
      DEF Next, Call, Fetch, Done, vars
  <1> QED BY <1>1, <1>2, InvAlways, PTL DEF Spec

=============================================================================
