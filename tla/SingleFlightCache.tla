---------------------------- MODULE SingleFlightCache ----------------------------
(***************************************************************************)
(* AsyncTTLCache, the single-flight cache in front of the block explorers  *)
(* and the TEFAS price site.  All its callers are tasks of one event loop, *)
(* so what stands between two awaits is one step; the lock in              *)
(* get_or_compute is never held across an await and so never waited for.   *)
(*                                                                         *)
(* The one await whose outcome another task decides is "await inflight":   *)
(* tasks that wait share ONE asyncio.Future.  Cancelling a task cancels    *)
(* the future it waits for, and with it everyone else's wait; cancelling   *)
(* the owner stores the CancelledError in the future as its exception.     *)
(***************************************************************************)
EXTENDS Naturals, FiniteSets

CONSTANTS
    Callers,    \* calls of get_or_compute, each made once by a task of its own
    Keys,       \* addresses
    None

ASSUME NoneAssumption == None \notin Callers

VARIABLES
    cache,      \* _cache: per key None, or a value and whether its TTL has run out
    inflight,   \* _inflight: per key None, or the caller that owns the future
    future,     \* the future each caller created, if it did
    pc,         \* where each call is
    keyOf,      \* the key each call is for
    joined,     \* the owner whose future a call awaits, or None
    got,        \* the value a call returned, named by the fetch that made it
    hit         \* the calls whose own task was cancelled

vars == <<cache, inflight, future, pc, keyOf, joined, got, hit>>

(* "raised" is the factory's exception, "cancelled" CancelledError.        *)
Ended == {"returned", "raised", "cancelled"}

Fresh(k) == cache[k] # None /\ ~cache[k].expired

Init ==
    /\ cache = [k \in Keys |-> None]
    /\ inflight = [k \in Keys |-> None]
    /\ future = [c \in Callers |-> "none"]
    /\ pc = [c \in Callers |-> "idle"]
    /\ keyOf \in [Callers -> Keys]
    /\ joined = [c \in Callers |-> None]
    /\ got = [c \in Callers |-> None]
    /\ hit = {}

-----------------------------------------------------------------------------
(* The locked part of get_or_compute: return a fresh value, ...            *)
Hit(c) ==
    /\ pc[c] = "idle"
    /\ Fresh(keyOf[c])
    /\ pc' = [pc EXCEPT ![c] = "returned"]
    /\ got' = [got EXCEPT ![c] = cache[keyOf[c]].value]
    /\ UNCHANGED <<cache, inflight, future, keyOf, joined, hit>>

(* ... become the owner of a new future, ...                               *)
MayOwnPastCancelled(k) ==           \* mutant: a cancelled future is not worth joining
    inflight[k] # None => future[inflight[k]] = "cancelled"

MayOwn(k) == inflight[k] = None

Own(c) ==
    LET k == keyOf[c] IN
    /\ pc[c] = "idle"
    /\ ~Fresh(k) /\ MayOwn(k)
    /\ inflight' = [inflight EXCEPT ![k] = c]
    /\ future' = [future EXCEPT ![c] = "pending"]
    /\ pc' = [pc EXCEPT ![c] = "fetching"]
    /\ UNCHANGED <<cache, keyOf, joined, got, hit>>

(* ... or await the one in flight, whatever has become of it already.      *)
Join(c) ==
    LET k == keyOf[c] IN
    /\ pc[c] = "idle"
    /\ ~Fresh(k) /\ ~MayOwn(k)
    /\ joined' = [joined EXCEPT ![c] = inflight[k]]
    /\ pc' = [pc EXCEPT ![c] = "waiting"]
    /\ UNCHANGED <<cache, inflight, future, keyOf, got, hit>>

-----------------------------------------------------------------------------
(* set_result and set_exception, only if the future is not done yet.       *)
Resolve(c, outcome) ==
    future' = IF future[c] = "pending" THEN [future EXCEPT ![c] = outcome] ELSE future

(* finally: self._inflight.pop(key), whatever happened.                    *)

Pop(c) == inflight' = [inflight EXCEPT ![keyOf[c]] = None]

(* The factory returns: the value is cached, handed to the waiters.        *)
FetchReturns(c) ==
    /\ pc[c] = "fetching"
    /\ cache' = [cache EXCEPT ![keyOf[c]] = [value |-> c, expired |-> FALSE]]
    /\ Resolve(c, "value")
    /\ Pop(c)
    /\ pc' = [pc EXCEPT ![c] = "returned"]
    /\ got' = [got EXCEPT ![c] = c]
    /\ UNCHANGED <<keyOf, joined, hit>>

(* It raises: nothing is cached, the waiters get the exception.            *)

FetchRaises(c) ==
    /\ pc[c] = "fetching"
    /\ Resolve(c, "error")
    /\ Pop(c)
    /\ pc' = [pc EXCEPT ![c] = "raised"]
    /\ UNCHANGED <<cache, keyOf, joined, got, hit>>

(* The owner's task is cancelled, by a timeout of its caller: a            *)
(* BaseException like any other.                                           *)
CancelOwnerUncaught(c) ==           \* mutant: "except Exception" lets it through
    /\ pc[c] = "fetching"
    /\ Pop(c)
    /\ pc' = [pc EXCEPT ![c] = "cancelled"]
    /\ hit' = hit \union {c}
    /\ UNCHANGED <<cache, future, keyOf, joined, got>>

CancelOwner(c) ==
    /\ pc[c] = "fetching"
    /\ Resolve(c, "cancelled")
    /\ Pop(c)
    /\ pc' = [pc EXCEPT ![c] = "cancelled"]
    /\ hit' = hit \union {c}
    /\ UNCHANGED <<cache, keyOf, joined, got>>

(* A waiter's task is cancelled: so is the future it shares, if pending.   *)
CancelWaiter(c) ==
    /\ pc[c] = "waiting"
    /\ LET o == joined[c] IN
         future' = IF future[o] = "pending" THEN [future EXCEPT ![o] = "cancelled"] ELSE future
    /\ pc' = [pc EXCEPT ![c] = "cancelled"]
    /\ hit' = hit \union {c}
    /\ UNCHANGED <<cache, inflight, keyOf, joined, got>>

(* The event loop resumes a waiter of a future that is done.               *)
WakeStale(c) ==                     \* mutant: a waiter falls back on the cached value
    LET o == joined[c]
        k == keyOf[c] IN
    /\ pc[c] = "waiting" /\ future[o] # "pending"
    /\ pc' = [pc EXCEPT ![c] = IF cache[k] # None THEN "returned" ELSE "raised"]
    /\ got' = [got EXCEPT ![c] = IF cache[k] # None THEN cache[k].value ELSE None]
    /\ UNCHANGED <<cache, inflight, future, keyOf, joined, hit>>

Wake(c) ==
    LET o == joined[c] IN
    /\ pc[c] = "waiting" /\ future[o] # "pending"
    /\ pc' = [pc EXCEPT ![c] = CASE future[o] = "value"     -> "returned"
                                 [] future[o] = "error"     -> "raised"
                                 [] future[o] = "cancelled" -> "cancelled"]
    /\ got' = [got EXCEPT ![c] = IF future[o] = "value" THEN o ELSE None]
    /\ UNCHANGED <<cache, inflight, future, keyOf, joined, hit>>

-----------------------------------------------------------------------------
(* Time passes ttl_sec, and invalidate(key) or invalidate().               *)
Expire(k) ==
    /\ Fresh(k)
    /\ cache' = [cache EXCEPT ![k].expired = TRUE]
    /\ UNCHANGED <<inflight, future, pc, keyOf, joined, got, hit>>

Invalidate(ks) ==
    /\ \E k \in ks : cache[k] # None
    /\ cache' = [k \in Keys |-> IF k \in ks THEN None ELSE cache[k]]
    /\ UNCHANGED <<inflight, future, pc, keyOf, joined, got, hit>>

Call(c) == Hit(c) \/ Own(c) \/ Join(c)

Fetch(c) == FetchReturns(c) \/ FetchRaises(c)

Cancel(c) == CancelOwner(c) \/ CancelWaiter(c)

Done == (\A c \in Callers : pc[c] \in Ended) /\ UNCHANGED vars

Next ==
    \/ \E c \in Callers : Call(c) \/ Fetch(c) \/ Cancel(c) \/ Wake(c)
    \/ \E k \in Keys : Expire(k) \/ Invalidate({k})
    \/ Invalidate(Keys)
    \/ Done

Spec == Init /\ [][Next]_vars

(* Every HTTP client a factory uses has a timeout, so a fetch ends; the    *)
(* event loop resumes what is ready.                                       *)
FairSpec == Spec /\ \A c \in Callers : WF_vars(Fetch(c)) /\ WF_vars(Wake(c))

-----------------------------------------------------------------------------
(* Every variable has its type.                                            *)
TypeOK ==
    /\ cache \in [Keys -> {None} \union [value : Callers, expired : BOOLEAN]]
    /\ inflight \in [Keys -> Callers \union {None}]
    /\ future \in [Callers -> {"none", "pending", "value", "error", "cancelled"}]
    /\ pc \in [Callers -> {"idle", "fetching", "waiting"} \union Ended]
    /\ keyOf \in [Callers -> Keys]
    /\ joined \in [Callers -> Callers \union {None}]
    /\ got \in [Callers -> Callers \union {None}]
    /\ hit \subseteq Callers

(* No two fetches of one key at a time, also after cancellations: the rate *)
(* limits of the explorers are why the cache exists.                       *)
SingleFlight ==
    \A c, d \in Callers :
        pc[c] = "fetching" /\ pc[d] = "fetching" /\ keyOf[c] = keyOf[d] => c = d

(* A registered future has an owner that is still fetching, and everyone   *)
(* waiting for a pending future waits for such an owner: no dead future    *)
(* stays behind to swallow later calls.                                    *)
NoDeadFuture ==
    /\ \A k \in Keys : inflight[k] # None =>
          pc[inflight[k]] = "fetching" /\ keyOf[inflight[k]] = k
    /\ \A c \in Callers : pc[c] = "waiting" /\ future[joined[c]] = "pending" =>
          inflight[keyOf[c]] = joined[c]

(* What a waiter gets is what its owner got, unless its own task or the    *)
(* task of another waiter on the same future was cancelled.                *)
SharedOutcome ==
    \A c \in Callers : joined[c] # None /\ pc[c] \in Ended /\ c \notin hit =>
        \/ pc[c] = pc[joined[c]] /\ got[c] = got[joined[c]]
        \/ pc[c] = "cancelled" /\ \E d \in hit : joined[d] = joined[c]

(* A value comes only from a fetch of the caller's own key that succeeded, *)
(* a failed or cancelled one leaves nothing behind.                        *)
ValuesWereFetched ==
    /\ \A c \in Callers : pc[c] = "returned" =>
          got[c] # None /\ keyOf[got[c]] = keyOf[c] /\ pc[got[c]] = "returned"
    /\ \A k \in Keys : cache[k] # None =>
          keyOf[cache[k].value] = k /\ pc[cache[k].value] = "returned"

(* Nobody waits for ever.                                                  *)
NoOneHangs == \A c \in Callers : pc[c] = "waiting" ~> pc[c] \in Ended

(* What the module's docstring promises: parallel misses share the result  *)
(* of the one fetch.  A call whose own task nobody cancelled ends as the   *)
(* fetch it joined did.                                                    *)
WaitersShareResult ==
    \A c \in Callers : joined[c] # None /\ pc[c] \in Ended /\ c \notin hit =>
        pc[c] = pc[joined[c]]

=============================================================================
