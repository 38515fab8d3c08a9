------------------------------ MODULE CreditLedger ------------------------------
(***************************************************************************)
(* The credit system: users.credit_balance and the credit_transactions     *)
(* ledger behind it, as changed by the two endpoints that sell an AI call  *)
(* (POST /advice/generate, POST /expenses/analysis/generate) and by        *)
(* add_credits, the top-up helper.                                         *)
(*                                                                         *)
(* A request is one database transaction in PostgreSQL's READ COMMITTED.   *)
(* Three facts of that setting decide everything here:                     *)
(*  - get_current_user loads the User into the request's own session, and  *)
(*    a later SELECT ... FOR UPDATE without populate_existing locks the    *)
(*    row but gives back the object already in the identity map: a charge  *)
(*    computes with the balance read BEFORE the model was called;          *)
(*  - inserting the advice row takes a KEY SHARE lock on the user's row    *)
(*    (its foreign key), which FOR UPDATE conflicts with;                  *)
(*  - locks are held until the transaction ends, however it ends.          *)
(* Row locks are therefore functions of the requests' program counters.    *)
(***************************************************************************)
EXTENDS Integers, FiniteSets

CONSTANTS
    Users,          \* the rows of the users table
    Advices,        \* requests to POST /advice/generate
    Analyses,       \* requests to POST /expenses/analysis/generate
    TopUps,         \* transactions that call add_credits
    Keys,           \* idempotency keys (a checkout's conversation id)
    NoKey,          \* add_credits called without an idempotency key
    AdviceCost,     \* ADVICE_COST
    AnalysisCost,   \* EXPENSE_ANALYSIS_COST
    TopUpAmount     \* the amount every top-up adds

Charges  == Advices \union Analyses
Requests == Charges \union TopUps

ASSUME CostAssumption ==
    /\ AdviceCost \in Nat \ {0}
    /\ AnalysisCost \in Nat \ {0}
    /\ TopUpAmount \in Nat \ {0}

ASSUME RequestAssumption ==
    /\ Advices \intersect Analyses = {}
    /\ Charges \intersect TopUps = {}
    /\ NoKey \notin Keys

VARIABLES
    balance,    \* users.credit_balance, committed
    ledgerSum,  \* SUM(credit_transactions.amount) of a user, committed
    rows,       \* the committed ledger rows, named by the request that wrote them
    adviceRows, \* the committed investment_advice rows, likewise
    pc,         \* where each request is
    usr,        \* the user a request is for
    copy,       \* the credit_balance of the User object in the request's session
    key         \* the idempotency key of a top-up

vars == <<balance, ledgerSum, rows, adviceRows, pc, usr, copy, key>>

(* The ends of a request: committed, answered without a change (a repeated *)
(* idempotency key), or rolled back, whatever the reason.                  *)
Ended == {"committed", "noop", "rolledback"}

Amount(r) == CASE r \in Advices  -> -AdviceCost
               [] r \in Analyses -> -AnalysisCost
               [] r \in TopUps   -> TopUpAmount

Cost(r) == IF r \in Advices THEN AdviceCost ELSE AnalysisCost

(* The check both endpoints make before the AI call and deduct_credits     *)
(* makes again after it, on the session's own User object.                 *)
CanAffordAnything(r, b) == b > 0    \* mutant: any credit will do
CanAfford(r, b) == b >= Cost(r)

(* Requests that hold FOR UPDATE, and KEY SHARE, on user u's row.          *)
Exclusive(u) == {r \in Requests : usr[r] = u /\ pc[r] \in {"locked", "written"}}
KeyShare(u)  == {r \in Requests : usr[r] = u /\ pc[r] = "flushed"}

LockFreeSelfBlocking(r) ==          \* mutant: the lock is asked for in a second session
    Exclusive(usr[r]) \union KeyShare(usr[r]) = {}

LockFree(r) == Exclusive(usr[r]) \union KeyShare(usr[r]) \subseteq {r}

Init ==
    /\ balance = [u \in Users |-> 0]
    /\ ledgerSum = [u \in Users |-> 0]
    /\ rows = {}
    /\ adviceRows = {}
    /\ pc = [r \in Requests |-> "idle"]
    /\ usr \in [Requests -> Users]
    /\ copy = [r \in Requests |-> 0]
    /\ key \in [TopUps -> Keys \union {NoKey}]

Goto(r, l) == pc' = [pc EXCEPT ![r] = l]

Database == <<balance, ledgerSum, rows, adviceRows>>

-----------------------------------------------------------------------------
(* get_current_user puts the User into the request's session.  A missing   *)
(* consent (403), too few credits (402) and, for advice, no snapshot (404) *)
(* all refuse the request before the AI is called.                         *)
RefuseAdvice(r) ==
    /\ r \in Advices /\ pc[r] = "idle"
    /\ copy' = [copy EXCEPT ![r] = balance[usr[r]]]
    /\ Goto(r, "rolledback")
    /\ UNCHANGED <<Database, usr, key>>

StartAdvice(r) ==
    /\ r \in Advices /\ pc[r] = "idle"
    /\ CanAfford(r, balance[usr[r]])
    /\ copy' = [copy EXCEPT ![r] = balance[usr[r]]]
    /\ Goto(r, "calling")
    /\ UNCHANGED <<Database, usr, key>>

RefuseAnalysis(r) ==
    /\ r \in Analyses /\ pc[r] = "idle"
    /\ copy' = [copy EXCEPT ![r] = balance[usr[r]]]
    /\ Goto(r, "rolledback")
    /\ UNCHANGED <<Database, usr, key>>

StartAnalysis(r) ==
    /\ r \in Analyses /\ pc[r] = "idle"
    /\ CanAfford(r, balance[usr[r]])
    /\ copy' = [copy EXCEPT ![r] = balance[usr[r]]]
    /\ Goto(r, "calling")
    /\ UNCHANGED <<Database, usr, key>>

(* The AI call: seconds to minutes, with no lock held.  A failure raises   *)
(* before anything is written.                                             *)
Answer(r) ==
    /\ pc[r] = "calling"
    /\ Goto(r, "answered")
    /\ UNCHANGED <<Database, usr, copy, key>>

CallFails(r) ==
    /\ pc[r] = "calling"
    /\ Goto(r, "rolledback")
    /\ UNCHANGED <<Database, usr, copy, key>>

(* advice only: the row is flushed first, to have an id for reference_id.  *)
(* The foreign key waits for a FOR UPDATE holder and then holds KEY SHARE. *)
FlushAdviceCommits(r) ==            \* mutant: the advice has a commit of its own
    /\ r \in Advices /\ pc[r] = "answered"
    /\ Exclusive(usr[r]) = {}
    /\ adviceRows' = adviceRows \union {r}
    /\ Goto(r, "flushed")
    /\ UNCHANGED <<balance, ledgerSum, rows, usr, copy, key>>

FlushAdvice(r) ==
    /\ r \in Advices /\ pc[r] = "answered"
    /\ Exclusive(usr[r]) = {}
    /\ Goto(r, "flushed")
    /\ UNCHANGED <<Database, usr, copy, key>>

(* deduct_credits: lock, check again (402), set the new balance and insert *)
(* the ledger row.  Both are this transaction's until it commits; the      *)
(* balance is the session's copy, for which the first check has already    *)
(* answered.                                                               *)
ReadyToDeduct(r) == pc[r] = (IF r \in Advices THEN "flushed" ELSE "answered")

DeductCredits(r) ==
    /\ r \in Charges /\ ReadyToDeduct(r)
    /\ LockFree(r)
    /\ Goto(r, IF CanAfford(r, copy[r]) THEN "written" ELSE "rolledback")
    /\ UNCHANGED <<Database, usr, copy, key>>

(* Two transactions that each hold KEY SHARE and wait for FOR UPDATE: the  *)
(* database aborts one of them.                                            *)
DeadlockVictim(r) ==
    /\ pc[r] = "flushed"
    /\ KeyShare(usr[r]) # {r}
    /\ Goto(r, "rolledback")
    /\ UNCHANGED <<Database, usr, copy, key>>

-----------------------------------------------------------------------------
(* add_credits: the unlocked look for the idempotency key, ...             *)
KeySeen(r) == \E t \in rows \intersect TopUps : key[t] = key[r]

CheckKey(r) ==
    /\ r \in TopUps /\ pc[r] = "idle"
    /\ Goto(r, IF key[r] # NoKey /\ KeySeen(r) THEN "noop" ELSE "keychecked")
    /\ UNCHANGED <<Database, usr, copy, key>>

(* ... the lock, under which the User is read for the first time, ...      *)
AddLockUnlocked(r) ==               \* mutant: the top-up reads without FOR UPDATE
    /\ r \in TopUps /\ pc[r] = "keychecked"
    /\ copy' = [copy EXCEPT ![r] = balance[usr[r]]]
    /\ Goto(r, "locked")
    /\ UNCHANGED <<Database, usr, key>>

AddLock(r) ==
    /\ r \in TopUps /\ pc[r] = "keychecked"
    /\ LockFree(r)
    /\ copy' = [copy EXCEPT ![r] = balance[usr[r]]]
    /\ Goto(r, "locked")
    /\ UNCHANGED <<Database, usr, key>>

(* ... and the insert, which the UNIQUE constraint on idempotency_key      *)
(* makes wait for an uncommitted row with the same key, and refuses if     *)
(* there is a committed one.                                               *)
AddCreditsNotUnique(r) ==           \* mutant: idempotency_key has no UNIQUE constraint
    /\ r \in TopUps /\ pc[r] = "locked"
    /\ Goto(r, "written")
    /\ UNCHANGED <<Database, usr, copy, key>>

AddCredits(r) ==
    /\ r \in TopUps /\ pc[r] = "locked"
    /\ key[r] # NoKey =>
         ~\E t \in TopUps \ {r} : key[t] = key[r] /\ pc[t] = "written"
    /\ Goto(r, IF key[r] # NoKey /\ KeySeen(r) THEN "rolledback" ELSE "written")
    /\ UNCHANGED <<Database, usr, copy, key>>

-----------------------------------------------------------------------------
(* The single commit: balance, ledger row and, for advice, the advice row. *)

Commit(r) ==
    /\ pc[r] = "written"
    /\ balance' = [balance EXCEPT ![usr[r]] = copy[r] + Amount(r)]
    /\ ledgerSum' = [ledgerSum EXCEPT ![usr[r]] = @ + Amount(r)]
    /\ rows' = rows \union {r}
    /\ adviceRows' = adviceRows \union ({r} \intersect Advices)
    /\ Goto(r, "committed")
    /\ UNCHANGED <<usr, copy, key>>

(* The client goes away, the process dies, the connection breaks: the      *)
(* database rolls the transaction back.                                    *)
Crash(r) ==
    /\ pc[r] \notin Ended \union {"idle"}
    /\ Goto(r, "rolledback")
    /\ UNCHANGED <<Database, usr, copy, key>>

Step(r) ==
    \/ RefuseAdvice(r) \/ StartAdvice(r)
    \/ RefuseAnalysis(r) \/ StartAnalysis(r)
    \/ Answer(r) \/ CallFails(r)
    \/ FlushAdvice(r) \/ DeductCredits(r) \/ DeadlockVictim(r)
    \/ CheckKey(r) \/ AddLock(r) \/ AddCredits(r)
    \/ Commit(r)

(* A request that has begun moves on: the server runs it, the AI client    *)
(* has a timeout, the database grants locks and detects deadlocks.  None   *)
(* is obliged to arrive, and nothing is obliged to crash.                  *)
Progress(r) == pc[r] # "idle" /\ Step(r)

Done == (\A r \in Requests : pc[r] \in Ended) /\ UNCHANGED vars

Next == (\E r \in Requests : Step(r) \/ Crash(r)) \/ Done

Spec == Init /\ [][Next]_vars

FairSpec == Spec /\ \A r \in Requests : WF_vars(Progress(r))

-----------------------------------------------------------------------------
(* Every variable has its type.                                            *)
Places == {"idle", "calling", "answered", "flushed", "keychecked", "locked",
           "written"} \union Ended

TypeOK ==
    /\ balance \in [Users -> Int]
    /\ ledgerSum \in [Users -> Int]
    /\ rows \subseteq Requests
    /\ adviceRows \subseteq Advices
    /\ pc \in [Requests -> Places]
    /\ usr \in [Requests -> Users]
    /\ copy \in [Requests -> Int]
    /\ key \in [TopUps -> Keys \union {NoKey}]

(* A charge that has reached its commit never violates the database's      *)
(* CHECK (credit_balance >= 0), so a user whose AI call was paid for never *)
(* gets a constraint error for an answer; committed balances obey it too.  *)
NonNegative ==
    /\ \A u \in Users : balance[u] >= 0
    /\ \A r \in Requests : pc[r] = "written" => copy[r] + Amount(r) >= 0

(* Credits are only ever bought: however requests overlap, a balance is at *)
(* most what the user's committed top-ups add up to.                       *)
ToppedUp(u) == {r \in rows \intersect TopUps : usr[r] = u}

NoFreeCredits == \A u \in Users : balance[u] <= TopUpAmount * Cardinality(ToppedUp(u))

(* Both bounds of a balance, under any overlap of charges and top-ups.     *)
BalanceBounded == NonNegative /\ NoFreeCredits

(* The advice row and its charge commit together: a stored advice was paid *)
(* for, and no credit is spent on an advice that was rolled back.          *)
AdvicePaid == adviceRows = rows \intersect Advices

(* A repeated delivery of one payment is credited at most once, and is     *)
(* answered without a change only if the payment really was credited.      *)
PaymentCreditedOnce ==
    /\ \A r, t \in rows \intersect TopUps : key[r] = key[t] /\ key[r] # NoKey => r = t
    /\ \A r \in TopUps : pc[r] = "noop" => key[r] # NoKey /\ KeySeen(r)

(* A top-up reads the balance under the row lock and writes it under the   *)
(* same lock: committing one moves the balance by exactly its amount, with *)
(* any charges and other top-ups around it.                                *)
TopUpExact ==
    [][\A r \in TopUps : pc[r] # "committed" /\ pc'[r] = "committed" =>
          balance'[usr[r]] = balance[usr[r]] + TopUpAmount]_vars

(* Every request the server has begun ends, also when two of them deadlock *)
(* on the user's row.                                                      *)
EveryRequestEnds == \A r \in Requests : pc[r] # "idle" ~> pc[r] \in Ended

(* What core/credits.py says of itself: balance and ledger always agree.   *)
LedgerMatchesBalance == \A u \in Users : balance[u] = ledgerSum[u]

-----------------------------------------------------------------------------
(* The same system when a user's charge is never in flight together with   *)
(* another of that user's requests.  Top-ups may still overlap each other. *)
InFlight(r) == pc[r] \notin Ended \union {"idle"}

ChargeAlone ==
    \A c \in Charges, r \in Requests :
        usr[c] = usr[r] /\ InFlight(c) /\ InFlight(r) => c = r

SerialSpec == Init /\ [][Next /\ ChargeAlone']_vars

(* That system is an account: a charge, which reads the balance minutes    *)
(* before it writes it, and a top-up, which does so in several statements, *)
(* each take effect in one step, at their commit.                          *)
Abstract == INSTANCE Account WITH
    Move <- [r \in Requests |-> Amount(r)], booked <- rows, owner <- usr

IsAnAccount == Abstract!Spec

=============================================================================
