------------------------------- MODULE Scheduler -------------------------------
(***************************************************************************)
(* The cron jobs of scheduler.py that take a lock: the weekly snapshots    *)
(* and the daily reminders and rates.  Every pod runs the same scheduler,  *)
(* with its job store in memory; what keeps two pods apart is a            *)
(* non-blocking PostgreSQL advisory lock held by a session of its own for  *)
(* the length of the job.  It belongs to the session: it outlives every    *)
(* commit and goes when it is released or the connection ends.             *)
(*                                                                         *)
(* An instance is one job in one pod; APScheduler runs at most one of each *)
(* at a time (max_instances).  Every job is a walk over users.             *)
(***************************************************************************)
EXTENDS Naturals, FiniteSets

CONSTANTS
    Pods,
    Jobs,
    Keys,       \* advisory lock keys
    KeyOf,      \* the key of each job; the weekly job and the push job share one
    Weekly,     \* the one job that serves its users in parallel tasks
    Isolating,  \* the jobs that catch what goes wrong with one user
    Users,      \* the users a job finds to serve
    Limit,      \* _SNAPSHOT_PARALLELISM
    Free,       \* nobody holds the lock
    Broken,     \* a session holds it whose pod has died
    MaxDue,     \* bound: occurrences of each job
    MaxFaults   \* bound: crashes, cancellations, misfires

Instances == Pods \X Jobs

ASSUME JobAssumption ==
    /\ KeyOf \in [Jobs -> Keys]
    /\ Weekly \in Isolating /\ Isolating \subseteq Jobs
    /\ Free # Broken /\ {Free, Broken} \intersect Instances = {}
    /\ {Limit, MaxDue, MaxFaults} \subseteq Nat /\ Limit > 0
    /\ IsFiniteSet(Users)

VARIABLES
    up,         \* the pods that run
    at,         \* where each instance is
    todo,       \* the users it has not begun with
    active,     \* the users it, or what it left behind, is busy with
    lock,       \* the instance whose session holds each key, Broken, or Free
    due,        \* how often each job has come due
    ranBy,      \* the pods that have got the lock for the job's last occurrence
    tried,      \* the users that have been served, or failed, since
    faults

vars == <<up, at, todo, active, lock, due, ranBy, tried, faults>>
work == <<todo, active>>

Key(i) == KeyOf[i[2]]

Init ==
    /\ up \in SUBSET Pods
    /\ at = [i \in Instances |-> "off"]
    /\ todo = [i \in Instances |-> {}]
    /\ active = [i \in Instances |-> {}]
    /\ lock = [k \in Keys |-> Free]
    /\ due = [j \in Jobs |-> 0]
    /\ ranBy = [j \in Jobs |-> {}]
    /\ tried = [j \in Jobs |-> {}]
    /\ faults = 0

Fault == faults < MaxFaults /\ faults' = faults + 1

-----------------------------------------------------------------------------
(* The hour strikes.  Pods that are up will fire the job, unless an        *)
(* instance of it is still running there; the others never learn of this   *)
(* occurrence.  Tasks orphaned by a cancellation have long ended by then.  *)
Idle(i) == at[i] = "off" /\ todo[i] = {} /\ active[i] = {}

Due(j) ==
    /\ due[j] < MaxDue
    /\ \A p \in Pods : at[<<p, j>>] = "off" => Idle(<<p, j>>)
    /\ due' = [due EXCEPT ![j] = @ + 1]
    /\ at' = [i \in Instances |->
                IF i[2] = j /\ i[1] \in up /\ at[i] = "off" THEN "due" ELSE at[i]]
    /\ ranBy' = [ranBy EXCEPT ![j] = {}]
    /\ tried' = [tried EXCEPT ![j] = {}]
    /\ UNCHANGED <<up, work, lock, faults>>

(* The event loop comes to it too late for misfire_grace_time.             *)
Misfire(i) ==
    /\ at[i] = "due"
    /\ Fault
    /\ at' = [at EXCEPT ![i] = "off"]
    /\ UNCHANGED <<up, work, lock, due, ranBy, tried>>

(* pg_try_advisory_lock: true or false at once; if false the job is        *)
(* skipped.                                                                *)
TryLockXact(i) ==                   \* mutant: a lock that ends with its transaction
    /\ at[i] = "due"
    /\ at' = [at EXCEPT ![i] = "working"]
    /\ todo' = [todo EXCEPT ![i] = Users]
    /\ ranBy' = [ranBy EXCEPT ![i[2]] = @ \union {i[1]}]
    /\ UNCHANGED <<up, active, lock, due, tried, faults>>

TryLock(i) ==
    /\ at[i] = "due"
    /\ lock[Key(i)] = Free
    /\ lock' = [lock EXCEPT ![Key(i)] = i]
    /\ at' = [at EXCEPT ![i] = "working"]
    /\ todo' = [todo EXCEPT ![i] = Users]
    /\ ranBy' = [ranBy EXCEPT ![i[2]] = @ \union {i[1]}]
    /\ UNCHANGED <<up, active, due, tried, faults>>

Skip(i) ==
    /\ at[i] = "due"
    /\ lock[Key(i)] # Free
    /\ at' = [at EXCEPT ![i] = "off"]
    /\ UNCHANGED <<up, work, lock, due, ranBy, tried, faults>>

-----------------------------------------------------------------------------
(* The query for the users fails: the job ends with nobody served.         *)
ListFails(i) ==
    /\ at[i] = "working" /\ todo[i] = Users /\ active[i] = {}
    /\ Fault
    /\ todo' = [todo EXCEPT ![i] = {}]
    /\ UNCHANGED <<up, at, active, lock, due, ranBy, tried>>

(* The weekly job has a task per user, behind a semaphore; the other jobs  *)
(* go from user to user.                                                   *)
Width(i) == IF i[2] = Weekly THEN Limit ELSE 1

Begin(i, u) ==
    /\ u \in todo[i] /\ Cardinality(active[i]) < Width(i)
    /\ todo' = [todo EXCEPT ![i] = @ \ {u}]
    /\ active' = [active EXCEPT ![i] = @ \union {u}]
    /\ UNCHANGED <<up, at, lock, due, ranBy, tried, faults>>

Serve(i, u) ==
    /\ u \in active[i]
    /\ active' = [active EXCEPT ![i] = @ \ {u}]
    /\ tried' = [tried EXCEPT ![i[2]] = @ \union {u}]
    /\ UNCHANGED <<up, at, todo, lock, due, ranBy, faults>>

(* Something goes wrong with one user.  _snapshot_one_user and the e-mail  *)
(* job catch it; elsewhere it ends the walk, and finally releases the lock.*)
FailEscapes(i, u) ==                \* mutant: the exception ends every job's walk
    /\ u \in active[i]
    /\ active' = [active EXCEPT ![i] = {}]
    /\ todo' = [todo EXCEPT ![i] = {}]
    /\ tried' = [tried EXCEPT ![i[2]] = @ \union {u}]
    /\ UNCHANGED <<up, at, lock, due, ranBy, faults>>

Fail(i, u) ==
    /\ u \in active[i]
    /\ active' = [active EXCEPT ![i] = @ \ {u}]
    /\ todo' = IF i[2] \in Isolating THEN todo ELSE [todo EXCEPT ![i] = {}]
    /\ tried' = [tried EXCEPT ![i[2]] = @ \union {u}]
    /\ UNCHANGED <<up, at, lock, due, ranBy, faults>>

(* A CancelledError out of a shared explorer future (SingleFlightCache) is *)
(* no Exception: it passes _snapshot_one_user and leaves gather, which     *)
(* does not stop the other tasks.  The lock is released, they go on.       *)
Cancelled(i, u) ==
    /\ i[2] = Weekly /\ u \in active[i] /\ at[i] = "working"
    /\ Fault
    /\ active' = [active EXCEPT ![i] = @ \ {u}]
    /\ at' = [at EXCEPT ![i] = "leaving"]
    /\ tried' = [tried EXCEPT ![i[2]] = @ \union {u}]
    /\ UNCHANGED <<up, todo, lock, due, ranBy>>

(* finally: _release_lock.                                                 *)
ReleaseForgotten(i) ==              \* mutant: released only if everybody was served
    /\ \/ at[i] = "working" /\ todo[i] = {} /\ active[i] = {}
       \/ at[i] = "leaving"
    /\ at' = [at EXCEPT ![i] = "off"]
    /\ lock' = IF Users \subseteq tried[i[2]] THEN [lock EXCEPT ![Key(i)] = Free] ELSE lock
    /\ UNCHANGED <<up, work, due, ranBy, tried, faults>>

Release(i) ==
    /\ \/ at[i] = "working" /\ todo[i] = {} /\ active[i] = {}
       \/ at[i] = "leaving"
    /\ at' = [at EXCEPT ![i] = "off"]
    /\ lock' = [lock EXCEPT ![Key(i)] = Free]
    /\ UNCHANGED <<up, work, due, ranBy, tried, faults>>

-----------------------------------------------------------------------------
(* A pod dies, in any phase; sooner or later the server sees the broken    *)
(* connection and drops the session's lock.                                *)
Crash(p) ==
    /\ p \in up
    /\ Fault
    /\ up' = up \ {p}
    /\ at' = [i \in Instances |-> IF i[1] = p THEN "off" ELSE at[i]]
    /\ todo' = [i \in Instances |-> IF i[1] = p THEN {} ELSE todo[i]]
    /\ active' = [i \in Instances |-> IF i[1] = p THEN {} ELSE active[i]]
    /\ lock' = [k \in Keys |-> IF \E j \in Jobs : lock[k] = <<p, j>> THEN Broken ELSE lock[k]]
    /\ UNCHANGED <<due, ranBy, tried>>

DropSession(k) ==
    /\ lock[k] = Broken
    /\ lock' = [lock EXCEPT ![k] = Free]
    /\ UNCHANGED <<up, at, work, due, ranBy, tried, faults>>

(* A pod starts: its job store knows only of occurrences to come.          *)
Start(p) ==
    /\ p \notin up
    /\ up' = up \union {p}
    /\ UNCHANGED <<at, work, lock, due, ranBy, tried, faults>>

RunStep(i) ==
    \/ TryLock(i) \/ Skip(i) \/ Release(i)
    \/ \E u \in Users : Begin(i, u) \/ Serve(i, u) \/ Fail(i, u)

Next ==
    \/ \E j \in Jobs : Due(j)
    \/ \E i \in Instances : RunStep(i) \/ Misfire(i) \/ ListFails(i) \/ \E u \in Users : Cancelled(i, u)
    \/ \E p \in Pods : Crash(p) \/ Start(p)
    \/ \E k \in Keys : DropSession(k)

Spec == Init /\ [][Next]_vars

(* The event loop runs its tasks, which all have deadlines; the server     *)
(* notices dead connections.  Pods need not start, nor hours strike.       *)
FairSpec ==
    Spec /\ (\A i \in Instances : WF_vars(RunStep(i))) /\ (\A k \in Keys : WF_vars(DropSession(k)))

-----------------------------------------------------------------------------
(* Every variable has its type, and no instance is busy with more users    *)
(* than its semaphore admits, orphaned tasks included.                     *)
TypeOK ==
    /\ up \subseteq Pods
    /\ at \in [Instances -> {"off", "due", "working", "leaving"}]
    /\ todo \in [Instances -> SUBSET Users]
    /\ active \in [Instances -> SUBSET Users]
    /\ \A i \in Instances : Cardinality(active[i]) <= Width(i)
    /\ lock \in [Keys -> Instances \union {Free, Broken}]
    /\ due \in [Jobs -> 0..MaxDue]
    /\ ranBy \in [Jobs -> SUBSET Pods]
    /\ tried \in [Jobs -> SUBSET Users]
    /\ faults \in 0..MaxFaults

(* Jobs that share a key never run at the same time, in whatever pods,     *)
(* through crashes and restarts: an instance at work holds its key, and    *)
(* only a pod that is up is at work.                                       *)
AloneUnderKey ==
    \A i \in Instances : at[i] \in {"working", "leaving"} => lock[Key(i)] = i /\ i[1] \in up

(* One user's failure costs nobody else: when a job that isolates its      *)
(* users has run and nothing is left at work, everybody has had his turn.  *)
NoUserLeftOut ==
    \A j \in Isolating :
        /\ faults = 0 /\ ranBy[j] # {}
        /\ \A p \in Pods : Idle(<<p, j>>)
        => tried[j] = Users

(* The lock always comes free again, whoever crashed with it.              *)
LockComesFree == \A k \in Keys : lock[k] # Free ~> lock[k] = Free

(* Why the jobs lock at all ("ayni job sadece bir pod'da calisir"; "flag   *)
(* yanlis set edilse bile cift cagrilamaz"): an occurrence of a job is run *)
(* by one pod only.                                                        *)
OncePerOccurrence == \A j \in Jobs : Cardinality(ranBy[j]) <= 1

=============================================================================
