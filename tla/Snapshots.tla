------------------------------- MODULE Snapshots -------------------------------
(***************************************************************************)
(* portfolio_snapshots: one row per user and day.  A save selects the      *)
(* day's row, deletes it, gathers the user's assets (from the live cache,  *)
(* or from every source for up to a minute), inserts the new row and       *)
(* commits, all in one READ COMMITTED transaction; so the deleted row is   *)
(* locked, and still there for everybody else, while the assets are        *)
(* gathered.  A preview without a live cache does the same and rolls back. *)
(* An advice is written for a snapshot it read before the AI call and      *)
(* refers to it by a foreign key.                                          *)
(*                                                                         *)
(* Days and users are independent: this is one day of one user.  A row is  *)
(* named by the save that inserted it.  Row locks, and what an open        *)
(* transaction has deleted or inserted, are functions of the requests'     *)
(* program counters.                                                       *)
(***************************************************************************)
EXTENDS Naturals, FiniteSets

CONSTANTS
    Saves,      \* POST /portfolio/snapshot, and the weekly job for this user
    Previews,   \* POST /portfolio/snapshot/preview without a live cache
    Deletes,    \* DELETE /portfolio/snapshot/{date}
    Advices,    \* POST /advice/generate
    Earlier,    \* a row saved before all of these
    None

Writers  == Saves \union Previews \union Deletes
Requests == Writers \union Advices

Rows == Saves \union {Earlier}

ASSUME RequestAssumption ==
    /\ Saves \intersect Previews = {} /\ Saves \intersect Deletes = {}
    /\ Previews \intersect Deletes = {} /\ Writers \intersect Advices = {}
    /\ Earlier \notin Saves /\ None \notin Rows

VARIABLES
    day,        \* the committed row of the day, or None
    pc,         \* where each request is
    found,      \* the row a request's SELECT returned, or None
    ref         \* snapshot_id of each stored advice, or None

vars == <<day, pc, found, ref>>

(* "conflict" is a unique violation, "gone" a committed save whose row was *)
(* replaced before its answer could be read back; both are answered 500.   *)
Ended == {"created", "previewed", "removed", "stored", "absent", "conflict", "gone", "failed"}

Init ==
    /\ day \in {None, Earlier}
    /\ pc = [r \in Requests |-> "idle"]
    /\ found = [r \in Requests |-> None]
    /\ ref = [a \in Advices |-> None]

Goto(r, l) == pc' = [pc EXCEPT ![r] = l]

(* The transaction that has deleted the committed row and is still open.   *)
DeletersLeak ==                     \* mutant: a preview's session is not closed
    {r \in Writers : /\ pc[r] \in {"deleted", "gathered", "inserted", "previewed"}
                     /\ day # None /\ found[r] = day}

Deleters == {r \in Writers : /\ pc[r] \in {"deleted", "gathered", "inserted"}
                             /\ day # None /\ found[r] = day}

(* The advices that hold KEY SHARE on the committed row.                   *)
Referrers == {a \in Advices : pc[a] = "flushed" /\ found[a] = day}

-----------------------------------------------------------------------------
(* The SELECT of the day's row, which locks nothing.  The DELETE endpoint  *)
(* answers 404 if there is none.                                           *)
Look(r) ==
    /\ r \in Writers /\ pc[r] = "idle"
    /\ found' = [found EXCEPT ![r] = day]
    /\ Goto(r, IF r \in Deletes /\ day = None THEN "absent" ELSE "looked")
    /\ UNCHANGED <<day, ref>>

(* The flushed DELETE waits for whoever holds a lock on the row.  If the   *)
(* row has gone meanwhile it deletes nothing, which is only a warning.     *)

DeleteCommits(r) ==                 \* mutant: the old row is deleted in a transaction of its own
    /\ pc[r] = "looked"
    /\ found[r] = day => Deleters \union Referrers = {}
    /\ Goto(r, "deleted")
    /\ day' = IF found[r] = day THEN None ELSE day
    /\ ref' = [a \in Advices |-> IF ref[a] = found[r] THEN None ELSE ref[a]]
    /\ UNCHANGED found

DeleteOld(r) ==
    /\ pc[r] = "looked"
    /\ found[r] = day => Deleters \union Referrers = {}
    /\ Goto(r, "deleted")
    /\ UNCHANGED <<day, found, ref>>

(* All the awaits of the gathering; without the dollar rate, or if the     *)
(* live cache cannot be turned into assets, it raises.  (The fallback from *)
(* the cache to the full computation is never reached: after the rollback  *)
(* it reads an attribute of an expired object, which raises again.)        *)
Gather(r) ==
    /\ r \in Saves \union Previews /\ pc[r] = "deleted"
    /\ Goto(r, "gathered")
    /\ UNCHANGED <<day, found, ref>>

GatherFails(r) ==
    /\ r \in Saves \union Previews /\ pc[r] = "deleted"
    /\ Goto(r, "failed")
    /\ UNCHANGED <<day, found, ref>>

(* A dry run answers, and its session is closed without a commit.          *)
AnswerPreview(r) ==
    /\ r \in Previews /\ pc[r] = "gathered"
    /\ Goto(r, "previewed")
    /\ UNCHANGED <<day, found, ref>>

(* The INSERT under UNIQUE(user_id, snapshot_date): it waits for an open   *)
(* transaction that has inserted, or deleted, a row of the day, and fails  *)
(* if a row is left that it has not deleted itself.                        *)
InsertNotUnique(r) ==               \* mutant: no unique constraint
    /\ r \in Saves /\ pc[r] = "gathered"
    /\ Goto(r, "inserted")
    /\ UNCHANGED <<day, found, ref>>

InsertBeforeDelete(r) ==            \* mutant: one flush for both, which inserts first
    /\ r \in Saves /\ pc[r] = "gathered"
    /\ Deleters \subseteq {r}
    /\ \A s \in Saves : pc[s] # "inserted"
    /\ Goto(r, IF day = None THEN "inserted" ELSE "conflict")
    /\ UNCHANGED <<day, found, ref>>

Insert(r) ==
    /\ r \in Saves /\ pc[r] = "gathered"
    /\ Deleters \subseteq {r}
    /\ \A s \in Saves : pc[s] # "inserted"
    /\ Goto(r, IF day = None \/ r \in Deleters THEN "inserted" ELSE "conflict")
    /\ UNCHANGED <<day, found, ref>>

(* Deleting a snapshot sets snapshot_id of its advices to NULL.            *)
Detach == ref' = [a \in Advices |-> IF ref[a] = day THEN None ELSE ref[a]]

CommitSave(r) ==
    /\ pc[r] = "inserted"
    /\ day' = r
    /\ Detach
    /\ Goto(r, "saved")
    /\ UNCHANGED found

(* The row is read back for the answer.                                    *)
AnswerSave(r) ==
    /\ pc[r] = "saved"
    /\ Goto(r, IF day = r THEN "created" ELSE "gone")
    /\ UNCHANGED <<day, found, ref>>

(* The DELETE endpoint commits, and answers 204 also if it deleted nothing. *)
CommitDelete(r) ==
    /\ r \in Deletes /\ pc[r] = "deleted"
    /\ IF r \in Deleters THEN day' = None /\ Detach ELSE UNCHANGED <<day, ref>>
    /\ Goto(r, "removed")
    /\ UNCHANGED found

-----------------------------------------------------------------------------
(* An advice for the day's snapshot.                                       *)
PickSnapshot(a) ==
    /\ a \in Advices /\ pc[a] = "idle"
    /\ day # None
    /\ found' = [found EXCEPT ![a] = day]
    /\ Goto(a, "calling")
    /\ UNCHANGED <<day, ref>>

(* Its insert checks the foreign key: it waits for a transaction that is   *)
(* deleting the snapshot, and fails if the snapshot is gone.               *)
FlushAdvice(a) ==
    /\ pc[a] = "calling"
    /\ found[a] = day => Deleters = {}
    /\ Goto(a, IF found[a] = day THEN "flushed" ELSE "failed")
    /\ UNCHANGED <<day, found, ref>>

StoreAdvice(a) ==
    /\ pc[a] = "flushed"
    /\ ref' = [ref EXCEPT ![a] = found[a]]
    /\ Goto(a, "stored")
    /\ UNCHANGED <<day, found>>

(* An error, a refused charge, or the end of the process anywhere on the   *)
(* way: the database rolls back.                                           *)
Abort(r) ==
    /\ pc[r] \notin Ended \union {"idle", "saved"}
    /\ Goto(r, "failed")
    /\ UNCHANGED <<day, found, ref>>

Step(r) ==
    \/ Look(r) \/ DeleteOld(r) \/ Gather(r) \/ GatherFails(r) \/ AnswerPreview(r)
    \/ Insert(r) \/ CommitSave(r) \/ AnswerSave(r) \/ CommitDelete(r)
    \/ PickSnapshot(r) \/ FlushAdvice(r) \/ StoreAdvice(r)

Done ==
    /\ \A r \in Requests : pc[r] \in Ended \/ (r \in Advices /\ pc[r] = "idle")
    /\ UNCHANGED vars

Next == (\E r \in Requests : Step(r) \/ Abort(r)) \/ Done

Spec == Init /\ [][Next]_vars

(* What the server has begun it runs: every source of the gathering and    *)
(* the AI client has a timeout, and the database grants locks.             *)
Progress(r) == pc[r] # "idle" /\ Step(r)

FairSpec == Spec /\ \A r \in Requests : WF_vars(Progress(r))

-----------------------------------------------------------------------------
(* Every variable has its type.                                            *)
TypeOK ==
    /\ day \in Rows \union {None}
    /\ pc \in [Requests -> {"idle", "looked", "deleted", "gathered", "inserted", "saved",
                            "calling", "flushed"} \union Ended]
    /\ found \in [Requests -> Rows \union {None}]
    /\ ref \in [Advices -> Rows \union {None}]

(* A save replaces the snapshot it looked at, or fills an empty day: no    *)
(* snapshot that was saved while it gathered is overwritten.               *)
ReplacesWhatItSaw ==
    [][\A r \in Saves : day' = r /\ day \notin {r, None} => found[r] = day]_vars

(* A snapshot is only ever replaced by another one, however many saves     *)
(* fail or are abandoned after they deleted it, until the user deletes it; *)
(* and what that deletes is the row the request found, never one that was  *)
(* saved since.                                                            *)
KeptUntilDeleted ==
    [][day # None /\ day' = None =>
          \E d \in Deletes : pc[d] # "removed" /\ pc'[d] = "removed" /\ found[d] = day]_vars

(* The unique constraint refuses a save only because of a snapshot saved   *)
(* since it looked: a preview, or a save that failed, never makes another  *)
(* one fail by the row it holds locked.                                    *)
RefusedOnlyByNewer ==
    [][\A r \in Saves : pc[r] # "conflict" /\ pc'[r] = "conflict" =>
          day # None /\ day # found[r]]_vars

(* A stored advice refers to a snapshot that exists, or to none: replacing *)
(* the snapshot during the AI call cannot leave a dangling reference, also *)
(* when the advice is being inserted at that moment.                       *)
ReferencesHold ==
    /\ \A a \in Advices : ref[a] # None => ref[a] = day
    /\ \A a \in Advices : pc[a] = "flushed" => found[a] = day

(* Every request ends: waiting for the row never becomes a deadlock.       *)
EveryRequestEnds == \A r \in Requests : pc[r] # "idle" ~> pc[r] \in Ended

(* "Ayni gun icinde tekrar cagrilirsa eski snapshot silinip yenisi         *)
(* olusturulur": a repeated save of a day replaces, and is never refused.  *)
RepeatReplaces == \A r \in Saves : pc[r] # "conflict"

=============================================================================
