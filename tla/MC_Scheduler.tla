---------------------------- MODULE MC_Scheduler ----------------------------
(* Two pods, as during a rolling update; the weekly job and the push job,  *)
(* which share a key; users enough to leave some behind the semaphore.     *)
EXTENDS Scheduler, TLC

CONSTANTS weekly, push, key

JobSet == {weekly, push}
SharedKey == [j \in JobSet |-> key]
=============================================================================
