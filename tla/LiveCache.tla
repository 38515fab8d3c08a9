-------------------------------- MODULE LiveCache --------------------------------
(***************************************************************************)
(* live_portfolio_cache: one row per user with the positions of every      *)
(* section of the dashboard, and the background tasks that recompute it:   *)
(* the full refresh, the refresh of one section (one card) and the refresh *)
(* of one wallet inside the wallets section.                               *)
(*                                                                         *)
(* Rows of different users are independent, so this is the row of one.     *)
(* Every task opens a fresh session for each of its database steps, each   *)
(* step commits by itself, and the two partial refreshes read the whole    *)
(* payload, patch it, and write the whole payload back.  Single flight is  *)
(* per kind of task: the full one, each section, each wallet.              *)
(*                                                                         *)
(* A slot is the part of the payload one fetch replaces: a wallet of the   *)
(* wallets section, or another section as a whole.  What it holds is the   *)
(* number of the fetch that produced it.                                   *)
(***************************************************************************)
EXTENDS Naturals, FiniteSets

CONSTANTS
    Full,       \* the kind of task _do_refresh is
    Sections,   \* VALID_SECTIONS
    WalletSec,  \* the section "wallets"
    Wallets,    \* the user's wallets
    Absent,     \* the payload has no such key yet
    Empty,      \* _empty_section: the placeholder of a section that failed
    MaxFetch,   \* bound: fetches are numbered up to here, then share the last number
    MaxRunning, \* bound: tasks running at the same time
    MaxQueued,  \* bound: background refreshes past their staleness check
    MaxFaults   \* bound: crashes, spurious cancellations, failed database accesses

ASSUME KindAssumption ==
    /\ WalletSec \in Sections
    /\ Sections \intersect Wallets = {}
    /\ Full \notin Sections \union Wallets

ASSUME ValueAssumption ==
    /\ Absent # Empty
    /\ Absent \notin Nat /\ Empty \notin Nat
    /\ {MaxFetch, MaxRunning, MaxQueued, MaxFaults} \subseteq Nat /\ MaxFetch > 0

Kinds == {Full} \union Sections \union Wallets

SlotsOf(s) == IF s = WalletSec THEN Wallets ELSE {s}
Slots == UNION {SlotsOf(s) : s \in Sections}

(* What a task of a kind computes.                                         *)
Scope(k) == IF k = Full THEN Slots ELSE IF k \in Sections THEN SlotsOf(k) ELSE {k}

Contents == {Absent, Empty} \union 1..MaxFetch
Payloads == [Slots -> Contents]

VARIABLES
    exists,     \* the row is there
    payload,    \* its payload
    total,      \* total_value_tl, as the payload it was summed from
    issues,     \* the sections with a section_failed note in health_issues
    status,     \* ok | refreshing | error
    refreshed,  \* refreshed_at: never (NULL), fresh, or stale (older than the limit)
    step,       \* where each task is; "none" when it is not running
    result,     \* what a task computed, over its scope
    failed,     \* whether its computation failed; for Full, the sections that did
    seen,       \* the row a task read to patch it
    queued,     \* refresh_live_cache calls past their check, not yet at the task table
    fetches,    \* the number of the last fetch
    faults

row == <<exists, payload, total, issues, status, refreshed>>
local == <<result, failed, seen>>
vars == <<row, step, local, queued, fetches, faults>>

Running == {k \in Kinds : step[k] # "none"}

Nothing == [s \in Slots |-> Absent]
NotRead == [payload |-> Nothing, total |-> Nothing, issues |-> {}]

Init ==
    /\ exists = FALSE
    /\ payload = Nothing /\ total = Nothing /\ issues = {}
    /\ status = "ok" /\ refreshed = "never"
    /\ step = [k \in Kinds |-> "none"]
    /\ result = [k \in Kinds |-> Nothing]
    /\ failed = [k \in Kinds |-> {}]
    /\ seen = [k \in Kinds |-> NotRead]
    /\ queued = 0 /\ fetches = 0 /\ faults = 0

(* A task that ends forgets its local variables.                           *)
End(k) ==
    /\ step' = [step EXCEPT ![k] = "none"]
    /\ result' = [result EXCEPT ![k] = Nothing]
    /\ failed' = [failed EXCEPT ![k] = {}]
    /\ seen' = [seen EXCEPT ![k] = NotRead]

Fault == faults < MaxFaults /\ faults' = faults + 1

-----------------------------------------------------------------------------
(* is_stale: no row, or no successful refresh within the limit.            *)
IsStale == ~exists \/ refreshed # "fresh"

(* GET /portfolio/live, and a login, start a background refresh of a stale *)
(* row; POST /portfolio/refresh starts one with or without force.          *)
GetLivePatient ==                   \* mutant: no refresh is started while one is shown
    /\ IsStale /\ status # "refreshing"
    /\ queued < MaxQueued
    /\ queued' = queued + 1
    /\ UNCHANGED <<row, step, local, fetches, faults>>

GetLive ==
    /\ IsStale
    /\ queued < MaxQueued
    /\ queued' = queued + 1
    /\ UNCHANGED <<row, step, local, fetches, faults>>

ForceRefresh ==
    /\ queued < MaxQueued
    /\ queued' = queued + 1
    /\ UNCHANGED <<row, step, local, fetches, faults>>

(* refresh_live_cache after its check: await the task that runs, or start  *)
(* one.                                                                    *)
LaunchFull ==
    /\ queued > 0
    /\ queued' = queued - 1
    /\ \/ step[Full] # "none" /\ UNCHANGED step
       \/ /\ step[Full] = "none" /\ Cardinality(Running) < MaxRunning
          /\ step' = [step EXCEPT ![Full] = "mark"]
    /\ UNCHANGED <<row, local, fetches, faults>>

(* trigger_section_refresh and trigger_wallet_refresh.                     *)
Launch(k) ==
    /\ step[k] = "none"
    /\ Cardinality(Running) < MaxRunning
    /\ step' = [step EXCEPT ![k] = "mark"]
    /\ UNCHANGED <<row, local, queued, fetches, faults>>

LaunchSection(s) == s \in Sections /\ Launch(s)
LaunchWallet(w)  == w \in Wallets /\ Launch(w)

-----------------------------------------------------------------------------
(* _set_status_refreshing: insert an empty row, or change its status only. *)
Mark(k) ==
    /\ step[k] = "mark"
    /\ exists' = TRUE
    /\ status' = "refreshing"
    /\ step' = [step EXCEPT ![k] = "compute"]
    /\ UNCHANGED <<payload, total, issues, refreshed, local, queued, fetches, faults>>

(* If that fails the full refresh gives up and a partial one goes on.      *)
MarkFails(k) ==
    /\ step[k] = "mark"
    /\ Fault
    /\ IF k = Full THEN End(k)
       ELSE step' = [step EXCEPT ![k] = "compute"] /\ UNCHANGED local
    /\ UNCHANGED <<row, queued, fetches>>

NextFetch == IF fetches < MaxFetch THEN fetches + 1 ELSE fetches

(* _gather_sections: sections fail one by one; a failed one is replaced by *)
(* its placeholder.                                                        *)
GatherKeeps(k) ==                   \* mutant: a failed section is left as it is, unflagged
    /\ k = Full /\ step[k] = "compute"
    /\ \E bad \in SUBSET Sections :
         result' = [result EXCEPT ![k] =
            [s \in Slots |-> IF \E b \in bad : s \in SlotsOf(b) THEN Empty ELSE NextFetch]]
    /\ fetches' = NextFetch
    /\ step' = [step EXCEPT ![k] = "save"]
    /\ UNCHANGED <<row, failed, seen, queued, faults>>

Gather(k) ==
    /\ k = Full /\ step[k] = "compute"
    /\ \E bad \in SUBSET Sections :
         /\ failed' = [failed EXCEPT ![k] = bad]
         /\ result' = [result EXCEPT ![k] =
              [s \in Slots |-> IF \E b \in bad : s \in SlotsOf(b) THEN Empty ELSE NextFetch]]
    /\ fetches' = NextFetch
    /\ step' = [step EXCEPT ![k] = "save"]
    /\ UNCHANGED <<row, seen, queued, faults>>

(* The whole gathering times out or raises: _mark_error.                   *)
GatherFails(k) ==
    /\ k = Full /\ step[k] = "compute"
    /\ step' = [step EXCEPT ![k] = "read error"]
    /\ UNCHANGED <<row, local, queued, fetches, faults>>

ComputePartMemo(k) ==               \* mutant: the first value ever fetched is remembered
    /\ k # Full /\ step[k] = "compute"
    /\ result' = [result EXCEPT ![k] =
         [s \in Slots |-> IF s \in Scope(k) THEN 1 ELSE Absent]]
    /\ fetches' = NextFetch
    /\ step' = [step EXCEPT ![k] = "read"]
    /\ UNCHANGED <<row, failed, seen, queued, faults>>

ComputePart(k) ==
    /\ k # Full /\ step[k] = "compute"
    /\ result' = [result EXCEPT ![k] =
         [s \in Slots |-> IF s \in Scope(k) THEN NextFetch ELSE Absent]]
    /\ fetches' = NextFetch
    /\ step' = [step EXCEPT ![k] = "read"]
    /\ UNCHANGED <<row, failed, seen, queued, faults>>

ComputePartFails(k) ==
    /\ k # Full /\ step[k] = "compute"
    /\ failed' = [failed EXCEPT ![k] = {k}]
    /\ result' = [result EXCEPT ![k] =
         [s \in Slots |-> IF s \in Scope(k) THEN Empty ELSE Absent]]
    /\ step' = [step EXCEPT ![k] = "read"]
    /\ UNCHANGED <<row, seen, queued, fetches, faults>>

(* The wallets' explorers share futures (SingleFlightCache): somebody      *)
(* else's timeout arrives here as a CancelledError, which "except          *)
(* Exception" does not catch, and ends the task where it is.               *)
ComputeCancelled(k) ==
    /\ k \in {WalletSec} \union Wallets /\ step[k] = "compute"
    /\ Fault
    /\ End(k)
    /\ UNCHANGED <<row, queued, fetches>>

(* get_live_cache in a session of its own; a wallet that could not be      *)
(* computed has nothing to do if there is no row.                          *)
ReadGivesUp(k) ==                   \* mutant: a wallet that failed returns at once
    /\ step[k] \in {"read", "read error"}
    /\ IF k \in Wallets /\ failed[k] # {}
         THEN End(k)
         ELSE /\ seen' = [seen EXCEPT ![k] =
                    [payload |-> payload, total |-> total, issues |-> issues]]
              /\ step' = [step EXCEPT ![k] = IF @ = "read" THEN "save" ELSE "save error"]
              /\ UNCHANGED <<result, failed>>
    /\ UNCHANGED <<row, queued, fetches, faults>>

Read(k) ==
    /\ step[k] \in {"read", "read error"}
    /\ IF k \in Wallets /\ failed[k] # {} /\ ~exists
         THEN End(k)
         ELSE /\ seen' = [seen EXCEPT ![k] =
                    [payload |-> payload, total |-> total, issues |-> issues]]
              /\ step' = [step EXCEPT ![k] = IF @ = "read" THEN "save" ELSE "save error"]
              /\ UNCHANGED <<result, failed>>
    /\ UNCHANGED <<row, queued, fetches, faults>>

-----------------------------------------------------------------------------
(* _save_result: the whole row is written, whatever happened to it since.  *)
SaveFull(k) ==
    /\ k = Full /\ step[k] = "save"
    /\ exists' = TRUE
    /\ payload' = result[k]
    /\ total' = result[k]
    /\ issues' = failed[k]
    /\ IF failed[k] = Sections
         THEN status' = "error" /\ UNCHANGED refreshed
         ELSE status' = "ok" /\ refreshed' = "fresh"
    /\ End(k)
    /\ UNCHANGED <<queued, fetches, faults>>

(* _mark_error writes back what it read, with status error.                *)
SaveError(k) ==
    /\ k = Full /\ step[k] = "save error"
    /\ exists' = TRUE
    /\ payload' = seen[k].payload
    /\ total' = seen[k].total
    /\ issues' = seen[k].issues
    /\ status' = "error"
    /\ End(k)
    /\ UNCHANGED <<refreshed, queued, fetches, faults>>

(* The patched payload: what was read, with the task's own slots replaced. *)
Patched(k) ==
    [s \in Slots |-> IF s \in Scope(k) THEN result[k][s] ELSE seen[k].payload[s]]

SaveSectionOldTotal(k) ==           \* mutant: the total is not summed again
    /\ k \in Sections /\ step[k] = "save"
    /\ exists' = TRUE
    /\ payload' = Patched(k)
    /\ total' = seen[k].total
    /\ issues' = (seen[k].issues \ {k}) \union failed[k]
    /\ status' = "ok" /\ refreshed' = "fresh"
    /\ End(k)
    /\ UNCHANGED <<queued, fetches, faults>>

SaveSection(k) ==
    /\ k \in Sections /\ step[k] = "save"
    /\ exists' = TRUE
    /\ payload' = Patched(k)
    /\ total' = Patched(k)
    /\ issues' = (seen[k].issues \ {k}) \union failed[k]
    /\ status' = "ok" /\ refreshed' = "fresh"
    /\ End(k)
    /\ UNCHANGED <<queued, fetches, faults>>

SaveWalletDropsOthers(k) ==         \* mutant: the section is replaced by the one wallet
    /\ k \in Wallets /\ step[k] = "save" /\ failed[k] = {}
    /\ exists' = TRUE
    /\ payload' = [s \in Slots |-> IF s \in Wallets \ {k} THEN Absent ELSE Patched(k)[s]]
    /\ total' = payload'
    /\ issues' = seen[k].issues
    /\ status' = "ok" /\ refreshed' = "fresh"
    /\ End(k)
    /\ UNCHANGED <<queued, fetches, faults>>

SaveWallet(k) ==
    /\ k \in Wallets /\ step[k] = "save" /\ failed[k] = {}
    /\ exists' = TRUE
    /\ payload' = Patched(k)
    /\ total' = Patched(k)
    /\ issues' = seen[k].issues
    /\ status' = "ok" /\ refreshed' = "fresh"
    /\ End(k)
    /\ UNCHANGED <<queued, fetches, faults>>

(* A wallet that could not be computed: the row back as read, status ok.   *)

SaveWalletUnchanged(k) ==
    /\ k \in Wallets /\ step[k] = "save" /\ failed[k] # {}
    /\ exists' = TRUE
    /\ payload' = seen[k].payload
    /\ total' = seen[k].total
    /\ issues' = seen[k].issues
    /\ status' = "ok"
    /\ End(k)
    /\ UNCHANGED <<refreshed, queued, fetches, faults>>

(* A failed write is logged and forgotten, a failed read ends the task;    *)
(* the status stays as it is.                                              *)
AccessFails(k) ==
    /\ step[k] \in {"read", "read error", "save", "save error"}
    /\ Fault
    /\ End(k)
    /\ UNCHANGED <<row, queued, fetches>>

-----------------------------------------------------------------------------
(* The process dies: tasks and task tables are memory, the row is not.     *)
Crash ==
    /\ Running # {} \/ queued > 0
    /\ Fault
    /\ step' = [k \in Kinds |-> "none"]
    /\ result' = [k \in Kinds |-> Nothing]
    /\ failed' = [k \in Kinds |-> {}]
    /\ seen' = [k \in Kinds |-> NotRead]
    /\ queued' = 0
    /\ UNCHANGED <<row, fetches>>

(* live_cache_stale_minutes pass.                                          *)
Age ==
    /\ refreshed = "fresh"
    /\ refreshed' = "stale"
    /\ UNCHANGED <<exists, payload, total, issues, status, step, local, queued, fetches, faults>>

Save(k) ==
    \/ SaveFull(k) \/ SaveError(k) \/ SaveSection(k) \/ SaveWallet(k) \/ SaveWalletUnchanged(k)

Compute(k) ==
    Gather(k) \/ GatherFails(k) \/ ComputePart(k) \/ ComputePartFails(k) \/ ComputeCancelled(k)

TaskStep(k) ==
    Mark(k) \/ MarkFails(k) \/ Compute(k) \/ Read(k) \/ Save(k) \/ AccessFails(k)

Next ==
    \/ GetLive \/ ForceRefresh \/ LaunchFull
    \/ \E s \in Sections : LaunchSection(s)
    \/ \E w \in Wallets : LaunchWallet(w)
    \/ \E k \in Kinds : TaskStep(k)
    \/ Crash \/ Age

Spec == Init /\ [][Next]_vars

(* The event loop runs its tasks, whose computations all have deadlines;   *)
(* time passes; and the user opens the dashboard again and again, which is *)
(* what starts a refresh of a stale row.                                   *)
Fairness ==
    /\ \A k \in Kinds : WF_vars(TaskStep(k))
    /\ WF_vars(LaunchFull) /\ WF_vars(Age) /\ WF_vars(GetLive)

-----------------------------------------------------------------------------
(* Every variable has its type.                                            *)
TypeOK ==
    /\ exists \in BOOLEAN
    /\ payload \in Payloads /\ total \in Payloads /\ issues \subseteq Sections
    /\ status \in {"ok", "refreshing", "error"}
    /\ refreshed \in {"never", "fresh", "stale"}
    /\ step \in [Kinds -> {"none", "mark", "compute", "read", "read error", "save", "save error"}]
    /\ result \in [Kinds -> Payloads]
    /\ failed \in [Kinds -> SUBSET Kinds]
    /\ seen \in [Kinds -> [payload : Payloads, total : Payloads, issues : SUBSET Sections]]
    /\ queued \in 0..MaxQueued /\ fetches \in 0..MaxFetch /\ faults \in 0..MaxFaults

(* The total shown is the sum of the positions shown, whichever tasks      *)
(* overwrote each other.                                                   *)
TotalMatchesPayload == total = payload

(* A card that is empty because its section failed says so: the note in    *)
(* health_issues never gets separated from the placeholder it explains,    *)
(* although partial refreshes filter and copy notes they read earlier.     *)
FailureIsVisible ==
    \A s \in Sections : (\E t \in SlotsOf(s) : payload[t] = Empty) => s \in issues

(* Without a fault nothing leaves the row "refreshing" behind: every way   *)
(* through every task ends by writing another status.                      *)
NothingLeftRefreshing ==
    Running = {} /\ faults = 0 => status # "refreshing"

(* And after faults the row recovers, because it goes stale and a later    *)
(* visit refreshes it.                                                     *)
StatusSettles == status = "refreshing" ~> status # "refreshing"

(* What the docstrings of refresh_one_section and refresh_one_wallet and   *)
(* of their endpoints say: other sections and other wallets are not        *)
(* touched.                                                                *)
Saves(k) == step[k] = "save" /\ step'[k] = "none"

PartialKeepsOthers ==
    [][\A k \in Sections \union Wallets : Saves(k) =>
          \A s \in Slots \ Scope(k) : payload'[s] = payload[s]]_vars

(* No slot goes back from the data of one fetch to that of an earlier one. *)
NoRegress ==
    [][\A s \in Slots : {payload[s], payload'[s]} \subseteq Nat => payload'[s] >= payload[s]]_vars

-----------------------------------------------------------------------------
(* The same system with one task at a time.                                *)
OneTask == \A j, k \in Running : j = k

SerialSpec == Init /\ [][Next /\ OneTask']_vars

FairSerialSpec == SerialSpec /\ Fairness

=============================================================================
