# KFinans in TLA+

This directory holds the verification development of KFinans, a personal-finance
application: a FastAPI backend (`src/backend/app`, Python, async SQLAlchemy on
PostgreSQL), a Next.js dashboard (`src/frontend`), and a Kubernetes deployment.
The modules model the parts of the backend in which several requests, tasks or
processes meet over shared state, and those in which several computations must tell
the same of the same rows; TLC checks them on small instances and TLAPS proves the
safety properties the runs check, for every value of the constants.

Contents: [1 The system](#1-the-system), [2 The plan](#2-the-plan),
[3 The modules](#3-the-modules-and-the-code), [4 The runs](#4-the-runs),
[5 The proofs](#5-the-proofs), [6 What the runs refute](#6-what-the-code-says-of-itself-and-does-not-do),
[7 What is not modelled](#7-what-is-not-modelled).

## 1 The system

### How it runs

One uvicorn process per pod runs one asyncio event loop. HTTP handlers are
coroutines; each has its own `AsyncSession` (`core/deps.py:16-18`) and so its own
database transaction, which is rolled back if the handler does not commit. What a
coroutine does between two awaits is atomic for the other coroutines of the process,
not for other transactions or pods. PostgreSQL runs at its default READ COMMITTED.
Background work (the live cache, cron jobs) runs as tasks of the same loop, outside
any request, each with sessions of its own. Memory (task tables, in-process caches,
APScheduler's job store) dies with the pod; rows do not.

### Inventory

| Component | State | Operations | What is hard | What makes it correct |
|---|---|---|---|---|
| Credit ledger (`core/credits.py`, `api/v1/advice.py`, `api/v1/expenses.py`) | `users.credit_balance`, `credit_transactions` (append-only), `investment_advice` | charge before/after an AI call, top-up with idempotency key | a transaction stays open over a call of a minute; ORM identity map against row locks; foreign-key locks; repeated payment webhooks | balance never negative, never more than bought, each payment once, advice and charge together, balance equals ledger |
| Single-flight cache (`core/cache.py`) | per key: value with TTL, future in flight | `get_or_compute`, `invalidate` | waiters share one future that any of them can cancel | one fetch per key, no dead future, no hang, outcomes shared |
| Live portfolio cache (`services/live_cache.py`, `api/v1/portfolio.py:106-226`) | one row per user: payload, total, health issues, status, `refreshed_at`; in memory: task tables | GET (refresh if stale), forced refresh, refresh of one section, of one wallet | read-patch-write of a whole JSON payload by concurrent tasks; crash in the middle; one status for many tasks | total belongs to payload, failures are visible, other sections untouched, status settles |
| Snapshots (`services/snapshot.py`, `live_cache.py:1000-1055`, `portfolio.py:229-351`) | `portfolio_snapshots` UNIQUE(user, date), positions, the advices that refer to them | preview (dry run), save from cache, save computed, weekly save, delete | delete-then-insert around a long gathering; advices refer to rows that are replaced | never two, never lost, replaced row is the one that was seen |
| Scheduler (`scheduler.py`) | job store in memory, advisory locks | weekly snapshots, reminders, daily rate, clean-ups | same job in several pods; restart in the grace period; one failing user | one pod at a time per lock, lock always released, every user tried |
| Wallet and exchange fetching (`portfolio.py:590-674`, `services/blockchain`, `services/exchange`) | in-process caches | fetch all wallets under deadlines | per-wallet and total deadlines over shared futures | every wallet found or noted |
| Authentication (`api/v1/auth.py`, `api/v1/mfa.py`, `core/security.py`) | columns of `users`: failed-login counter, links by mail, MFA secret and recovery codes; `revoked_tokens` | login, refresh rotation, logout, verification, reset, MFA | unlocked read-modify-write of counters and codes; two rotations of one token; a clean-up that races the last second | an ended token stays ended; a link works once and for what it was sent; lock-out; the codes shown are the codes stored |
| User lifecycle (`api/v1/user.py`, scheduler) | consents, addresses, `deleted_at` | password and e-mail change, consent, soft delete, export, hard delete after 30 days | an address taken between request and confirmation; RESTRICT of the ledger | the address follows its link; users with a ledger stay |
| Credit cards and statements (`api/v1/credit_cards.py`) | cards, statements, instalment plans | import, type in, pay, carry over | what a statement contains against what is still to come; overlapping payments | a slice is counted once, a plan ends when it ends, a remainder is owed once |
| Subscriptions and bills (`api/v1/subscriptions.py`, `services/bill_import`) | subscriptions, bills per period | issue, import, pay, unpay, delete | a paid bill and its expense, changed from both sides | an expense of a bill is known by it |
| Planned and recurring money (`api/v1/planned_expenses.py`, `api/v1/recurring.py`, `services/recurrence.py`) | definitions, realised entries, skips | realise, realise the past, undo, skip, list | month ends, year ends, edited definitions | what is pending is what is not settled; past periods settle |
| Expenses and incomes (`api/v1/expenses.py`, `api/v1/income.py`) | `expenses`, `incomes` | create, change, delete, summarise, import | the same sum in six queries | all count the same |
| Budget and cash flow (`services/budget_planner.py`, `api/v1/budget.py`, `api/v1/cash_flow.py`) | none (computed) | year, month, comparison, grid | realised against forecast in the current month | the detail is the row; nothing is counted twice |
| Currencies and rates (`services/historical_rates.py`, `services/currency.py`, `services/display_currency.py`) | `daily_rates` | cache a date, forward-fill, convert | holidays, rates not out yet, a bank that does not answer | days are cached whole; a record is valued at its day |
| Statement import (`services/statement_import`) | none | parse a bank's PDF | text | out of scope |
| Holdings (`api/v1/manual_crypto.py`, `stocks.py`, `tefas.py`, `commodity.py`, `bes.py`, `cash.py`) | one table each | create, change, delete, save all, export, import | replace-all beside single rows; files that are edited | rows fit their columns, files restore |
| Wallets and integrations (`api/v1/wallets.py`, `api/v1/integrations.py`) | encrypted addresses and keys | add, remove, export (masked or not), import | a masked file that comes back; overlapping imports | addresses whole and once, keys kept |
| Reminders (`services/push.py`, `services/email.py`) | push subscriptions | send | at most once per day | with the scheduler |
| Plumbing (`core/middleware.py`, `core/limiter.py`, ...) | rate-limit counters | per request | - | - |
| Frontend (`src/frontend`) | dashboard cache, tokens | polling hook, token refresh | polls only while status is "refreshing" | with the live cache |
| Deployment (`src/k8s`) | - | pods, restarts | enters as crashes and several pods | - |

### How the parts interact

* `GET /portfolio/live` answers from the live cache and starts its refresh; the
  refresh calls wallet fetching, which goes through the single-flight cache; a
  cancellation there arrives in the refresh as a `CancelledError`.
* `POST /portfolio/snapshot` reads the live cache row and writes a snapshot; the
  weekly job of the scheduler computes one from scratch; an advice reads the last
  snapshot, calls the AI, and commits a row that refers to it together with its
  charge on the credit ledger.
* The dashboard polls the live cache as long as its status says "refreshing".
* The clean-up jobs delete users, whose ledger rows restrict them, and revoked tokens.
* Cards, subscriptions, definitions and entries meet in the reports only: a payment of a
  bill inserts an entry, a realised definition is an entry, and the cash flow adds
  entries, statements, slices, bills and definitions up, at the rates of their days.
* A snapshot values the holdings directly or takes the board's values; prices come from
  sources that may fail, and from what memory or earlier snapshots have of them.

## 2 The plan

Order: first what handles money or is shared by concurrent tasks, then the rest of the
user's data, then the computations. All of it is done; what each leaves out is in
section 7.

1. `CreditLedger` and the abstract `Account`; `SingleFlightCache`; `LiveCache`;
   `Snapshots`; `Scheduler`. With proofs.
2. `Tokens` and `Identity`: the tokens and the row of a user. Composed by `MC_Sessions`.
   With proofs.
3. `Recurrence` (the calendar), `Cashbook` on top of it (definitions, entries, skips),
   `Bills` on top of that, and `CashFlow`, the reports, on top of all (with proofs about the
   three). Checked by `MC_Books`.
4. `Instalments` (on `Recurrence`) and `CardPayments`; `Rates`; `Holdings`;
   `Valuation`: what the holdings are worth on the board and in a snapshot. Composed by
   `MC_Household`. With proofs.

Worth doing next: what the lock-out is worth against more than two logins at a time; a
model of the import of entries with its duplicate handling; the polling hook over
`LiveCache`; the product of `LiveCache` and `Snapshots`, in which a row is saved between two
tasks that write it (`Valuation` has each refresh as one step).

## 3 The modules and the code

Every module names its operations after the code's; `PROJECT.json` maps each definition
to its lines. Operators marked `\* mutant` are not part of any specification: each is
a definition with a plausible bug in it, and shows that a property can fail.

**`CreditLedger`** - the transactions of `POST /advice/generate`,
`POST /expenses/analysis/generate` and `add_credits`.
*State:* the committed `balance` and `ledgerSum` of each user, the committed ledger
`rows` and `adviceRows` (named by the request that wrote them), and per request its
place `pc`, user, key and `copy`, the `credit_balance` of the `User` object in the
request's session. Row locks are not variables: who holds FOR UPDATE (`Exclusive`) or
the foreign key's KEY SHARE (`KeyShare`) follows from the places.
*Actions:* refusal or start (consent, price check, no snapshot), the AI call's answer or
failure, the flush of the advice row, `deduct_credits`, the deadlock abort,
the key check, lock and insert of `add_credits`, the single commit, and a crash.
The point the model turns on: the locked SELECT of `deduct_credits` has no
`populate_existing`, so SQLAlchemy gives back the object loaded by `get_current_user`
before the AI call, and the charge is computed with that copy.

**`Account`** - the abstract specification of the same: one step books one request on
its owner's balance. It is what a user who never overlaps his requests can rely on.

**`SingleFlightCache`** - `AsyncTTLCache.get_or_compute` and `invalidate`.
*State:* `_cache`, `_inflight`, per call the future it created, its place, the owner it
joined. *Actions:* hit, own, join; the fetch returns, raises or is cancelled; a waiter
is cancelled (and the future with it); a waiter is woken; expiry and invalidation. A
step is what stands between two awaits; the lock is never held across one.

**`LiveCache`** - the row of one user and its background tasks.
*State:* the row's columns; `step`, `result`, `failed` and `seen` are the local
variables of the task of each kind (the full refresh, one per section, one per wallet:
`_REFRESH_TASKS`, `_SECTION_REFRESH_TASKS`, `_WALLET_REFRESH_TASKS`); `queued` are calls of
`refresh_live_cache` that have found the row stale and not yet reached the task table.
A position is the number of the fetch that produced it, a total the payload it was
summed from: all the properties ask of a number is how old it is and what it belongs to.
*Actions:* one per database access, because each has a session and a commit of its own:
`Mark`, the computations with their failures, `Read`, the five ways to save, a failed
access, a crash, the passing of the staleness limit.

**`Snapshots`** - one day of one user in `portfolio_snapshots`.
*State:* the committed row `day` (named by the save that inserted it), the place of each
request, the row it `found`, and the snapshot each advice refers to. *Actions:* the
SELECT, the flushed DELETE, the gathering, the INSERT, the commit and the read back of a
save; a preview, which stops before the INSERT and is rolled back; a delete; and an
advice, which picks the snapshot before the AI call and inserts a foreign key after it.
`Deleters` and `Referrers` are the row locks; the INSERT waits for an open transaction
that has touched the same (user, day), as a unique index does. Saving from the live cache
and computing from scratch differ only in what `Gather` stands for.

**`Scheduler`** - the four jobs that take an advisory lock.
*State:* which pods are up, and per pod and job its place, the users it has not begun
with (`todo`) and those it is busy with (`active`); the session that holds each lock;
and what this occurrence of a job has done so far (`ranBy`, `tried`). *Actions:* the hour
strikes in every running pod; misfire; try the lock or skip; the list of users fails;
begin, serve or fail a user; a `CancelledError` that leaves `gather` while the other
tasks go on; release; crash, broken session, start. The daily-rate job is a job with a
single "user", the rate. Differences of the jobs are constants: which key (`KeyOf`: the
weekly and the push job share `_SCHEDULER_LOCK_KEY`), which catches a user's exception
(`Isolating`), which runs in parallel (`Weekly`).

**`Identity`** - the row of one user in `users`, and the fourteen endpoints that write it.
*State:* the row's columns, the links mailed so far, the sets of recovery codes shown, and
per client the request under way: what it asked, the row as its session read it, when.
*Actions:* `Begin` is the read; each handler is the rest, up to its commit, which writes
the columns it assigned another value than it had read (`Write`), and no others: that is
what makes two requests lose each other's update or not. Between the two there are
awaits (HIBP, mail, the database; bcrypt is synchronous). The row of a closed account goes with
`HardDelete` unless a ledger row restricts it.

**`Tokens`** - login's pairs, rotation, logout, the table `revoked_tokens` and its clean-up.
*State:* tokens with their kind and expiry, the table, the refresh or logout of each client.
*Actions:* the look-up and the insert are two steps, and the primary key decides between
two that race. `get_current_user` takes a token of any kind, so a logout may come with a
refresh or a pre-MFA token in its header, whose jti goes into the table as well; a closed
account still logs in; the pre-MFA token is neither looked up nor spent, and buys pairs for
as long as it decodes. Time goes in half seconds, because a JWT is good to the end of its last
whole second and the clean-up compares that second with a clock that has fractions.

**`Recurrence`** - `applies_in_month`, `date_for_period`, `iter_due_periods`. Months and dates
are numbers; the functions are pure.

**`Cashbook`** - `incomes`, `expenses` and the definitions they are realised from.
*State:* definitions, entries, skips. *Actions:* create, update, delete of a definition
(with ON DELETE SET NULL), realise one period or all of the past, undo, skip, and typing,
editing and deleting entries. A request is one step: the unique index on (definition,
date) decides between two that realise the same.

**`Bills`** - subscriptions and their bills, each with a currency column of its own: a bill
keeps the one it was issued or imported in, and a PUT of the subscription changes the
subscription's. *Actions:* issuing, importing, paying (a read and
a commit, since a payment may wait for exchange rates), unpaying, and deletion, also of
the expense a bill is linked to, with its ON DELETE SET NULL.

**`CashFlow`** - no state of its own: every report is an operator over that of `Cashbook` and
`Bills`, translated from its own queries. A sum is the set of the items it is made of, and an item of a bill has
the currency its report converts it from.

**`Instalments`** - the plans of a card and the statements that reconcile them: the bank's
plan is a constant, the rows are what the endpoints and the import make of it. A plan
typed in counts its slices by the day, so one that falls due this month is over or not.

**`CardPayments`** - `pay_statement`, which reads card and statement and writes both, beside
typed debts, imports and deletions. A debt is what it is made of: the figure last typed,
and how often each statement's remainder was added.

**`Rates`** - `daily_rates` with everything that fills it (reports, bulk look-ups, back-fill,
the daily job), the rates a report takes from it, and the rates of the day with their
stand-ins. A rate is the day it is of.

**`Holdings`** - the eight tables a user's holdings are in. One table of one user at a time;
`kind` says which, and so which endpoints and which import. A request that replaces rows
finds them at its beginning and commits at its end. A coin's price, `linked_source` and
`linked_id` are three columns that are written one by one, so there are half links and
prices of 0; a metal may have a code its unit has no use for. The export and the parsers of
the import do to these what the code does.

**`Valuation`** - what the holdings are worth. `Direct` gathers each source and enriches
missing prices from the spot market or the last snapshot that has one; `OnBoard` is what the
sections of the live cache make of each holding. *State:* which sources fail, which symbols
have no price, what memory remembers, the board (its rate of the dollar, and its lines, each
with the day it was made), and the snapshot of each day. A price is what it is of and its
day. *Actions:* `CreateBoard` makes a row without sections, `RefreshBoard` refreshes all of it,
`RefreshSection` and `RefreshWallet` a part; `SaveBoard` saves the board that is there, of
whichever day, with today's cash and pensions; `SaveDirect` is the path of the job, of a
broker's report and of a user without a board.

## 4 The runs

`tlc -workers 2 -config <config>.cfg <module>.tla`, the module being the `MC_` module whose
name the config begins with. All the passing runs are exhaustive.

| Run | Config | What it shows | Size |
|---|---|---|---|
| `credits` | `MC_CreditLedger` | safety and termination of overlapping charges and top-ups | 175 000 states |
| `credits_serial` | `MC_CreditLedgerSerial` | the refinement of `Account` when a user's charge is alone | 16 000 |
| `credits_drift` | `MC_CreditLedgerDrift` | balance = ledger is refuted without that | - |
| `flights` | `MC_SingleFlightCache` | one fetch, shared outcomes, no hang | 172 000 |
| `board` | `MC_LiveCache` | total, notes and status under overlapping tasks | 1 150 000 |
| `board_serial` | `MC_LiveCacheSerial` | partial refreshes and recovery, one task at a time | 82 000 |
| `snapshots` | `MC_Snapshots` | nothing lost or overwritten unseen, all end | 125 000 |
| `scheduler` | `MC_Scheduler` | mutual exclusion, isolation of users, lock comes free | 132 000 |
| `sessions` | `MC_Sessions` | lock-out, links, recovery codes, ended tokens | 786 000 |
| `books` | `MC_Books` | reports agree, nothing is counted twice, bills and expenses stay linked | 56 000 |
| `household` | `MC_Household` | instalments, payments, rates, holdings and their values | 337 000 |
| `funds_quantity` | `MC_HouseholdFunds` | that positions show their own quantities is refuted | - |

The type invariants of the modules with proofs, and the formulas `NonNegative`,
`NoFreeCredits`, `NoDeadFuture`, `ValuesWereFetched`, `ReferencesHold` and (under
`SerialSpec`) `LedgerMatchesBalance`, are proved and not repeated in a run;
`BalanceBounded` is the first two together. Where a module of section 4 has several
formulas of one kind the run checks their conjunction: `ReportsAgree`, `RatesAgree`,
`PricesTold`, and the `TypesOK` of a composition.

**Composition.** `MC_Sessions` and `MC_Household` put modules together that share no state,
and `MC_Books` parts of one module that meet in the reports only. A behaviour therefore
explores one of them (`group`, `part`): a step of one disables and enables nothing of
another, so their interleavings add states and no behaviour that any property could tell
from one without.

**Bounds, and why they are enough.**
`credits`: two advices, an analysis and two top-ups over two users and one key
(assigned to users in every way): two advices of one user are what it takes to deadlock
on KEY SHARE, a charge with a top-up what it takes to lose an update, two top-ups with
one key what a repeated webhook is. An advice costs 1, an analysis 3, a top-up adds 2, so
a balance can be too small for one and enough for the other.
`flights`: four calls on two keys allow an owner, two waiters (one cancelled, one not)
and a later owner of the same key.
`board`: two sections, one of them the wallets with two wallets; two tasks at a time of any
kinds, one refresh in the queue, one fault. What goes wrong between tasks goes wrong
between two; with `MaxFetch = 1` it does not matter for the total and the notes which
fetch a value is from, and `board_serial`, where it does, uses 3. The symmetry of wallets
is used in runs without liveness only.
`snapshots`: two saves, with or without an earlier snapshot, and one each of preview,
delete and advice: three writers can wait for the same row, which is what it takes for
a waiter to find the row gone.
`scheduler`: two pods (a rolling update has `maxSurge: 1`), two jobs on one key, three
users with a semaphore of two, each job due once, one fault. That each job comes due once
loses little: an occurrence begins with nothing of an earlier one but a job
still at work (which is left alone) and a lock of a dead pod (which the fault makes).

`sessions`: a threshold of 3 failures, two clients, three links, two sets of two codes, a
clock of three ticks with links and locks of one; four tokens over five half seconds,
where an access and a pre-MFA token live for a second and a refresh token for two: enough
for a pre-MFA token to be used twice, and for a row to be swept while its token decodes.
Groups of endpoints that touch the same columns are explored together: logins, and mailed
links with resets, with two requests at a time (two failures that both read the same count
are what it takes to lose one); longer sequences, codes, address changes and the rest
with one at a time. The last is a real restriction; section 6 says what two do.
`books`: December to February, so that a year ends, and three days on which something
happens, one in each month (a definition's day is 28 at most, so every month has it); five templates (monthly
with and without an end, quarterly, yearly, custom: one-time is the first of them, once,
and half-yearly differs in a step of 6), one income, one plan, one subscription, two
entries, one payer, and two currencies between which a subscription may be changed.
`household`: two plans over four months (one of them through three statements); two payments
over two statements and one typed debt; three days of which the second is a holiday, two
currencies of which one is quoted less often, two reports with up to two dates, a look-back of
a day; tables of two or three rows with two keys and files of a row, two requests at a time
for addresses and keys, whose requests may overlap to an effect; twenty-five holdings that between
them take every branch of both valuations, alone or in the pairs that have a symbol, source
or link in common, with at most two troubles at a time for one row and one for a pair (a
trouble is a source that fails, a symbol without a price, an old quote), which change between
days only; over two days, which is what it takes for a board, a price in memory and a
snapshot to be of an earlier day.

**Deadlock** is checked in the runs without a clock. `scheduler`, `sessions`, `books` and
`household` stop when time, ids or links are used up, and say `CHECK_DEADLOCK FALSE`.
In the modules of requests, `Done` says that everybody may have been answered.

**Fairness.** No request, visit, cron hour, crash or restart is ever obliged to happen.
`credits` and `snapshots`: weak fairness of each request that has begun; the event loop
runs it, AI clients and sources have timeouts, PostgreSQL grants locks in turn and
breaks deadlocks. `flights`: of fetches (all HTTP clients have timeouts) and of waking.
`board_serial`: of each task's steps, of the launch of a queued refresh, of the
staleness limit passing, and of a visit when the row is stale: that the user comes back
is the assumption under which a row left "refreshing" recovers, for nothing else repairs it.
`scheduler`: of each instance's steps, and of the server noticing a dead connection.
`sessions`, `books` and `household` state no liveness: their requests end at their next step, and nothing waits
for anything but a lock of `Holdings`.

## 5 The proofs

`tlapm <Module>.tla`; all obligations are proved by Z3, Zenon and LS4, with no axiom
but the named assumptions on constants, which TLC evaluates in the runs: distinct kinds of
requests do not overlap, placeholders are not values, prices are positive, the semaphore
admits somebody, the users are finitely many, the two tables of definitions have ids of
their own, what a definition can say is what its schema allows, typed dates exist; bounds
and settings (the lock-out's threshold, the lives of links, the days looked back) are
numbers; a fund among the holdings is one TEFAS knows, and a coin's price comes from one of
the places the form offers, or from a link without its source.

Some theorems have a hypothesis beside these, which is a part of what they say:

* `BillsKnowTheirExpense`: one payment is under way at a time. Two of the same bill make two
  expenses of which its row knows one.
* `LinksKeptAlways`: a group of endpoints with the ones that change the address
  (`OneAddressAtATime`) takes one request at a time. `LockoutAlways`: one with the login takes
  two (`TwoLoginsAtMost`). `GroupsOfTheRun` proves that those of the run do.
* `ShownUnlessStale`: no request of `mfa.py` commits over MFA columns that have changed since it
  read them (`FactorsCurrent`). Requests may overlap in every other way. What is left when one does is
  `CodesOfOneSet`, which has no hypothesis: the codes in a row are all of one set.
* `PartialsKeepOthers`, `NothingRegresses`: no task saves while another is between its fetch, or
  its reading of the row, and its own save (`SavesApart`). Tasks of all kinds may run together otherwise,
  and their computations overlap; the run checks the special case of one task at a time.
* `SlicesCountedOnceAlways`: a card's statements are imported in the order of their months
  (`~AnyOrder`).

Without its hypothesis each of these formulas is false: the behaviours of the code that show
it are in section 6. The hypotheses of `TypesOKAlways` and of the theorems on `Tokens` and
`CardPayments` alone say only that lives and bounds are natural numbers.

| Module | Theorems | The argument |
|---|---|---|
| `CreditLedgerProofs` | `TypeCorrect`, `AdviceIsPaid`, `BalancesBounded` (from `NeverNegative` and `CreditsAreBought`), `TopUpsAreExact`, `PaymentsCreditedOnce`, `SerialLedger`, `SerialIsAnAccount` | layers, each using those below: `Stages` (committed rows are those of committed requests); `FundsInv` (a charge's copy covered its cost when read, and stays); `LockInv` (FOR UPDATE excludes, so a top-up's copy is current); `KeyInv`; `BoughtInv` (balances and copies are bounded by what was bought, counted with finite cardinalities); `SerialInv` (a lone charge's copy is current), from which each commit is a booking of `Account` |
| `SingleFlightCacheProofs` | `TypeCorrect`, `OneFetchPerKey`, `EveryFutureIsOwned`, `OutcomesAreShared`, `OnlyFetchedValues` | `Flights`: a registered future and its owner determine each other; `Futures`: a done future says what became of its owner; `Joins`: who waits does so on a future of its own key |
| `LiveCacheProofs` | `TypeCorrect`, `TotalIsRight`, `FailuresAreVisible`, `RefreshingEnds`, `PartialsKeepOthers`, `NothingRegresses` | `Coherent`: not only the row but every copy a task has read has its total and its notes with it; `Accounted`: a placeholder in a result is in `failed`. Neither property is inductive without the copies. For the last two: while saves stay apart what a task has read is still the row when it saves (`ReadIsCurrent`), and what it saves is no older than what the row holds (`NumbersFit`) |
| `SnapshotsProofs` | `TypeCorrect`, `ReferencesAreGood`, `NothingOverwritten`, `NothingLost`, `RefusalsAreJust` | `NamesInv`: a row once gone never comes back, so "found is still the row" means what it says; `LocksInv`: one deleter, no referrer beside it, one inserter |
| `SchedulerProofs` | `TypeCorrect`, `JobsExclude`, `EverybodyServed` | `Alive`: dead pods run nothing; an instance at work is the lock's holder; `Kept`: while nothing has gone wrong, whoever has not been tried is still waiting somewhere; `Admitted` counts the semaphore |
| `SessionsProofs`, tokens | `TokensTyped`, `EndedStaysRefused`, `EndedForGood` | what was ended, as a token of whatever kind, is in the table or was swept; what was swept has reached the last second of its life, since the clean-up asks `exp < now` with `exp` a whole second, and time does not go back; a rotation inserts its own jti, so it finds it absent |
| `SessionsProofs`, the row | `TypesOKAlways`, `LinksWorkOnce`, `LinksKeptAlways`, `ShownUnlessStale`, `CodesOfOneSet`, `LockoutAlways`; `BothRun` composes | `RowTyped`, `Crowd` (as many requests as the group lets, and a lone one's copy is the row), `Unspent` (neither the row nor a copy holds a link that had done its work when the copy was read), `Addressed`; `Shown` and `OneSet`, which say of the row and of every copy what the codes are; `Lockout`, see below. A commit writes only the columns it assigned another value: `Column` says so once, for all endpoints |
| `HouseholdProofs`, payments | `EveryStatementOwedOnce` | every copy of the debt a payment has read is older than the debt or the same (`CopiesFit`), an unpaid statement has been carried in none of them (`Fits`), and the card is read before the statement (`CardIsOlder`): a payment that finds the statement unpaid has read a debt without its remainder |
| `HouseholdProofs`, instalments | `PlansEndOnTimeAlways`, `SlicesCountedOnceAlways` | whatever the order of the statements, what a plan nobody has edited has left and the month of its next slice add up to its last month; if they come in order, nothing of a plan is due before the latest statement (`PlansAhead`) |
| `HouseholdProofs`, rates | `RatesAgreeAlways` | while a report caches its dates, each of them is still to do, was missed, or has all that is quoted on it (`ReportsFit`); the first of its dates, from which `Matrix` counts back, exists because the numbers are well founded (`WFMin`) |
| `HouseholdProofs`, holdings | `KeysKeptAlways`, and within `TypesOKAlways` the addresses and the files that restore | the keys a request found are those the rows still have, if they are still there (`JobFits`), since an id is not given out again while a request remembers it (`Spare`, `TableFits`); a file of no more rows than there are ids left gets ids for all of them (an injection between finite sets). What a coin or a metal is worth is a function of the cells that export and import keep (`CoinRestored`, `MetalsRead`) |
| `HouseholdProofs`, worth | `PathsAgreeAlways`, `PricesToldAlways` | a case for each kind of row and each source a coin may have, in `Direct` and in `BoardLine`; what remains different is in `Unlike`. A line is `Made` from prices of its day, of memory, or of an older quote with its note; `Named` says so of each line of the board, every refresh keeps it for the lines it leaves, and each way a line gets into a snapshot keeps it (`WorthInv`). Each line the job stores is priced, noted or excepted |
| `CashFlowProofs` | `TypeCorrect`, `DetailIsTheRow`, `NothingCountedTwice`, `ReportsTellTheSame`, `PastGetsSettled`, `BillsKnowTheirExpense` | `RowsInv`: every date that gets into a row is one of the calendar, by hand or by `DateFor`, and an occurrence is of its definition's kind; `DateInMonth` turns the two queries for a month into each other. `CountInv`: ids are given out in turn, and `Ranks` (a date's place among those realised together is its own) that no two occurrences share one. `BillsInv`: an entry of a bill is the one its row links, unless the bill went with its subscription, and who is about to pay has found it unpaid |

**The lock-out.** `_handle_failed_login` adds one to the counter of the row its request has
read, so two wrong passwords may count as one. What bounds how often this can happen is not
either counter but the pair of them. Let a counter's level be the number of
failures it is away from the threshold T. Two requests that have read counters at the levels
u >= v leave room for w wrong passwords before them as long as
2w + 2v + u (u - 1) <= T (T + 1). A failure raises w, and writes a counter one level below
the one it had read; the next request reads that one. `Lockout` says this of two wrong
logins under way, of one and the row, and of the row alone, and `LockoutStep` that each of the
endpoints keeps it; from it follows w < T (T + 1) / 2. At T = 3 TLC
finds five wrong passwords without a lock, the most there can be.

**Composition.** `BothRun` and `PartsRun` take a behaviour of a composition apart: a step of
one part stutters in the others, so each runs as its own specification says, and a theorem
on the part is one on the whole.

The proofs hold for any numbers of users, requests, tasks, pods, keys, statements, days and
holdings; the runs show the same formulas, and the mutants that they can fail, on small
instances. Each inductive invariant of `SessionsProofs` was checked with TLC on the run's
constants before it was proved. Where a `CASE` of the models had arms that overlap it is
written as conditions that exclude each other: TLC takes the first arm that applies, the
logic lets any.
Only model-checked: the liveness properties (`EveryRequestEnds`, `NoOneHangs`,
`StatusSettles`, `LockComesFree`), since liveness under fairness is beyond the prover; and
the counterexamples. What `Recurrence` computes is not proved by induction either: the
theorems use what its operators say of one month or one step.

## 6 What the code says of itself and does not do

Two of these are runs; the others are formulas of their modules that no run lists and that
TLC refutes with the constants of the module's run (changed where it says so). Each
counterexample is a behaviour of the code.

* **Balance and ledger drift apart** (run `credits_drift`; `core/credits.py:3-8`). Two requests
  of one user load the user, call the AI, and charge. The second waits for the lock, and
  then writes the balance it read before the call minus its price: the first charge, or a
  top-up in between, is gone from the balance and still in the ledger. What does hold
  whatever overlaps is proved: never negative, never more than was bought.
* **A fund held at two distributors is shown with one quantity twice** (run
  `funds_quantity`; `api/v1/tefas.py:134`, against `:180-182`).
* *A waiter's timeout cancels everybody* (`WaitersShareResult` of `SingleFlightCache`;
  `core/cache.py:8`).
* *A partial refresh writes back old sections* (`PartialKeepsOthers` of `LiveCache` under
  `Spec`; `services/live_cache.py:534`, `:505-506`). The total, the notes and the status
  survive that, which is proved.
* *A repeated save is refused instead of replacing* (`RepeatReplaces` of `Snapshots`;
  `api/v1/portfolio.py:283-284`), if it looked before the other one committed.
* *One occurrence, two pods* (`OncePerOccurrence` of `Scheduler`; `scheduler.py:42-45`,
  `:449-451`): the lock keeps jobs apart in time, not from being repeated.
* *A logout or rotation that meets another is answered with an error*
  (`CollisionsAnswered` of `Tokens`; `api/v1/auth.py:251`, `:315`): after the rollback the
  handler reads an attribute the rollback has expired.
* *A link that sets another address* (`LinksKept` of `Identity` with a fourth link and two
  requests at a time): who asks again for the address the session has read writes the new
  link and not the address, which another request may have changed. *Recovery codes of
  overlapping requests* (`ShownCodesAreStored` likewise): the later commit writes back
  what it read.
* *Three wrong logins may count as one* (`LockoutHolds` with three clients and a group of three
  logins): each writes the count it read plus one, so that more failures fit below the
  threshold than with two at a time.
* *A definition whose day is edited is realised twice in a month* (`RealisedOncePerMonth` of
  `CashFlow`): an occurrence is found by its exact date.
* *A paid bill without an expense* (`PaidIsActual`): the expense may be deleted, and the bill
  stays paid, counted neither as expected nor as happened.
* *Two payments of one bill* (`BillExpensesLinked` with two payers; `subscriptions.py:453`):
  one of the two expenses belongs to no bill.
* *The detail of a month in a display currency* (`DisplayAgrees`; `cash_flow.py:941`): a
  statement is valued at the rate of its due day there, and at today's in the year's table.
* *An older statement imported later* (`SlicesCountedOnce` with `AnyOrder = TRUE`;
  `credit_cards.py:690`) counts slices twice, and *editing a plan* computes what is left as
  if its first slice to come were its first (`EditsKeepPlans`).
* *A remainder may be lost* (`CarryKept` of `CardPayments`; `credit_cards.py:468`): two
  payments of two statements of one card write the debt they both read.
* *A weekend's record has no rate* (`WeekendsValued` of `Rates`) when nobody cached the day
  before: the report asks for its own dates only.
* *A bill in the subscription's currency* (`SummaryInBillsCurrency` of `CashFlow`): after a PUT
  changes the currency of a subscription (`subscriptions.py:210`), its summary converts a
  bill that is already there with the new one (`:273`), the cash flow with the bill's own
  (`cash_flow.py:344`, `:857`). `ReportsAgree` therefore compares which bills
  the two count; that the detail of a month converts them as the year's table does is in
  `DetailAgreesWithYear`.
* *A snapshot of an earlier day's board* (`BoardsOfTheDay` of `Valuation`): the docstring of
  `save_snapshot_from_cache` says its caller guarantees a fresh cache ("Çağıran taze cache
  olduğunu (is_stale=False) garanti etmelidir", `services/live_cache.py:1000-1010`), and
  `create_snapshot` saves it "bayat olsa bile" (`api/v1/portfolio.py:247-251`, `:290-298`).
  Prices of an earlier day enter today's snapshot, with the notes they were made with and
  none about their age. Nor does `is_stale` tell: a refresh of one section makes the whole
  row look fresh (`services/live_cache.py:591`). A snapshot taken while the first refresh is
  under way saves a row without sections, and has no note of what it lacks. `OldPricesNamed` therefore
  speaks of what was old already when its line was made, and `GapsNamed` of the direct path.
* *Cells that a file does not restore* (`CellsRestore` of `Holdings`): half a link, which create
  and update store (`manual_crypto.py:285-286`, `:311-315`) and the import drops (`:469-473`);
  a typed price of 0, which the export writes as an empty cell; and a code of a metal whose
  unit has no use for it (`commodity.py:126-127` against `:302-317`). None of them changes what the row is
  worth, which is what `FilesRestore` says.
* *A fund export that is imported again changes the costs* (`FundFilesRestore` of
  `Holdings`): the price of the day is in the column the import reads as the cost.

Seen while modelling, and part of the models without a run of their own:

* The second price check of `deduct_credits` (`core/credits.py:38-44`) compares the
  same copy the endpoint has already checked, and so never refuses anything.
* A refresh in which all sections failed keeps `refreshed_at` "so that the old data is
  shown" (`services/live_cache.py:387`), but replaces the old data by placeholders.
* A partial refresh makes the whole row fresh (`services/live_cache.py:591`), also if its
  section failed, so that no visit refreshes the other sections.
* The status is one field for all tasks: the first to end says "ok" for all, and the
  dashboard stops polling while others work.
* The fallback of `create_snapshot` from the live cache to the full computation
  (`api/v1/portfolio.py:303-309`) is never reached: after the rollback it reads an
  attribute of an expired object.
* The token of the first step of a login with MFA is not spent by the second
  (`api/v1/mfa.py`): it can be used again until it expires. A closed account gets tokens at login,
  which only the endpoints behind `get_current_user` refuse.
* A pod that restarts within the grace hour does not make up for a missed job, as the
  comment at `scheduler.py:461` expects: the job store is in memory.
* `confirm_email_change` means to answer 409 when the address was taken meanwhile
  (`api/v1/user.py:258`), but `log_audit` flushes before it, swallows the refusal of the unique
  index, and the commit fails on the broken transaction.
* Importing an older bill moves `next_bill_date` back (`subscriptions.py:741`), and issuing
  one by hand never moves it on.
* Two requests that add the first key of one exchange make two rows, after which
  `scalar_one_or_none` raises in both endpoints that look for one (`integrations.py:51`).
* An import of manual coins from a file of blank rows has no error, and empties the table.
* A stock without a quote is passed over in a snapshot without a note
  (`services/snapshot.py:561`), and prices that TEFAS or CoinGecko gave earlier are used without
  one. The last known price of a symbol may be that of another holding with the symbol
  (`:642`).
* `services/snapshot.py:85` reads `encrypted_extra` of an integration, which has no such
  column: a BinanceTR key fails, with a note.
* The comment at `scheduler.py:45` names a transaction-scoped lock; the code takes a
  session-scoped one.

## 7 What is not modelled

* *Of the components with a module:* amounts and rounding (an amount is the row it is of, a
  sum its items, a rate its day); the text of prompts and answers; the audit log beyond its
  effect on a transaction; rate limits; cryptography (a password, link or code is right or
  not). In `CreditLedger`, the connection pool. In `LiveCache`, the health issues other than
  `section_failed`. In `Snapshots`, days and users other than one (they share no row). In
  `Scheduler`, a lock session that breaks while its pod lives, and the clean-up of the audit
  log. In `Identity`, the profile's name, the other consents and the data export. In
  `Cashbook`, categories, and the import of entries from files. In `CashFlow`, budget lines,
  notes and settings, which are single rows that a request overwrites. In `Instalments` and
  `CardPayments`, creating and deleting a card; the import's slice number where the parser finds
  none (`installments_paid or 1`, `credit_cards.py:737`), since the modelled bank always prints
  it; and two plans with one description (the endpoint that creates a plan allows a second, the model has
  one row for each). In `Valuation`, the deadlines of wallets, and a failure of CoinGecko's
  coin list apart from one of its prices: either leaves what memory has.
* *Not modelled:* parsing of bank statements and bills, HTTP formats of explorers and
  exchanges, sending of e-mail and push (that an occurrence may be served twice is seen in
  `Scheduler`), request plumbing, pages and components of the dashboard, migrations, and
  deployment files: text, input/output, presentation or configuration without shared state.
