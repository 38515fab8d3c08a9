--------------------------------- MODULE Rates ---------------------------------
(***************************************************************************)
(* Exchange rates: the cache of the central bank's daily rates and the     *)
(* value of a record at the rate of its day (services/historical_rates.py, *)
(* display_currency.py), and the rates of the day that forecasts are       *)
(* valued at (services/currency.py).                                       *)
(*                                                                         *)
(* A rate is the day it is of. The bank answers, with all it quotes on the *)
(* day asked for, with a 404, or not at all.                               *)
(***************************************************************************)
EXTENDS Integers, FiniteSets

CONSTANTS
  Currencies,   \* the foreign ones
  USD,          \* one of them, whose rate stands in for a missing one
  TRY,          \* the lira; no rate of it is saved
  MaxDay,       \* bound: days
  Quoted,       \* what the bank quotes on each day: nothing at a weekend
  Lookback,     \* _MAX_BACKFILL_LOOKBACK_DAYS
  Requests,     \* reports that may be under way at once
  MaxDates      \* bound: dates of a report

VARIABLES
  today, out,   \* the day, and whether its rates are out
  cached,       \* daily_rates: days and currencies
  asking,       \* each report: the dates it has still to cache, those it could not, its rates
  current       \* the rates of the day a report took last: a currency and whose rate it has

vars == <<today, out, cached, asking, current>>

Days == 1 .. MaxDay
Quiet == [step |-> "quiet"]

Init ==
  /\ today = 1 /\ out = FALSE /\ cached = {}
  /\ asking = [r \in Requests |-> Quiet] /\ current = {<<TRY, TRY>>}

-----------------------------------------------------------------------------
(* The cache: historical_rates.py *)

\* _fetch_tcmb_for_date, when the bank answers. A day without rates is a 404.
Published(d) == IF d < today \/ (d = today /\ out) THEN Quoted[d] ELSE {}

HasDay(d) == \E c \in Currencies : <<d, c>> \in cached

\* mutant: one currency of the day is written, and the day counts as cached
Upserted_one(d) == cached \cup ({d} \X {c \in Published(d) : c = USD})

\* _upsert_rates: all that is quoted on the day, in one statement.
Upserted(d) == cached \cup ({d} \X Published(d))

\* ensure_date_cached; `answered' says whether the bank did.
Ensured(d, answered) == IF HasDay(d) \/ ~answered THEN cached ELSE Upserted(d)

Latest(days) == IF days = {} THEN 0 ELSE CHOOSE x \in days : \A y \in days : y <= x

\* mutant: the row of the day itself is not looked at
DaysOf_before(c, lower, d) == {x \in lower .. d - 1 : <<x, c>> \in cached}

\* The days whose rate forward-fills day d: _latest_on_or_before, _forward_fill_dates.
DaysOf(c, lower, d) == {x \in lower .. d : <<x, c>> \in cached}

\* get_historical_rate: a cached day of any age, or else the first of the days back to
\* Lookback that the bank has rates of.
Probed(c, d) ==
  IF DaysOf(c, 1, d) # {} THEN 0
  ELSE Latest({x \in (d - Lookback) .. d : x >= 1 /\ Published(x) # {}})
LookUp(c, d) ==
  /\ cached' = IF Probed(c, d) = 0 THEN cached ELSE Upserted(Probed(c, d))
  /\ UNCHANGED <<today, out, asking, current>>

\* get_historical_rates_bulk: the dates that no cached day fills; backfill_dates: the
\* dates that are not cached.
Unfilled(c, dates) ==
  LET lower == (CHOOSE x \in dates : \A y \in dates : x <= y) - Lookback
  IN  {d \in dates : DaysOf(c, lower, d) = {}}
Fill(dates) ==
  /\ cached' = cached \cup UNION {{d} \X Published(d) : d \in dates}
  /\ UNCHANGED <<today, out, asking, current>>
Bulk(c, dates) == dates # {} /\ Fill(Unfilled(c, dates))
Backfill(dates) == Fill({d \in dates : ~HasDay(d)})

\* _fetch_daily_rate_job, of today.
DailyJob ==
  /\ cached' = Ensured(today, TRUE)
  /\ UNCHANGED <<today, out, asking, current>>

-----------------------------------------------------------------------------
(* A report in another currency: convert_realized *)

Ask(r, dates) ==
  /\ asking[r] = Quiet /\ dates # {}
  /\ asking' = [asking EXCEPT ![r] = [step |-> "caching", dates |-> dates, todo |-> dates,
                                      missed |-> {}, rates |-> {}]]
  /\ UNCHANGED <<today, out, cached, current>>

\* _historical_rate_matrix caches one date after the other.
Ensure(r, d, answered) ==
  /\ asking[r].step = "caching" /\ d \in asking[r].todo
  /\ cached' = Ensured(d, answered)
  /\ LET had == answered /\ Published(d) = Quoted[d]
     IN  asking' = [asking EXCEPT ![r] = [step |-> "caching", dates |-> @.dates, todo |-> @.todo \ {d},
                                          missed |-> @.missed \cup IF had THEN {} ELSE {d}, rates |-> {}]]
  /\ UNCHANGED <<today, out, current>>

\* It then reads what is cached from Lookback days before the first date on.
Matrix(dates) ==
  LET lower == (CHOOSE x \in dates : \A y \in dates : x <= y) - Lookback
  IN  {<<d, c, Latest(DaysOf(c, lower, d))>> : d \in dates, c \in Currencies}

\* _value_in_display: 0 for a record whose rate, or the display currency's, is missing.
Show(r) ==
  /\ asking[r].step = "caching" /\ asking[r].todo = {}
  /\ asking' = [asking EXCEPT ![r] = [step |-> "shown", dates |-> @.dates, todo |-> {},
                                      missed |-> @.missed, rates |-> Matrix(@.dates)]]
  /\ UNCHANGED <<today, out, cached, current>>

-----------------------------------------------------------------------------
(* The rates of the day: currency.py *)

RateOf(rates, c) == {x[2] : x \in {y \in rates : y[1] = c}}
NoRate == {}
OrUsd(rates, c) == IF RateOf(rates, c) # NoRate THEN RateOf(rates, c) ELSE RateOf(rates, USD)

\* fetch_rates: what the bank gives, and for the rest the dollar's, of another source;
\* either may fail.
FetchRates(given, usd) ==
  /\ current' = {<<TRY, TRY>>} \cup {<<c, c>> : c \in given}
                \cup {<<c, USD>> : c \in IF usd THEN Currencies \ given ELSE {}}
  /\ UNCHANGED <<today, out, cached, asking>>

\* mutant: the forecast has no stand-in
ForecastRate_strict(c, rates) == RateOf(rates, c)

\* convert_to_tl and the first half of convert_forecast: the rate that takes an amount
\* to the lira; none makes it 0.
ToTlRate(c, rates) == OrUsd(rates, c)
ForecastRate(c, rates) == OrUsd(rates, c)

\* The second half, and tl_to_display: the rate divided by; without one the amount
\* stays in lira.
DisplayRate(display, rates) == IF RateOf(rates, display) = NoRate THEN {TRY} ELSE RateOf(rates, display)
Forecast(c, display, rates) ==
  IF c = display THEN {<<c, c>>} ELSE ForecastRate(c, rates) \X DisplayRate(display, rates)
ThroughTl(c, display, rates) == ToTlRate(c, rates) \X DisplayRate(display, rates)

-----------------------------------------------------------------------------
Done(r) ==
  /\ asking[r].step = "shown" /\ asking' = [asking EXCEPT ![r] = Quiet]
  /\ UNCHANGED <<today, out, cached, current>>

Publish == ~out /\ out' = TRUE /\ UNCHANGED <<today, cached, asking, current>>
NextDay ==
  /\ today < MaxDay /\ today' = today + 1 /\ out' = FALSE
  /\ UNCHANGED <<cached, asking, current>>

Past == {dates \in SUBSET (1 .. today) : Cardinality(dates) <= MaxDates}

Next ==
  \/ Publish \/ NextDay \/ DailyJob
  \/ \E c \in Currencies : (\E d \in 1 .. today : LookUp(c, d)) \/ (\E dates \in Past : Bulk(c, dates))
  \/ \E dates \in Past : Backfill(dates)
  \/ \E r \in Requests :
       \/ \E dates \in Past : Ask(r, dates)
       \/ \E d \in Days, answered \in BOOLEAN : Ensure(r, d, answered)
       \/ Show(r) \/ Done(r)
  \/ \E given \in SUBSET Currencies, usd \in BOOLEAN : FetchRates(given, usd)

Spec == Init /\ [][Next]_vars

-----------------------------------------------------------------------------
(* Properties *)

\* A day that is cached is cached whole: ensure_date_cached does not ask again for a
\* day that has a row, so a part of it would leave its other currencies at the rate of
\* an earlier day for good ("o gunun tum birimleri tek XML").
CachedWhole == \A d \in Days : HasDay(d) => {c \in Currencies : <<d, c>> \in cached} = Quoted[d]

\* A record of a day with rates is valued at that day's rate, whatever other reports
\* cached and did meanwhile, unless the bank did not answer; any other at an earlier
\* day's, never at a later one's, nor at one out of reach of the report's dates.
ShownAtItsDay ==
  \A r \in Requests : asking[r] # Quiet =>
    \A x \in asking[r].rates :
      LET d == x[1]
          c == x[2]
          of == x[3]
      IN  /\ of <= d /\ (of # 0 => \E e \in asking[r].dates : of >= e - Lookback)
          /\ c \in Quoted[d] /\ d \notin asking[r].missed => of = d

\* A forecast is valued at the rates a sum of forecasts in lira is, so that the total
\* of a report is that of its items, in the currency they have or in another.
FallbacksAgree ==
  \A c, display \in Currencies \cup {TRY} :
    c # display => Forecast(c, display, current) = ThroughTl(c, display, current)

\* A record of a weekend is valued at the rate of the last day before it ("Yayin gunu
\* degilse (404) no-op - forward-fill lookup zaten onceki is gununu bulur").
WeekendsValued ==
  \A r \in Requests : asking[r] # Quiet =>
    \A x \in asking[r].rates :
      /\ \E e \in 1 .. x[1] : x[1] - e <= Lookback /\ x[2] \in Quoted[e]
      /\ asking[r].missed = {}
      => x[3] # 0
=============================================================================
