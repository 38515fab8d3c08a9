------------------------------- MODULE Valuation -------------------------------
(***************************************************************************)
(* What a holding is worth. Two paths put a price on everything a user     *)
(* holds: directly, for the snapshot of the scheduled job, of a broker's   *)
(* report and of a user without a board (services/snapshot.py,             *)
(* compute_and_save_snapshot), and on the board, which is refreshed as a   *)
(* whole, by section or by wallet, and from which a user's snapshot is     *)
(* saved, however old it is (services/live_cache.py with the compute_*     *)
(* functions of api/v1). Refreshes are a step each: their overlap is       *)
(* LiveCache.                                                              *)
(*                                                                         *)
(* Sources of prices fail one by one. Each path says in notes what it left *)
(* out or valued with an older price. A price is modelled by where it      *)
(* comes from: of what it is the price, of which day, and whether of one   *)
(* unit or of the whole of a holding. Amounts of money, rounding and the   *)
(* conversion between currencies are left out.                             *)
(***************************************************************************)
EXTENDS Integers, FiniteSets, FiniteSetsExt

CONSTANTS
  Mixes,    \* what may be held: sets of rows, records of id, kind, symbol, via and to
  Coins,    \* symbols that have a market on Binance
  Gecko,    \* symbols that only CoinGecko has
  Funds,    \* codes of funds
  Listed,   \* the symbols the board asks for when it values wallets
  MaxOut,   \* bound: troubles at a time, by how many rows are held
  MaxDay    \* bound: days

VARIABLES
  held,     \* the rows of the user, as they stay
  day,
  out,      \* the sources that fail
  missing,  \* what the sources that answer have no price of
  late,     \* stocks of which only an older price can be had
  good,     \* per fund and CoinGecko coin, the day of the price kept in memory, or 0
  board,    \* the row of live_portfolio_cache: whether it is there, its rate of the dollar, its lines
  saved     \* the snapshot of each day: who took it, whether with a rate of the dollar, its lines

vars == <<held, day, out, missing, late, good, board, saved>>

Sources == {"usd", "tcmb", "gbp", "metals", "tefas", "spot", "gecko", "exchange", "wallet", "empty"}

-----------------------------------------------------------------------------
(* Prices, as sets of none or one *)

Today(what) == {[of |-> what, day |-> day, lot |-> 0]}
Kept(what) == IF good[what] = 0 THEN {} ELSE {[of |-> what, day |-> good[what], lot |-> 0]}
Whole(h, price) == {[p EXCEPT !.lot = h.id] : p \in price}

\* fetch_coingecko_prices, fetch_coingecko_prices_by_ids: what it does not give is taken
\* from the last that it gave.
GeckoPrice(id) == IF "gecko" \in out \/ id \in missing THEN Kept(id) ELSE Today(id)

\* fetch_combined_prices and lookup_usd_price: of Binance, else of CoinGecko. When
\* Binance fails, nothing has a price.
Spot(symbol) ==
  IF "spot" \in out THEN {}
  ELSE IF symbol \in Coins THEN IF symbol \in missing THEN {} ELSE Today(symbol)
  ELSE IF symbol \in Gecko THEN GeckoPrice(symbol) ELSE {}

\* _cached_price_grid: while TEFAS fails, the last list it gave counts, ...
FundPrice(code) ==
  IF "tefas" \in out THEN Kept(code) ELSE IF code \in missing THEN {} ELSE Today(code)

\* ... and if there is none the request fails.
TefasRaises == "tefas" \in out /\ \A code \in Funds : good[code] = 0

\* fetch_metal_prices: it fails without a rate for the dollar; a metal may be 0.
MetalPrice(metal) == IF "metals" \in out \/ metal \in missing THEN {} ELSE Today(metal)

\* _fetch_one: the last price of a market that has none now is an older one.
Quote(ticker) ==
  IF ticker \in missing THEN {}
  ELSE {[of |-> ticker, day |-> IF ticker \in late THEN day - 1 ELSE day, lot |-> 0]}

\* fetch_tefas_prices_by_codes: none, when one of the codes asked for has none.
LinkedFunds == {h.to : h \in {x \in held : x.via = "tefas"}}
LinkedFund(code) == IF \E c \in LinkedFunds : FundPrice(c) = {} THEN {} ELSE FundPrice(code)

\* The price a coin is linked to: _manual_crypto_linked_price, _price_linked.
LinkPrice(h) ==
  CASE h.via = "commodity" -> MetalPrice(h.to)
    [] h.via = "binance" -> Spot(h.to)
    [] h.via = "coingecko" -> GeckoPrice(h.to)
    [] h.via = "tefas" -> LinkedFund(h.to)

Linked == {"commodity", "binance", "coingecko", "tefas"}

-----------------------------------------------------------------------------
(* A line: a holding, the row whose quantity it shows, its price, whether there *)
(* is a position at all, the notes about it, and the day it was made on.        *)

Line(h, price, notes) ==
  [h |-> h, amount |-> h.id, price |-> price, there |-> TRUE, notes |-> notes, on |-> day]
Gone(h, notes) ==
  [h |-> h, amount |-> h.id, price |-> {}, there |-> FALSE, notes |-> notes, on |-> day]
Valued(l) == l.there /\ l.price # {}
Of(kind) == {h \in held : h.kind = kind}

-----------------------------------------------------------------------------
(* Directly *)

\* _gather_crypto_assets
CryptoLine(h) ==
  IF "exchange" \in out THEN Gone(h, {"fetch_failed"})
  ELSE Line(h, IF h.via = "priced" THEN Today(h.symbol) ELSE {}, {})

\* _gather_wallet_assets: quantities only
WalletLine(h) ==
  IF "wallet" \in out THEN Gone(h, {"fetch_failed"})
  ELSE IF "empty" \in out THEN Gone(h, {"empty_result"}) ELSE Line(h, {}, {})

\* mutant: the funds go without a word
TefasLine_silent(h) ==
  IF \E f \in Of("fund") : FundPrice(f.symbol) = {} THEN Gone(h, {})
  ELSE Line(h, FundPrice(h.symbol), {})

\* _gather_tefas_assets: one fund without a price takes them all.
TefasLine(h) ==
  IF \E f \in Of("fund") : FundPrice(f.symbol) = {} THEN Gone(h, {"fetch_failed"})
  ELSE Line(h, FundPrice(h.symbol), {})

\* fetch_usd_to_tl
Dollar == IF "usd" \in out THEN {} ELSE Today("USD")

\* _gather_cash_assets. The dollar stands in for a currency without a rate.
CashLine(h, dollar) ==
  IF h.symbol = "TRY" \/ (h.symbol \notin missing /\ "tcmb" \notin out)
  THEN Line(h, Whole(h, Today(h.symbol)), {})
  ELSE IF dollar = {} THEN Gone(h, {"rate_unavailable"})
  ELSE Line(h, Whole(h, dollar), IF h.symbol = "USD" THEN {} ELSE {"currency_rate_missing"})

\* _gather_commodity_assets, calculate_holding_value: the whole value, as the price of one.
CommodityLine(h) ==
  IF MetalPrice(h.symbol) = {} THEN Gone(h, {"no_price"})
  ELSE Line(h, Whole(h, MetalPrice(h.symbol)), {})

\* _manual_crypto_manual_price
TypedLine(h) ==
  IF h.to = "typed" THEN Line(h, Today("typed"), {"info_manual_price"})
  ELSE Line(h, {}, {"manual_price_missing"})

\* _manual_crypto_linked_price
LinkedLine(h) == Line(h, LinkPrice(h), IF LinkPrice(h) # {} THEN {"info_linked"} ELSE {"no_price"})

\* _gather_manual_crypto_assets. A link may lack its source.
ManualLine(h) ==
  CASE h.via = "auto" -> Line(h, {}, {})
    [] h.via = "manual" -> TypedLine(h)
    [] h.via = "unsourced" -> Line(h, {}, {"linked_invalid"})
    [] h.via \in Linked -> LinkedLine(h)

\* _gather_bes_assets
BesLine(h) == Line(h, Whole(h, Today(h.symbol)), {})

StaleNote(h) == IF h.symbol \in late THEN {"stale_price"} ELSE {}

\* _gather_stock_assets: one without a quote is passed over. Without a rate for the pound
\* (_resolve_rates) what is quoted in pence is worth 0.
StockLine(h) ==
  IF Quote(h.symbol) = {} THEN Gone(h, {})
  ELSE Line(h, IF h.via = "GBp" /\ "gbp" \in out THEN {} ELSE Quote(h.symbol), StaleNote(h))

Gathered(h) ==
  CASE h.kind = "exchange" -> CryptoLine(h)
    [] h.kind = "wallet" -> WalletLine(h)
    [] h.kind = "fund" -> TefasLine(h)
    [] h.kind = "stock" -> StockLine(h)
    [] h.kind = "cash" -> CashLine(h, Dollar)
    [] h.kind = "metal" -> CommodityLine(h)
    [] h.kind = "coin" -> ManualLine(h)
    [] h.kind = "pension" -> BesLine(h)

\* _last_known_usd_price: the price of any position with the symbol, in the last snapshot
\* of an earlier day that has one. (Today's has been deleted.)
LastKnown(symbol) ==
  LET priced(d) == {l \in saved[d].lines : saved[d].rated /\ Valued(l) /\ l.h.symbol = symbol}
      days == {d \in 1 .. day - 1 : priced(d) # {}}
  IN  UNION {UNION {l.price : l \in priced(d)} : d \in {d \in days : \A e \in days : e <= d}}

\* mutant: an older price is used without a word
WithLastKnown_silent(l, known) ==
  IF known[l.h.symbol] # {} THEN [l EXCEPT !.price = known[l.h.symbol]]
  ELSE [l EXCEPT !.notes = @ \cup {"no_spot_price"}]

\* _apply_last_known_price
WithLastKnown(l, known) ==
  IF known[l.h.symbol] # {} THEN [l EXCEPT !.price = known[l.h.symbol], !.notes = @ \cup {"stale_price"}]
  ELSE [l EXCEPT !.notes = @ \cup {"no_spot_price"}]

\* _enrich_missing_prices
Enriched(l, known) ==
  IF ~l.there \/ l.price # {} THEN l
  ELSE IF Spot(l.h.symbol) # {} THEN [l EXCEPT !.price = Spot(l.h.symbol)]
  ELSE WithLastKnown(l, known)

Direct(known) == {Enriched(Gathered(h), known) : h \in held}

-----------------------------------------------------------------------------
(* On the board: a section that fails is empty, and says so (_gather_sections). *)

Section(h, failed, line) == IF failed THEN Gone(h, {"section_failed"}) ELSE line

\* compute_crypto_positions
BoardCrypto(h) == Section(h, "usd" \in out, CryptoLine(h))

\* _wallet_positions_for: a wallet found empty has no note here.
BoardWallet(h) ==
  Section(h, {"usd", "spot"} \cap out # {},
    IF "wallet" \in out THEN Gone(h, {"fetch_failed"}) ELSE IF "empty" \in out THEN Gone(h, {})
    ELSE Line(h, IF h.symbol \in Listed THEN Spot(h.symbol) ELSE {}, {}))

\* asset_by_code: of the rows of a fund, the last one's
LastRow(h) ==
  CHOOSE f \in Of("fund") : f.symbol = h.symbol /\ \A g \in Of("fund") : g.symbol = h.symbol => g.id <= f.id

\* compute_tefas_positions, with _build_unpriced_tefas_position
BoardFund(h) ==
  Section(h, TefasRaises,
    IF FundPrice(h.symbol) = {} THEN Line(h, {}, {"price_unavailable"})
    ELSE [Line(h, FundPrice(h.symbol), {}) EXCEPT !.amount = LastRow(h).id])

\* compute_stock_positions
BoardStock(h) ==
  Section(h, {"usd", "gbp"} \cap out # {},
    IF Quote(h.symbol) = {} THEN Gone(h, {}) ELSE Line(h, Quote(h.symbol), StaleNote(h)))

\* compute_commodities
BoardMetal(h) ==
  Section(h, "metals" \in out,
    IF MetalPrice(h.symbol) = {} THEN Line(h, {}, {"unavailable"}) ELSE Line(h, MetalPrice(h.symbol), {}))

\* _fetch_prices_safe, _build_price_context: the section fails without the dollar, and
\* without Binance if it is asked for a coin.
CoinsFail == "usd" \in out \/ ("spot" \in out /\ \E h \in Of("coin") : h.via \in {"auto", "binance"})

\* _resolve_unit_price
UnitPrice(h) ==
  CASE h.via = "auto" -> Spot(h.symbol)
    [] h.via = "manual" -> IF h.to = "typed" THEN Today("typed") ELSE {}
    [] h.via = "unsourced" -> {}
    [] h.via \in Linked -> LinkPrice(h)

\* _manual_crypto_notes: about what is linked, whether the section failed or not
CoinNotes(h, price) ==
  IF h.via \notin Linked \cup {"unsourced"} THEN {} ELSE IF price = {} THEN {"no_price"} ELSE {"info_linked"}

\* compute_manual_crypto
BoardCoin(h) ==
  IF CoinsFail THEN Gone(h, {"section_failed"} \cup CoinNotes(h, {}))
  ELSE Line(h, UnitPrice(h), CoinNotes(h, UnitPrice(h)))

OnBoard(h) ==
  CASE h.kind = "exchange" -> BoardCrypto(h)
    [] h.kind = "wallet" -> BoardWallet(h)
    [] h.kind = "fund" -> BoardFund(h)
    [] h.kind = "stock" -> BoardStock(h)
    [] h.kind = "metal" -> BoardMetal(h)
    [] h.kind = "coin" -> BoardCoin(h)

\* mutant: the price of a gram is saved as the value of the whole
MetalFromCache_gram(h, l) == IF Valued(l) THEN l ELSE Gone(h, l.notes)

\* _commodity_assets_from_cache: the whole value, and nothing of what is worth 0
MetalFromCache(h, l) == IF Valued(l) THEN [l EXCEPT !.price = Whole(h, l.price)] ELSE Gone(h, l.notes)

\* _db_only_assets: what the board does not have is valued when the snapshot is saved.
Extra == {h \in held : h.kind \in {"cash", "pension"}}
DbOnly(h, dollar) == IF h.kind = "cash" THEN CashLine(h, dollar) ELSE BesLine(h)

\* _assets_from_cache, with _cache_issues
FromCache(h, l) == IF h.kind = "metal" THEN MetalFromCache(h, l) ELSE l

\* What a snapshot has of a holding when the board is refreshed for it
BoardLine(h) == IF h \in Extra THEN DbOnly(h, Dollar) ELSE FromCache(h, OnBoard(h))

-----------------------------------------------------------------------------

Symbols == {h.symbol : h \in held}
NoPrices == [s \in Symbols |-> {}]
Blank == [h \in held \ Extra |-> [Gone(h, {}) EXCEPT !.on = 0]]   \* a payload without sections

Init ==
  /\ held \in Mixes
  /\ day = 1 /\ out = {} /\ missing = {} /\ late = {}
  /\ good = [w \in Funds \cup Gecko |-> 0]
  /\ board = [there |-> FALSE, dollar |-> {}, lines |-> Blank]
  /\ saved = [d \in 1 .. MaxDay |-> [by |-> "nobody", rated |-> FALSE, lines |-> {}]]

\* The sources that what is held depends on.
SourcesOf(h) ==
  CASE h.kind = "exchange" -> {"exchange", "usd", "spot"}
    [] h.kind = "wallet" -> {"wallet", "empty", "usd", "spot", "gecko"}
    [] h.kind = "fund" -> {"tefas"}
    [] h.kind = "stock" -> {"usd", "gbp", "tcmb"}
    [] h.kind = "cash" -> {"usd", "tcmb"}
    [] h.kind = "metal" -> {"metals"}
    [] h.kind = "pension" -> {}
    [] h.kind = "coin" -> {"usd", "spot", "gecko", "metals", "tefas"}

\* The sources answer, or not, the whole day: bound, they change between days only. TCMB has
\* the dollar and the pound; either can be had elsewhere (fetch_usd_to_tl, fetch_gbp_to_usd).
Answer(o, m, l) ==
  /\ saved[day].by = "nobody" /\ \A h \in DOMAIN board.lines : board.lines[h].on < day
  /\ l \cap m = {}
  /\ Cardinality(o) + Cardinality(m) + Cardinality(l) <= MaxOut[Cardinality(held)]
  /\ out' = o /\ missing' = m /\ late' = l
  /\ UNCHANGED <<held, day, good, board, saved>>

\* What memory has after the prices of rows were asked for: _TEFAS_LAST_GOOD is replaced by
\* the list, _CG_SYM_LAST_GOOD and _CG_ID_LAST_GOOD keep what is not in the answer.
Remembered(asked) ==
  [w \in DOMAIN good |->
     IF w \in Funds
     THEN IF "tefas" \in out \/ {h \in asked : h.symbol \in Funds \/ h.via = "tefas"} = {} THEN good[w]
          ELSE IF w \in missing THEN 0 ELSE day
     ELSE IF {"gecko", "spot"} \cap out # {} \/ w \in missing \/ \A h \in asked : w \notin {h.symbol, h.to}
          THEN good[w] ELSE day]

\* _resolve_rates: nothing is saved without the dollar.
RatesResolved == "usd" \notin out

\* compute_and_save_snapshot. Of several positions that have the last price of a symbol,
\* any may be the one that is found.
SaveDirect ==
  /\ RatesResolved
  /\ \E known \in [Symbols -> {{}} \cup {{p} : p \in UNION {LastKnown(s) : s \in Symbols}}] :
       /\ \A s \in Symbols : known[s] \subseteq LastKnown(s) /\ (known[s] = {} => LastKnown(s) = {})
       /\ saved' = [saved EXCEPT ![day] = [by |-> "direct", rated |-> TRUE, lines |-> Direct(known)]]
  /\ good' = Remembered(held)
  /\ UNCHANGED <<held, day, out, missing, late, board>>

\* The sections of the board, by what they show.
Sections == {h.kind : h \in held \ Extra}

\* _set_status_refreshing: every refresh begins with a row, and one that times out, or dies
\* with its process, leaves a new one without sections.
CreateBoard ==
  /\ ~board.there /\ board' = [board EXCEPT !.there = TRUE, !.lines = Blank]
  /\ UNCHANGED <<held, day, out, missing, late, good, saved>>

\* Lines made again, and the rest as it was.
Patched(new) == [h \in held \ Extra |-> IF h \in DOMAIN new THEN new[h] ELSE board.lines[h]]

\* _do_refresh: all sections, and the rate.
RefreshBoard ==
  /\ board.there
  /\ board' = [board EXCEPT !.dollar = Dollar, !.lines = [h \in held \ Extra |-> OnBoard(h)]]
  /\ good' = Remembered(held)
  /\ UNCHANGED <<held, day, out, missing, late, saved>>

\* A section that fails has no other note.
SectionLine(h) ==
  IF "section_failed" \in OnBoard(h).notes THEN Gone(h, {"section_failed"}) ELSE OnBoard(h)

\* refresh_one_section: the rate and the other sections stay.
RefreshSection(section) ==
  /\ board.there
  /\ board' = [board EXCEPT !.lines = Patched([h \in Of(section) |-> SectionLine(h)])]
  /\ good' = Remembered(Of(section))
  /\ UNCHANGED <<held, day, out, missing, late, saved>>

\* refresh_one_wallet: without prices the wallet stays as it was; the notes of the section
\* (health_issues), and an error it had (errors), stay in any case.
WalletLineKept(h) ==
  IF {"usd", "spot"} \cap out # {} THEN board.lines[h]
  ELSE [BoardWallet(h) EXCEPT !.notes = @ \cup board.lines[h].notes]
RefreshWallet(h) ==
  /\ board.there
  /\ board' = [board EXCEPT !.lines = Patched([w \in {h} |-> WalletLineKept(w)])]
  /\ good' = Remembered({h})
  /\ UNCHANGED <<held, day, out, missing, late, saved>>

\* create_snapshot, save_snapshot_from_cache: the board that is there, of whichever day, and
\* today's cash and pensions, with the board's rate of the dollar if it has one.
SaveBoard ==
  LET dollar == IF board.dollar = {} /\ Extra # {} THEN Dollar ELSE board.dollar
  IN  /\ board.there
      /\ saved' = [saved EXCEPT ![day] =
           [by |-> "board", rated |-> dollar # {},
            lines |-> {IF h \in Extra THEN DbOnly(h, dollar) ELSE FromCache(h, board.lines[h]) : h \in held}]]
      /\ UNCHANGED <<held, day, out, missing, late, good, board>>

Tomorrow == day < MaxDay /\ day' = day + 1 /\ UNCHANGED <<held, out, missing, late, good, board, saved>>

\* A new process has no prices in memory.
Restart ==
  good' = [w \in DOMAIN good |-> 0] /\ UNCHANGED <<held, day, out, missing, late, board, saved>>

Troubles(S) == UNION {kSubset(k, S) : k \in 0 .. MaxOut[Cardinality(held)]}

Next ==
  \/ \E o \in Troubles(UNION {SourcesOf(h) : h \in held}),
        m \in Troubles({h.symbol : h \in held} \cup {h.to : h \in held}),
        l \in Troubles({h.symbol : h \in Of("stock")}) : Answer(o, m, l)
  \/ CreateBoard \/ RefreshBoard
  \/ \E section \in Sections : RefreshSection(section)
  \/ \E h \in Of("wallet") : RefreshWallet(h)
  \/ SaveDirect \/ SaveBoard \/ Tomorrow \/ Restart

Spec == Init /\ [][Next]_vars

-----------------------------------------------------------------------------
(* Properties *)

\* The holdings that the paths are known to value differently even when every source
\* answers: a coin the exchange has no price of, a token the board does not ask for, a
\* coin without the price it should be typed, or linked to a symbol without a market, or
\* without a source: the direct path falls back on the market of the coin's own symbol.
Unlike(h) == \/ h.kind = "exchange" /\ h.via # "priced"
             \/ h.kind = "wallet" /\ h.symbol \notin Listed
             \/ h.via = "unsourced" \/ (h.via = "manual" /\ h.to # "typed")
             \/ h.via = "binance" /\ h.to \notin Coins \cup Gecko

\* Whatever fails, a holding that both paths can value from what the sources say now is
\* worth the same on the board and in a snapshot, and with nothing failing both or neither
\* value it
\* ("compute_and_save_snapshot ile ayni formul", live_cache.py).
PathsAgree ==
  \A h \in held :
    LET d == Enriched(Gathered(h), NoPrices)
        b == BoardLine(h)
    IN  /\ RatesResolved /\ Valued(d) /\ Valued(b) => d.price = b.price
        /\ out = {} /\ missing = {} /\ ~Unlike(h) => (Valued(d) <=> Valued(b))

\* A snapshot taken directly never loses a holding without a note, except for a stock
\* without a quote ("gorunmez kayip onleme", snapshot.py).
GapsNamed ==
  \A d \in 1 .. MaxDay : saved[d].by = "direct" =>
    \A l \in saved[d].lines : Valued(l) \/ l.notes # {} \/ (l.h.kind = "stock" /\ ~l.there)

\* A price that was old already when its line was made is never in a snapshot without the
\* note that says so, whether the line was made for the snapshot or came from the board,
\* except for what TEFAS and CoinGecko are remembered to have said, and the board's own rate
\* of the dollar.
OldPricesNamed ==
  \A d \in 1 .. MaxDay : \A l \in saved[d].lines :
    \A p \in l.price :
      p.day < l.on /\ p.of \notin Funds \cup Gecko /\ ~(saved[d].by = "board" /\ p.of = "USD")
        => "stale_price" \in l.notes

\* A snapshot from the board is of the board of that day ("Cagiran taze cache oldugunu
\* (is_stale=False) garanti etmelidir", live_cache.py): refuted, since any board is saved
\* ("bayat olsa bile", portfolio.py), and since a section that is refreshed makes the others
\* look fresh.
BoardsOfTheDay ==
  \A d \in 1 .. MaxDay : saved[d].by = "board" => \A l \in saved[d].lines : l.on = d

\* Whatever fails, a snapshot that is taken directly tells what it lacks, and any snapshot
\* what in it was old when it was looked up.
PricesTold == GapsNamed /\ OldPricesNamed

\* Every position shows the quantity of its own row ("yanlis fon-miktar eslesmesi olmaz",
\* tefas.py).
OwnQuantities == \A d \in 1 .. MaxDay : \A l \in saved[d].lines : l.amount = l.h.id
=============================================================================
