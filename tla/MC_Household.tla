---------------------------- MODULE MC_Household ----------------------------
(* Instalment plans, payments of statements, exchange rates, the tables of  *)
(* holdings and what holdings are worth: they share no state, so that a     *)
(* behaviour explores one of them.                                          *)
EXTENDS CardPayments, TLC

CONSTANTS p1, p2, eur

CONSTANTS Plans, Start, Count, AnyOrder, MaxMonth
VARIABLES month, due, plans, latest
planVars == <<month, due, plans, latest>>
I == INSTANCE Instalments

ASSUME PlansAssumption ==
  /\ MaxMonth \in Nat /\ AnyOrder \in BOOLEAN
  /\ Start \in [Plans -> Nat \ {0}] /\ Count \in [Plans -> Nat]

CONSTANTS Currencies, USD, TRY, MaxDay, Quoted, Lookback, Requests, MaxDates
VARIABLES today, out, cached, asking, current
rateVars == <<today, out, cached, asking, current>>
R == INSTANCE Rates

ASSUME RatesAssumption ==
  /\ MaxDay \in Nat \ {0} /\ Lookback \in Nat
  /\ Quoted \in [1 .. MaxDay -> SUBSET Currencies]

CONSTANTS Kinds, Keys, Short, Together, MaxHoldings, MaxFile
VARIABLES kind, holdings, work
holdingVars == <<kind, holdings, work>>
H == INSTANCE Holdings WITH rows <- holdings, MaxRows <- MaxHoldings

ASSUME HoldingsAssumption ==
  /\ Kinds \subseteq {"fund", "stock", "coin", "pension", "wallet", "exchange", "metal", "cash"}
  /\ MaxHoldings \in [Kinds -> Nat]

CONSTANTS Mixes, Coins, Gecko, Funds, Listed, MaxOut, MaxSnapshots
VARIABLES held, day, failing, missing, late, good, board, saved
worthVars == <<held, day, failing, missing, late, good, board, saved>>
V == INSTANCE Valuation WITH out <- failing, MaxDay <- MaxSnapshots

\* A row as the tables have them: a fund is one TEFAS knows, and a coin's price comes from
\* somewhere.
RowFits(h) ==
  /\ h.kind \in {"exchange", "wallet", "fund", "stock", "cash", "metal", "coin", "pension"}
  /\ h.kind = "fund" => h.symbol \in Funds
  /\ h.kind = "coin" => \/ h.via \in {"auto", "manual", "commodity", "binance", "unsourced"}
                        \/ h.via = "coingecko" /\ h.to \in Gecko
                        \/ h.via = "tefas" /\ h.to \in Funds

ASSUME WorthAssumption ==
  MaxSnapshots \in Nat \ {0} /\ \A mix \in Mixes : \A h \in mix : RowFits(h)

VARIABLE part
parts == {"plans", "payments", "rates", "current", "holdings", "worth"}

MCStart == (p1 :> 1 @@ p2 :> 2)
MCCount == (p1 :> 3 @@ p2 :> 2)
MCQuoted == <<{USD, eur}, {}, {USD}>>   \* the second day is a holiday
MCMaxHoldings == [k \in Kinds |-> IF k \in {"coin", "metal"} THEN 2 ELSE 3]

\* Something of every kind: a coin an exchange has no price of, a token the board does not
\* ask for, a fund at two places, a stock in pence, coins typed, linked and followed.
MCRow(id, k, symbol, via, to) == [id |-> id, kind |-> k, symbol |-> symbol, via |-> via, to |-> to]
MCRows ==
  {MCRow(1, "exchange", "BTC", "priced", "none"), MCRow(2, "exchange", "ICPX", "unpriced", "none"),
   MCRow(3, "wallet", "BTC", "none", "none"), MCRow(4, "wallet", "PEPE", "none", "none"),
   MCRow(5, "fund", "AFO", "none", "none"), MCRow(6, "fund", "AFO", "none", "none"),
   MCRow(7, "fund", "YAC", "none", "none"),
   MCRow(8, "stock", "THYAO", "TRY", "none"), MCRow(9, "stock", "VOD", "GBp", "none"),
   MCRow(10, "cash", "EUR", "none", "none"), MCRow(11, "cash", "USD", "none", "none"),
   MCRow(12, "metal", "XAU", "none", "none"), MCRow(13, "metal", "XAG", "none", "none"),
   MCRow(14, "coin", "BTC", "auto", "none"), MCRow(15, "coin", "XAU", "auto", "none"),
   MCRow(16, "coin", "BTC", "manual", "typed"), MCRow(17, "coin", "ETH", "manual", "none"),
   MCRow(18, "coin", "GOLDX", "commodity", "XAU"), MCRow(19, "coin", "ETH", "binance", "BTC"),
   MCRow(20, "coin", "ICPX", "coingecko", "ICPX"), MCRow(21, "coin", "FON", "tefas", "AFO"),
   MCRow(22, "coin", "FON2", "tefas", "YAC"), MCRow(23, "pension", "BES-1", "none", "none"),
   MCRow(24, "coin", "ETH", "binance", "NOPE"),   \* linked to a symbol without a market
   MCRow(25, "coin", "ETH", "unsourced", "none")}
\* Rows of each kind alone, and those together that have a symbol, a source or a link in common.
MCMixes ==
  {{r} : r \in {x \in MCRows : x.id \notin {3, 6, 7, 13, 14, 21, 22}}} \cup
  {{r \in MCRows : r.id \in ids} :
     ids \in {{5, 6}, {5, 7}, {5, 22}, {21, 22}, {12, 15}, {12, 18}, {3, 16}, {14, 19},
              {8, 9}, {2, 20}}}
MCMaxOut == <<2, 1>>

MCInit == /\ Init /\ I!Init /\ R!Init /\ H!Init /\ V!Init /\ part \in parts
          /\ (part # "holdings" => kind = "cash") /\ (part # "worth" => held = {MCRow(10, "cash", "EUR", "none", "none")})
MCNext ==
  /\ UNCHANGED part
  /\ \/ part = "plans" /\ I!Next /\ UNCHANGED <<vars, rateVars, holdingVars, worthVars>>
     \/ part = "payments" /\ Next /\ UNCHANGED <<planVars, rateVars, holdingVars, worthVars>>
     \/ /\ part = "rates" /\ R!Next /\ current' = current
        /\ UNCHANGED <<planVars, vars, holdingVars, worthVars>>
     \/ /\ part = "current" /\ R!Next /\ cached' = cached /\ asking' = asking
        /\ UNCHANGED <<planVars, vars, holdingVars, worthVars>>
     \/ part = "holdings" /\ H!Next /\ UNCHANGED <<planVars, vars, rateVars, worthVars>>
     \/ part = "worth" /\ V!Next /\ UNCHANGED <<planVars, vars, rateVars, holdingVars>>
allVars == <<planVars, vars, rateVars, holdingVars, worthVars, part>>
MCSpec == MCInit /\ [][MCNext]_allVars

RequestSymmetry == Permutations(Requests) \cup Permutations(Clients)

\* The types; what the tables of holdings have besides: addresses whole and once, and
\* files that restore what they were made of.
TypesOK ==
  /\ TypeOK /\ I!TypeOK
  /\ H!TypeOK /\ H!AddressesWhole /\ H!FilesRestore

SlicesCountedOnce == I!SlicesCountedOnce
PlansEndOnTime == I!PlansEndOnTime

\* Days are cached whole, reports value a record at its day's rate, and the stand-ins for
\* a rate that is missing are the same wherever there are any.
RatesAgree == R!CachedWhole /\ R!ShownAtItsDay /\ R!FallbacksAgree

KeysKept == H!KeysKept
PathsAgree == V!PathsAgree
PricesTold == V!PricesTold
OwnQuantities == V!OwnQuantities
=============================================================================
