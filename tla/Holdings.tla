------------------------------- MODULE Holdings -------------------------------
(***************************************************************************)
(* The tables of what a user holds: funds, stocks, pension plans, coins    *)
(* kept by hand, metals, cash, wallet addresses and exchange keys          *)
(* (api/v1/tefas.py, stocks.py, bes.py, manual_crypto.py, commodity.py,    *)
(* cash.py, wallets.py, integrations.py).                                  *)
(*                                                                         *)
(* The endpoints differ in which of create, update, delete, save all,      *)
(* export and import they have, and in whether an import replaces, adds or *)
(* updates. One table of one user, of any of the kinds, is modelled.       *)
(*                                                                         *)
(* A request that replaces rows finds those to delete when it begins       *)
(* (READ COMMITTED) and commits at the end: a step of its own each.        *)
(***************************************************************************)
EXTENDS Integers, FiniteSets

CONSTANTS
  Kinds,     \* the tables explored, of AllKinds
  Keys,      \* codes, tickers, plans, symbols, addresses, providers
  Short,     \* those that mask_address leaves as they are, when they are addresses
  Clients,   \* requests of the user that may overlap
  Together,  \* bound: the tables with more than one request under way at a time
  MaxRows,   \* bound: rows of each table
  MaxFile    \* bound: rows of a file or of a list that is saved, 1 or 2

VARIABLES
  kind,    \* which table it is
  rows,    \* its rows by id
  work     \* the request each client has under way

vars == <<kind, rows, work>>

Idle == [list |-> "none"]   \* no request

Init == kind \in Kinds /\ rows = << >> /\ work = [c \in Clients |-> Idle]

-----------------------------------------------------------------------------
(* Rows. "none" is NULL, or an empty cell. *)

Priced == [key : Keys, cost : {"none", "paid", "market"}, agency : {"none", "broker"}]

\* A coin's price may be typed as 0; linked_source (via) and linked_id (to) are columns
\* of their own.
CoinCells == [key : Keys, source : {"auto", "manual", "linked"}, price : {"none", "zero", "typed"},
              via : {"none", "source"}, to : {"none", "asset"}]
HeldCoins ==
  {h \in CoinCells : /\ h.source # "manual" => h.price = "none"
                     /\ h.source # "linked" => h.via = "none" /\ h.to = "none"}

\* Metals by the gram, or by BiGA codes or types of coins, which their unit needs.
MetalCells == [key : Keys, unit : {"gram", "biga", "coin"}, biga : {"none", "code"},
               coin : {"none", "type"}, amount : {1, 2}]
Metals == {h \in MetalCells : /\ h.unit = "biga" => h.biga = "code"
                              /\ h.unit = "coin" => h.coin = "type"}

PensionPlans == [key : Keys, worth : {"nothing", "something"}]
Addresses == [key : Keys, text : {"whole", "masked"}]
ApiKeys == [key : Keys, secret : {"none", "secret"}]
Balances == [key : Keys, amount : {1, 2}]

Holding ==
  CASE kind \in {"fund", "stock"} -> Priced
    [] kind = "coin" -> HeldCoins
    [] kind = "pension" -> PensionPlans
    [] kind = "wallet" -> Addresses
    [] kind = "exchange" -> ApiKeys
    [] kind = "metal" -> Metals
    [] kind = "cash" -> Balances

\* What a client may send: nobody types an address that is masked, nor the price of the
\* day as the cost.
Typed == {h \in Holding : /\ kind \in {"fund", "stock"} => h.cost # "market"
                          /\ kind = "wallet" => h.text = "whole"}

\* Half a link is none.
Whole(x) == x.via # "none" /\ x.to # "none"

\* What a coin is worth: that of its key, or what is typed or linked, if it is.
\* _resolve_unit_price, _price_linked
HasPrice(h) == (h.source = "manual" => h.price = "typed") /\ (h.source = "linked" => Whole(h))
CoinWorth(h) == [of |-> h.key, source |-> h.source, known |-> HasPrice(h)]

\* What a metal is worth, by its unit: calculate_holding_value.
MetalWorth(h) ==
  [of |-> h.key, amount |-> h.amount, unit |-> h.unit,
   code |-> CASE h.unit = "gram" -> "none" [] h.unit = "biga" -> h.biga [] h.unit = "coin" -> h.coin]

Contents == {rows[i] : i \in DOMAIN rows}
Ids == 1 .. MaxRows[kind]
Busy == {c \in Clients : work[c] # Idle}
Seen == UNION {DOMAIN work[c].seen : c \in Busy}
Spare == (Ids \ DOMAIN rows) \ Seen

\* Rows that a request has deleted and not committed: whoever wants them waits. Exchange
\* keys are only read.
Locked == IF kind = "exchange" THEN {} ELSE Seen

-----------------------------------------------------------------------------
(* Files: what an export writes, and what the import makes of a row of one. *)

\* A cell each for what a row holds, and for the price of the day, if there is one:
\* _write_tefas_export_row, _write_stock_export_row.
PricedCells(h, quoted) ==
  [key |-> h.key, quote |-> IF quoted THEN "market" ELSE "none", cost |-> h.cost, agency |-> h.agency]

FundFile(quoted) == {PricedCells(h, quoted) : h \in Contents}
StockFile(quoted) == {PricedCells(h, quoted) : h \in Contents}
PensionFile == Contents
MetalFile == Contents
KeyFile == Contents

\* export_manual_crypto: a price of 0 is an empty cell.
CoinFile == {[h EXCEPT !.price = IF @ = "zero" THEN "none" ELSE @] : h \in Contents}

\* _build_wallets_xlsx
WalletFile(full) ==
  {[h EXCEPT !.text = IF full \/ h.key \in Short THEN h.text ELSE "masked"] : h \in Contents}

\* _parse_tefas_import_row: the fourth column is the cost. Its broker is read, and not
\* stored.
ReadFund(x) == {[key |-> x.key, cost |-> x.quote, agency |-> "none"]}

\* _parse_stock_import_row
ReadStock(x) == {[key |-> x.key, cost |-> x.quote, agency |-> x.agency]}

\* _parse_bes_row
ReadPension(x) == IF x.worth = "nothing" THEN {} ELSE {x}

\* A coin has the price or the link that goes with its source: create_manual_crypto.
Sourced(x) ==
  [key |-> x.key, source |-> x.source,
   price |-> IF x.source = "manual" THEN x.price ELSE "none",
   via |-> IF x.source = "linked" THEN x.via ELSE "none",
   to |-> IF x.source = "linked" THEN x.to ELSE "none"]

\* _resolve_linked_import
WithLink(x, whole) ==
  [x EXCEPT !.via = IF whole THEN @ ELSE "none", !.to = IF whole THEN @ ELSE "none"]

\* mutant: a link is read only from a row that has a price too
ReadCoin_price(x) == {Sourced(WithLink(x, Whole(x) /\ x.price # "none"))}

\* _parse_import_row with _manual_price_or_none
ReadCoin(x) == {Sourced(WithLink([x EXCEPT !.price = IF @ = "zero" THEN "none" ELSE @], Whole(x)))}

\* _parse_commodity_row with _resolve_metal_type: what the unit has no use for is dropped.
ReadMetal(x) ==
  {[y EXCEPT !.biga = IF y.unit = "biga" THEN @ ELSE "none",
             !.coin = IF y.unit = "coin" THEN @ ELSE "none"] : y \in {x} \cap Metals}

\* _parse_wallet_row, _parse_integration_row
ReadWallet(x) == {x}
ReadKey(x) == {x}

\* The rows a file can have: an export's, with what the user changed in them.
PricedRows == [key : Keys, quote : {"none", "market"}, cost : {"none", "paid"}, agency : {"none", "broker"}]
CoinRows == CoinCells
MetalRows == MetalCells

-----------------------------------------------------------------------------
(* Rows taken away, and rows added under fresh ids; which, says nothing. *)

Without(ids) == [i \in DOMAIN rows \ ids |-> rows[i]]
Room(list) == Cardinality(list) <= Cardinality(Spare)
Fresh(list) == CHOOSE f \in [list -> Spare] : \A x, y \in list : f[x] = f[y] => x = y
With(old, f) ==
  [i \in DOMAIN old \cup {f[h] : h \in DOMAIN f} |->
     IF i \in DOMAIN old THEN old[i] ELSE CHOOSE h \in DOMAIN f : f[h] = i]

-----------------------------------------------------------------------------
(* One row at a time *)

\* uq_wallet_user_chain_fp: an address is there once.
Taken(h, others) == kind = "wallet" /\ \E i \in DOMAIN others : others[i] = h

Add(h) == Room({h}) /\ rows' = With(rows, Fresh({h})) /\ UNCHANGED <<kind, work>>

Remove(i) ==
  /\ i \in DOMAIN rows \ Locked
  /\ rows' = Without({i}) /\ UNCHANGED <<kind, work>>

\* create_commodity
CreateMetal(h) == kind = "metal" /\ Add(h)

\* create_cash
CreateCash(h) == kind = "cash" /\ Add(h)

\* add_wallet
AddWallet(h) == kind = "wallet" /\ h \in Typed /\ ~Taken(h, rows) /\ Add(h)

\* create_manual_crypto
CreateCoin(x) == kind = "coin" /\ Add(Sourced(x))

\* mutant: the price typed for a row stays when its source changes
Repriced_kept(h, source, price, via, to) ==
  LET now == IF source = "none" THEN h.source ELSE source
      cell(of, given, old) == IF now = of /\ given # "none" THEN given ELSE old
  IN  [key |-> h.key, source |-> now, price |-> cell("manual", price, h.price),
       via |-> cell("linked", via, h.via), to |-> cell("linked", to, h.to)]

\* _apply_price_source_update: a source that is given clears the cells of the others; a
\* cell that is given is written if it is of the source.
Repriced(h, source, price, via, to) ==
  LET now == IF source = "none" THEN h.source ELSE source
      cell(of, given, old) ==
        IF now = of THEN IF given # "none" THEN given ELSE old
        ELSE IF source # "none" THEN "none" ELSE old
  IN  [key |-> h.key, source |-> now, price |-> cell("manual", price, h.price),
       via |-> cell("linked", via, h.via), to |-> cell("linked", to, h.to)]

\* update_manual_crypto
UpdateCoin(i, source, price, via, to) ==
  /\ kind = "coin" /\ i \in DOMAIN rows \ Locked
  /\ rows' = [rows EXCEPT ![i] = Repriced(@, source, price, via, to)]
  /\ UNCHANGED <<kind, work>>

SetAmount(i, amount) ==
  /\ i \in DOMAIN rows
  /\ rows' = [rows EXCEPT ![i].amount = amount] /\ UNCHANGED <<kind, work>>

\* update_commodity
UpdateMetal(i, amount) == kind = "metal" /\ SetAmount(i, amount)

\* update_cash
UpdateCash(i, amount) == kind = "cash" /\ SetAmount(i, amount)

\* delete_manual_crypto
DeleteCoin(i) == kind = "coin" /\ Remove(i)

\* delete_commodity
DeleteMetal(i) == kind = "metal" /\ Remove(i)

\* delete_cash
DeleteCash(i) == kind = "cash" /\ Remove(i)

\* remove_wallet
RemoveWallet(i) == kind = "wallet" /\ Remove(i)

\* The exchange's row, by its name; with two of them the request fails
\* (scalar_one_or_none).
RowsOf(key) == {i \in DOMAIN rows : rows[i].key = key}

\* add_integration
AddKey(h) ==
  /\ kind = "exchange"
  /\ \/ RowsOf(h.key) = {} /\ Add(h)
     \/ /\ \E i \in RowsOf(h.key) : RowsOf(h.key) = {i} /\ rows' = [rows EXCEPT ![i] = h]
        /\ UNCHANGED <<kind, work>>

\* remove_integration
RemoveKey(key) ==
  /\ kind = "exchange"
  /\ \E i \in RowsOf(key) : RowsOf(key) = {i} /\ rows' = Without({i})
  /\ UNCHANGED <<kind, work>>

-----------------------------------------------------------------------------
(* All rows at a time *)

\* A request begins: the rows it deletes, or updates, are those it finds now. It waits
\* for one that is deleting the same rows.
Begin(c, list) ==
  /\ c \notin Busy /\ (Busy = {} \/ kind \in Together)
  /\ work' = [work EXCEPT ![c] = [list |-> list,
       seen |-> [i \in DOMAIN rows |-> rows[i].key],
       after |-> {d \in Busy : kind # "exchange" /\ DOMAIN work[d].seen \cap DOMAIN rows # {}}]]
  /\ UNCHANGED <<kind, rows>>

\* A file without a row that can be read is answered 422, and leaves the table.
BeginImport(c, list) == list # {} /\ Begin(c, list)

\* save_tefas_holdings, save_stock_holdings, save_bes_holdings
SaveFunds(c, list) == kind = "fund" /\ Begin(c, list)
SaveStocks(c, list) == kind = "stock" /\ Begin(c, list)
SavePensions(c, list) == kind = "pension" /\ Begin(c, list)

\* The broker's report: every row has a broker, and its price is taken for the cost. (The
\* snapshot that is taken at the end is SaveSnapshot of Snapshots.)
Report == [key : Keys, cost : {"none", "market"}, agency : {"broker"}]

\* import_tefas_mkk, import_stocks_mkk
ImportFundReport(c, list) == kind = "fund" /\ list \subseteq Report /\ BeginImport(c, list)
ImportStockReport(c, list) == kind = "stock" /\ list \subseteq Report /\ BeginImport(c, list)

\* import_tefas_holdings
ImportFunds(c, file) == kind = "fund" /\ BeginImport(c, UNION {ReadFund(x) : x \in file})

\* import_stock_holdings
ImportStocks(c, file) == kind = "stock" /\ BeginImport(c, UNION {ReadStock(x) : x \in file})

\* import_bes_holdings
ImportPensions(c, file) == kind = "pension" /\ BeginImport(c, UNION {ReadPension(x) : x \in file})

\* import_manual_crypto: a file of blank rows has no error, and empties the table.
ImportCoins(c, file) == kind = "coin" /\ Begin(c, UNION {ReadCoin(x) : x \in file})

\* mutant: a file of masked addresses is taken
ImportWallets_masked(c, file) == kind = "wallet" /\ BeginImport(c, UNION {ReadWallet(x) : x \in file})

\* import_wallets: not when an address of the file is masked, whichever.
ImportWallets(c, file) ==
  /\ kind = "wallet" /\ \A x \in file : x.text # "masked"
  /\ BeginImport(c, UNION {ReadWallet(x) : x \in file})

\* import_integrations. Of two rows of a provider the last one counts.
ImportKeys(c, file) ==
  /\ kind = "exchange" /\ \A x, y \in file : x.key = y.key => x = y
  /\ BeginImport(c, UNION {ReadKey(x) : x \in file})

\* import_commodities adds to what is there.
ImportMetals(file) ==
  LET list == UNION {ReadMetal(x) : x \in file}
  IN  /\ kind = "metal" /\ Room(list)
      /\ rows' = With(rows, Fresh(list)) /\ UNCHANGED <<kind, work>>

\* The rows found at the beginning are replaced. An address that came meanwhile makes it fail.
Replace(c) ==
  LET old == Without(DOMAIN work[c].seen)
  IN  IF \E h \in work[c].list : Taken(h, old) THEN UNCHANGED rows
      ELSE rows' = With(old, Fresh(work[c].list))

\* mutant: the keys that are not in the file go
Upsert_all(c) ==
  rows' = With(Without(DOMAIN work[c].seen), Fresh(work[c].list))

\* import_integrations: a row found for a provider (by_provider) is updated; the others
\* are added. A row that is gone by then makes it fail.
Upsert(c) ==
  LET list == work[c].list
      seen == work[c].seen
      new == {h \in list : \A i \in DOMAIN seen : seen[i] # h.key}
  IN  \E hit \in [list \ new -> DOMAIN seen] :
        /\ \A h \in list \ new : seen[hit[h]] = h.key
        /\ IF \E h \in list \ new : hit[h] \notin DOMAIN rows THEN UNCHANGED rows
           ELSE rows' = With([i \in DOMAIN rows |->
                                IF \E h \in list \ new : hit[h] = i
                                THEN CHOOSE h \in list \ new : hit[h] = i ELSE rows[i]], Fresh(new))

\* The request ends, and whoever waited for it goes on.
Commit(c) ==
  /\ c \in Busy /\ work[c].after = {} /\ Room(work[c].list)
  /\ IF kind = "exchange" THEN Upsert(c) ELSE Replace(c)
  /\ work' = [d \in Clients |->
                IF d = c \/ d \notin Busy THEN Idle
                ELSE [list |-> work[d].list, seen |-> work[d].seen, after |-> work[d].after \ {c}]]
  /\ UNCHANGED kind

Lists(S) == {{}} \cup {{x} : x \in S} \cup IF MaxFile = 1 THEN {} ELSE {{x, y} : x, y \in S}

NextOne ==
  \/ \E h \in Holding : CreateMetal(h) \/ CreateCash(h) \/ AddWallet(h) \/ AddKey(h)
  \/ \E x \in CoinRows : CreateCoin(x)
  \/ \E i \in Ids :
       \/ DeleteCoin(i) \/ DeleteMetal(i) \/ DeleteCash(i) \/ RemoveWallet(i)
       \/ \E amount \in {1, 2} : UpdateMetal(i, amount) \/ UpdateCash(i, amount)
       \/ \E source \in {"none", "auto", "manual", "linked"},
            price \in {"none", "zero", "typed"}, via \in {"none", "source"}, to \in {"none", "asset"} :
            UpdateCoin(i, source, price, via, to)
  \/ \E key \in Keys : RemoveKey(key)
  \/ \E file \in Lists(MetalRows) : ImportMetals(file)

NextAll(c) ==
  \/ \E list \in Lists(Typed) : SaveFunds(c, list) \/ SaveStocks(c, list) \/ SavePensions(c, list)
  \/ \E list \in Lists(Report) : ImportFundReport(c, list) \/ ImportStockReport(c, list)
  \/ \E file \in Lists(PricedRows) : ImportFunds(c, file) \/ ImportStocks(c, file)
  \/ \E file \in Lists(CoinRows) : ImportCoins(c, file)
  \/ \E file \in Lists(Holding) : ImportPensions(c, file) \/ ImportWallets(c, file) \/ ImportKeys(c, file)
  \/ Commit(c)

Next == NextOne \/ \E c \in Clients : NextAll(c)

Spec == Init /\ [][Next]_vars

-----------------------------------------------------------------------------
(* Properties *)

\* Every row is one the columns are meant for: among the coins, one with the price or
\* the link that goes with its source only, however rows are created, updated (one field
\* at a time) and imported. Ids are given once.
TypeOK ==
  /\ kind \in Kinds
  /\ DOMAIN rows \subseteq Ids /\ \A i \in DOMAIN rows : rows[i] \in Holding
  /\ \A c \in Busy : work[c].list \subseteq Holding /\ work[c].after \subseteq Busy \ {c}

\* No address is in the table twice, nor ever a masked one in place of the address: an
\* import of the masked export would overwrite what cannot be told from it
\* (import_wallets, uq_wallet_user_chain_fp).
AddressesWhole ==
  kind = "wallet" =>
    \A i, j \in DOMAIN rows : rows[i].text = "whole" /\ (rows[i] = rows[j] => i = j)

\* Only its removal takes the key of an exchange away, whatever is imported meanwhile
\* ("dosyada olmayan entegrasyonlara DOKUNULMAZ (replace-all degil)").
KeysKept ==
  [][\A key \in Keys : kind = "exchange" /\ RowsOf(key) # {} =>
       RowsOf(key)' # {} \/ RemoveKey(key)]_vars

\* What the import reads from the export that leaves nothing out is what the table has, so
\* that a user who restores the file has what was there: for addresses and exchange keys,
\* for pension plans with anything in them, and for coins and metals up to what makes no
\* difference to their worth.
FilesRestore ==
  /\ kind = "coin" =>
       {CoinWorth(h) : h \in UNION {ReadCoin(x) : x \in CoinFile}} = {CoinWorth(h) : h \in Contents}
  /\ kind = "metal" =>
       {MetalWorth(h) : h \in UNION {ReadMetal(x) : x \in MetalFile}} = {MetalWorth(h) : h \in Contents}
  /\ kind = "wallet" => UNION {ReadWallet(x) : x \in WalletFile(TRUE)} = Contents
  /\ kind = "exchange" => UNION {ReadKey(x) : x \in KeyFile} = Contents
  /\ kind = "pension" => UNION {ReadPension(x) : x \in PensionFile} = {h \in Contents : h.worth = "something"}

\* Coins and metals come back cell by cell: refuted by half a link, a price of 0, and a
\* code kept with a unit that has no use for it.
CellsRestore ==
  /\ kind = "coin" => UNION {ReadCoin(x) : x \in CoinFile} = Contents
  /\ kind = "metal" => UNION {ReadMetal(x) : x \in MetalFile} = Contents

\* And for funds and stocks, whose import says it reads the rows of the export
\* ("Export-template Excel satirindan"; "Import sirasi: ayni template").
FundFilesRestore ==
  \A quoted \in BOOLEAN :
    /\ kind = "fund" => UNION {ReadFund(x) : x \in FundFile(quoted)} = Contents
    /\ kind = "stock" => UNION {ReadStock(x) : x \in StockFile(quoted)} = Contents
=============================================================================
