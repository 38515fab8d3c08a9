SPECIFICATION MCSpec
CONSTANTS
  p1 = p1
  p2 = p2
  Plans = {p1, p2}
  Start <- MCStart
  Count <- MCCount
  AnyOrder = FALSE
  MaxMonth = 4
  Clients = {c1, c2}
  MaxRows = 2
  MaxEdits = 1
  eur = eur
  USD = USD
  TRY = TRY
  Currencies = {USD, eur}
  MaxDay = 3
  Quoted <- MCQuoted
  Lookback = 1
  Requests = {r1, r2}
  MaxDates = 2
  Kinds = {"fund", "stock", "coin", "pension", "wallet", "exchange", "metal", "cash"}
  Keys = {k1, k2}
  Short = {k2}
  Together = {"wallet", "exchange"}
  MaxHoldings <- MCMaxHoldings
  MaxFile = 1
  Mixes <- MCMixes
  Coins = {"BTC", "ETH", "PEPE"}
  Gecko = {"ICPX"}
  Funds = {"AFO", "YAC"}
  Listed = {"BTC", "ETH"}
  MaxOut <- MCMaxOut
  MaxSnapshots = 2
INVARIANTS TypesOK SlicesCountedOnce PlansEndOnTime OwedOnce RatesAgree PathsAgree PricesTold
PROPERTIES KeysKept
SYMMETRY RequestSymmetry
CHECK_DEADLOCK FALSE
