SPECIFICATION MCSpec
CONSTANTS
  RecurringIncomes = {i1}
  PlannedExpenses = {x1}
  None = None
  Templates <- MCTemplates
  Days <- MCDays
  EntryDates <- MCEntryDates
  Months <- MCMonths
  MaxEntries = 2
  Subscriptions = {s1}
  BillMonths <- MCBillMonths
  Currencies = {TRY, USD}
  Payers = {c1}
  Statements <- MCStatements
  Instalments <- MCInstalments
INVARIANTS CountedOnceNow DetailAgreesWithYear ReportsAgree BillExpensesLinked
PROPERTIES PastIsSettled
CHECK_DEADLOCK FALSE
