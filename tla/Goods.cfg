SPECIFICATION Spec
CONSTANTS
 c1 = c1
 c2 = c2
 c3 = c3
 c4 = c4
 shelf = shelf
 plant = plant
 vendorBin = vendorBin
 Call = {c1,c2,c3}
 Bin = {shelf, plant, vendorBin}
 Opening <- MCOpening
 Settings <- MCSettings
 Uom = {"piece", "box"}
 Factor <- MCFactor
 BaseUom = "piece"
 Rate <- MCRate
 Cess <- MCCess
 Price <- MCPrice
 ReverseLimit = 500000
 Base = 36
 Code <- MCCode
 Tenders <- MCTenders
 Invoices <- MCInvoices
 Trips <- MCTrips
 Ledgers = {1, 2, 3}
 Postings = {1, 2, 3}
 PostingOf <- MCPostingOf
 Questions <- MCQuestions
 EndCall = {c1, c2, c3, c4}
 EndSettings <- MCEndSettings
 Income = {"sales"}
 Expense = {"rent"}
 LastDay = 2
 DeprCall = {c1, c2, c3, c4}
 DeprSettings <- MCDeprSettings
 FxCall = {c1, c2, c3, c4}
 FxSettings <- MCFxSettings
 Day = 3
 LastTick = 4
CHECK_DEADLOCK FALSE
INVARIANTS
 StockAddsUp
 ServicesAddUp
 ChargedIsDeclared
 ReportsAddUp
 ClosingAddsUp
 DepreciationAddsUp
 RevaluationAddsUp
