SPECIFICATION Spec
CONSTANTS
 p1 = p1
 p2 = p2
 p3 = p3
 p4 = p4
 PayCall = {p1, p2, p3, p4}
 PaySettings <- MCPaySettings
 Staff <- MCStaff
 TermsOf <- MCTermsOf
 PayHead <- MCPayHead
 Contracts <- MCContracts
 Terms <- MCTerms
 Working = 22
 BillCall = {p1, p2, p3, p4}
 BillSettings <- MCBillSettings
 OldBills <- MCOldBills
 CreditLimit = 90
 CostCall = {p1, p2, p3}
 CostSettings <- MCCostSettings
 TdsCall = {p1, p2, p3, p4}
 TdsSettings <- MCTdsSettings
 ProvCall = {p1, p2, p3, p4}
 ProvSettings <- MCProvSettings
 DaysInYear = 365
 Absence = {0, 1, 2, 7, 44, 45, 99}
 LastSlabTo = 999999999
 Caller = {p1, p2, p3, p4}
 PoolSettings <- MCPoolSettings
 NoContext = 0
CHECK_DEADLOCK FALSE
PROPERTIES
 OnlyComputedIsApproved
