SPECIFICATION Spec
CONSTANTS
 c1 = c1
 c2 = c2
 c3 = c3
 c4 = c4
 OcrCall = {c1, c2, c3, c4}
 OcrSettings <- MCOcrSettings
 OldScans <- MCOldScans
 OldExtractions <- MCOldExtractions
 OldVendors <- MCOldVendors
 InputTax <- MCInputTax
 BankCall = {c1, c2, c3, c4}
 BankSettings <- MCBankSettings
 BankLedger = 9
 CacheCall = {c1, c2, c3, c4}
 CacheSettings <- MCCacheSettings
 ScanCount = 2
 TimeSteps = {36, 85}
 LastSecond = 160
 Hit = {h1, h2, h3}
 Limiters <- MCLimiters
 PerSecond = 2
 LastTick = 5
 TallySettings <- MCTallySettings
 TallyElement = {1, 2, 3, 4}
SYMMETRY MCHits
CHECK_DEADLOCK FALSE
INVARIANTS
 ReviewIsConsistent
 StatementsAreMirrored
 CacheForgets
 LimitsHold
 
