SPECIFICATION FairSpec
CONSTANTS
    Call = {c1, c2, c3}
    Email = {e1, e2}
    Seeded = {e1}
    Int8Parsed = TRUE
    Nobody = Nobody
CHECK_DEADLOCK FALSE
INVARIANTS
    SingleUse
    OneLivePerFamily
    RegistrationIsAtomic
PROPERTIES
    ExchangesLiveTokens
    EveryCallEnds
