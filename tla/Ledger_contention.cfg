SPECIFICATION FairSpec
CONSTANTS
    Request = {"sale", "retry", "other", "foreign"}
    Key = {"k1", "k2"}
    Tenant = {1}
    Year = {2025}
    Account = {5, 6, 9, 99}
    Input <- ContentionInput
    Translated <- ContentionTranslated
    Owner <- MCOwner
    NoTenant = NoTenant
    Opening <- MCOpening
    OpeningBalance <- MCOpeningBalance
    Nobody = Nobody
    Int8Parsed = FALSE
INVARIANTS
    AccountsSerialised
    NoOverdraft
PROPERTIES
    HistoryIsFinal
    PostingIsIdempotent
    EveryRequestEnds
