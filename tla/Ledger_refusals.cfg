SPECIFICATION Spec
CONSTANTS
    Request = {"rent", "purchase"}
    Key = {"k1", "k2"}
    Tenant = {1}
    Year = {2024, 2025}
    Account = {4, 5, 6, 7}
    Input <- PaymentsInput
    Translated <- PaymentsTranslated
    Owner <- MCOwner
    NoTenant = NoTenant
    Opening <- MCOpening
    OpeningBalance <- MCOpeningBalance
    Nobody = Nobody
    Int8Parsed = FALSE
PROPERTIES
    RefusalIsJustified
