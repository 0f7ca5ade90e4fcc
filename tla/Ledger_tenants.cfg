SPECIFICATION Spec
CONSTANTS
    Request = {"ours", "theirs", "unbalanced", "trifle", "unknown"}
    Key = {"k1", "k2"}
    Tenant = {1, 2}
    Year = {2025}
    Account = {5, 6, 9, 15, 19}
    Input <- TenantsInput
    Translated <- TenantsTranslated
    Owner <- MCOwner
    NoTenant = NoTenant
    Opening <- MCOpening
    OpeningBalance <- MCOpeningBalance
    Nobody = Nobody
    Int8Parsed = FALSE
INVARIANTS
    AnswersAreDurable
    BooksAddUp
