SPECIFICATION FairSpec
CONSTANTS
    Call = {c1, c2}
    Task = {t1, t2}
    Invoice = {i1}
    Bill = {}
    MaxAttempts = 2
    ParamsTyped = TRUE
    ErrorsAreJson = TRUE
    Nobody = Nobody
CHECK_DEADLOCK FALSE
PROPERTIES
    EveryProcessEnds
