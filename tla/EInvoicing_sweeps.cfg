SPECIFICATION Spec
CONSTANTS
    Call = {c1}
    Task = {t1, t2}
    Invoice = {}
    Bill = {b1}
    MaxAttempts = 7
    ParamsTyped = FALSE
    ErrorsAreJson = FALSE
    Nobody = Nobody
CHECK_DEADLOCK FALSE
PROPERTIES
    FinishedItemsAreNotPosted
