SPECIFICATION Spec
CONSTANTS
    Call = {c1, c2}
    Task = {t1, t2}
    Invoice = {i1}
    Bill = {b1}
    MaxAttempts = 2
    ParamsTyped = TRUE
    ErrorsAreJson = TRUE
    Nobody = Nobody
CHECK_DEADLOCK FALSE
INVARIANTS
    OneActivePerOperation
    GeneratedIsRegistered
    NoItemIsLost
    AttemptsAreBounded
    SubmissionIsAtomic
PROPERTIES
    ResultsAreAtomic
