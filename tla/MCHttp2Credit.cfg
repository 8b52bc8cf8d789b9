SPECIFICATION CreditSpec
CONSTANTS
    None = None
    Ids = {1, 3}
    InitialWindow = 2
    WINDOW_MAX = 3
    LeftOut = {"start", "held"}
    Scenarios <- CreditScenarios
INVARIANTS
    ConfirmedIsReal
CHECK_DEADLOCK FALSE
