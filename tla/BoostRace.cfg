SPECIFICATION Spec
CONSTANTS
    Target = {t1, t2, t3}
    NoTarget = NoTarget
    Previous = t1
    MaxConnect = 2
INVARIANTS
    NothingLeftBehind
    BudgetHeld
    OutcomeEarned
PROPERTIES
    ImplementsOutcome
CHECK_DEADLOCK FALSE
