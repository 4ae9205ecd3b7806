CONSTANTS
    InitialBudget = 2
    MaxBudget = 3
    GrantBound = 1
SPECIFICATION FairSpec
INVARIANTS BudgetDiscipline ObjectiveSuccessIsEarned NegativeLabelNeedsRejection EveryEndIsDecided
PROPERTIES SoftSignalsNeverRescue CancelEnds WaitsOnlyOnOperator
