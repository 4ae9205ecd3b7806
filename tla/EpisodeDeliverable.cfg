CONSTANTS
    InitialBudget = 2
    MaxBudget = 2
    GrantBound = 0
SPECIFICATION Spec
PROPERTIES DeliverableSurvives
