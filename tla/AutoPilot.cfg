CONSTANTS
    Services = {1, 2}
    Signatures = {"x", "y"}
    InitialBudgets <- MCBudgets
    Extras = {1}
    TopUpBound = 1
SPECIFICATION FairPilotSpec
INVARIANTS WithinBudget DoneMeansSettled GreenIsProbed
PROPERTIES PilotSettles
