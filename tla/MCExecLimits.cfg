CONSTANTS
    Coroutines = {c1, c2}
    Main = main
    Contexts = {x}
    NoContext = nil
    Limits = {3}
    finGCPoll = 2
    MaxNesting = 2
    MaxBudgets = 1
    MaxExecuted = 6
SPECIFICATION Spec
SYMMETRY Symmetry
INVARIANTS BudgetAccounts CapWithSlack CancelStopsEveryThread
