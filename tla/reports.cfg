CONSTANTS
    Requests = {r1, r2}
    Gens = {1, 2}
    Tables = {A, B}
    HistoryKeep = 2
    Budgets <- MCBudgets
SPECIFICATION Spec
INVARIANTS
    ToldIsShown
    DetailIsOneTable
    
PROPERTY
    DashboardCatchesUp
CHECK_DEADLOCK FALSE
