SPECIFICATION Spec
CONSTANTS
    a1 = a1
    a2 = a2
    i1 = i1
    x1 = x1
    x2 = x2
    h1 = h1
    Asks = {a1, a2}
    Imports = {i1}
    Runs = {x1, x2}
    Renames = {h1}
    Untitled = Untitled
    None = None
    Take = 3
    Scenarios <- MCScenarios
INVARIANTS
    GivenForOwnQuestion
    HistoryAndMessageAgree
PROPERTIES
    RepairsSettled
