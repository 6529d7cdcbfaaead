SPECIFICATION CountSpec
CONSTANTS
    Stocks = {s1, s2}
    Jobs = {adj}
    AdjustmentJob = adj
    NoJob = NoJob
    OrderRef = OrderRef
    NoRef = NoRef
    Quantities = {1, 2}
    DraftQuantities = {}
    MaxLines = 2
    MaxMovements = 4
    MaxCostLines = 3
    Counts = {c1, c2}
    NoCount = NoCount
    Found = Found
    NotCounted = NotCounted
    PhysicalQuantities = {0, 1}
    Issued = {1}
    MaxSaves = 1
SYMMETRY Symmetry
INVARIANTS
    NothingMovedSinceCount
    StocktakeEvidence
