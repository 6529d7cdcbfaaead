SPECIFICATION Spec
CONSTANTS
    Stocks = {s1, s2}
    Jobs = {j1, adj}
    AdjustmentJob = adj
    NoJob = NoJob
    OrderRef = OrderRef
    NoRef = NoRef
    Quantities = {2}
    DraftQuantities = {0, 1}
    MaxLines = 2
    MaxMovements = 4
    MaxCostLines = 3
SYMMETRY Symmetry
INVARIANTS
    LedgerContinuity
    JobCostCounterparts
    OwnedCostsAreLinked
    ReversalEvidence
    MaterialConserved
PROPERTY KeepsTheBook
