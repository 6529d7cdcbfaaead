SPECIFICATION Spec
CONSTANTS
    l1 = l1
    l2 = l2
    c1 = c1
    c2 = c2
    NoLine = NoLine
    NoAsk = NoAsk
    Lines = {l1, l2}
    Clients = {c1, c2}
    Quantities = {10, 20}
    NoParcel = NoParcel
    Parcels <- MCParcels
    MaxVersion = 3
    MaxReceipts = 3
    MaxLost = 1
SYMMETRY Symmetry
INVARIANTS
    ReceivedIsWhatStands
PROPERTIES
    AcceptedAsSeen
    CompletesExactly
CHECK_DEADLOCK FALSE
