SPECIFICATION EditorSpec
CONSTANTS
    Counts = {c1, c2}
    First = c1
    NoCount = NoCount
    Elsewhere = Elsewhere
    NoData = NoData
    MaxEdits = 2
    MaxRevision = 2
INVARIANTS
    FetchedRowsCoverTheirVersion
    PostedAsReviewed
