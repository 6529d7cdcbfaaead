CONSTANTS
    Last = 4
    Finish = 3
    Lunch = 2
    Times = {2}
    Pauses = {2}
    Entries = {e1, e2}
    Made = Made
    Hours = {2}
SPECIFICATION Spec
SYMMETRY Symmetry
INVARIANTS NothingPaidTwice GeneralWorkIsTheRest
PROPERTIES RestKeepsItsApproval ApprovedIsUnchanged SweptIsFinished
