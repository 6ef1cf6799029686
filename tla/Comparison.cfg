\* Two runs with three rows between them; two promotes, at once or one after the other.
SPECIFICATION BaselineSpec
CONSTANTS
    old = old
    new = new
    promotesOld = promotesOld
    promotesNew = promotesNew
    case1 = case1
    case2 = case2
    varA = varA
    varB = varB
    judge = judge
    None = none
    Runs = {old, new}
    Rows <- SomeRows
    Promoters = {promotesOld, promotesNew}
    Target <- OldAndNew
    MaxRows = 3
    MaxPromotes = 2
INVARIANTS ReportAddsUp
PROPERTIES PromoteIsAtomic
CHECK_DEADLOCK FALSE
