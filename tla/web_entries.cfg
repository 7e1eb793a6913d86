SPECIFICATION Spec
CONSTANTS
    withKid = withKid
    plain = plain
    kidOf = kidOf
    unitA = unitA
    unitB = unitB
    None = none
    Activities = {withKid, plain}
    Kids <- MCKids
    Unit <- MCUnit
    Days = {d1, d2}
    Today = d1
    MaxMounts = 1
    MaxOpenings = 2
    MaxRequests = 2
    MaxFailures = 1
    Texts = {a, b}
    MaxWrites = 2
    MaxVersion = 3
    TimeRows = {t1}
    ExpenseRows = {}
    Roles = {"manager", "finance", "hr", "employee"}
    Dates = {1, 2}
    MaxDays = 1
    MaxDownloads = 2
    Items <- MCItems
    PageSize = 1
INVARIANTS TypeOK StoredOncePerReport OwnWritesShown ClearMeansLoaded PageNeverEmpty
PROPERTIES SpinnersStop
CHECK_DEADLOCK FALSE
