SPECIFICATION Spec
CONSTANTS
    None = None
    MaxRev = 2
    MaxSends = 2
    Tickets <- MCTickets
    Mine = {"t1"}
    UserRole = "manager"
    FirstRows <- MCRows
    MaxMoves = 1
    MaxTrail = 2
    Columns = {"a", "b"}
    Cards = {"1", "2", "3"}
    FirstBoard <- MCBoard
    Disablings <- MCDisablings
    Units = {"u1", "u2", "u3"}
    Callers = {x1, x2}
    FirstUnits <- MCUnits
    Top = "top"
    Absent = "absent"
    Gone = "gone"
    MaxLevel = 2
    MaxStaffed = 1
    MaxAsks = 1
    CachedTrees <- MCTrees
    Customers = {"c1", "c2"}
    Groups = {"g1", "g2"}
    Rates = {1, 2}
    MaxMade = 1
    MaxContractSends = 1
INVARIANTS TypeOK DraftsStayWithTicket CommittedIsShown EachCardOnce Acyclic FieldsBelong AcknowledgedShown LinkedContractStays
SYMMETRY AnyCaller
CONSTRAINT Apart
CHECK_DEADLOCK FALSE
