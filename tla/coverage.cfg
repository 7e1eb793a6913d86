SPECIFICATION Spec
CONSTANTS
    e1 = e1
    e2 = e2
    r1 = r1
    r2 = r2
    s1 = s1
    s2 = s2
    Entries = {e1, e2}
    Requests = {r1, r2}
    Sources = {s1, s2}
    MaxHours = 2
    Days = {1, 2, 3}
INVARIANTS TypeOK CoveredExactly ClosesDisjoint ReportedOnce
PROPERTIES FrozenAtCommit
SYMMETRY Symmetry
