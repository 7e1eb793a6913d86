SPECIFICATION Spec
CONSTANTS
    t1 = t1
    q1 = q1
    q2 = q2
    q3 = q3
    Tickets = {t1}
    TicketRequests = {q1, q2, q3}
INVARIANTS TypeOK PlannedOnce
PROPERTIES OnlyMatrixMoves
