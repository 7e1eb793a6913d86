SPECIFICATION Spec
CONSTANTS
    emp = emp
    mgr = mgr
    fin = fin
    r1 = r1
    q1 = q1
    t1 = t1
    a0 = a0
    a1 = a1
    a2 = a2
    Users = {emp, mgr, fin}
    Claimants = {emp}
    OrgRole <- MCOrgRole
    Targets = {a0, a1}
    Amounts = {1}
    NoReceipt = none
    Receipts = {none}
    Entries = {e1}
    Requests = {r1}
    Routes <- AnyManager
    Aborts = FALSE
    Tickets = {t1}
    TicketRequests = {q1}
    Existing = {a0}
PROPERTIES NeverSubmittedUnderDismissed
