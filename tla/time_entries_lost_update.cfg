SPECIFICATION Spec
CONSTANTS
    emp = emp
    mgr = mgr
    fin = fin
    lead = lead
    r1 = r1
    r2 = r2
    Users = {emp, mgr, fin}
    Claimants = {emp}
    OrgRole <- MCOrgRole
    Targets = {t1}
    Amounts = {1, 2}
    NoReceipt = none
    Receipts = {none}
    Entries = {e1}
    Requests = {r1, r2}
    Routes <- ManagerLed
    Aborts = FALSE
PROPERTIES ApprovedImmutable
