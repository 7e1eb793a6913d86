---------------------------- MODULE MCTimeEntries ----------------------------
(* A small organization for TLC: an employee who logs time, a manager and a  *)
(* finance user; working groups led by the manager or by the employee.       *)
EXTENDS TimeEntries, TLC

CONSTANTS emp, mgr, fin, lead, r1, r2

MCOrgRole ==
    [u \in Users |-> CASE u = mgr -> "manager" [] u = fin -> "finance"
                       [] OTHER -> "employee"]

LedBy(u) == [kind |-> "approvers", approvers |-> {u}]
RoleGated == [kind |-> "roleGated", approvers |-> {}]
NotLoggable == [kind |-> "notLoggable", approvers |-> {}]

ManagerLed == {LedBy(mgr)}
EmployeeLed == {LedBy(lead)}
ManagerOrOwner == {LedBy(mgr), LedBy(emp)}
AllRoutes == {LedBy(mgr), LedBy(emp), RoleGated, NotLoggable}

Symmetry == Permutations({r1, r2})

(* Nothing reads the approval records: states that differ only there behave  *)
(* alike for every property that does not mention them.                      *)
WithoutTrail == <<table, route, req, cleared, dismissed>>
=============================================================================
