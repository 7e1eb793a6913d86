----------------------------- MODULE MCExpenses -----------------------------
(* A small organization for TLC, as in MCTimeEntries, with one receipt.      *)
EXTENDS Expenses, TLC

CONSTANTS emp, mgr, fin, r1, r2

MCOrgRole ==
    [u \in Users |-> CASE u = mgr -> "manager" [] u = fin -> "finance"
                       [] OTHER -> "employee"]

LedBy(u) == [kind |-> "approvers", approvers |-> {u}]
ManagerLed == {LedBy(mgr)}

Symmetry == Permutations({r1, r2})

(* Nothing reads the approval records: states that differ only there behave  *)
(* alike for every property that does not mention them.                      *)
WithoutTrail == <<table, route, req, cleared>>
=============================================================================
