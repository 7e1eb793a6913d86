---------------------------- MODULE MCTicketGuard ----------------------------
(* One ticket, one activity that was there before and two that can be created *)
(* for the ticket, below one another or elsewhere.                            *)
EXTENDS TicketGuard, TLC

CONSTANTS emp, mgr, fin, r1, q1, t1, a0, a1, a2

MCOrgRole ==
    [u \in Users |-> CASE u = mgr -> "manager" [] u = fin -> "finance"
                       [] OTHER -> "employee"]

AnyManager == {[kind |-> "roleGated", approvers |-> {}]}

(* Nothing reads the approval records and what the stages reviewed.           *)
WithoutReviews ==
    <<table, route, req, ticket, plans, treq, link, parent, linking, moving, held>>

Symmetry == Permutations({a1, a2})
=============================================================================
