----------------------------- MODULE TimeEntries -----------------------------
(* Time entries: the approval chain with the check that an entry booked on   *)
(* an activity of a dismissed customer ticket cannot be submitted.           *)
EXTENDS ApprovalChain

VARIABLE dismissed      \* the targets under a dismissed customer ticket

vars == <<table, route, req, approvals, cleared, dismissed>>

TypeOK == ChainTypeOK /\ dismissed \subseteq Targets

Init == ChainInit /\ dismissed = {}

(* IsLinkedTicketDismissed, between the read of the entry and the routing.   *)
SubmitTicketCheck(r) ==
    /\ At(r, "submit", "ticket")
    /\ \/ req[r].row.target \in dismissed /\ Refuse(r)
       \/ /\ req[r].row.target \notin dismissed
          /\ Advance(r, "route", req[r].row.status)

(* Tickets are dismissed, and activities come to and leave them: created,     *)
(* moved to another parent, deleted (TicketGuard has the steps).              *)
DismissedBecomes(ts) ==
    /\ dismissed' = ts
    /\ UNCHANGED chainVars

(* One statement of one request.                                             *)
Statement ==
    \/ \E u \in Users, i \in Entries, t \in Targets, a \in Amounts :
          \/ Create(u, i, t, a)
          \/ \E r \in Requests : UpdateRead(r, u, i, t, a)
    \/ \E r \in Requests, u \in Users, i \in Entries :
          \/ DeleteRead(r, u, i)
          \/ SubmitRead(r, u, i, "ticket")
          \/ ApproveRead(r, u, i)
          \/ RejectRead(r, u, i)
    \/ \E r \in Requests :
          \/ SubmitTicketCheck(r)
          \/ SubmitRoute(r)
          \/ ApproveRoute(r)
          \/ Write(r)
          \/ Erase(r)
          \/ Record(r)
          \/ Abort(r)
    \/ \E t \in Targets, x \in Routes : Reroute(t, x)

Next ==
    \/ Statement /\ UNCHANGED dismissed
    \/ \E ts \in SUBSET Targets : DismissedBecomes(ts)

Spec == Init /\ [][Next]_vars
=============================================================================
