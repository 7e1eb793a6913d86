------------------------------- MODULE Expenses -------------------------------
(* Expenses: the expense service's own copy of the approval chain.  It has no *)
(* check for dismissed tickets, and it has two more writers of the row: the   *)
(* receipt upload, which its owner or any approver may run at any status, and *)
(* the recalculation of the mileage, which sets amounts at any status.        *)
EXTENDS ApprovalChain

Init == ChainInit

(* SetReceiptURL: read the row, change the copy's receipt; the write that     *)
(* follows is the same full-row Update.                                       *)
SetReceiptURL(r, u, i, url) ==
    /\ table[i] # Absent
    /\ IsOwner(table[i], u) \/ OrgRole[u] \in {"manager", "finance"}
    /\ Start(r, "receipt", u, i, "write", [table[i] EXCEPT !.receipt = url])

(* The handlers of the expense service, statement by statement.               *)
CreateExpense(u, i, t, a) == Create(u, i, t, a)
UpdateExpense(r, u, i, t, a) == UpdateRead(r, u, i, t, a)
DeleteExpense(r, u, i) == DeleteRead(r, u, i)
SubmitExpense(r, u, i) == SubmitRead(r, u, i, "route")
ApproveExpense(r, u, i) == ApproveRead(r, u, i)
RejectExpense(r, u, i) == RejectRead(r, u, i)
WriteExpense(r) == Write(r) \/ Erase(r)
RecordExpense(r) == Record(r)

(* What the stages had passed of the row as it stands, with another amount.    *)
CarriedOver(i, a) ==
    {[c EXCEPT !.amount = a] :
        c \in {d \in cleared : /\ d.id = i /\ d.target = table[i].target
                              /\ d.amount = table[i].amount}}

(* RecalculateMileage: one UPDATE that a finance user asks for sets the       *)
(* amounts of all expenses under a contract that have a distance, those that  *)
(* are approved or deleted too.  Which rows it finds (is) and what distance   *)
(* times rate gives is left open.                                             *)
RecalculateMileage(u, is, amount) ==
    /\ OrgRole[u] = "finance"
    /\ table' = [i \in Entries |->
                    IF i \in is THEN [table[i] EXCEPT !.amount = amount[i]] ELSE table[i]]
    /\ cleared' = cleared \cup UNION {CarriedOver(i, amount[i]) : i \in is}
    /\ UNCHANGED <<route, req, approvals>>

Next ==
    \/ \E u \in Users, i \in Entries, t \in Targets, a \in Amounts :
          \/ CreateExpense(u, i, t, a)
          \/ \E r \in Requests : UpdateExpense(r, u, i, t, a)
    \/ \E r \in Requests, u \in Users, i \in Entries :
          \/ DeleteExpense(r, u, i)
          \/ SubmitExpense(r, u, i)
          \/ ApproveExpense(r, u, i)
          \/ RejectExpense(r, u, i)
          \/ \E url \in Receipts \ {NoReceipt} : SetReceiptURL(r, u, i, url)
    \/ \E r \in Requests :
          \/ SubmitRoute(r)
          \/ ApproveRoute(r)
          \/ WriteExpense(r)
          \/ RecordExpense(r)
          \/ Abort(r)
    \/ \E t \in Targets, x \in Routes : Reroute(t, x)
    \/ \E u \in Users, is \in SUBSET {i \in Entries : table[i] # Absent} :
          \E amount \in [is -> Amounts] : RecalculateMileage(u, is, amount)

Spec == Init /\ [][Next]_chainVars
=============================================================================
