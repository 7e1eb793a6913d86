--------------------------- MODULE EntryLifecycle ---------------------------
(* What the approval chain promises about one table of entries when it is    *)
(* read as a whole: the statuses, the moves between them, and that content   *)
(* is settled once an entry leaves the manager stage.  Each move is atomic.  *)
(* The moves are the ones CONTEXT.md and the feature documents draw:         *)
(*                                                                           *)
(*   draft -> submitted -> pending_finance -> approved | rejected            *)
(*   rejected -> (edited, submitted again)                                   *)

CONSTANTS Entries, Contents

VARIABLES status, content

Open == {"draft", "submitted", "rejected"}

NoContent == << >>

Init == /\ status = [i \in Entries |-> "absent"]
        /\ content = [i \in Entries |-> NoContent]

Move(i, from, to) ==
    /\ status[i] \in from
    /\ status' = [status EXCEPT ![i] = to]
    /\ UNCHANGED content

Draft(i, c) == /\ status[i] = "absent"
               /\ status' = [status EXCEPT ![i] = "draft"]
               /\ content' = [content EXCEPT ![i] = c]

Edit(i, c) == /\ status[i] \in Open
              /\ content' = [content EXCEPT ![i] = c]
              /\ UNCHANGED status

Submit(i) == Move(i, {"draft", "rejected"}, "submitted")
SubmitPastManager(i) == Move(i, {"draft", "rejected"}, "pending_finance")
ManagerApprove(i) == Move(i, {"submitted"}, "pending_finance")
FinanceApprove(i) == Move(i, {"pending_finance"}, "approved")
Reject(i) == Move(i, {"submitted", "pending_finance"}, "rejected")

Next == \E i \in Entries :
            \/ \E c \in Contents : Draft(i, c) \/ Edit(i, c)
            \/ Submit(i) \/ SubmitPastManager(i)
            \/ ManagerApprove(i) \/ FinanceApprove(i) \/ Reject(i)

Spec == Init /\ [][Next]_<<status, content>>
=============================================================================
