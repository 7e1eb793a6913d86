------------------------------- MODULE EntryRows -------------------------------
(* One row of the day view, a time entry or an expense: inline edits that are *)
(* sent one request per change, submit, delete, and the query cache that is   *)
(* refreshed after every acknowledged mutation.  A reviewer works on the same *)
(* entry from elsewhere.                                                      *)
EXTENDS Naturals

CONSTANTS
    Texts,          \* what a field can hold
    MaxWrites,      \* bound: mutations sent
    MaxVersion      \* bound: changes of the row at the server

VARIABLES
    kind,       \* "time" or "expense": EntryRow or ExpenseRow
    row,        \* at the server: [status, text, version]
    shown,      \* the cached row, the one on screen
    fetch,      \* the list request in flight: Idle, Asked, or the row it read
    writes,     \* mutations in flight: [op, text, n, at]
    sent,       \* mutations sent so far
    heard,      \* the latest version a success answer of ours stands for
    failed,     \* the last list request failed
    dialog,     \* the delete confirmation is open
    edits       \* editValues of an expense row: a text, or NoText

rowVars == <<kind, row, shown, fetch, writes, sent, heard, failed, dialog, edits>>

Statuses == {"draft", "submitted", "pending_manager", "pending_finance",
             "approved", "rejected", "gone"}
NoText == "none"
Row == [status : Statuses, text : Texts, version : 0..MaxVersion]
Idle == [status |-> "idle", text |-> NoText, version |-> 0]
Asked == [Idle EXCEPT !.status = "asked"]
Ops == {"update", "submit", "delete", "receipt"}
Write == [op : Ops, text : Texts, n : 1..MaxWrites,
          at : {"sent", "refused"}] \cup
         [op : Ops, text : Texts, n : 1..MaxWrites, at : {"done"}, version : 0..MaxVersion]

TypeOK ==
    /\ kind \in {"time", "expense"}
    /\ row \in Row /\ shown \in Row
    /\ fetch \in Row \cup {Idle, Asked}
    /\ writes \subseteq Write
    /\ sent \in 0..MaxWrites
    /\ heard \in 0..MaxVersion
    /\ failed \in BOOLEAN /\ dialog \in BOOLEAN
    /\ edits \in Texts \cup {NoText}

Init ==
    /\ kind \in {"time", "expense"}
    /\ row \in [status : {"draft", "rejected"}, text : Texts, version : {0}]
    /\ shown = row
    /\ fetch = Idle
    /\ writes = {}
    /\ sent = 0
    /\ heard = 0
    /\ failed = FALSE
    /\ dialog = FALSE
    /\ edits = NoText

-----------------------------------------------------------------------------
IsEditable(r) == r.status \in {"draft", "rejected"}

Send(op, text) ==
    /\ sent < MaxWrites
    /\ sent' = sent + 1
    /\ writes' = writes \cup {[op |-> op, text |-> text, n |-> sent + 1, at |-> "sent"]}

(* Every change of a field is a request of its own.  An expense row also     *)
(* keeps the value itself and shows it from then on.                         *)
UpdateTimeEntry(text) ==
    /\ kind = "time" /\ IsEditable(shown) /\ text # shown.text
    /\ Send("update", text)
    /\ UNCHANGED <<kind, row, shown, fetch, heard, failed, dialog, edits>>

UpdateExpense(text) ==
    /\ kind = "expense" /\ IsEditable(shown)
    /\ text # (IF edits = NoText THEN shown.text ELSE edits)
    /\ Send("update", text)
    /\ edits' = text
    /\ UNCHANGED <<kind, row, shown, fetch, heard, failed, dialog>>

SubmitEntry ==
    /\ IsEditable(shown)
    /\ Send("submit", shown.text)
    /\ UNCHANGED <<kind, row, shown, fetch, heard, failed, dialog, edits>>

(* The receipt goes out with the content type of a JSON body, which the      *)
(* server's multipart parser refuses.                                        *)
UploadReceipt ==
    /\ kind = "expense" /\ IsEditable(shown)
    /\ Send("receipt", shown.text)
    /\ UNCHANGED <<kind, row, shown, fetch, heard, failed, dialog, edits>>

OpenDelete ==
    /\ IsEditable(shown) /\ ~dialog
    /\ dialog' = TRUE
    /\ UNCHANGED <<kind, row, shown, fetch, writes, sent, heard, failed, edits>>

CloseDelete ==
    /\ dialog /\ dialog' = FALSE
    /\ UNCHANGED <<kind, row, shown, fetch, writes, sent, heard, failed, edits>>

ConfirmDelete ==
    /\ dialog /\ shown.status # "gone"
    /\ Send("delete", shown.text)
    /\ dialog' = FALSE
    /\ UNCHANGED <<kind, row, shown, fetch, heard, failed, edits>>

-----------------------------------------------------------------------------
(* The server.                                                               *)

(* What the service lets happen to a row: a submitted one can still be       *)
(* edited, and only a draft can be deleted.                                  *)
Accepts(op, status) ==
    \/ op = "update" /\ status \in {"draft", "submitted", "rejected"}
    \/ op = "submit" /\ status \in {"draft", "rejected"}
    \/ op = "delete" /\ status = "draft"

(* Where a submit goes: to the manager, or past a stage that is its owner's. *)
FirstStages == {"submitted", "pending_finance"}

(* A variant that gives a submitted row a status the API does not know.      *)
AfterOpUnknownStatus(w, stage) ==
    [row EXCEPT !.version = @ + 1,
                !.text = IF w.op = "update" THEN w.text ELSE @,
                !.status = IF w.op = "submit" THEN "open" ELSE @]

AfterOp(w, stage) ==
    [row EXCEPT !.version = @ + 1,
                !.text = IF w.op = "update" THEN w.text ELSE @,
                !.status = CASE w.op = "update" -> @
                             [] w.op = "submit" -> stage
                             [] w.op = "delete" -> "gone"]

Done(w) == [op |-> w.op, text |-> w.text, n |-> w.n, at |-> "done",
            version |-> row.version + 1]

ServerHandles(w) ==
    /\ w.at = "sent" /\ row.version < MaxVersion
    /\ IF Accepts(w.op, row.status)
         THEN /\ \E stage \in FirstStages : row' = AfterOp(w, stage)
              /\ writes' = (writes \ {w}) \cup {Done(w)}
         ELSE /\ row' = row
              /\ writes' = (writes \ {w}) \cup {[w EXCEPT !.at = "refused"]}
    /\ UNCHANGED <<kind, shown, fetch, sent, heard, failed, dialog, edits>>

(* A manager and then finance approve, and either rejects.                   *)
NextStage == [submitted |-> "pending_finance", pending_finance |-> "approved"]

Review ==
    /\ row.status \in DOMAIN NextStage /\ row.version < MaxVersion
    /\ \E s \in {NextStage[row.status], "rejected"} :
           row' = [row EXCEPT !.status = s, !.version = @ + 1]
    /\ UNCHANGED <<kind, shown, fetch, writes, sent, heard, failed, dialog, edits>>

-----------------------------------------------------------------------------
(* Answers.  Invalidating the prefix drops a list request in flight and      *)
(* starts another.                                                           *)

(* A variant that lets a list request in flight serve the refresh.           *)
InvalidateIfIdle == fetch' = IF fetch = Idle THEN Asked ELSE fetch

Invalidate == fetch' = Asked

WriteSucceeds(w) ==
    /\ w.at = "done"
    /\ writes' = writes \ {w}
    /\ heard' = IF w.version > heard THEN w.version ELSE heard
    /\ Invalidate
    /\ failed' = FALSE
    /\ UNCHANGED <<kind, row, shown, sent, dialog, edits>>

(* A refusal, or an answer lost on the way: nothing is invalidated.          *)
WriteFails(w) ==
    /\ w.at # "sent"
    /\ writes' = writes \ {w}
    /\ UNCHANGED <<kind, row, shown, fetch, sent, heard, failed, dialog, edits>>

FetchReads ==
    /\ fetch = Asked
    /\ fetch' = row
    /\ UNCHANGED <<kind, row, shown, writes, sent, heard, failed, dialog, edits>>

FetchLands ==
    /\ fetch \notin {Idle, Asked}
    /\ shown' = fetch
    /\ fetch' = Idle
    /\ dialog' = (dialog /\ IsEditable(fetch))
    /\ edits' = IF fetch.status = "gone" THEN NoText ELSE edits
    /\ UNCHANGED <<kind, row, writes, sent, heard, failed>>

FetchFails ==
    /\ fetch # Idle
    /\ fetch' = Idle
    /\ failed' = TRUE
    /\ UNCHANGED <<kind, row, shown, writes, sent, heard, dialog, edits>>

Network ==
    \/ FetchReads \/ FetchLands \/ FetchFails
    \/ \E w \in writes : ServerHandles(w) \/ WriteSucceeds(w) \/ WriteFails(w)

Next ==
    \/ \E t \in Texts : UpdateTimeEntry(t) \/ UpdateExpense(t)
    \/ SubmitEntry \/ UploadReceipt \/ OpenDelete \/ CloseDelete \/ ConfirmDelete
    \/ Review
    \/ Network

Spec == Init /\ [][Next]_rowVars

-----------------------------------------------------------------------------
(* Once the last list request has landed, the day shows at least what every  *)
(* acknowledged edit, submit or delete of this user left at the server: a    *)
(* request that read before the change never overwrites what came after it.  *)
OwnWritesShown == fetch = Idle /\ ~failed => shown.version >= heard
=============================================================================
