------------------------------ MODULE ContractDesk -----------------------------
(* The contracts pages: the list with its tabs and filters, the dialogs that  *)
(* create and adopt, the page of one contract with its form and its danger    *)
(* zone, over the server's contract, which others change and link work to.    *)
(* The server handles an update in one statement, a recalculation and a       *)
(* deletion in two, with no transaction around them.                          *)
EXTENDS Naturals, FiniteSets

CONSTANTS
    Rates,          \* values of the contract's fields
    MaxMade,        \* bound: contracts created by the dialog
    MaxSends        \* bound: mutations in flight

VARIABLES
    viewer,     \* [finance, owner]: the user's role, and whether the organization made it
    contract,   \* the contract at the server: [there, rate, active]
    linked,     \* 0, 1 if an activity names it, 2 if one has time entries
    adopted,    \* has the user's organization adopted it?
    made,       \* contracts the dialog has created
    valued,     \* the rate its mileage expenses were last valued at
    url,        \* [page, tab]
    seen,       \* the contract as the page has it cached, and whether it had time entries
    draft,      \* the rate in the edit form, or 0 while not editing
    dialog,     \* "none", "create" or "adopt"
    sends       \* mutations in flight

contractVars == <<viewer, contract, linked, adopted, made, valued, url, seen, draft,
                  dialog, sends>>
serverVars == <<contract, linked, adopted, made, valued>>
viewVars == <<url, seen, draft, dialog>>

Contracts == [there : BOOLEAN, rate : Rates, active : BOOLEAN]
Tabs == {"owned", "adopted", "all"}
Mutations == {"create", "adopt", "save", "toggle", "recalculate", "delete"}

TypeOK ==
    /\ viewer \in [finance : BOOLEAN, owner : BOOLEAN]
    /\ contract \in Contracts /\ linked \in 0..2 /\ adopted \in BOOLEAN
    /\ made \in 0..MaxMade /\ valued \in Rates
    /\ url \in [page : {"list", "detail"}, tab : Tabs]
    /\ seen \in [of : Contracts, busy : BOOLEAN]
    /\ draft \in Rates \cup {0}
    /\ dialog \in {"none", "create", "adopt"}
    /\ \A m \in sends : m.op \in Mutations /\ m.rate \in Rates

Init ==
    /\ viewer \in [finance : BOOLEAN, owner : BOOLEAN]
    /\ \E r \in Rates : contract = [there |-> TRUE, rate |-> r, active |-> TRUE] /\ valued = r
    /\ linked = 0 /\ adopted = FALSE /\ made = 0
    /\ url = [page |-> "list", tab |-> "owned"]
    /\ seen = [of |-> contract, busy |-> FALSE]
    /\ draft = 0 /\ dialog = "none" /\ sends = {}

-----------------------------------------------------------------------------
(* The list.  Status and search only narrow what is shown.                   *)

OnList == url.page = "list" /\ dialog = "none"

HandleTabChange(tab) ==
    /\ OnList /\ url' = [url EXCEPT !.tab = tab]
    /\ UNCHANGED <<viewer, serverVars, seen, draft, dialog, sends>>

OpenDialog(which) ==
    /\ OnList /\ url.tab = (IF which = "create" THEN "owned" ELSE "all")
    /\ which = "adopt" => ~adopted
    /\ dialog' = which
    /\ UNCHANGED <<viewer, serverVars, url, seen, draft, sends>>
CloseDialog ==
    /\ dialog # "none" /\ dialog' = "none"
    /\ UNCHANGED <<viewer, serverVars, url, seen, draft, sends>>

(* The contract is read when its page opens, unless the cache is still fresh.*)
AsRead == [of |-> contract, busy |-> linked = 2]
HandleRowClick ==
    /\ OnList /\ contract.there
    /\ url' = [url EXCEPT !.page = "detail"]
    /\ seen' \in {seen, AsRead}
    /\ UNCHANGED <<viewer, serverVars, draft, dialog, sends>>
BackToList ==
    /\ url.page = "detail"
    /\ url' = [url EXCEPT !.page = "list"] /\ draft' = 0
    /\ UNCHANGED <<viewer, serverVars, seen, dialog, sends>>

-----------------------------------------------------------------------------
(* The page of the contract, for finance only.                               *)

MayEdit == url.page = "detail" /\ viewer.finance

HandleEdit ==
    /\ MayEdit /\ draft = 0
    /\ draft' = seen.of.rate
    /\ UNCHANGED <<viewer, serverVars, url, seen, dialog, sends>>
ChangeRate(r) ==
    /\ MayEdit /\ draft # 0 /\ draft' = r
    /\ UNCHANGED <<viewer, serverVars, url, seen, dialog, sends>>
HandleCancel ==
    /\ MayEdit /\ draft # 0 /\ draft' = 0
    /\ UNCHANGED <<viewer, serverVars, url, seen, dialog, sends>>

Pending(ops) == \E m \in sends : m.op \in ops
Send(op, rate, active) ==
    /\ Cardinality(sends) < MaxSends
    /\ sends' = sends \cup {[op |-> op, rate |-> rate, active |-> active, checked |-> FALSE]}
    /\ UNCHANGED <<viewer, serverVars, viewVars>>

HandleSubmit == dialog = "create" /\ ~Pending({"create"}) /\ Send("create", seen.of.rate, TRUE)
HandleAdoptConfirm ==
    dialog = "adopt" /\ ~Pending({"adopt"}) /\ Send("adopt", seen.of.rate, TRUE)
HandleSave ==
    MayEdit /\ draft # 0 /\ ~Pending({"save", "toggle"}) /\ Send("save", draft, seen.of.active)
(* A variant that sends the fields of the form.                              *)
ToggleSendsForm ==
    MayEdit /\ ~Pending({"save", "toggle"}) /\ Send("toggle", draft, ~seen.of.active)
(* The toggle sends all fields, as cached.                                   *)
HandleToggleActive ==
    MayEdit /\ ~Pending({"save", "toggle"}) /\ Send("toggle", seen.of.rate, ~seen.of.active)
HandleRecalculate ==
    MayEdit /\ ~Pending({"recalculate"}) /\ Send("recalculate", seen.of.rate, TRUE)
HandleDelete ==
    MayEdit /\ ~Pending({"delete"}) /\ ~seen.busy /\ Send("delete", seen.of.rate, TRUE)

-----------------------------------------------------------------------------
(* The server.  An answer only makes the button work again: the success      *)
(* callbacks of all but the recalculation destructure an argument that is    *)
(* not there, so the dialogs and the form stay open and nothing is read      *)
(* again.                                                                    *)

Answered(m) == sends' = sends \ {m} /\ UNCHANGED <<viewer, viewVars>>
Checked(m, rate) ==
    /\ ~m.checked
    /\ sends' = (sends \ {m}) \cup {[m EXCEPT !.checked = TRUE, !.rate = rate]}
    /\ UNCHANGED <<viewer, serverVars, viewVars>>

CreateContract(m) ==
    /\ m.op = "create" /\ made < MaxMade /\ made' = made + 1
    /\ UNCHANGED <<contract, linked, adopted, valued>> /\ Answered(m)
AdoptContract(m) ==
    /\ m.op = "adopt" /\ contract.there /\ ~adopted /\ adopted' = TRUE
    /\ UNCHANGED <<contract, linked, made, valued>> /\ Answered(m)
UpdateContract(m) ==
    /\ m.op \in {"save", "toggle"} /\ viewer.owner /\ contract.there
    /\ contract' = [contract EXCEPT !.rate = m.rate, !.active = m.active]
    /\ UNCHANGED <<linked, adopted, made, valued>> /\ Answered(m)
RecalculateReads(m) == m.op = "recalculate" /\ contract.there /\ Checked(m, contract.rate)
RecalculateWrites(m) ==
    /\ m.op = "recalculate" /\ m.checked
    /\ valued' = IF linked > 0 THEN m.rate ELSE valued
    /\ UNCHANGED <<contract, linked, adopted, made>> /\ Answered(m)

(* No work on it when checked; and the rows that name it restrict the delete.*)
DeleteChecks(m) ==
    m.op = "delete" /\ viewer.owner /\ contract.there /\ linked = 0 /\ Checked(m, m.rate)
(* A variant that relies on the check alone.                                 *)
DeleteWritesUnrestricted(m) ==
    /\ m.op = "delete" /\ m.checked /\ contract.there
    /\ contract' = [contract EXCEPT !.there = FALSE] /\ adopted' = FALSE
    /\ UNCHANGED <<linked, made, valued>> /\ Answered(m)
DeleteWrites(m) ==
    /\ m.op = "delete" /\ m.checked /\ contract.there /\ linked = 0
    /\ contract' = [contract EXCEPT !.there = FALSE] /\ adopted' = FALSE
    /\ UNCHANGED <<linked, made, valued>> /\ Answered(m)
Refuse(m) == UNCHANGED serverVars /\ Answered(m)

(* Activities are created on the contract, time entries on them, and deleted.*)
OthersLink ==
    /\ contract.there /\ linked' \in {linked - 1, linked + 1} \cap 0..2
    /\ UNCHANGED <<viewer, contract, adopted, made, valued, viewVars, sends>>
OthersUpdate(r) ==
    /\ contract.there /\ contract' = [contract EXCEPT !.rate = r]
    /\ UNCHANGED <<viewer, linked, adopted, made, valued, viewVars, sends>>

Next ==
    \/ \E t \in Tabs : HandleTabChange(t)
    \/ \E d \in {"create", "adopt"} : OpenDialog(d)
    \/ CloseDialog \/ HandleRowClick \/ BackToList
    \/ HandleEdit \/ HandleCancel \/ \E r \in Rates : ChangeRate(r) \/ OthersUpdate(r)
    \/ HandleSubmit \/ HandleAdoptConfirm \/ HandleSave \/ HandleToggleActive
    \/ HandleRecalculate \/ HandleDelete
    \/ \E m \in sends : \/ CreateContract(m) \/ AdoptContract(m) \/ UpdateContract(m)
                        \/ RecalculateReads(m) \/ RecalculateWrites(m)
                        \/ DeleteChecks(m) \/ DeleteWrites(m) \/ Refuse(m)
    \/ OthersLink

Spec == Init /\ [][Next]_contractVars

-----------------------------------------------------------------------------
(* A contract that work is recorded under is never gone, however a deletion  *)
(* interleaves with the creation of an activity.                             *)
LinkedContractStays == linked > 0 => contract.there
=============================================================================
