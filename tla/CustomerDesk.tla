------------------------------ MODULE CustomerDesk -----------------------------
(* The customers page: the searched list, the one form that creates and       *)
(* edits, and the delete confirmation, over customers others change too.      *)
EXTENDS Naturals, FiniteSets, QueryCache

CONSTANTS
    Customers,      \* customer ids
    NoOne,          \* no customer
    MaxRev          \* bound: changes at the server

VARIABLES
    store,      \* the server: [live, active, rev], its customers and those in business
    list,       \* the list query: a query over such values
    form,       \* the form dialog: "closed", "create", or the customer it edits
    fields,     \* whose values the fields were last reset to
    doomed,     \* the customer of the delete dialog, or NoOne
    sends,      \* mutations in flight
    heard       \* the newest server state an acknowledged mutation left

customerVars == <<store, list, form, fields, doomed, sends, heard>>

Stores == [live : SUBSET Customers, active : SUBSET Customers, rev : 0..MaxRev]

TypeOK ==
    /\ store \in Stores /\ list \in Queries(Stores)
    /\ form \in Customers \cup {"closed", "create"}
    /\ fields \in Customers \cup {NoOne}
    /\ doomed \in Customers \cup {NoOne}
    /\ \A m \in sends : m.op \in {"create", "update", "delete"}
    /\ heard \in 0..store.rev

Init ==
    /\ \E cs \in SUBSET Customers : store = [live |-> cs, active |-> cs, rev |-> 0]
    /\ list = Warm(store)
    /\ form = "closed" /\ fields = NoOne /\ doomed = NoOne
    /\ sends = {} /\ heard = 0

-----------------------------------------------------------------------------
(* The page.                                                                 *)

Shown == list.data.live
Saving == \E m \in sends : m.op \in {"create", "update"}
Deleting == \E m \in sends : m.op = "delete"
(* Until a new search is answered the page is suspended.                     *)
Free == form = "closed" /\ doomed = NoOne /\ list.has

(* Another search is another query; both are below the key that mutations    *)
(* invalidate.                                                               *)
Search ==
    /\ Free /\ list.at = "idle"
    /\ list' = Asked(Cold(list.data))
    /\ UNCHANGED <<store, form, fields, doomed, sends, heard>>

(* A variant that seeds the fields once, as defaults.                        *)
ResetOnce(dialog) ==
    fields' = IF dialog \in Customers /\ fields = NoOne THEN dialog ELSE fields
(* The effect on the dialog, its mode and its customer resets the fields     *)
(* whenever the dialog is open.                                              *)
Reset(dialog) == fields' = IF dialog \in Customers THEN dialog ELSE NoOne

OpenCreate ==
    /\ Free /\ form' = "create" /\ Reset("create")
    /\ UNCHANGED <<store, list, doomed, sends, heard>>
OpenEdit(c) ==
    /\ Free /\ c \in Shown /\ form' = c /\ Reset(c)
    /\ UNCHANGED <<store, list, doomed, sends, heard>>
CloseForm ==
    /\ form # "closed" /\ form' = "closed"
    /\ UNCHANGED <<store, list, fields, doomed, sends, heard>>

Send(op, c, seed) ==
    sends' = sends \cup {[op |-> op, of |-> c, seed |-> seed, at |-> "sent", rev |-> 0]}

(* The dialog closes as soon as the toast shows, not when the answer comes;  *)
(* reopened before that, its button is disabled.                             *)
Submit ==
    /\ form # "closed" /\ ~Saving
    /\ form' = "closed"
    /\ IF form = "create" THEN Send("create", NoOne, fields) ELSE Send("update", form, fields)
    /\ UNCHANGED <<store, list, fields, doomed, heard>>

OpenDelete(c) ==
    /\ Free /\ c \in Shown /\ doomed' = c
    /\ UNCHANGED <<store, list, form, fields, sends, heard>>
CancelDelete ==
    /\ doomed # NoOne /\ doomed' = NoOne
    /\ UNCHANGED <<store, list, form, fields, sends, heard>>
ConfirmDelete ==
    /\ doomed # NoOne /\ ~Deleting
    /\ Send("delete", doomed, NoOne)
    /\ UNCHANGED <<store, list, form, fields, doomed, heard>>

-----------------------------------------------------------------------------
(* The server and its answers.  A deletion deactivates: the row stays, is    *)
(* listed, and may be edited and deleted again.                              *)

Change(live, active) ==
    store' = [live |-> live, active |-> active, rev |-> store.rev + 1]
Add(c) == Change(store.live \cup {c}, store.active \cup {c})
Deactivate(c) == c \in store.live /\ Change(store.live, store.active \ {c})

Serve(m) ==
    /\ m.at = "sent" /\ store.rev < MaxRev
    /\ \/ m.op = "create" /\ \E c \in Customers \ store.live : Add(c)
       \/ m.op = "update" /\ m.of \in store.live /\ Change(store.live, store.active)
       \/ m.op = "delete" /\ Deactivate(m.of)
    /\ sends' = (sends \ {m}) \cup {[m EXCEPT !.at = "done", !.rev = store.rev + 1]}
    /\ UNCHANGED <<list, form, fields, doomed, heard>>
Refuse(m) ==
    /\ m.at = "sent" /\ sends' = (sends \ {m})
    /\ UNCHANGED <<store, list, form, fields, doomed, heard>>
OthersChange ==
    /\ store.rev < MaxRev
    /\ \E c \in Customers : IF c \in store.live THEN Deactivate(c) ELSE Add(c)
    /\ UNCHANGED <<list, form, fields, doomed, sends, heard>>

(* A variant that lets a request already in flight stand for the new one.    *)
RefreshedIfIdle(q) == IF q.at = "idle" THEN Asked(q) ELSE q
(* Success invalidates the lists; the answer to a deletion closes whichever  *)
(* delete dialog is open by then.                                            *)
Refreshed(q) == Refetched(q)

Acknowledge(m) ==
    /\ m.at = "done" /\ sends' = sends \ {m}
    /\ list' = Refreshed(list)
    /\ heard' = IF m.rev > heard THEN m.rev ELSE heard
    /\ doomed' = IF m.op = "delete" THEN NoOne ELSE doomed
    /\ UNCHANGED <<store, form, fields>>

ListReads ==
    /\ list.at = "asked" /\ list' = ReadBy(list, store)
    /\ UNCHANGED <<store, form, fields, doomed, sends, heard>>
ListLands ==
    /\ list.at = "read" /\ list' = Landed(list)
    /\ UNCHANGED <<store, form, fields, doomed, sends, heard>>
ListFails ==
    /\ list.at # "idle" /\ list.has /\ list' = Broken(list)
    /\ UNCHANGED <<store, form, fields, doomed, sends, heard>>

Next ==
    \/ Search \/ OpenCreate \/ CloseForm \/ Submit \/ CancelDelete \/ ConfirmDelete
    \/ \E c \in Customers : OpenEdit(c) \/ OpenDelete(c)
    \/ \E m \in sends : Serve(m) \/ Refuse(m) \/ Acknowledge(m)
    \/ OthersChange \/ ListReads \/ ListLands \/ ListFails

Spec == Init /\ [][Next]_customerVars

-----------------------------------------------------------------------------
(* An update carries the values the form showed for the customer it updates, *)
(* never those of one opened before, and a creation none.                    *)
FieldsBelong == \A m \in sends : m.op # "delete" => m.seed = m.of

(* Once the list has settled, it is at least as new as every mutation this   *)
(* user was told succeeded, unless that was while a new search was loading.  *)
AcknowledgedShown == Settled(list) => list.data.rev >= heard
=============================================================================
