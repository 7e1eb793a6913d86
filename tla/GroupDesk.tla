------------------------------- MODULE GroupDesk -------------------------------
(* The working groups page: a dialog that creates, another that edits, the    *)
(* members of one group, and the delete confirmation.                         *)
EXTENDS Naturals, FiniteSets, QueryCache

CONSTANTS
    Groups,         \* working group ids
    Nobody,         \* no group
    MaxRev,         \* bound: changes at the server
    MaxSends        \* bound: mutations in flight

VARIABLES
    store,      \* the server: [live, staffed, rev]: groups, those with a member
    list,       \* the list query: a query over such values
    roster,     \* the members query: the groups whose members list was read non-empty
    creating,   \* is the create dialog open?
    edited,     \* the group of the edit dialog, or Nobody
    fields,     \* the group whose values the edit dialog holds, or Nobody
    dialog,     \* "none", "delete", "members" or "remove"
    subject,    \* the group of that dialog
    sends,      \* mutations in flight
    heard       \* the newest server state an acknowledged mutation left

groupVars == <<store, list, roster, creating, edited, fields, dialog, subject, sends, heard>>
dialogVars == <<creating, edited, fields, dialog, subject>>

Stores == [live : SUBSET Groups, staffed : SUBSET Groups, rev : 0..MaxRev]
GroupOps == {"create", "update", "delete", "add", "remove"}

TypeOK ==
    /\ store \in Stores /\ list \in Queries(Stores) /\ roster \subseteq Groups
    /\ creating \in BOOLEAN
    /\ {edited, fields, subject} \subseteq Groups \cup {Nobody}
    /\ dialog \in {"none", "delete", "members", "remove"}
    /\ \A m \in sends : m.op \in GroupOps
    /\ heard \in 0..store.rev

Init ==
    /\ store = [live |-> Groups, staffed |-> {}, rev |-> 0]
    /\ list = Warm(store) /\ roster = {}
    /\ creating = FALSE /\ edited = Nobody /\ fields = Nobody
    /\ dialog = "none" /\ subject = Nobody
    /\ sends = {} /\ heard = 0

-----------------------------------------------------------------------------
(* The dialogs.  The edit dialog is always mounted: its effect takes the     *)
(* values of the group each time it opens or the group changes.              *)

Shown == list.data.live
Free == ~creating /\ edited = Nobody /\ dialog = "none"
Pending(op) == \E m \in sends : m.op = op

Seed(g) == fields' = g

OpenCreate ==
    /\ Free /\ creating' = TRUE
    /\ UNCHANGED <<store, list, roster, edited, fields, dialog, subject, sends, heard>>
OpenEdit(g) ==
    /\ Free /\ g \in Shown
    /\ edited' = g /\ Seed(g)
    /\ UNCHANGED <<store, list, roster, creating, dialog, subject, sends, heard>>
OpenDialog(which, g) ==
    /\ Free /\ g \in Shown
    /\ dialog' = which /\ subject' = g
    /\ UNCHANGED <<store, list, roster, creating, edited, fields, sends, heard>>
AskRemove ==
    /\ dialog = "members" /\ subject \in roster
    /\ dialog' = "remove"
    /\ UNCHANGED <<store, list, roster, creating, edited, fields, subject, sends, heard>>
Close ==
    /\ ~Free
    /\ creating' = FALSE /\ edited' = Nobody
    /\ dialog' = IF dialog = "remove" THEN "members" ELSE "none"
    /\ UNCHANGED <<store, list, roster, fields, subject, sends, heard>>

-----------------------------------------------------------------------------
(* Mutations.  A button is disabled while its own mutation is pending.       *)

Send(op, g, seed) ==
    /\ ~Pending(op) /\ Cardinality(sends) < MaxSends
    /\ sends' = sends \cup {[op |-> op, of |-> g, seed |-> seed, at |-> "sent", rev |-> 0]}

SubmitCreate == creating /\ Send("create", Nobody, Nobody)
SubmitEdit == edited # Nobody /\ Send("update", edited, fields)
ConfirmDelete == dialog = "delete" /\ Send("delete", subject, subject)
AddMember ==
    /\ dialog = "members" /\ subject \notin roster
    /\ Send("add", subject, subject)
ConfirmRemove == dialog = "remove" /\ Send("remove", subject, subject)

Submit ==
    /\ SubmitCreate \/ SubmitEdit \/ ConfirmDelete \/ AddMember \/ ConfirmRemove
    /\ UNCHANGED <<store, list, roster, dialogVars, heard>>

(* The server; it does not delete a group that has members.                  *)
Change(live, staffed) ==
    store' = [live |-> live, staffed |-> staffed, rev |-> store.rev + 1]

Serve(m) ==
    /\ m.at = "sent" /\ store.rev < MaxRev
    /\ \/ m.op = "create" /\ \E g \in Groups \ store.live :
              Change(store.live \cup {g}, store.staffed)
       \/ m.op = "update" /\ m.of \in store.live /\ Change(store.live, store.staffed)
       \/ m.op = "delete" /\ m.of \notin store.staffed
                          /\ Change(store.live \ {m.of}, store.staffed)
       \/ m.op = "add" /\ m.of \in store.live /\ Change(store.live, store.staffed \cup {m.of})
       \/ m.op = "remove" /\ Change(store.live, store.staffed \ {m.of})
    /\ sends' = (sends \ {m}) \cup {[m EXCEPT !.at = "done", !.rev = store.rev + 1]}
    /\ UNCHANGED <<list, roster, dialogVars, heard>>
Refuse(m) ==
    /\ m.at = "sent" /\ sends' = sends \ {m}
    /\ UNCHANGED <<store, list, roster, dialogVars, heard>>
OthersChange ==
    /\ store.rev < MaxRev
    /\ \E g \in store.live \ store.staffed : Change(store.live \ {g}, store.staffed)
    /\ UNCHANGED <<list, roster, dialogVars, sends, heard>>

(* Every mutation invalidates the prefix of the list, of which the members   *)
(* are a part.  The answer closes the dialog of its kind, whichever group it *)
(* shows by then.                                                            *)
Acknowledge(m) ==
    /\ m.at = "done" /\ sends' = sends \ {m}
    /\ list' = Refetched(list)
    /\ heard' = IF m.rev > heard THEN m.rev ELSE heard
    /\ creating' = (creating /\ m.op # "create")
    /\ edited' = IF m.op = "update" THEN Nobody ELSE edited
    /\ dialog' = IF m.op = "delete" /\ dialog = "delete" THEN "none"
                 ELSE IF m.op = "remove" /\ dialog = "remove" THEN "members" ELSE dialog
    /\ UNCHANGED <<store, roster, fields, subject>>

ListReads ==
    /\ list.at = "asked" /\ list' = ReadBy(list, store)
    /\ UNCHANGED <<store, roster, dialogVars, sends, heard>>
ListLands ==
    /\ list.at = "read" /\ list' = Landed(list)
    /\ UNCHANGED <<store, roster, dialogVars, sends, heard>>

(* The members are asked for while their dialog is open, and again after     *)
(* every mutation; the answer may be old.                                    *)
RosterArrives ==
    /\ dialog \in {"members", "remove"} /\ roster' = store.staffed
    /\ UNCHANGED <<store, list, dialogVars, sends, heard>>

Next ==
    \/ OpenCreate \/ AskRemove \/ Close \/ Submit
    \/ \E g \in Groups : OpenEdit(g) \/ \E d \in {"delete", "members"} : OpenDialog(d, g)
    \/ \E m \in sends : Serve(m) \/ Refuse(m) \/ Acknowledge(m)
    \/ OthersChange \/ ListReads \/ ListLands \/ RosterArrives

Spec == Init /\ [][Next]_groupVars

-----------------------------------------------------------------------------
(* An update carries the name, manager and delegates of the group it updates *)
(* and of no group edited before.                                            *)
FieldsBelong == \A m \in sends : m.seed = m.of

(* Once the list has settled, it is at least as new as every mutation this   *)
(* user was told succeeded.                                                  *)
AcknowledgedShown == Settled(list) => list.data.rev >= heard
=============================================================================
