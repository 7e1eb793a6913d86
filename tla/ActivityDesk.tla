------------------------------ MODULE ActivityDesk -----------------------------
(* The activities pages: the list with its tabs and its create dialog, and    *)
(* the page of one activity with the dialogs that edit and delete it, while   *)
(* others change or delete it too.                                            *)
EXTENDS Naturals, FiniteSets, QueryCache

CONSTANTS
    MaxRev,         \* bound: changes at the server
    MaxSends        \* bound: mutations in flight

VARIABLES
    activity,   \* the server: [life, rev], life "unborn", "there" or "gone"
    detail,     \* the query of its page: a query over such values
    stale,      \* was that query invalidated while its page was not shown?
    view,       \* [page, tab]
    dialog,     \* "none", "create", "edit" or "delete"
    complaint,  \* does the delete dialog show a refusal?
    sends,      \* mutations in flight
    heard       \* the newest server state acknowledged during this visit of the page

activityVars == <<activity, detail, stale, view, dialog, complaint, sends, heard>>

Activities == [life : {"unborn", "there", "gone"}, rev : 0..MaxRev]
Tabs == {"owned", "adopted", "all"}

TypeOK ==
    /\ activity \in Activities /\ detail \in Queries(Activities)
    /\ stale \in BOOLEAN /\ complaint \in BOOLEAN
    /\ view \in [page : {"list", "detail"}, tab : Tabs]
    /\ dialog \in {"none", "create", "edit", "delete"}
    /\ heard \in 0..activity.rev
    /\ \A m \in sends : m.op \in {"create", "update", "delete"}

Init ==
    /\ \E life \in {"unborn", "there"} : activity = [life |-> life, rev |-> 0]
    /\ detail = Cold(activity) /\ stale = FALSE
    /\ view = [page |-> "list", tab |-> "owned"]
    /\ dialog = "none" /\ complaint = FALSE
    /\ sends = {} /\ heard = 0

-----------------------------------------------------------------------------
(* Pages.  Coming to the page of the activity reads it unless what is cached *)
(* is recent and was not invalidated; leaving ends what the page watches.    *)

Unwatched == {[m EXCEPT !.watched = FALSE] : m \in sends}

EnterDetail ==
    /\ view' = [view EXCEPT !.page = "detail"]
    /\ \/ detail.at = "idle" /\ detail' = Asked(detail)
       \/ (detail.at # "idle" \/ (detail.has /\ ~stale)) /\ UNCHANGED detail
    /\ stale' = FALSE /\ heard' = 0 /\ complaint' = FALSE

HandleTabChange(t) ==
    /\ view.page = "list" /\ dialog = "none"
    /\ view' = [view EXCEPT !.tab = t]
    /\ UNCHANGED <<activity, detail, stale, dialog, complaint, sends, heard>>
HandleRowClick ==
    /\ view.page = "list" /\ dialog = "none" /\ activity.life # "unborn"
    /\ EnterDetail /\ sends' = Unwatched
    /\ UNCHANGED <<activity, dialog>>
BackToActivities ==
    /\ view.page = "detail" /\ dialog = "none"
    /\ view' = [view EXCEPT !.page = "list"] /\ sends' = Unwatched
    /\ UNCHANGED <<activity, detail, stale, dialog, complaint, heard>>

-----------------------------------------------------------------------------
(* Dialogs.                                                                  *)

OpenCreate ==
    /\ view = [page |-> "list", tab |-> "owned"] /\ dialog = "none" /\ dialog' = "create"
    /\ UNCHANGED <<activity, detail, stale, view, complaint, sends, heard>>
OpenEdit ==
    /\ view.page = "detail" /\ detail.has /\ dialog = "none" /\ dialog' = "edit"
    /\ UNCHANGED <<activity, detail, stale, view, complaint, sends, heard>>
OpenDelete ==
    /\ view.page = "detail" /\ detail.has /\ dialog = "none" /\ dialog' = "delete"
    /\ complaint' = FALSE
    /\ UNCHANGED <<activity, detail, stale, view, sends, heard>>
CloseDialog ==
    /\ dialog # "none" /\ dialog' = "none"
    /\ UNCHANGED <<activity, detail, stale, view, complaint, sends, heard>>

(* A button is disabled while the mutation this mount has sent is pending.   *)
Pending(op) == \E m \in sends : m.op = op /\ m.watched
Send(op) ==
    /\ ~Pending(op) /\ Cardinality(sends) < MaxSends
    /\ sends' = sends \cup {[op |-> op, watched |-> TRUE, at |-> "sent", rev |-> 0]}
    /\ UNCHANGED <<activity, detail, stale, view, dialog, complaint, heard>>

SubmitCreate == dialog = "create" /\ Send("create")
SubmitEdit == dialog = "edit" /\ Send("update")
ConfirmDelete == dialog = "delete" /\ Send("delete")

-----------------------------------------------------------------------------
(* The server, and others.                                                   *)

Become(life) == activity' = [life |-> life, rev |-> activity.rev + 1]

Serve(m) ==
    /\ m.at = "sent" /\ activity.rev < MaxRev
    /\ \/ m.op = "create" /\ activity.life = "unborn" /\ Become("there")
       \/ m.op = "update" /\ activity.life = "there" /\ Become("there")
       \/ m.op = "delete" /\ activity.life = "there" /\ Become("gone")
    /\ sends' = (sends \ {m}) \cup {[m EXCEPT !.at = "done", !.rev = activity.rev + 1]}
    /\ UNCHANGED <<detail, stale, view, dialog, complaint, heard>>
OthersChange ==
    /\ activity.life = "there" /\ activity.rev < MaxRev
    /\ Become("there") \/ Become("gone")
    /\ UNCHANGED <<detail, stale, view, dialog, complaint, sends, heard>>

(* Every success invalidates all queries about activities.  A creation goes  *)
(* to the new page if the list that sent it is still there, a deletion to    *)
(* the list wherever the user is by then.                                    *)
Shown == view.page = "detail"
Invalidate ==
    /\ detail' = IF Shown THEN Refetched(detail) ELSE detail
    /\ stale' = (stale \/ (~Shown /\ detail.has))
Hear(m) == heard' = IF Shown /\ m.rev > heard THEN m.rev ELSE heard
Remaining(m) == sends' = sends \ {m}

CreateSucceeds(m) ==
    /\ m.op = "create" /\ m.at = "done"
    /\ IF m.watched
         THEN EnterDetail /\ dialog' = "none" /\ sends' = Unwatched \ {[m EXCEPT !.watched = FALSE]}
         ELSE Invalidate /\ Hear(m) /\ Remaining(m) /\ UNCHANGED <<view, dialog, complaint>>
    /\ UNCHANGED activity
UpdateSucceeds(m) ==
    /\ m.op = "update" /\ m.at = "done" /\ Remaining(m)
    /\ dialog' = IF m.watched /\ dialog = "edit" THEN "none" ELSE dialog
    /\ Invalidate /\ Hear(m)
    /\ UNCHANGED <<activity, view, complaint>>
DeleteSucceeds(m) ==
    /\ m.op = "delete" /\ m.at = "done" /\ Invalidate
    /\ IF Shown THEN /\ view' = [view EXCEPT !.page = "list"] /\ dialog' = "none"
                     /\ sends' = Unwatched \ {[m EXCEPT !.watched = FALSE]}
                ELSE Remaining(m) /\ UNCHANGED <<view, dialog>>
    /\ UNCHANGED <<activity, complaint, heard>>
Refused(m) ==
    /\ m.at = "sent" /\ Remaining(m)
    /\ complaint' = (complaint \/ (m.op = "delete" /\ m.watched))
    /\ UNCHANGED <<activity, detail, stale, view, dialog, heard>>

DetailReads ==
    /\ detail.at = "asked" /\ detail' = ReadBy(detail, activity)
    /\ UNCHANGED <<activity, stale, view, dialog, complaint, sends, heard>>
(* An answer counts as fresh, also when the query was invalidated meanwhile. *)
DetailLands ==
    /\ detail.at = "read" /\ detail' = Landed(detail) /\ stale' = FALSE
    /\ UNCHANGED <<activity, view, dialog, complaint, sends, heard>>
DetailFails ==
    /\ detail.at # "idle" /\ detail' = Broken(detail)
    /\ UNCHANGED <<activity, stale, view, dialog, complaint, sends, heard>>

Next ==
    \/ \E t \in Tabs : HandleTabChange(t)
    \/ HandleRowClick \/ BackToActivities
    \/ OpenCreate \/ OpenEdit \/ OpenDelete \/ CloseDialog
    \/ SubmitCreate \/ SubmitEdit \/ ConfirmDelete
    \/ \E m \in sends : \/ Serve(m) \/ CreateSucceeds(m) \/ UpdateSucceeds(m)
                        \/ DeleteSucceeds(m) \/ Refused(m)
    \/ OthersChange \/ DetailReads \/ DetailLands \/ DetailFails

Spec == Init /\ [][Next]_activityVars

-----------------------------------------------------------------------------
(* Once the page of the activity has settled, it shows at least the state of *)
(* every mutation this user was told succeeded while on it, unless that was  *)
(* before the page had anything to show.                                     *)
AcknowledgedShown == Shown /\ Settled(detail) => detail.data.rev >= heard
=============================================================================
