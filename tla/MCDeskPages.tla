------------------------------ MODULE MCDeskPages ------------------------------
(* A ticket in triage and one that is not raised yet; a board of two columns; *)
(* a root unit with one unit below it and one not created yet; two customers; *)
(* two groups.                                                                *)
EXTENDS DeskPages, TLC

MCTickets == {"t1", "t2"}
MCRows == [t \in MCTickets |-> IF t = "t1" THEN "triage" ELSE "unborn"]

MCBoard == [order |-> <<"a", "b">>,
            lane |-> [c \in {"a", "b"} |-> IF c = "a" THEN <<"1", "2">> ELSE <<"3">>]]

(* An owner disables nothing, an item or a column.                           *)
MCDisablings == {{}, {"3"}, {"b"}}

MCUnits == [u \in {"u1", "u2", "u3"} |->
                CASE u = "u1" -> [parent |-> Top, level |-> 0]
                  [] u = "u2" -> [parent |-> "u1", level |-> 1]
                  [] u = "u3" -> [parent |-> Absent, level |-> 0]]

(* The tree as it is, or as it was before the unit below was created.        *)
MCTrees == {[u \in {"u1", "u2", "u3"} |-> MCUnits[u].parent],
            [u \in {"u1", "u2", "u3"} |-> IF u = "u1" THEN Top ELSE Absent]}

(* The two connections that serve unit updates can be exchanged.             *)
AnyCaller == Permutations(Callers)

(* Acyclic promises nothing once a re-parent has run beside another update.   *)
(* The server answers other administrators too, at any time and with the same *)
(* steps, so that what the page does while updates are in progress is not     *)
(* followed far: its next request is not, and beside two updates nothing is.  *)
PageIdle == selected = None /\ form = "closed" /\ ~deleting /\ moving = <<None, None>>
InProgress == {c \in Callers : calls[c].at # "idle"}
Apart ==
    mounted = "chart" =>
        /\ ~overlapped
        /\ InProgress # {} => asks = {} /\ (PageIdle \/ Cardinality(InProgress) = 1)
=============================================================================
