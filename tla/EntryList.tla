------------------------------- MODULE EntryList -------------------------------
(* The list and calendar tabs of the time-entries and expenses pages: filters *)
(* kept in the URL, rows filtered and sorted in the browser, a table that     *)
(* pages them, a calendar that marks every day with a status.                 *)
EXTENDS Integers, FiniteSets, SequencesExt

CONSTANTS
    Items,          \* the entries of the month: a set of [id, status, date]
    Dates,          \* days as numbers
    PageSize        \* 25

VARIABLES
    page,       \* the tab of the page: "list", "calendar" or "export"
    url,        \* [statuses, from, to]: the search parameters the list reads
    pager,      \* the page index the table keeps
    items       \* the entries the month query holds

listVars == <<page, url, pager, items>>

ListStatuses == {"draft", "submitted", "pending_manager", "pending_finance",
                 "approved", "rejected"}
NoDate == 0
Search == [statuses : SUBSET ListStatuses, from : Dates \cup {NoDate},
           to : Dates \cup {NoDate}]
Tabs == {"list", "calendar", "export"}

TypeOK ==
    /\ page \in Tabs
    /\ url \in Search
    /\ pager \in 0..Cardinality(Items)
    /\ items \subseteq Items

Init ==
    /\ page = "list"
    /\ url = [statuses |-> {}, from |-> NoDate, to |-> NoDate]
    /\ pager = 0
    /\ items \in SUBSET Items

-----------------------------------------------------------------------------
(* Rows: filtered by status and by day, the newest first.                    *)

Rows == {e \in items :
            /\ url.statuses # {} => e.status \in url.statuses
            /\ url.from # NoDate => e.date >= url.from
            /\ url.to # NoDate => e.date <= url.to}
SortedRows ==
    CHOOSE s \in SetToSeqs(Rows) : \A i, j \in DOMAIN s : i < j => s[i].date >= s[j].date
FiltersActive == url.statuses # {} \/ url.from # NoDate \/ url.to # NoDate

(* The table: the kept index is clamped to the pages there are.              *)
LeastOf(a, b) == IF a < b THEN a ELSE b
PageCount ==
    IF Rows = {} THEN 1 ELSE (Cardinality(Rows) + PageSize - 1) \div PageSize
(* A variant that trusts the kept index.                                     *)
CurrentPageKept == pager
CurrentPage == LeastOf(pager, PageCount - 1)
PageRows ==
    SubSeq(SortedRows, CurrentPage * PageSize + 1,
           LeastOf((CurrentPage + 1) * PageSize, Len(SortedRows)))

PreviousPage ==
    /\ page = "list" /\ PageCount > 1 /\ CurrentPage # 0
    /\ pager' = pager - 1
    /\ UNCHANGED <<page, url, items>>

NextPage ==
    /\ page = "list" /\ CurrentPage < PageCount - 1
    /\ pager' = LeastOf(PageCount - 1, pager + 1)
    /\ UNCHANGED <<page, url, items>>

-----------------------------------------------------------------------------
(* Filters.  A patch that leaves a parameter out, or gives it as undefined,  *)
(* keeps the parameter it finds.                                             *)

SetFilters(statuses, from, to) ==
    /\ page = "list"
    /\ url' = [url EXCEPT !.statuses = statuses,
                          !.from = IF from = NoDate THEN @ ELSE from,
                          !.to = IF to = NoDate THEN @ ELSE to]
    /\ UNCHANGED <<page, pager, items>>

ToggleStatus(s) ==
    SetFilters(IF s \in url.statuses THEN url.statuses \ {s} ELSE url.statuses \cup {s},
               NoDate, NoDate)
SelectAll ==
    SetFilters(IF url.statuses = ListStatuses THEN {} ELSE ListStatuses, NoDate, NoDate)

(* The range picker gives a start alone or both ends; its Clear gives none.  *)
PickDates(from, to) ==
    /\ to # NoDate => from <= to
    /\ SetFilters(url.statuses, from, to)
ClearDates ==
    /\ url.from # NoDate \/ url.to # NoDate
    /\ SetFilters(url.statuses, NoDate, NoDate)

ClearFilters ==
    /\ page = "list" /\ FiltersActive
    /\ url' = [url EXCEPT !.statuses = {}, !.from = NoDate, !.to = NoDate]
    /\ UNCHANGED <<page, pager, items>>

-----------------------------------------------------------------------------
(* Tabs.  Leaving the list drops the table and its index.                    *)

SwitchTab(t) ==
    /\ t # page
    /\ page' = t /\ pager' = 0
    /\ UNCHANGED <<url, items>>

OpenDetail(e) ==
    /\ page = "list" /\ e \in Rows
    /\ page' = "calendar" /\ pager' = 0
    /\ UNCHANGED <<url, items>>

(* Offered where the list is empty without a filter.                         *)
OpenNew ==
    /\ page = "list" /\ Rows = {} /\ ~FiltersActive
    /\ page' = "calendar" /\ pager' = 0
    /\ UNCHANGED <<url, items>>

(* The calendar navigates with a day and a month alone: the filters are gone.*)
SelectDay ==
    /\ page = "calendar"
    /\ url' = [statuses |-> {}, from |-> NoDate, to |-> NoDate]
    /\ UNCHANGED <<page, pager, items>>

(* The month query is refreshed after a mutation, the table stays mounted.   *)
Refetch ==
    /\ \E e \in Items : items' = IF e \in items THEN items \ {e} ELSE items \cup {e}
    /\ UNCHANGED <<page, url, pager>>

Next ==
    \/ PreviousPage \/ NextPage \/ SelectAll \/ ClearDates \/ ClearFilters \/ Refetch
    \/ OpenNew \/ SelectDay
    \/ \E s \in ListStatuses : ToggleStatus(s)
    \/ \E f \in Dates, t \in Dates \cup {NoDate} : PickDates(f, t)
    \/ \E t \in Tabs : SwitchTab(t)
    \/ \E e \in Items : OpenDetail(e)

Spec == Init /\ [][Next]_listVars

-----------------------------------------------------------------------------
(* However filters and refetches shrink the list under the kept index, the   *)
(* table never shows an empty page while there are rows, nor a row twice.    *)
PageNeverEmpty ==
    page = "list" /\ Rows # {} =>
        /\ PageRows # <<>>
        /\ IsInjective(PageRows)
        /\ Len(PageRows) <= PageSize
=============================================================================
