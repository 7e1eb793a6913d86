------------------------------ MODULE ExportForm -------------------------------
(* The export form: a range of days, a count of what it holds, and a download *)
(* that is aborted after a minute unless the headers have come.  The count    *)
(* before it and the body after it have no timer.                             *)
EXTENDS Naturals

CONSTANTS
    Dates,          \* days as numbers
    MaxDays,        \* 365: the longest range
    MaxDownloads    \* bound: clicks on Download

VARIABLES
    range,      \* [from, to], 0 for a day not picked
    jobs,       \* jobs[n]: [at, range, timer]
    busy        \* isPending of useDownload, shared by all downloads

exportVars == <<range, jobs, busy>>

Ranges == [from : Dates \cup {0}, to : Dates \cup {0}]
Steps == {"unused", "counting", "waiting", "reading", "saved", "failed", "empty"}
Jobs == 1..MaxDownloads
Unused == [at |-> "unused", range |-> [from |-> 0, to |-> 0], timer |-> FALSE]

TypeOK ==
    /\ range \in Ranges
    /\ jobs \in [Jobs -> [at : Steps, range : Ranges, timer : BOOLEAN]]
    /\ busy \in BOOLEAN

Init ==
    /\ range \in Ranges
    /\ jobs = [n \in Jobs |-> Unused]
    /\ busy = FALSE

IsValid(r) ==
    /\ r.from # 0 /\ r.to # 0
    /\ r.from < r.to
    /\ r.to - r.from <= MaxDays

SetRange(r) ==
    /\ r # range
    /\ range' = r
    /\ UNCHANGED <<jobs, busy>>

(* The button is disabled while a download runs, not while its count does.   *)
HandleDownload(n) ==
    /\ IsValid(range) /\ ~busy
    /\ jobs[n].at = "unused"
    /\ jobs' = [jobs EXCEPT ![n].at = "counting", ![n].range = range]
    /\ UNCHANGED <<range, busy>>

Counted(n) ==
    /\ jobs[n].at = "counting"
    /\ \/ /\ jobs' = [jobs EXCEPT ![n].at = "waiting", ![n].timer = TRUE]
          /\ busy' = TRUE
       \/ /\ \E s \in {"empty", "failed"} : jobs' = [jobs EXCEPT ![n].at = s]
          /\ UNCHANGED busy
    /\ UNCHANGED range

(* The headers stop the timer.                                               *)
Headers(n) ==
    /\ jobs[n].at = "waiting"
    /\ jobs' = [jobs EXCEPT ![n].at = "reading", ![n].timer = FALSE]
    /\ UNCHANGED <<range, busy>>

End(n, s) ==
    /\ jobs' = [jobs EXCEPT ![n].at = s]
    /\ busy' = FALSE
    /\ UNCHANGED range

(* A minute without headers aborts the request; once they are here nothing   *)
(* does, however long the body takes.                                        *)
TimesOut(n) == jobs[n].at = "waiting" /\ jobs[n].timer /\ End(n, "failed")
Breaks(n) == jobs[n].at \in {"waiting", "reading"} /\ End(n, "failed")
Saved(n) == jobs[n].at = "reading" /\ End(n, "saved")

Next ==
    \/ \E r \in Ranges : SetRange(r)
    \/ \E n \in Jobs : \/ HandleDownload(n) \/ Counted(n) \/ Headers(n)
                       \/ TimesOut(n) \/ Breaks(n) \/ Saved(n)

Spec == Init /\ [][Next]_exportVars
=============================================================================
