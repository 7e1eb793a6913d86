------------------------------- MODULE QueryCache ------------------------------
(* What a page sees of one query of the client's cache.  A request reads the  *)
(* server at one moment and lands at another; a failed request is not retried *)
(* and keeps the data there was.  An invalidation of a query that has data    *)
(* drops the request in flight and starts another; the first request of a key *)
(* goes on, and its answer counts as fresh although it may be older.          *)

Cold(d) == [has |-> FALSE, data |-> d, error |-> FALSE, at |-> "idle", reply |-> d, late |-> FALSE]
Warm(d) == [Cold(d) EXCEPT !.has = TRUE]
(* late is history: was it invalidated while its first request was under way, *)
(* and not asked for again since?                                             *)
Queries(D) == [has : BOOLEAN, data : D, error : BOOLEAN,
               at : {"idle", "asked", "read"}, reply : D, late : BOOLEAN]

IsLoading(q) == ~q.has /\ q.at # "idle"

Asked(q) == [q EXCEPT !.at = "asked", !.reply = q.data, !.late = FALSE]
Refetched(q) == IF IsLoading(q) THEN [q EXCEPT !.late = TRUE] ELSE Asked(q)
ReadBy(q, d) == [q EXCEPT !.at = "read", !.reply = d]
Landed(q) == [q EXCEPT !.has = TRUE, !.data = q.reply, !.error = FALSE, !.at = "idle"]
Broken(q) == [q EXCEPT !.error = TRUE, !.at = "idle", !.reply = q.data]

(* Nothing is under way, and the last answer came after every invalidation.   *)
Settled(q) == q.at = "idle" /\ ~q.error /\ ~q.late
=============================================================================
