----------------------------- MODULE MCEntryPages ------------------------------
(* Two activities, one of them with a child; entries on two days; one pending *)
(* time entry.                                                                *)
EXTENDS EntryPages

CONSTANTS withKid, plain, kidOf, unitA, unitB

MCKids == [a \in Activities |-> IF a = withKid THEN {kidOf} ELSE {}]
MCUnit == [t \in Activities \cup {kidOf} |-> IF t = kidOf THEN unitB ELSE unitA]

MCItems ==
    {[id |-> 1, status |-> "draft", date |-> 1], [id |-> 2, status |-> "draft", date |-> 1],
     [id |-> 3, status |-> "approved", date |-> 2]}
=============================================================================
