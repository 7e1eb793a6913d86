------------------------------- MODULE EntryForm -------------------------------
(* The form that adds a time entry to a day of the calendar tab: two effects  *)
(* load the child activities and the working group of what is selected, each  *)
(* with a request that is never cancelled, and their answers fill the form in *)
(* whatever order they arrive.                                                *)
EXTENDS Naturals, FiniteSets

CONSTANTS
    Activities,     \* what the activity select offers
    Kids,           \* Kids[a]: the children of a, in the order served
    Unit,           \* Unit[t]: the first unit of the first working group of t, or None
    Days,           \* the days of the calendar
    Today,          \* the day a URL without a date stands for
    None,           \* the empty string
    MaxMounts,      \* bound: how often the user leaves the tab and returns
    MaxOpenings,    \* bound: how often the form is opened
    MaxRequests,    \* bound: lookups in flight at once
    MaxFailures     \* bound: failures reported to one opening of the form

VARIABLES
    day,        \* the date of the URL, which the heading shows
    form,       \* isCreating and newEntry, with the mount of the component, the
                \* opening of the form in it and the saves of this opening so far
    cached,     \* the days whose cached list shows an entry
    kids,       \* the children offered by the second select
    kid,        \* childActivityId
    lookups,    \* lookups in flight: [for, of, n]
    loading,    \* [kids, unit]: the two spinners
    sending,    \* creations not answered yet: the posts in flight
    stored,     \* the posts the server made an entry of
    told        \* told[n]: failures reported to the user of the n-th opening

vars == <<day, form, cached, kids, kid, lookups, loading, sending, stored, told>>

Openings == 0..MaxOpenings
Targets == Activities \cup UNION {Kids[a] : a \in Activities}
Form == [open : BOOLEAN, mount : 0..MaxMounts, opening : Openings, tries : Nat, day : Days,
         activity : Activities \cup {None},
         unit : {Unit[t] : t \in Targets} \cup {None}, hours : {0, 1}]
Lookup == [for : {"kids", "unit"}, of : Targets, n : 1..MaxRequests]
(* What a post carries besides, the activity and the unit, decides nothing.  *)
Post == [mount : 0..MaxMounts, opening : Openings, try : Nat, day : Days]
Blank(m, n, d) == [open |-> TRUE, mount |-> m, opening |-> n, tries |-> 0, day |-> d,
                   activity |-> None, unit |-> None, hours |-> 0]

(* The state of the component is one of these: nothing waits without a       *)
(* lookup behind it that was made for the current or an earlier selection.   *)
TypeOK ==
    /\ day \in Days
    /\ form \in Form
    /\ cached \subseteq Days
    /\ kids \subseteq Targets
    /\ kid \in Targets \cup {None}
    /\ lookups \subseteq Lookup
    /\ loading \in [kids : BOOLEAN, unit : BOOLEAN]
    /\ sending \subseteq Post
    /\ stored \subseteq Post
    /\ told \in [Openings -> Nat]

Init ==
    /\ day = Today
    /\ form = [Blank(0, 0, day) EXCEPT !.open = FALSE]
    /\ cached = {}
    /\ kids = {}
    /\ kid = None
    /\ lookups = {}
    /\ loading = [kids |-> FALSE, unit |-> FALSE]
    /\ sending = {}
    /\ stored = {}
    /\ told = [n \in Openings |-> 0]

-----------------------------------------------------------------------------
(* What the two effects do after a render in which their dependencies        *)
(* changed.                                                                  *)

FirstKid(a) == IF Kids[a] = {} THEN None ELSE CHOOSE k \in Kids[a] : TRUE
Target(a, k) == IF k # None THEN k ELSE a
(* Lookups of the same thing are alike: the n-th one in flight.              *)
Alike(for, t) == Cardinality({q \in lookups : q.for = for /\ q.of = t})
Ask(for, t) == [for |-> for, of |-> t, n |-> Alike(for, t) + 1]
Latest(q) == q.n = Alike(q.for, q.of)

(* The dependencies of an effect are compared with those of the last render. *)
KidsEffect(a) == a # form.activity /\ a # None
UnitEffect(a, k) == (a # form.activity \/ k # kid) /\ Target(a, k) # None

Look(a, k) ==
    /\ Cardinality(lookups) + 2 <= MaxRequests
    /\ lookups' = lookups \cup (IF KidsEffect(a) THEN {Ask("kids", a)} ELSE {})
                           \cup (IF UnitEffect(a, k) THEN {Ask("unit", Target(a, k))} ELSE {})

-----------------------------------------------------------------------------
(* What the user does.                                                       *)

(* hasEntries is read from the cached list of the day.                       *)
HasEntries(d) == d \in cached

(* createEntry.isPending: a new mount knows nothing of what an earlier one   *)
(* sent.                                                                     *)
Pending == \E e \in sending : e.mount = form.mount

PickDay(d) ==
    /\ d # day
    /\ day' = d
    /\ UNCHANGED <<form, cached, kids, kid, lookups, loading, sending, stored, told>>

OpenForm ==
    /\ ~form.open /\ ~HasEntries(day) /\ ~Pending
    /\ form.opening < MaxOpenings
    /\ form' = Blank(form.mount, form.opening + 1, day)
    /\ kids' = {} /\ kid' = None
    /\ UNCHANGED <<day, cached, lookups, loading, sending, stored, told>>

PickActivity(a) ==
    /\ form.open /\ a # form.activity
    /\ Look(a, kid)
    /\ form' = [form EXCEPT !.activity = a]
    /\ loading' = [kids |-> TRUE, unit |-> TRUE]
    /\ UNCHANGED <<day, cached, kids, kid, sending, stored, told>>

PickKid(k) ==
    /\ form.open /\ k \in kids /\ k # kid
    /\ Look(form.activity, k)
    /\ kid' = k
    /\ loading' = [loading EXCEPT !.unit = TRUE]
    /\ UNCHANGED <<day, form, cached, kids, sending, stored, told>>

SetHours ==
    /\ form.open /\ form.hours = 0
    /\ form' = [form EXCEPT !.hours = 1]
    /\ UNCHANGED <<day, cached, kids, kid, lookups, loading, sending, stored, told>>

(* A variant of the save button that a pending save does not disable.        *)
CanSaveWhileSending == form.activity # None /\ form.unit # None

(* The button is disabled while a creation is pending and until an activity  *)
(* and a unit are there; the handler checks the hours itself.                *)
CanSave == ~Pending /\ form.activity # None /\ form.unit # None

Save ==
    /\ form.open /\ CanSave /\ form.hours > 0
    /\ form' = [form EXCEPT !.tries = @ + 1]
    /\ sending' = sending \cup {[mount |-> form.mount, opening |-> form.opening,
                                 try |-> form.tries + 1, day |-> form.day]}
    /\ UNCHANGED <<day, cached, kids, kid, lookups, loading, stored, told>>

Cancel ==
    /\ form.open /\ ~Pending
    /\ form' = [form EXCEPT !.open = FALSE]
    /\ UNCHANGED <<day, cached, kids, kid, lookups, loading, sending, stored, told>>

(* Another tab of the page and back: the component goes with its state and a *)
(* new one is mounted.  What the old one sent goes on; its lookups fill in   *)
(* nothing any more.                                                         *)
Leave ==
    /\ form.mount < MaxMounts
    /\ form' = [Blank(form.mount + 1, form.opening, day) EXCEPT !.open = FALSE]
    /\ kids' = {} /\ kid' = None
    /\ lookups' = {}
    /\ loading' = [kids |-> FALSE, unit |-> FALSE]
    /\ UNCHANGED <<day, cached, sending, stored, told>>

-----------------------------------------------------------------------------
(* Answers, in any order.                                                    *)

KidsArrive(q) ==
    /\ q.for = "kids"
    /\ LET k == FirstKid(q.of) IN
         /\ kids' = Kids[q.of]
         /\ kid' = k
         /\ form' = [form EXCEPT !.unit = None]
         /\ IF UnitEffect(form.activity, k)
              THEN /\ lookups' = (lookups \ {q}) \cup {Ask("unit", Target(form.activity, k))}
                   /\ loading' = [kids |-> FALSE, unit |-> TRUE]
              ELSE /\ lookups' = lookups \ {q}
                   /\ loading' = [loading EXCEPT !.kids = FALSE]
    /\ UNCHANGED <<day, cached, sending, stored, told>>

(* A variant in which only the answer for the current target stops the       *)
(* spinner.                                                                  *)
UnitArrivesIfCurrent(q) ==
    /\ q.for = "unit"
    /\ lookups' = lookups \ {q}
    /\ IF q.of = Target(form.activity, kid)
         THEN /\ form' = [form EXCEPT !.unit = Unit[q.of]]
              /\ loading' = [loading EXCEPT !.unit = FALSE]
         ELSE UNCHANGED <<form, loading>>
    /\ UNCHANGED <<day, cached, kids, kid, sending, stored, told>>

UnitArrives(q) ==
    /\ q.for = "unit"
    /\ form' = [form EXCEPT !.unit = Unit[q.of]]
    /\ lookups' = lookups \ {q}
    /\ loading' = [loading EXCEPT !.unit = FALSE]
    /\ UNCHANGED <<day, cached, kids, kid, sending, stored, told>>

(* A lookup that fails only reports it, and its spinner stops.               *)
LookupFails(q) ==
    /\ lookups' = lookups \ {q}
    /\ loading' = [loading EXCEPT ![q.for] = FALSE]
    /\ UNCHANGED <<day, form, cached, kids, kid, sending, stored, told>>

(* The server makes the entry before anyone hears of it.                     *)
Stores(e) ==
    /\ e \notin stored
    /\ stored' = stored \cup {e}
    /\ UNCHANGED <<day, form, cached, kids, kid, lookups, loading, sending, told>>

(* The creation succeeds: the callback closes the form, if the component     *)
(* that sent it is still there.                                              *)
Created(e) ==
    /\ e \in stored
    /\ sending' = sending \ {e}
    /\ form' = [form EXCEPT !.open = @ /\ e.mount # form.mount]
    /\ UNCHANGED <<day, cached, kids, kid, lookups, loading, stored, told>>

(* It fails, before or after the server stored the entry: it is reported,    *)
(* even to a user who has left, and an open form stays.                      *)
CreateFails(e) ==
    /\ told[e.opening] < MaxFailures
    /\ sending' = sending \ {e}
    /\ told' = [told EXCEPT ![e.opening] = @ + 1]
    /\ stored' \in {stored, stored \cup {e}}
    /\ UNCHANGED <<day, form, cached, kids, kid, lookups, loading>>

(* The list of a day comes back after a success, a change of day or a mount, *)
(* with what the server held when it read.                                   *)
ListArrives(d) ==
    /\ d \notin cached /\ \E e \in stored : e.day = d
    /\ cached' = cached \cup {d}
    /\ UNCHANGED <<day, form, kids, kid, lookups, loading, sending, stored, told>>

KidsAnswer == \E q \in lookups : q.for = "kids" /\ Latest(q) /\ (KidsArrive(q) \/ LookupFails(q))
UnitAnswer == \E q \in lookups : q.for = "unit" /\ Latest(q) /\ (UnitArrives(q) \/ LookupFails(q))
SendAnswer == \E e \in sending : Stores(e) \/ Created(e) \/ CreateFails(e)

Next ==
    \/ \E d \in Days : PickDay(d) \/ ListArrives(d)
    \/ \E a \in Activities : PickActivity(a)
    \/ \E k \in Targets : PickKid(k)
    \/ OpenForm \/ SetHours \/ Save \/ Cancel \/ Leave
    \/ KidsAnswer \/ UnitAnswer \/ SendAnswer

(* The network answers or fails: a request does not hang for ever. Nothing   *)
(* is assumed of the user.                                                   *)
Fairness == WF_vars(KidsAnswer) /\ WF_vars(UnitAnswer) /\ WF_vars(SendAnswer)

Spec == Init /\ [][Next]_vars /\ Fairness

-----------------------------------------------------------------------------
(* A form is worth one entry, and one more for every failure its user was    *)
(* told of; and of what one mount stored, all but one has been answered.     *)
(* Double clicks, edits while the save is pending, cancelling and opening    *)
(* the form again store nothing behind the user's back.                      *)
StoredOncePerReport ==
    /\ \A n \in Openings : Cardinality({e \in stored : e.opening = n}) <= told[n] + 1
    /\ \A e, f \in sending \cap stored : e.mount = f.mount => e = f

(* Leaving the tab does not change that: nothing is stored while an entry    *)
(* stored before is still unanswered.                                        *)
OneUnanswered == \A e, f \in sending \cap stored : e = f

(* Neither spinner of the form turns for ever, whichever lookups fail or are *)
(* overtaken.                                                                *)
SpinnersStop == \A s \in {"kids", "unit"} : loading[s] ~> ~loading[s]

(* "No working group found for this activity" is shown only for an activity  *)
(* that has none.                                                            *)
NoticeShown ==
    form.open /\ ~loading.kids /\ ~loading.unit /\ form.activity # None /\ form.unit = None
NoticeTruthful == NoticeShown => Unit[Target(form.activity, kid)] = None
=============================================================================
