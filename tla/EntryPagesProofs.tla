--------------------------- MODULE EntryPagesProofs ----------------------------
(* The pages about entries, for any bounds, activities, days, rows and        *)
(* viewers: the types, and the safety of each page.  One section per page     *)
(* proves that its steps preserve its invariant; the theorems at the end put  *)
(* them together, since a step of one page leaves the others alone.           *)
EXTENDS EntryPages, Sequences, FiniteSetTheorems, WellFoundedInduction, TLAPS

-----------------------------------------------------------------------------
(* Sizes of finite sets.  Each page has its own instance of the operator.     *)

LEMMA SameSize ==
    \A S : Form!Cardinality(S) = Cardinality(S) /\ List!Cardinality(S) = Cardinality(S)
    BY DEF Form!Cardinality, List!Cardinality, Cardinality

LEMMA UnionBound ==
    ASSUME NEW S, NEW T, IsFiniteSet(S), IsFiniteSet(T)
    PROVE  /\ IsFiniteSet(S \cup T)
           /\ Cardinality(S) \in Nat /\ Cardinality(T) \in Nat
           /\ Cardinality(S \cup T) \in Nat
           /\ Cardinality(S \cup T) <= Cardinality(S) + Cardinality(T)
<1>1. /\ IsFiniteSet(S \cup T)
      /\ Cardinality(S \cup T) = Cardinality(S) + Cardinality(T) - Cardinality(S \cap T)
    BY FS_Union
<1>2. IsFiniteSet(S \cap T)
    BY FS_Intersection
<1>3. Cardinality(S) \in Nat /\ Cardinality(T) \in Nat /\ Cardinality(S \cap T) \in Nat
      /\ Cardinality(S \cup T) \in Nat
    BY <1>1, <1>2, FS_CardinalityType
<1> QED BY <1>1, <1>3

LEMMA SmallSet ==
    ASSUME NEW x, NEW S, S = {} \/ S = {x}
    PROVE  IsFiniteSet(S) /\ Cardinality(S) \in {0, 1}
<1>1. CASE S = {}
    BY <1>1, FS_EmptySet
<1>2. CASE S = {x}
    BY <1>2, FS_Singleton
<1> QED BY <1>1, <1>2

LEMMA SubsetBound ==
    ASSUME NEW S, IsFiniteSet(S), NEW T, T \subseteq S
    PROVE  /\ IsFiniteSet(T) /\ Cardinality(T) \in Nat /\ Cardinality(S) \in Nat
           /\ Cardinality(T) <= Cardinality(S)
<1>1. IsFiniteSet(T) /\ Cardinality(T) <= Cardinality(S)
    BY FS_Subset
<1> QED BY <1>1, FS_CardinalityType

-----------------------------------------------------------------------------
(* The day form.  StoredOncePerReport is not inductive: an open form must     *)
(* have been told of every attempt but the one that is pending, and the next  *)
(* attempt must have a number that no post of its opening has.                *)

Posted == sending \cup stored

(* A mount has one post in flight, of the form that is open in it.            *)
Sendings ==
    /\ \A e, f \in sending : e.mount = f.mount => e = f
    /\ \A e \in sending : form.open /\ e.mount = form.mount => e.opening = form.opening

(* The posts of an opening are numbered, one more than its failures at most.  *)
Copies ==
    /\ \A e \in Posted : /\ e.opening <= form.opening
                         /\ e.try \in 1..(told[e.opening] + 1)
                         /\ form.open /\ e.opening = form.opening => e.try <= form.tries
    /\ \A e, f \in Posted : e.opening = f.opening /\ e.try = f.try => e = f

(* An open form has heard of its attempts, but for a pending one.             *)
Heard ==
    form.open => /\ form.tries <= told[form.opening] + 1
                 /\ ~Form!Pending => form.tries <= told[form.opening]

(* A lookup of children is one of an activity; there is room for the next     *)
(* number.                                                                    *)
Lookups ==
    /\ \A q \in lookups : q.for = "kids" => q.of \in Activities
    /\ IsFiniteSet(lookups) /\ Cardinality(lookups) <= MaxRequests

FormInv == Form!TypeOK /\ Lookups /\ Sendings /\ Copies /\ Heard

LEMMA FormFields ==
    ASSUME FormInv
    PROVE  /\ form.opening \in Form!Openings /\ form.opening \in Nat
           /\ form.tries \in Nat /\ form.mount \in 0..MaxMounts /\ form.day \in Days
           /\ form.open \in BOOLEAN
           /\ told \in [Form!Openings -> Nat] /\ told[form.opening] \in Nat
           /\ form \in Form!Form
           /\ \A e \in Posted : /\ e \in Form!Post /\ e.try \in Nat
                                /\ e.opening \in Form!Openings /\ e.opening \in Nat
                                /\ told[e.opening] \in Nat
<1>1. /\ form \in Form!Form /\ sending \subseteq Form!Post /\ stored \subseteq Form!Post
      /\ told \in [Form!Openings -> Nat]
    BY DEF FormInv, Form!TypeOK
<1>2. Form!Openings \subseteq Nat
    BY BoundsAssumption DEF Form!Openings
<1>3. \A e \in Form!Post : e.opening \in Form!Openings /\ e.try \in Nat
    BY DEF Form!Post
<1>4. /\ form.opening \in Form!Openings /\ form.tries \in Nat
      /\ form.mount \in 0..MaxMounts /\ form.day \in Days /\ form.open \in BOOLEAN
    BY <1>1 DEF Form!Form
<1> QED BY <1>1, <1>2, <1>3, <1>4 DEF Posted

(* How many lookups are alike.                                                *)
LEMMA AlikeBound ==
    ASSUME IsFiniteSet(lookups), NEW for, NEW t
    PROVE  Form!Alike(for, t) \in Nat /\ Form!Alike(for, t) <= Cardinality(lookups)
<1> DEFINE same == {q \in lookups : q.for = for /\ q.of = t}
<1>1. Cardinality(same) \in Nat /\ Cardinality(same) <= Cardinality(lookups)
    BY SubsetBound
<1>2. Form!Alike(for, t) = Cardinality(same)
    BY SameSize DEF Form!Alike
<1> QED BY <1>1, <1>2

(* A selection adds at most a lookup of children and a lookup of a unit.      *)
LEMMA LookStep ==
    ASSUME FormInv, NEW a \in Activities \cup {None}, NEW k \in Form!Targets \cup {None},
           Form!Look(a, k)
    PROVE  lookups' \subseteq Form!Lookup /\ Lookups'
<1> DEFINE ks == IF Form!KidsEffect(a) THEN {Form!Ask("kids", a)} ELSE {}
           us == IF Form!UnitEffect(a, k) THEN {Form!Ask("unit", Form!Target(a, k))} ELSE {}
<1>1. IsFiniteSet(lookups) /\ Cardinality(lookups) \in Nat
    BY FS_CardinalityType DEF FormInv, Lookups
<1>2. Cardinality(lookups) + 2 <= MaxRequests /\ lookups' = (lookups \cup ks) \cup us
    BY SameSize DEF Form!Look
<1>3. MaxRequests \in Nat
    BY BoundsAssumption
<1>4. \A for \in {"kids", "unit"}, t \in Form!Targets : Form!Ask(for, t) \in Form!Lookup
    <2> SUFFICES ASSUME NEW for \in {"kids", "unit"}, NEW t \in Form!Targets
                 PROVE  Form!Ask(for, t) \in Form!Lookup
        OBVIOUS
    <2>1. Form!Alike(for, t) \in Nat /\ Form!Alike(for, t) <= Cardinality(lookups)
        BY <1>1, AlikeBound
    <2>2. Form!Alike(for, t) + 1 \in 1..MaxRequests
        BY <1>1, <1>2, <1>3, <2>1
    <2> QED BY <2>2 DEF Form!Ask, Form!Lookup
<1>5. ks \subseteq Form!Lookup /\ us \subseteq Form!Lookup
    <2>1. Form!KidsEffect(a) => a \in Form!Targets
        BY DEF Form!KidsEffect, Form!Targets
    <2>2. Form!UnitEffect(a, k) => Form!Target(a, k) \in Form!Targets
        BY DEF Form!UnitEffect, Form!Target, Form!Targets
    <2> QED BY <1>4, <2>1, <2>2
<1>6. \A q \in ks \cup us : q.for = "kids" => q.of \in Activities
    BY DEF Form!Ask, Form!KidsEffect
<1>7. /\ IsFiniteSet(ks) /\ Cardinality(ks) \in {0, 1}
      /\ IsFiniteSet(us) /\ Cardinality(us) \in {0, 1}
    BY SmallSet
<1> HIDE DEF ks, us
<1>8. IsFiniteSet(lookups') /\ Cardinality(lookups') <= Cardinality(lookups) + 2
    <2>1. /\ IsFiniteSet(lookups \cup ks) /\ Cardinality(lookups \cup ks) \in Nat
          /\ Cardinality(lookups \cup ks) <= Cardinality(lookups) + Cardinality(ks)
        BY <1>1, <1>7, UnionBound
    <2>2. /\ IsFiniteSet(lookups') /\ Cardinality(lookups') \in Nat
          /\ Cardinality(lookups') <= Cardinality(lookups \cup ks) + Cardinality(us)
        BY <1>2, <1>7, <2>1, UnionBound
    <2> QED BY <1>1, <1>7, <2>1, <2>2
<1>9. Cardinality(lookups') <= MaxRequests
    <2>1. Cardinality(lookups') \in Nat
        BY <1>8, FS_CardinalityType
    <2> QED BY <1>1, <1>2, <1>3, <1>8, <2>1
<1>10. lookups \subseteq Form!Lookup
    BY DEF FormInv, Form!TypeOK
<1> QED
    BY <1>2, <1>5, <1>6, <1>8, <1>9, <1>10 DEF FormInv, Lookups

(* An answer removes its lookup and may ask for one unit.                     *)
LEMMA AnswerLookups ==
    ASSUME FormInv, NEW q \in lookups, NEW new,
           new = {} \/ (q.for = "kids" /\ \E t \in Form!Targets : new = {Form!Ask("unit", t)}),
           lookups' = (lookups \ {q}) \cup new
    PROVE  lookups' \subseteq Form!Lookup /\ Lookups'
<1>1. IsFiniteSet(lookups) /\ Cardinality(lookups) \in Nat /\ lookups \subseteq Form!Lookup
      /\ Cardinality(lookups) <= MaxRequests /\ MaxRequests \in Nat
    BY FS_CardinalityType, BoundsAssumption DEF FormInv, Lookups, Form!TypeOK
<1>2. IsFiniteSet(lookups \ {q}) /\ Cardinality(lookups \ {q}) = Cardinality(lookups) - 1
      /\ Cardinality(lookups) > 0
    BY <1>1, FS_RemoveElement, FS_EmptySet, FS_CardinalityType
<1>3. CASE new = {}
    BY <1>1, <1>2, <1>3 DEF FormInv, Lookups
<1>4. ASSUME q.for = "kids", NEW t \in Form!Targets, new = {Form!Ask("unit", t)}
      PROVE  lookups' \subseteq Form!Lookup /\ Lookups'
    <2> DEFINE same == {p \in lookups : p.for = "unit" /\ p.of = t}
    <2>1. Cardinality(same) \in Nat /\ Cardinality(same) <= Cardinality(lookups \ {q})
        <3>1. same \subseteq lookups \ {q}
            BY <1>4
        <3> QED BY <1>2, <3>1, SubsetBound
    <2>2. Form!Alike("unit", t) = Cardinality(same)
        BY SameSize DEF Form!Alike
    <2> HIDE DEF same
    <2>3. Form!Alike("unit", t) + 1 \in 1..MaxRequests
        BY <1>1, <1>2, <2>1, <2>2
    <2>4. Form!Ask("unit", t) \in Form!Lookup /\ Form!Ask("unit", t).for = "unit"
        BY <2>3 DEF Form!Ask, Form!Lookup
    <2>5. /\ IsFiniteSet((lookups \ {q}) \cup new)
          /\ Cardinality((lookups \ {q}) \cup new) <= Cardinality(lookups)
        <3>1. IsFiniteSet(new) /\ Cardinality(new) \in {0, 1}
            BY <1>4, SmallSet
        <3>2. /\ IsFiniteSet((lookups \ {q}) \cup new)
              /\ Cardinality((lookups \ {q}) \cup new) \in Nat
              /\ Cardinality((lookups \ {q}) \cup new)
                   <= Cardinality(lookups \ {q}) + Cardinality(new)
            BY <1>2, <3>1, UnionBound
        <3> QED BY <1>1, <1>2, <3>1, <3>2
    <2>6. Cardinality(lookups') <= MaxRequests
        <3>1. Cardinality(lookups') \in Nat
            BY <2>5, FS_CardinalityType
        <3> QED BY <1>1, <2>5, <3>1
    <2>7. \A p \in lookups' : p.for = "kids" => p.of \in Activities
        BY <1>4, <2>4 DEF FormInv, Lookups
    <2> QED
        BY <1>1, <1>4, <2>4, <2>5, <2>6, <2>7 DEF Lookups
<1> QED BY <1>3, <1>4

(* Steps that leave the attempts alone.                                       *)
LEMMA AttemptsKept ==
    ASSUME FormInv, form'.opening = form.opening, form'.open = form.open,
           form'.mount = form.mount, form'.tries = form.tries,
           UNCHANGED <<sending, stored, told>>
    PROVE  Sendings' /\ Copies' /\ Heard'
    BY DEF FormInv, Sendings, Copies, Heard, Posted, Form!Pending

(* Choosing a day, an activity, a child, the hours.                           *)
LEMMA FormEdits ==
    ASSUME FormInv,
           \/ \E d \in Days : Form!PickDay(d)
           \/ \E a \in Activities : Form!PickActivity(a)
           \/ \E k \in Form!Targets : Form!PickKid(k)
           \/ Form!SetHours
    PROVE  FormInv'
<1>1. form \in Form!Form /\ loading \in [kids : BOOLEAN, unit : BOOLEAN]
    BY DEF FormInv, Form!TypeOK
<1>2. CASE \E d \in Days : Form!PickDay(d)
    BY <1>2 DEF Form!PickDay, FormInv, Form!TypeOK, Lookups, Sendings, Copies, Heard, Posted,
                Form!Pending
<1>3. ASSUME NEW a \in Activities, Form!PickActivity(a) PROVE FormInv'
    <2>1. kid \in Form!Targets \cup {None}
        BY DEF FormInv, Form!TypeOK
    <2>2. lookups' \subseteq Form!Lookup /\ Lookups'
        BY <1>3, <2>1, LookStep DEF Form!PickActivity
    <2>3. form' \in Form!Form /\ form'.opening = form.opening /\ form'.open = form.open
          /\ form'.mount = form.mount /\ form'.tries = form.tries
        BY <1>1, <1>3 DEF Form!PickActivity, Form!Form
    <2>4. Sendings' /\ Copies' /\ Heard'
        BY <1>3, <2>3, AttemptsKept DEF Form!PickActivity
    <2> QED
        BY <1>3, <2>2, <2>3, <2>4 DEF Form!PickActivity, FormInv, Form!TypeOK
<1>4. ASSUME NEW k \in Form!Targets, Form!PickKid(k) PROVE FormInv'
    <2>1. form.activity \in Activities \cup {None}
        BY <1>1 DEF Form!Form
    <2>2. lookups' \subseteq Form!Lookup /\ Lookups'
        BY <1>4, <2>1, LookStep DEF Form!PickKid
    <2>3. Sendings' /\ Copies' /\ Heard'
        BY <1>4, AttemptsKept DEF Form!PickKid
    <2>4. loading' \in [kids : BOOLEAN, unit : BOOLEAN]
        BY <1>1, <1>4 DEF Form!PickKid
    <2> QED
        BY <1>4, <2>2, <2>3, <2>4 DEF Form!PickKid, FormInv, Form!TypeOK
<1>5. CASE Form!SetHours
    <2>1. form' \in Form!Form /\ form'.opening = form.opening /\ form'.open = form.open
          /\ form'.mount = form.mount /\ form'.tries = form.tries
        BY <1>1, <1>5 DEF Form!SetHours, Form!Form
    <2>2. Sendings' /\ Copies' /\ Heard'
        BY <1>5, <2>1, AttemptsKept DEF Form!SetHours
    <2> QED
        BY <1>5, <2>1, <2>2 DEF Form!SetHours, FormInv, Form!TypeOK, Lookups
<1> QED BY <1>2, <1>3, <1>4, <1>5

(* Another opening has no posts yet.                                          *)
LEMMA FormOpens ==
    ASSUME FormInv, Form!OpenForm
    PROVE  FormInv'
<1>1. /\ form.opening + 1 \in Form!Openings /\ form.opening \in Nat
      /\ UNCHANGED <<sending, stored, told>>
    BY FormFields, BoundsAssumption DEF Form!OpenForm, Form!Openings
<1>2. /\ form' \in Form!Form /\ form'.opening = form.opening + 1 /\ form'.open
      /\ form'.mount = form.mount /\ form'.tries = 0
    BY <1>1, FormFields DEF Form!OpenForm, Form!Blank, Form!Form, FormInv, Form!TypeOK
<1>3. Sendings'
    BY <1>1, <1>2 DEF Form!OpenForm, Form!Pending, Sendings, FormInv
<1>4. Copies'
    <2>1. \A e \in Posted : e.opening \in Nat /\ e.opening < form.opening + 1
        BY <1>1, FormFields DEF FormInv, Copies
    <2>2. Posted' = Posted
        BY <1>1 DEF Posted
    <2> QED
        BY <1>1, <1>2, <2>1, <2>2, FormFields DEF FormInv, Copies
<1>5. Heard'
    <2>1. told[form.opening + 1] \in Nat
        BY <1>1, FormFields
    <2> QED BY <1>1, <1>2, <2>1 DEF Heard
<1> QED
    BY <1>2, <1>3, <1>4, <1>5 DEF Form!OpenForm, FormInv, Form!TypeOK, Lookups

(* A save takes the next number; the form has heard of all before it.         *)
LEMMA FormSaves ==
    ASSUME FormInv, Form!Save
    PROVE  FormInv'
<1> DEFINE new == [mount |-> form.mount, opening |-> form.opening,
                   try |-> form.tries + 1, day |-> form.day]
<1>1. /\ form.open /\ ~Form!Pending /\ sending' = sending \cup {new}
      /\ UNCHANGED <<stored, told>>
    BY DEF Form!Save, Form!CanSave
<1>2. /\ form' \in Form!Form /\ form'.opening = form.opening /\ form'.open
      /\ form'.mount = form.mount /\ form'.tries = form.tries + 1
    BY <1>1, FormFields DEF Form!Save, Form!Form
<1>3. /\ new \in Form!Post /\ new.opening = form.opening /\ new.mount = form.mount
      /\ new.try = form.tries + 1
    BY FormFields DEF Form!Post
<1>4. Posted' = Posted \cup {new} /\ sending \subseteq Posted
    BY <1>1 DEF Posted
<1> HIDE DEF new
<1>5. form.tries <= told[form.opening]
    BY <1>1 DEF FormInv, Heard
<1>6. \A e \in sending : e.mount # form.mount
    BY <1>1 DEF Form!Pending
<1>7. Sendings'
    BY <1>1, <1>2, <1>3, <1>6 DEF FormInv, Sendings
<1>8. Copies'
    <2>1. \A e \in Posted : e.opening = form.opening => e.try <= form.tries
        BY <1>1 DEF FormInv, Copies
    <2>2. ASSUME NEW e \in Posted'
          PROVE  /\ e.opening <= form'.opening
                 /\ e.try \in 1..(told'[e.opening] + 1)
                 /\ form'.open /\ e.opening = form'.opening => e.try <= form'.tries
        <3>1. CASE e \in Posted
            BY <1>1, <1>2, <2>1, <3>1, FormFields DEF FormInv, Copies
        <3>2. CASE e = new
            BY <1>1, <1>2, <1>3, <1>5, <3>2, FormFields
        <3> QED BY <1>4, <3>1, <3>2
    <2>3. ASSUME NEW e \in Posted', NEW f \in Posted', e.opening = f.opening, e.try = f.try
          PROVE  e = f
        <3>1. CASE e \in Posted /\ f \in Posted
            BY <2>3, <3>1 DEF FormInv, Copies
        <3>2. CASE e = new /\ f \in Posted
            BY <1>3, <2>1, <2>3, <3>2, FormFields
        <3>3. CASE e \in Posted /\ f = new
            BY <1>3, <2>1, <2>3, <3>3, FormFields
        <3> QED BY <1>4, <3>1, <3>2, <3>3
    <2> QED BY <2>2, <2>3 DEF Copies
<1>9. Heard'
    <2>1. new \in sending' /\ new.mount = form'.mount
        BY <1>1, <1>2, <1>3
    <2>2. Form!Pending'
        BY <2>1 DEF Form!Pending
    <2> QED BY <1>1, <1>2, <1>5, <2>2, FormFields DEF Heard
<1> QED
    BY <1>1, <1>2, <1>3, <1>7, <1>8, <1>9 DEF Form!Save, FormInv, Form!TypeOK, Lookups

(* A closed form leaves the posts as they are.                                *)
LEMMA PostsKept ==
    ASSUME FormInv, ~form'.open, form'.opening = form.opening,
           UNCHANGED <<sending, stored, told>>
    PROVE  Sendings' /\ Copies' /\ Heard'
    BY DEF FormInv, Sendings, Copies, Heard, Posted

(* Cancelling, and another tab and back, close the form.                      *)
LEMMA FormCloses ==
    ASSUME FormInv, Form!Cancel \/ Form!Leave
    PROVE  FormInv'
<1>1. CASE Form!Cancel
    <2>1. form' \in Form!Form /\ form'.opening = form.opening /\ ~form'.open
        BY <1>1, FormFields DEF Form!Cancel, Form!Form
    <2>2. Sendings' /\ Copies' /\ Heard'
        BY <1>1, <2>1, PostsKept DEF Form!Cancel
    <2> QED
        BY <1>1, <2>1, <2>2 DEF Form!Cancel, FormInv, Form!TypeOK, Lookups
<1>2. CASE Form!Leave
    <2>1. form.mount + 1 \in 0..MaxMounts
        BY <1>2, FormFields, BoundsAssumption DEF Form!Leave
    <2>2. form' \in Form!Form /\ form'.opening = form.opening /\ ~form'.open
        BY <1>2, <2>1, FormFields
        DEF Form!Leave, Form!Blank, Form!Form, FormInv, Form!TypeOK
    <2>3. Sendings' /\ Copies' /\ Heard'
        BY <1>2, <2>2, PostsKept DEF Form!Leave
    <2>4. Lookups'
        BY <1>2, FS_EmptySet, BoundsAssumption DEF Form!Leave, Lookups
    <2> QED
        BY <1>2, <2>2, <2>3, <2>4 DEF Form!Leave, FormInv, Form!TypeOK
<1> QED BY <1>1, <1>2

(* The server makes the entry; the list of a day comes back.                  *)
LEMMA FormStores ==
    ASSUME FormInv,
           (\E e \in sending : Form!Stores(e)) \/ (\E d \in Days : Form!ListArrives(d))
    PROVE  FormInv'
<1>1. CASE \E d \in Days : Form!ListArrives(d)
    BY <1>1 DEF Form!ListArrives, FormInv, Form!TypeOK, Lookups, Sendings, Copies, Heard,
                Posted, Form!Pending
<1>2. ASSUME NEW e \in sending, Form!Stores(e) PROVE FormInv'
    <2>1. stored' = stored \cup {e} /\ stored' \subseteq Form!Post /\ Posted' = Posted
        BY <1>2 DEF Form!Stores, FormInv, Form!TypeOK, Posted
    <2> QED
        BY <1>2, <2>1
        DEF Form!Stores, FormInv, Form!TypeOK, Lookups, Sendings, Copies, Heard, Form!Pending
<1> QED BY <1>1, <1>2

(* The answer to a creation ends the attempt.                                 *)
LEMMA FormAnswered ==
    ASSUME FormInv, NEW e \in sending, Form!Created(e) \/ Form!CreateFails(e)
    PROVE  FormInv'
<1>1. /\ sending' = sending \ {e} /\ e \in Posted /\ sending \subseteq Posted
      /\ stored' \subseteq stored \cup {e}
    BY DEF Form!Created, Form!CreateFails, Posted
<1>2. Posted' \subseteq Posted /\ stored' \subseteq Form!Post /\ sending' \subseteq Form!Post
    BY <1>1 DEF Posted, FormInv, Form!TypeOK
<1>3. \A f, g \in sending' : f.mount = g.mount => f = g
    BY <1>1 DEF FormInv, Sendings
<1>4. ASSUME e.mount # form.mount, form'.mount = form.mount PROVE Form!Pending' = Form!Pending
    BY <1>1, <1>4 DEF Form!Pending
<1>5. CASE Form!Created(e)
    <2>1. /\ form' \in Form!Form /\ form'.opening = form.opening /\ form'.tries = form.tries
          /\ form'.mount = form.mount /\ form'.open = (form.open /\ e.mount # form.mount)
        BY <1>5, FormFields DEF Form!Created, Form!Form
    <2>2. told' = told
        BY <1>5 DEF Form!Created
    <2>3. Sendings'
        BY <1>1, <1>3, <2>1 DEF FormInv, Sendings
    <2>4. Copies'
        BY <1>2, <2>1, <2>2 DEF FormInv, Copies
    <2>5. Heard'
        BY <1>4, <2>1, <2>2 DEF FormInv, Heard
    <2> QED
        BY <1>2, <1>5, <2>1, <2>3, <2>4, <2>5 DEF Form!Created, FormInv, Form!TypeOK, Lookups
<1>6. CASE Form!CreateFails(e)
    <2>1. form' = form /\ told' = [told EXCEPT ![e.opening] = @ + 1]
        BY <1>6 DEF Form!CreateFails
    <2>2. /\ told' \in [Form!Openings -> Nat]
          /\ told'[e.opening] = told[e.opening] + 1
          /\ \A n \in Form!Openings : told[n] <= told'[n]
        BY <1>1, <2>1, FormFields
    <2>3. Sendings'
        BY <1>1, <1>3, <2>1 DEF FormInv, Sendings
    <2>4. Copies'
        <3>1. ASSUME NEW f \in Posted'
              PROVE  /\ f.opening <= form'.opening
                     /\ f.try \in 1..(told'[f.opening] + 1)
                     /\ form'.open /\ f.opening = form'.opening => f.try <= form'.tries
            <4>1. f \in Posted /\ told[f.opening] \in Nat /\ told'[f.opening] \in Nat
                  /\ told[f.opening] <= told'[f.opening]
                BY <1>2, <2>2, FormFields
            <4> QED BY <2>1, <4>1 DEF FormInv, Copies
        <3> QED BY <1>2, <3>1 DEF FormInv, Copies
    <2>5. Heard'
        <3>1. /\ told[form.opening] \in Nat /\ told'[form.opening] \in Nat
              /\ told[form.opening] <= told'[form.opening] /\ form.tries \in Nat
            BY <2>2, FormFields
        <3>2. CASE e.mount = form.mount /\ form.open
            <4>1. e.opening = form.opening
                BY <3>2 DEF FormInv, Sendings
            <4> QED BY <2>1, <2>2, <3>1, <3>2, <4>1 DEF FormInv, Heard
        <3>3. CASE e.mount # form.mount
            BY <1>4, <2>1, <3>1, <3>3 DEF FormInv, Heard
        <3>4. CASE ~form.open
            BY <2>1, <3>4 DEF Heard
        <3> QED BY <3>2, <3>3, <3>4
    <2> QED
        BY <1>2, <1>6, <2>1, <2>2, <2>3, <2>4, <2>5
        DEF Form!CreateFails, FormInv, Form!TypeOK, Lookups
<1> QED BY <1>5, <1>6

(* The answers to the lookups fill the form in.                               *)
LEMMA FormFilled ==
    ASSUME FormInv, Form!KidsAnswer \/ Form!UnitAnswer
    PROVE  FormInv'
<1> PICK q \in lookups :
        Form!KidsArrive(q) \/ Form!UnitArrives(q) \/ Form!LookupFails(q)
    BY DEF Form!KidsAnswer, Form!UnitAnswer
<1>1. /\ form \in Form!Form /\ loading \in [kids : BOOLEAN, unit : BOOLEAN]
      /\ q \in Form!Lookup /\ q.of \in Form!Targets /\ q.for \in {"kids", "unit"}
    BY DEF FormInv, Form!TypeOK, Form!Lookup
<1>2. CASE Form!KidsArrive(q)
    <2> DEFINE k == Form!FirstKid(q.of)
    <2>1. q.for = "kids" /\ q.of \in Activities /\ Kids[q.of] \subseteq Form!Targets
        BY <1>2 DEF Form!KidsArrive, FormInv, Lookups, Form!Targets
    <2>2. k \in Form!Targets \cup {None}
        BY <2>1 DEF Form!FirstKid
    <2>3. form.activity \in Activities \cup {None}
        BY <1>1 DEF Form!Form
    <2>4. Form!UnitEffect(form.activity, k) => Form!Target(form.activity, k) \in Form!Targets
        BY <2>2, <2>3 DEF Form!UnitEffect, Form!Target, Form!Targets
    <2>5. lookups' \subseteq Form!Lookup /\ Lookups'
        <3>1. CASE Form!UnitEffect(form.activity, k)
            <4>1. lookups' = (lookups \ {q}) \cup {Form!Ask("unit", Form!Target(form.activity, k))}
                BY <1>2, <3>1 DEF Form!KidsArrive
            <4> QED BY <2>1, <2>4, <3>1, <4>1, AnswerLookups
        <3>2. CASE ~Form!UnitEffect(form.activity, k)
            <4>1. lookups' = (lookups \ {q}) \cup {}
                BY <1>2, <3>2 DEF Form!KidsArrive
            <4> QED BY <4>1, AnswerLookups
        <3> QED BY <3>1, <3>2
    <2>6. form' \in Form!Form /\ form'.opening = form.opening /\ form'.open = form.open
          /\ form'.mount = form.mount /\ form'.tries = form.tries
        BY <1>1, <1>2 DEF Form!KidsArrive, Form!Form
    <2>7. loading' \in [kids : BOOLEAN, unit : BOOLEAN]
        <3>1. \/ loading' = [kids |-> FALSE, unit |-> TRUE]
              \/ loading' = [loading EXCEPT !.kids = FALSE]
            BY <1>2 DEF Form!KidsArrive
        <3>2. [kids |-> FALSE, unit |-> TRUE] \in [kids : BOOLEAN, unit : BOOLEAN]
            OBVIOUS
        <3>3. [loading EXCEPT !.kids = FALSE] \in [kids : BOOLEAN, unit : BOOLEAN]
            BY <1>1
        <3> QED BY <3>1, <3>2, <3>3
    <2>8. Sendings' /\ Copies' /\ Heard'
        BY <1>2, <2>6, AttemptsKept DEF Form!KidsArrive
    <2>9. kids' \subseteq Form!Targets /\ kid' \in Form!Targets \cup {None}
          /\ UNCHANGED <<day, cached, sending, stored, told>>
        BY <1>2, <2>1, <2>2 DEF Form!KidsArrive
    <2> QED
        BY <2>5, <2>6, <2>7, <2>8, <2>9 DEF FormInv, Form!TypeOK
<1>3. CASE Form!UnitArrives(q) \/ Form!LookupFails(q)
    <2>1. lookups' = (lookups \ {q}) \cup {}
        BY <1>3 DEF Form!UnitArrives, Form!LookupFails
    <2>2. lookups' \subseteq Form!Lookup /\ Lookups'
        BY <2>1, AnswerLookups
    <2>3. form' \in Form!Form /\ form'.opening = form.opening /\ form'.open = form.open
          /\ form'.mount = form.mount /\ form'.tries = form.tries
        BY <1>1, <1>3 DEF Form!UnitArrives, Form!LookupFails, Form!Form
    <2>4. loading' \in [kids : BOOLEAN, unit : BOOLEAN]
        BY <1>1, <1>3 DEF Form!UnitArrives, Form!LookupFails
    <2>5. UNCHANGED <<day, cached, kids, kid, sending, stored, told>>
        BY <1>3 DEF Form!UnitArrives, Form!LookupFails
    <2>6. Sendings' /\ Copies' /\ Heard'
        BY <2>3, <2>5, AttemptsKept
    <2> QED
        BY <2>2, <2>3, <2>4, <2>5, <2>6 DEF FormInv, Form!TypeOK
<1> QED BY <1>2, <1>3

LEMMA FormInitially ==
    ASSUME Form!Init
    PROVE  FormInv
<1>1. 0 \in Form!Openings /\ MaxRequests \in Nat /\ 0 \in 0..MaxMounts
    BY BoundsAssumption DEF Form!Openings
<1>2. form = [Form!Blank(0, 0, day) EXCEPT !.open = FALSE] /\ day \in Days
    BY TodayAssumption DEF Form!Init
<1>3. form \in Form!Form /\ ~form.open
    BY <1>1, <1>2 DEF Form!Blank, Form!Form
<1> QED
    BY <1>1, <1>2, <1>3, FS_EmptySet
    DEF Form!Init, FormInv, Form!TypeOK, Lookups, Sendings, Copies, Heard, Posted

LEMMA FormPreserved ==
    ASSUME FormInv, Form!Next
    PROVE  FormInv'
    BY FormEdits, FormOpens, FormSaves, FormCloses, FormStores, FormAnswered, FormFilled
    DEF Form!Next, Form!SendAnswer

(* The posts of one opening have different numbers, from 1 to one more than   *)
(* the failures reported.                                                     *)
LEMMA FormSafe ==
    ASSUME FormInv
    PROVE  Form!StoredOncePerReport
<1>1. \A e, f \in sending \cap stored : e.mount = f.mount => e = f
    BY DEF FormInv, Sendings
<1>2. ASSUME NEW n \in Form!Openings
      PROVE  Form!Cardinality({e \in stored : e.opening = n}) <= told[n] + 1
    <2> DEFINE mine == {e \in stored : e.opening = n}
               number == [e \in mine |-> e.try]
    <2>1. told[n] + 1 \in Nat
        BY FormFields
    <2>2. number \in [mine -> 1..(told[n] + 1)]
        BY DEF FormInv, Copies, Posted
    <2>3. \A c, d \in mine : number[c] = number[d] => c = d
        BY DEF FormInv, Copies, Posted
    <2>4. number \in Injection(mine, 1..(told[n] + 1))
        BY <2>2, <2>3 DEF Injection, IsInjective
    <2>5. IsFiniteSet(1..(told[n] + 1)) /\ Cardinality(1..(told[n] + 1)) = told[n] + 1
        BY <2>1, FS_Interval
    <2>6. Cardinality(mine) <= told[n] + 1
        BY <2>4, <2>5, FS_Injection DEF ExistsInjection
    <2> QED BY <2>6, SameSize
<1> QED BY <1>1, <1>2 DEF Form!StoredOncePerReport

-----------------------------------------------------------------------------
(* The rows of a day.  OwnWritesShown is not inductive: a row that has been   *)
(* read must be as new as what was acknowledged when it lands, and the server *)
(* must be as new as every answer under way.                                  *)

Ahead ==
    /\ heard <= row.version
    /\ \A w \in writes : w.at = "done" => w.version <= row.version
    /\ fetch \in Rows!Row => fetch.version >= heard

RowInv == Rows!TypeOK /\ Ahead /\ Rows!OwnWritesShown

(* The marks that stand for no row are no rows.                               *)
LEMMA Marks ==
    Rows!Idle \notin Rows!Row /\ Rows!Asked \notin Rows!Row /\ Rows!Idle # Rows!Asked
<1>1. Rows!Idle.status = "idle"
    BY DEF Rows!Idle
<1>2. Rows!Asked.status = "asked"
    BY DEF Rows!Idle, Rows!Asked
<1>3. \A r \in Rows!Row : r.status \in Rows!Statuses
    BY DEF Rows!Row
<1> QED
    BY <1>1, <1>2, <1>3 DEF Rows!Statuses

LEMMA SendStep ==
    ASSUME RowInv, NEW op \in Rows!Ops, NEW text \in Texts, Rows!Send(op, text)
    PROVE  /\ writes' \subseteq Rows!Write /\ sent' \in 0..MaxWrites
           /\ \A w \in writes' : w.at = "done" => w.version <= row.version
<1> DEFINE new == [op |-> op, text |-> text, n |-> sent + 1, at |-> "sent"]
<1>1. sent + 1 \in 1..MaxWrites /\ sent' \in 0..MaxWrites
    BY BoundsAssumption DEF RowInv, Rows!TypeOK, Rows!Send
<1>2. new \in Rows!Write /\ new.at = "sent"
    BY <1>1 DEF Rows!Write
<1> QED
    BY <1>1, <1>2 DEF Rows!Send, RowInv, Rows!TypeOK, Ahead

(* What the user does sends requests and leaves the rest of it alone.         *)
LEMMA UserStep ==
    ASSUME RowInv,
           \/ \E t \in Texts : Rows!UpdateTimeEntry(t) \/ Rows!UpdateExpense(t)
           \/ Rows!SubmitEntry \/ Rows!UploadReceipt \/ Rows!OpenDelete
           \/ Rows!CloseDelete \/ Rows!ConfirmDelete
    PROVE  RowInv'
<1>1. UNCHANGED <<kind, row, shown, fetch, heard, failed>>
    BY DEF Rows!UpdateTimeEntry, Rows!UpdateExpense, Rows!SubmitEntry, Rows!UploadReceipt,
           Rows!OpenDelete, Rows!CloseDelete, Rows!ConfirmDelete
<1>2. dialog' \in BOOLEAN /\ edits' \in Texts \cup {Rows!NoText}
    BY DEF Rows!UpdateTimeEntry, Rows!UpdateExpense, Rows!SubmitEntry, Rows!UploadReceipt,
           Rows!OpenDelete, Rows!CloseDelete, Rows!ConfirmDelete, RowInv, Rows!TypeOK
<1>3. shown.text \in Texts
    BY DEF RowInv, Rows!TypeOK, Rows!Row
<1>4. \/ \E op \in Rows!Ops, text \in Texts : Rows!Send(op, text)
      \/ UNCHANGED <<writes, sent>>
    BY <1>3
    DEF Rows!UpdateTimeEntry, Rows!UpdateExpense, Rows!SubmitEntry, Rows!UploadReceipt,
        Rows!OpenDelete, Rows!CloseDelete, Rows!ConfirmDelete, Rows!Ops
<1>5. /\ writes' \subseteq Rows!Write /\ sent' \in 0..MaxWrites
      /\ \A w \in writes' : w.at = "done" => w.version <= row.version
    BY <1>4, SendStep DEF RowInv, Rows!TypeOK, Ahead
<1> QED
    BY <1>1, <1>2, <1>5 DEF RowInv, Rows!TypeOK, Ahead, Rows!OwnWritesShown

(* The server moves the row forward, by one, to where its answer says.        *)
LEMMA RowGrows ==
    ASSUME RowInv, row.version < MaxVersion, NEW w \in writes, NEW stage \in Rows!FirstStages,
           Rows!Accepts(w.op, row.status)
    PROVE  /\ Rows!AfterOp(w, stage) \in Rows!Row
           /\ Rows!AfterOp(w, stage).version = row.version + 1
<1>1. row \in Rows!Row /\ w.text \in Texts
    BY DEF RowInv, Rows!TypeOK, Rows!Write
<1>2. row.version + 1 \in 0..MaxVersion
    BY <1>1, BoundsAssumption DEF Rows!Row
<1>3. w.op \in {"update", "submit", "delete"}
    BY DEF Rows!Accepts
<1>4. CASE w.op = "update"
    BY <1>1, <1>2, <1>4 DEF Rows!AfterOp, Rows!Row
<1>5. CASE w.op = "submit"
    BY <1>1, <1>2, <1>5 DEF Rows!AfterOp, Rows!Row, Rows!Statuses, Rows!FirstStages
<1>6. CASE w.op = "delete"
    BY <1>1, <1>2, <1>6 DEF Rows!AfterOp, Rows!Row, Rows!Statuses
<1> QED
    BY <1>3, <1>4, <1>5, <1>6

LEMMA HandleStep ==
    ASSUME RowInv, NEW w \in writes, Rows!ServerHandles(w)
    PROVE  RowInv'
<1>1. /\ row \in Rows!Row /\ row.version \in Nat /\ w \in Rows!Write
      /\ \A v \in writes : v.at = "done" => v.version \in Nat
    BY DEF RowInv, Rows!TypeOK, Rows!Row, Rows!Write
<1>2. UNCHANGED <<kind, shown, fetch, sent, heard, failed, dialog, edits>>
    BY DEF Rows!ServerHandles
<1>3. CASE Rows!Accepts(w.op, row.status)
    <2>1. PICK stage \in Rows!FirstStages : row' = Rows!AfterOp(w, stage)
        BY <1>3 DEF Rows!ServerHandles
    <2>2. row' \in Rows!Row /\ row'.version = row.version + 1
        BY <1>3, <2>1, RowGrows DEF Rows!ServerHandles
    <2> DEFINE done == Rows!Done(w)
    <2>3. done \in Rows!Write /\ done.version = row.version + 1
        BY <1>1, <2>2 DEF Rows!Done, Rows!Write, Rows!Row
    <2>4. writes' = (writes \ {w}) \cup {done}
        BY <1>3 DEF Rows!ServerHandles
    <2> HIDE DEF done
    <2>5. writes' \subseteq Rows!Write
        BY <2>3, <2>4 DEF RowInv, Rows!TypeOK
    <2>6. \A v \in writes' : v.at = "done" => v.version <= row'.version
        BY <1>1, <2>2, <2>3, <2>4 DEF RowInv, Ahead
    <2>7. heard <= row'.version
        BY <1>1, <2>2 DEF RowInv, Rows!TypeOK, Ahead
    <2> QED
        BY <1>2, <2>2, <2>5, <2>6, <2>7
        DEF RowInv, Rows!TypeOK, Ahead, Rows!OwnWritesShown
<1>4. CASE ~Rows!Accepts(w.op, row.status)
    <2> DEFINE refused == [w EXCEPT !.at = "refused"]
    <2>1. row' = row /\ writes' = (writes \ {w}) \cup {refused}
        BY <1>4 DEF Rows!ServerHandles
    <2>2. refused \in Rows!Write /\ refused.at = "refused"
        BY <1>1 DEF Rows!ServerHandles, Rows!Write
    <2> HIDE DEF refused
    <2> QED
        BY <1>2, <2>1, <2>2 DEF RowInv, Rows!TypeOK, Ahead, Rows!OwnWritesShown
<1> QED BY <1>3, <1>4

LEMMA ReviewStep ==
    ASSUME RowInv, Rows!Review
    PROVE  RowInv'
<1>1. /\ row \in Rows!Row /\ row.version \in Nat
      /\ \A v \in writes : v.at = "done" => v.version \in Nat
    BY DEF RowInv, Rows!TypeOK, Rows!Row, Rows!Write
<1>2. PICK s \in {Rows!NextStage[row.status], "rejected"} :
          row' = [row EXCEPT !.status = s, !.version = @ + 1]
    BY DEF Rows!Review
<1> DEFINE decided == [row EXCEPT !.status = s]
<1>3. s \in Rows!Statuses
    BY <1>2 DEF Rows!Review, Rows!NextStage, Rows!Statuses
<1>4. decided \in Rows!Row /\ decided.version = row.version
    BY <1>1, <1>3 DEF Rows!Row
<1>5. row' = [decided EXCEPT !.version = row.version + 1]
    BY <1>2
<1>6. row.version + 1 \in 0..MaxVersion
    BY <1>1, BoundsAssumption DEF Rows!Review
<1> HIDE DEF decided
<1>7. row' \in Rows!Row /\ row'.version = row.version + 1
    BY <1>4, <1>5, <1>6 DEF Rows!Row
<1> QED
    BY <1>1, <1>7 DEF Rows!Review, RowInv, Rows!TypeOK, Ahead, Rows!OwnWritesShown

(* An answer drops the list that was under way and asks for another.          *)
LEMMA SuccessStep ==
    ASSUME RowInv, NEW w \in writes, Rows!WriteSucceeds(w)
    PROVE  RowInv'
<1>1. w.version \in 0..MaxVersion /\ w.version <= row.version
    BY DEF Rows!WriteSucceeds, RowInv, Rows!TypeOK, Rows!Write, Ahead
<1>2. heard' \in 0..MaxVersion /\ heard' <= row.version
    BY <1>1 DEF Rows!WriteSucceeds, RowInv, Rows!TypeOK, Ahead
<1> QED
    BY <1>2, Marks
    DEF Rows!WriteSucceeds, Rows!Invalidate, RowInv, Rows!TypeOK, Ahead,
        Rows!OwnWritesShown

LEMMA FailStep ==
    ASSUME RowInv, NEW w \in writes, Rows!WriteFails(w)
    PROVE  RowInv'
    BY DEF Rows!WriteFails, RowInv, Rows!TypeOK, Ahead, Rows!OwnWritesShown

LEMMA FetchStep ==
    ASSUME RowInv, Rows!FetchReads \/ Rows!FetchLands \/ Rows!FetchFails
    PROVE  RowInv'
<1>1. CASE Rows!FetchReads
    BY <1>1, Marks DEF Rows!FetchReads, RowInv, Rows!TypeOK, Ahead, Rows!OwnWritesShown
<1>2. CASE Rows!FetchLands
    BY <1>2, Marks
    DEF Rows!FetchLands, RowInv, Rows!TypeOK, Ahead, Rows!OwnWritesShown, Rows!IsEditable
<1>3. CASE Rows!FetchFails
    BY <1>3, Marks DEF Rows!FetchFails, RowInv, Rows!TypeOK, Ahead, Rows!OwnWritesShown
<1> QED BY <1>1, <1>2, <1>3

LEMMA RowsInitially ==
    ASSUME Rows!Init
    PROVE  RowInv
<1>1. row \in Rows!Row /\ row.version = 0 /\ 0 \in 0..MaxWrites /\ 0 \in 0..MaxVersion
    BY BoundsAssumption DEF Rows!Init, Rows!Row, Rows!Statuses
<1>2. shown = row /\ fetch = Rows!Idle /\ writes = {} /\ sent = 0 /\ heard = 0
    BY DEF Rows!Init
<1>3. Rows!TypeOK
    <2>1. kind \in {"time", "expense"} /\ failed \in BOOLEAN /\ dialog \in BOOLEAN
          /\ edits \in Texts \cup {Rows!NoText}
        BY DEF Rows!Init
    <2> QED
        BY <1>1, <1>2, <2>1 DEF Rows!TypeOK
<1> QED
    BY <1>1, <1>2, <1>3, Marks DEF RowInv, Ahead, Rows!OwnWritesShown

LEMMA RowsPreserved ==
    ASSUME RowInv, Rows!Next
    PROVE  RowInv'
<1>1. CASE \E w \in writes :
              Rows!ServerHandles(w) \/ Rows!WriteSucceeds(w) \/ Rows!WriteFails(w)
    BY <1>1, HandleStep, SuccessStep, FailStep
<1> QED
    BY <1>1, UserStep, ReviewStep, FetchStep DEF Rows!Next, Rows!Network

-----------------------------------------------------------------------------
(* The approvals queue.  ClearMeansLoaded needs that a query of an approver   *)
(* that has neither data nor an error is under way, that an answer carries a  *)
(* list, and that nothing waits for a network that is there.                  *)

Settled(q) ==
    /\ q.fetch = "answered" => q.reply.loaded
    /\ online => q.fetch # "paused"
    /\ Queue!IsApprover => q.data.loaded \/ q.error \/ q.fetch # "idle"

QueueInv == Queue!TypeOK /\ \A k \in Queue!Kinds : Settled(queries[k])

(* What may become of a query, whatever becomes of the viewer.                *)
QueriesOK == \A k \in Queue!Kinds : queries[k] \in Queue!Query /\ Settled(queries[k])

LEMMA QueueParts ==
    QueueInv <=> /\ viewer \in [role : Roles, leads : BOOLEAN]
                 /\ groups \in {"loading", "loaded", "failed"}
                 /\ tab \in Queue!Stages \cup {"none"}
                 /\ online \in BOOLEAN
                 /\ queries \in [Queue!Kinds -> Queue!Query]
                 /\ QueriesOK
                 /\ table \in [Queue!QueuedRows -> Queue!RowStatuses]
                 /\ decisions \subseteq [row : Queue!QueuedRows, op : {"approve", "reject"},
                                         at : {"sent", "done", "refused"}]
                 /\ panel \in [row : Queue!QueuedRows \cup {"none"}, long : BOOLEAN]
    BY DEF QueueInv, Queue!TypeOK, QueriesOK

(* Who approves depends on the viewer and on the working groups alone.        *)
LEMMA SameApprover ==
    ASSUME UNCHANGED <<viewer, groups>>
    PROVE  Queue!IsApprover' = Queue!IsApprover
    BY DEF Queue!IsApprover, Queue!DeriveStages

LEMMA NoDataTyped ==
    Queue!NoData \in Queue!Listing
    BY DEF Queue!NoData, Queue!Listing

(* Mounting starts the queries that have nothing.                             *)
LEMMA MountedOK ==
    ASSUME online \in BOOLEAN, NEW qs \in [Queue!Kinds -> Queue!Query],
           NEW k \in Queue!Kinds,
           qs[k].fetch = "answered" => qs[k].reply.loaded,
           online => qs[k].fetch # "paused"
    PROVE  /\ Queue!Mounted(qs) \in [Queue!Kinds -> Queue!Query]
           /\ LET q == Queue!Mounted(qs)[k] IN
                /\ q.fetch = "answered" => q.reply.loaded
                /\ online => q.fetch # "paused"
                /\ q.data.loaded \/ q.error \/ q.fetch # "idle"
<1>1. Queue!Start \in Queue!Fetches /\ Queue!Start \notin {"idle", "answered"}
      /\ (online => Queue!Start # "paused")
    BY DEF Queue!Start, Queue!Fetches
<1>2. \A j \in Queue!Kinds : /\ [qs[j] EXCEPT !.fetch = Queue!Start] \in Queue!Query
                             /\ [qs[j] EXCEPT !.fetch = Queue!Start].fetch = Queue!Start
    BY <1>1 DEF Queue!Query
<1>3. Queue!Mounted(qs) \in [Queue!Kinds -> Queue!Query]
    BY <1>2 DEF Queue!Mounted
<1>4. CASE ~qs[k].data.loaded /\ ~qs[k].error /\ qs[k].fetch = "idle"
    <2>1. Queue!Mounted(qs)[k] = [qs[k] EXCEPT !.fetch = Queue!Start]
        BY <1>4 DEF Queue!Mounted
    <2> QED BY <1>1, <1>2, <1>3, <2>1
<1>5. CASE ~(~qs[k].data.loaded /\ ~qs[k].error /\ qs[k].fetch = "idle")
    <2>1. Queue!Mounted(qs)[k] = qs[k]
        BY <1>5 DEF Queue!Mounted
    <2> QED BY <1>3, <1>5, <2>1
<1> QED BY <1>3, <1>4, <1>5

LEMMA QueueInitially ==
    ASSUME Queue!Init
    PROVE  QueueInv
<1> DEFINE fresh == [data |-> Queue!NoData, error |-> FALSE, fetch |-> "idle",
                     reply |-> Queue!NoData]
<1>1. fresh \in Queue!Query
    BY NoDataTyped DEF Queue!Query, Queue!Fetches
<1>2. /\ Queue!Unfetched \in [Queue!Kinds -> Queue!Query]
      /\ \A k \in Queue!Kinds : Queue!Unfetched[k] = fresh
    BY <1>1 DEF Queue!Unfetched
<1>3. online = TRUE
    BY DEF Queue!Init
<1>4. queries \in [Queue!Kinds -> Queue!Query] /\ QueriesOK
    <2>1. CASE Queue!IsApprover
        <3>1. queries = Queue!Mounted(Queue!Unfetched)
            BY <2>1 DEF Queue!Init
        <3>2. \A k \in Queue!Kinds : Queue!Unfetched[k].fetch = "idle"
            BY <1>2
        <3>3. /\ Queue!Mounted(Queue!Unfetched) \in [Queue!Kinds -> Queue!Query]
              /\ \A k \in Queue!Kinds : Settled(Queue!Mounted(Queue!Unfetched)[k])
            BY <1>2, <1>3, <3>2, MountedOK DEF Settled, Queue!Kinds
        <3> QED BY <3>1, <3>3 DEF QueriesOK
    <2>2. CASE ~Queue!IsApprover
        <3>1. queries = Queue!Unfetched
            BY <2>2 DEF Queue!Init
        <3>2. \A k \in Queue!Kinds : Settled(fresh)
            BY <2>2 DEF Settled
        <3> QED BY <1>1, <1>2, <3>1, <3>2 DEF QueriesOK
    <2> QED BY <2>1, <2>2
<1>5. /\ viewer \in [role : Roles, leads : BOOLEAN]
      /\ groups \in {"loading", "loaded", "failed"}
      /\ tab \in Queue!Stages \cup {"none"} /\ online \in BOOLEAN
      /\ table \in [Queue!QueuedRows -> Queue!RowStatuses] /\ decisions = {}
      /\ panel \in [row : Queue!QueuedRows \cup {"none"}, long : BOOLEAN]
    BY DEF Queue!Init, Queue!NoPanel, Queue!RowStatuses, Queue!Waiting
<1> QED BY <1>4, <1>5, QueueParts

(* The working groups come in: more viewers approve, and their queries start. *)
LEMMA GroupsStep ==
    ASSUME QueueInv, Queue!GroupsArrive
    PROVE  QueueInv'
<1>1. UNCHANGED <<viewer, tab, online, table, decisions, panel>>
      /\ groups' \in {"loading", "loaded", "failed"}
    BY DEF Queue!GroupsArrive
<1>2. queries \in [Queue!Kinds -> Queue!Query] /\ QueriesOK /\ online \in BOOLEAN
    BY QueueParts
<1>3. \A k \in Queue!Kinds : /\ queries[k].fetch = "answered" => queries[k].reply.loaded
                             /\ online => queries[k].fetch # "paused"
    BY <1>2 DEF QueriesOK, Settled
<1>4. CASE queries' = Queue!Mounted(queries)
    <2>1. /\ queries' \in [Queue!Kinds -> Queue!Query]
          /\ \A k \in Queue!Kinds :
                /\ queries'[k].fetch = "answered" => queries'[k].reply.loaded
                /\ online => queries'[k].fetch # "paused"
                /\ queries'[k].data.loaded \/ queries'[k].error \/ queries'[k].fetch # "idle"
        BY <1>2, <1>3, <1>4, MountedOK DEF Queue!Kinds
    <2>2. QueriesOK'
        BY <1>1, <2>1 DEF QueriesOK, Settled
    <2> QED
        BY <1>1, <1>2, <2>1, <2>2 DEF QueueInv, Queue!TypeOK, QueriesOK
<1>5. CASE queries' = queries /\ (Queue!IsApprover' => Queue!IsApprover)
    <2>1. QueriesOK'
        BY <1>1, <1>2, <1>5 DEF QueriesOK, Settled
    <2> QED
        BY <1>1, <1>2, <1>5, <2>1 DEF QueueInv, Queue!TypeOK, QueriesOK
<1>6. \/ queries' = Queue!Mounted(queries)
      \/ queries' = queries /\ (Queue!IsApprover' => Queue!IsApprover)
    BY <1>1 DEF Queue!GroupsArrive, Queue!IsApprover, Queue!DeriveStages
<1> QED BY <1>4, <1>5, <1>6

(* The parts of the page besides its queries.                                 *)
DeskParts ==
    /\ tab \in Queue!Stages \cup {"none"}
    /\ table \in [Queue!QueuedRows -> Queue!RowStatuses]
    /\ decisions \subseteq [row : Queue!QueuedRows, op : {"approve", "reject"},
                            at : {"sent", "done", "refused"}]
    /\ panel \in [row : Queue!QueuedRows \cup {"none"}, long : BOOLEAN]

LEMMA QueriesKept ==
    ASSUME QueueInv, UNCHANGED <<viewer, groups, online, queries>>, DeskParts'
    PROVE  QueueInv'
<1>1. QueriesOK'
    BY SameApprover DEF QueueInv, Queue!TypeOK, Settled, QueriesOK
<1> QED
    BY <1>1 DEF QueueInv, Queue!TypeOK, QueriesOK, DeskParts

LEMMA QueriesChange ==
    ASSUME QueueInv, UNCHANGED <<viewer, groups, online>>, DeskParts',
           NEW qs \in [Queue!Kinds -> Queue!Query], queries' = qs,
           \A k \in Queue!Kinds : Settled(qs[k])
    PROVE  QueueInv'
<1>1. QueriesOK'
    BY SameApprover DEF Settled, QueriesOK
<1> QED
    BY <1>1 DEF QueueInv, Queue!TypeOK, QueriesOK, DeskParts

LEMMA OneQueryChanges ==
    ASSUME QueueInv, UNCHANGED <<viewer, groups, online>>, DeskParts',
           NEW k \in Queue!Kinds, NEW q \in Queue!Query, Settled(q),
           queries' = [queries EXCEPT ![k] = q]
    PROVE  QueueInv'
<1> DEFINE qs == [queries EXCEPT ![k] = q]
<1>1. qs \in [Queue!Kinds -> Queue!Query]
    BY DEF QueueInv, Queue!TypeOK
<1>2. \A j \in Queue!Kinds : Settled(qs[j])
    BY DEF QueueInv, Queue!TypeOK
<1> HIDE DEF qs
<1> QED BY <1>1, <1>2, QueriesChange DEF qs

LEMMA PanelTyped ==
    Queue!NoPanel \in [row : Queue!QueuedRows \cup {"none"}, long : BOOLEAN]
    BY DEF Queue!NoPanel

(* The list queries: read at the server, landed, failed.                      *)
LEMMA ListSteps ==
    ASSUME QueueInv, NEW k \in Queue!Kinds,
           Queue!ServerLists(k) \/ Queue!ListArrives(k) \/ Queue!ListFails(k)
    PROVE  QueueInv'
<1>1. queries[k] \in Queue!Query /\ Settled(queries[k]) /\ queries \in [Queue!Kinds -> Queue!Query]
    BY DEF QueueInv, Queue!TypeOK
<1>2. UNCHANGED <<viewer, groups, online>>
    BY DEF Queue!ServerLists, Queue!ListArrives, Queue!ListFails
<1>3. DeskParts'
    <2>1. UNCHANGED <<tab, table, decisions>> /\ panel' \in {panel, Queue!NoPanel}
        BY DEF Queue!ServerLists, Queue!ListArrives, Queue!ListFails
    <2> QED BY <2>1, PanelTyped DEF QueueInv, Queue!TypeOK, DeskParts
<1>4. CASE Queue!ServerLists(k)
    <2> DEFINE listed == [loaded |-> TRUE,
                          rows |-> {[row |-> r, status |-> table[r]] :
                              r \in {x \in Queue!RowsOf(k) : table[x] \in Queue!Waiting}}]
               q == [queries[k] EXCEPT !.fetch = "answered", !.reply = listed]
    <2>1. listed \in Queue!Listing /\ listed.loaded
        BY DEF Queue!Listing, Queue!RowsOf, Queue!QueuedRows
    <2>2. queries' = [queries EXCEPT ![k].fetch = "answered", ![k].reply = listed]
        BY <1>4 DEF Queue!ServerLists
    <2> HIDE DEF listed
    <2>3. queries' = [queries EXCEPT ![k] = q]
        BY <1>1, <2>2
    <2>4. /\ q \in Queue!Query /\ q.fetch = "answered" /\ q.reply.loaded
        BY <1>1, <2>1 DEF Queue!Query, Queue!Fetches
    <2> HIDE DEF q
    <2>5. Settled(q)
        BY <2>4 DEF Settled
    <2> QED BY <1>2, <1>3, <2>3, <2>4, <2>5, OneQueryChanges
<1>5. CASE Queue!ListArrives(k)
    <2> DEFINE q == [data |-> queries[k].reply, error |-> FALSE, fetch |-> "idle",
                     reply |-> Queue!NoData]
    <2>1. q \in Queue!Query
        BY <1>1, NoDataTyped DEF Queue!Query, Queue!Fetches
    <2>2. Settled(q)
        BY <1>1, <1>5 DEF Settled, Queue!ListArrives
    <2>3. queries' = [queries EXCEPT ![k] = q]
        BY <1>1, <1>5 DEF Queue!ListArrives
    <2> QED BY <1>2, <1>3, <2>1, <2>2, <2>3, OneQueryChanges
<1>6. CASE Queue!ListFails(k)
    <2> DEFINE q == [queries[k] EXCEPT !.error = TRUE, !.fetch = "idle", !.reply = Queue!NoData]
    <2>1. q \in Queue!Query /\ q.error /\ q.fetch = "idle"
        BY <1>1, NoDataTyped DEF Queue!Query, Queue!Fetches
    <2>2. queries' = [queries EXCEPT ![k].error = TRUE, ![k].fetch = "idle",
                                     ![k].reply = Queue!NoData]
        BY <1>6 DEF Queue!ListFails
    <2>3. queries' = [queries EXCEPT ![k] = q]
        BY <1>1, <2>2
    <2> HIDE DEF q
    <2>4. Settled(q)
        BY <2>1 DEF Settled
    <2> QED BY <1>2, <1>3, <2>1, <2>3, <2>4, OneQueryChanges
<1> QED BY <1>4, <1>5, <1>6

(* The network comes and goes.                                                *)
LEMMA OnlineStep ==
    ASSUME QueueInv, Queue!GoOffline \/ Queue!GoOnline
    PROVE  QueueInv'
<1>1. UNCHANGED <<viewer, groups>> /\ DeskParts' /\ online' \in BOOLEAN
    BY DEF Queue!GoOffline, Queue!GoOnline, QueueInv, Queue!TypeOK, DeskParts
<1>2. \A k \in Queue!Kinds : queries[k] \in Queue!Query /\ Settled(queries[k])
    BY DEF QueueInv, Queue!TypeOK
<1>3. queries \in [Queue!Kinds -> Queue!Query]
    BY DEF QueueInv, Queue!TypeOK
<1>4. CASE Queue!GoOffline
    <2>1. queries' = queries /\ ~online'
        BY <1>4 DEF Queue!GoOffline
    <2>2. QueriesOK'
        BY <1>1, <1>2, <2>1, SameApprover DEF Settled, QueriesOK
    <2> QED
        BY <1>1, <1>3, <2>1, <2>2 DEF QueueInv, Queue!TypeOK, QueriesOK, DeskParts
<1>5. CASE Queue!GoOnline
    <2>1. PICK stale \in SUBSET Queue!Kinds :
              queries' = [k \in Queue!Kinds |-> Queue!Reconnected(queries[k], k \in stale)]
        BY <1>5 DEF Queue!GoOnline
    <2> DEFINE qs == [k \in Queue!Kinds |-> Queue!Reconnected(queries[k], k \in stale)]
    <2>2. ASSUME NEW k \in Queue!Kinds
          PROVE  /\ qs[k] \in Queue!Query /\ qs[k].fetch # "paused"
                 /\ qs[k].fetch = "answered" => qs[k].reply.loaded
                 /\ Queue!IsApprover =>
                        qs[k].data.loaded \/ qs[k].error \/ qs[k].fetch # "idle"
        <3>1. CASE queries[k].fetch = "paused"
            <4>1. qs[k] = [queries[k] EXCEPT !.fetch = "asked"]
                BY <3>1 DEF Queue!Reconnected
            <4>2. qs[k] \in Queue!Query /\ qs[k].fetch = "asked"
                BY <1>2, <4>1 DEF Queue!Query, Queue!Fetches
            <4> QED BY <4>2
        <3>2. CASE /\ queries[k].fetch # "paused" /\ Queue!IsApprover /\ queries[k].fetch = "idle"
                   /\ k \in stale \/ ~queries[k].data.loaded
            <4>1. qs[k] = [queries[k] EXCEPT !.fetch = "asked",
                                             !.error = @ /\ queries[k].data.loaded]
                BY <3>2 DEF Queue!Reconnected
            <4>2. qs[k] \in Queue!Query /\ qs[k].fetch = "asked"
                BY <1>2, <4>1 DEF Queue!Query, Queue!Fetches
            <4> QED BY <4>2
        <3>3. CASE ~(\/ queries[k].fetch = "paused"
                     \/ /\ Queue!IsApprover /\ queries[k].fetch = "idle"
                        /\ k \in stale \/ ~queries[k].data.loaded)
            <4>1. qs[k] = queries[k]
                BY <3>3 DEF Queue!Reconnected
            <4> QED BY <1>2, <3>3, <4>1 DEF Settled
        <3> QED BY <3>1, <3>2, <3>3
    <2>3. qs \in [Queue!Kinds -> Queue!Query] /\ queries' = qs
        BY <2>1, <2>2
    <2> HIDE DEF qs
    <2>4. QueriesOK'
        BY <1>1, <2>2, <2>3, SameApprover DEF Settled, QueriesOK
    <2> QED
        BY <1>1, <2>3, <2>4 DEF QueueInv, Queue!TypeOK, QueriesOK, DeskParts
<1> QED BY <1>4, <1>5

(* What the viewer does on the page sends at most a decision.                 *)
LEMMA ViewerStep ==
    ASSUME QueueInv,
           \/ Queue!TypeReason \/ Queue!CancelReject
           \/ \E s \in Queue!Stages : Queue!SwitchTab(s)
           \/ \E r \in Queue!PageRows : Queue!Approve(r) \/ Queue!OpenReject(r) \/ Queue!Reject(r)
    PROVE  QueueInv'
<1>1. DeskParts /\ UNCHANGED <<viewer, groups, online, queries, table>>
    BY DEF QueueInv, Queue!TypeOK, DeskParts, Queue!TypeReason, Queue!CancelReject,
           Queue!SwitchTab, Queue!Approve, Queue!OpenReject, Queue!Reject
<1>2. \A r \in Queue!PageRows : r.row \in Queue!QueuedRows
    BY DEF Queue!PageRows, QueueInv, Queue!TypeOK, Queue!Query, Queue!Listing, Queue!Kinds
<1>3. tab' \in Queue!Stages \cup {"none"}
    BY <1>1 DEF DeskParts, Queue!TypeReason, Queue!CancelReject, Queue!SwitchTab,
                Queue!Approve, Queue!OpenReject, Queue!Reject
<1>4. \/ decisions' = decisions
      \/ \E r \in Queue!QueuedRows, op \in {"approve", "reject"} :
             decisions' = decisions \cup {[row |-> r, op |-> op, at |-> "sent"]}
    BY <1>2 DEF Queue!TypeReason, Queue!CancelReject, Queue!SwitchTab, Queue!Approve,
                Queue!OpenReject, Queue!Reject, Queue!Decide
<1>5. \/ panel' \in {panel, Queue!NoPanel, [panel EXCEPT !.long = TRUE]}
      \/ \E r \in Queue!QueuedRows : panel' = [row |-> r, long |-> FALSE]
    BY <1>2 DEF Queue!TypeReason, Queue!CancelReject, Queue!SwitchTab, Queue!Approve,
                Queue!OpenReject, Queue!Reject
<1>6. panel' \in [row : Queue!QueuedRows \cup {"none"}, long : BOOLEAN]
    <2>1. panel \in [row : Queue!QueuedRows \cup {"none"}, long : BOOLEAN]
        BY <1>1 DEF DeskParts
    <2>2. [panel EXCEPT !.long = TRUE] \in [row : Queue!QueuedRows \cup {"none"}, long : BOOLEAN]
        BY <2>1
    <2>3. \A r \in Queue!QueuedRows :
             [row |-> r, long |-> FALSE] \in [row : Queue!QueuedRows \cup {"none"}, long : BOOLEAN]
        OBVIOUS
    <2> QED BY <1>5, <2>1, <2>2, <2>3, PanelTyped
<1>7. decisions' \subseteq [row : Queue!QueuedRows, op : {"approve", "reject"},
                            at : {"sent", "done", "refused"}]
    BY <1>1, <1>4 DEF DeskParts
<1> QED
    BY <1>1, <1>3, <1>6, <1>7, QueriesKept DEF DeskParts

(* A decided row stays a row of the approval chain.                           *)
LEMMA DecidedTyped ==
    ASSUME NEW status, NEW op
    PROVE  Queue!AfterDecision(status, op) \in Queue!RowStatuses
    BY DEF Queue!AfterDecision, Queue!RowStatuses, Queue!Waiting

(* The server decides, the answer comes back, somebody else decides.          *)
LEMMA DecisionSteps ==
    ASSUME QueueInv,
           \/ \E r \in Queue!QueuedRows : Queue!OtherApprover(r)
           \/ \E d \in decisions : Queue!ServerDecides(d) \/ Queue!DecisionFails(d)
    PROVE  QueueInv'
<1>1. DeskParts /\ UNCHANGED <<viewer, groups, online, queries, tab, panel>>
    BY DEF QueueInv, Queue!TypeOK, DeskParts, Queue!OtherApprover, Queue!ServerDecides,
           Queue!DecisionFails
<1>2. ASSUME NEW r \in Queue!QueuedRows, Queue!OtherApprover(r) PROVE DeskParts'
    BY <1>1, <1>2, DecidedTyped DEF Queue!OtherApprover, DeskParts
<1>3. ASSUME NEW d \in decisions, Queue!ServerDecides(d) PROVE DeskParts'
    <2>1. d \in [row : Queue!QueuedRows, op : {"approve", "reject"},
                 at : {"sent", "done", "refused"}]
        BY <1>1 DEF DeskParts
    <2>2. table' \in [Queue!QueuedRows -> Queue!RowStatuses]
        BY <1>1, <1>3, DecidedTyped DEF Queue!ServerDecides, DeskParts
    <2>3. /\ [d EXCEPT !.at = "done"] \in [row : Queue!QueuedRows, op : {"approve", "reject"},
                                           at : {"sent", "done", "refused"}]
          /\ [d EXCEPT !.at = "refused"] \in [row : Queue!QueuedRows, op : {"approve", "reject"},
                                              at : {"sent", "done", "refused"}]
        BY <2>1
    <2>4. \/ decisions' = (decisions \ {d}) \cup {[d EXCEPT !.at = "done"]}
          \/ decisions' = (decisions \ {d}) \cup {[d EXCEPT !.at = "refused"]}
        BY <1>3 DEF Queue!ServerDecides
    <2> QED BY <1>1, <2>2, <2>3, <2>4 DEF DeskParts
<1>4. ASSUME NEW d \in decisions, Queue!DecisionFails(d) PROVE DeskParts'
    BY <1>1, <1>4 DEF Queue!DecisionFails, DeskParts
<1> QED BY <1>1, <1>2, <1>3, <1>4, QueriesKept

(* An answer refreshes the lists of an approver.                              *)
LEMMA RefreshStep ==
    ASSUME QueueInv, NEW d \in decisions, Queue!DecisionSucceeds(d)
    PROVE  QueueInv'
<1>1. UNCHANGED <<viewer, groups, online>> /\ DeskParts' /\ online \in BOOLEAN
    BY DEF QueueInv, Queue!TypeOK, DeskParts, Queue!DecisionSucceeds
<1> DEFINE qs == [k \in Queue!Kinds |-> IF Queue!IsApprover THEN Queue!Refetched(queries[k])
                                        ELSE queries[k]]
<1>2. queries' = qs
    BY DEF Queue!DecisionSucceeds, Queue!InvalidateAfterAction
<1>3. ASSUME NEW k \in Queue!Kinds PROVE qs[k] \in Queue!Query /\ Settled(qs[k])
    <2>1. queries[k] \in Queue!Query /\ Settled(queries[k])
        BY DEF QueueInv, Queue!TypeOK
    <2>2. Queue!Start \in Queue!Fetches /\ Queue!Start \notin {"idle", "answered"}
          /\ (online => Queue!Start # "paused")
        BY DEF Queue!Start, Queue!Fetches
    <2>3. CASE Queue!IsApprover /\ queries[k].data.loaded
        <3>1. qs[k] = [queries[k] EXCEPT !.fetch = Queue!Start, !.reply = Queue!NoData]
            BY <2>3 DEF Queue!Refetched
        <3>2. qs[k] \in Queue!Query /\ qs[k].fetch = Queue!Start
            BY <2>1, <2>2, <3>1, NoDataTyped DEF Queue!Query
        <3> QED BY <2>2, <3>2 DEF Settled
    <2>4. CASE Queue!IsApprover /\ ~queries[k].data.loaded /\ queries[k].fetch = "idle"
        <3>1. qs[k] = [queries[k] EXCEPT !.fetch = Queue!Start, !.error = FALSE]
            BY <2>4 DEF Queue!Refetched
        <3>2. qs[k] \in Queue!Query /\ qs[k].fetch = Queue!Start
            BY <2>1, <2>2, <3>1 DEF Queue!Query
        <3> QED BY <2>2, <3>2 DEF Settled
    <2>5. CASE ~Queue!IsApprover \/ (~queries[k].data.loaded /\ queries[k].fetch # "idle")
        <3>1. qs[k] = queries[k]
            BY <2>5 DEF Queue!Refetched
        <3> QED BY <2>1, <3>1
    <2> QED BY <2>3, <2>4, <2>5
<1>4. qs \in [Queue!Kinds -> Queue!Query]
    BY <1>3
<1> HIDE DEF qs
<1> QED BY <1>1, <1>2, <1>3, <1>4, QueriesChange

LEMMA QueuePreserved ==
    ASSUME QueueInv, Queue!Next
    PROVE  QueueInv'
    BY GroupsStep, ListSteps, OnlineStep, ViewerStep, DecisionSteps, RefreshStep
    DEF Queue!Next, Queue!Answers

(* A clear page has no query in error or under way: one without data waits    *)
(* for the network, which then is not there.                                  *)
LEMMA QueueSafe ==
    ASSUME QueueInv
    PROVE  Queue!ClearMeansLoaded
<1> SUFFICES ASSUME Queue!Screen = "clear", NEW k \in Queue!Kinds
             PROVE  /\ ~queries[k].error
                    /\ \/ queries[k].data.loaded
                       \/ ~online /\ queries[k].fetch = "paused"
    BY DEF Queue!ClearMeansLoaded
<1>1. Queue!IsApprover /\ ~queries[k].error /\ ~Queue!Loading(k)
    BY DEF Queue!Screen
<1> QED BY <1>1 DEF QueueInv, Settled, Queue!Loading

-----------------------------------------------------------------------------
(* The export form.                                                           *)

Job == [at : Export!Steps, range : Export!Ranges, timer : BOOLEAN]

LEMMA ExportInitially ==
    ASSUME Export!Init
    PROVE  Export!TypeOK
<1>1. Export!Unused \in Job
    BY DEF Export!Unused, Job, Export!Steps, Export!Ranges
<1> QED BY <1>1 DEF Export!Init, Export!TypeOK, Job

(* A step of a download changes where it is, its timer or its range.          *)
LEMMA JobStep ==
    ASSUME Export!TypeOK, NEW n \in Export!Jobs,
           \/ Export!HandleDownload(n) \/ Export!Counted(n) \/ Export!Headers(n)
           \/ Export!TimesOut(n) \/ Export!Breaks(n) \/ Export!Saved(n)
    PROVE  Export!TypeOK'
<1>1. jobs \in [Export!Jobs -> Job] /\ jobs[n] \in Job /\ range \in Export!Ranges
    BY DEF Export!TypeOK, Job
<1>2. range' = range /\ busy' \in BOOLEAN
    BY DEF Export!TypeOK, Export!HandleDownload, Export!Counted, Export!Headers,
           Export!TimesOut, Export!Breaks, Export!Saved, Export!End
<1>3. \A s \in Export!Steps : /\ [jobs[n] EXCEPT !.at = s] \in Job
                              /\ [jobs[n] EXCEPT !.at = s, !.timer = TRUE] \in Job
                              /\ [jobs[n] EXCEPT !.at = s, !.timer = FALSE] \in Job
                              /\ [jobs[n] EXCEPT !.at = s, !.range = range] \in Job
    BY <1>1 DEF Job
<1>4. \E s \in Export!Steps :
          \/ jobs' = [jobs EXCEPT ![n].at = s]
          \/ jobs' = [jobs EXCEPT ![n].at = s, ![n].timer = TRUE]
          \/ jobs' = [jobs EXCEPT ![n].at = s, ![n].timer = FALSE]
          \/ jobs' = [jobs EXCEPT ![n].at = s, ![n].range = range]
    BY DEF Export!HandleDownload, Export!Counted, Export!Headers, Export!TimesOut,
           Export!Breaks, Export!Saved, Export!End, Export!Steps
<1>5. \E j \in Job : jobs' = [jobs EXCEPT ![n] = j]
    <2> PICK s \in Export!Steps :
          \/ jobs' = [jobs EXCEPT ![n].at = s]
          \/ jobs' = [jobs EXCEPT ![n].at = s, ![n].timer = TRUE]
          \/ jobs' = [jobs EXCEPT ![n].at = s, ![n].timer = FALSE]
          \/ jobs' = [jobs EXCEPT ![n].at = s, ![n].range = range]
        BY <1>4
    <2>1. CASE jobs' = [jobs EXCEPT ![n].at = s]
        BY <1>1, <1>3, <2>1
    <2>2. CASE jobs' = [jobs EXCEPT ![n].at = s, ![n].timer = TRUE]
        <3>1. jobs' = [jobs EXCEPT ![n] = [jobs[n] EXCEPT !.at = s, !.timer = TRUE]]
            BY <1>1, <2>2
        <3> QED BY <1>3, <3>1
    <2>3. CASE jobs' = [jobs EXCEPT ![n].at = s, ![n].timer = FALSE]
        <3>1. jobs' = [jobs EXCEPT ![n] = [jobs[n] EXCEPT !.at = s, !.timer = FALSE]]
            BY <1>1, <2>3
        <3> QED BY <1>3, <3>1
    <2>4. CASE jobs' = [jobs EXCEPT ![n].at = s, ![n].range = range]
        <3>1. jobs' = [jobs EXCEPT ![n] = [jobs[n] EXCEPT !.at = s, !.range = range]]
            BY <1>1, <2>4
        <3> QED BY <1>3, <3>1
    <2> QED BY <2>1, <2>2, <2>3, <2>4
<1> QED BY <1>1, <1>2, <1>5 DEF Export!TypeOK, Job

LEMMA ExportPreserved ==
    ASSUME Export!TypeOK, Export!Next
    PROVE  Export!TypeOK'
<1>1. CASE \E r \in Export!Ranges : Export!SetRange(r)
    BY <1>1 DEF Export!SetRange, Export!TypeOK
<1> QED BY <1>1, JobStep DEF Export!Next

-----------------------------------------------------------------------------
(* The list.  The rows are finitely many, so they can be put in order: the    *)
(* least of a set of numbers exists, hence induction over the size of a set.  *)

LEMMA BelowIsWellFounded ==
    \E R : IsWellFoundedOn(R, Nat) /\ \A x, y \in Nat : y < x => <<y, x>> \in R
<1>1. IsWellFoundedOn(OpToRel(<, Nat), Nat)
    BY NatLessThanWellFounded
<1>2. \A x, y \in Nat : y < x => <<y, x>> \in OpToRel(<, Nat)
    BY Zenon DEF OpToRel
<1> QED BY <1>1, <1>2, Zenon

LEMMA LeastNat ==
    ASSUME NEW T \in SUBSET Nat, T # {}
    PROVE  \E x \in T : \A y \in T : x <= y
<1>1. PICK R : IsWellFoundedOn(R, Nat) /\ \A x, y \in Nat : y < x => <<y, x>> \in R
    BY BelowIsWellFounded
<1>2. PICK x \in T : \A y \in T : ~(<<y, x>> \in R)
    BY <1>1, WFMin
<1>3. ASSUME NEW y \in T PROVE x <= y
    <2>1. x \in Nat /\ y \in Nat
        OBVIOUS
    <2>2. ~(y < x)
        BY <1>1, <1>2, <2>1, Zenon
    <2> QED BY <2>1, <2>2
<1> QED BY <1>2, <1>3

LEMMA SetInduction ==
    ASSUME NEW S, 0 \in S, \A n \in Nat : n \in S => n + 1 \in S
    PROVE  Nat \subseteq S
<1> SUFFICES ASSUME Nat \ S # {} PROVE FALSE
    OBVIOUS
<1>1. PICK x \in Nat \ S : \A y \in Nat \ S : x <= y
    BY LeastNat
<1>2. x # 0 /\ x - 1 \in Nat
    OBVIOUS
<1>3. x - 1 \in S
    BY <1>1, <1>2
<1> QED BY <1>1, <1>2, <1>3

(* Every finite set of items has an enumeration, the newest first.            *)
Enumerates(s, T, n) ==
    /\ s \in [1..n -> T]
    /\ \A i, j \in 1..n : i # j => s[i] # s[j]
    /\ \A i, j \in 1..n : i < j => s[i].date >= s[j].date

LEMMA Sortable ==
    ASSUME NEW T \in SUBSET Items
    PROVE  /\ IsFiniteSet(T) /\ Cardinality(T) \in Nat
           /\ \E s : Enumerates(s, T, Cardinality(T))
<1> DEFINE Good == {n \in Nat : \A U \in SUBSET Items :
                       Cardinality(U) = n => \E s : Enumerates(s, U, n)}
<1>1. \A U \in SUBSET Items : IsFiniteSet(U) /\ Cardinality(U) \in Nat
    BY ItemsAssumption, FS_Subset, FS_CardinalityType
<1>2. 0 \in Good
    <2>1. \A U \in SUBSET Items : Enumerates([i \in 1..0 |-> i], U, 0)
        BY DEF Enumerates
    <2> QED BY <2>1
<1>3. ASSUME NEW n \in Nat, n \in Good PROVE n + 1 \in Good
    <2> SUFFICES ASSUME NEW U \in SUBSET Items, Cardinality(U) = n + 1
                 PROVE  \E s : Enumerates(s, U, n + 1)
        OBVIOUS
    <2>1. U # {}
        BY FS_EmptySet
    <2> DEFINE dates == {e.date : e \in U}
    <2>2. dates \in SUBSET Nat /\ dates # {}
        BY <2>1, ItemsAssumption
    <2>3. PICK d \in dates : \A c \in dates : d <= c
        BY <2>2, LeastNat
    <2>4. PICK e \in U : e.date = d
        BY <2>3
    <2>5. \A f \in U : f.date \in Nat /\ f.date >= e.date
        BY <2>3, <2>4, ItemsAssumption
    <2>6. Cardinality(U \ {e}) = n
        <3>1. Cardinality(U \ {e}) = Cardinality(U) - 1
            BY <1>1, FS_RemoveElement
        <3> QED BY <3>1
    <2>7. PICK s : Enumerates(s, U \ {e}, n)
        BY <1>3, <2>6
    <2> DEFINE t == [i \in 1..(n + 1) |-> IF i = n + 1 THEN e ELSE s[i]]
    <2> HIDE DEF dates
    <2>8. t[n + 1] = e /\ \A i \in 1..n : t[i] = s[i] /\ t[i] \in U \ {e}
        BY <2>7 DEF Enumerates
    <2>9. t \in [1..(n + 1) -> U]
        BY <2>7 DEF Enumerates
    <2> HIDE DEF t
    <2>10. \A i \in 1..(n + 1) : i = n + 1 \/ i \in 1..n
        OBVIOUS
    <2>11. \A i, j \in 1..(n + 1) : i # j => t[i] # t[j]
        BY <2>7, <2>8, <2>10 DEF Enumerates
    <2>12. \A i, j \in 1..(n + 1) : i < j => t[i].date >= t[j].date
        BY <2>5, <2>7, <2>8, <2>10 DEF Enumerates
    <2> QED BY <2>9, <2>11, <2>12 DEF Enumerates
<1>4. Nat \subseteq Good
    BY <1>2, <1>3, SetInduction
<1> QED BY <1>1, <1>4

LEMMA PageArithmetic ==
    ASSUME NEW n \in Nat, NEW p \in Nat \ {0}, n > 0
    PROVE  LET c == (n + p - 1) \div p IN
           /\ c \in Nat /\ c >= 1 /\ c <= n
           /\ (c - 1) * p < n
    OBVIOUS

LEMMA ProductsOrdered ==
    ASSUME NEW a \in Nat, NEW b \in Nat, NEW p \in Nat, a <= b
    PROVE  a * p \in Nat /\ a * p <= b * p /\ (a + 1) * p = a * p + p
    OBVIOUS

(* The table has a page for the rows there are, and shows one it has.         *)
LEMMA Paged ==
    ASSUME List!TypeOK
    PROVE  /\ Cardinality(Items) \in Nat /\ PageSize \in Nat \ {0}
           /\ List!Rows \in SUBSET Items /\ Cardinality(List!Rows) \in Nat
           /\ List!PageCount \in Nat /\ List!PageCount >= 1
           /\ List!PageCount - 1 <= Cardinality(Items)
           /\ List!CurrentPage \in Nat /\ List!CurrentPage <= List!PageCount - 1
           /\ List!CurrentPage <= pager
           /\ List!Rows # {} => List!CurrentPage * PageSize < Cardinality(List!Rows)
<1>1. /\ IsFiniteSet(Items) /\ PageSize \in Nat \ {0} /\ List!Rows \in SUBSET Items
      /\ Cardinality(Items) \in Nat
    BY ItemsAssumption, FS_CardinalityType DEF List!TypeOK, List!Rows
<1>2. /\ IsFiniteSet(List!Rows) /\ Cardinality(List!Rows) \in Nat
      /\ Cardinality(List!Rows) <= Cardinality(Items)
    BY <1>1, SubsetBound
<1>3. pager \in Nat
    BY <1>1, SameSize DEF List!TypeOK
<1>4. CASE List!Rows = {}
    <2>1. List!PageCount = 1
        BY <1>4 DEF List!PageCount
    <2>2. List!CurrentPage = 0
        BY <1>3, <2>1 DEF List!CurrentPage, List!LeastOf
    <2> QED BY <1>1, <1>2, <1>3, <1>4, <2>1, <2>2
<1>5. CASE List!Rows # {}
    <2>1. Cardinality(List!Rows) > 0
        BY <1>2, <1>5, FS_EmptySet
    <2>2. List!PageCount = (Cardinality(List!Rows) + PageSize - 1) \div PageSize
        BY <1>5, SameSize DEF List!PageCount
    <2>3. /\ List!PageCount \in Nat /\ List!PageCount >= 1
          /\ List!PageCount <= Cardinality(List!Rows)
          /\ (List!PageCount - 1) * PageSize < Cardinality(List!Rows)
        BY <1>1, <1>2, <2>1, <2>2, PageArithmetic
    <2>4. /\ List!CurrentPage \in Nat /\ List!CurrentPage <= List!PageCount - 1
          /\ List!CurrentPage <= pager
        BY <1>3, <2>3 DEF List!CurrentPage, List!LeastOf
    <2>5. List!PageCount - 1 \in Nat
        BY <2>3
    <2>6. List!CurrentPage * PageSize <= (List!PageCount - 1) * PageSize
        BY <1>1, <2>4, <2>5, ProductsOrdered
    <2>7. List!CurrentPage * PageSize < Cardinality(List!Rows)
        <3>1. List!CurrentPage * PageSize \in Nat /\ (List!PageCount - 1) * PageSize \in Nat
            BY <1>1, <2>4, <2>5
        <3> QED BY <1>2, <2>3, <2>6, <3>1
    <2> QED BY <1>1, <1>2, <2>3, <2>4, <2>7
<1> QED BY <1>4, <1>5

LEMMA ListInitially ==
    ASSUME List!Init
    PROVE  List!TypeOK
<1>1. Cardinality(Items) \in Nat
    BY ItemsAssumption, FS_CardinalityType
<1> QED
    BY <1>1, SameSize DEF List!Init, List!TypeOK, List!Tabs, List!Search

LEMMA FiltersTyped ==
    ASSUME List!TypeOK, NEW statuses \in SUBSET List!ListStatuses,
           NEW from \in Dates \cup {List!NoDate}, NEW to \in Dates \cup {List!NoDate},
           List!SetFilters(statuses, from, to)
    PROVE  List!TypeOK'
    BY DEF List!SetFilters, List!TypeOK, List!Search

LEMMA ListPreserved ==
    ASSUME List!TypeOK, List!Next
    PROVE  List!TypeOK'
<1>1. /\ Cardinality(Items) \in Nat /\ pager \in 0..Cardinality(Items)
      /\ List!Cardinality(Items) = Cardinality(Items)
      /\ url \in List!Search /\ page \in List!Tabs /\ items \subseteq Items
    BY Paged, SameSize DEF List!TypeOK
<1>2. CASE List!PreviousPage
    <2>1. pager - 1 \in 0..Cardinality(Items)
        BY <1>1, <1>2, Paged DEF List!PreviousPage
    <2> QED BY <1>1, <1>2, <2>1 DEF List!PreviousPage, List!TypeOK
<1>3. CASE List!NextPage
    <2>1. pager' \in 0..Cardinality(Items)
        BY <1>1, <1>3, Paged DEF List!NextPage, List!LeastOf
    <2> QED BY <1>1, <1>3, <2>1 DEF List!NextPage, List!TypeOK
<1>4. CASE \/ List!SelectAll \/ List!ClearDates
           \/ \E s \in List!ListStatuses : List!ToggleStatus(s)
           \/ \E f \in Dates, t \in Dates \cup {List!NoDate} : List!PickDates(f, t)
    <2>1. url.statuses \subseteq List!ListStatuses
        BY <1>1 DEF List!Search
    <2>2. \E ss \in SUBSET List!ListStatuses, f, t \in Dates \cup {List!NoDate} :
              List!SetFilters(ss, f, t)
        BY <1>4, <2>1 DEF List!SelectAll, List!ClearDates, List!ToggleStatus, List!PickDates
    <2> QED BY <2>2, FiltersTyped
<1>5. CASE \/ List!OpenNew \/ \E t \in List!Tabs : List!SwitchTab(t)
           \/ \E e \in Items : List!OpenDetail(e)
    BY <1>1, <1>5 DEF List!OpenNew, List!SwitchTab, List!OpenDetail, List!TypeOK, List!Tabs
<1>6. CASE List!ClearFilters \/ List!SelectDay
    <2>1. \/ url' = [url EXCEPT !.statuses = {}, !.from = List!NoDate, !.to = List!NoDate]
          \/ url' = [statuses |-> {}, from |-> List!NoDate, to |-> List!NoDate]
        BY <1>6 DEF List!ClearFilters, List!SelectDay
    <2>2. [url EXCEPT !.statuses = {}, !.from = List!NoDate, !.to = List!NoDate] \in List!Search
        BY <1>1 DEF List!Search
    <2>3. [statuses |-> {}, from |-> List!NoDate, to |-> List!NoDate] \in List!Search
        BY DEF List!Search
    <2>4. UNCHANGED <<page, pager, items>>
        BY <1>6 DEF List!ClearFilters, List!SelectDay
    <2> QED BY <1>1, <2>1, <2>2, <2>3, <2>4 DEF List!TypeOK
<1>7. CASE List!Refetch
    BY <1>1, <1>7 DEF List!Refetch, List!TypeOK
<1> QED BY <1>2, <1>3, <1>4, <1>5, <1>6, <1>7 DEF List!Next

(* The shown page is a stretch of the sorted rows that starts at a row.       *)
LEMMA ListSafe ==
    ASSUME List!TypeOK
    PROVE  List!PageNeverEmpty
<1> SUFFICES ASSUME List!Rows # {}
             PROVE  /\ List!PageRows # <<>>
                    /\ List!IsInjective(List!PageRows)
                    /\ Len(List!PageRows) <= PageSize
    BY DEF List!PageNeverEmpty
<1> DEFINE n == Cardinality(List!Rows)
           s == List!SortedRows
           m == List!CurrentPage * PageSize + 1
           k == List!LeastOf((List!CurrentPage + 1) * PageSize, n)
<1>1. /\ n \in Nat /\ PageSize \in Nat \ {0} /\ List!CurrentPage \in Nat
      /\ List!CurrentPage * PageSize < n /\ List!Rows \in SUBSET Items
    BY Paged
<1>2. s \in [1..n -> List!Rows] /\ \A i, j \in 1..n : i # j => s[i] # s[j]
    <2>1. PICK t : Enumerates(t, List!Rows, n)
        BY <1>1, Sortable
    <2>2. t \in List!SetToSeqs(List!Rows) /\ DOMAIN t = 1..n
        BY <2>1, SameSize DEF List!SetToSeqs, Enumerates
    <2>3. \E u \in List!SetToSeqs(List!Rows) :
              \A i, j \in DOMAIN u : i < j => u[i].date >= u[j].date
        BY <2>1, <2>2 DEF Enumerates
    <2>4. s \in List!SetToSeqs(List!Rows)
        BY <2>3 DEF List!SortedRows
    <2> HIDE DEF s
    <2> QED BY <2>4, SameSize DEF List!SetToSeqs
<1> HIDE DEF s
<1>3. s \in Seq(List!Rows) /\ Len(s) = n
    BY <1>1, <1>2
<1>4. List!PageRows = SubSeq(s, m, k)
    BY <1>3 DEF List!PageRows, s
<1>5. /\ m \in Nat /\ k \in Nat /\ 1 <= m /\ m <= k /\ k <= n
      /\ k - m + 1 <= PageSize
    <2>1. /\ List!CurrentPage * PageSize \in Nat
          /\ (List!CurrentPage + 1) * PageSize = List!CurrentPage * PageSize + PageSize
        BY <1>1, ProductsOrdered
    <2> QED BY <1>1, <2>1 DEF List!LeastOf
<1> HIDE DEF m, k, n
<1>6. /\ Len(List!PageRows) = k - m + 1
      /\ DOMAIN List!PageRows = 1..(k - m + 1)
      /\ \A i \in 1..(k - m + 1) : List!PageRows[i] = s[m + i - 1]
    BY <1>3, <1>4, <1>5
<1>7. List!PageRows # <<>>
    BY <1>5, <1>6
<1>8. \A i, j \in 1..(k - m + 1) : List!PageRows[i] = List!PageRows[j] => i = j
    <2> SUFFICES ASSUME NEW i \in 1..(k - m + 1), NEW j \in 1..(k - m + 1), i # j
                 PROVE  List!PageRows[i] # List!PageRows[j]
        OBVIOUS
    <2>1. m + i - 1 \in 1..n /\ m + j - 1 \in 1..n /\ m + i - 1 # m + j - 1
        BY <1>1, <1>5 DEF n
    <2> QED BY <1>2, <1>6, <2>1 DEF n
<1> QED BY <1>5, <1>6, <1>7, <1>8 DEF List!IsInjective

-----------------------------------------------------------------------------
(* The pages together: a step of one leaves the invariants of the others.     *)

LEMMA FormKept ==
    ASSUME FormInv, UNCHANGED formVars
    PROVE  FormInv'
    BY DEF formVars, FormInv, Form!TypeOK, Lookups, Sendings, Copies, Heard, Posted,
           Form!Pending

LEMMA RowsKept ==
    ASSUME RowInv, UNCHANGED rowVars
    PROVE  RowInv'
    BY DEF rowVars, RowInv, Rows!TypeOK, Ahead, Rows!OwnWritesShown

LEMMA QueueKept ==
    ASSUME QueueInv, UNCHANGED queueVars
    PROVE  QueueInv'
<1>1. UNCHANGED <<viewer, groups, online, queries, tab, table, decisions, panel>>
    BY DEF queueVars
<1>2. DeskParts'
    BY <1>1 DEF QueueInv, Queue!TypeOK, DeskParts
<1> QED BY <1>1, <1>2, QueriesKept

LEMMA ExportKept ==
    ASSUME Export!TypeOK, UNCHANGED exportVars
    PROVE  Export!TypeOK'
    BY DEF exportVars, Export!TypeOK

LEMMA ListKept ==
    ASSUME List!TypeOK, UNCHANGED listVars
    PROVE  List!TypeOK'
    BY DEF listVars, List!TypeOK

PagesInv ==
    mounted \in Pages /\ FormInv /\ RowInv /\ QueueInv /\ Export!TypeOK /\ List!TypeOK

LEMMA PagesStep ==
    ASSUME PagesInv, [Next]_vars
    PROVE  PagesInv'
<1>1. CASE FormStep
    BY <1>1, FormPreserved, RowsKept, QueueKept, ExportKept, ListKept DEF FormStep, PagesInv
<1>2. CASE RowsStep
    BY <1>2, FormKept, RowsPreserved, QueueKept, ExportKept, ListKept DEF RowsStep, PagesInv
<1>3. CASE QueueStep
    BY <1>3, FormKept, RowsKept, QueuePreserved, ExportKept, ListKept DEF QueueStep, PagesInv
<1>4. CASE ExportStep
    BY <1>4, FormKept, RowsKept, QueueKept, ExportPreserved, ListKept DEF ExportStep, PagesInv
<1>5. CASE ListStep
    BY <1>5, FormKept, RowsKept, QueueKept, ExportKept, ListPreserved DEF ListStep, PagesInv
<1>6. CASE UNCHANGED vars
    BY <1>6, FormKept, RowsKept, QueueKept, ExportKept, ListKept DEF vars, PagesInv
<1> QED BY <1>1, <1>2, <1>3, <1>4, <1>5, <1>6 DEF Next

LEMMA PagesInvHolds == Spec => []PagesInv
<1>1. Init => PagesInv
    BY FormInitially, RowsInitially, QueueInitially, ExportInitially, ListInitially
    DEF Init, PagesInv
<1>2. PagesInv /\ [Next]_vars => PagesInv'
    BY PagesStep
<1> QED BY <1>1, <1>2, PTL DEF Spec

(* Type correctness of every page, for any bounds: among others that the      *)
(* lookups in flight stay within their bound and the page index of the table  *)
(* within the rows.                                                           *)
THEOREM PagesTyped == Spec => []TypeOK
<1>1. PagesInv => TypeOK
    BY DEF PagesInv, TypeOK, FormInv, RowInv, QueueInv
<1> QED BY <1>1, PagesInvHolds, PTL

(* For any number of mounts, openings and failures: a form is worth one entry *)
(* and one more for every failure its user was told of, and of what one mount *)
(* stored all but one has been answered.  What is in flight when the user     *)
(* leaves the tab is of another mount than what follows.                      *)
THEOREM StoredOncePerFailureTold == Spec => []StoredOncePerReport
<1>1. PagesInv => StoredOncePerReport
    BY FormSafe DEF PagesInv, StoredOncePerReport
<1> QED BY <1>1, PagesInvHolds, PTL

(* Once the last list request has landed, the day shows at least what every   *)
(* acknowledged mutation of this user left at the server, whatever answers    *)
(* cross on the way.                                                          *)
THEOREM OwnWritesAlwaysShown == Spec => []OwnWritesShown
<1>1. PagesInv => OwnWritesShown
    BY DEF PagesInv, RowInv, OwnWritesShown
<1> QED BY <1>1, PagesInvHolds, PTL

(* "Queue is clear" is never the face of a list that failed or is on its way, *)
(* for any rows and any viewer, whenever the working groups come in and the   *)
(* network goes: each list is there, or waits, offline, for the network.      *)
THEOREM ClearOnlyWhenLoaded == Spec => []ClearMeansLoaded
<1>1. PagesInv => ClearMeansLoaded
    BY QueueSafe DEF PagesInv, ClearMeansLoaded
<1> QED BY <1>1, PagesInvHolds, PTL

(* However filters and refetches shrink the list under the kept page index,   *)
(* for any entries and any page size, the table shows rows while there are    *)
(* some, none of them twice.                                                  *)
THEOREM PageNeverEmptied == Spec => []PageNeverEmpty
<1>1. PagesInv => PageNeverEmpty
    BY ListSafe DEF PagesInv, PageNeverEmpty
<1> QED BY <1>1, PagesInvHolds, PTL
=============================================================================
