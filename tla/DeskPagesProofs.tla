---------------------------- MODULE DeskPagesProofs -----------------------------
(* The pages that manage the organization's records, for any records, bounds  *)
(* and requests.  One section per page proves that its steps preserve its     *)
(* invariant; the theorems at the end put them together, since a page is      *)
(* never left for another within a visit.                                     *)
EXTENDS DeskPages, QueryCache, Sequences, SequenceTheorems, FiniteSetTheorems,
        WellFoundedInduction, TLAPS

-----------------------------------------------------------------------------
(* A cached query and what was acknowledged: a settled list must be as new as *)
(* that, and so must an answer that has been read and is to land, unless the  *)
(* query was invalidated during its first request.                            *)

Current(q, n) ==
    /\ q.at = "read" /\ ~q.late => q.reply.rev >= n
    /\ Settled(q) => q.data.rev >= n

(* The pages use the same operations on their queries.                        *)
LEMMA SameOperations ==
    /\ \A D : /\ CustomerPage!Queries(D) = Queries(D) /\ GroupPage!Queries(D) = Queries(D)
              /\ TicketPage!Queries(D) = Queries(D) /\ ActivityPage!Queries(D) = Queries(D)
    /\ \A q : /\ CustomerPage!Asked(q) = Asked(q) /\ GroupPage!Asked(q) = Asked(q)
              /\ TicketPage!Asked(q) = Asked(q) /\ ActivityPage!Asked(q) = Asked(q)
              /\ CustomerPage!Landed(q) = Landed(q) /\ GroupPage!Landed(q) = Landed(q)
              /\ TicketPage!Landed(q) = Landed(q) /\ ActivityPage!Landed(q) = Landed(q)
              /\ CustomerPage!Broken(q) = Broken(q)
              /\ TicketPage!Broken(q) = Broken(q) /\ ActivityPage!Broken(q) = Broken(q)
              /\ CustomerPage!Warm(q) = Warm(q) /\ GroupPage!Warm(q) = Warm(q)
              /\ TicketPage!Warm(q) = Warm(q)
              /\ CustomerPage!Cold(q) = Cold(q) /\ TicketPage!Cold(q) = Cold(q)
              /\ ActivityPage!Cold(q) = Cold(q)
    /\ \A q, d : /\ CustomerPage!ReadBy(q, d) = ReadBy(q, d)
                 /\ GroupPage!ReadBy(q, d) = ReadBy(q, d)
                 /\ TicketPage!ReadBy(q, d) = ReadBy(q, d)
                 /\ ActivityPage!ReadBy(q, d) = ReadBy(q, d)
    /\ \A q : /\ CustomerPage!Refetched(q) = Refetched(q)
              /\ GroupPage!Refetched(q) = Refetched(q)
              /\ TicketPage!Refetched(q) = Refetched(q)
              /\ ActivityPage!Refetched(q) = Refetched(q)
              /\ CustomerPage!Settled(q) <=> Settled(q)
              /\ GroupPage!Settled(q) <=> Settled(q)
              /\ TicketPage!Settled(q) <=> Settled(q)
              /\ ActivityPage!Settled(q) <=> Settled(q)
<1>1. \A D : /\ CustomerPage!Queries(D) = Queries(D) /\ GroupPage!Queries(D) = Queries(D)
             /\ TicketPage!Queries(D) = Queries(D) /\ ActivityPage!Queries(D) = Queries(D)
    BY DEF Queries, CustomerPage!Queries, GroupPage!Queries, TicketPage!Queries,
           ActivityPage!Queries
<1>2. \A q : /\ CustomerPage!Asked(q) = Asked(q) /\ GroupPage!Asked(q) = Asked(q)
             /\ TicketPage!Asked(q) = Asked(q) /\ ActivityPage!Asked(q) = Asked(q)
    BY DEF Asked, CustomerPage!Asked, GroupPage!Asked, TicketPage!Asked, ActivityPage!Asked
<1>3. \A q : /\ CustomerPage!Landed(q) = Landed(q) /\ GroupPage!Landed(q) = Landed(q)
             /\ TicketPage!Landed(q) = Landed(q) /\ ActivityPage!Landed(q) = Landed(q)
    BY DEF Landed, CustomerPage!Landed, GroupPage!Landed, TicketPage!Landed,
           ActivityPage!Landed
<1>4. \A q : /\ CustomerPage!Broken(q) = Broken(q)
             /\ TicketPage!Broken(q) = Broken(q) /\ ActivityPage!Broken(q) = Broken(q)
    BY DEF Broken, CustomerPage!Broken, TicketPage!Broken, ActivityPage!Broken
<1>5. \A q : /\ CustomerPage!Cold(q) = Cold(q) /\ TicketPage!Cold(q) = Cold(q)
             /\ ActivityPage!Cold(q) = Cold(q) /\ GroupPage!Cold(q) = Cold(q)
    BY DEF Cold, CustomerPage!Cold, GroupPage!Cold, TicketPage!Cold, ActivityPage!Cold
<1>6. \A q : /\ CustomerPage!Warm(q) = Warm(q) /\ GroupPage!Warm(q) = Warm(q)
             /\ TicketPage!Warm(q) = Warm(q)
    BY <1>5 DEF Warm, CustomerPage!Warm, GroupPage!Warm, TicketPage!Warm
<1>7. \A q, d : /\ CustomerPage!ReadBy(q, d) = ReadBy(q, d)
                /\ GroupPage!ReadBy(q, d) = ReadBy(q, d)
                /\ TicketPage!ReadBy(q, d) = ReadBy(q, d)
                /\ ActivityPage!ReadBy(q, d) = ReadBy(q, d)
    BY DEF ReadBy, CustomerPage!ReadBy, GroupPage!ReadBy, TicketPage!ReadBy,
           ActivityPage!ReadBy
<1>8. \A q : /\ CustomerPage!Refetched(q) = Refetched(q)
             /\ GroupPage!Refetched(q) = Refetched(q)
             /\ TicketPage!Refetched(q) = Refetched(q)
             /\ ActivityPage!Refetched(q) = Refetched(q)
    BY <1>2
    DEF Refetched, IsLoading, CustomerPage!Refetched, CustomerPage!IsLoading,
        GroupPage!Refetched, GroupPage!IsLoading, TicketPage!Refetched, TicketPage!IsLoading,
        ActivityPage!Refetched, ActivityPage!IsLoading
<1>9. \A q : /\ CustomerPage!Settled(q) <=> Settled(q)
             /\ GroupPage!Settled(q) <=> Settled(q)
             /\ TicketPage!Settled(q) <=> Settled(q)
             /\ ActivityPage!Settled(q) <=> Settled(q)
    BY DEF Settled, CustomerPage!Settled, GroupPage!Settled, TicketPage!Settled,
           ActivityPage!Settled
<1> QED BY <1>1, <1>2, <1>3, <1>4, <1>5, <1>6, <1>7, <1>8, <1>9

(* What the operations on a cached query keep and change.                     *)
LEMMA QuerySteps ==
    ASSUME NEW D, NEW q \in Queries(D), NEW d \in D
    PROVE  /\ Asked(q) \in Queries(D) /\ Asked(q).at = "asked" /\ Asked(q).error = q.error
           /\ Asked(Cold(q.data)) \in Queries(D) /\ Asked(Cold(q.data)).at = "asked"
           /\ ReadBy(q, d) \in Queries(D) /\ ReadBy(q, d).at = "read" /\ ReadBy(q, d).reply = d
           /\ ReadBy(q, d).error = q.error
           /\ Refetched(q) \in Queries(D) /\ Refetched(q).error = q.error
           /\ Refetched(q).at = "asked" \/ Refetched(q).late
           /\ Landed(q) \in Queries(D) /\ Landed(q).at = "idle" /\ Landed(q).data = q.reply
           /\ ~Landed(q).error /\ Landed(q).late = q.late
           /\ Broken(q) \in Queries(D) /\ Broken(q).at = "idle" /\ Broken(q).error
           /\ Warm(d) \in Queries(D) /\ Warm(d).at = "idle" /\ Warm(d).data = d
           /\ ~Warm(d).error
           /\ Cold(d) \in Queries(D) /\ Cold(d).at = "idle" /\ Cold(d).data = d
<1> USE DEF Queries
<1>1. Asked(q) \in Queries(D) /\ Asked(q).at = "asked" /\ Asked(q).error = q.error
    BY DEF Asked
<1>2. Asked(Cold(q.data)) \in Queries(D) /\ Asked(Cold(q.data)).at = "asked"
    BY DEF Asked, Cold
<1>3. ReadBy(q, d) \in Queries(D) /\ ReadBy(q, d).at = "read" /\ ReadBy(q, d).reply = d
      /\ ReadBy(q, d).error = q.error
    BY DEF ReadBy
<1>4. Landed(q) \in Queries(D) /\ Landed(q).at = "idle" /\ Landed(q).data = q.reply
      /\ ~Landed(q).error /\ Landed(q).late = q.late
    BY DEF Landed
<1>5. Broken(q) \in Queries(D) /\ Broken(q).at = "idle" /\ Broken(q).error
    BY DEF Broken
<1>6. Cold(d) \in Queries(D) /\ Cold(d).at = "idle" /\ Cold(d).data = d /\ ~Cold(d).error
    BY DEF Cold
<1>7. Warm(d) \in Queries(D) /\ Warm(d).at = "idle" /\ Warm(d).data = d /\ ~Warm(d).error
    BY DEF Warm, Cold
<1>8. /\ Refetched(q) \in Queries(D) /\ Refetched(q).error = q.error
      /\ Refetched(q).at = "asked" \/ Refetched(q).late
    <2>1. [q EXCEPT !.late = TRUE] \in Queries(D)
        OBVIOUS
    <2>2. [q EXCEPT !.late = TRUE].late /\ [q EXCEPT !.late = TRUE].error = q.error
        OBVIOUS
    <2> QED BY <1>1, <2>1, <2>2 DEF Refetched
<1> QED
    BY <1>1, <1>2, <1>3, <1>4, <1>5, <1>6, <1>7, <1>8

(* So a query stays current: whatever was heard, another request is; reading  *)
(* what is as new as that is; landing and failing keep it.                    *)
LEMMA StaysCurrent ==
    ASSUME NEW D, NEW q \in Queries(D), NEW d \in D, NEW n
    PROVE  /\ Current(Asked(q), n) /\ Current(Asked(Cold(q.data)), n) /\ Current(Refetched(q), n)
           /\ d.rev >= n => Current(ReadBy(q, d), n)
           /\ q.at = "read" /\ Current(q, n) => Current(Landed(q), n)
           /\ Current(Broken(q), n)
           /\ d.rev >= n => Current(Warm(d), n)
    BY QuerySteps DEF Current, Settled

-----------------------------------------------------------------------------
(* The customers.  FieldsBelong is not inductive: what will be sent is what   *)
(* the open form holds.  AcknowledgedShown needs that an answer that has been *)
(* read is as new as what is acknowledged before it lands, and the server as  *)
(* new as every answer under way.                                             *)

CustomerRequests ==
    [op : {"create", "update", "delete"}, of : Customers \cup {None},
     seed : Customers \cup {None}, at : {"sent", "done"}, rev : 0..MaxRev]

CustomersInv ==
    /\ CustomerPage!TypeOK
    /\ sends \subseteq CustomerRequests
    /\ \A m \in sends : m.at = "done" => m.rev <= store.rev
    /\ Current(list, heard)
    /\ form = "create" => fields = None
    /\ form \in Customers => fields = form
    /\ CustomerPage!FieldsBelong

LEMMA CustomersInitially ==
    ASSUME CustomerPage!Init
    PROVE  CustomersInv
<1>1. store \in CustomerPage!Stores /\ store.rev = 0 /\ 0 \in 0..MaxRev
    BY BoundsAssumption DEF CustomerPage!Init, CustomerPage!Stores
<1>2. list = Warm(store)
    BY SameOperations DEF CustomerPage!Init
<1>3. list \in CustomerPage!Queries(CustomerPage!Stores)
    <2>1. Cold(store) \in Queries(CustomerPage!Stores)
        BY <1>1 DEF Cold, Queries
    <2>2. list \in Queries(CustomerPage!Stores)
        BY <1>1, <1>2, <2>1 DEF Warm, Queries
    <2> QED BY <2>2, SameOperations
<1>4. Current(list, 0)
    <2>1. list.at = "idle" /\ list.data = store
        BY <1>2 DEF Warm, Cold
    <2> QED BY <1>1, <2>1 DEF Current, Settled
<1> QED
    BY <1>1, <1>3, <1>4, FormAssumption
    DEF CustomerPage!Init, CustomersInv, CustomerPage!TypeOK, CustomerPage!FieldsBelong

LEMMA CustomersSends ==
    ASSUME CustomersInv, NEW op \in {"create", "update", "delete"},
           NEW c \in Customers \cup {None}, NEW seed \in Customers \cup {None},
           op # "delete" => seed = c,
           CustomerPage!Send(op, c, seed)
    PROVE  /\ sends' \subseteq CustomerRequests
           /\ \A m \in sends' : m.at = "done" => m.rev <= store.rev
           /\ \A m \in sends' : m.op # "delete" => m.seed = m.of
<1> DEFINE new == [op |-> op, of |-> c, seed |-> seed, at |-> "sent", rev |-> 0]
<1>1. new \in CustomerRequests /\ new.at = "sent" /\ (new.op # "delete" => new.seed = new.of)
    BY BoundsAssumption DEF CustomerRequests
<1>2. sends' = sends \cup {new}
    BY DEF CustomerPage!Send
<1> HIDE DEF new
<1> QED BY <1>1, <1>2 DEF CustomersInv, CustomerPage!FieldsBelong

(* The user's own steps leave the server and the list alone.                  *)
LEMMA CustomersUser ==
    ASSUME CustomersInv,
           \/ CustomerPage!OpenCreate \/ CustomerPage!CloseForm \/ CustomerPage!Submit
           \/ CustomerPage!CancelDelete \/ CustomerPage!ConfirmDelete
           \/ \E c \in Customers : CustomerPage!OpenEdit(c) \/ CustomerPage!OpenDelete(c)
    PROVE  CustomersInv'
<1> USE DEF CustomerPage!OpenCreate, CustomerPage!CloseForm, CustomerPage!Submit,
            CustomerPage!CancelDelete, CustomerPage!ConfirmDelete, CustomerPage!OpenEdit,
            CustomerPage!OpenDelete
<1>1. UNCHANGED <<store, list, heard>>
    OBVIOUS
<1>2. form \in Customers \cup {"closed", "create"} /\ fields \in Customers \cup {None}
      /\ doomed \in Customers \cup {None}
    BY DEF CustomersInv, CustomerPage!TypeOK
<1>3. /\ form' \in Customers \cup {"closed", "create"}
      /\ fields' \in Customers \cup {None}
      /\ doomed' \in Customers \cup {None}
    BY <1>2 DEF CustomerPage!Reset
<1>4. (form' = "create" => fields' = None) /\ (form' \in Customers => fields' = form')
    BY <1>2, FormAssumption DEF CustomerPage!Reset, CustomersInv
<1>5. /\ sends' \subseteq CustomerRequests
      /\ \A m \in sends' : m.at = "done" => m.rev <= store.rev
      /\ \A m \in sends' : m.op # "delete" => m.seed = m.of
    <2>1. CASE CustomerPage!Submit
        <3>1. CASE form = "create"
            <4>1. CustomerPage!Send("create", None, fields) /\ fields = None
                BY <2>1, <3>1 DEF CustomersInv
            <4> QED BY <1>2, <4>1, CustomersSends
        <3>2. CASE form \in Customers
            <4>1. CustomerPage!Send("update", form, fields) /\ fields = form
                BY <2>1, <3>2, FormAssumption DEF CustomersInv
            <4> QED BY <3>2, <4>1, CustomersSends
        <3> QED BY <1>2, <2>1, <3>1, <3>2
    <2>2. CASE CustomerPage!ConfirmDelete
        <3>1. CustomerPage!Send("delete", doomed, None)
            BY <2>2
        <3> QED BY <1>2, <3>1, CustomersSends
    <2>3. CASE sends' = sends
        BY <2>3 DEF CustomersInv, CustomerPage!FieldsBelong
    <2> QED BY <2>1, <2>2, <2>3
<1> QED
    BY <1>1, <1>3, <1>4, <1>5
    DEF CustomersInv, CustomerPage!TypeOK, CustomerPage!FieldsBelong, CustomerRequests

(* The server only moves forward, by one; a request is served by such a move. *)
LEMMA CustomersGrow ==
    ASSUME CustomersInv, store.rev < MaxRev,
           \/ \E live, now \in SUBSET Customers : CustomerPage!Change(live, now)
           \/ \E c \in Customers : CustomerPage!Add(c) \/ CustomerPage!Deactivate(c)
           \/ CustomerPage!Change(store.live, store.active)
    PROVE  store' \in CustomerPage!Stores /\ store'.rev = store.rev + 1
           /\ store.rev \in Nat
<1>1. store \in CustomerPage!Stores /\ MaxRev \in Nat
    BY BoundsAssumption DEF CustomersInv, CustomerPage!TypeOK
<1>2. store.rev + 1 \in 0..MaxRev /\ store.rev \in Nat
    BY <1>1 DEF CustomerPage!Stores
<1>3. PICK live \in SUBSET Customers, now \in SUBSET Customers : CustomerPage!Change(live, now)
    BY <1>1 DEF CustomerPage!Add, CustomerPage!Deactivate, CustomerPage!Stores
<1> QED BY <1>2, <1>3 DEF CustomerPage!Change, CustomerPage!Stores

LEMMA CustomersServe ==
    ASSUME CustomersInv, NEW m \in sends, CustomerPage!Serve(m)
    PROVE  CustomersInv'
<1> DEFINE done == [m EXCEPT !.at = "done", !.rev = store.rev + 1]
<1>1. m \in CustomerRequests /\ UNCHANGED <<list, form, fields, doomed, heard>>
      /\ store.rev < MaxRev /\ sends' = (sends \ {m}) \cup {done}
    BY DEF CustomersInv, CustomerPage!Serve
<1>2. store' \in CustomerPage!Stores /\ store'.rev = store.rev + 1 /\ store.rev \in Nat
    <2>1. \/ \E c \in Customers : CustomerPage!Add(c) \/ CustomerPage!Deactivate(c)
          \/ CustomerPage!Change(store.live, store.active)
        <3>1. CASE CustomerPage!Deactivate(m.of)
            <4>1. store.live \subseteq Customers
                BY DEF CustomersInv, CustomerPage!TypeOK, CustomerPage!Stores
            <4> QED BY <3>1, <4>1 DEF CustomerPage!Deactivate
        <3> QED BY <3>1 DEF CustomerPage!Serve
    <2> QED BY <1>1, <2>1, CustomersGrow
<1>3. /\ done \in CustomerRequests /\ done.rev = store.rev + 1
      /\ done.op = m.op /\ done.seed = m.seed /\ done.of = m.of
    <2> DEFINE step == [m EXCEPT !.at = "done"]
    <2>1. step \in CustomerRequests /\ step.op = m.op /\ step.seed = m.seed /\ step.of = m.of
        BY <1>1 DEF CustomerRequests
    <2>2. store.rev + 1 \in 0..MaxRev
        BY <1>2 DEF CustomerPage!Stores
    <2>3. done = [step EXCEPT !.rev = store.rev + 1]
        OBVIOUS
    <2> HIDE DEF step
    <2> QED BY <2>1, <2>2, <2>3 DEF CustomerRequests
<1> HIDE DEF done
<1>4. /\ sends' \subseteq CustomerRequests
      /\ \A n \in sends' : n.at = "done" => n.rev <= store'.rev
      /\ \A n \in sends' : n.op # "delete" => n.seed = n.of
    BY <1>1, <1>2, <1>3 DEF CustomersInv, CustomerPage!FieldsBelong, CustomerRequests
<1>5. heard' \in 0..store'.rev
    BY <1>1, <1>2 DEF CustomersInv, CustomerPage!TypeOK
<1> QED
    BY <1>1, <1>2, <1>4, <1>5
    DEF CustomersInv, CustomerPage!TypeOK, CustomerPage!FieldsBelong, CustomerRequests

LEMMA CustomersOthers ==
    ASSUME CustomersInv, CustomerPage!OthersChange
    PROVE  CustomersInv'
<1>1. UNCHANGED <<list, form, fields, doomed, sends, heard>> /\ store.rev < MaxRev
      /\ \E c \in Customers : CustomerPage!Add(c) \/ CustomerPage!Deactivate(c)
    BY DEF CustomerPage!OthersChange
<1>2. store' \in CustomerPage!Stores /\ store'.rev = store.rev + 1 /\ store.rev \in Nat
    BY <1>1, CustomersGrow
<1>3. /\ heard' \in 0..store'.rev
      /\ \A n \in sends' : n.at = "done" => n.rev <= store'.rev
    BY <1>1, <1>2 DEF CustomersInv, CustomerPage!TypeOK, CustomerRequests
<1> QED
    BY <1>1, <1>2, <1>3 DEF CustomersInv, CustomerPage!TypeOK, CustomerPage!FieldsBelong

(* An answer drops the list that was under way and asks for another, or finds *)
(* the first request of a search under way.                                   *)
LEMMA CustomersAnswered ==
    ASSUME CustomersInv, NEW m \in sends, CustomerPage!Acknowledge(m) \/ CustomerPage!Refuse(m)
    PROVE  CustomersInv'
<1>1. m \in CustomerRequests /\ m.rev \in Nat /\ store \in CustomerPage!Stores
      /\ store.rev \in Nat
    BY DEF CustomersInv, CustomerRequests, CustomerPage!TypeOK, CustomerPage!Stores
<1>2. sends' \subseteq sends /\ UNCHANGED <<store, form, fields>>
      /\ doomed' \in Customers \cup {None}
    BY DEF CustomerPage!Acknowledge, CustomerPage!Refuse, CustomersInv, CustomerPage!TypeOK
<1>3. list' \in CustomerPage!Queries(CustomerPage!Stores) /\ Current(list', heard')
      /\ heard' \in 0..store.rev
    <2>1. CASE CustomerPage!Acknowledge(m)
        <3>1. list' = Refetched(list) /\ list \in Queries(CustomerPage!Stores)
            BY <2>1, SameOperations
            DEF CustomerPage!Acknowledge, CustomerPage!Refreshed, CustomersInv,
                CustomerPage!TypeOK
        <3>2. heard' \in 0..store.rev
            BY <1>1, <2>1 DEF CustomerPage!Acknowledge, CustomersInv, CustomerPage!TypeOK
        <3> QED BY <1>1, <3>1, <3>2, QuerySteps, StaysCurrent, SameOperations
    <2>2. CASE CustomerPage!Refuse(m)
        BY <2>2 DEF CustomerPage!Refuse, CustomersInv, CustomerPage!TypeOK
    <2> QED BY <2>1, <2>2
<1> QED
    BY <1>2, <1>3 DEF CustomersInv, CustomerPage!TypeOK, CustomerPage!FieldsBelong

(* Asking, reading, landing and failing.                                      *)
LEMMA CustomersListed ==
    ASSUME CustomersInv,
           \/ CustomerPage!Search \/ CustomerPage!ListReads
           \/ CustomerPage!ListLands \/ CustomerPage!ListFails
    PROVE  CustomersInv'
<1>1. list \in Queries(CustomerPage!Stores) /\ store \in CustomerPage!Stores
      /\ Current(list, heard) /\ store.rev >= heard
    BY SameOperations DEF CustomersInv, CustomerPage!TypeOK, CustomerPage!Stores
<1>2. UNCHANGED <<store, form, fields, doomed, sends, heard>>
    BY DEF CustomerPage!Search, CustomerPage!ListReads, CustomerPage!ListLands,
           CustomerPage!ListFails
<1>3. list' \in Queries(CustomerPage!Stores) /\ Current(list', heard)
    <2>1. CASE CustomerPage!Search
        <3>1. list' = Asked(Cold(list.data))
            BY <2>1, SameOperations DEF CustomerPage!Search
        <3> QED BY <1>1, <3>1, QuerySteps, StaysCurrent
    <2>2. CASE CustomerPage!ListReads
        <3>1. list' = ReadBy(list, store)
            BY <2>2, SameOperations DEF CustomerPage!ListReads
        <3> QED BY <1>1, <3>1, QuerySteps, StaysCurrent
    <2>3. CASE CustomerPage!ListLands
        <3>1. list' = Landed(list) /\ list.at = "read"
            BY <2>3, SameOperations DEF CustomerPage!ListLands
        <3> QED BY <1>1, <3>1, QuerySteps, StaysCurrent
    <2>4. CASE CustomerPage!ListFails
        <3>1. list' = Broken(list)
            BY <2>4, SameOperations DEF CustomerPage!ListFails
        <3> QED BY <1>1, <3>1, QuerySteps, StaysCurrent
    <2> QED BY <2>1, <2>2, <2>3, <2>4
<1>4. list' \in CustomerPage!Queries(CustomerPage!Stores)
    BY <1>3, SameOperations
<1> QED
    BY <1>2, <1>3, <1>4 DEF CustomersInv, CustomerPage!TypeOK, CustomerPage!FieldsBelong

LEMMA CustomersPreserved ==
    ASSUME CustomersInv, CustomerPage!Next
    PROVE  CustomersInv'
<1>1. CASE \E m \in sends : CustomerPage!Serve(m)
    BY <1>1, CustomersServe
<1>2. CASE \E m \in sends : CustomerPage!Acknowledge(m) \/ CustomerPage!Refuse(m)
    BY <1>2, CustomersAnswered
<1> QED
    BY <1>1, <1>2, CustomersUser, CustomersOthers, CustomersListed DEF CustomerPage!Next

-----------------------------------------------------------------------------
(* The working groups.  The edit dialog is always mounted and keeps the       *)
(* fields of the group it was last opened for: that is the group it shows     *)
(* while it is open.  The list is never asked for in vain.                    *)

GroupRequests ==
    [op : {"create", "update", "delete", "add", "remove"}, of : Groups \cup {None},
     seed : Groups \cup {None}, at : {"sent", "done"}, rev : 0..MaxRev]

GroupsInv ==
    /\ GroupPage!TypeOK
    /\ sends \subseteq GroupRequests
    /\ \A m \in sends : m.at = "done" => m.rev <= store.rev
    /\ Current(list, heard) /\ ~list.error
    /\ edited # None => fields = edited
    /\ GroupPage!FieldsBelong

LEMMA GroupsInitially ==
    ASSUME GroupPage!Init
    PROVE  GroupsInv
<1>1. store \in GroupPage!Stores /\ store.rev = 0 /\ 0 \in 0..MaxRev
    BY BoundsAssumption DEF GroupPage!Init, GroupPage!Stores
<1>2. list = Warm(store)
    BY SameOperations DEF GroupPage!Init
<1>3. Cold(store) \in Queries(GroupPage!Stores)
    BY <1>1 DEF Cold, Queries
<1>4. list \in Queries(GroupPage!Stores)
    BY <1>1, <1>2, <1>3 DEF Warm, Queries
<1>5. list \in GroupPage!Queries(GroupPage!Stores)
    BY <1>4, SameOperations
<1>6. Current(list, heard) /\ ~list.error
    <2>1. list.at = "idle" /\ list.data = store /\ ~list.error
        BY <1>2 DEF Warm, Cold
    <2>2. heard = 0
        BY DEF GroupPage!Init
    <2>3. Current(list, heard)
        BY <1>1, <2>1, <2>2 DEF Current, Settled
    <2> QED BY <2>1, <2>3
<1>7. GroupPage!TypeOK
    <2>1. /\ roster = {} /\ creating = FALSE /\ edited = None /\ fields = None
          /\ dialog = "none" /\ subject = None /\ sends = {} /\ heard = 0
        BY DEF GroupPage!Init
    <2>2. heard \in 0..store.rev
        BY <1>1, <2>1
    <2> QED BY <1>1, <1>5, <2>1, <2>2 DEF GroupPage!TypeOK
<1>8. sends = {} /\ edited = None
    BY DEF GroupPage!Init
<1> QED
    BY <1>6, <1>7, <1>8 DEF GroupsInv, GroupPage!FieldsBelong

LEMMA GroupsSends ==
    ASSUME GroupsInv, NEW op \in {"create", "update", "delete", "add", "remove"},
           NEW g \in Groups \cup {None}, GroupPage!Send(op, g, g)
    PROVE  /\ sends' \subseteq GroupRequests
           /\ \A m \in sends' : m.at = "done" => m.rev <= store.rev
           /\ \A m \in sends' : m.seed = m.of
<1> DEFINE new == [op |-> op, of |-> g, seed |-> g, at |-> "sent", rev |-> 0]
<1>1. new \in GroupRequests /\ new.at = "sent" /\ new.seed = new.of
    BY BoundsAssumption DEF GroupRequests
<1>2. sends' = sends \cup {new}
    BY DEF GroupPage!Send
<1> HIDE DEF new
<1> QED BY <1>1, <1>2 DEF GroupsInv, GroupPage!FieldsBelong

LEMMA GroupsDialogs ==
    ASSUME GroupsInv,
           \/ GroupPage!OpenCreate \/ GroupPage!AskRemove \/ GroupPage!Close
           \/ GroupPage!RosterArrives
           \/ \E g \in Groups : \/ GroupPage!OpenEdit(g)
                                \/ \E d \in {"delete", "members"} : GroupPage!OpenDialog(d, g)
    PROVE  GroupsInv'
<1> USE DEF GroupPage!OpenCreate, GroupPage!AskRemove, GroupPage!Close,
            GroupPage!RosterArrives, GroupPage!OpenEdit, GroupPage!OpenDialog
<1>1. UNCHANGED <<store, list, sends, heard>>
    BY DEF GroupPage!dialogVars
<1>2. /\ store \in GroupPage!Stores /\ roster \subseteq Groups /\ creating \in BOOLEAN
      /\ {edited, fields, subject} \subseteq Groups \cup {None}
      /\ dialog \in {"none", "delete", "members", "remove"}
    BY DEF GroupsInv, GroupPage!TypeOK
<1>3. roster' \subseteq Groups /\ creating' \in BOOLEAN
    BY <1>2 DEF GroupPage!dialogVars, GroupPage!Stores
<1>4. dialog' \in {"none", "delete", "members", "remove"}
    BY <1>2 DEF GroupPage!dialogVars
<1>5. {edited', fields', subject'} \subseteq Groups \cup {None}
    BY <1>2 DEF GroupPage!dialogVars, GroupPage!Seed
<1>6. edited' # None => fields' = edited'
    BY DEF GroupPage!dialogVars, GroupPage!Seed, GroupsInv
<1> QED
    BY <1>1, <1>3, <1>4, <1>5, <1>6 DEF GroupsInv, GroupPage!TypeOK, GroupPage!FieldsBelong

LEMMA GroupsSubmitted ==
    ASSUME GroupsInv, GroupPage!Submit
    PROVE  GroupsInv'
<1>1. {edited, subject} \subseteq Groups \cup {None} /\ (edited # None => fields = edited)
    BY DEF GroupsInv, GroupPage!TypeOK
<1>2. \E op \in {"create", "update", "delete", "add", "remove"}, g \in Groups \cup {None} :
          GroupPage!Send(op, g, g)
    BY <1>1 DEF GroupPage!Submit, GroupPage!SubmitCreate, GroupPage!SubmitEdit,
                GroupPage!ConfirmDelete, GroupPage!AddMember, GroupPage!ConfirmRemove
<1>3. /\ sends' \subseteq GroupRequests
      /\ \A m \in sends' : m.at = "done" => m.rev <= store.rev
      /\ \A m \in sends' : m.seed = m.of
    BY <1>2, GroupsSends
<1>4. UNCHANGED <<store, list, roster, creating, edited, fields, dialog, subject, heard>>
    BY DEF GroupPage!Submit, GroupPage!dialogVars
<1>5. \A m \in sends' : m.op \in GroupPage!GroupOps
    BY <1>3 DEF GroupPage!GroupOps, GroupRequests
<1> QED
    BY <1>3, <1>4, <1>5 DEF GroupsInv, GroupPage!TypeOK, GroupPage!FieldsBelong

LEMMA GroupsServe ==
    ASSUME GroupsInv, NEW m \in sends, GroupPage!Serve(m)
    PROVE  GroupsInv'
<1> DEFINE done == [m EXCEPT !.at = "done", !.rev = store.rev + 1]
<1>1. m \in GroupRequests /\ store.rev < MaxRev /\ sends' = (sends \ {m}) \cup {done}
      /\ UNCHANGED <<list, roster, creating, edited, fields, dialog, subject, heard>>
    BY DEF GroupsInv, GroupPage!Serve, GroupPage!dialogVars
<1>2. store \in GroupPage!Stores /\ store.rev \in Nat /\ store.rev + 1 \in 0..MaxRev
    BY <1>1, BoundsAssumption DEF GroupsInv, GroupPage!TypeOK, GroupPage!Stores
<1>3. store' \in GroupPage!Stores /\ store'.rev = store.rev + 1
    <2>1. PICK live \in SUBSET Groups, manned \in SUBSET Groups : GroupPage!Change(live, manned)
        <3> USE <1>2 DEF GroupPage!Stores
        <3>1. CASE m.op = "create"
            BY <3>1 DEF GroupPage!Serve
        <3>2. CASE m.op = "update"
            BY <3>2 DEF GroupPage!Serve
        <3>3. CASE m.op = "delete"
            BY <3>3 DEF GroupPage!Serve
        <3>4. CASE m.op = "add"
            BY <3>4 DEF GroupPage!Serve
        <3>5. CASE m.op = "remove"
            BY <3>5 DEF GroupPage!Serve
        <3> QED BY <1>1, <3>1, <3>2, <3>3, <3>4, <3>5 DEF GroupRequests
    <2> QED BY <1>2, <2>1 DEF GroupPage!Change, GroupPage!Stores
<1>4. done \in GroupRequests /\ done.rev = store.rev + 1 /\ done.seed = m.seed /\ done.of = m.of
    <2> DEFINE step == [m EXCEPT !.at = "done"]
    <2>1. step \in GroupRequests /\ step.seed = m.seed /\ step.of = m.of
        BY <1>1 DEF GroupRequests
    <2>2. done = [step EXCEPT !.rev = store.rev + 1]
        OBVIOUS
    <2> HIDE DEF step
    <2> QED BY <1>2, <2>1, <2>2 DEF GroupRequests
<1> HIDE DEF done
<1>5. /\ sends' \subseteq GroupRequests
      /\ \A n \in sends' : n.at = "done" => n.rev <= store'.rev
      /\ \A n \in sends' : n.seed = n.of
    BY <1>1, <1>2, <1>3, <1>4 DEF GroupsInv, GroupPage!FieldsBelong, GroupRequests
<1>6. heard' \in 0..store'.rev
    BY <1>1, <1>2, <1>3 DEF GroupsInv, GroupPage!TypeOK
<1>7. \A n \in sends' : n.op \in GroupPage!GroupOps
    BY <1>5 DEF GroupPage!GroupOps, GroupRequests
<1> QED
    BY <1>1, <1>3, <1>5, <1>6, <1>7 DEF GroupsInv, GroupPage!TypeOK, GroupPage!FieldsBelong

LEMMA GroupsOthers ==
    ASSUME GroupsInv, GroupPage!OthersChange
    PROVE  GroupsInv'
<1>1. UNCHANGED <<list, roster, creating, edited, fields, dialog, subject, sends, heard>>
      /\ store.rev < MaxRev
    BY DEF GroupPage!OthersChange, GroupPage!dialogVars
<1>2. store \in GroupPage!Stores /\ store.rev \in Nat /\ store.rev + 1 \in 0..MaxRev
    BY <1>1, BoundsAssumption DEF GroupsInv, GroupPage!TypeOK, GroupPage!Stores
<1>3. store' \in GroupPage!Stores /\ store'.rev = store.rev + 1
    BY <1>2 DEF GroupPage!OthersChange, GroupPage!Change, GroupPage!Stores
<1>4. /\ heard' \in 0..store'.rev
      /\ \A n \in sends' : n.at = "done" => n.rev <= store'.rev
    BY <1>1, <1>2, <1>3 DEF GroupsInv, GroupPage!TypeOK, GroupRequests
<1> QED
    BY <1>1, <1>3, <1>4 DEF GroupsInv, GroupPage!TypeOK, GroupPage!FieldsBelong

LEMMA GroupsAnswered ==
    ASSUME GroupsInv, NEW m \in sends, GroupPage!Acknowledge(m) \/ GroupPage!Refuse(m)
    PROVE  GroupsInv'
<1>1. m \in GroupRequests /\ m.rev \in Nat /\ store \in GroupPage!Stores /\ store.rev \in Nat
    BY DEF GroupsInv, GroupRequests, GroupPage!TypeOK, GroupPage!Stores
<1>2. sends' \subseteq sends /\ UNCHANGED <<store, roster, fields, subject>>
    BY DEF GroupPage!Acknowledge, GroupPage!Refuse, GroupPage!dialogVars
<1>3. /\ creating' \in BOOLEAN /\ edited' \in {edited, None}
      /\ dialog' \in {"none", "delete", "members", "remove"}
    BY DEF GroupPage!Acknowledge, GroupPage!Refuse, GroupPage!dialogVars, GroupsInv,
           GroupPage!TypeOK
<1>4. list' \in GroupPage!Queries(GroupPage!Stores) /\ Current(list', heard')
      /\ heard' \in 0..store.rev /\ ~list'.error
    <2>1. CASE GroupPage!Acknowledge(m)
        <3>1. list' = Refetched(list) /\ list \in Queries(GroupPage!Stores) /\ ~list.error
            BY <2>1, SameOperations DEF GroupPage!Acknowledge, GroupsInv, GroupPage!TypeOK
        <3>2. heard' \in 0..store.rev
            BY <1>1, <2>1 DEF GroupPage!Acknowledge, GroupsInv, GroupPage!TypeOK
        <3> QED BY <1>1, <3>1, <3>2, QuerySteps, StaysCurrent, SameOperations
    <2>2. CASE GroupPage!Refuse(m)
        BY <2>2 DEF GroupPage!Refuse, GroupsInv, GroupPage!TypeOK
    <2> QED BY <2>1, <2>2
<1> QED
    BY <1>2, <1>3, <1>4 DEF GroupsInv, GroupPage!TypeOK, GroupPage!FieldsBelong

LEMMA GroupsListed ==
    ASSUME GroupsInv, GroupPage!ListReads \/ GroupPage!ListLands
    PROVE  GroupsInv'
<1>1. list \in Queries(GroupPage!Stores) /\ store \in GroupPage!Stores
      /\ Current(list, heard) /\ store.rev >= heard /\ ~list.error
    BY SameOperations DEF GroupsInv, GroupPage!TypeOK, GroupPage!Stores
<1>2. UNCHANGED <<store, roster, creating, edited, fields, dialog, subject, sends, heard>>
    BY DEF GroupPage!ListReads, GroupPage!ListLands, GroupPage!dialogVars
<1>3. list' \in Queries(GroupPage!Stores) /\ Current(list', heard) /\ ~list'.error
    <2>1. CASE GroupPage!ListReads
        <3>1. list' = ReadBy(list, store)
            BY <2>1, SameOperations DEF GroupPage!ListReads
        <3> QED BY <1>1, <3>1, QuerySteps, StaysCurrent
    <2>2. CASE GroupPage!ListLands
        <3>1. list' = Landed(list) /\ list.at = "read"
            BY <2>2, SameOperations DEF GroupPage!ListLands
        <3> QED BY <1>1, <3>1, QuerySteps, StaysCurrent
    <2> QED BY <2>1, <2>2
<1>4. list' \in GroupPage!Queries(GroupPage!Stores)
    BY <1>3, SameOperations
<1> QED
    BY <1>2, <1>3, <1>4 DEF GroupsInv, GroupPage!TypeOK, GroupPage!FieldsBelong

LEMMA GroupsPreserved ==
    ASSUME GroupsInv, GroupPage!Next
    PROVE  GroupsInv'
<1>1. CASE \E m \in sends : GroupPage!Serve(m)
    BY <1>1, GroupsServe
<1>2. CASE \E m \in sends : GroupPage!Acknowledge(m) \/ GroupPage!Refuse(m)
    BY <1>2, GroupsAnswered
<1> QED
    BY <1>1, <1>2, GroupsDialogs, GroupsSubmitted, GroupsOthers, GroupsListed
    DEF GroupPage!Next

-----------------------------------------------------------------------------
(* The contracts.  Only a deletion takes the contract away, and it does so    *)
(* when nothing names it; only work on a contract that is there links to it.  *)

ContractRequests ==
    [op : {"create", "adopt", "save", "toggle", "recalculate", "delete"},
     rate : Rates, active : BOOLEAN, checked : BOOLEAN]

ContractsInv ==
    /\ ContractPage!TypeOK
    /\ sends \subseteq ContractRequests
    /\ ContractPage!LinkedContractStays

LEMMA ContractsInitially ==
    ASSUME ContractPage!Init
    PROVE  ContractsInv
<1>1. PICK r \in Rates : contract = [there |-> TRUE, rate |-> r, active |-> TRUE] /\ valued = r
    BY DEF ContractPage!Init
<1>2. contract \in ContractPage!Contracts /\ valued \in Rates
    BY <1>1 DEF ContractPage!Contracts
<1>3. seen \in [of : ContractPage!Contracts, busy : BOOLEAN]
    BY <1>2 DEF ContractPage!Init
<1>4. /\ viewer \in [finance : BOOLEAN, owner : BOOLEAN]
      /\ linked = 0 /\ adopted = FALSE /\ made = 0
      /\ url = [page |-> "list", tab |-> "owned"]
      /\ draft = 0 /\ dialog = "none" /\ sends = {}
    BY DEF ContractPage!Init
<1>5. made \in 0..MaxMade /\ url \in [page : {"list", "detail"}, tab : ContractPage!Tabs]
    BY <1>4, BoundsAssumption DEF ContractPage!Tabs
<1>6. ContractPage!TypeOK
    <2>1. linked \in 0..2 /\ draft \in Rates \cup {0}
        BY <1>4
    <2>3. adopted \in BOOLEAN
        BY <1>4
    <2>2. dialog \in {"none", "create", "adopt"}
          /\ \A m \in sends : m.op \in ContractPage!Mutations /\ m.rate \in Rates
        BY <1>4
    <2> QED BY <1>2, <1>3, <1>4, <1>5, <2>1, <2>2, <2>3 DEF ContractPage!TypeOK
<1> QED
    BY <1>4, <1>6 DEF ContractsInv, ContractPage!LinkedContractStays

(* What the page does is not yet what the server does.                        *)
LEMMA ContractsBrowsed ==
    ASSUME ContractsInv,
           \/ \E t \in ContractPage!Tabs : ContractPage!HandleTabChange(t)
           \/ \E d \in {"create", "adopt"} : ContractPage!OpenDialog(d)
           \/ ContractPage!CloseDialog \/ ContractPage!HandleRowClick
           \/ ContractPage!BackToList \/ ContractPage!HandleEdit
           \/ ContractPage!HandleCancel \/ \E r \in Rates : ContractPage!ChangeRate(r)
    PROVE  ContractsInv'
<1> USE DEF ContractPage!HandleTabChange, ContractPage!OpenDialog, ContractPage!CloseDialog,
            ContractPage!HandleRowClick, ContractPage!BackToList, ContractPage!HandleEdit,
            ContractPage!HandleCancel, ContractPage!ChangeRate
<1>1. UNCHANGED <<viewer, contract, linked, adopted, made, valued, sends>>
    BY DEF ContractPage!serverVars
<1>2. /\ contract \in ContractPage!Contracts
      /\ url \in [page : {"list", "detail"}, tab : ContractPage!Tabs]
      /\ seen \in [of : ContractPage!Contracts, busy : BOOLEAN]
      /\ draft \in Rates \cup {0} /\ dialog \in {"none", "create", "adopt"}
    BY DEF ContractsInv, ContractPage!TypeOK
<1>3. url' \in [page : {"list", "detail"}, tab : ContractPage!Tabs]
    <2>1. CASE ContractPage!HandleRowClick
        BY <1>2, <2>1
    <2>2. CASE ContractPage!BackToList
        BY <1>2, <2>2
    <2>3. CASE \E t \in ContractPage!Tabs : ContractPage!HandleTabChange(t)
        BY <1>2, <2>3
    <2>4. CASE url' = url
        BY <1>2, <2>4
    <2> QED BY <2>1, <2>2, <2>3, <2>4
<1>4. seen' \in [of : ContractPage!Contracts, busy : BOOLEAN]
    <2>1. ContractPage!AsRead \in [of : ContractPage!Contracts, busy : BOOLEAN]
        BY <1>2 DEF ContractPage!AsRead
    <2>2. seen' = seen \/ seen' = ContractPage!AsRead
        OBVIOUS
    <2> QED BY <1>2, <2>1, <2>2
<1>5. draft' \in Rates \cup {0}
    <2>1. seen.of.rate \in Rates
        BY <1>2 DEF ContractPage!Contracts
    <2> QED BY <1>2, <2>1
<1>6. dialog' \in {"none", "create", "adopt"}
    BY <1>2
<1> QED
    BY <1>1, <1>3, <1>4, <1>5, <1>6
    DEF ContractsInv, ContractPage!TypeOK, ContractPage!LinkedContractStays

LEMMA ContractsSubmitted ==
    ASSUME ContractsInv,
           \/ ContractPage!HandleSubmit \/ ContractPage!HandleAdoptConfirm
           \/ ContractPage!HandleSave \/ ContractPage!HandleToggleActive
           \/ ContractPage!HandleRecalculate \/ ContractPage!HandleDelete
    PROVE  ContractsInv'
<1>1. seen.of.rate \in Rates /\ seen.of.active \in BOOLEAN /\ (~seen.of.active) \in BOOLEAN
      /\ draft \in Rates \cup {0}
    <2>1. seen \in [of : ContractPage!Contracts, busy : BOOLEAN] /\ draft \in Rates \cup {0}
        BY DEF ContractsInv, ContractPage!TypeOK
    <2>2. seen.of \in ContractPage!Contracts
        BY <2>1
    <2>3. seen.of.rate \in Rates
        BY <2>2 DEF ContractPage!Contracts
    <2>4. seen.of.active \in BOOLEAN
        BY <2>2 DEF ContractPage!Contracts
    <2>5. (~seen.of.active) \in BOOLEAN
        BY <2>4
    <2> QED BY <2>1, <2>3, <2>4, <2>5
<1>2. PICK op \in {"create", "adopt", "save", "toggle", "recalculate", "delete"},
           rate \in Rates, on \in BOOLEAN : ContractPage!Send(op, rate, on)
    BY <1>1 DEF ContractPage!HandleSubmit, ContractPage!HandleAdoptConfirm,
                ContractPage!HandleSave, ContractPage!HandleToggleActive,
                ContractPage!HandleRecalculate, ContractPage!HandleDelete
<1> DEFINE new == [op |-> op, rate |-> rate, active |-> on, checked |-> FALSE]
<1>3. new \in ContractRequests
    BY DEF ContractRequests
<1>4. sends' = sends \cup {new}
      /\ UNCHANGED <<viewer, contract, linked, adopted, made, valued, url, seen, draft, dialog>>
    BY <1>2 DEF ContractPage!Send, ContractPage!serverVars, ContractPage!viewVars
<1> HIDE DEF new
<1>5. sends' \subseteq ContractRequests
    BY <1>3, <1>4 DEF ContractsInv
<1>6. \A m \in sends' : m.op \in ContractPage!Mutations /\ m.rate \in Rates
    BY <1>5 DEF ContractRequests, ContractPage!Mutations
<1> QED
    BY <1>4, <1>5, <1>6
    DEF ContractsInv, ContractPage!TypeOK, ContractPage!LinkedContractStays

(* What the server does for a request, and what others do there.              *)
LEMMA ContractsServed ==
    ASSUME ContractsInv,
           NEW m \in sends,
           \/ ContractPage!CreateContract(m) \/ ContractPage!AdoptContract(m)
           \/ ContractPage!UpdateContract(m) \/ ContractPage!RecalculateReads(m)
           \/ ContractPage!RecalculateWrites(m) \/ ContractPage!DeleteChecks(m)
           \/ ContractPage!DeleteWrites(m) \/ ContractPage!Refuse(m)
    PROVE  ContractsInv'
<1> USE DEF ContractPage!CreateContract, ContractPage!AdoptContract,
            ContractPage!UpdateContract, ContractPage!RecalculateReads,
            ContractPage!RecalculateWrites, ContractPage!DeleteChecks,
            ContractPage!DeleteWrites, ContractPage!Refuse
<1>1. m \in ContractRequests /\ m.rate \in Rates /\ m.active \in BOOLEAN
      /\ contract \in ContractPage!Contracts /\ contract.rate \in Rates
    BY DEF ContractsInv, ContractRequests, ContractPage!TypeOK, ContractPage!Contracts
<1>2. UNCHANGED <<viewer, url, seen, draft, dialog, linked>>
    BY DEF ContractPage!Answered, ContractPage!Checked, ContractPage!serverVars,
           ContractPage!viewVars
<1>3. sends' \subseteq ContractRequests
    <2>1. CASE \E rate \in Rates : ContractPage!Checked(m, rate)
        <3>1. PICK rate \in Rates : ContractPage!Checked(m, rate)
            BY <2>1
        <3> DEFINE step == [m EXCEPT !.checked = TRUE]
                   next == [m EXCEPT !.checked = TRUE, !.rate = rate]
        <3>2. step \in ContractRequests
            BY <1>1 DEF ContractRequests
        <3>3. next = [step EXCEPT !.rate = rate]
            OBVIOUS
        <3> HIDE DEF step
        <3>4. next \in ContractRequests
            BY <3>2, <3>3 DEF ContractRequests
        <3> HIDE DEF next
        <3>5. sends' = (sends \ {m}) \cup {next}
            BY <3>1 DEF ContractPage!Checked, next
        <3> QED BY <3>4, <3>5 DEF ContractsInv
    <2>2. CASE ContractPage!Answered(m)
        BY <2>2 DEF ContractPage!Answered, ContractsInv
    <2> QED BY <1>1, <2>1, <2>2
<1>4. \A n \in sends' : n.op \in ContractPage!Mutations /\ n.rate \in Rates
    BY <1>3 DEF ContractRequests, ContractPage!Mutations
<1>5. contract' \in ContractPage!Contracts /\ (linked > 0 /\ contract.there => contract'.there)
    <2>1. CASE ContractPage!UpdateContract(m)
        <3> DEFINE step == [contract EXCEPT !.rate = m.rate]
        <3>1. step \in ContractPage!Contracts /\ step.there = contract.there
            BY <1>1 DEF ContractPage!Contracts
        <3>2. contract' = [step EXCEPT !.active = m.active]
            BY <2>1
        <3> HIDE DEF step
        <3> QED BY <1>1, <3>1, <3>2 DEF ContractPage!Contracts
    <2>2. CASE ContractPage!DeleteWrites(m)
        <3>1. contract' = [contract EXCEPT !.there = FALSE] /\ linked = 0
            BY <2>2
        <3>2. contract' \in ContractPage!Contracts
            BY <1>1, <3>1 DEF ContractPage!Contracts
        <3>3. ~(linked > 0)
            BY <3>1
        <3> QED BY <3>2, <3>3
    <2>3. CASE contract' = contract
        BY <1>1, <2>3
    <2> QED
        BY <2>1, <2>2, <2>3 DEF ContractPage!Checked, ContractPage!serverVars
<1>6. adopted' \in BOOLEAN
    BY DEF ContractsInv, ContractPage!TypeOK, ContractPage!Checked, ContractPage!serverVars
<1>7. made' \in 0..MaxMade
    BY BoundsAssumption
    DEF ContractsInv, ContractPage!TypeOK, ContractPage!Checked, ContractPage!serverVars
<1>8. valued' \in Rates
    BY <1>1 DEF ContractsInv, ContractPage!TypeOK, ContractPage!Checked, ContractPage!serverVars
<1>9. linked > 0 => contract.there
    BY DEF ContractsInv, ContractPage!LinkedContractStays
<1>10. ContractPage!TypeOK'
    BY <1>2, <1>4, <1>5, <1>6, <1>7, <1>8 DEF ContractsInv, ContractPage!TypeOK
<1> QED
    BY <1>2, <1>3, <1>5, <1>9, <1>10 DEF ContractsInv, ContractPage!LinkedContractStays

LEMMA ContractsOthers ==
    ASSUME ContractsInv,
           \/ ContractPage!OthersLink
           \/ \E r \in Rates : ContractPage!OthersUpdate(r)
    PROVE  ContractsInv'
<1>1. UNCHANGED <<viewer, adopted, made, valued, url, seen, draft, dialog, sends>>
      /\ contract.there
    BY DEF ContractPage!OthersLink, ContractPage!OthersUpdate, ContractPage!viewVars
<1>2. contract \in ContractPage!Contracts /\ linked \in 0..2
    BY DEF ContractsInv, ContractPage!TypeOK
<1>3. contract' \in ContractPage!Contracts /\ contract'.there /\ linked' \in 0..2
    <2>1. CASE ContractPage!OthersLink
        BY <1>1, <1>2, <2>1 DEF ContractPage!OthersLink
    <2>2. CASE \E r \in Rates : ContractPage!OthersUpdate(r)
        <3>1. PICK r \in Rates : contract' = [contract EXCEPT !.rate = r] /\ linked' = linked
            BY <2>2 DEF ContractPage!OthersUpdate
        <3> QED BY <1>1, <1>2, <3>1 DEF ContractPage!Contracts
    <2> QED BY <2>1, <2>2
<1> QED
    BY <1>1, <1>3 DEF ContractsInv, ContractPage!TypeOK, ContractPage!LinkedContractStays

LEMMA ContractsPreserved ==
    ASSUME ContractsInv, ContractPage!Next
    PROVE  ContractsInv'
    BY ContractsBrowsed, ContractsSubmitted, ContractsServed, ContractsOthers
    DEF ContractPage!Next

-----------------------------------------------------------------------------
(* The activities.  Coming to the page of the activity forgets what was heard *)
(* and may keep what is cached; while it is shown, every answer asks again.   *)

ActivityRequests ==
    [op : {"create", "update", "delete"}, watched : BOOLEAN, at : {"sent", "done"},
     rev : 0..MaxRev]

ActivitiesInv ==
    /\ ActivityPage!TypeOK
    /\ sends \subseteq ActivityRequests
    /\ \A m \in sends : m.at = "done" => m.rev <= activity.rev
    /\ Current(detail, heard)

(* The invariant of a state, from what a step does to each part of it.        *)
LEMMA ActivitiesFrom ==
    ASSUME ActivitiesInv,
           activity' \in ActivityPage!Activities, activity'.rev >= activity.rev,
           heard' \in 0..activity'.rev,
           detail' \in Queries(ActivityPage!Activities), Current(detail', heard'),
           stale' \in BOOLEAN, complaint' \in BOOLEAN,
           view' \in [page : {"list", "detail"}, tab : ActivityPage!Tabs],
           dialog' \in {"none", "create", "edit", "delete"},
           sends' \subseteq ActivityRequests,
           \A m \in sends' : m.at = "done" => m.rev <= activity'.rev
    PROVE  ActivitiesInv'
<1>1. detail' \in ActivityPage!Queries(ActivityPage!Activities)
    BY SameOperations
<1>2. \A m \in sends' : m.op \in {"create", "update", "delete"}
    BY DEF ActivityRequests
<1> QED BY <1>1, <1>2 DEF ActivitiesInv, ActivityPage!TypeOK

LEMMA ActivitiesTypes ==
    ASSUME ActivitiesInv
    PROVE  /\ activity \in ActivityPage!Activities /\ activity.rev \in Nat
           /\ heard \in 0..activity.rev
           /\ detail \in Queries(ActivityPage!Activities)
           /\ stale \in BOOLEAN /\ complaint \in BOOLEAN
           /\ view \in [page : {"list", "detail"}, tab : ActivityPage!Tabs]
           /\ dialog \in {"none", "create", "edit", "delete"}
<1>1. detail \in Queries(ActivityPage!Activities)
    BY SameOperations DEF ActivitiesInv, ActivityPage!TypeOK
<1> QED BY <1>1 DEF ActivitiesInv, ActivityPage!TypeOK, ActivityPage!Activities

LEMMA ActivitiesInitially ==
    ASSUME ActivityPage!Init
    PROVE  ActivitiesInv
<1>1. activity \in ActivityPage!Activities /\ activity.rev = 0 /\ 0 \in 0..MaxRev
    BY BoundsAssumption DEF ActivityPage!Init, ActivityPage!Activities
<1>2. detail = Cold(activity)
    BY SameOperations DEF ActivityPage!Init
<1>3. detail \in Queries(ActivityPage!Activities)
    BY <1>1, <1>2 DEF Cold, Queries
<1>4. detail \in ActivityPage!Queries(ActivityPage!Activities)
    BY <1>3, SameOperations
<1>5. /\ stale = FALSE /\ view = [page |-> "list", tab |-> "owned"]
      /\ dialog = "none" /\ complaint = FALSE /\ sends = {} /\ heard = 0
    BY DEF ActivityPage!Init
<1>6. Current(detail, heard)
    <2>1. detail.at = "idle" /\ detail.data = activity
        BY <1>2 DEF Cold
    <2> QED BY <1>1, <1>5, <2>1 DEF Current, Settled
<1>7. heard \in 0..activity.rev
    BY <1>1, <1>5
<1>8. view \in [page : {"list", "detail"}, tab : ActivityPage!Tabs]
    BY <1>5 DEF ActivityPage!Tabs
<1>9. stale \in BOOLEAN /\ complaint \in BOOLEAN
    BY <1>5
<1>10. ActivityPage!TypeOK
    BY <1>1, <1>4, <1>5, <1>7, <1>8, <1>9 DEF ActivityPage!TypeOK
<1> QED
    BY <1>5, <1>6, <1>10 DEF ActivitiesInv

(* Leaving a page ends what it watches, and nothing else of a request.        *)
LEMMA ActivitiesUnwatched ==
    ASSUME ActivitiesInv
    PROVE  /\ ActivityPage!Unwatched \subseteq ActivityRequests
           /\ \A m \in ActivityPage!Unwatched : m.at = "done" => m.rev <= activity.rev
<1> SUFFICES ASSUME NEW m \in sends
             PROVE  LET u == [m EXCEPT !.watched = FALSE]
                    IN  u \in ActivityRequests /\ (u.at = "done" => u.rev <= activity.rev)
    BY DEF ActivityPage!Unwatched
<1>1. m \in ActivityRequests /\ (m.at = "done" => m.rev <= activity.rev)
    BY DEF ActivitiesInv
<1> DEFINE u == [m EXCEPT !.watched = FALSE]
<1>2. u \in ActivityRequests
    BY <1>1 DEF ActivityRequests
<1>3. u.at = m.at /\ u.rev = m.rev
    BY <1>1 DEF ActivityRequests
<1> QED BY <1>1, <1>2, <1>3

LEMMA ActivitiesEntered ==
    ASSUME ActivitiesInv, ActivityPage!EnterDetail
    PROVE  /\ detail' \in Queries(ActivityPage!Activities) /\ Current(detail', heard')
           /\ heard' = 0 /\ stale' = FALSE /\ complaint' = FALSE
           /\ view' \in [page : {"list", "detail"}, tab : ActivityPage!Tabs]
<1>1. detail \in Queries(ActivityPage!Activities)
      /\ view \in [page : {"list", "detail"}, tab : ActivityPage!Tabs]
    BY ActivitiesTypes
<1>2. heard' = 0 /\ stale' = FALSE /\ complaint' = FALSE
      /\ view' = [view EXCEPT !.page = "detail"]
    BY DEF ActivityPage!EnterDetail
<1>3. detail' = detail \/ detail' = Asked(detail)
    BY SameOperations DEF ActivityPage!EnterDetail
<1>4. detail' \in Queries(ActivityPage!Activities)
    <2>1. Asked(detail) \in Queries(ActivityPage!Activities)
        BY <1>1 DEF Asked, Queries
    <2> QED BY <1>1, <1>3, <2>1
<1>5. Current(detail', 0)
    <2>1. detail'.reply.rev \in Nat /\ detail'.data.rev \in Nat
        BY <1>4 DEF Queries, ActivityPage!Activities
    <2> QED BY <2>1 DEF Current, Settled
<1> QED BY <1>1, <1>2, <1>4, <1>5

LEMMA ActivitiesBrowsed ==
    ASSUME ActivitiesInv,
           \/ \E t \in ActivityPage!Tabs : ActivityPage!HandleTabChange(t)
           \/ ActivityPage!HandleRowClick \/ ActivityPage!BackToActivities
    PROVE  ActivitiesInv'
<1>1. UNCHANGED <<activity, dialog>>
    BY DEF ActivityPage!HandleTabChange, ActivityPage!HandleRowClick,
           ActivityPage!BackToActivities
<1>2. sends' \in {sends, ActivityPage!Unwatched}
    BY DEF ActivityPage!HandleTabChange, ActivityPage!HandleRowClick,
           ActivityPage!BackToActivities
<1>3. /\ sends' \subseteq ActivityRequests
      /\ \A m \in sends' : m.at = "done" => m.rev <= activity.rev
    BY <1>2, ActivitiesUnwatched DEF ActivitiesInv
<1>4. /\ detail' \in Queries(ActivityPage!Activities) /\ Current(detail', heard')
      /\ heard' \in 0..activity.rev /\ stale' \in BOOLEAN /\ complaint' \in BOOLEAN
      /\ view' \in [page : {"list", "detail"}, tab : ActivityPage!Tabs]
    <2>1. CASE ActivityPage!HandleRowClick
        <3>1. ActivityPage!EnterDetail
            BY <2>1 DEF ActivityPage!HandleRowClick
        <3>2. /\ detail' \in Queries(ActivityPage!Activities) /\ Current(detail', heard')
              /\ heard' = 0 /\ stale' = FALSE /\ complaint' = FALSE
              /\ view' \in [page : {"list", "detail"}, tab : ActivityPage!Tabs]
            BY <3>1, ActivitiesEntered
        <3>3. 0 \in 0..activity.rev
            BY ActivitiesTypes
        <3> QED BY <3>2, <3>3
    <2>2. CASE ActivityPage!BackToActivities \/ \E t \in ActivityPage!Tabs : ActivityPage!HandleTabChange(t)
        <3>1. UNCHANGED <<detail, stale, complaint, heard>>
            BY <2>2 DEF ActivityPage!HandleTabChange, ActivityPage!BackToActivities
        <3>2. view' \in [page : {"list", "detail"}, tab : ActivityPage!Tabs]
            <4>1. \/ view' = [view EXCEPT !.page = "list"]
                  \/ \E t \in ActivityPage!Tabs : view' = [view EXCEPT !.tab = t]
                BY <2>2 DEF ActivityPage!HandleTabChange, ActivityPage!BackToActivities
            <4> QED BY <4>1, ActivitiesTypes
        <3>3. Current(detail, heard)
            BY DEF ActivitiesInv
        <3> QED BY <3>1, <3>2, <3>3, ActivitiesTypes
    <2> QED BY <2>1, <2>2
<1> QED BY <1>1, <1>3, <1>4, ActivitiesTypes, ActivitiesFrom

LEMMA ActivitiesDialogs ==
    ASSUME ActivitiesInv,
           \/ ActivityPage!OpenCreate \/ ActivityPage!OpenEdit
           \/ ActivityPage!OpenDelete \/ ActivityPage!CloseDialog
    PROVE  ActivitiesInv'
<1> USE DEF ActivityPage!OpenCreate, ActivityPage!OpenEdit, ActivityPage!OpenDelete,
            ActivityPage!CloseDialog
<1>1. /\ UNCHANGED <<activity, detail, stale, view, sends, heard>>
      /\ dialog' \in {"none", "create", "edit", "delete"}
    OBVIOUS
<1>2. complaint' \in BOOLEAN
    BY ActivitiesTypes
<1>3. /\ sends \subseteq ActivityRequests /\ Current(detail, heard)
      /\ \A m \in sends : m.at = "done" => m.rev <= activity.rev
    BY DEF ActivitiesInv
<1> QED BY <1>1, <1>2, <1>3, ActivitiesTypes, ActivitiesFrom

LEMMA ActivitiesSubmitted ==
    ASSUME ActivitiesInv,
           ActivityPage!SubmitCreate \/ ActivityPage!SubmitEdit \/ ActivityPage!ConfirmDelete
    PROVE  ActivitiesInv'
<1>1. PICK op \in {"create", "update", "delete"} : ActivityPage!Send(op)
    BY DEF ActivityPage!SubmitCreate, ActivityPage!SubmitEdit, ActivityPage!ConfirmDelete
<1> DEFINE new == [op |-> op, watched |-> TRUE, at |-> "sent", rev |-> 0]
<1>2. new \in ActivityRequests /\ new.at = "sent"
    BY BoundsAssumption DEF ActivityRequests
<1>3. /\ sends' = sends \cup {new}
      /\ UNCHANGED <<activity, detail, stale, view, dialog, complaint, heard>>
    BY <1>1 DEF ActivityPage!Send
<1> HIDE DEF new
<1>4. /\ sends' \subseteq ActivityRequests
      /\ \A m \in sends' : m.at = "done" => m.rev <= activity.rev
    BY <1>2, <1>3 DEF ActivitiesInv
<1>5. Current(detail, heard)
    BY DEF ActivitiesInv
<1> QED BY <1>3, <1>4, <1>5, ActivitiesTypes, ActivitiesFrom

LEMMA ActivitiesGrow ==
    ASSUME ActivitiesInv, activity.rev < MaxRev,
           NEW life \in {"unborn", "there", "gone"}, ActivityPage!Become(life)
    PROVE  /\ activity' \in ActivityPage!Activities /\ activity'.rev = activity.rev + 1
           /\ activity.rev + 1 \in 0..MaxRev
<1>1. activity.rev + 1 \in 0..MaxRev
    BY ActivitiesTypes, BoundsAssumption
<1> QED
    BY <1>1 DEF ActivityPage!Become, ActivityPage!Activities

LEMMA ActivitiesServe ==
    ASSUME ActivitiesInv, NEW m \in sends, ActivityPage!Serve(m)
    PROVE  ActivitiesInv'
<1> DEFINE done == [m EXCEPT !.at = "done", !.rev = activity.rev + 1]
<1>1. m \in ActivityRequests /\ activity.rev < MaxRev /\ sends' = (sends \ {m}) \cup {done}
      /\ UNCHANGED <<detail, stale, view, dialog, complaint, heard>>
    BY DEF ActivitiesInv, ActivityPage!Serve
<1>2. \E life \in {"unborn", "there", "gone"} : ActivityPage!Become(life)
    BY DEF ActivityPage!Serve
<1>3. /\ activity' \in ActivityPage!Activities /\ activity'.rev = activity.rev + 1
      /\ activity.rev + 1 \in 0..MaxRev /\ activity.rev \in Nat
    BY <1>1, <1>2, ActivitiesGrow, ActivitiesTypes
<1>4. done \in ActivityRequests /\ done.rev = activity.rev + 1
    <2> DEFINE step == [m EXCEPT !.at = "done"]
    <2>1. step \in ActivityRequests
        BY <1>1 DEF ActivityRequests
    <2>2. done = [step EXCEPT !.rev = activity.rev + 1]
        OBVIOUS
    <2> HIDE DEF step
    <2> QED BY <1>3, <2>1, <2>2 DEF ActivityRequests
<1> HIDE DEF done
<1>5. /\ sends' \subseteq ActivityRequests
      /\ \A n \in sends' : n.at = "done" => n.rev <= activity'.rev
    BY <1>1, <1>3, <1>4 DEF ActivitiesInv, ActivityRequests
<1>6. heard' \in 0..activity'.rev /\ Current(detail', heard') /\ activity'.rev >= activity.rev
    BY <1>1, <1>3, ActivitiesTypes DEF ActivitiesInv
<1> QED BY <1>1, <1>3, <1>5, <1>6, ActivitiesTypes, ActivitiesFrom

LEMMA ActivitiesOthers ==
    ASSUME ActivitiesInv, ActivityPage!OthersChange
    PROVE  ActivitiesInv'
<1>1. activity.rev < MaxRev
      /\ UNCHANGED <<detail, stale, view, dialog, complaint, sends, heard>>
    BY DEF ActivityPage!OthersChange
<1>2. \E life \in {"unborn", "there", "gone"} : ActivityPage!Become(life)
    BY DEF ActivityPage!OthersChange
<1>3. /\ activity' \in ActivityPage!Activities /\ activity'.rev = activity.rev + 1
      /\ activity.rev \in Nat
    BY <1>1, <1>2, ActivitiesGrow, ActivitiesTypes
<1>4. /\ sends' \subseteq ActivityRequests
      /\ \A n \in sends' : n.at = "done" => n.rev <= activity'.rev
    BY <1>1, <1>3 DEF ActivitiesInv, ActivityRequests
<1>5. heard' \in 0..activity'.rev /\ Current(detail', heard') /\ activity'.rev >= activity.rev
    BY <1>1, <1>3, ActivitiesTypes DEF ActivitiesInv
<1> QED BY <1>1, <1>3, <1>4, <1>5, ActivitiesTypes, ActivitiesFrom

(* Where the page is shown, an answer is heard and the activity asked for     *)
(* again; elsewhere neither changes.                                          *)
LEMMA ActivitiesInvalidated ==
    ASSUME ActivitiesInv, NEW m \in sends, m.at = "done",
           ActivityPage!Invalidate, heard' = heard \/ ActivityPage!Hear(m)
    PROVE  /\ detail' \in Queries(ActivityPage!Activities) /\ Current(detail', heard')
           /\ heard' \in 0..activity.rev /\ stale' \in BOOLEAN
<1>1. /\ detail \in Queries(ActivityPage!Activities) /\ Current(detail, heard)
      /\ heard \in 0..activity.rev /\ activity.rev \in Nat
    BY ActivitiesTypes DEF ActivitiesInv
<1>2. m.rev \in Nat /\ m.rev <= activity.rev
    BY DEF ActivitiesInv, ActivityRequests
<1>3. heard' \in 0..activity.rev
    BY <1>1, <1>2 DEF ActivityPage!Hear
<1>4. stale' \in BOOLEAN
    BY ActivitiesTypes DEF ActivityPage!Invalidate
<1>5. CASE ActivityPage!Shown
    <2>1. detail' = Refetched(detail)
        BY <1>5, SameOperations DEF ActivityPage!Invalidate
    <2>2. detail' \in Queries(ActivityPage!Activities) /\ (detail'.at = "asked" \/ detail'.late)
        BY <1>1, <2>1, QuerySteps, ActivitiesTypes
    <2> QED BY <1>3, <1>4, <2>2 DEF Current, Settled
<1>6. CASE ~ActivityPage!Shown
    BY <1>1, <1>3, <1>4, <1>6 DEF ActivityPage!Invalidate, ActivityPage!Hear
<1> QED BY <1>5, <1>6

LEMMA ActivitiesAnswered ==
    ASSUME ActivitiesInv, NEW m \in sends,
           \/ ActivityPage!CreateSucceeds(m) \/ ActivityPage!UpdateSucceeds(m)
           \/ ActivityPage!DeleteSucceeds(m)
    PROVE  ActivitiesInv'
<1> USE DEF ActivityPage!CreateSucceeds, ActivityPage!UpdateSucceeds,
            ActivityPage!DeleteSucceeds
<1>1. m.at = "done" /\ activity' = activity
    OBVIOUS
<1>2. \/ sends' \subseteq sends
      \/ sends' \subseteq ActivityPage!Unwatched
    BY DEF ActivityPage!Remaining
<1>3. /\ sends' \subseteq ActivityRequests
      /\ \A n \in sends' : n.at = "done" => n.rev <= activity.rev
    BY <1>2, ActivitiesUnwatched DEF ActivitiesInv
<1>4. \/ ActivityPage!EnterDetail
      \/ /\ ActivityPage!Invalidate /\ (heard' = heard \/ ActivityPage!Hear(m))
         /\ complaint' = complaint /\ (view' = view \/ view' = [view EXCEPT !.page = "list"])
    OBVIOUS
<1>5. /\ detail' \in Queries(ActivityPage!Activities) /\ Current(detail', heard')
      /\ heard' \in 0..activity.rev /\ stale' \in BOOLEAN /\ complaint' \in BOOLEAN
      /\ view' \in [page : {"list", "detail"}, tab : ActivityPage!Tabs]
    <2>1. CASE ActivityPage!EnterDetail
        <3>1. 0 \in 0..activity.rev
            BY ActivitiesTypes
        <3> QED BY <2>1, <3>1, ActivitiesEntered
    <2>2. CASE /\ ActivityPage!Invalidate /\ (heard' = heard \/ ActivityPage!Hear(m))
               /\ complaint' = complaint
               /\ (view' = view \/ view' = [view EXCEPT !.page = "list"])
        <3>1. view' \in [page : {"list", "detail"}, tab : ActivityPage!Tabs]
            BY <2>2, ActivitiesTypes
        <3>2. complaint' \in BOOLEAN
            BY <2>2, ActivitiesTypes
        <3> QED BY <1>1, <2>2, <3>1, <3>2, ActivitiesInvalidated
    <2> QED BY <1>4, <2>1, <2>2
<1>6. dialog' \in {"none", "create", "edit", "delete"}
    BY ActivitiesTypes
<1> QED BY <1>1, <1>3, <1>5, <1>6, ActivitiesTypes, ActivitiesFrom

LEMMA ActivitiesRefused ==
    ASSUME ActivitiesInv, NEW m \in sends, ActivityPage!Refused(m)
    PROVE  ActivitiesInv'
<1>1. /\ UNCHANGED <<activity, detail, stale, view, dialog, heard>> /\ sends' \subseteq sends
    BY DEF ActivityPage!Refused, ActivityPage!Remaining
<1>2. complaint' \in BOOLEAN
    BY ActivitiesTypes DEF ActivityPage!Refused
<1>3. /\ sends' \subseteq ActivityRequests
      /\ \A n \in sends' : n.at = "done" => n.rev <= activity.rev
      /\ Current(detail, heard)
    BY <1>1 DEF ActivitiesInv
<1> QED BY <1>1, <1>2, <1>3, ActivitiesTypes, ActivitiesFrom

LEMMA ActivitiesRead ==
    ASSUME ActivitiesInv,
           \/ ActivityPage!DetailReads \/ ActivityPage!DetailLands \/ ActivityPage!DetailFails
    PROVE  ActivitiesInv'
<1>1. /\ detail \in Queries(ActivityPage!Activities) /\ activity \in ActivityPage!Activities
      /\ Current(detail, heard) /\ activity.rev >= heard
    BY ActivitiesTypes DEF ActivitiesInv
<1>2. UNCHANGED <<activity, view, dialog, complaint, sends, heard>> /\ stale' \in BOOLEAN
    BY ActivitiesTypes
    DEF ActivityPage!DetailReads, ActivityPage!DetailLands, ActivityPage!DetailFails
<1>3. detail' \in Queries(ActivityPage!Activities) /\ Current(detail', heard)
    <2>1. CASE ActivityPage!DetailReads
        <3>1. detail' = ReadBy(detail, activity)
            BY <2>1, SameOperations DEF ActivityPage!DetailReads
        <3> QED BY <1>1, <3>1, QuerySteps, StaysCurrent
    <2>2. CASE ActivityPage!DetailLands
        <3>1. detail' = Landed(detail) /\ detail.at = "read"
            BY <2>2, SameOperations DEF ActivityPage!DetailLands
        <3> QED BY <1>1, <3>1, QuerySteps, StaysCurrent
    <2>3. CASE ActivityPage!DetailFails
        <3>1. detail' = Broken(detail)
            BY <2>3, SameOperations DEF ActivityPage!DetailFails
        <3> QED BY <1>1, <3>1, QuerySteps, StaysCurrent
    <2> QED BY <2>1, <2>2, <2>3
<1>4. sends \subseteq ActivityRequests /\ \A n \in sends : n.at = "done" => n.rev <= activity.rev
    BY DEF ActivitiesInv
<1> QED BY <1>2, <1>3, <1>4, ActivitiesTypes, ActivitiesFrom

LEMMA ActivitiesPreserved ==
    ASSUME ActivitiesInv, ActivityPage!Next
    PROVE  ActivitiesInv'
<1>1. CASE \E m \in sends : \/ ActivityPage!CreateSucceeds(m) \/ ActivityPage!UpdateSucceeds(m)
                            \/ ActivityPage!DeleteSucceeds(m)
    BY <1>1, ActivitiesAnswered
<1> QED
    BY <1>1, ActivitiesBrowsed, ActivitiesDialogs, ActivitiesSubmitted, ActivitiesServe,
       ActivitiesOthers, ActivitiesRefused, ActivitiesRead
    DEF ActivityPage!Next

-----------------------------------------------------------------------------
(* The tickets.  What is typed belongs to the ticket of the URL, because the  *)
(* drafts are emptied whenever that changes; a request takes them along, and  *)
(* the ticket it is about stays the same, except for a creation.              *)

TicketRequests ==
    [op : {"move", "dismiss", "comment", "triage", "create"}, of : Tickets \cup {None},
     to : TicketPage!TicketStates \cup {"none"}, typed : Tickets \cup {None},
     n : 1..MaxSends, at : {"sent", "done", "refused"}, rev : 0..MaxMoves]

(* What is known of a request, whatever has become of it.                     *)
TicketRequestOK(w) ==
    /\ w \in TicketRequests
    /\ w.op # "create" => w.of \in Tickets
    /\ w.op # "comment" => w.to \in TicketPage!TicketStates
    /\ w.op \in {"comment", "move"} => w.typed \in {w.of, None}
    /\ w.at # "sent" => w.rev <= tickets.rev

TicketUrls ==
    /\ trail \in Seq(Tickets \cup {None}) /\ here \in 1..Len(trail) /\ Len(trail) <= MaxTrail
    /\ asks \subseteq Tickets
TicketDrafts ==
    /\ note \in {trail[here], None} /\ remark \in {trail[here], None}
    /\ plan \in [of : Tickets \cup {None}, complete : BOOLEAN]
TicketSends ==
    /\ \A w \in sends : TicketRequestOK(w)
    /\ sent \in 0..MaxSends /\ watched \in [TicketPage!Ops -> 0..MaxSends]
TicketBoard ==
    /\ tickets \in TicketPage!Served
    /\ board \in Queries(TicketPage!Served)
    /\ heardRev \in 0..tickets.rev /\ Current(board, heardRev)
TicketOverlays ==
    /\ modal \in Tickets \cup {"none", "create"} /\ drag \in Tickets \cup {None}
    /\ detail \in [Tickets -> TicketPage!TicketStates \cup {"none"}]

TicketsInv == TicketUrls /\ TicketDrafts /\ TicketSends /\ TicketBoard /\ TicketOverlays

LEMMA TicketsTyped ==
    ASSUME TicketsInv
    PROVE  TicketPage!TypeOK
<1>1. board \in TicketPage!Queries(TicketPage!Served)
    BY SameOperations DEF TicketsInv, TicketBoard
<1>2. \A w \in sends : w.op \in TicketPage!Ops /\ w.typed \in Tickets \cup {None}
    BY DEF TicketsInv, TicketSends, TicketRequestOK, TicketRequests, TicketPage!Ops
<1>3. {drag, note, remark, plan.of} \subseteq Tickets \cup {None}
    <2>1. trail[here] \in Tickets \cup {None}
        BY DEF TicketsInv, TicketUrls
    <2> QED BY <2>1 DEF TicketsInv, TicketDrafts, TicketOverlays
<1> QED
    BY <1>1, <1>2, <1>3
    DEF TicketsInv, TicketUrls, TicketSends, TicketBoard, TicketOverlays, TicketPage!TypeOK

LEMMA TicketsInitially ==
    ASSUME TicketPage!Init
    PROVE  TicketsInv
<1> USE DEF TicketPage!Init
<1>1. tickets \in TicketPage!Served /\ tickets.rev = 0
    BY BoundsAssumption, TicketsAssumption DEF TicketPage!Served, TicketPage!TicketStates
<1>2. board = Warm(tickets)
    BY SameOperations
<1>3. TicketBoard
    <2>1. Cold(tickets) \in Queries(TicketPage!Served)
        BY <1>1 DEF Cold, Queries
    <2>2. board \in Queries(TicketPage!Served)
        BY <1>1, <1>2, <2>1 DEF Warm, Queries
    <2>3. board.at = "idle" /\ board.data = tickets
        BY <1>2 DEF Warm, Cold
    <2>4. heardRev = 0
        OBVIOUS
    <2>5. Current(board, heardRev)
        BY <1>1, <2>3, <2>4 DEF Current, Settled
    <2> QED BY <1>1, <2>2, <2>4, <2>5 DEF TicketBoard
<1>4. TicketUrls
    <2>1. trail = <<None>> /\ here = 1 /\ asks = {}
        OBVIOUS
    <2> QED BY <2>1, BoundsAssumption DEF TicketUrls
<1>5. TicketDrafts
    <2>1. note = None /\ remark = None /\ plan = [of |-> None, complete |-> FALSE]
        BY DEF TicketPage!NoPlan
    <2> QED BY <2>1 DEF TicketDrafts
<1>6. TicketSends
    <2>1. sends = {} /\ sent = 0 /\ watched = [op \in TicketPage!Ops |-> 0]
        OBVIOUS
    <2> QED BY <2>1, BoundsAssumption DEF TicketSends
<1>7. TicketOverlays
    BY DEF TicketOverlays
<1> QED BY <1>3, <1>4, <1>5, <1>6, <1>7 DEF TicketsInv

(* The URL: replaced at the entry that is shown.                              *)
LEMMA TicketsGoto ==
    ASSUME TicketUrls, NEW t \in Tickets \cup {None}, TicketPage!Goto(t)
    PROVE  TicketUrls'
<1>1. trail' = [trail EXCEPT ![here] = t] /\ here' = here /\ asks' \subseteq Tickets
    BY DEF TicketPage!Goto, TicketUrls
<1>2. trail' \in Seq(Tickets \cup {None}) /\ Len(trail') = Len(trail)
    BY <1>1, ExceptSeq DEF TicketUrls
<1> QED BY <1>1, <1>2 DEF TicketUrls

(* The effect on the ticket of the URL.                                       *)
LEMMA TicketsRerendered ==
    ASSUME TicketsInv, TicketUrls',
           NEW n \in {trail[here], None}, NEW c \in {trail[here], None},
           NEW p \in [of : Tickets \cup {None}, complete : BOOLEAN],
           TicketPage!Rerender(n, c, p)
    PROVE  TicketDrafts'
<1>1. note' \in {trail'[here'], None} /\ remark' \in {trail'[here'], None}
    BY DEF TicketPage!Rerender, TicketPage!Sheet
<1>2. plan' \in {TicketPage!NoPlan, p, [of |-> trail'[here'], complete |-> FALSE]}
    BY DEF TicketPage!Rerender, TicketPage!Sheet
<1>3. trail'[here'] \in Tickets \cup {None}
    BY DEF TicketUrls
<1>4. /\ TicketPage!NoPlan \in [of : Tickets \cup {None}, complete : BOOLEAN]
      /\ [of |-> trail'[here'], complete |-> FALSE]
            \in [of : Tickets \cup {None}, complete : BOOLEAN]
    BY <1>3 DEF TicketPage!NoPlan
<1> QED BY <1>1, <1>2, <1>4 DEF TicketDrafts

(* Moving about: none of it touches the requests or the server.               *)
LEMMA TicketsTravelled ==
    ASSUME TicketsInv,
           \/ \E t \in Tickets : TicketPage!OpenTicket(t)
           \/ TicketPage!CloseSheet \/ TicketPage!SetFilter
           \/ \E i \in 1..MaxTrail : TicketPage!Travel(i)
    PROVE  TicketsInv'
<1> USE DEF TicketPage!OpenTicket, TicketPage!CloseSheet, TicketPage!SetFilter,
            TicketPage!Travel
<1>1. /\ UNCHANGED <<tickets, detail, modal, drag, sent, sends, watched, heardRev>>
      /\ TicketPage!Rerender(note, remark, plan)
    BY DEF TicketPage!overlayVars, TicketPage!sendVars
<1>2. TicketUrls /\ TicketDrafts /\ TicketSends /\ TicketBoard /\ TicketOverlays
    BY DEF TicketsInv
<1>3. TicketUrls'
    <2>1. CASE \E t \in Tickets : TicketPage!OpenTicket(t)
        <3>1. PICK t \in Tickets : TicketPage!Goto(t)
            BY <2>1
        <3> QED BY <1>2, <3>1, TicketsGoto
    <2>2. CASE TicketPage!CloseSheet
        <3>1. TicketPage!Goto(None)
            BY <2>2
        <3> QED BY <1>2, <3>1, TicketsGoto
    <2>3. CASE TicketPage!SetFilter
        <3>1. /\ trail' = SubSeq(trail, 1, here) \o <<None>> /\ here' = here + 1
              /\ asks' = asks /\ here < MaxTrail
            BY <2>3
        <3>2. /\ SubSeq(trail, 1, here) \in Seq(Tickets \cup {None})
              /\ Len(SubSeq(trail, 1, here)) = here /\ here \in Nat
            BY <1>2, SubSeqProperties DEF TicketUrls
        <3>3. <<None>> \in Seq(Tickets \cup {None}) /\ Len(<<None>>) = 1
            OBVIOUS
        <3>4. trail' \in Seq(Tickets \cup {None}) /\ Len(trail') = here + 1
            BY <3>1, <3>2, <3>3, ConcatProperties
        <3>5. here + 1 <= MaxTrail
            BY <3>1, <3>2, BoundsAssumption
        <3> QED BY <1>2, <3>1, <3>2, <3>4, <3>5 DEF TicketUrls
    <2>4. CASE \E i \in 1..MaxTrail : TicketPage!Travel(i)
        <3>1. PICK i \in DOMAIN trail :
                  /\ here' = i /\ trail' = trail
                  /\ asks' = IF trail[i] = None THEN asks ELSE asks \cup {trail[i]}
            BY <2>4
        <3>2. i \in 1..Len(trail) /\ trail[i] \in Tickets \cup {None}
            BY <1>2, <3>1 DEF TicketUrls
        <3> QED BY <1>2, <3>1, <3>2 DEF TicketUrls
    <2> QED BY <2>1, <2>2, <2>3, <2>4
<1>4. TicketDrafts'
    BY <1>1, <1>2, <1>3, TicketsRerendered DEF TicketDrafts
<1>5. TicketSends'
    BY <1>1, <1>2 DEF TicketSends, TicketRequestOK
<1>6. TicketBoard'
    <2>1. board \in Queries(TicketPage!Served) /\ Current(board, heardRev)
        BY <1>2 DEF TicketBoard
    <2>2. board' \in {board, Asked(Cold(board.data))}
        BY SameOperations
    <2>3. board' \in Queries(TicketPage!Served)
        <3>1. Asked(Cold(board.data)) \in Queries(TicketPage!Served)
            BY <2>1 DEF Asked, Cold, Queries
        <3> QED BY <2>1, <2>2, <3>1
    <2>4. Current(board', heardRev)
        <3>1. Asked(Cold(board.data)).at = "asked"
            BY DEF Asked, Cold
        <3>2. Current(Asked(Cold(board.data)), heardRev)
            BY <3>1 DEF Current, Settled
        <3> QED BY <2>1, <2>2, <3>2
    <2> QED BY <1>1, <1>2, <2>3, <2>4 DEF TicketBoard
<1>7. TicketOverlays'
    BY <1>1, <1>2 DEF TicketOverlays
<1> QED BY <1>3, <1>4, <1>5, <1>6, <1>7 DEF TicketsInv

(* Typing, dragging and opening dialogs.                                      *)
LEMMA TicketsEdited ==
    ASSUME TicketsInv,
           \/ TicketPage!TypeNote \/ TicketPage!TypeComment \/ TicketPage!FillPlan
           \/ \E t \in Tickets : TicketPage!DragStart(t) \/ TicketPage!AskDismiss(t)
           \/ TicketPage!OpenCreate \/ TicketPage!CloseModal
    PROVE  TicketsInv'
<1> USE DEF TicketPage!TypeNote, TicketPage!TypeComment, TicketPage!FillPlan,
            TicketPage!DragStart, TicketPage!AskDismiss, TicketPage!OpenCreate,
            TicketPage!CloseModal
<1>1. UNCHANGED <<tickets, board, detail, asks, trail, here, sent, sends, watched, heardRev>>
    BY DEF TicketPage!Type, TicketPage!urlVars, TicketPage!sendVars
<1>2. TicketUrls /\ TicketDrafts /\ TicketSends /\ TicketBoard /\ TicketOverlays
    BY DEF TicketsInv
<1>3. TicketUrls'
    BY <1>1, <1>2 DEF TicketUrls
<1>4. TicketDrafts'
    <2>1. /\ note \in {trail[here], None} /\ remark \in {trail[here], None}
          /\ plan \in [of : Tickets \cup {None}, complete : BOOLEAN]
        BY <1>2 DEF TicketDrafts
    <2>2. [plan EXCEPT !.complete = TRUE] \in [of : Tickets \cup {None}, complete : BOOLEAN]
        BY <2>1
    <2>3. \E n, c \in {trail[here], None},
             p \in [of : Tickets \cup {None}, complete : BOOLEAN] : TicketPage!Rerender(n, c, p)
        <3>1. CASE TicketPage!TypeNote
            BY <2>1, <3>1 DEF TicketPage!Type, TicketPage!Sheet
        <3>2. CASE TicketPage!TypeComment
            BY <2>1, <3>2 DEF TicketPage!Type, TicketPage!Sheet
        <3>3. CASE TicketPage!FillPlan
            BY <2>1, <2>2, <3>3 DEF TicketPage!Type, TicketPage!Sheet
        <3>4. CASE TicketPage!Rerender(note, remark, plan)
            BY <2>1, <3>4
        <3> QED BY <3>1, <3>2, <3>3, <3>4
    <2> QED BY <1>3, <2>3, TicketsRerendered
<1>5. TicketSends'
    BY <1>1, <1>2 DEF TicketSends, TicketRequestOK
<1>6. TicketBoard'
    BY <1>1, <1>2 DEF TicketBoard
<1>7. TicketOverlays'
    BY <1>1, <1>2 DEF TicketOverlays, TicketPage!Type, TicketPage!overlayVars
<1> QED BY <1>3, <1>4, <1>5, <1>6, <1>7 DEF TicketsInv

(* A request carries what was typed for the ticket it is about.               *)
LEMMA TicketsSent ==
    ASSUME TicketsInv, tickets' = tickets,
           NEW op \in TicketPage!Ops, NEW t \in Tickets \cup {None},
           NEW to \in TicketPage!TicketStates \cup {"none"}, NEW typed \in Tickets \cup {None},
           op # "create" => t \in Tickets,
           op # "comment" => to \in TicketPage!TicketStates,
           op \in {"comment", "move"} => typed \in {t, None},
           TicketPage!Send(op, t, to, typed)
    PROVE  TicketSends'
<1>1. sent \in 0..MaxSends /\ sent < MaxSends
      /\ watched \in [TicketPage!Ops -> 0..MaxSends] /\ \A w \in sends : TicketRequestOK(w)
    BY DEF TicketsInv, TicketSends, TicketPage!Send
<1>2. sent + 1 \in 1..MaxSends /\ 0 \in 0..MaxMoves
    BY <1>1, BoundsAssumption
<1>3. PICK new : new = [op |-> op, of |-> t, to |-> to, typed |-> typed, n |-> sent + 1,
                        at |-> "sent", rev |-> 0]
    OBVIOUS
<1>4. new \in TicketRequests
    BY <1>2, <1>3 DEF TicketRequests, TicketPage!Ops
<1>5. new.at = "sent" /\ new.op = op /\ new.of = t /\ new.to = to /\ new.typed = typed
    BY <1>3
<1>6. sent' = sent + 1 /\ sends' = sends \cup {new} /\ watched' = [watched EXCEPT ![op] = sent + 1]
    BY <1>3 DEF TicketPage!Send
<1>7. TicketRequestOK(new)'
    BY <1>4, <1>5 DEF TicketRequestOK
<1>8. \A w \in sends : TicketRequestOK(w)'
    BY <1>1 DEF TicketRequestOK
<1>9. sent' \in 0..MaxSends /\ watched' \in [TicketPage!Ops -> 0..MaxSends]
    BY <1>1, <1>2, <1>6
<1> QED BY <1>6, <1>7, <1>8, <1>9 DEF TicketSends

LEMMA TicketsSubmitted ==
    ASSUME TicketsInv,
           \/ \E s \in TicketPage!TicketStates :
                  \/ \E t \in Tickets : TicketPage!MoveCard(t, s)
                  \/ TicketPage!Drop(s) \/ TicketPage!MoveFromSheet(s)
           \/ TicketPage!PostComment \/ TicketPage!RunTriage
           \/ TicketPage!ConfirmDismiss \/ TicketPage!RaiseTicket
    PROVE  TicketsInv'
<1> USE DEF TicketPage!MoveCard, TicketPage!Drop, TicketPage!MoveFromSheet,
            TicketPage!PostComment, TicketPage!RunTriage, TicketPage!ConfirmDismiss,
            TicketPage!RaiseTicket
<1>1. UNCHANGED <<tickets, board, detail, asks, trail, here, heardRev>>
    BY DEF TicketPage!urlVars
<1>2. TicketUrls /\ TicketDrafts /\ TicketSends /\ TicketBoard /\ TicketOverlays
    BY DEF TicketsInv
<1>3. /\ note \in {trail[here], None} /\ remark \in {trail[here], None}
      /\ plan \in [of : Tickets \cup {None}, complete : BOOLEAN]
      /\ trail[here] \in Tickets \cup {None} /\ plan.of \in Tickets \cup {None}
    BY <1>2 DEF TicketDrafts, TicketUrls
<1>4. /\ modal \in Tickets \cup {"none", "create"} /\ drag \in Tickets \cup {None}
      /\ detail \in [Tickets -> TicketPage!TicketStates \cup {"none"}]
    BY <1>2 DEF TicketOverlays
<1>5. TicketUrls'
    BY <1>1, <1>2 DEF TicketUrls
<1>6. TicketDrafts'
    <2>1. \E n, c \in {trail[here], None} : TicketPage!Rerender(n, c, plan)
        BY <1>3
    <2> QED BY <1>3, <1>5, <2>1, TicketsRerendered
<1>7. TicketSends'
    <2>1. CASE \E s \in TicketPage!TicketStates, t \in Tickets : TicketPage!MoveCard(t, s)
        <3>1. PICK s \in TicketPage!TicketStates, t \in Tickets :
                  TicketPage!Send("move", t, s, None)
            BY <2>1
        <3> QED BY <1>1, <3>1, TicketsSent DEF TicketPage!Ops
    <2>2. CASE \E s \in TicketPage!TicketStates : TicketPage!Drop(s)
        <3>1. PICK s \in TicketPage!TicketStates : TicketPage!Drop(s)
            BY <2>2
        <3>2. CASE TicketPage!Send("move", drag, s, None)
            <4>1. drag \in Tickets
                BY <1>4, <3>1
            <4> QED BY <1>1, <3>2, <4>1, TicketsSent DEF TicketPage!Ops
        <3>3. CASE UNCHANGED TicketPage!sendVars
            BY <1>1, <1>2, <3>3 DEF TicketPage!sendVars, TicketSends, TicketRequestOK
        <3> QED BY <3>1, <3>2, <3>3
    <2>3. CASE \E s \in TicketPage!TicketStates : TicketPage!MoveFromSheet(s)
        <3>1. PICK s \in TicketPage!TicketStates : TicketPage!MoveFromSheet(s)
            BY <2>3
        <3>2. TicketPage!Send("move", trail[here], s, note) /\ trail[here] \in Tickets
            BY <1>3, <3>1 DEF TicketPage!SheetFree, TicketPage!Sheet
        <3> QED BY <1>1, <1>3, <3>2, TicketsSent DEF TicketPage!Ops
    <2>4. CASE TicketPage!PostComment
        <3>1. TicketPage!Send("comment", trail[here], "none", remark) /\ trail[here] \in Tickets
            BY <1>3, <2>4 DEF TicketPage!SheetFree, TicketPage!Sheet
        <3> QED BY <1>1, <1>3, <3>1, TicketsSent DEF TicketPage!Ops
    <2>5. CASE TicketPage!RunTriage
        <3>1. TicketPage!Send("triage", trail[here], "planned", plan.of) /\ trail[here] \in Tickets
            BY <1>3, <2>5 DEF TicketPage!SheetFree, TicketPage!Sheet
        <3> QED BY <1>1, <1>3, <3>1, TicketsSent DEF TicketPage!Ops, TicketPage!TicketStates
    <2>6. CASE TicketPage!ConfirmDismiss
        <3>1. TicketPage!Send("dismiss", modal, "dismissed", None) /\ modal \in Tickets
            BY <2>6
        <3> QED BY <1>1, <3>1, TicketsSent DEF TicketPage!Ops, TicketPage!TicketStates
    <2>7. CASE TicketPage!RaiseTicket
        <3>1. TicketPage!Send("create", None, "open", None)
            BY <2>7
        <3> QED BY <1>1, <3>1, TicketsSent DEF TicketPage!Ops, TicketPage!TicketStates
    <2> QED BY <2>1, <2>2, <2>3, <2>4, <2>5, <2>6, <2>7
<1>8. TicketBoard'
    BY <1>1, <1>2 DEF TicketBoard
<1>9. TicketOverlays'
    <2>1. modal' \in {modal, "none"} /\ drag' \in {drag, None}
        BY DEF TicketPage!overlayVars
    <2> QED BY <1>1, <1>4, <2>1 DEF TicketOverlays
<1> QED BY <1>5, <1>6, <1>7, <1>8, <1>9 DEF TicketsInv

(* The server moves forward by one: what is known of a request stays so.      *)
LEMMA TicketsGrow ==
    ASSUME TicketsInv, tickets.rev < MaxMoves, NEW t, NEW s,
           t \in Tickets => s \in TicketPage!TicketStates \cup {"unborn"},
           TicketPage!Become(t, s),
           UNCHANGED <<board, heardRev>>
    PROVE  /\ TicketBoard' /\ tickets'.rev = tickets.rev + 1
           /\ tickets.rev \in Nat /\ tickets.rev + 1 \in 0..MaxMoves
           /\ \A w : TicketRequestOK(w) => TicketRequestOK(w)'
<1>1. /\ tickets \in TicketPage!Served /\ board \in Queries(TicketPage!Served)
      /\ heardRev \in 0..tickets.rev /\ Current(board, heardRev)
    BY DEF TicketsInv, TicketBoard
<1>2. tickets.rev \in Nat /\ tickets.rev + 1 \in 0..MaxMoves
    BY <1>1, BoundsAssumption DEF TicketPage!Served
<1>3. tickets' = [rows |-> [tickets.rows EXCEPT ![t] = s], rev |-> tickets.rev + 1]
    BY DEF TicketPage!Become
<1>4. tickets' \in TicketPage!Served /\ tickets'.rev = tickets.rev + 1
    <2>1. [tickets.rows EXCEPT ![t] = s] \in [Tickets -> TicketPage!TicketStates \cup {"unborn"}]
        <3>1. tickets.rows \in [Tickets -> TicketPage!TicketStates \cup {"unborn"}]
            BY <1>1 DEF TicketPage!Served
        <3> QED BY <3>1
    <2> QED BY <1>2, <1>3, <2>1 DEF TicketPage!Served
<1>5. TicketBoard'
    BY <1>1, <1>2, <1>4 DEF TicketBoard
<1>6. \A w : TicketRequestOK(w) => TicketRequestOK(w)'
    BY <1>2, <1>4 DEF TicketRequestOK, TicketRequests
<1> QED BY <1>2, <1>4, <1>5, <1>6

LEMMA TransitionsStay ==
    \A s \in TicketPage!TicketStates : TicketPage!Transitions[s] \subseteq TicketPage!TicketStates
<1> SUFFICES ASSUME NEW s \in TicketPage!TicketStates
             PROVE  TicketPage!Transitions[s] \subseteq TicketPage!TicketStates
    OBVIOUS
<1> QED BY DEF TicketPage!TicketStates, TicketPage!Transitions

(* What a handled request becomes is still a request for the same ticket.     *)
LEMMA TicketsReplaced ==
    ASSUME TicketsInv, NEW w \in sends, NEW v, TicketPage!Replace(w, v),
           \A x : TicketRequestOK(x) => TicketRequestOK(x)',
           TicketRequestOK(v)', UNCHANGED <<sent, watched>>
    PROVE  TicketSends'
<1>1. sends' = (sends \ {w}) \cup {v}
    BY DEF TicketPage!Replace
<1>2. \A x \in sends : TicketRequestOK(x)'
    BY DEF TicketsInv, TicketSends
<1>3. sent \in 0..MaxSends /\ watched \in [TicketPage!Ops -> 0..MaxSends]
    BY DEF TicketsInv, TicketSends
<1> QED BY <1>1, <1>2, <1>3 DEF TicketSends

LEMMA TicketsHandled ==
    ASSUME TicketsInv, NEW w \in sends, TicketPage!ServerHandles(w)
    PROVE  TicketsInv'
<1>1. w.at = "sent" /\ w.op # "create"
      /\ UNCHANGED <<board, detail, asks, trail, here, modal, drag, note, remark, plan, watched,
                     heardRev, sent>>
    BY DEF TicketPage!ServerHandles, TicketPage!urlVars, TicketPage!overlayVars,
           TicketPage!draftVars
<1>2. TicketUrls /\ TicketDrafts /\ TicketSends /\ TicketBoard /\ TicketOverlays
    BY DEF TicketsInv
<1>3. TicketRequestOK(w) /\ w \in TicketRequests /\ w.of \in Tickets
    BY <1>1, <1>2 DEF TicketSends, TicketRequestOK
<1>4. tickets \in TicketPage!Served /\ tickets.rev \in Nat /\ tickets.rev \in 0..MaxMoves
    BY <1>2 DEF TicketBoard, TicketPage!Served
<1>5. TicketSends' /\ TicketBoard'
    <2>1. CASE /\ tickets.rev < MaxMoves
               /\ TicketPage!Become(w.of, IF w.op = "comment" THEN tickets.rows[w.of] ELSE w.to)
               /\ TicketPage!Replace(w, [w EXCEPT !.at = "done", !.rev = tickets.rev + 1])
        <3>1. (IF w.op = "comment" THEN tickets.rows[w.of] ELSE w.to)
                  \in TicketPage!TicketStates \cup {"unborn"}
            BY <1>3, <1>4 DEF TicketRequestOK, TicketPage!Served
        <3>2. /\ TicketBoard' /\ tickets'.rev = tickets.rev + 1 /\ tickets.rev + 1 \in 0..MaxMoves
              /\ \A x : TicketRequestOK(x) => TicketRequestOK(x)'
            BY <1>1, <2>1, <3>1, TicketsGrow
        <3>3. PICK v : v = [w EXCEPT !.at = "done", !.rev = tickets.rev + 1]
            OBVIOUS
        <3>4. /\ v \in TicketRequests /\ v.op = w.op /\ v.of = w.of /\ v.to = w.to
              /\ v.typed = w.typed /\ v.rev = tickets.rev + 1
            BY <1>3, <3>2, <3>3 DEF TicketRequests
        <3>5. TicketRequestOK(v)'
            BY <1>3, <1>4, <3>2, <3>4 DEF TicketRequestOK
        <3> QED BY <1>1, <2>1, <3>2, <3>3, <3>5, TicketsReplaced
    <2>2. CASE /\ TicketPage!Replace(w, [w EXCEPT !.at = "refused", !.rev = tickets.rev])
               /\ tickets' = tickets
        <3>1. PICK v : v = [w EXCEPT !.at = "refused", !.rev = tickets.rev]
            OBVIOUS
        <3>2. /\ v \in TicketRequests /\ v.op = w.op /\ v.of = w.of /\ v.to = w.to
              /\ v.typed = w.typed /\ v.rev = tickets.rev
            BY <1>3, <1>4, <3>1 DEF TicketRequests
        <3>3. TicketRequestOK(v)'
            BY <1>3, <1>4, <2>2, <3>2 DEF TicketRequestOK
        <3>4. \A x : TicketRequestOK(x) => TicketRequestOK(x)'
            BY <2>2 DEF TicketRequestOK
        <3>5. TicketBoard'
            BY <1>1, <1>2, <2>2 DEF TicketBoard
        <3> QED BY <1>1, <2>2, <3>1, <3>3, <3>4, <3>5, TicketsReplaced
    <2> QED BY <2>1, <2>2 DEF TicketPage!ServerHandles
<1>6. TicketUrls' /\ TicketDrafts' /\ TicketOverlays'
    BY <1>1, <1>2 DEF TicketUrls, TicketDrafts, TicketOverlays
<1> QED BY <1>5, <1>6 DEF TicketsInv

LEMMA TicketsCreated ==
    ASSUME TicketsInv, NEW w \in sends, NEW t \in Tickets, TicketPage!ServerCreates(w, t)
    PROVE  TicketsInv'
<1>1. w.at = "sent" /\ w.op = "create" /\ tickets.rev < MaxMoves
      /\ TicketPage!Become(t, "open")
      /\ TicketPage!Replace(w, [w EXCEPT !.at = "done", !.of = t, !.rev = tickets.rev + 1])
      /\ UNCHANGED <<board, detail, asks, trail, here, modal, drag, note, remark, plan, watched,
                     heardRev, sent>>
    BY DEF TicketPage!ServerCreates, TicketPage!urlVars, TicketPage!overlayVars,
           TicketPage!draftVars
<1>2. TicketUrls /\ TicketDrafts /\ TicketSends /\ TicketBoard /\ TicketOverlays
    BY DEF TicketsInv
<1>3. TicketRequestOK(w) /\ w \in TicketRequests
    BY <1>2 DEF TicketSends, TicketRequestOK
<1>4. /\ TicketBoard' /\ tickets'.rev = tickets.rev + 1 /\ tickets.rev + 1 \in 0..MaxMoves
      /\ tickets.rev \in Nat
      /\ \A x : TicketRequestOK(x) => TicketRequestOK(x)'
    BY <1>1, TicketsGrow DEF TicketPage!TicketStates
<1>5. PICK v : v = [w EXCEPT !.at = "done", !.of = t, !.rev = tickets.rev + 1]
    OBVIOUS
<1>6. /\ v \in TicketRequests /\ v.op = w.op /\ v.of = t /\ v.to = w.to
      /\ v.typed = w.typed /\ v.rev = tickets.rev + 1
    <2> DEFINE step == [w EXCEPT !.at = "done", !.of = t]
    <2>1. /\ step \in TicketRequests /\ step.op = w.op /\ step.of = t /\ step.to = w.to
          /\ step.typed = w.typed
        BY <1>3 DEF TicketRequests
    <2>2. v = [step EXCEPT !.rev = tickets.rev + 1]
        BY <1>5
    <2> HIDE DEF step
    <2> QED BY <1>4, <2>1, <2>2 DEF TicketRequests
<1>7. TicketRequestOK(v)'
    BY <1>1, <1>3, <1>4, <1>6 DEF TicketRequestOK
<1>8. TicketSends'
    BY <1>1, <1>4, <1>5, <1>7, TicketsReplaced
<1>9. TicketUrls' /\ TicketDrafts' /\ TicketOverlays'
    BY <1>1, <1>2 DEF TicketUrls, TicketDrafts, TicketOverlays
<1> QED BY <1>4, <1>8, <1>9 DEF TicketsInv

LEMMA TicketsOthers ==
    ASSUME TicketsInv, NEW t \in Tickets, TicketPage!OthersMove(t)
    PROVE  TicketsInv'
<1>1. tickets.rev < MaxMoves /\ tickets.rows[t] # "unborn"
      /\ UNCHANGED <<board, detail, asks, trail, here, modal, drag, note, remark, plan, watched,
                     heardRev, sent, sends>>
    BY DEF TicketPage!OthersMove, TicketPage!urlVars, TicketPage!overlayVars,
           TicketPage!draftVars, TicketPage!sendVars
<1>2. TicketUrls /\ TicketDrafts /\ TicketSends /\ TicketBoard /\ TicketOverlays
    BY DEF TicketsInv
<1>3. tickets.rows[t] \in TicketPage!TicketStates
    BY <1>1, <1>2 DEF TicketBoard, TicketPage!Served
<1>4. PICK s \in TicketPage!TicketStates : TicketPage!Become(t, s)
    BY <1>3, TransitionsStay DEF TicketPage!OthersMove
<1>5. TicketBoard' /\ \A x : TicketRequestOK(x) => TicketRequestOK(x)'
    BY <1>1, <1>4, TicketsGrow
<1>6. TicketSends'
    BY <1>1, <1>2, <1>5 DEF TicketSends
<1>7. TicketUrls' /\ TicketDrafts' /\ TicketOverlays'
    BY <1>1, <1>2 DEF TicketUrls, TicketDrafts, TicketOverlays
<1> QED BY <1>5, <1>6, <1>7 DEF TicketsInv

(* An answer to a transition asks for the board again, granted or refused.    *)
LEMMA TicketsAnswered ==
    ASSUME TicketsInv, NEW w \in sends,
           TicketPage!AnswerArrives(w) \/ TicketPage!RefusalArrives(w)
    PROVE  TicketsInv'
<1>1. w.at # "sent"
      /\ UNCHANGED <<tickets, detail, trail, here, modal, drag, note, remark, plan, watched, sent>>
    BY DEF TicketPage!AnswerArrives, TicketPage!RefusalArrives, TicketPage!urlVars,
           TicketPage!overlayVars, TicketPage!draftVars
<1>2. TicketUrls /\ TicketDrafts /\ TicketSends /\ TicketBoard /\ TicketOverlays
    BY DEF TicketsInv
<1>3. w.rev \in Nat /\ w.rev <= tickets.rev
    BY <1>1, <1>2 DEF TicketSends, TicketRequestOK, TicketRequests
<1>4. /\ tickets \in TicketPage!Served /\ tickets.rev \in Nat
      /\ board \in Queries(TicketPage!Served)
      /\ heardRev \in 0..tickets.rev /\ Current(board, heardRev)
    BY <1>2 DEF TicketBoard, TicketPage!Served
<1>5. \/ /\ TicketPage!InvalidateTickets
         /\ heardRev' \in {heardRev, w.rev}
      \/ UNCHANGED <<board, asks, heardRev>>
    BY DEF TicketPage!AnswerArrives, TicketPage!RefusalArrives
<1>6. asks' \subseteq Tickets
    <2>1. trail[here] \in Tickets \cup {None} /\ asks \subseteq Tickets
        BY <1>2 DEF TicketUrls
    <2> QED BY <1>5, <2>1 DEF TicketPage!InvalidateTickets, TicketPage!Sheet
<1>7. TicketUrls'
    BY <1>1, <1>2, <1>6 DEF TicketUrls
<1>8. TicketBoard'
    <2>1. CASE TicketPage!InvalidateTickets /\ heardRev' \in {heardRev, w.rev}
        <3>1. board' = Refetched(board)
            BY <2>1, SameOperations DEF TicketPage!InvalidateTickets
        <3>2. board' \in Queries(TicketPage!Served) /\ (board'.at = "asked" \/ board'.late)
            BY <1>4, <3>1, QuerySteps
        <3>3. heardRev' \in 0..tickets.rev
            BY <1>3, <1>4, <2>1
        <3> QED BY <1>1, <1>4, <3>2, <3>3 DEF TicketBoard, Current, Settled
    <2>2. CASE UNCHANGED <<board, asks, heardRev>>
        BY <1>1, <1>2, <2>2 DEF TicketBoard
    <2> QED BY <1>5, <2>1, <2>2
<1>9. TicketSends'
    <2>1. sends' = sends \ {w}
        BY DEF TicketPage!AnswerArrives, TicketPage!RefusalArrives
    <2> QED BY <1>1, <1>2, <2>1 DEF TicketSends, TicketRequestOK
<1>10. TicketDrafts' /\ TicketOverlays'
    BY <1>1, <1>2 DEF TicketDrafts, TicketOverlays
<1> QED BY <1>7, <1>8, <1>9, <1>10 DEF TicketsInv

(* A ticket just created is opened wherever the page is: the drafts go.       *)
LEMMA TicketsOpened ==
    ASSUME TicketsInv, NEW w \in sends, TicketPage!CreatedArrives(w)
    PROVE  TicketsInv'
<1>1. /\ UNCHANGED <<tickets, detail, modal, drag, watched, heardRev, sent>>
      /\ TicketPage!Rerender(note, remark, plan) /\ sends' = sends \ {w}
    BY DEF TicketPage!CreatedArrives, TicketPage!overlayVars
<1>2. TicketUrls /\ TicketDrafts /\ TicketSends /\ TicketBoard /\ TicketOverlays
    BY DEF TicketsInv
<1>3. TicketUrls'
    <2>1. w.of \in Tickets \cup {None}
        BY <1>2 DEF TicketSends, TicketRequestOK, TicketRequests
    <2>2. CASE TicketPage!Goto(w.of)
        BY <1>2, <2>1, <2>2, TicketsGoto
    <2>3. CASE UNCHANGED <<trail, here, asks>>
        BY <1>2, <2>3 DEF TicketUrls
    <2> QED BY <2>2, <2>3 DEF TicketPage!CreatedArrives, TicketPage!urlVars
<1>4. TicketDrafts'
    BY <1>2, <1>1, <1>3, TicketsRerendered DEF TicketDrafts
<1>5. TicketBoard'
    <2>1. board' = Refetched(board)
        BY SameOperations DEF TicketPage!CreatedArrives
    <2>2. board \in Queries(TicketPage!Served) /\ tickets \in TicketPage!Served
        BY <1>2 DEF TicketBoard
    <2>3. board' \in Queries(TicketPage!Served) /\ (board'.at = "asked" \/ board'.late)
        BY <2>1, <2>2, QuerySteps
    <2> QED BY <1>1, <1>2, <2>3 DEF TicketBoard, Current, Settled
<1>6. TicketSends' /\ TicketOverlays'
    BY <1>1, <1>2 DEF TicketSends, TicketRequestOK, TicketOverlays
<1> QED BY <1>3, <1>4, <1>5, <1>6 DEF TicketsInv

LEMMA TicketsListed ==
    ASSUME TicketsInv,
           TicketPage!ListReads \/ TicketPage!ListLands \/ TicketPage!ListFails
    PROVE  TicketsInv'
<1>1. UNCHANGED <<tickets, detail, asks, trail, here, modal, drag, note, remark, plan, watched,
                  heardRev, sent, sends>>
    BY DEF TicketPage!ListReads, TicketPage!ListLands, TicketPage!ListFails,
           TicketPage!urlVars, TicketPage!overlayVars, TicketPage!draftVars, TicketPage!sendVars
<1>2. TicketUrls /\ TicketDrafts /\ TicketSends /\ TicketBoard /\ TicketOverlays
    BY DEF TicketsInv
<1>3. /\ tickets \in TicketPage!Served /\ board \in Queries(TicketPage!Served)
      /\ Current(board, heardRev) /\ tickets.rev >= heardRev
    BY <1>2 DEF TicketBoard, TicketPage!Served
<1>4. board' \in Queries(TicketPage!Served) /\ Current(board', heardRev)
    <2>1. CASE TicketPage!ListReads
        <3>1. board' = ReadBy(board, tickets)
            BY <2>1, SameOperations DEF TicketPage!ListReads
        <3> QED BY <1>3, <3>1, QuerySteps, StaysCurrent
    <2>2. CASE TicketPage!ListLands
        <3>1. board' = Landed(board) /\ board.at = "read"
            BY <2>2, SameOperations DEF TicketPage!ListLands
        <3> QED BY <1>3, <3>1, QuerySteps, StaysCurrent
    <2>3. CASE TicketPage!ListFails
        <3>1. board' = Broken(board)
            BY <2>3, SameOperations DEF TicketPage!ListFails
        <3> QED BY <1>3, <3>1, QuerySteps, StaysCurrent
    <2> QED BY <2>1, <2>2, <2>3
<1>5. TicketBoard'
    BY <1>1, <1>2, <1>4 DEF TicketBoard
<1>6. TicketUrls' /\ TicketDrafts' /\ TicketSends' /\ TicketOverlays'
    BY <1>1, <1>2 DEF TicketUrls, TicketDrafts, TicketSends, TicketRequestOK, TicketOverlays
<1> QED BY <1>5, <1>6 DEF TicketsInv

LEMMA TicketsDetailed ==
    ASSUME TicketsInv, NEW t \in Tickets, TicketPage!DetailArrives(t)
    PROVE  TicketsInv'
<1>1. /\ UNCHANGED <<tickets, board, trail, here, modal, drag, watched, heardRev, sent, sends>>
      /\ asks' = asks \ {t} /\ detail' = [detail EXCEPT ![t] = tickets.rows[t]]
      /\ tickets.rows[t] # "unborn" /\ TicketPage!Rerender(note, remark, plan)
    BY DEF TicketPage!DetailArrives, TicketPage!urlVars, TicketPage!overlayVars,
           TicketPage!sendVars
<1>2. TicketUrls /\ TicketDrafts /\ TicketSends /\ TicketBoard /\ TicketOverlays
    BY DEF TicketsInv
<1>3. TicketUrls'
    BY <1>1, <1>2 DEF TicketUrls
<1>4. TicketDrafts'
    BY <1>1, <1>2, <1>3, TicketsRerendered DEF TicketDrafts
<1>5. TicketOverlays'
    <2>1. tickets.rows[t] \in TicketPage!TicketStates
        BY <1>1, <1>2 DEF TicketBoard, TicketPage!Served
    <2> QED BY <1>1, <1>2, <2>1 DEF TicketOverlays
<1>6. TicketSends' /\ TicketBoard'
    BY <1>1, <1>2 DEF TicketSends, TicketRequestOK, TicketBoard
<1> QED BY <1>3, <1>4, <1>5, <1>6 DEF TicketsInv

LEMMA TicketsPreserved ==
    ASSUME TicketsInv, TicketPage!Next
    PROVE  TicketsInv'
<1>1. CASE \E w \in sends : \/ TicketPage!ServerHandles(w) \/ TicketPage!AnswerArrives(w)
                            \/ TicketPage!RefusalArrives(w) \/ TicketPage!CreatedArrives(w)
                            \/ \E t \in Tickets : TicketPage!ServerCreates(w, t)
    BY <1>1, TicketsHandled, TicketsAnswered, TicketsOpened, TicketsCreated
<1>2. CASE \E t \in Tickets : TicketPage!OthersMove(t) \/ TicketPage!DetailArrives(t)
    BY <1>2, TicketsOthers, TicketsDetailed
<1> QED
    BY <1>1, <1>2, TicketsTravelled, TicketsEdited, TicketsSubmitted, TicketsListed
    DEF TicketPage!Next

-----------------------------------------------------------------------------
(* The board: a drag changes no more than the place of what is dragged, and   *)
(* the place it is left in tells whether the board is the first one again.    *)

(* Positions in a sequence without repetitions.                               *)
Distinct(s) == \A i, j \in 1..Len(s) : s[i] = s[j] => i = j
In(s) == {s[i] : i \in 1..Len(s)}

LEMMA Spread ==
    ASSUME NEW S, NEW s \in Seq(S)
    PROVE  /\ BoardDemo!IsInjective(s) <=> Distinct(s)
           /\ BoardDemo!ToSet(s) = In(s)
<1>1. DOMAIN s = 1..Len(s)
    OBVIOUS
<1> QED BY <1>1 DEF Distinct, In, BoardDemo!IsInjective, BoardDemo!ToSet

LEMMA AtIs ==
    ASSUME NEW S, NEW s \in Seq(S), Distinct(s), NEW i \in 1..Len(s)
    PROVE  BoardDemo!At(s, s[i]) = i
    BY DEF BoardDemo!At, Distinct

LEMMA AtWhere ==
    ASSUME NEW S, NEW s \in Seq(S), NEW x \in In(s)
    PROVE  BoardDemo!At(s, x) \in 1..Len(s) /\ s[BoardDemo!At(s, x)] = x
    BY DEF BoardDemo!At, In

LEMMA Concatenated ==
    ASSUME NEW S, NEW p \in Seq(S), NEW q \in Seq(S), NEW w, w = p \o q
    PROVE  /\ w \in Seq(S) /\ Len(w) = Len(p) + Len(q)
           /\ \A k \in 1..(Len(p) + Len(q)) :
                  w[k] = IF k <= Len(p) THEN p[k] ELSE q[k - Len(p)]
    BY ConcatProperties

LEMMA WithoutIs ==
    ASSUME NEW S, NEW s \in Seq(S), Distinct(s), NEW x \in In(s),
           NEW i, i = BoardDemo!At(s, x), NEW w, w = BoardDemo!Without(s, x)
    PROVE  /\ i \in 1..Len(s) /\ w \in Seq(S) /\ Len(w) = Len(s) - 1
           /\ \A k \in 1..Len(w) : w[k] = IF k < i THEN s[k] ELSE s[k + 1]
           /\ Distinct(w) /\ In(w) = In(s) \ {x}
<1>1. i \in 1..Len(s) /\ s[i] = x
    BY AtWhere
<1>2. w = SubSeq(s, 1, i - 1) \o SubSeq(s, i + 1, Len(s))
    BY DEF BoardDemo!Without, BoardDemo!RemoveAt
<1>3. /\ SubSeq(s, 1, i - 1) \in Seq(S) /\ Len(SubSeq(s, 1, i - 1)) = i - 1
      /\ \A k \in 1..(i - 1) : SubSeq(s, 1, i - 1)[k] = s[k]
    BY <1>1, SubSeqProperties
<1>4. /\ SubSeq(s, i + 1, Len(s)) \in Seq(S) /\ Len(SubSeq(s, i + 1, Len(s))) = Len(s) - i
      /\ \A k \in 1..(Len(s) - i) : SubSeq(s, i + 1, Len(s))[k] = s[i + k]
    BY <1>1, SubSeqProperties
<1>5. PICK p : p = SubSeq(s, 1, i - 1)
    OBVIOUS
<1>6. PICK q : q = SubSeq(s, i + 1, Len(s))
    OBVIOUS
<1>7. /\ w \in Seq(S) /\ Len(w) = Len(s) - 1
      /\ \A k \in 1..Len(w) : w[k] = IF k < i THEN s[k] ELSE s[k + 1]
    <2>1. /\ p \in Seq(S) /\ Len(p) = i - 1 /\ \A k \in 1..(i - 1) : p[k] = s[k]
          /\ q \in Seq(S) /\ Len(q) = Len(s) - i /\ \A k \in 1..(Len(s) - i) : q[k] = s[i + k]
        BY <1>3, <1>4, <1>5, <1>6
    <2>2. w = p \o q
        BY <1>2, <1>5, <1>6
    <2>3. /\ w \in Seq(S) /\ Len(w) = (i - 1) + (Len(s) - i)
          /\ \A k \in 1..((i - 1) + (Len(s) - i)) :
                 w[k] = IF k <= i - 1 THEN p[k] ELSE q[k - (i - 1)]
        <3>0. p \in Seq(S) /\ q \in Seq(S)
            BY <2>1
        <3>1. /\ w \in Seq(S) /\ Len(w) = Len(p) + Len(q)
              /\ \A k \in 1..(Len(p) + Len(q)) :
                     w[k] = IF k <= Len(p) THEN p[k] ELSE q[k - Len(p)]
            BY <2>2, <3>0, Concatenated
        <3> QED BY <2>1, <3>1
    <2>4. Len(w) = Len(s) - 1 /\ Len(s) \in Nat
        BY <1>1, <2>3
    <2>5. ASSUME NEW k \in 1..Len(w) PROVE w[k] = IF k < i THEN s[k] ELSE s[k + 1]
        <3>1. CASE k < i
            BY <1>1, <2>1, <2>3, <2>4, <3>1
        <3>2. CASE k >= i
            <4>1. w[k] = q[k - (i - 1)]
                BY <1>1, <2>3, <2>4, <3>2
            <4>2. k - (i - 1) \in 1..(Len(s) - i) /\ i + (k - (i - 1)) = k + 1
                BY <1>1, <2>4, <3>2
            <4>3. q[k - (i - 1)] = s[k + 1]
                BY <2>1, <4>2
            <4> QED BY <1>1, <3>2, <4>1, <4>3
        <3> QED BY <1>1, <2>4, <3>1, <3>2
    <2> QED BY <2>3, <2>4, <2>5
<1>9. Distinct(w)
    <2> SUFFICES ASSUME NEW k \in 1..Len(w), NEW l \in 1..Len(w), w[k] = w[l]
                 PROVE  k = l
        BY DEF Distinct
    <2> DEFINE at(n) == IF n < i THEN n ELSE n + 1
    <2>1. /\ at(k) \in 1..Len(s) /\ w[k] = s[at(k)]
          /\ at(l) \in 1..Len(s) /\ w[l] = s[at(l)]
        BY <1>1, <1>7
    <2>2. at(k) = at(l)
        BY <2>1 DEF Distinct
    <2> QED BY <1>1, <1>7, <2>2
<1>8. In(w) = In(s) \ {x}
    <2>1. ASSUME NEW k \in 1..Len(w) PROVE w[k] \in In(s) \ {x}
        <3>1. PICK l \in 1..Len(s) : w[k] = s[l] /\ l # i
            BY <1>1, <1>7
        <3>2. s[l] # x
            BY <1>1, <3>1 DEF Distinct
        <3> QED BY <3>1, <3>2 DEF In
    <2>2. ASSUME NEW j \in 1..Len(s), s[j] # x PROVE s[j] \in In(w)
        <3>1. CASE j < i
            <4>1. j \in 1..Len(w) /\ w[j] = s[j]
                BY <1>1, <1>7, <3>1
            <4> QED BY <4>1 DEF In
        <3>2. CASE j > i
            <4>1. j - 1 \in 1..Len(w) /\ ~(j - 1 < i) /\ (j - 1) + 1 = j
                BY <1>1, <1>7, <3>2
            <4>2. w[j - 1] = s[j]
                BY <1>7, <4>1
            <4> QED BY <4>1, <4>2 DEF In
        <3> QED BY <1>1, <2>2, <3>1, <3>2
    <2> QED BY <2>1, <2>2 DEF In
<1> QED BY <1>1, <1>7, <1>8, <1>9

LEMMA InsertIs ==
    ASSUME NEW S, NEW s \in Seq(S), Distinct(s), NEW x \in S, x \notin In(s),
           NEW j \in 1..(Len(s) + 1), NEW r, r = BoardDemo!InsertAt(s, j, x)
    PROVE  /\ r \in Seq(S) /\ Len(r) = Len(s) + 1
           /\ \A k \in 1..Len(r) : r[k] = IF k < j THEN s[k] ELSE IF k = j THEN x ELSE s[k - 1]
           /\ Distinct(r) /\ In(r) = In(s) \cup {x}
           /\ BoardDemo!At(r, x) = j /\ BoardDemo!Without(r, x) = s
<1>1. r = SubSeq(s, 1, j - 1) \o <<x>> \o SubSeq(s, j, Len(s))
    BY DEF BoardDemo!InsertAt
<1>2. /\ SubSeq(s, 1, j - 1) \in Seq(S) /\ Len(SubSeq(s, 1, j - 1)) = j - 1
      /\ \A k \in 1..(j - 1) : SubSeq(s, 1, j - 1)[k] = s[k]
    BY SubSeqProperties
<1>3. /\ SubSeq(s, j, Len(s)) \in Seq(S) /\ Len(SubSeq(s, j, Len(s))) = Len(s) - j + 1
      /\ \A k \in 1..(Len(s) - j + 1) : SubSeq(s, j, Len(s))[k] = s[j + k - 1]
    BY SubSeqProperties
<1>4. PICK p : p = SubSeq(s, 1, j - 1)
    OBVIOUS
<1>5. PICK q : q = SubSeq(s, j, Len(s))
    OBVIOUS
<1>6. /\ r \in Seq(S) /\ Len(r) = Len(s) + 1
      /\ \A k \in 1..Len(r) : r[k] = IF k < j THEN s[k] ELSE IF k = j THEN x ELSE s[k - 1]
    <2>1. /\ p \in Seq(S) /\ Len(p) = j - 1 /\ \A k \in 1..(j - 1) : p[k] = s[k]
          /\ q \in Seq(S) /\ Len(q) = Len(s) - j + 1
          /\ \A k \in 1..(Len(s) - j + 1) : q[k] = s[j + k - 1]
        BY <1>2, <1>3, <1>4, <1>5
    <2>2. PICK m : m = p \o <<x>>
        OBVIOUS
    <2>3. <<x>> \in Seq(S) /\ Len(<<x>>) = 1 /\ <<x>>[1] = x
        OBVIOUS
    <2>4. /\ m \in Seq(S) /\ Len(m) = j
          /\ \A k \in 1..j : m[k] = IF k < j THEN p[k] ELSE x
        <3>1. /\ m \in Seq(S) /\ Len(m) = (j - 1) + 1
              /\ \A k \in 1..((j - 1) + 1) :
                     m[k] = IF k <= j - 1 THEN p[k] ELSE <<x>>[k - (j - 1)]
            BY <2>1, <2>2, <2>3, ConcatProperties
        <3>2. ASSUME NEW k \in 1..j, ~(k < j) PROVE m[k] = x
            <4>1. k = j /\ k - (j - 1) = 1
                BY <3>2
            <4> QED BY <2>3, <3>1, <4>1
        <3> QED BY <3>1, <3>2
    <2>5. r = m \o q
        BY <1>1, <1>4, <1>5, <2>2
    <2>6. /\ r \in Seq(S) /\ Len(r) = j + (Len(s) - j + 1)
          /\ \A k \in 1..(j + (Len(s) - j + 1)) : r[k] = IF k <= j THEN m[k] ELSE q[k - j]
        <3>0. m \in Seq(S) /\ q \in Seq(S)
            BY <2>1, <2>4
        <3>1. /\ r \in Seq(S) /\ Len(r) = Len(m) + Len(q)
              /\ \A k \in 1..(Len(m) + Len(q)) :
                     r[k] = IF k <= Len(m) THEN m[k] ELSE q[k - Len(m)]
            BY <2>5, <3>0, Concatenated
        <3> QED BY <2>1, <2>4, <3>1
    <2>7. Len(r) = Len(s) + 1 /\ Len(s) \in Nat
        BY <2>6
    <2>8. ASSUME NEW k \in 1..Len(r)
          PROVE  r[k] = IF k < j THEN s[k] ELSE IF k = j THEN x ELSE s[k - 1]
        <3>1. CASE k <= j
            BY <2>1, <2>4, <2>6, <2>7, <3>1
        <3>2. CASE k > j
            <4>1. r[k] = q[k - j]
                BY <2>6, <2>7, <3>2
            <4>2. k - j \in 1..(Len(s) - j + 1) /\ j + (k - j) - 1 = k - 1
                BY <2>7, <3>2
            <4>3. q[k - j] = s[k - 1]
                BY <2>1, <4>2
            <4> QED BY <3>2, <4>1, <4>3
        <3> QED BY <2>7, <3>1, <3>2
    <2> QED BY <2>6, <2>7, <2>8
<1>10. Distinct(r)
    <2>1. \A k \in 1..Len(s) : s[k] # x
        BY DEF In
    <2> SUFFICES ASSUME NEW k \in 1..Len(r), NEW l \in 1..Len(r), r[k] = r[l]
                 PROVE  k = l
        BY DEF Distinct
    <2>2. Len(r) = Len(s) + 1 /\ Len(s) \in Nat
        BY <1>6
    <2> DEFINE at(n) == IF n < j THEN n ELSE n - 1
    <2>3. /\ k # j => at(k) \in 1..Len(s) /\ r[k] = s[at(k)]
          /\ l # j => at(l) \in 1..Len(s) /\ r[l] = s[at(l)]
        BY <1>6, <2>2
    <2>4. (k = j => r[k] = x) /\ (l = j => r[l] = x)
        BY <1>6, <2>2
    <2>5. CASE k = j \/ l = j
        BY <2>1, <2>3, <2>4, <2>5
    <2>6. CASE k # j /\ l # j
        <3>1. at(k) = at(l)
            BY <2>3, <2>6 DEF Distinct
        <3> QED BY <2>2, <2>6, <3>1
    <2> QED BY <2>5, <2>6
<1>7. In(r) = In(s) \cup {x}
    <2>1. ASSUME NEW k \in 1..Len(r) PROVE r[k] \in In(s) \cup {x}
        BY <1>6 DEF In
    <2>2. ASSUME NEW k \in 1..Len(s) PROVE s[k] \in In(r)
        <3>1. CASE k < j
            BY <1>6, <3>1 DEF In
        <3>2. CASE k >= j
            <4>1. k + 1 \in 1..Len(r) /\ r[k + 1] = s[k]
                BY <1>6, <3>2
            <4> QED BY <4>1 DEF In
        <3> QED BY <3>1, <3>2
    <2>3. x \in In(r)
        <3>1. j \in 1..Len(r) /\ r[j] = x
            BY <1>6
        <3> QED BY <3>1 DEF In
    <2> QED BY <2>1, <2>2, <2>3 DEF In
<1>8. BoardDemo!At(r, x) = j
    <2>1. j \in 1..Len(r) /\ r[j] = x
        BY <1>6
    <2> QED BY <1>6, <1>10, <2>1, AtIs
<1>9. BoardDemo!Without(r, x) = s
    <2>1. x \in In(r)
        BY <1>7
    <2>2. PICK w : w = BoardDemo!Without(r, x)
        OBVIOUS
    <2>3. /\ w \in Seq(S) /\ Len(w) = Len(s)
          /\ \A k \in 1..Len(w) : w[k] = IF k < j THEN r[k] ELSE r[k + 1]
        BY <1>6, <1>10, <1>8, <2>1, <2>2, WithoutIs
    <2>4. ASSUME NEW k \in 1..Len(s) PROVE w[k] = s[k]
        <3>1. Len(s) \in Nat /\ Len(r) = Len(s) + 1
            BY <1>6
        <3>2. CASE k < j
            BY <1>6, <2>3, <3>1, <3>2
        <3>3. CASE k >= j
            <4>1. w[k] = r[k + 1] /\ k + 1 \in 1..Len(r) /\ k + 1 > j /\ (k + 1) - 1 = k
                BY <2>3, <3>1, <3>3
            <4> QED BY <1>6, <4>1
        <3> QED BY <3>1, <3>2, <3>3
    <2>5. w = s
        BY <2>3, <2>4, SeqEqual
    <2> QED BY <2>2, <2>5
<1> QED BY <1>6, <1>7, <1>8, <1>9, <1>10

(* What is left without an element and where it was determine the sequence.   *)
LEMMA PutBack ==
    ASSUME NEW S, NEW s \in Seq(S), NEW t \in Seq(S), Distinct(s), Distinct(t),
           NEW x, x \in In(s), x \in In(t),
           BoardDemo!Without(s, x) = BoardDemo!Without(t, x),
           BoardDemo!At(s, x) = BoardDemo!At(t, x)
    PROVE  s = t
<1>1. PICK i : i = BoardDemo!At(s, x)
    OBVIOUS
<1>2. PICK w : w = BoardDemo!Without(s, x)
    OBVIOUS
<1>3. /\ i \in 1..Len(s) /\ Len(w) = Len(s) - 1 /\ s[i] = x
      /\ \A k \in 1..Len(w) : w[k] = IF k < i THEN s[k] ELSE s[k + 1]
    BY <1>1, <1>2, WithoutIs, AtWhere
<1>4. /\ i \in 1..Len(t) /\ Len(w) = Len(t) - 1 /\ t[i] = x
      /\ \A k \in 1..Len(w) : w[k] = IF k < i THEN t[k] ELSE t[k + 1]
    BY <1>1, <1>2, WithoutIs, AtWhere
<1>5. Len(s) = Len(t)
    BY <1>3, <1>4
<1>6. ASSUME NEW k \in 1..Len(s) PROVE s[k] = t[k]
    <2>1. CASE k < i
        BY <1>3, <1>4, <1>5, <2>1
    <2>2. CASE k > i
        <3>1. k - 1 \in 1..Len(w) /\ ~(k - 1 < i) /\ (k - 1) + 1 = k
            BY <1>3, <2>2
        <3> QED BY <1>3, <1>4, <3>1
    <2> QED BY <1>3, <1>4, <2>1, <2>2
<1> QED BY <1>5, <1>6, SeqEqual

(* A move within a sequence leaves the others in their order.                 *)
LEMMA MovedWithin ==
    ASSUME NEW S, NEW s \in Seq(S), Distinct(s), NEW x \in S, x \in In(s), NEW over,
           NEW r, r = BoardDemo!ArrayMove(s, x, over)
    PROVE  /\ r \in Seq(S) /\ Distinct(r) /\ In(r) = In(s)
           /\ BoardDemo!Without(r, x) = BoardDemo!Without(s, x)
<1>1. PICK j : j = IF over \in In(s) THEN BoardDemo!At(s, over) ELSE Len(s)
    OBVIOUS
<1>2. PICK w : w = BoardDemo!Without(s, x)
    OBVIOUS
<1>3. w \in Seq(S) /\ Len(w) = Len(s) - 1 /\ Distinct(w) /\ In(w) = In(s) \ {x}
    BY <1>2, WithoutIs
<1>4. j \in 1..Len(s)
    <2>1. Len(s) \in 1..Len(s)
        BY AtWhere
    <2> QED BY <1>1, <2>1, AtWhere
<1>5. r = BoardDemo!InsertAt(w, j, x)
    <2>1. BoardDemo!ToSet(s) = In(s)
        BY DEF BoardDemo!ToSet, In
    <2> QED BY <1>1, <1>2, <2>1 DEF BoardDemo!ArrayMove
<1>6. j \in 1..(Len(w) + 1) /\ x \notin In(w)
    BY <1>3, <1>4
<1>7. /\ r \in Seq(S) /\ Distinct(r) /\ In(r) = In(w) \cup {x}
      /\ BoardDemo!Without(r, x) = w
    BY <1>3, <1>5, <1>6, InsertIs
<1> QED BY <1>2, <1>3, <1>7

LEMMA Appended ==
    ASSUME NEW S, NEW s \in Seq(S), Distinct(s), NEW x \in S, x \notin In(s)
    PROVE  /\ Append(s, x) \in Seq(S) /\ Distinct(Append(s, x))
           /\ In(Append(s, x)) = In(s) \cup {x}
<1>0. PICK r : r = Append(s, x)
    OBVIOUS
<1>1. /\ r \in Seq(S) /\ Len(r) = Len(s) + 1 /\ Len(s) \in Nat
      /\ \A k \in 1..Len(s) : r[k] = s[k]
      /\ r[Len(s) + 1] = x
    BY <1>0, AppendProperties
<1>2. Distinct(r)
    <2> SUFFICES ASSUME NEW k \in 1..Len(r), NEW l \in 1..Len(r), r[k] = r[l]
                 PROVE  k = l
        BY DEF Distinct
    <2>1. \A n \in 1..Len(s) : s[n] # x
        BY DEF In
    <2>2. CASE k \in 1..Len(s) /\ l \in 1..Len(s)
        BY <1>1, <2>2 DEF Distinct
    <2>3. CASE k = Len(s) + 1 \/ l = Len(s) + 1
        BY <1>1, <2>1, <2>3
    <2> QED BY <1>1, <2>2, <2>3
<1>3. In(r) = In(s) \cup {x}
    <2>1. ASSUME NEW k \in 1..Len(r) PROVE r[k] \in In(s) \cup {x}
        BY <1>1 DEF In
    <2>2. ASSUME NEW k \in 1..Len(s) PROVE s[k] \in In(r)
        <3>1. k \in 1..Len(r) /\ r[k] = s[k]
            BY <1>1
        <3> QED BY <3>1 DEF In
    <2>3. x \in In(r)
        <3>1. Len(s) + 1 \in 1..Len(r) /\ r[Len(s) + 1] = x
            BY <1>1
        <3> QED BY <3>1 DEF In
    <2> QED BY <2>1, <2>2, <2>3 DEF In
<1> QED BY <1>0, <1>1, <1>2, <1>3

-----------------------------------------------------------------------------
(* A board on which every column and every item is once.                      *)
Orderly(b) ==
    /\ b \in BoardDemo!Boards
    /\ Distinct(b.order) /\ In(b.order) = Columns
    /\ \A c \in Columns : Distinct(b.lane[c])
    /\ \A x \in Cards : \E c \in Columns : \A d \in Columns : x \in In(b.lane[d]) <=> d = c

(* Two boards that differ in the place of one item at most.                   *)
Others(s, x) == IF x \in In(s) THEN BoardDemo!Without(s, x) ELSE s
SameBut(b, o, x) ==
    b.order = o.order /\ \A c \in Columns : Others(b.lane[c], x) = Others(o.lane[c], x)

LEMMA ContainerIs ==
    ASSUME NEW b, Orderly(b), NEW x \in Cards
    PROVE  /\ BoardDemo!Container(b, x) \in Columns
           /\ \A d \in Columns : x \in In(b.lane[d]) <=> d = BoardDemo!Container(b, x)
<1>1. PICK c \in Columns : \A d \in Columns : x \in In(b.lane[d]) <=> d = c
    BY DEF Orderly
<1>2. x \notin Columns
    BY BoardAssumption
<1>3. BoardDemo!Container(b, x) = CHOOSE d \in Columns : x \in BoardDemo!ToSet(b.lane[d])
    BY <1>2 DEF BoardDemo!Container
<1>4. \A d \in Columns : BoardDemo!ToSet(b.lane[d]) = In(b.lane[d])
    BY DEF BoardDemo!ToSet, In
<1>5. c \in Columns /\ x \in BoardDemo!ToSet(b.lane[c])
    BY <1>1, <1>4
<1>6. /\ BoardDemo!Container(b, x) \in Columns
      /\ x \in BoardDemo!ToSet(b.lane[BoardDemo!Container(b, x)])
    BY <1>3, <1>5
<1> QED BY <1>1, <1>4, <1>6

LEMMA PlaceBack ==
    ASSUME NEW b, NEW o, Orderly(b), Orderly(o), NEW x \in Cards, SameBut(b, o, x),
           BoardDemo!Place(b, x) = BoardDemo!Place(o, x)
    PROVE  b = o
<1>1. PICK c : c = BoardDemo!Container(b, x)
    OBVIOUS
<1>2. /\ c = BoardDemo!Container(o, x)
      /\ BoardDemo!At(b.lane[c], x) = BoardDemo!At(o.lane[c], x)
    BY <1>1, BoardAssumption DEF BoardDemo!Place
<1>3. /\ c \in Columns /\ \A d \in Columns : x \in In(b.lane[d]) <=> d = c
      /\ \A d \in Columns : x \in In(o.lane[d]) <=> d = c
    BY <1>1, <1>2, ContainerIs
<1>4. /\ b \in BoardDemo!Boards /\ o \in BoardDemo!Boards /\ b.order = o.order
      /\ b.lane \in [Columns -> Seq(Cards)] /\ o.lane \in [Columns -> Seq(Cards)]
    BY DEF Orderly, SameBut, BoardDemo!Boards
<1>5. ASSUME NEW d \in Columns PROVE b.lane[d] = o.lane[d]
    <2>1. Others(b.lane[d], x) = Others(o.lane[d], x)
        BY DEF SameBut
    <2>2. CASE d = c
        <3>1. /\ x \in In(b.lane[d]) /\ x \in In(o.lane[d])
              /\ b.lane[d] \in Seq(Cards) /\ o.lane[d] \in Seq(Cards)
              /\ Distinct(b.lane[d]) /\ Distinct(o.lane[d])
            BY <1>3, <1>4, <2>2 DEF Orderly
        <3>2. BoardDemo!Without(b.lane[d], x) = BoardDemo!Without(o.lane[d], x)
            BY <2>1, <3>1 DEF Others
        <3> QED BY <1>2, <2>2, <3>1, <3>2, PutBack
    <2>3. CASE d # c
        BY <1>3, <2>1, <2>3 DEF Others
    <2> QED BY <2>2, <2>3
<1>6. b.lane = o.lane
    BY <1>4, <1>5
<1> QED BY <1>4, <1>6 DEF BoardDemo!Boards

(* A lane is replaced.                                                        *)
LEMMA Relaned ==
    ASSUME NEW b \in BoardDemo!Boards, NEW c \in Columns, NEW s \in Seq(Cards),
           NEW n, n = [b EXCEPT !.lane[c] = s]
    PROVE  /\ n \in BoardDemo!Boards /\ n.order = b.order
           /\ \A d \in Columns : n.lane[d] = IF d = c THEN s ELSE b.lane[d]
    BY DEF BoardDemo!Boards

(* An item goes somewhere else in its column.                                 *)
LEMMA ReorderedKeeps ==
    ASSUME NEW b, Orderly(b), NEW x \in Cards, NEW over,
           NEW n, n = BoardDemo!Reordered(b, x, over)
    PROVE  Orderly(n) /\ SameBut(n, b, x)
<1>1. PICK c : c = BoardDemo!Container(b, x)
    OBVIOUS
<1>2. c \in Columns /\ \A d \in Columns : x \in In(b.lane[d]) <=> d = c
    BY <1>1, ContainerIs
<1>3. PICK r : r = BoardDemo!ArrayMove(b.lane[c], x, over)
    OBVIOUS
<1>4. b \in BoardDemo!Boards /\ b.lane[c] \in Seq(Cards) /\ Distinct(b.lane[c])
    BY <1>2 DEF Orderly, BoardDemo!Boards
<1>5. /\ r \in Seq(Cards) /\ Distinct(r) /\ In(r) = In(b.lane[c])
      /\ BoardDemo!Without(r, x) = BoardDemo!Without(b.lane[c], x)
    BY <1>2, <1>3, <1>4, MovedWithin
<1>6. n = [b EXCEPT !.lane[c] = r]
    BY <1>1, <1>3 DEF BoardDemo!Reordered
<1>7. /\ n \in BoardDemo!Boards /\ n.order = b.order
      /\ \A d \in Columns : n.lane[d] = IF d = c THEN r ELSE b.lane[d]
    BY <1>2, <1>4, <1>5, <1>6, Relaned
<1>8. \A d \in Columns : In(n.lane[d]) = In(b.lane[d])
    BY <1>5, <1>7
<1>9. \A d \in Columns : Distinct(n.lane[d])
    BY <1>5, <1>7 DEF Orderly
<1>10. \A d \in Columns : Others(n.lane[d], x) = Others(b.lane[d], x)
    BY <1>2, <1>5, <1>7 DEF Others
<1> QED BY <1>7, <1>8, <1>9, <1>10 DEF Orderly, SameBut

(* An item goes to another column.                                            *)
LEMMA Relocated ==
    ASSUME NEW b, Orderly(b), NEW x \in Cards,
           NEW from, from = BoardDemo!Container(b, x),
           NEW to \in Columns \ {from},
           NEW r \in Seq(Cards), Distinct(r), In(r) = In(b.lane[to]) \cup {x},
           NEW n, n = [b EXCEPT !.lane[from] = BoardDemo!Without(b.lane[from], x), !.lane[to] = r]
    PROVE  /\ Orderly(n)
           /\ BoardDemo!Without(r, x) = b.lane[to] => SameBut(n, b, x)
<1>1. from \in Columns /\ \A d \in Columns : x \in In(b.lane[d]) <=> d = from
    BY ContainerIs
<1>2. PICK w : w = BoardDemo!Without(b.lane[from], x)
    OBVIOUS
<1>3. b \in BoardDemo!Boards /\ b.lane[from] \in Seq(Cards) /\ Distinct(b.lane[from])
    BY <1>1 DEF Orderly, BoardDemo!Boards
<1>4. w \in Seq(Cards) /\ Distinct(w) /\ In(w) = In(b.lane[from]) \ {x}
    BY <1>1, <1>2, <1>3, WithoutIs
<1>5. PICK m : m = [b EXCEPT !.lane[from] = w]
    OBVIOUS
<1>6. /\ m \in BoardDemo!Boards /\ m.order = b.order
      /\ \A d \in Columns : m.lane[d] = IF d = from THEN w ELSE b.lane[d]
    BY <1>1, <1>3, <1>4, <1>5, Relaned
<1>7. n = [m EXCEPT !.lane[to] = r]
    BY <1>2, <1>5
<1>8. /\ n \in BoardDemo!Boards /\ n.order = m.order
      /\ \A d \in Columns : n.lane[d] = IF d = to THEN r ELSE m.lane[d]
    <2>1. m \in BoardDemo!Boards /\ to \in Columns /\ r \in Seq(Cards)
        BY <1>6
    <2> HIDE <1>6
    <2> QED BY ONLY <1>7, <2>1 DEF BoardDemo!Boards
<1>9. /\ n.order = b.order
      /\ \A d \in Columns : n.lane[d] = IF d = to THEN r ELSE IF d = from THEN w ELSE b.lane[d]
    BY <1>6, <1>8
<1>10. \A d \in Columns : Distinct(n.lane[d])
    BY <1>4, <1>9 DEF Orderly
<1>11. ASSUME NEW y \in Cards
       PROVE  \E c \in Columns : \A d \in Columns : y \in In(n.lane[d]) <=> d = c
    <2>1. CASE y = x
        <3>1. \A d \in Columns : y \in In(n.lane[d]) <=> d = to
            BY <1>1, <1>4, <1>9, <2>1
        <3> QED BY <3>1
    <2>2. CASE y # x
        <3>1. \A d \in Columns : y \in In(n.lane[d]) <=> y \in In(b.lane[d])
            BY <1>4, <1>9, <2>2
        <3> QED BY <3>1 DEF Orderly
    <2> QED BY <2>1, <2>2
<1>12. ASSUME BoardDemo!Without(r, x) = b.lane[to], NEW d \in Columns
       PROVE  Others(n.lane[d], x) = Others(b.lane[d], x)
    <2>1. CASE d = to
        BY <1>1, <1>9, <1>12, <2>1 DEF Others
    <2>2. CASE d = from
        <3>1. x \notin In(w) /\ n.lane[d] = w
            BY <1>4, <1>9, <2>2
        <3> QED BY <1>1, <1>2, <2>2, <3>1 DEF Others
    <2>3. CASE d # to /\ d # from
        BY <1>9, <2>3 DEF Others
    <2> QED BY <2>1, <2>2, <2>3
<1> QED BY <1>8, <1>9, <1>10, <1>11, <1>12 DEF Orderly, SameBut

LEMMA TransferredKeeps ==
    ASSUME NEW b, Orderly(b), NEW x \in Cards, NEW over \in Columns \cup Cards,
           BoardDemo!Container(b, x) # BoardDemo!Container(b, over),
           NEW n, n = BoardDemo!Transferred(b, x, over)
    PROVE  Orderly(n) /\ SameBut(n, b, x)
<1>1. PICK from : from = BoardDemo!Container(b, x)
    OBVIOUS
<1>2. PICK to : to = BoardDemo!Container(b, over)
    OBVIOUS
<1>3. from \in Columns /\ \A d \in Columns : x \in In(b.lane[d]) <=> d = from
    BY <1>1, ContainerIs
<1>4. to \in Columns \ {from} /\ (over \in Cards => over \in In(b.lane[to]))
    <2>1. CASE over \in Columns
        BY <1>1, <1>2, <2>1, BoardAssumption DEF BoardDemo!Container
    <2>2. CASE over \in Cards
        BY <1>1, <1>2, <2>2, ContainerIs
    <2> QED BY <2>1, <2>2
<1>5. PICK s : s = b.lane[to]
    OBVIOUS
<1>6. s \in Seq(Cards) /\ Distinct(s) /\ x \notin In(s)
    BY <1>3, <1>4, <1>5 DEF Orderly, BoardDemo!Boards
<1>7. PICK j : j = IF over \in Columns THEN Len(s) + 1 ELSE BoardDemo!At(s, over)
    OBVIOUS
<1>8. j \in 1..(Len(s) + 1)
    <2>1. CASE over \in Columns
        BY <1>6, <1>7, <2>1
    <2>2. CASE over \in Cards
        <3>1. j \in 1..Len(s)
            BY <1>4, <1>5, <1>6, <1>7, <2>2, AtWhere, BoardAssumption
        <3> QED BY <1>6, <3>1
    <2> QED BY <2>1, <2>2
<1>9. PICK r : r = BoardDemo!InsertAt(s, j, x)
    OBVIOUS
<1>10. /\ r \in Seq(Cards) /\ Distinct(r) /\ In(r) = In(s) \cup {x}
       /\ BoardDemo!Without(r, x) = s
    BY <1>6, <1>8, <1>9, InsertIs
<1>11. n = [b EXCEPT !.lane[from] = BoardDemo!Without(b.lane[from], x), !.lane[to] = r]
    BY <1>1, <1>2, <1>5, <1>7, <1>9 DEF BoardDemo!Transferred
<1>12. to \in Columns \ {from} /\ from = BoardDemo!Container(b, x)
    BY <1>1, <1>4
<1>13. r \in Seq(Cards) /\ Distinct(r) /\ In(r) = In(b.lane[to]) \cup {x}
    BY <1>5, <1>10
<1>14. Orderly(n) /\ (BoardDemo!Without(r, x) = b.lane[to] => SameBut(n, b, x))
    BY <1>11, <1>12, <1>13, Relocated
<1> QED BY <1>5, <1>10, <1>14

(* A column goes somewhere else.                                              *)
LEMMA SwappedKeeps ==
    ASSUME NEW b, Orderly(b), NEW x \in Columns, NEW over,
           NEW n, n = BoardDemo!Swapped(b, x, over)
    PROVE  /\ Orderly(n)
           /\ BoardDemo!Place(n, x) = BoardDemo!Place(b, x) => n = b
<1>1. PICK r : r = BoardDemo!ArrayMove(b.order, x, over)
    OBVIOUS
<1>2. /\ b \in BoardDemo!Boards /\ b.order \in Seq(Columns) /\ Distinct(b.order)
      /\ x \in In(b.order)
    BY DEF Orderly, BoardDemo!Boards
<1>3. /\ r \in Seq(Columns) /\ Distinct(r) /\ In(r) = In(b.order)
      /\ BoardDemo!Without(r, x) = BoardDemo!Without(b.order, x)
    BY <1>1, <1>2, MovedWithin
<1>4. n = [b EXCEPT !.order = r]
    BY <1>1 DEF BoardDemo!Swapped
<1>5. n \in BoardDemo!Boards /\ n.order = r /\ n.lane = b.lane
    BY <1>2, <1>3, <1>4 DEF BoardDemo!Boards
<1>6. ASSUME BoardDemo!Place(n, x) = BoardDemo!Place(b, x) PROVE n = b
    <2>1. BoardDemo!At(r, x) = BoardDemo!At(b.order, x)
        BY <1>5, <1>6 DEF BoardDemo!Place
    <2>2. r = b.order
        BY <1>2, <1>3, <2>1, PutBack
    <2> QED BY <1>2, <1>5, <2>2 DEF BoardDemo!Boards
<1> QED BY <1>3, <1>5, <1>6 DEF Orderly

(* What the board promises, with what a drag under way has changed so far:    *)
(* the place of the dragged item, unless its owner applies the moves itself.  *)
BoardTyped ==
    /\ mode \in BoardDemo!Modes /\ disabled \in Disablings
    /\ active \in Columns \cup Cards \cup {None}
BoardOrderly == Orderly(value) /\ Orderly(origin) /\ Orderly(committed)
BoardMoves ==
    \/ moved = BoardDemo!NoMove
    \/ /\ mode = "apply" /\ moved.card \in Cards /\ moved.to \in Columns
       /\ moved.from = BoardDemo!Container(value, moved.card)
BoardAgreed ==
    /\ mode = "apply" \/ active = None => value = committed
    /\ mode # "apply" /\ active \in Columns => value = origin /\ value = committed
    /\ mode # "apply" /\ active \in Cards => origin = committed /\ SameBut(value, origin, active)
BoardInv == BoardTyped /\ BoardOrderly /\ BoardMoves /\ BoardAgreed

LEMMA FirstOrderly == Orderly(FirstBoard)
<1>1. FirstBoard \in BoardDemo!Boards
    BY BoardAssumption
<1>2. FirstBoard.order \in Seq(Columns) /\ \A c \in Columns : FirstBoard.lane[c] \in Seq(Cards)
    BY <1>1 DEF BoardDemo!Boards
<1>3. Distinct(FirstBoard.order) /\ \A c \in Columns : Distinct(FirstBoard.lane[c])
    BY <1>2, Spread, BoardAssumption
<1>4. /\ BoardDemo!ToSet(FirstBoard.order) = In(FirstBoard.order)
      /\ \A c \in Columns : BoardDemo!ToSet(FirstBoard.lane[c]) = In(FirstBoard.lane[c])
    BY <1>2, Spread
<1> QED BY <1>1, <1>3, <1>4, BoardAssumption DEF Orderly

LEMMA BoardInitially ==
    ASSUME BoardDemo!Init
    PROVE  BoardInv
<1> USE DEF BoardDemo!Init
<1>1. BoardTyped
    BY DEF BoardTyped
<1>2. BoardOrderly
    BY FirstOrderly DEF BoardOrderly
<1>3. BoardMoves
    BY DEF BoardMoves
<1>4. BoardAgreed
    BY BoardAssumption DEF BoardAgreed
<1> QED BY <1>1, <1>2, <1>3, <1>4 DEF BoardInv

LEMMA SameButOnce ==
    ASSUME NEW b, NEW o, NEW n, NEW x, SameBut(b, o, x), SameBut(n, b, x)
    PROVE  SameBut(n, o, x)
    BY DEF SameBut

(* Nothing but the dragged thing and the board at its start change.           *)
LEMMA BoardStarted ==
    ASSUME BoardInv, NEW x, BoardDemo!DragStart(x)
    PROVE  BoardInv'
<1> USE DEF BoardDemo!DragStart, BoardInv
<1>1. x \in Columns \cup Cards
    BY DEF BoardDemo!LiveColumns, BoardDemo!LiveItems
<1>2. BoardTyped'
    BY <1>1 DEF BoardTyped
<1>3. BoardOrderly'
    BY DEF BoardOrderly
<1>4. BoardMoves'
    BY DEF BoardMoves
<1>5. BoardAgreed'
    BY <1>1, BoardAssumption DEF BoardAgreed, SameBut
<1> QED BY <1>2, <1>3, <1>4, <1>5

LEMMA Targeted ==
    ASSUME NEW x, NEW over \in BoardDemo!Targets(x)
    PROVE  over \in Columns \cup Cards
    BY DEF BoardDemo!Targets, BoardDemo!LiveColumns, BoardDemo!LiveItems

LEMMA BoardPassed ==
    ASSUME BoardInv, NEW over, BoardDemo!DragOver(over)
    PROVE  BoardInv'
<1> USE DEF BoardDemo!DragOver
<1>1. /\ active \in Cards /\ mode # "apply" /\ over \in Columns \cup Cards
      /\ UNCHANGED <<mode, disabled, active, origin, committed, moved>>
    BY Targeted
<1>2. /\ Orderly(value) /\ Orderly(origin) /\ Orderly(committed)
      /\ moved = BoardDemo!NoMove
      /\ origin = committed /\ SameBut(value, origin, active)
    BY <1>1 DEF BoardInv, BoardOrderly, BoardMoves, BoardAgreed
<1>3. Orderly(value') /\ SameBut(value', value, active)
    <2>1. CASE BoardDemo!Container(value, active) # BoardDemo!Container(value, over)
        <3>1. value' = BoardDemo!Transferred(value, active, over)
            BY <1>1, <2>1 DEF BoardDemo!Show
        <3> QED BY <1>1, <1>2, <2>1, <3>1, TransferredKeeps
    <2>2. CASE BoardDemo!Container(value, active) = BoardDemo!Container(value, over)
        <3>1. value' = BoardDemo!Reordered(value, active, over)
            BY <1>1, <2>2 DEF BoardDemo!Show
        <3> QED BY <1>1, <1>2, <3>1, ReorderedKeeps
    <2> QED BY <2>1, <2>2
<1>4. SameBut(value', origin, active)
    BY <1>2, <1>3, SameButOnce
<1>5. active # None /\ active \notin Columns
    BY <1>1, BoardAssumption
<1>6. BoardTyped'
    BY <1>1 DEF BoardInv, BoardTyped
<1>7. BoardOrderly'
    BY <1>1, <1>2, <1>3 DEF BoardOrderly
<1>8. BoardMoves'
    BY <1>1, <1>2 DEF BoardMoves, BoardDemo!NoMove
<1>9. BoardAgreed'
    BY <1>1, <1>2, <1>4, <1>5 DEF BoardAgreed
<1> QED BY <1>6, <1>7, <1>8, <1>9 DEF BoardInv

(* A drag is over when what is shown is what the owner was told.              *)
LEMMA BoardSettled ==
    ASSUME BoardInv, UNCHANGED <<mode, disabled, origin, moved>>, active' = None,
           mode = "apply" => UNCHANGED value,
           Orderly(value'), value' = committed'
    PROVE  BoardInv'
<1>1. BoardTyped'
    BY DEF BoardInv, BoardTyped
<1>2. BoardOrderly'
    BY DEF BoardInv, BoardOrderly
<1>3. BoardMoves'
    BY DEF BoardInv, BoardMoves, BoardDemo!NoMove
<1>4. BoardAgreed'
    BY BoardAssumption DEF BoardAgreed
<1> QED BY <1>1, <1>2, <1>3, <1>4 DEF BoardInv

(* An item is let go on a board that differs from the first in its place.     *)
LEMMA BoardDropped ==
    ASSUME BoardInv, active \in Cards, mode # "apply",
           NEW b, Orderly(b), SameBut(b, origin, active),
           value' = b, BoardDemo!Commit(b)
    PROVE  Orderly(value') /\ value' = committed'
<1>1. Orderly(origin) /\ origin = committed
    BY DEF BoardInv, BoardOrderly, BoardAgreed
<1>2. CASE BoardDemo!Place(b, active) = BoardDemo!Place(origin, active)
    <2>1. b = origin
        BY <1>1, <1>2, PlaceBack
    <2> QED BY <1>1, <1>2, <2>1 DEF BoardDemo!Commit
<1>3. CASE BoardDemo!Place(b, active) # BoardDemo!Place(origin, active)
    BY <1>3 DEF BoardDemo!Commit
<1> QED BY <1>2, <1>3

LEMMA BoardCancelled ==
    ASSUME BoardInv, BoardDemo!DragCancel
    PROVE  BoardInv'
<1> USE DEF BoardDemo!DragCancel
<1>1. /\ active # None /\ active \in Columns \cup Cards
      /\ active' = None /\ UNCHANGED <<mode, disabled, origin, moved>>
    BY DEF BoardInv, BoardTyped
<1>2. Orderly(value) /\ Orderly(origin) /\ Orderly(committed)
    BY DEF BoardInv, BoardOrderly
<1>3. /\ mode = "apply" => UNCHANGED value
      /\ Orderly(value') /\ value' = committed'
    <2>1. CASE mode = "apply"
        BY <1>2, <2>1 DEF BoardInv, BoardAgreed, BoardDemo!Commit
    <2>2. CASE mode = "restore"
        BY <1>1, <1>2, <2>2 DEF BoardInv, BoardAgreed, BoardDemo!Show
    <2>3. CASE mode \notin {"apply", "restore"} /\ active \in Columns
        BY <1>2, <2>3 DEF BoardInv, BoardAgreed, BoardDemo!Commit
    <2>4. CASE mode \notin {"apply", "restore"} /\ active \in Cards
        <3>1. SameBut(value, origin, active) /\ value' = value /\ BoardDemo!Commit(value)
            BY <2>4 DEF BoardInv, BoardAgreed
        <3> QED BY <1>2, <2>4, <3>1, BoardDropped
    <2> QED BY <1>1, <2>1, <2>2, <2>3, <2>4
<1> QED BY <1>1, <1>3, BoardSettled

LEMMA BoardLetGo ==
    ASSUME BoardInv, BoardDemo!ReleaseOverNothing
    PROVE  BoardInv'
<1> USE DEF BoardDemo!ReleaseOverNothing
<1>1. /\ active # None /\ active \in Columns \cup Cards
      /\ active' = None /\ UNCHANGED <<mode, disabled, value, origin, moved>>
    BY DEF BoardInv, BoardTyped
<1>2. Orderly(value) /\ Orderly(origin) /\ Orderly(committed)
    BY DEF BoardInv, BoardOrderly
<1>3. Orderly(value') /\ value' = committed'
    <2>1. CASE mode = "apply"
        BY <1>2, <2>1 DEF BoardInv, BoardAgreed, BoardDemo!Commit
    <2>2. CASE mode # "apply" /\ active \in Columns
        <3>1. active \notin Cards
            BY <2>2, BoardAssumption
        <3> QED BY <1>2, <2>2, <3>1 DEF BoardInv, BoardAgreed
    <2>3. CASE mode # "apply" /\ active \in Cards
        <3>1. SameBut(value, origin, active) /\ value' = value /\ BoardDemo!Commit(value)
            BY <2>3 DEF BoardInv, BoardAgreed
        <3> QED BY <1>2, <2>3, <3>1, BoardDropped
    <2> QED BY <1>1, <2>1, <2>2, <2>3
<1> QED BY <1>1, <1>3, BoardSettled

LEMMA BoardColumnReleased ==
    ASSUME BoardInv, NEW over, BoardDemo!ReleaseColumn(over)
    PROVE  BoardInv'
<1> USE DEF BoardDemo!ReleaseColumn
<1>1. /\ active \in Columns
      /\ active' = None /\ UNCHANGED <<mode, disabled, origin, moved>>
    OBVIOUS
<1>2. Orderly(value) /\ Orderly(origin) /\ Orderly(committed)
    BY DEF BoardInv, BoardOrderly
<1>3. PICK b : b = BoardDemo!Swapped(value, active, over)
    OBVIOUS
<1>4. BoardDemo!Show(b) /\ BoardDemo!Commit(b)
    BY <1>3
<1>5. /\ mode = "apply" => UNCHANGED value
      /\ Orderly(value') /\ value' = committed'
    <2>1. CASE mode = "apply"
        BY <1>2, <1>4, <2>1 DEF BoardInv, BoardAgreed, BoardDemo!Show, BoardDemo!Commit
    <2>2. CASE mode # "apply"
        <3>1. value = origin /\ value = committed /\ value' = b
            BY <1>1, <1>4, <2>2 DEF BoardInv, BoardAgreed, BoardDemo!Show
        <3>2. /\ Orderly(b)
              /\ BoardDemo!Place(b, active) = BoardDemo!Place(value, active) => b = value
            BY <1>1, <1>2, <1>3, SwappedKeeps
        <3> QED BY <1>4, <2>2, <3>1, <3>2 DEF BoardDemo!Commit
    <2> QED BY <2>1, <2>2
<1> QED BY <1>1, <1>5, BoardSettled

LEMMA BoardItemReleased ==
    ASSUME BoardInv, NEW over, BoardDemo!ReleaseItem(over)
    PROVE  BoardInv'
<1> USE DEF BoardDemo!ReleaseItem
<1>1. /\ active \in Cards /\ mode # "apply"
      /\ active' = None /\ UNCHANGED <<mode, disabled, origin, moved>>
    OBVIOUS
<1>2. Orderly(value) /\ SameBut(value, origin, active)
    BY <1>1 DEF BoardInv, BoardOrderly, BoardAgreed
<1>3. PICK b : b = IF BoardDemo!Container(value, active) = BoardDemo!Container(value, over)
                   THEN BoardDemo!Reordered(value, active, over) ELSE value
    OBVIOUS
<1>4. value' = b /\ BoardDemo!Commit(b)
    BY <1>1, <1>3 DEF BoardDemo!Show
<1>5. Orderly(b) /\ SameBut(b, origin, active)
    <2>1. CASE b = value
        BY <1>2, <2>1
    <2>2. CASE b = BoardDemo!Reordered(value, active, over)
        <3>1. Orderly(b) /\ SameBut(b, value, active)
            BY <1>1, <1>2, <2>2, ReorderedKeeps
        <3> QED BY <1>2, <3>1, SameButOnce
    <2> QED BY <1>3, <2>1, <2>2
<1>6. Orderly(value') /\ value' = committed'
    BY <1>1, <1>4, <1>5, BoardDropped
<1> QED BY <1>1, <1>6, BoardSettled

(* The move goes to the owner, who has not applied it.                        *)
LEMMA BoardHandedOver ==
    ASSUME BoardInv, NEW over, BoardDemo!HandOver(over)
    PROVE  BoardInv'
<1> USE DEF BoardDemo!HandOver
<1>1. /\ active \in Cards /\ mode = "apply" /\ over \in Columns \cup Cards
      /\ active' = None /\ UNCHANGED <<mode, disabled, value, origin, committed>>
    BY Targeted
<1>2. Orderly(value) /\ Orderly(origin) /\ Orderly(committed) /\ value = committed
    BY <1>1 DEF BoardInv, BoardOrderly, BoardAgreed
<1>3. BoardDemo!Container(value, over) \in Columns
    <2>1. CASE over \in Columns
        BY <2>1 DEF BoardDemo!Container
    <2>2. CASE over \in Cards
        BY <1>2, <2>2, ContainerIs
    <2> QED BY <1>1, <2>1, <2>2
<1>4. /\ moved'.card = active /\ moved'.from = BoardDemo!Container(value, active)
      /\ moved'.to = BoardDemo!Container(value, over)
    OBVIOUS
<1>5. BoardMoves'
    <2>1. BoardDemo!Container(value, active)' = BoardDemo!Container(value, active')
        BY <1>1 DEF BoardDemo!Container
    <2>2. /\ mode' = "apply" /\ moved'.card \in Cards /\ moved'.to \in Columns
          /\ value' = value /\ moved'.from = BoardDemo!Container(value, moved'.card)
        BY <1>1, <1>3, <1>4
    <2> QED BY <2>2 DEF BoardMoves, BoardDemo!Container
<1>6. BoardTyped'
    BY <1>1 DEF BoardInv, BoardTyped
<1>7. BoardOrderly'
    BY <1>1, <1>2 DEF BoardOrderly
<1>8. BoardAgreed'
    BY <1>1, <1>2, BoardAssumption DEF BoardAgreed
<1> QED BY <1>5, <1>6, <1>7, <1>8 DEF BoardInv

LEMMA BoardApplied ==
    ASSUME BoardInv, BoardDemo!OwnerApplies
    PROVE  BoardInv'
<1>1. /\ moved # BoardDemo!NoMove /\ moved' = BoardDemo!NoMove /\ committed' = value'
      /\ UNCHANGED <<mode, disabled, active, origin>>
    BY DEF BoardDemo!OwnerApplies
<1>2. PICK x : x = moved.card
    OBVIOUS
<1>3. PICK from : from = moved.from
    OBVIOUS
<1>4. PICK to : to = moved.to
    OBVIOUS
<1>5. /\ mode = "apply" /\ x \in Cards /\ to \in Columns
      /\ from = BoardDemo!Container(value, x)
    BY <1>1, <1>2, <1>3, <1>4 DEF BoardInv, BoardMoves
<1>6. Orderly(value) /\ Orderly(origin)
    BY DEF BoardInv, BoardOrderly
<1>7. Orderly(value')
    <2>1. CASE to = from
        BY <1>3, <1>4, <1>6, <2>1 DEF BoardDemo!OwnerApplies
    <2>2. CASE to # from
        <3>1. PICK r : r = Append(value.lane[to], x)
            OBVIOUS
        <3>2. PICK s : s = value.lane[to]
            OBVIOUS
        <3>3. s \in Seq(Cards) /\ Distinct(s) /\ x \notin In(s)
            BY <1>5, <1>6, <2>2, <3>2, ContainerIs DEF Orderly, BoardDemo!Boards
        <3>4. r \in Seq(Cards) /\ Distinct(r) /\ In(r) = In(s) \cup {x}
            <4>1. s \in Seq(Cards) /\ x \in Cards
                BY <1>5, <3>3
            <4>2. r = Append(s, x)
                BY ONLY <3>1, <3>2, Zenon
            <4>3. Distinct(s) /\ x \notin In(s)
                BY <3>3
            <4> QED BY <4>1, <4>2, <4>3, Appended
        <3>5. value' = [value EXCEPT !.lane[from] = BoardDemo!Without(value.lane[from], x),
                                     !.lane[to] = r]
            BY <1>2, <1>3, <1>4, <2>2, <3>1 DEF BoardDemo!OwnerApplies
        <3>6. r \in Seq(Cards) /\ Distinct(r) /\ In(r) = In(value.lane[to]) \cup {x}
            BY <3>2, <3>4
        <3>7. to \in Columns \ {from}
            BY <1>5, <2>2
        <3> QED BY <1>5, <1>6, <3>5, <3>6, <3>7, Relocated
    <2> QED BY <2>1, <2>2
<1>8. BoardTyped'
    BY <1>1 DEF BoardInv, BoardTyped
<1>9. BoardOrderly'
    BY <1>1, <1>6, <1>7 DEF BoardOrderly
<1>10. BoardMoves'
    BY <1>1 DEF BoardMoves, BoardDemo!NoMove
<1>11. BoardAgreed'
    BY <1>1, <1>5 DEF BoardAgreed
<1> QED BY <1>8, <1>9, <1>10, <1>11 DEF BoardInv

LEMMA BoardPreserved ==
    ASSUME BoardInv, BoardDemo!Next
    PROVE  BoardInv'
<1>1. CASE \E x \in Columns \cup Cards : BoardDemo!DragStart(x)
    BY <1>1, BoardStarted
<1>2. ASSUME NEW over, BoardDemo!DragOver(over) \/ BoardDemo!ReleaseColumn(over)
                       \/ BoardDemo!ReleaseItem(over) \/ BoardDemo!HandOver(over)
      PROVE  BoardInv'
    BY <1>2, BoardPassed, BoardColumnReleased, BoardItemReleased, BoardHandedOver
<1> QED BY <1>1, <1>2, BoardCancelled, BoardLetGo, BoardApplied DEF BoardDemo!Next

-----------------------------------------------------------------------------
(* Induction, over sets of numbers.                                           *)

LEMMA BelowIsWellFounded ==
    \E R : IsWellFoundedOn(R, Nat) /\ \A x, y \in Nat : y < x => <<y, x>> \in R
<1>1. IsWellFoundedOn(OpToRel(<, Nat), Nat)
    BY NatLessThanWellFounded
<1>2. \A x, y \in Nat : y < x => <<y, x>> \in OpToRel(<, Nat)
    BY Zenon DEF OpToRel
<1> QED BY <1>1, <1>2, Zenon

LEMMA LeastNat ==
    ASSUME NEW T \in SUBSET Nat, T # {}
    PROVE  \E x \in T : \A y \in T : x <= y
<1>1. PICK R : IsWellFoundedOn(R, Nat) /\ \A x, y \in Nat : y < x => <<y, x>> \in R
    BY BelowIsWellFounded
<1>2. PICK x \in T : \A y \in T : ~(<<y, x>> \in R)
    BY <1>1, WFMin
<1>3. ASSUME NEW y \in T PROVE x <= y
    <2>1. x \in Nat /\ y \in Nat
        OBVIOUS
    <2>2. ~(y < x)
        BY <1>1, <1>2, <2>1, Zenon
    <2> QED BY <2>1, <2>2
<1> QED BY <1>2, <1>3

LEMMA SetInduction ==
    ASSUME NEW S, 0 \in S, \A n \in Nat : n \in S => n + 1 \in S
    PROVE  Nat \subseteq S
<1> SUFFICES ASSUME Nat \ S # {} PROVE FALSE
    OBVIOUS
<1>1. PICK x \in Nat \ S : \A y \in Nat \ S : x <= y
    BY LeastNat
<1>2. x # 0 /\ x - 1 \in Nat
    OBVIOUS
<1>3. x - 1 \in S
    BY <1>1, <1>2
<1> QED BY <1>1, <1>2, <1>3

-----------------------------------------------------------------------------
(* What the recursive query finds: the least set that has the children of the *)
(* unit, and with any unit its children, short of the unit itself.            *)

Generations(u, K, f) ==
    f = [n \in 0..K |-> IF n = 0 THEN Chart!Children(u)
                        ELSE f[n - 1] \cup UNION {Chart!Children(d) : d \in f[n - 1]}]

LEMMA GenerationsExist ==
    ASSUME NEW u, NEW K \in Nat
    PROVE  \E f : Generations(u, K, f)
<1> DEFINE Grown(X) == X \cup UNION {Chart!Children(d) : d \in X}
           Good == {k \in Nat : \E f : f = [n \in 0..k |->
                        IF n = 0 THEN Chart!Children(u) ELSE Grown(f[n - 1])]}
<1> HIDE DEF Grown
<1>1. 0 \in Good
    <2>1. PICK f : f = [n \in 0..0 |-> Chart!Children(u)]
        OBVIOUS
    <2>2. f = [n \in 0..0 |-> IF n = 0 THEN Chart!Children(u) ELSE Grown(f[n - 1])]
        BY <2>1
    <2> QED BY <2>2
<1>2. ASSUME NEW k \in Nat, k \in Good PROVE k + 1 \in Good
    <2>1. PICK f : f = [n \in 0..k |-> IF n = 0 THEN Chart!Children(u) ELSE Grown(f[n - 1])]
        BY <1>2
    <2>2. PICK g : g = [n \in 0..(k + 1) |-> IF n = k + 1 THEN Grown(f[k]) ELSE f[n]]
        OBVIOUS
    <2>3. ASSUME NEW n \in 0..(k + 1)
          PROVE  g[n] = IF n = 0 THEN Chart!Children(u) ELSE Grown(g[n - 1])
        <3>1. CASE n = 0
            <4>1. g[n] = f[n] /\ f[n] = Chart!Children(u)
                BY <2>1, <2>2, <3>1
            <4> QED BY <3>1, <4>1
        <3>2. CASE n = k + 1
            <4>1. g[n] = Grown(f[k]) /\ n - 1 = k /\ k \in 0..(k + 1) /\ k # k + 1 /\ n # 0
                BY <2>2, <3>2
            <4>2. g[k] = f[k]
                BY <2>2, <4>1
            <4> QED BY <4>1, <4>2
        <3>3. CASE n \in 1..k
            <4>1. /\ n - 1 \in 0..k /\ n \in 0..k /\ n - 1 \in 0..(k + 1) /\ n # 0
                  /\ n # k + 1 /\ n - 1 # k + 1
                BY <3>3
            <4>2. g[n] = f[n] /\ g[n - 1] = f[n - 1] /\ f[n] = Grown(f[n - 1])
                BY <2>1, <2>2, <4>1
            <4> QED BY <4>1, <4>2
        <3> QED BY <3>1, <3>2, <3>3
    <2>4. g = [n \in 0..(k + 1) |-> IF n = 0 THEN Chart!Children(u) ELSE Grown(g[n - 1])]
        BY <2>2, <2>3
    <2>5. k + 1 \in Nat
        OBVIOUS
    <2> QED BY <2>4, <2>5
<1>3. Nat \subseteq Good
    <2> HIDE DEF Good
    <2> QED BY <1>1, <1>2, SetInduction
<1>4. K \in Good
    BY <1>3
<1> QED BY <1>4 DEF Grown, Generations

LEMMA GenerationsGrow ==
    ASSUME NEW u
    PROVE  \E N \in Nat : \E f :
               /\ N = Cardinality(Units) /\ f[0] = Chart!Children(u)
               /\ \A n \in 1..N : f[n] = f[n - 1] \cup UNION {Chart!Children(d) : d \in f[n - 1]}
               /\ Chart!Descendants(u) = f[N] \ {u}
<1>1. PICK N \in Nat : N = Cardinality(Units) /\ N = Chart!Cardinality(Units)
    BY UnitsAssumption, FS_CardinalityType DEF Chart!Cardinality, Cardinality
<1>2. PICK f : f = CHOOSE g : Generations(u, N, g)
    OBVIOUS
<1>3. Generations(u, N, f)
    BY <1>2, GenerationsExist
<1>4. Chart!Descendants(u) = f[N] \ {u}
    BY <1>1, <1>2 DEF Chart!Descendants, Generations
<1>5. f[0] = Chart!Children(u)
    BY <1>3 DEF Generations
<1>6. ASSUME NEW n \in 1..N
      PROVE  f[n] = f[n - 1] \cup UNION {Chart!Children(d) : d \in f[n - 1]}
    <2>1. n \in 0..N /\ n # 0
        OBVIOUS
    <2> QED BY <1>3, <2>1 DEF Generations
<1> QED BY <1>1, <1>4, <1>5, <1>6

LEMMA DescendantsLeast ==
    ASSUME NEW u, NEW T, Chart!Children(u) \subseteq T,
           \A d \in T : Chart!Children(d) \subseteq T
    PROVE  Chart!Descendants(u) \subseteq T
<1>0. PICK N \in Nat : N = Cardinality(Units)
    BY UnitsAssumption, FS_CardinalityType
<1>1. PICK f :
          /\ f[0] = Chart!Children(u)
          /\ \A n \in 1..N : f[n] = f[n - 1] \cup UNION {Chart!Children(d) : d \in f[n - 1]}
          /\ Chart!Descendants(u) = f[N] \ {u}
    BY <1>0, GenerationsGrow
<1> DEFINE Good == {n \in Nat : n <= N => f[n] \subseteq T}
<1>2. 0 \in Good
    BY <1>1
<1>3. ASSUME NEW n \in Nat, n \in Good PROVE n + 1 \in Good
    <2> SUFFICES ASSUME n + 1 <= N PROVE f[n + 1] \subseteq T
        OBVIOUS
    <2>1. n + 1 \in 1..N /\ (n + 1) - 1 = n /\ n <= N
        OBVIOUS
    <2>2. f[n + 1] = f[n] \cup UNION {Chart!Children(d) : d \in f[n]}
        BY <1>1, <2>1
    <2>3. f[n] \subseteq T
        BY <1>3, <2>1
    <2> QED BY <2>2, <2>3
<1>4. Nat \subseteq Good
    <2> HIDE DEF Good
    <2> QED BY <1>2, <1>3, SetInduction
<1>5. f[N] \subseteq T
    BY <1>4
<1> QED BY <1>1, <1>5

(* Each generation adds a unit until none is left to add.                     *)
LEMMA DescendantsClosed ==
    ASSUME NEW u
    PROVE  /\ Chart!Children(u) \subseteq Chart!Descendants(u) \cup {u}
           /\ \A d \in Chart!Descendants(u) : Chart!Children(d) \subseteq Chart!Descendants(u) \cup {u}
<1>0. PICK N \in Nat : N = Cardinality(Units)
    BY UnitsAssumption, FS_CardinalityType
<1>1. PICK f :
          /\ N = Cardinality(Units) /\ f[0] = Chart!Children(u)
          /\ \A n \in 1..N : f[n] = f[n - 1] \cup UNION {Chart!Children(d) : d \in f[n - 1]}
          /\ Chart!Descendants(u) = f[N] \ {u}
    BY <1>0, GenerationsGrow
<1>2. \A d : Chart!Children(d) \subseteq Units
    BY DEF Chart!Children
<1> DEFINE Closed(X) == \A d \in X : Chart!Children(d) \subseteq X
           Good == {n \in Nat : n <= N =>
                       /\ f[n] \subseteq Units /\ Chart!Children(u) \subseteq f[n]
                       /\ Closed(f[n]) \/ Cardinality(f[n]) >= n + 1}
<1> HIDE DEF Closed
<1>3. 0 \in Good
    <2>1. f[0] \subseteq Units /\ Chart!Children(u) \subseteq f[0]
        BY <1>1, <1>2
    <2>2. CASE f[0] = {}
        BY <2>1, <2>2 DEF Closed
    <2>3. CASE f[0] # {}
        <3>1. IsFiniteSet(f[0])
            BY <2>1, UnitsAssumption, FS_Subset
        <3>2. Cardinality(f[0]) \in Nat /\ Cardinality(f[0]) # 0
            BY <2>3, <3>1, FS_CardinalityType, FS_EmptySet
        <3> QED BY <2>1, <3>2
    <2> QED BY <2>2, <2>3
<1>4. ASSUME NEW n \in Nat, n \in Good PROVE n + 1 \in Good
    <2> SUFFICES ASSUME n + 1 <= N
                 PROVE  /\ f[n + 1] \subseteq Units /\ Chart!Children(u) \subseteq f[n + 1]
                        /\ Closed(f[n + 1]) \/ Cardinality(f[n + 1]) >= n + 2
        OBVIOUS
    <2>1. n + 1 \in 1..N /\ (n + 1) - 1 = n /\ n <= N
        OBVIOUS
    <2>2. f[n + 1] = f[n] \cup UNION {Chart!Children(d) : d \in f[n]}
        BY <1>1, <2>1
    <2>3. /\ f[n] \subseteq Units /\ Chart!Children(u) \subseteq f[n]
          /\ Closed(f[n]) \/ Cardinality(f[n]) >= n + 1
        BY <1>4, <2>1
    <2>4. f[n + 1] \subseteq Units /\ Chart!Children(u) \subseteq f[n + 1]
        BY <1>2, <2>2, <2>3
    <2>5. CASE Closed(f[n])
        <3>1. f[n + 1] = f[n]
            BY <2>2, <2>5 DEF Closed
        <3> QED BY <2>4, <2>5, <3>1
    <2>6. CASE ~Closed(f[n])
        <3>1. f[n] \subseteq f[n + 1] /\ f[n] # f[n + 1]
            BY <2>2, <2>6 DEF Closed
        <3>2. IsFiniteSet(f[n + 1])
            BY <2>4, UnitsAssumption, FS_Subset
        <3>3. /\ Cardinality(f[n]) <= Cardinality(f[n + 1])
              /\ Cardinality(f[n]) # Cardinality(f[n + 1])
            BY <3>1, <3>2, FS_Subset
        <3>4. Cardinality(f[n]) \in Nat /\ Cardinality(f[n + 1]) \in Nat
            BY <3>1, <3>2, FS_Subset, FS_CardinalityType
        <3> QED BY <2>3, <2>4, <2>6, <3>3, <3>4
    <2> QED BY <2>5, <2>6
<1>5. Nat \subseteq Good
    <2> HIDE DEF Good
    <2> QED BY <1>3, <1>4, SetInduction
<1>6. /\ f[N] \subseteq Units /\ Chart!Children(u) \subseteq f[N]
      /\ Closed(f[N]) \/ Cardinality(f[N]) >= N + 1
    BY <1>5
<1>7. Closed(f[N])
    <2>1. Cardinality(f[N]) <= N
        BY <1>1, <1>6, UnitsAssumption, FS_Subset
    <2>2. Cardinality(f[N]) \in Nat
        BY <1>6, UnitsAssumption, FS_Subset, FS_CardinalityType
    <2> QED BY <1>6, <2>1, <2>2
<1> QED BY <1>1, <1>6, <1>7 DEF Closed

LEMMA DescendantsBelow ==
    ASSUME NEW u \in Units
    PROVE  Chart!Descendants(u) \subseteq {d \in Units : units[d].parent \in Units}
<1>1. Chart!Children(u) \subseteq {d \in Units : units[d].parent \in Units}
    BY DEF Chart!Children
<1>2. ASSUME NEW e \in {d \in Units : units[d].parent \in Units}
      PROVE  Chart!Children(e) \subseteq {d \in Units : units[d].parent \in Units}
    BY DEF Chart!Children
<1> QED BY <1>1, <1>2, DescendantsLeast

-----------------------------------------------------------------------------
(* The units at the server, whatever the number of updates in progress.       *)

CallRecords ==
    [at : {"idle", "read", "checked"}, unit : Units \cup {Absent}, to : Units \cup {Top, Absent},
     move : BOOLEAN, list : Units \cup {Absent},
     left : SUBSET (Units \X (Units \cup {Top}) \X Units)]
UnitRows ==
    /\ units \in [Units -> [parent : Units \cup {Top, Absent, Gone}, level : 0..MaxLevel]]
    /\ \A u \in Units : units[u].parent \in Units =>
                            units[units[u].parent].parent \notin {Absent, Gone}
UnitCalls ==
    /\ calls \in [Callers -> CallRecords]
    /\ \A c \in Callers :
           /\ calls[c].at # "idle" => calls[c].unit \in Units /\ calls[c].to \in Units \cup {Top}
           /\ calls[c].at # "checked" => calls[c].list = Absent /\ calls[c].left = {}
           /\ calls[c].at = "read" => calls[c].move
UnitsTyped == UnitRows /\ UnitCalls /\ staffed \subseteq Units /\ overlapped \in BOOLEAN

(* As long as no re-parent has run beside another update: the hierarchy can   *)
(* be ranked, what is left to store is as it was read, and the new parent is  *)
(* outside a set of units that has the moved unit and whatever lies below.    *)
Ranked(f) ==
    f \in [Units -> Nat] /\ \A u \in Units : units[u].parent \in Units => f[units[u].parent] < f[u]
Parts(S, u, p) ==
    /\ S \subseteq Units /\ u \in S /\ p \notin S
    /\ \A x \in Units : units[x].parent \in S => x \in S
CallHolds(w) ==
    /\ \A d \in w.left : units[d[1]].parent \in {d[2], Gone}
    /\ \/ units[w.unit].parent \in {w.to, Gone}
       \/ w.move /\ (w.to = Top \/ \E S : Parts(S, w.unit, w.to))
    /\ w.to \in Units => units[w.to].parent # Absent
Alone ==
    \A c, e \in Callers : c # e /\ calls[c].at # "idle" /\ calls[e].at # "idle" => ~calls[c].move
Hierarchy ==
    /\ \E f : Ranked(f)
    /\ \A c \in Callers : calls[c].at = "checked" => CallHolds(calls[c])
    /\ Alone
Sound == ~overlapped => Hierarchy

LEMMA UnitsInitially ==
    ASSUME Chart!Init
    PROVE  UnitsTyped /\ Sound
<1> USE DEF Chart!Init
<1>1. UnitRows
    BY UnitsAssumption DEF UnitRows
<1>2. UnitCalls /\ \A c \in Callers : calls[c].at = "idle"
    BY DEF UnitCalls, CallRecords, Chart!Idle, Chart!Update
<1>3. PICK f : f = [u \in Units |-> FirstUnits[u].level]
    OBVIOUS
<1>4. Ranked(f)
    <2>1. f \in [Units -> Nat]
        BY <1>3, UnitsAssumption
    <2>2. ASSUME NEW u \in Units, units[u].parent \in Units PROVE f[units[u].parent] < f[u]
        <3>1. /\ FirstUnits[u].level = FirstUnits[FirstUnits[u].parent].level + 1
              /\ FirstUnits[FirstUnits[u].parent].level \in Nat
            BY <2>2, UnitsAssumption
        <3> QED BY <1>3, <2>2, <3>1
    <2> QED BY <2>1, <2>2 DEF Ranked
<1> QED BY <1>1, <1>2, <1>4 DEF UnitsTyped, Sound, Hierarchy, Alone

LEMMA UnitCreated ==
    ASSUME UnitsTyped, NEW u \in Units, NEW p, Chart!Create(u, p)
    PROVE  UnitsTyped' /\ (Sound => Sound')
<1> USE DEF Chart!Create
<1>1. PICK r : r = [parent |-> p, level |-> IF p = Top THEN 0 ELSE units[p].level + 1]
    OBVIOUS
<1>2. /\ units[u].parent = Absent /\ p \in Chart!Stored \cup {Top}
      /\ units' = [units EXCEPT ![u] = r] /\ UNCHANGED <<staffed, calls, overlapped>>
    BY <1>1
<1>3. /\ units \in [Units -> [parent : Units \cup {Top, Absent, Gone}, level : 0..MaxLevel]]
      /\ \A x \in Units : units[x].parent \in Units =>
                              units[units[x].parent].parent \notin {Absent, Gone}
    BY DEF UnitsTyped, UnitRows
<1>4. /\ p \in Units \cup {Top} /\ p # u
      /\ p \in Units => units[p].parent \notin {Absent, Gone}
    BY <1>2, UnitsAssumption DEF Chart!Stored
<1>5. r.level \in 0..MaxLevel
    <2>1. CASE p = Top
        BY <1>1, <2>1, UnitsAssumption
    <2>2. CASE p # Top
        <3>1. units[p].level \in 0..MaxLevel /\ units[p].level < MaxLevel
            BY <1>3, <1>4, <2>2
        <3> QED BY <1>1, <2>2, <3>1, UnitsAssumption
    <2> QED BY <2>1, <2>2
<1>6. r \in [parent : Units \cup {Top, Absent, Gone}, level : 0..MaxLevel] /\ r.parent = p
    BY <1>1, <1>4, <1>5
<1>7. \A x \in Units : units'[x] = IF x = u THEN r ELSE units[x]
    BY <1>2, <1>3
<1>8. \A x \in Units : units[x].parent # u
    BY <1>2, <1>3
<1>9. UnitRows'
    <2>1. units' \in [Units -> [parent : Units \cup {Top, Absent, Gone}, level : 0..MaxLevel]]
        BY <1>2, <1>3, <1>6
    <2>2. \A x \in Units : units'[x].parent \in Units =>
                               units'[units'[x].parent].parent \notin {Absent, Gone}
        BY <1>3, <1>4, <1>6, <1>7, <1>8
    <2> QED BY <2>1, <2>2 DEF UnitRows
<1>10. UnitsTyped'
    BY <1>2, <1>9 DEF UnitsTyped, UnitCalls
<1>11. ASSUME Hierarchy PROVE Hierarchy'
    <2>1. PICK f : Ranked(f)
        BY <1>11 DEF Hierarchy
    <2>2. PICK g : g = [f EXCEPT ![u] = IF p \in Units THEN f[p] + 1 ELSE 0]
        OBVIOUS
    <2>3. Ranked(g)'
        <3>1. f \in [Units -> Nat] /\ g \in [Units -> Nat]
            BY <2>1, <2>2 DEF Ranked
        <3>2. ASSUME NEW x \in Units, units'[x].parent \in Units
              PROVE  g[units'[x].parent] < g[x]
            <4>1. CASE x = u
                <5>1. units'[x].parent = p /\ p \in Units /\ p # u
                    BY <1>4, <1>6, <1>7, <3>2, <4>1
                <5>2. g[p] = f[p] /\ g[x] = f[p] + 1
                    BY <2>2, <3>1, <4>1, <5>1
                <5> QED BY <3>1, <5>1, <5>2
            <4>2. CASE x # u
                <5>1. units'[x].parent = units[x].parent /\ units[x].parent # u
                    BY <1>7, <1>8, <4>2
                <5> QED BY <2>1, <2>2, <3>1, <3>2, <4>2, <5>1 DEF Ranked
            <4> QED BY <4>1, <4>2
        <3> QED BY <3>1, <3>2 DEF Ranked
    <2>4. ASSUME NEW c \in Callers, calls[c].at = "checked" PROVE CallHolds(calls[c])'
        <3>1. PICK w : w = calls[c]
            OBVIOUS
        <3>2. CallHolds(w)
            BY <1>11, <2>4, <3>1 DEF Hierarchy
        <3>3. /\ w.unit \in Units /\ w.to \in Units \cup {Top}
              /\ w.left \subseteq Units \X (Units \cup {Top}) \X Units
            BY <2>4, <3>1 DEF UnitsTyped, UnitCalls, CallRecords
        <3>4. ASSUME NEW d \in w.left PROVE units'[d[1]].parent \in {d[2], Gone}
            <4>1. d[1] \in Units /\ d[2] \in Units \cup {Top} /\ units[d[1]].parent \in {d[2], Gone}
                BY <3>2, <3>3 DEF CallHolds
            <4>2. d[1] # u
                BY <1>2, <4>1, UnitsAssumption
            <4> QED BY <1>7, <4>1, <4>2
        <3>5. w.to \in Units => w.to # u /\ units'[w.to].parent # Absent
            BY <1>2, <1>7, <3>2 DEF CallHolds
        <3>6. CASE units[w.unit].parent \in {w.to, Gone}
            <4>1. w.unit # u
                BY <1>2, <3>3, <3>6, UnitsAssumption
            <4>2. units'[w.unit].parent \in {w.to, Gone}
                BY <1>7, <3>3, <3>6, <4>1
            <4>3. CallHolds(w)'
                BY <3>4, <3>5, <4>2 DEF CallHolds
            <4> QED BY <1>2, <3>1, <4>3 DEF CallHolds
        <3>7. ASSUME w.move, NEW S, Parts(S, w.unit, w.to) PROVE CallHolds(calls[c])'
            <4>1. PICK T : T = IF p \in S THEN S \cup {u} ELSE S
                OBVIOUS
            <4>2. T \subseteq Units /\ w.unit \in T /\ w.to \notin T
                <5>1. w.to # u
                    BY <3>3, <3>5, UnitsAssumption
                <5> QED BY <3>7, <4>1, <5>1 DEF Parts
            <4>3. ASSUME NEW x \in Units, units'[x].parent \in T PROVE x \in T
                <5>1. CASE x = u
                    BY <1>4, <1>6, <1>7, <4>1, <4>3, <5>1
                <5>2. CASE x # u
                    <6>1. units[x].parent \in S
                        BY <1>7, <1>8, <4>1, <4>3, <5>2
                    <6> QED BY <3>7, <4>1, <6>1 DEF Parts
                <5> QED BY <5>1, <5>2
            <4>4. Parts(T, w.unit, w.to)'
                BY <4>2, <4>3 DEF Parts
            <4>5. CallHolds(w)'
                BY <3>4, <3>5, <3>7, <4>4 DEF CallHolds
            <4> QED BY <1>2, <3>1, <4>5 DEF CallHolds
        <3>8. CASE w.move /\ w.to = Top
            <4>1. CallHolds(w)'
                BY <3>4, <3>5, <3>8 DEF CallHolds
            <4> QED BY <1>2, <3>1, <4>1 DEF CallHolds
        <3> QED BY <3>2, <3>6, <3>7, <3>8 DEF CallHolds
    <2>5. \A c \in Callers : calls'[c].at = "checked" => CallHolds(calls[c])'
        BY <1>2, <2>4
    <2> QED BY <1>2, <1>11, <2>3, <2>5 DEF Hierarchy, Alone
<1> QED BY <1>2, <1>10, <1>11 DEF Sound

LEMMA UnitDeleted ==
    ASSUME UnitsTyped, NEW u \in Units, Chart!Delete(u)
    PROVE  UnitsTyped' /\ (Sound => Sound')
<1> USE DEF Chart!Delete
<1>1. PICK r : r = [parent |-> Gone, level |-> 0]
    OBVIOUS
<1>2. /\ units' = [units EXCEPT ![u] = r] /\ UNCHANGED <<staffed, calls, overlapped>>
      /\ \A x \in Units : units[x].parent # u
    BY <1>1 DEF Chart!Children
<1>3. /\ units \in [Units -> [parent : Units \cup {Top, Absent, Gone}, level : 0..MaxLevel]]
      /\ \A x \in Units : units[x].parent \in Units =>
                              units[units[x].parent].parent \notin {Absent, Gone}
    BY DEF UnitsTyped, UnitRows
<1>4. r \in [parent : Units \cup {Top, Absent, Gone}, level : 0..MaxLevel] /\ r.parent = Gone
    BY <1>1, UnitsAssumption
<1>5. \A x \in Units : units'[x] = IF x = u THEN r ELSE units[x]
    BY <1>2, <1>3
<1>6. Gone \notin Units /\ Gone # Absent
    BY UnitsAssumption
<1>7. UnitRows'
    <2>1. units' \in [Units -> [parent : Units \cup {Top, Absent, Gone}, level : 0..MaxLevel]]
        BY <1>2, <1>3, <1>4
    <2>2. \A x \in Units : units'[x].parent \in Units =>
                               units'[units'[x].parent].parent \notin {Absent, Gone}
        BY <1>2, <1>3, <1>4, <1>5, <1>6
    <2> QED BY <2>1, <2>2 DEF UnitRows
<1>8. UnitsTyped'
    BY <1>2, <1>7 DEF UnitsTyped, UnitCalls
<1>9. ASSUME Hierarchy PROVE Hierarchy'
    <2>1. PICK f : Ranked(f)
        BY <1>9 DEF Hierarchy
    <2>2. Ranked(f)'
        BY <1>4, <1>5, <1>6, <2>1 DEF Ranked
    <2>3. ASSUME NEW c \in Callers, calls[c].at = "checked" PROVE CallHolds(calls[c])'
        <3>1. PICK w : w = calls[c]
            OBVIOUS
        <3>2. CallHolds(w)
            BY <1>9, <2>3, <3>1 DEF Hierarchy
        <3>3. /\ w.unit \in Units /\ w.to \in Units \cup {Top}
              /\ w.left \subseteq Units \X (Units \cup {Top}) \X Units
            BY <2>3, <3>1 DEF UnitsTyped, UnitCalls, CallRecords
        <3>4. \A x \in Units : units'[x].parent = IF x = u THEN Gone ELSE units[x].parent
            BY <1>4, <1>5
        <3>5. \A d \in w.left : units'[d[1]].parent \in {d[2], Gone}
            BY <3>2, <3>3, <3>4 DEF CallHolds
        <3>6. w.to \in Units => units'[w.to].parent # Absent
            BY <1>6, <3>2, <3>4 DEF CallHolds
        <3>7. ASSUME NEW S, Parts(S, w.unit, w.to) PROVE Parts(S, w.unit, w.to)'
            BY <1>6, <3>4, <3>7 DEF Parts
        <3>8. \/ units'[w.unit].parent \in {w.to, Gone}
              \/ w.move /\ (w.to = Top \/ \E S : Parts(S, w.unit, w.to)')
            <4>1. CASE units[w.unit].parent \in {w.to, Gone}
                BY <3>3, <3>4, <4>1
            <4> QED BY <3>2, <3>7, <4>1 DEF CallHolds
        <3>9. CallHolds(w)'
            BY <3>5, <3>6, <3>8 DEF CallHolds
        <3> QED BY <1>2, <3>1, <3>9 DEF CallHolds
    <2>4. \A c \in Callers : calls'[c].at = "checked" => CallHolds(calls[c])'
        BY <1>2, <2>3
    <2> QED BY <1>2, <1>9, <2>2, <2>4 DEF Hierarchy, Alone
<1> QED BY <1>2, <1>8, <1>9 DEF Sound

(* A unit is stored with a parent.                                            *)
LEMMA UnitStored ==
    ASSUME UnitRows, NEW u, NEW p, Chart!Updated(u, p)
    PROVE  /\ UnitRows' /\ u \in Units /\ p \in Units \cup {Top}
           /\ units[u].parent \notin {Absent, Gone}
           /\ p = Top \/ units[u].parent = p => UNCHANGED units
           /\ \A f : Ranked(f) /\ (p = Top \/ \E S : Parts(S, u, p)) => \E g : Ranked(g)'
<1>1. /\ u \in Units /\ units[u].parent \notin {Absent, Gone}
      /\ p \in Units \cup {Top}
      /\ p \in Units => units[p].parent \notin {Absent, Gone}
      /\ units' = IF p = Top THEN units ELSE [units EXCEPT ![u].parent = p]
    BY UnitsAssumption DEF Chart!Updated, Chart!Stored
<1>2. /\ units \in [Units -> [parent : Units \cup {Top, Absent, Gone}, level : 0..MaxLevel]]
      /\ \A x \in Units : units[x].parent \in Units =>
                              units[units[x].parent].parent \notin {Absent, Gone}
    BY DEF UnitRows
<1>3. units' \in [Units -> [parent : Units \cup {Top, Absent, Gone}, level : 0..MaxLevel]]
    BY <1>1, <1>2
<1>4. p # Top => \A x \in Units : units'[x].parent = IF x = u THEN p ELSE units[x].parent
    BY <1>1, <1>2
<1>5. p \notin {Absent, Gone}
    BY <1>1, UnitsAssumption
<1>6. UnitRows'
    <2>1. \A x \in Units : units'[x].parent \in Units =>
                               units'[units'[x].parent].parent \notin {Absent, Gone}
        BY <1>1, <1>2, <1>4, <1>5
    <2> QED BY <1>3, <2>1 DEF UnitRows
<1>7. ASSUME p = Top \/ units[u].parent = p PROVE UNCHANGED units
    BY <1>1, <1>2, <1>7
<1>8. ASSUME p # Top, NEW f, Ranked(f), NEW S, Parts(S, u, p) PROVE \E g : Ranked(g)'
    <2>1. PICK k \in Nat : p \in Units => k = f[p] + 1
        <3>1. p \in Units => f[p] + 1 \in Nat
            BY <1>8 DEF Ranked
        <3> QED BY <3>1
    <2>2. PICK g : g = [x \in Units |-> IF x \in S THEN f[x] + k ELSE f[x]]
        OBVIOUS
    <2>3. f \in [Units -> Nat] /\ g \in [Units -> Nat]
        BY <1>8, <2>2 DEF Ranked
    <2>4. u \in S /\ p \notin S /\ \A x \in Units : units[x].parent \in S => x \in S
        BY <1>8 DEF Parts
    <2>5. ASSUME NEW x \in Units, units'[x].parent \in Units
          PROVE  g[units'[x].parent] < g[x]
        <3>1. CASE x = u
            <4>1. units'[x].parent = p /\ p \in Units
                BY <1>4, <1>8, <2>5, <3>1
            <4>2. g[p] = f[p] /\ g[x] = f[x] + k /\ k = f[p] + 1
                BY <2>1, <2>2, <2>4, <3>1, <4>1
            <4>3. f[p] \in Nat /\ f[x] \in Nat
                BY <2>3, <4>1
            <4> QED BY <4>1, <4>2, <4>3
        <3>2. CASE x # u
            <4>1. PICK y \in Units : y = units[x].parent /\ y = units'[x].parent
                BY <1>4, <1>8, <2>5, <3>2
            <4>2. f[y] < f[x] /\ f[y] \in Nat /\ f[x] \in Nat
                BY <1>8, <2>3, <4>1 DEF Ranked
            <4>3. y \in S => x \in S
                BY <2>4, <4>1
            <4>4. /\ g[y] = IF y \in S THEN f[y] + k ELSE f[y]
                  /\ g[x] = IF x \in S THEN f[x] + k ELSE f[x]
                BY <2>2
            <4>5. g[y] < g[x]
                BY <4>2, <4>3, <4>4
            <4> QED BY <4>1, <4>5
        <3> QED BY <3>1, <3>2
    <2>6. Ranked(g)'
        BY <2>3, <2>5 DEF Ranked
    <2> QED BY <2>6
<1>9. ASSUME p = Top, NEW f, Ranked(f) PROVE Ranked(f)'
    BY <1>7, <1>9 DEF Ranked
<1> QED BY <1>1, <1>6, <1>7, <1>8, <1>9

(* An update begins, goes on, and is over.                                    *)
LEMMA UpdateBegun ==
    ASSUME UnitsTyped, NEW c \in Callers, NEW w \in CallRecords, Chart!Begins(c, w),
           w.at # "idle", w.unit \in Units, w.to \in Units \cup {Top},
           w.list = Absent, w.left = {}, w.at = "read" => w.move,
           w.at = "checked" => CallHolds(w)
    PROVE  UnitsTyped' /\ (Sound => Sound')
<1>1. /\ calls' = [calls EXCEPT ![c] = w] /\ UNCHANGED <<units, staffed>>
      /\ overlapped' = (overlapped \/ \E e \in Callers : /\ calls[e].at # "idle"
                                                         /\ w.move \/ calls[e].move)
    BY DEF Chart!Begins
<1>2. \A e \in Callers : calls'[e] = IF e = c THEN w ELSE calls[e]
    BY <1>1 DEF UnitsTyped, UnitCalls
<1>3. UnitsTyped'
    <2>1. UnitCalls'
        BY <1>1 DEF UnitsTyped, UnitCalls
    <2> QED BY <1>1, <2>1 DEF UnitsTyped, UnitRows
<1>4. ASSUME Sound, ~overlapped' PROVE Hierarchy'
    <2>1. Hierarchy /\ \A e \in Callers : calls[e].at # "idle" => ~w.move /\ ~calls[e].move
        BY <1>1, <1>4 DEF Sound
    <2>2. \E f : Ranked(f)'
        BY <1>1, <2>1 DEF Hierarchy, Ranked
    <2>3. ASSUME NEW e \in Callers, calls'[e].at = "checked" PROVE CallHolds(calls[e])'
        <3>1. CallHolds(calls'[e])
            BY <1>2, <2>1, <2>3 DEF Hierarchy
        <3> QED BY <1>1, <3>1 DEF CallHolds, Parts
    <2>4. Alone'
        BY <1>2, <2>1 DEF Alone
    <2> QED BY <2>2, <2>3, <2>4 DEF Hierarchy
<1> QED BY <1>3, <1>4 DEF Sound

LEMMA UpdateGoesOn ==
    ASSUME UnitsTyped, NEW c \in Callers, NEW w \in CallRecords,
           calls' = [calls EXCEPT ![c] = w], UNCHANGED <<units, staffed, overlapped>>,
           calls[c].at # "idle", w.at = "checked", w.unit = calls[c].unit, w.to = calls[c].to,
           w.move = calls[c].move, Hierarchy => CallHolds(w)
    PROVE  UnitsTyped' /\ (Sound => Sound')
<1>1. \A e \in Callers : calls'[e] = IF e = c THEN w ELSE calls[e]
    BY DEF UnitsTyped, UnitCalls
<1>2. UnitsTyped'
    <2>1. UnitCalls'
        BY DEF UnitsTyped, UnitCalls
    <2> QED BY <2>1 DEF UnitsTyped, UnitRows
<1>3. ASSUME Hierarchy PROVE Hierarchy'
    <2>1. \E f : Ranked(f)'
        BY <1>3 DEF Hierarchy, Ranked
    <2>2. ASSUME NEW e \in Callers, calls'[e].at = "checked" PROVE CallHolds(calls[e])'
        <3>1. CallHolds(calls'[e])
            BY <1>1, <1>3, <2>2 DEF Hierarchy
        <3> QED BY <3>1 DEF CallHolds, Parts
    <2>3. Alone'
        BY <1>1, <1>3 DEF Hierarchy, Alone
    <2> QED BY <2>1, <2>2, <2>3 DEF Hierarchy
<1> QED BY <1>2, <1>3 DEF Sound

LEMMA UpdateFailed ==
    ASSUME UnitsTyped, NEW c \in Callers, Chart!UpdateFails(c)
    PROVE  UnitsTyped' /\ (Sound => Sound')
<1>1. calls' = [calls EXCEPT ![c] = Chart!Idle] /\ UNCHANGED <<units, staffed, overlapped>>
    BY DEF Chart!UpdateFails
<1>2. /\ Chart!Idle \in CallRecords /\ Chart!Idle.at = "idle"
      /\ Chart!Idle.list = Absent /\ Chart!Idle.left = {}
    BY DEF Chart!Idle, Chart!Update, CallRecords
<1>3. \A e \in Callers : calls'[e] = IF e = c THEN Chart!Idle ELSE calls[e]
    BY <1>1 DEF UnitsTyped, UnitCalls
<1>4. UnitsTyped'
    <2>1. UnitCalls'
        BY <1>1, <1>2 DEF UnitsTyped, UnitCalls
    <2> QED BY <1>1, <2>1 DEF UnitsTyped, UnitRows
<1>5. ASSUME Hierarchy PROVE Hierarchy'
    <2>1. \E f : Ranked(f)'
        BY <1>1, <1>5 DEF Hierarchy, Ranked
    <2>2. ASSUME NEW e \in Callers, calls'[e].at = "checked" PROVE CallHolds(calls[e])'
        <3>1. CallHolds(calls'[e])
            BY <1>2, <1>3, <1>5, <2>2 DEF Hierarchy
        <3> QED BY <1>1, <3>1 DEF CallHolds, Parts
    <2>3. Alone'
        BY <1>2, <1>3, <1>5 DEF Hierarchy, Alone
    <2> QED BY <2>1, <2>2, <2>3 DEF Hierarchy
<1> QED BY <1>1, <1>4, <1>5 DEF Sound

LEMMA ReparentRead ==
    ASSUME UnitsTyped, NEW c \in Callers, NEW u, NEW p, Chart!ReparentReads(c, u, p)
    PROVE  UnitsTyped' /\ (Sound => Sound')
<1>1. PICK w : w = Chart!Update("read", u, p, TRUE)
    OBVIOUS
<1>2. u \in Units /\ p \in Units \cup {Top} /\ Chart!Begins(c, w)
    BY <1>1 DEF Chart!ReparentReads, Chart!Stored
<1>3. /\ w \in CallRecords
      /\ w.at = "read" /\ w.unit = u /\ w.to = p /\ w.move /\ w.list = Absent /\ w.left = {}
    BY <1>1, <1>2 DEF Chart!Update, CallRecords
<1> QED BY <1>2, <1>3, UpdateBegun

LEMMA RenameRead ==
    ASSUME UnitsTyped, NEW c \in Callers, NEW u, Chart!RenameReads(c, u)
    PROVE  UnitsTyped' /\ (Sound => Sound')
<1>1. PICK w : w = Chart!Update("checked", u, units[u].parent, FALSE)
    OBVIOUS
<1>2. u \in Chart!Stored /\ Chart!Begins(c, w)
    BY <1>1 DEF Chart!RenameReads
<1>3. /\ u \in Units /\ units[u].parent \in Units \cup {Top}
      /\ units[u].parent \in Units => units[units[u].parent].parent # Absent
    BY <1>2 DEF Chart!Stored, UnitsTyped, UnitRows
<1>4. /\ w \in CallRecords
      /\ w.at = "checked" /\ w.unit = u /\ w.to = units[u].parent
      /\ w.list = Absent /\ w.left = {}
    BY <1>1, <1>3 DEF Chart!Update, CallRecords
<1>5. CallHolds(w)
    BY <1>3, <1>4 DEF CallHolds
<1> QED BY <1>2, <1>3, <1>4, <1>5, UpdateBegun

(* A re-parent is let through.                                                *)
LEMMA ReparentChecked ==
    ASSUME UnitsTyped, NEW c \in Callers, Chart!ReparentChecks(c)
    PROVE  UnitsTyped' /\ (Sound => Sound')
<1>1. PICK w : w = [calls[c] EXCEPT !.at = "checked", !.list = calls[c].unit]
    OBVIOUS
<1>2. /\ calls' = [calls EXCEPT ![c] = w] /\ UNCHANGED <<units, staffed, overlapped>>
      /\ calls[c].at = "read"
    BY <1>1 DEF Chart!ReparentChecks, UnitsTyped, UnitCalls
<1>3. /\ calls[c] \in CallRecords /\ calls[c].unit \in Units /\ calls[c].to \in Units \cup {Top}
    BY <1>2 DEF UnitsTyped, UnitCalls
<1>4. /\ w \in CallRecords /\ w.at = "checked" /\ w.unit = calls[c].unit /\ w.to = calls[c].to
      /\ w.move = calls[c].move /\ w.left = calls[c].left
    BY <1>1, <1>3 DEF CallRecords
<1>5. calls[c].left = {} /\ calls[c].move
    BY <1>2 DEF UnitsTyped, UnitCalls
<1>6. w.to = Top \/ \E S : Parts(S, w.unit, w.to)
    <2>1. CASE w.to # Top
        <3>1. PICK u : u = calls[c].unit
            OBVIOUS
        <3>2. w.to \in Chart!Stored /\ Chart!MayMoveUnder(u, w.to)
            BY <1>4, <2>1, <3>1 DEF Chart!ReparentChecks
        <3>3. PICK S : S = Chart!Descendants(u) \cup {u}
            OBVIOUS
        <3>4. S \subseteq Units /\ u \in S /\ w.to \notin S
            BY <1>3, <3>1, <3>2, <3>3, DescendantsBelow DEF Chart!MayMoveUnder
        <3>5. ASSUME NEW x \in Units, units[x].parent \in S PROVE x \in S
            <4>1. x \in Chart!Children(units[x].parent)
                BY DEF Chart!Children
            <4> QED BY <1>3, <3>1, <3>3, <3>5, <4>1, DescendantsClosed
        <3> QED BY <1>4, <3>1, <3>4, <3>5 DEF Parts
    <2> QED BY <2>1
<1>7. w.to \in Units => units[w.to].parent # Absent
    BY <1>4, UnitsAssumption DEF Chart!ReparentChecks, Chart!Stored
<1>8. CallHolds(w)
    BY <1>4, <1>5, <1>6, <1>7 DEF CallHolds
<1> QED BY <1>2, <1>4, <1>8, UpdateGoesOn

(* The cascade lists what lies below a unit.                                  *)
LEMMA CascadeRead ==
    ASSUME UnitsTyped, NEW c \in Callers, Chart!CascadeReads(c)
    PROVE  UnitsTyped' /\ (Sound => Sound')
<1>1. PICK x : x = calls[c].list
    OBVIOUS
<1>2. PICK new : new = {<<d, units[d].parent, x>> : d \in Chart!Descendants(x)}
    OBVIOUS
<1>3. PICK w : w = [calls[c] EXCEPT !.list = Absent, !.left = calls[c].left \cup new]
    OBVIOUS
<1>4. /\ calls' = [calls EXCEPT ![c] = w] /\ UNCHANGED <<units, staffed, overlapped>>
      /\ x # Absent
    <2>1. /\ calls' = [calls EXCEPT ![c].list = Absent, ![c].left = @ \cup new]
          /\ UNCHANGED <<units, staffed, overlapped>> /\ x # Absent
        BY <1>1, <1>2 DEF Chart!CascadeReads
    <2>2. calls \in [Callers -> CallRecords]
        BY DEF UnitsTyped, UnitCalls
    <2> QED BY <1>3, <2>1, <2>2
<1>5. calls[c] \in CallRecords /\ x \in Units
    BY <1>1, <1>4 DEF UnitsTyped, UnitCalls, CallRecords
<1>6. calls[c].at = "checked"
    BY <1>1, <1>4 DEF UnitsTyped, UnitCalls
<1>7. new \subseteq Units \X (Units \cup {Top}) \X Units
    BY <1>2, <1>5, DescendantsBelow
<1>8. /\ w \in CallRecords /\ w.at = "checked" /\ w.unit = calls[c].unit /\ w.to = calls[c].to
      /\ w.move = calls[c].move /\ w.left = calls[c].left \cup new
    BY <1>3, <1>5, <1>6, <1>7 DEF CallRecords
<1>9. ASSUME Hierarchy PROVE CallHolds(w)
    <2>1. CallHolds(calls[c])
        BY <1>6, <1>9 DEF Hierarchy
    <2>2. \A d \in new : units[d[1]].parent = d[2]
        BY <1>2
    <2> QED BY <1>8, <2>1, <2>2 DEF CallHolds
<1> QED BY <1>4, <1>6, <1>8, <1>9, UpdateGoesOn

(* The cascade stores what is stored already, unless another re-parent runs.  *)
LEMMA CascadeWritten ==
    ASSUME UnitsTyped, NEW c \in Callers, NEW d, Chart!CascadeWrites(c, d)
    PROVE  UnitsTyped' /\ (Sound => Sound')
<1>1. /\ d \in calls[c].left /\ Chart!Updated(d[1], d[2]) /\ UNCHANGED <<staffed, overlapped>>
    BY DEF Chart!CascadeWrites
<1>2. PICK w : w = [calls[c] EXCEPT !.list = d[1], !.left = calls[c].left \ {d}]
    OBVIOUS
<1>3. calls' = [calls EXCEPT ![c] = w]
    BY <1>2 DEF Chart!CascadeWrites, UnitsTyped, UnitCalls
<1>4. /\ UnitRows' /\ d[1] \in Units /\ units[d[1]].parent \notin {Absent, Gone}
      /\ units[d[1]].parent = d[2] => UNCHANGED units
    BY <1>1, UnitStored DEF UnitsTyped
<1>5. calls[c] \in CallRecords /\ calls[c].at = "checked"
    BY <1>1 DEF UnitsTyped, UnitCalls
<1>6. /\ w \in CallRecords /\ w.at = "checked" /\ w.unit = calls[c].unit /\ w.to = calls[c].to
      /\ w.move = calls[c].move /\ w.left \subseteq calls[c].left
    BY <1>1, <1>2, <1>4, <1>5 DEF CallRecords
<1>7. UnitsTyped'
    <2>1. UnitCalls'
        BY <1>3, <1>5, <1>6 DEF UnitsTyped, UnitCalls
    <2> QED BY <1>1, <1>4, <2>1 DEF UnitsTyped
<1>8. ASSUME Hierarchy PROVE Hierarchy'
    <2>1. CallHolds(calls[c])
        BY <1>5, <1>8 DEF Hierarchy
    <2>2. units' = units
        BY <1>1, <1>4, <2>1 DEF CallHolds
    <2>3. \E f : Ranked(f)'
        BY <1>8, <2>2 DEF Hierarchy, Ranked
    <2>4. CallHolds(w)
        BY <1>6, <2>1 DEF CallHolds
    <2>5. \A e \in Callers : calls'[e] = IF e = c THEN w ELSE calls[e]
        BY <1>3 DEF UnitsTyped, UnitCalls
    <2>6. ASSUME NEW e \in Callers, calls'[e].at = "checked" PROVE CallHolds(calls[e])'
        <3>1. CallHolds(calls'[e])
            BY <1>8, <2>4, <2>5, <2>6 DEF Hierarchy
        <3> QED BY <2>2, <3>1 DEF CallHolds, Parts
    <2>7. Alone'
        BY <1>5, <1>6, <1>8, <2>5 DEF Hierarchy, Alone
    <2> QED BY <2>3, <2>6, <2>7 DEF Hierarchy
<1> QED BY <1>1, <1>7, <1>8 DEF Sound

(* A re-parent that runs alone moves what cannot be above the new parent; a   *)
(* change of name stores the parent that is there.                            *)
LEMMA UnitWritten ==
    ASSUME UnitsTyped, NEW c \in Callers, Chart!UnitWrites(c)
    PROVE  UnitsTyped' /\ (Sound => Sound')
<1>1. /\ calls[c].at = "checked" /\ Chart!Updated(calls[c].unit, calls[c].to)
      /\ calls' = [calls EXCEPT ![c] = Chart!Idle] /\ UNCHANGED <<staffed, overlapped>>
    BY DEF Chart!UnitWrites
<1>2. PICK u : u = calls[c].unit
    OBVIOUS
<1>3. PICK p : p = calls[c].to
    OBVIOUS
<1>4. Chart!Updated(u, p)
    BY <1>1, <1>2, <1>3
<1>5. /\ UnitRows' /\ units[u].parent \notin {Absent, Gone}
      /\ p = Top \/ units[u].parent = p => UNCHANGED units
      /\ \A f : Ranked(f) /\ (p = Top \/ \E S : Parts(S, u, p)) => \E g : Ranked(g)'
    BY <1>4, UnitStored DEF UnitsTyped
<1>6. /\ Chart!Idle \in CallRecords /\ Chart!Idle.at = "idle"
      /\ Chart!Idle.list = Absent /\ Chart!Idle.left = {}
    BY DEF Chart!Idle, Chart!Update, CallRecords
<1>7. UnitsTyped'
    <2>1. UnitCalls'
        BY <1>1, <1>6 DEF UnitsTyped, UnitCalls
    <2> QED BY <1>1, <1>5, <2>1 DEF UnitsTyped
<1>8. ASSUME Hierarchy PROVE Hierarchy'
    <2>1. CallHolds(calls[c])
        BY <1>1, <1>8 DEF Hierarchy
    <2>2. \A e \in Callers : calls'[e] = IF e = c THEN Chart!Idle ELSE calls[e]
        BY <1>1 DEF UnitsTyped, UnitCalls
    <2>3. PICK f : Ranked(f)
        BY <1>8 DEF Hierarchy
    <2>4. Alone'
        BY <1>6, <1>8, <2>2 DEF Hierarchy, Alone
    <2>5. CASE units[u].parent = p
        <3>1. UNCHANGED units
            BY <1>5, <2>5
        <3>2. Ranked(f)'
            BY <2>3, <3>1 DEF Ranked
        <3>3. ASSUME NEW e \in Callers, calls'[e].at = "checked" PROVE CallHolds(calls[e])'
            <4>1. CallHolds(calls'[e])
                BY <1>6, <1>8, <2>2, <3>3 DEF Hierarchy
            <4> QED BY <3>1, <4>1 DEF CallHolds, Parts
        <3> QED BY <2>4, <3>2, <3>3 DEF Hierarchy
    <2>6. CASE calls[c].move /\ (p = Top \/ \E S : Parts(S, u, p))
        <3>1. \E g : Ranked(g)'
            BY <1>5, <2>3, <2>6
        <3>2. \A e \in Callers : calls'[e].at = "idle"
            BY <1>1, <1>6, <1>8, <2>2, <2>6 DEF Hierarchy, Alone
        <3> QED BY <2>4, <3>1, <3>2 DEF Hierarchy
    <2> QED BY <1>2, <1>3, <1>5, <2>1, <2>5, <2>6 DEF CallHolds
<1> QED BY <1>1, <1>7, <1>8 DEF Sound

LEMMA MembersChanged ==
    ASSUME UnitsTyped, NEW u \in Units, Chart!AddMember(u) \/ Chart!RemoveMember(u)
    PROVE  UnitsTyped' /\ (Sound => Sound')
<1>1. staffed' \subseteq Units /\ UNCHANGED <<units, calls, overlapped>>
    BY DEF UnitsTyped, Chart!AddMember, Chart!RemoveMember, Chart!Stored
<1> QED BY <1>1 DEF UnitsTyped, UnitRows, UnitCalls, Sound, Hierarchy, Ranked, CallHolds, Parts, Alone

LEMMA UnitsPreserved ==
    ASSUME UnitsTyped, Chart!Next
    PROVE  UnitsTyped' /\ (Sound => Sound')
<1>1. ASSUME NEW u \in Units, Chart!Delete(u) \/ Chart!AddMember(u) \/ Chart!RemoveMember(u)
      PROVE  UnitsTyped' /\ (Sound => Sound')
    BY <1>1, UnitDeleted, MembersChanged
<1>2. ASSUME NEW u \in Units, NEW p, Chart!Create(u, p)
      PROVE  UnitsTyped' /\ (Sound => Sound')
    BY <1>2, UnitCreated
<1>3. ASSUME NEW u \in Units, NEW c \in Callers,
             \/ Chart!RenameReads(c, u)
             \/ \E p \in Units \cup {Top} : Chart!ReparentReads(c, u, p)
      PROVE  UnitsTyped' /\ (Sound => Sound')
    BY <1>3, RenameRead, ReparentRead
<1>4. ASSUME NEW c \in Callers, Chart!ReparentChecks(c) \/ Chart!CascadeReads(c)
      PROVE  UnitsTyped' /\ (Sound => Sound')
    BY <1>4, ReparentChecked, CascadeRead
<1>5. ASSUME NEW c \in Callers,
             \/ Chart!UnitWrites(c) \/ Chart!UpdateFails(c)
             \/ \E d \in calls[c].left : Chart!CascadeWrites(c, d)
      PROVE  UnitsTyped' /\ (Sound => Sound')
    BY <1>5, UnitWritten, UpdateFailed, CascadeWritten
<1> QED BY <1>1, <1>2, <1>3, <1>4, <1>5 DEF Chart!Next

-----------------------------------------------------------------------------
(* The chart over the server's units.                                         *)

PageTyped ==
    /\ tree \in Chart!Parents
    /\ selected \in Units \cup {None} /\ form \in Units \cup {"closed", "create"}
    /\ deleting \in BOOLEAN /\ moving \in (Units \X Units) \cup {Chart!NoMove}
AsksTyped == \A a \in asks : a.op \in Chart!Ops /\ a.unit \in Units \cup {None}
ChartInv == UnitsTyped /\ Sound /\ PageTyped /\ AsksTyped

LEMMA ChartTyped ==
    ASSUME ChartInv
    PROVE  Chart!ChartTypeOK
<1>1. Chart!UnitsTypeOK
    BY DEF ChartInv, UnitsTyped, UnitRows, UnitCalls, CallRecords, Chart!UnitsTypeOK, Chart!Rows
<1> QED BY <1>1 DEF ChartInv, PageTyped, AsksTyped, Chart!ChartTypeOK

LEMMA ChartInitially ==
    ASSUME Chart!ChartInit
    PROVE  ChartInv
<1>1. UnitsTyped /\ Sound
    BY UnitsInitially DEF Chart!ChartInit
<1>2. PageTyped
    BY UnitsAssumption DEF Chart!ChartInit, PageTyped, Chart!Parents
<1>3. AsksTyped
    BY DEF Chart!ChartInit, AsksTyped
<1> QED BY <1>1, <1>2, <1>3 DEF ChartInv

LEMMA UnitsKept ==
    ASSUME UnitsTyped, Sound, UNCHANGED Chart!unitVars
    PROVE  UnitsTyped' /\ Sound'
<1>1. UNCHANGED <<units, staffed, calls, overlapped>>
    BY DEF Chart!unitVars
<1>2. UnitsTyped'
    BY <1>1 DEF UnitsTyped, UnitRows, UnitCalls
<1>3. ASSUME Hierarchy PROVE Hierarchy'
    BY <1>1, <1>3 DEF Hierarchy, Ranked, CallHolds, Parts, Alone
<1> QED BY <1>1, <1>2, <1>3 DEF Sound

(* What is done to the dialogs and the sheet.                                 *)
LEMMA ChartBrowsed ==
    ASSUME PageTyped, NEW u \in Units,
           \/ Chart!SelectUnit(u) \/ Chart!FollowBreadcrumb(u) \/ Chart!EditUnit(u)
           \/ Chart!AskDelete(u) \/ (\E p \in Units : Chart!Connect(u, p))
    PROVE  PageTyped' /\ UNCHANGED <<Chart!unitVars, asks>>
<1> USE DEF PageTyped, Chart!pageVars
<1>1. CASE Chart!SelectUnit(u)
    BY <1>1 DEF Chart!SelectUnit
<1>2. CASE Chart!FollowBreadcrumb(u)
    BY <1>2 DEF Chart!FollowBreadcrumb
<1>3. CASE Chart!EditUnit(u)
    BY <1>3 DEF Chart!EditUnit
<1>4. CASE Chart!AskDelete(u)
    BY <1>4 DEF Chart!AskDelete
<1>5. ASSUME NEW p \in Units, Chart!Connect(u, p)
      PROVE  PageTyped' /\ UNCHANGED <<Chart!unitVars, asks>>
    BY <1>5 DEF Chart!Connect
<1> QED BY <1>1, <1>2, <1>3, <1>4, <1>5

LEMMA ChartAsked ==
    ASSUME AsksTyped, NEW op \in Chart!Ops, NEW u \in Units \cup {None}, NEW x, Chart!Ask(op, u, x)
    PROVE  AsksTyped'
<1>1. PICK q : q = [op |-> op, unit |-> u, to |-> x, at |-> "sent"]
    OBVIOUS
<1>2. asks' = asks \cup {q} /\ q.op = op /\ q.unit = u
    BY <1>1 DEF Chart!Ask
<1> QED BY <1>2 DEF AsksTyped

LEMMA ChartRequested ==
    ASSUME PageTyped, AsksTyped,
           \/ Chart!SubmitForm \/ Chart!ConfirmMove \/ Chart!ConfirmDelete
           \/ \E op \in {"join", "leave"} : Chart!ChangeMember(op)
    PROVE  PageTyped' /\ AsksTyped' /\ UNCHANGED Chart!unitVars
<1> USE DEF Chart!pageVars, Chart!Ops
<1>1. CASE Chart!SubmitForm
    <2>1. PageTyped' /\ UNCHANGED Chart!unitVars
        BY <1>1 DEF Chart!SubmitForm, PageTyped
    <2>2. ASSUME NEW p, Chart!Ask("create", None, p) PROVE AsksTyped'
        BY <2>2, ChartAsked
    <2>3. CASE form \in Units /\ Chart!Ask("edit", form, None)
        <3>1. form \in Units \cup {None} /\ "edit" \in Chart!Ops
            BY <2>3
        <3> QED BY <2>1, <2>3, <3>1, ChartAsked
    <2> QED BY <1>1, <2>1, <2>2, <2>3 DEF Chart!SubmitForm
<1>2. CASE Chart!ConfirmMove
    <2>1. PageTyped' /\ UNCHANGED Chart!unitVars
        BY <1>2 DEF Chart!ConfirmMove, PageTyped
    <2>2. moving[1] \in Units
        BY <1>2 DEF Chart!ConfirmMove, PageTyped
    <2> QED BY <1>2, <2>1, <2>2, ChartAsked DEF Chart!ConfirmMove
<1>3. CASE Chart!ConfirmDelete
    <2>1. PageTyped' /\ UNCHANGED Chart!unitVars
        BY <1>3 DEF Chart!ConfirmDelete, PageTyped
    <2>2. selected \in Units \cup {None}
        BY DEF PageTyped
    <2> QED BY <1>3, <2>1, <2>2, ChartAsked DEF Chart!ConfirmDelete
<1>4. ASSUME NEW op \in {"join", "leave"}, Chart!ChangeMember(op)
      PROVE  PageTyped' /\ AsksTyped' /\ UNCHANGED Chart!unitVars
    <2>1. PageTyped' /\ UNCHANGED Chart!unitVars
        BY <1>4 DEF Chart!ChangeMember, PageTyped
    <2>2. selected \in Units \cup {None}
        BY DEF PageTyped
    <2> QED BY <1>4, <2>1, <2>2, ChartAsked DEF Chart!ChangeMember
<1> QED BY <1>1, <1>2, <1>3, <1>4

(* The server does with a request what it may do on its own.                  *)
LEMMA ChartServed ==
    ASSUME ChartInv, NEW a \in asks, NEW c \in Callers, Chart!ServerAnswers(a, c)
    PROVE  ChartInv'
<1>1. /\ Chart!Granted(a, c) /\ asks' = asks \ {a}
      /\ UNCHANGED <<tree, selected, form, deleting, moving>>
    BY DEF Chart!ServerAnswers, Chart!pageVars
<1>2. UnitsTyped' /\ (Sound => Sound')
    <2> USE DEF ChartInv
    <2>1. CASE \E u \in Units : Chart!Create(u, a.to)
        BY <2>1, UnitCreated
    <2>2. CASE Chart!RenameReads(c, a.unit)
        BY <2>2, RenameRead
    <2>3. CASE Chart!ReparentReads(c, a.unit, a.to)
        BY <2>3, ReparentRead
    <2>4. CASE Chart!Delete(a.unit)
        <3>1. a.unit \in Units
            BY <2>4 DEF Chart!Delete, Chart!Stored
        <3> QED BY <2>4, <3>1, UnitDeleted
    <2>5. CASE Chart!AddMember(a.unit)
        <3>1. a.unit \in Units
            BY <2>5 DEF Chart!AddMember, Chart!Stored
        <3> QED BY <2>5, <3>1, MembersChanged
    <2>6. CASE Chart!RemoveMember(a.unit)
        <3>1. a.unit \in Units
            BY <2>6 DEF Chart!RemoveMember, UnitsTyped
        <3> QED BY <2>6, <3>1, MembersChanged
    <2> QED BY <1>1, <2>1, <2>2, <2>3, <2>4, <2>5, <2>6 DEF Chart!Granted
<1>3. PageTyped' /\ AsksTyped'
    BY <1>1 DEF ChartInv, PageTyped, AsksTyped
<1> QED BY <1>2, <1>3 DEF ChartInv

LEMMA ChartPreserved ==
    ASSUME ChartInv, Chart!ChartNext
    PROVE  ChartInv'
<1>1. ASSUME PageTyped', AsksTyped', UNCHANGED Chart!unitVars PROVE ChartInv'
    BY <1>1, UnitsKept DEF ChartInv
<1>2. ASSUME NEW u \in Units,
             \/ Chart!SelectUnit(u) \/ Chart!FollowBreadcrumb(u) \/ Chart!EditUnit(u)
             \/ Chart!AskDelete(u) \/ (\E p \in Units : Chart!Connect(u, p))
      PROVE  ChartInv'
    <2>1. PageTyped' /\ UNCHANGED <<Chart!unitVars, asks>>
        BY <1>2, ChartBrowsed DEF ChartInv
    <2> QED BY <1>1, <2>1 DEF ChartInv, AsksTyped
<1>3. CASE Chart!CloseSheet \/ Chart!AddSubUnit \/ Chart!CancelDialog
    <2>1. PageTyped' /\ UNCHANGED <<Chart!unitVars, asks>>
        BY <1>3 DEF ChartInv, PageTyped, Chart!CloseSheet, Chart!AddSubUnit, Chart!CancelDialog
    <2> QED BY <1>1, <2>1 DEF ChartInv, AsksTyped
<1>4. CASE \/ Chart!SubmitForm \/ Chart!ConfirmMove \/ Chart!ConfirmDelete
           \/ \E op \in {"join", "leave"} : Chart!ChangeMember(op)
    BY <1>1, <1>4, ChartRequested DEF ChartInv
<1>5. ASSUME NEW a \in asks, Chart!ServerRefuses(a) PROVE ChartInv'
    <2>1. /\ asks' = asks \ {a} /\ UNCHANGED Chart!unitVars
          /\ UNCHANGED <<tree, selected, form, deleting, moving>>
        BY <1>5 DEF Chart!ServerRefuses, Chart!pageVars
    <2>2. PageTyped'
        BY <2>1 DEF ChartInv, PageTyped
    <2>3. AsksTyped'
        BY <2>1 DEF ChartInv, AsksTyped
    <2> QED BY <1>1, <2>1, <2>2, <2>3
<1>6. CASE Chart!ServerStep
    <2>1. Chart!Next /\ UNCHANGED <<tree, selected, form, deleting, moving, asks>>
        BY <1>6 DEF Chart!ServerStep, Chart!chartVars
    <2>2. UnitsTyped' /\ (Sound => Sound')
        BY <2>1, UnitsPreserved DEF ChartInv
    <2> QED BY <2>1, <2>2 DEF ChartInv, PageTyped, AsksTyped
<1> QED BY <1>2, <1>3, <1>4, <1>5, <1>6, ChartServed DEF Chart!ChartNext

(* Whatever lies below a unit has a higher rank.                              *)
LEMMA RankedAcyclic ==
    ASSUME Hierarchy
    PROVE  Chart!Acyclic
<1>1. PICK f : Ranked(f)
    BY DEF Hierarchy
<1>2. f \in [Units -> Nat] /\ \A x \in Units : units[x].parent \in Units => f[units[x].parent] < f[x]
    BY <1>1 DEF Ranked
<1> SUFFICES ASSUME NEW u \in Units, NEW d \in Chart!Descendants(u) \cup {u}, u \in Chart!Children(d)
             PROVE  FALSE
    BY DEF Chart!Acyclic
<1>3. PICK T : T = {x \in Units : f[u] < f[x]}
    OBVIOUS
<1>4. Chart!Children(u) \subseteq T
    BY <1>2, <1>3 DEF Chart!Children
<1>5. ASSUME NEW e \in T PROVE Chart!Children(e) \subseteq T
    <2> SUFFICES ASSUME NEW x \in Units, units[x].parent = e PROVE f[u] < f[x]
        BY <1>3 DEF Chart!Children
    <2>1. f[u] < f[e] /\ f[e] < f[x]
        BY <1>2, <1>3
    <2> QED BY <1>2, <1>3, <2>1
<1>6. Chart!Descendants(u) \subseteq T
    BY <1>4, <1>5, DescendantsLeast
<1>7. u \in T
    BY <1>4, <1>5, <1>6
<1> QED BY <1>2, <1>3, <1>7

-----------------------------------------------------------------------------
(* One visit.  The page that is mounted stays mounted.                        *)

DeskInv ==
    /\ Visiting("tickets", TicketsInv) /\ Visiting("customers", CustomersInv)
    /\ Visiting("groups", GroupsInv) /\ Visiting("contracts", ContractsInv)
    /\ Visiting("activities", ActivitiesInv) /\ Visiting("board", BoardInv)
    /\ Visiting("chart", ChartInv)

LEMMA DeskInitially ==
    ASSUME Init
    PROVE  DeskInv
<1>1. CASE mounted = "tickets"
    BY <1>1, TicketsInitially DEF Init, DeskInv, Visiting
<1>2. CASE mounted = "customers"
    BY <1>2, CustomersInitially DEF Init, DeskInv, Visiting
<1>3. CASE mounted = "groups"
    BY <1>3, GroupsInitially DEF Init, DeskInv, Visiting
<1>4. CASE mounted = "contracts"
    BY <1>4, ContractsInitially DEF Init, DeskInv, Visiting
<1>5. CASE mounted = "activities"
    BY <1>5, ActivitiesInitially DEF Init, DeskInv, Visiting
<1>6. CASE mounted = "board"
    BY <1>6, BoardInitially DEF Init, DeskInv, Visiting
<1>7. CASE mounted = "chart"
    BY <1>7, ChartInitially DEF Init, DeskInv, Visiting
<1> QED BY <1>1, <1>2, <1>3, <1>4, <1>5, <1>6, <1>7 DEF Init

LEMMA DeskUnchanged ==
    ASSUME DeskInv, UNCHANGED vars
    PROVE  DeskInv'
<1> USE DEF vars, ticketOnly, boardOnly, chartOnly, groupOnly, contractOnly, activityOnly, Visiting, DeskInv
<1>1. Visiting("tickets", TicketsInv)'
    BY DEF TicketsInv, TicketUrls, TicketDrafts, TicketSends, TicketRequestOK, TicketBoard,
           TicketOverlays
<1>2. Visiting("customers", CustomersInv)'
    BY DEF CustomersInv, CustomerPage!TypeOK, CustomerPage!FieldsBelong
<1>3. Visiting("groups", GroupsInv)'
    BY DEF GroupsInv, GroupPage!TypeOK, GroupPage!FieldsBelong
<1>4. Visiting("contracts", ContractsInv)'
    BY DEF ContractsInv, ContractPage!TypeOK, ContractPage!LinkedContractStays
<1>5. Visiting("activities", ActivitiesInv)'
    BY DEF ActivitiesInv, ActivityPage!TypeOK
<1>6. Visiting("board", BoardInv)'
    BY DEF BoardInv, BoardTyped, BoardOrderly, BoardMoves, BoardAgreed, BoardDemo!Container
<1>7. Visiting("chart", ChartInv)'
    <2>1. ASSUME ChartInv PROVE ChartInv'
        <3>1. UnitsTyped' /\ Sound'
            BY <2>1, UnitsKept DEF ChartInv, Chart!unitVars
        <3> QED BY <2>1, <3>1 DEF ChartInv, PageTyped, AsksTyped
    <2> QED BY <2>1
<1> QED BY <1>1, <1>2, <1>3, <1>4, <1>5, <1>6, <1>7

LEMMA DeskPreserved ==
    ASSUME DeskInv, Next
    PROVE  DeskInv'
<1> USE DEF DeskInv, Visiting
<1>1. CASE TicketsStep
    BY <1>1, TicketsPreserved DEF TicketsStep, besideTickets
<1>2. CASE CustomersStep
    BY <1>2, CustomersPreserved DEF CustomersStep, besideCustomers
<1>3. CASE GroupsStep
    BY <1>3, GroupsPreserved DEF GroupsStep, besideGroups
<1>4. CASE ContractsStep
    BY <1>4, ContractsPreserved DEF ContractsStep, besideContracts
<1>5. CASE ActivitiesStep
    BY <1>5, ActivitiesPreserved DEF ActivitiesStep, besideActivities
<1>6. CASE BoardStep
    BY <1>6, BoardPreserved DEF BoardStep, besideBoard
<1>7. CASE ChartStep
    BY <1>7, ChartPreserved DEF ChartStep, besideChart
<1> QED BY <1>1, <1>2, <1>3, <1>4, <1>5, <1>6, <1>7 DEF Next

LEMMA DeskAlways == Spec => []DeskInv
<1>1. Init => DeskInv
    BY DeskInitially
<1>2. DeskInv /\ [Next]_vars => DeskInv'
    BY DeskPreserved, DeskUnchanged
<1> QED BY <1>1, <1>2, PTL DEF Spec

(* The state of the visited page has its type.                                *)
THEOREM DeskTyped == Spec => []TypeOK
<1>1. DeskInv => TypeOK
    <2> SUFFICES ASSUME DeskInv PROVE TypeOK
        OBVIOUS
    <2> USE DEF DeskInv, Visiting
    <2>1. Visiting("tickets", TicketPage!TypeOK)
        BY TicketsTyped
    <2>2. Visiting("board", BoardDemo!TypeOK)
        <3>1. ASSUME BoardInv PROVE BoardDemo!TypeOK
            <4>1. {value, origin, committed} \subseteq BoardDemo!Boards
                BY <3>1 DEF BoardInv, BoardOrderly, Orderly
            <4>2. /\ moved.card \in Cards \cup {None}
                  /\ {moved.from, moved.to} \subseteq Columns \cup {None}
                <5>1. CASE moved = BoardDemo!NoMove
                    BY <5>1 DEF BoardDemo!NoMove
                <5>2. CASE moved # BoardDemo!NoMove
                    BY <3>1, <5>2, ContainerIs DEF BoardInv, BoardOrderly, BoardMoves
                <5> QED BY <5>1, <5>2
            <4> QED BY <3>1, <4>1, <4>2 DEF BoardInv, BoardTyped, BoardDemo!TypeOK
        <3> QED BY <3>1
    <2>3. Visiting("chart", Chart!ChartTypeOK)
        BY ChartTyped
    <2>4. Visiting("customers", CustomerPage!TypeOK)
        BY DEF CustomersInv
    <2>5. Visiting("groups", GroupPage!TypeOK)
        BY DEF GroupsInv
    <2>6. Visiting("contracts", ContractPage!TypeOK)
        BY DEF ContractsInv
    <2>7. Visiting("activities", ActivityPage!TypeOK)
        BY DEF ActivitiesInv
    <2> QED BY <2>1, <2>2, <2>3, <2>4, <2>5, <2>6, <2>7 DEF TypeOK
<1> QED BY <1>1, DeskAlways, PTL

(* A comment or a transition note reaches the ticket it was typed for         *)
(* (ticket-detail-sheet.tsx).                                                 *)
THEOREM DraftsAlwaysStay == Spec => []DraftsStayWithTicket
<1>1. DeskInv => DraftsStayWithTicket
    BY DEF DeskInv, Visiting, DraftsStayWithTicket, TicketsInv, TicketSends, TicketRequestOK,
           TicketPage!DraftsStayWithTicket
<1> QED BY <1>1, DeskAlways, PTL

(* An update of a customer or a working group carries the values of the one   *)
(* it updates and of no other opened before (the form dialogs).               *)
THEOREM FieldsAlwaysBelong == Spec => []FieldsBelong
<1>1. DeskInv => FieldsBelong
    BY DEF DeskInv, Visiting, FieldsBelong, CustomersInv, GroupsInv
<1> QED BY <1>1, DeskAlways, PTL

(* Once the query of a page has settled, it is at least as new as every       *)
(* mutation this user was told succeeded, and as what a transition of a       *)
(* ticket was answered from, unless the answer came during the first request  *)
(* of a key and the query was not asked for again.                            *)
THEOREM AcknowledgedAlwaysShown == Spec => []AcknowledgedShown
<1>1. DeskInv => AcknowledgedShown
    <2> SUFFICES ASSUME DeskInv PROVE AcknowledgedShown
        OBVIOUS
    <2> USE SameOperations DEF DeskInv, Visiting, Current
    <2>1. Visiting("tickets", TicketPage!AnsweredMoveShown)
        BY DEF TicketsInv, TicketBoard, TicketPage!AnsweredMoveShown
    <2>2. Visiting("customers", CustomerPage!AcknowledgedShown)
        BY DEF CustomersInv, CustomerPage!AcknowledgedShown
    <2>3. Visiting("groups", GroupPage!AcknowledgedShown)
        BY DEF GroupsInv, GroupPage!AcknowledgedShown
    <2>4. Visiting("activities", ActivityPage!AcknowledgedShown)
        BY DEF ActivitiesInv, ActivityPage!AcknowledgedShown
    <2> QED BY <2>1, <2>2, <2>3, <2>4 DEF AcknowledgedShown
<1> QED BY <1>1, DeskAlways, PTL

(* A contract that work is recorded under is never gone (contract.go).        *)
THEOREM LinkedContractAlwaysStays == Spec => []LinkedContractStays
<1>1. DeskInv => LinkedContractStays
    BY DEF DeskInv, Visiting, LinkedContractStays, ContractsInv
<1> QED BY <1>1, DeskAlways, PTL

(* What the user sees when a drag is over, however it ended and wherever it   *)
(* passed, is what the owner of the board was told is final (kanban.tsx).     *)
THEOREM CommittedAlwaysShown == Spec => []CommittedIsShown
<1>1. DeskInv => CommittedIsShown
    BY DEF DeskInv, Visiting, CommittedIsShown, BoardDemo!CommittedIsShown, BoardInv, BoardAgreed
<1> QED BY <1>1, DeskAlways, PTL

(* Every item is on the board exactly once, also in the middle of a drag.     *)
THEOREM EachCardAlwaysOnce == Spec => []EachCardOnce
<1>1. DeskInv => EachCardOnce
    <2> SUFFICES ASSUME Orderly(value) PROVE BoardDemo!EachCardOnce
        BY DEF DeskInv, Visiting, EachCardOnce, BoardInv, BoardOrderly
    <2>1. \A c \in Columns : value.lane[c] \in Seq(Cards) /\ Distinct(value.lane[c])
        BY DEF Orderly, BoardDemo!Boards
    <2>2. \A c \in Columns : /\ BoardDemo!IsInjective(value.lane[c])
                             /\ BoardDemo!ToSet(value.lane[c]) = In(value.lane[c])
        BY <2>1, Spread
    <2>3. ASSUME NEW x \in Cards
          PROVE  \E c \in Columns :
                     {d \in Columns : x \in BoardDemo!ToSet(value.lane[d])} = {c}
        <3>1. PICK c \in Columns : \A d \in Columns : x \in In(value.lane[d]) <=> d = c
            BY DEF Orderly
        <3>2. {d \in Columns : x \in BoardDemo!ToSet(value.lane[d])} = {c}
            BY <2>2, <3>1
        <3> QED BY <3>2
    <2> QED BY <2>2, <2>3 DEF BoardDemo!EachCardOnce
<1> QED BY <1>1, DeskAlways, PTL

(* No unit ever lies below itself, however the cached tree of the chart lags  *)
(* behind the server's, and whatever is created, deleted or renamed between   *)
(* the statements of an update, until a re-parent runs beside another update: *)
(* two re-parents can pass each other's walk, and a change of name stores the *)
(* parent it has read (unit.go).                                              *)
THEOREM NeverBelowItself == Spec => []Acyclic
<1>1. DeskInv => Acyclic
    BY RankedAcyclic DEF DeskInv, Visiting, Acyclic, ChartInv, Sound, Chart!Acyclic
<1> QED BY <1>1, DeskAlways, PTL
=============================================================================
