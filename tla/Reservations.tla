---------------------------- MODULE Reservations ----------------------------
(***************************************************************************)
(* Table bookings: app/modules/reservations/service.py, with the queries   *)
(* of repository.py.                                                       *)
(*                                                                         *)
(* A request reads with several statements, each of which sees what is     *)
(* committed at that moment, and writes at the end.  No statement that     *)
(* writes repeats a condition that was read, and no constraint of the      *)
(* database speaks of a table and a slot: what keeps guests apart is the   *)
(* check of the slot alone.  A slot stands for a date and a time.          *)
(***************************************************************************)
EXTENDS Integers, FiniteSets

CONSTANTS
  Bookings,      \* reservation ids
  Tables,        \* ids of restaurant tables
  NoTable,       \* table_id IS NULL
  Slots,         \* pairs of a date and a time of the booking window
  MaxGuests,     \* bound on guest_count and on the guest window of a table
  Requests,      \* requests the processes serve at one time
  NewStatuses,   \* the statuses merchants set: a bound of an instance
  Edits          \* the columns of a table merchants edit: a bound

Active == {"pending", "confirmed", "seated"}
Closed == {"completed", "cancelled", "no_show"}
ReservationStatus == Active \cup Closed
Columns == {"status", "min", "max"}

ASSUME NoTableAssumption == NoTable \notin Tables
ASSUME GuestsAssumption == MaxGuests \in Nat \ {0}
ASSUME SlotsAssumption == Slots # {}
ASSUME RequestsAssumption == IsFiniteSet(Requests)
ASSUME NewStatusesAssumption == NewStatuses \subseteq ReservationStatus
ASSUME EditsAssumption == Edits \subseteq Columns

VARIABLES
  table,   \* the rows of "restaurant_tables"
  resv,    \* the rows of "table_reservations", with the statuses of their
           \* "reservation_status_events"
  sess     \* per request: where it is and what it has read

vars == <<table, resv, sess>>

Guests == 1..MaxGuests

\* An id is "absent" before its row exists and "deleted" after: ids do not return.
TableRow ==
  [status : {"absent", "active", "inactive", "deleted"}, min : Guests, max : Guests]
NewTable == [status |-> "active", min |-> 1, max |-> MaxGuests]
AbsentTable == [NewTable EXCEPT !.status = "absent"]

SomeTable == Tables \cup {NoTable}

Booking ==
  [status : ReservationStatus \cup {"none"}, table : SomeTable, slot : Slots,
   party : Guests, events : SUBSET ReservationStatus]

NoBooking ==
  [status |-> "none", table |-> NoTable, slot |-> CHOOSE s \in Slots : TRUE,
   party |-> 1, events |-> {}]

\* "kind" is the handler; "base" and "was" are the status and the table of the
\* reservation as it was loaded, "taken" the answer of the slot query.
Kinds == {"book", "update", "cancel"}
Session ==
  [kind : Kinds, pc : {"look", "check", "pick", "write"}, id : Bookings,
   table : SomeTable, slot : Slots, party : Guests, new : ReservationStatus,
   base : ReservationStatus \cup {"none"}, was : SomeTable, taken : SUBSET Tables]

EditSession == [kind : {"edit"}, target : Tables, from : TableRow, to : TableRow]
DeleteSession == [kind : {"delete"}, target : Tables]

Idle == [kind |-> "idle"]

TypeOK ==
  /\ table \in [Tables -> TableRow]
  /\ resv \in [Bookings -> Booking]
  /\ sess \in [Requests -> Session \cup EditSession \cup DeleteSession \cup {Idle}]

Free(q) == sess[q] = Idle
End(q) == sess' = [sess EXCEPT ![q] = Idle]
At(q, pc) == sess[q].kind \in Kinds /\ sess[q].pc = pc

-----------------------------------------------------------------------------
(* What the queries answer *)

Exists(t) == table[t].status \in {"active", "inactive"}

MatchCapacity(t, party) == table[t].min <= party /\ party <= table[t].max

\* list_reservations_for_slot
InSlot(s) == {b \in Bookings : resv[b].slot = s /\ resv[b].status \in Active}

TakenTables(s, except) == {resv[b].table : b \in InSlot(s) \ {except}} \ {NoTable}

SelectableAnyStatus(t, party) == Exists(t) /\ MatchCapacity(t, party)

Selectable(t, party) == table[t].status = "active" /\ MatchCapacity(t, party)

\* get_availability: the tables it shows as available for a slot.
Shown(s, party) ==
  {t \in Tables : /\ table[t].status = "active"
                  /\ MatchCapacity(t, party)
                  /\ \A b \in InSlot(s) : resv[b].table # t}

\* An id the sequence of the table has not handed out.
Fresh(b) ==
  /\ resv[b].status = "none"
  /\ \A q \in Requests : sess[q].kind = "book" => sess[q].id # b

-----------------------------------------------------------------------------
(* create_reservation *)

Book(q, b, t, s, party) ==
  /\ Free(q)
  /\ Fresh(b)
  /\ sess' = [sess EXCEPT ![q] =
       [kind |-> "book", pc |-> IF t = NoTable THEN "check" ELSE "look", id |-> b,
        table |-> t, slot |-> s, party |-> party, new |-> "pending",
        base |-> "none", was |-> NoTable, taken |-> {}]]
  /\ UNCHANGED <<table, resv>>

\* get_table and the checks of the selected table: active, and large enough.
LookAtTable(q) ==
  /\ At(q, "look")
  /\ IF Selectable(sess[q].table, sess[q].party)
       THEN sess' = [sess EXCEPT ![q].pc = "check"]
       ELSE End(q)
  /\ UNCHANGED <<table, resv>>

UncheckedSlot(q) ==
  /\ At(q, "check")
  /\ sess' = [sess EXCEPT ![q].pc = IF sess[q].table = NoTable THEN "pick" ELSE "write"]
  /\ UNCHANGED <<table, resv>>

\* The slot query; a selected table that is taken by another reservation is
\* refused.
CheckSlot(q) ==
  LET s == sess[q]
      taken == TakenTables(s.slot, s.id)
  IN
  /\ At(q, "check")
  /\ IF s.table = NoTable
       THEN sess' = [sess EXCEPT ![q].pc = "pick", ![q].taken = taken]
     ELSE IF s.table \in taken THEN End(q)
     ELSE sess' = [sess EXCEPT ![q].pc = "write"]
  /\ UNCHANGED <<table, resv>>

\* Without a selected table: the first of list_active_tables (sort_order, id)
\* that fits and was free, or none.
PickTable(q) ==
  LET s == sess[q]
      candidates == {t \in Tables : Selectable(t, s.party)} \ s.taken
  IN
  /\ At(q, "pick")
  /\ \E t \in IF candidates = {} THEN {NoTable} ELSE candidates :
       sess' = [sess EXCEPT ![q].pc = "write", ![q].table = t]
  /\ UNCHANGED <<table, resv>>

\* The foreign key refuses a table that is gone.
Referable(t) == t = NoTable \/ Exists(t)

BookWrite(q) ==
  LET s == sess[q] IN
  /\ At(q, "write")
  /\ s.kind = "book"
  /\ resv' = IF Referable(s.table)
               THEN [resv EXCEPT ![s.id] =
                       [status |-> "pending", table |-> s.table, slot |-> s.slot,
                        party |-> s.party, events |-> {"pending"}]]
               ELSE resv
  /\ End(q)
  /\ UNCHANGED table

-----------------------------------------------------------------------------
(* cancel_my_reservation, update_merchant_reservation_status *)

\* Both load the reservation and refuse a closed one.
Load(q, b, kind, new, t) ==
  /\ Free(q)
  /\ resv[b].status \in Active
  /\ sess' = [sess EXCEPT ![q] =
       [kind |-> kind, pc |-> IF t = NoTable THEN "write" ELSE "look", id |-> b,
        table |-> t, slot |-> resv[b].slot, party |-> resv[b].party, new |-> new,
        base |-> resv[b].status, was |-> resv[b].table, taken |-> {}]]
  /\ UNCHANGED <<table, resv>>

Cancel(q, b) == Load(q, b, "cancel", "cancelled", NoTable)
Update(q, b, new, t) == Load(q, b, "update", new, t)

SilentRow(row, s) ==
  [row EXCEPT !.status = IF s.new = s.base THEN @ ELSE s.new,
              !.table = IF s.table \in {NoTable, s.was} THEN @ ELSE s.table]

\* The columns that differ from what was loaded are written; the event is.
ChangedRow(row, s) ==
  [row EXCEPT !.status = IF s.new = s.base THEN @ ELSE s.new,
              !.table = IF s.table \in {NoTable, s.was} THEN @ ELSE s.table,
              !.events = @ \cup {s.new}]

ChangeWrite(q) ==
  LET s == sess[q] IN
  /\ At(q, "write")
  /\ s.kind \in {"update", "cancel"}
  /\ resv' = IF s.table = s.was \/ Referable(s.table)
               THEN [resv EXCEPT ![s.id] = ChangedRow(@, s)]
               ELSE resv
  /\ End(q)
  /\ UNCHANGED table

-----------------------------------------------------------------------------
(* The merchant's tables *)

\* create_merchant_table (the choice of its code is not modelled).
CreateTable(t) ==
  /\ table[t].status = "absent"
  /\ \E status \in {"active", "inactive"}, min, max \in Guests :
       /\ min <= max
       /\ table' = [table EXCEPT ![t] = [status |-> status, min |-> min, max |-> max]]
  /\ UNCHANGED <<resv, sess>>

\* update_merchant_table checks the guest window against the loaded row and
\* writes the columns that differ from it.
EditTable(q, t, to) ==
  /\ Free(q)
  /\ Exists(t)
  /\ to.status \in {"active", "inactive"}
  /\ to.min <= to.max
  /\ \A col \in Columns \ Edits : to[col] = table[t][col]
  /\ sess' = [sess EXCEPT ![q] =
       [kind |-> "edit", target |-> t, from |-> table[t], to |-> to]]
  /\ UNCHANGED <<table, resv>>

EditWrite(q) ==
  LET s == sess[q] IN
  /\ s.kind = "edit"
  /\ table' = IF Exists(s.target)
                THEN [table EXCEPT ![s.target] =
                        [col \in Columns |-> IF s.to[col] = s.from[col] THEN @[col] ELSE s.to[col]]]
                ELSE table
  /\ End(q)
  /\ UNCHANGED resv

\* delete_merchant_table: refused while the table has active reservations.
DeleteTable(q, t) ==
  /\ Free(q)
  /\ Exists(t)
  /\ \A b \in Bookings : resv[b].status \in Active => resv[b].table # t
  /\ sess' = [sess EXCEPT ![q] = [kind |-> "delete", target |-> t]]
  /\ UNCHANGED <<table, resv>>

\* ON DELETE SET NULL
Cleared(b, t) == IF resv[b].table = t THEN [resv[b] EXCEPT !.table = NoTable] ELSE resv[b]

DeleteWrite(q) ==
  LET t == sess[q].target IN
  /\ sess[q].kind = "delete"
  /\ table' = [table EXCEPT ![t].status = "deleted"]
  /\ resv' = [b \in Bookings |-> Cleared(b, t)]
  /\ End(q)

\* The process dies, or the transaction is aborted.
Abort(q) ==
  /\ ~Free(q)
  /\ End(q)
  /\ UNCHANGED <<table, resv>>

-----------------------------------------------------------------------------
Init ==
  /\ table \in [Tables -> {NewTable, AbsentTable}]
  /\ resv = [b \in Bookings |-> NoBooking]
  /\ sess = [q \in Requests |-> Idle]

Arrive(q) ==
  \/ \E b \in Bookings, t \in SomeTable, s \in Slots, g \in Guests : Book(q, b, t, s, g)
  \/ \E b \in Bookings : Cancel(q, b)
  \/ \E b \in Bookings, new \in NewStatuses, t \in SomeTable : Update(q, b, new, t)
  \/ \E t \in Tables, to \in TableRow : EditTable(q, t, to)
  \/ \E t \in Tables : DeleteTable(q, t)

Continue(q) ==
  \/ LookAtTable(q) \/ CheckSlot(q) \/ PickTable(q)
  \/ BookWrite(q) \/ ChangeWrite(q) \/ EditWrite(q) \/ DeleteWrite(q)

Next ==
  \/ \E q \in Requests : Arrive(q) \/ Continue(q) \/ Abort(q)
  \/ \E t \in Tables : CreateTable(t)

Spec == Init /\ [][Next]_vars

-----------------------------------------------------------------------------
(* What holds *)

Holders(t, s) == {b \in InSlot(s) : resv[b].table = t}

\* However often tables are booked, reassigned, cancelled and revived by stale
\* writes, a table has never more active reservations in one slot than there
\* are requests served at a time: overbooking needs requests that overlap, and
\* does not pile up.
OverbookingBounded ==
  \A t \in Tables, s \in Slots : Cardinality(Holders(t, s)) <= Cardinality(Requests)

\* The status a customer is shown is in the list of events shown with it.
StatusRecorded ==
  \A b \in Bookings : resv[b].status # "none" => resv[b].status \in resv[b].events

\* The availability page and the booking agree: a table is shown as available
\* exactly when a booking of it that meets no other request is accepted.
ShownIsBookable ==
  \A t \in Tables, s \in Slots, g \in Guests, b \in Bookings :
    resv[b].status = "none" =>
      (t \in Shown(s, g) <=> Selectable(t, g) /\ t \notin TakenTables(s, b))

\* reservations/service.py:293 and 528: a table that is booked for a slot is
\* no longer available for it.
NoDoubleBooking ==
  \A t \in Tables, s \in Slots : Cardinality(Holders(t, s)) <= 1
=============================================================================
