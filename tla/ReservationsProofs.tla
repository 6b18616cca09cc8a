------------------------- MODULE ReservationsProofs -------------------------
(***************************************************************************)
(* Proofs about Reservations, for every number of bookings, tables, slots  *)
(* and requests: a table is never overbooked beyond the number of requests *)
(* served at a time, and every status is in the event list.                *)
(***************************************************************************)
EXTENDS ReservationsInvariant, FiniteSetTheorems, TLAPS

USE SlotsAssumption DEF SomeTable, Guests

-----------------------------------------------------------------------------
(* Types *)

LEMMA InitTypes == Init => TypeOK
<1> SUFFICES ASSUME Init PROVE TypeOK
  OBVIOUS
<1>1. NewTable \in TableRow /\ AbsentTable \in TableRow
  BY GuestsAssumption DEF NewTable, AbsentTable, TableRow
<1>2. NoBooking \in Booking
  BY GuestsAssumption DEF NoBooking, Booking
<1> QED
  BY <1>1, <1>2 DEF Init, TypeOK

\* A step keeps the types of the rows and of the sessions.
LEMMA NextTypes == TypeOK /\ [Next]_vars => TypeOK'
<1> USE DEF TypeOK, Session, Idle, Kinds
<1> SUFFICES ASSUME TypeOK, [Next]_vars PROVE TypeOK'
  OBVIOUS
<1>1. ASSUME NEW q \in Requests, NEW b \in Bookings, NEW t \in SomeTable, NEW s \in Slots,
             NEW g \in Guests, Book(q, b, t, s, g)
      PROVE  TypeOK'
  BY <1>1 DEF Book, ReservationStatus, Active, Closed
<1>2. ASSUME NEW q \in Requests, NEW b \in Bookings, Cancel(q, b)
      PROVE  TypeOK'
  BY <1>2 DEF Cancel, Load, ReservationStatus, Active, Closed, Booking
<1>3. ASSUME NEW q \in Requests, NEW b \in Bookings, NEW new \in NewStatuses,
             NEW t \in SomeTable, Update(q, b, new, t)
      PROVE  TypeOK'
  BY <1>3, NewStatusesAssumption DEF Update, Load, ReservationStatus, Active, Closed, Booking
<1>4. ASSUME NEW q \in Requests, NEW t \in Tables, NEW to \in TableRow, EditTable(q, t, to)
      PROVE  TypeOK'
  BY <1>4 DEF EditTable, EditSession
<1>5. ASSUME NEW q \in Requests, NEW t \in Tables, DeleteTable(q, t)
      PROVE  TypeOK'
  BY <1>5 DEF DeleteTable, DeleteSession
<1>6. ASSUME NEW q \in Requests, LookAtTable(q)
      PROVE  TypeOK'
  BY <1>6 DEF LookAtTable, At, End, EditSession, DeleteSession
<1>7. ASSUME NEW q \in Requests, CheckSlot(q)
      PROVE  TypeOK'
  <2>1. TakenTables(sess[q].slot, sess[q].id) \subseteq Tables
    BY DEF TakenTables, InSlot, Booking
  <2> QED
    BY <1>7, <2>1 DEF CheckSlot, At, End, EditSession, DeleteSession
<1>8. ASSUME NEW q \in Requests, PickTable(q)
      PROVE  TypeOK'
  <2>1. sess[q] \in Session
    BY <1>8 DEF PickTable, At, EditSession, DeleteSession
  <2>2. PICK t \in SomeTable :
          sess' = [sess EXCEPT ![q].pc = "write", ![q].table = t]
    BY <1>8 DEF PickTable
  <2>3. [sess[q] EXCEPT !.pc = "write", !.table = t] \in Session
    BY <2>1, <2>2
  <2>4. sess' = [sess EXCEPT ![q] = [sess[q] EXCEPT !.pc = "write", !.table = t]]
    BY <2>2
  <2> QED
    BY <1>8, <2>3, <2>4 DEF PickTable
<1>9. ASSUME NEW q \in Requests, BookWrite(q)
      PROVE  TypeOK'
  <2>1. sess[q] \in Session
    BY <1>9 DEF BookWrite, At, EditSession, DeleteSession
  <2>2. [status |-> "pending", table |-> sess[q].table, slot |-> sess[q].slot,
         party |-> sess[q].party, events |-> {"pending"}] \in Booking
    BY <2>1 DEF Booking, ReservationStatus, Active
  <2> QED
    BY <1>9, <2>1, <2>2 DEF BookWrite, End
<1>10. ASSUME NEW q \in Requests, ChangeWrite(q)
       PROVE  TypeOK'
  <2>1. sess[q] \in Session
    BY <1>10 DEF ChangeWrite, At, EditSession, DeleteSession
  <2>2. ChangedRow(resv[sess[q].id], sess[q]) \in Booking
    <3> DEFINE row == resv[sess[q].id]
    <3>1. row \in Booking
      BY <2>1
    <3>2. /\ sess[q].new \in ReservationStatus
          /\ sess[q].table \in SomeTable
      BY <2>1
    <3> HIDE DEF row
    <3>3. ChangedRow(row, sess[q]) \in Booking
      BY <3>1, <3>2 DEF ChangedRow, Booking
    <3> QED
      BY <3>3 DEF row
  <2> QED
    BY <1>10, <2>1, <2>2 DEF ChangeWrite, End
<1>11. ASSUME NEW q \in Requests, EditWrite(q)
       PROVE  TypeOK'
  <2>1. sess[q] \in EditSession
    BY <1>11 DEF EditWrite, EditSession, DeleteSession
  <2>2. ASSUME NEW old \in TableRow, NEW from \in TableRow, NEW to \in TableRow
        PROVE  [col \in Columns |-> IF to[col] = from[col] THEN old[col] ELSE to[col]] \in TableRow
    BY DEF TableRow, Columns
  <2> QED
    BY <1>11, <2>1, <2>2 DEF EditWrite, End, EditSession
<1>12. ASSUME NEW q \in Requests, DeleteWrite(q)
       PROVE  TypeOK'
  <2>1. sess[q] \in DeleteSession
    BY <1>12 DEF DeleteWrite, EditSession, DeleteSession
  <2>2. \A b \in Bookings : Cleared(b, sess[q].target) \in Booking
    BY DEF Cleared, Booking
  <2>3. \A row \in TableRow : [row EXCEPT !.status = "deleted"] \in TableRow
    BY DEF TableRow
  <2> QED
    BY <1>12, <2>1, <2>2, <2>3 DEF DeleteWrite, End, DeleteSession
<1>13. ASSUME NEW q \in Requests, Abort(q)
       PROVE  TypeOK'
  BY <1>13 DEF Abort, End
<1>14. ASSUME NEW t \in Tables, CreateTable(t)
       PROVE  TypeOK'
  BY <1>14 DEF CreateTable, TableRow
<1>15. CASE UNCHANGED vars
  BY <1>15 DEF vars
<1> QED
  BY <1>1, <1>2, <1>3, <1>4, <1>5, <1>6, <1>7, <1>8, <1>9, <1>10, <1>11, <1>12, <1>13, <1>14,
     <1>15 DEF Next, Arrive, Continue

-----------------------------------------------------------------------------
(* What a request in flight knows *)

\* A step keeps SessionsOK and DistinctIds.
LEMMA NextSessions ==
  TypeOK /\ SessionsOK /\ DistinctIds /\ [Next]_vars => SessionsOK' /\ DistinctIds'
<1> USE DEF SessionsOK, DistinctIds, Idle
<1> SUFFICES ASSUME TypeOK, SessionsOK, DistinctIds, [Next]_vars
             PROVE  SessionsOK' /\ DistinctIds'
  OBVIOUS
<1>0. DOMAIN sess = Requests /\ DOMAIN resv = Bookings
  BY DEF TypeOK
<1>a. /\ \A q \in Requests : sess[q].kind \in Kinds => sess[q] \in Session
      /\ resv \in [Bookings -> Booking]
      /\ sess \in [Requests -> Session \cup EditSession \cup DeleteSession \cup {Idle}]
  BY DEF TypeOK, EditSession, DeleteSession, Kinds
<1>1. ASSUME NEW q \in Requests, NEW b \in Bookings, NEW t \in SomeTable, NEW s \in Slots,
             NEW g \in Guests, Book(q, b, t, s, g)
      PROVE  SessionsOK' /\ DistinctIds'
  BY <1>1, <1>0 DEF Book, Fresh, Free
<1>2. ASSUME NEW q \in Requests, NEW b \in Bookings, NEW kind \in {"update", "cancel"},
             NEW new, NEW t \in SomeTable, Load(q, b, kind, new, t),
             kind = "cancel" => t = NoTable /\ new = "cancelled"
      PROVE  SessionsOK' /\ DistinctIds'
  BY <1>2, <1>0 DEF Load, Free, Active
<1>4. ASSUME NEW q \in Requests, NEW t \in Tables,
             (\E to \in TableRow : EditTable(q, t, to)) \/ DeleteTable(q, t)
      PROVE  SessionsOK' /\ DistinctIds'
  BY <1>4, <1>0 DEF EditTable, DeleteTable
<1>b. ASSUME NEW q \in Requests, End(q), UNCHANGED resv
      PROVE  SessionsOK' /\ DistinctIds'
  BY <1>b, <1>0 DEF End
<1>c. ASSUME NEW q \in Requests, sess[q] \in Session, sess[q].pc \in {"look", "check"},
             NEW new \in Session, sess' = [sess EXCEPT ![q] = new], UNCHANGED resv,
             new.kind = sess[q].kind, new.id = sess[q].id, new.slot = sess[q].slot,
             new.table = sess[q].table, new.new = sess[q].new, new.pc # "look",
             new.base = sess[q].base,
             new.pc = "pick" => new.table = NoTable
      PROVE  SessionsOK' /\ DistinctIds'
  <2>1. new.kind \in Kinds /\ new.pc \in {"check", "pick", "write"}
    BY <1>c DEF Session
  <2> QED
    BY <1>c, <1>0, <2>1 DEF Kinds
<1>6. ASSUME NEW q \in Requests, LookAtTable(q)
      PROVE  SessionsOK' /\ DistinctIds'
  <2>1. sess[q] \in Session /\ sess[q].pc = "look"
    BY <1>6, <1>a DEF LookAtTable, At
  <2>2. CASE End(q)
    BY <2>2, <1>6, <1>b DEF LookAtTable
  <2>3. CASE sess' = [sess EXCEPT ![q].pc = "check"]
    <3> DEFINE new == [sess[q] EXCEPT !.pc = "check"]
    <3>1. new \in Session
      BY <2>1 DEF Session
    <3>2. sess' = [sess EXCEPT ![q] = new]
      BY <2>3
    <3>3. /\ new.kind = sess[q].kind /\ new.id = sess[q].id /\ new.slot = sess[q].slot
          /\ new.table = sess[q].table /\ new.new = sess[q].new /\ new.pc = "check"
          /\ new.base = sess[q].base
      BY <2>1 DEF Session
    <3> HIDE DEF new
    <3> QED
      BY <1>6, <1>c, <2>1, <3>1, <3>2, <3>3 DEF LookAtTable
  <2> QED
    BY <1>6, <2>2, <2>3 DEF LookAtTable
<1>7. ASSUME NEW q \in Requests, CheckSlot(q)
      PROVE  SessionsOK' /\ DistinctIds'
  <2> DEFINE taken == TakenTables(sess[q].slot, sess[q].id)
             picking == [sess[q] EXCEPT !.pc = "pick", !.taken = taken]
             writing == [sess[q] EXCEPT !.pc = "write"]
  <2>1. sess[q] \in Session /\ sess[q].pc = "check"
    BY <1>7, <1>a DEF CheckSlot, At
  <2>2. taken \subseteq Tables
    BY DEF TakenTables, InSlot, Booking, TypeOK
  <2>3. /\ picking \in Session /\ picking.kind = sess[q].kind /\ picking.id = sess[q].id
        /\ picking.slot = sess[q].slot /\ picking.table = sess[q].table
        /\ picking.new = sess[q].new /\ picking.base = sess[q].base /\ picking.pc = "pick"
    BY <2>1, <2>2 DEF Session
  <2>4. /\ writing \in Session /\ writing.kind = sess[q].kind /\ writing.id = sess[q].id
        /\ writing.slot = sess[q].slot /\ writing.table = sess[q].table
        /\ writing.new = sess[q].new /\ writing.base = sess[q].base /\ writing.pc = "write"
    BY <2>1 DEF Session
  <2>5. UNCHANGED resv
    BY <1>7 DEF CheckSlot
  <2>6. CASE End(q)
    BY <2>6, <2>5, <1>b
  <2>7. CASE sess[q].table = NoTable /\ sess' = [sess EXCEPT ![q] = picking]
    <3> HIDE DEF picking
    <3> QED
      BY <2>7, <2>1, <2>3, <2>5, <1>c
  <2>8. CASE sess' = [sess EXCEPT ![q] = writing]
    <3> HIDE DEF writing
    <3> QED
      BY <2>8, <2>1, <2>4, <2>5, <1>c
  <2>9. \/ End(q)
        \/ sess[q].table = NoTable /\ sess' = [sess EXCEPT ![q].pc = "pick", ![q].taken = taken]
        \/ sess' = [sess EXCEPT ![q].pc = "write"]
    BY <1>7 DEF CheckSlot
  <2> QED
    BY <2>6, <2>7, <2>8, <2>9
<1>8. ASSUME NEW q \in Requests, PickTable(q)
      PROVE  SessionsOK' /\ DistinctIds'
  BY <1>8, <1>0, <1>a DEF PickTable, At, Kinds
<1>9. ASSUME NEW q \in Requests, BookWrite(q)
      PROVE  SessionsOK' /\ DistinctIds'
  BY <1>9, <1>0, <1>a DEF BookWrite, At, End, Kinds, Session
<1>10. ASSUME NEW q \in Requests, ChangeWrite(q)
       PROVE  SessionsOK' /\ DistinctIds'
  <2>1. sess[q] \in Session /\ sess[q].kind \in {"update", "cancel"}
    BY <1>10, <1>a DEF ChangeWrite, At
  <2>2. sess[q].new # "none"
    BY <2>1 DEF Session, ReservationStatus, Active, Closed
  <2>3. resv[sess[q].id].status # "none"
    BY <2>1
  <2>4. ASSUME NEW b \in Bookings
        PROVE  /\ (resv')[b].slot = resv[b].slot
               /\ (resv')[b].status = "none" <=> resv[b].status = "none"
    <3> DEFINE row == resv[b]
    <3>1. row \in Booking
      BY <1>a
    <3> HIDE DEF row
    <3>2. /\ ChangedRow(row, sess[q]).slot = row.slot
          /\ ChangedRow(row, sess[q]).status \in {row.status, sess[q].new}
      BY <3>1 DEF ChangedRow, Booking
    <3>3. (resv')[b] = row \/ (b = sess[q].id /\ (resv')[b] = ChangedRow(row, sess[q]))
      BY <1>10, <1>0 DEF ChangeWrite, row
    <3> QED
      BY <3>2, <3>3, <2>2, <2>3 DEF row
  <2>5. \A p \in Requests : (sess')[p] = sess[p] \/ (sess')[p] = Idle
    BY <1>10, <1>0 DEF ChangeWrite, End
  <2>6. \A p \in Requests : sess[p].kind \in Kinds => sess[p].id \in Bookings
    BY <1>a DEF Session
  <2> QED
    BY <2>4, <2>5, <2>6 DEF Kinds
<1>11. ASSUME NEW q \in Requests, EditWrite(q) \/ Abort(q)
       PROVE  SessionsOK' /\ DistinctIds'
  BY <1>11, <1>0 DEF EditWrite, Abort, End
<1>12. ASSUME NEW q \in Requests, DeleteWrite(q)
       PROVE  SessionsOK' /\ DistinctIds'
  BY <1>12, <1>0, <1>a DEF DeleteWrite, End, Cleared, Session, Booking, Kinds
<1>14. ASSUME NEW t \in Tables, CreateTable(t)
       PROVE  SessionsOK' /\ DistinctIds'
  BY <1>14 DEF CreateTable
<1>15. CASE UNCHANGED vars
  BY <1>15 DEF vars
<1> QED
  BY <1>1, <1>2, <1>4, <1>6, <1>7, <1>8, <1>9, <1>10, <1>11, <1>12, <1>14,
     <1>15 DEF Next, Arrive, Continue, Cancel, Update

-----------------------------------------------------------------------------
(* Overbooking *)

\* What a part of a finite set of requests points at is no larger than the set.
LEMMA ImageBound ==
  ASSUME NEW R, IsFiniteSet(R), NEW P \in SUBSET R, NEW f
  PROVE  /\ IsFiniteSet({f[q] : q \in P})
         /\ Cardinality({f[q] : q \in P}) <= Cardinality(R)
<1> DEFINE T == {f[q] : q \in P}
           g == [q \in P |-> f[q]]
<1>1. IsFiniteSet(P) /\ Cardinality(P) <= Cardinality(R)
  BY FS_Subset
<1>2. g \in Surjection(P, T)
  BY DEF Surjection
<1>3. IsFiniteSet(T) /\ Cardinality(T) <= Cardinality(P)
  <2> HIDE DEF g, T
  <2> QED
    BY <1>1, <1>2, FS_Surjection
<1>4. Cardinality(R) \in Nat /\ Cardinality(P) \in Nat /\ Cardinality(T) \in Nat
  BY <1>1, <1>3, FS_CardinalityType
<1> QED
  BY <1>1, <1>3, <1>4

\* No step adds to what is held or promised of a table and slot somebody holds.
LEMMA NothingAdded ==
  ASSUME TypeOK, SessionsOK, DistinctIds, [Next]_vars, NEW t \in Tables, NEW s \in Slots
  PROVE  HeldOrPromised(t, s)' \subseteq HeldOrPromised(t, s) \/ Holders(t, s)' = {}
<1>0. /\ DOMAIN sess = Requests /\ DOMAIN resv = Bookings
      /\ \A q \in Requests : sess[q].kind \in Kinds => sess[q] \in Session
      /\ resv \in [Bookings -> Booking]
  BY DEF TypeOK, EditSession, DeleteSession, Kinds, Idle
\* A step that changes no reservation, and after which the request it belongs
\* to promises nothing new, adds nothing.
<1>a. ASSUME NEW q \in Requests, UNCHANGED resv,
             \A p \in Requests \ {q} : (sess')[p] = sess[p],
             Promises(q, t, s)' => (sess')[q].id \in HeldOrPromised(t, s)
      PROVE  HeldOrPromised(t, s)' \subseteq HeldOrPromised(t, s)
  BY <1>a DEF HeldOrPromised, Promised, Promises, Target, Keeps, Holders, InSlot
<1>b. ASSUME NEW q \in Requests, End(q)
      PROVE  (sess')[q] = Idle /\ \A p \in Requests \ {q} : (sess')[p] = sess[p]
  BY <1>b, <1>0 DEF End
<1>1. ASSUME NEW q \in Requests, NEW b \in Bookings, NEW u \in SomeTable, NEW z \in Slots,
             NEW g \in Guests, Book(q, b, u, z, g)
      PROVE  HeldOrPromised(t, s)' \subseteq HeldOrPromised(t, s)
  <2>1. /\ (sess')[q].kind = "book" /\ (sess')[q].pc \in {"check", "look"}
        /\ UNCHANGED resv /\ \A p \in Requests \ {q} : (sess')[p] = sess[p]
    BY <1>1, <1>0 DEF Book
  <2>2. ~Promises(q, t, s)'
    BY <2>1 DEF Promises, Keeps
  <2> QED
    BY <1>a, <2>1, <2>2
<1>2. ASSUME NEW q \in Requests, NEW b \in Bookings, NEW kind \in {"update", "cancel"},
             NEW new, NEW u \in SomeTable, Load(q, b, kind, new, u)
      PROVE  HeldOrPromised(t, s)' \subseteq HeldOrPromised(t, s)
  <2>1. /\ (sess')[q].id = b /\ (sess')[q].kind = kind /\ (sess')[q].slot = resv[b].slot
        /\ (sess')[q].pc = IF u = NoTable THEN "write" ELSE "look"
        /\ (sess')[q].table = u /\ (sess')[q].was = resv[b].table
        /\ UNCHANGED resv /\ resv[b].status \in Active
        /\ \A p \in Requests \ {q} : (sess')[p] = sess[p]
    BY <1>2, <1>0 DEF Load
  <2>2. Promises(q, t, s)' => resv[b].table = t /\ resv[b].slot = s
    BY <2>1, NoTableAssumption DEF Promises, Target, Keeps
  <2>3. Promises(q, t, s)' => b \in Holders(t, s)
    BY <2>1, <2>2 DEF Holders, InSlot
  <2> QED
    BY <1>a, <2>1, <2>3 DEF HeldOrPromised
<1>4. ASSUME NEW q \in Requests, NEW u \in Tables,
             (\E to \in TableRow : EditTable(q, u, to)) \/ DeleteTable(q, u)
      PROVE  HeldOrPromised(t, s)' \subseteq HeldOrPromised(t, s)
  <2>1. (sess')[q].kind \in {"edit", "delete"}
    BY <1>4, <1>0 DEF EditTable, DeleteTable
  <2>2. UNCHANGED resv /\ \A p \in Requests \ {q} : (sess')[p] = sess[p]
    BY <1>4, <1>0 DEF EditTable, DeleteTable
  <2> QED
    BY <1>a, <2>1, <2>2 DEF Promises
<1>5. ASSUME NEW q \in Requests, EditWrite(q) \/ Abort(q)
      PROVE  HeldOrPromised(t, s)' \subseteq HeldOrPromised(t, s)
  BY <1>5, <1>a, <1>b DEF EditWrite, Abort, Promises, Idle
<1>6. ASSUME NEW q \in Requests, LookAtTable(q)
      PROVE  HeldOrPromised(t, s)' \subseteq HeldOrPromised(t, s)
  <2>1. sess[q] \in Session
    BY <1>6, <1>0 DEF LookAtTable, At
  <2>2. UNCHANGED resv /\ \A p \in Requests \ {q} : (sess')[p] = sess[p]
    BY <1>6, <1>0 DEF LookAtTable, End
  <2>3. CASE End(q)
    BY <2>3, <2>2, <1>a, <1>b DEF Promises, Idle
  <2>4. CASE sess' = [sess EXCEPT ![q].pc = "check"]
    <3>1. /\ (sess')[q].kind = sess[q].kind /\ (sess')[q].table = sess[q].table
          /\ (sess')[q].slot = sess[q].slot /\ (sess')[q].id = sess[q].id
          /\ (sess')[q].was = sess[q].was /\ (sess')[q].pc = "check"
      BY <2>4, <2>1, <1>0 DEF Session
    <3>2. Promises(q, t, s)' => Promises(q, t, s)
      BY <3>1, <2>2 DEF Promises, Target, Keeps
    <3> QED
      BY <3>1, <3>2, <2>2, <1>a DEF HeldOrPromised, Promised
  <2> QED
    BY <2>3, <2>4, <1>6 DEF LookAtTable
<1>7. ASSUME NEW q \in Requests, CheckSlot(q)
      PROVE  \/ HeldOrPromised(t, s)' \subseteq HeldOrPromised(t, s)
             \/ Holders(t, s)' = {}
  <2> DEFINE taken == TakenTables(sess[q].slot, sess[q].id)
  <2>1. sess[q] \in Session /\ sess[q].pc = "check"
    BY <1>7, <1>0 DEF CheckSlot, At
  <2>2. UNCHANGED resv /\ \A p \in Requests \ {q} : (sess')[p] = sess[p]
    BY <1>7, <1>0 DEF CheckSlot, End
  <2>3. t \notin taken /\ sess[q].slot = s => Holders(t, s) \subseteq {sess[q].id}
    BY NoTableAssumption DEF TakenTables, Holders
  <2>4. Promises(q, t, s)' =>
          /\ (sess')[q].id = sess[q].id
          /\ Promises(q, t, s) \/ (t \notin taken /\ sess[q].slot = s)
    <3>1. CASE End(q)
      BY <3>1, <1>b DEF Promises, Idle
    <3>2. CASE sess[q].table = NoTable /\ sess' = [sess EXCEPT ![q].pc = "pick", ![q].taken = taken]
      <4>1. (sess')[q] = [sess[q] EXCEPT !.pc = "pick", !.taken = taken]
        BY <3>2, <1>0
      <4>2. /\ (sess')[q].pc = "pick" /\ (sess')[q].taken = taken
            /\ (sess')[q].kind = sess[q].kind /\ (sess')[q].table = sess[q].table
            /\ (sess')[q].slot = sess[q].slot /\ (sess')[q].id = sess[q].id
            /\ (sess')[q].was = sess[q].was
        BY <4>1, <2>1 DEF Session
      <4> HIDE DEF taken
      <4> QED
        BY <4>2, <2>2 DEF Promises, Target, Keeps
    <3>3. CASE /\ sess[q].table # NoTable /\ sess[q].table \notin taken
               /\ sess' = [sess EXCEPT ![q].pc = "write"]
      <4>1. /\ (sess')[q].kind = sess[q].kind /\ (sess')[q].table = sess[q].table
            /\ (sess')[q].slot = sess[q].slot /\ (sess')[q].id = sess[q].id
            /\ (sess')[q].was = sess[q].was /\ (sess')[q].pc = "write"
        BY <3>3, <2>1, <1>0 DEF Session
      <4> HIDE DEF taken
      <4> QED
        BY <4>1, <3>3, <2>2 DEF Promises, Target, Keeps
    <3> QED
      BY <3>1, <3>2, <3>3, <1>7 DEF CheckSlot
  <2>5. Holders(t, s)' = Holders(t, s)
    BY <2>2 DEF Holders, InSlot
  <2>6. CASE Promises(q, t, s)' /\ ~Promises(q, t, s) /\ Holders(t, s) # {}
    <3>1. sess[q].id \in Holders(t, s)
      BY <2>6, <2>3, <2>4
    <3> QED
      BY <3>1, <2>2, <2>4, <1>a DEF HeldOrPromised
  <2>7. CASE Promises(q, t, s)' /\ Promises(q, t, s)
    BY <2>7, <2>2, <2>4, <1>a DEF HeldOrPromised, Promised
  <2>8. CASE ~Promises(q, t, s)'
    BY <2>8, <2>2, <1>a
  <2> QED
    BY <2>5, <2>6, <2>7, <2>8
<1>8. ASSUME NEW q \in Requests, PickTable(q)
      PROVE  HeldOrPromised(t, s)' \subseteq HeldOrPromised(t, s)
  <2>1. sess[q] \in Session /\ sess[q].pc = "pick" /\ sess[q].kind = "book"
    BY <1>8, <1>0 DEF PickTable, At, SessionsOK, Kinds
  <2>2. PICK u \in SomeTable :
          /\ u = NoTable \/ u \notin sess[q].taken
          /\ sess' = [sess EXCEPT ![q].pc = "write", ![q].table = u]
    BY <1>8 DEF PickTable
  <2>3. (sess')[q] = [sess[q] EXCEPT !.pc = "write", !.table = u]
    BY <2>2, <1>0
  <2>4. /\ (sess')[q].pc = "write" /\ (sess')[q].table = u /\ (sess')[q].kind = "book"
        /\ (sess')[q].slot = sess[q].slot /\ (sess')[q].id = sess[q].id
    BY <2>3, <2>1 DEF Session
  <2>5. UNCHANGED resv /\ \A p \in Requests \ {q} : (sess')[p] = sess[p]
    BY <2>2, <1>8, <1>0 DEF PickTable
  <2>6. Promises(q, t, s)' => Promises(q, t, s)
    BY <2>1, <2>2, <2>4, NoTableAssumption DEF Promises, Target, Keeps
  <2> QED
    BY <1>a, <2>4, <2>5, <2>6 DEF HeldOrPromised, Promised
\* The writes of a reservation: the row lands where its request promised, and
\* the other requests for it promise its present table.
<1>c. ASSUME NEW q \in Requests, At(q, "write"), sess[q].kind \in Kinds,
             (sess')[q] = Idle, \A p \in Requests \ {q} : (sess')[p] = sess[p],
             \A b \in Bookings \ {sess[q].id} : (resv')[b] = resv[b],
             LET row == (resv')[sess[q].id] IN
               \/ row = resv[sess[q].id]
               \/ /\ row.status \in Active => sess[q].kind \in {"book", "update"}
                  /\ sess[q].kind \in {"book", "update"} =>
                       row.table = Target(q) /\ row.slot = sess[q].slot
                  /\ sess[q].kind = "cancel" =>
                       row.table = resv[sess[q].id].table /\ row.slot = resv[sess[q].id].slot
      PROVE  HeldOrPromised(t, s)' \subseteq HeldOrPromised(t, s)
  <2> DEFINE id == sess[q].id
  <2>0. id \in Bookings
    BY <1>c, <1>0 DEF Session
  <2>1. ASSUME NEW b \in Holders(t, s)'
        PROVE  b \in HeldOrPromised(t, s)
    <3>1. CASE (resv')[b] = resv[b]
      BY <3>1, <2>1 DEF HeldOrPromised, Holders, InSlot
    <3>2. CASE (resv')[b] # resv[b]
      <4>1. b = id /\ b \in Bookings
        BY <3>2, <2>1, <1>c DEF Holders, InSlot
      <4>2. Promises(q, t, s)
        BY <4>1, <3>2, <2>1, <1>c DEF Promises, Holders, InSlot, At
      <4> QED
        BY <4>1, <4>2 DEF HeldOrPromised, Promised
    <3> QED
      BY <3>1, <3>2
  <2>2. ASSUME NEW p \in Requests, Promises(p, t, s)'
        PROVE  (sess')[p].id \in HeldOrPromised(t, s)
    <3>1. p # q /\ (sess')[p] = sess[p] /\ sess[p].kind \in {"book", "update"}
      BY <2>2, <1>c DEF Promises, Idle
    <3>2. CASE Promises(p, t, s)
      BY <3>1, <3>2 DEF HeldOrPromised, Promised
    <3>3. CASE ~Promises(p, t, s)
      <4>1. /\ sess[p].kind = "update" /\ sess[p].table \in {NoTable, sess[p].was}
            /\ sess[p].slot = s
            /\ (resv')[sess[p].id].table = t /\ resv[sess[p].id].table # t
        BY <3>1, <3>3, <2>2 DEF Promises, Target, Keeps, SessionsOK
      <4>2. sess[p].id = id
        BY <4>1, <3>1, <1>0, <1>c DEF Session, Kinds
      <4>3. sess[q].kind = "update"
        BY <4>1, <4>2, <1>c DEF SessionsOK, Kinds
      <4>4. sess[q].slot = s /\ Target(q) = t
        BY <4>1, <4>2, <4>3, <1>c DEF SessionsOK
      <4>5. Promises(q, t, s)
        BY <4>3, <4>4, <1>c DEF Promises, At
      <4> QED
        BY <3>1, <4>2, <4>5 DEF HeldOrPromised, Promised
    <3> QED
      BY <3>2, <3>3
  <2> QED
    BY <2>1, <2>2 DEF HeldOrPromised, Promised
<1>9. ASSUME NEW q \in Requests, BookWrite(q)
      PROVE  HeldOrPromised(t, s)' \subseteq HeldOrPromised(t, s)
  <2>1. sess[q] \in Session /\ sess[q].kind = "book" /\ At(q, "write")
    BY <1>9, <1>0 DEF BookWrite, At
  <2>2. (sess')[q] = Idle /\ \A p \in Requests \ {q} : (sess')[p] = sess[p]
    BY <1>9, <1>b DEF BookWrite
  <2>3. sess[q].id \in Bookings
    BY <2>1 DEF Session
  <2>4. /\ \A b \in Bookings \ {sess[q].id} : (resv')[b] = resv[b]
        /\ \/ (resv')[sess[q].id] = resv[sess[q].id]
           \/ /\ (resv')[sess[q].id].table = sess[q].table
              /\ (resv')[sess[q].id].slot = sess[q].slot
    BY <1>9, <1>0, <2>3 DEF BookWrite
  <2>5. Target(q) = sess[q].table
    BY <2>1 DEF Target, Keeps
  <2> QED
    BY <1>c, <2>1, <2>2, <2>4, <2>5 DEF Kinds
<1>10. ASSUME NEW q \in Requests, ChangeWrite(q)
       PROVE  HeldOrPromised(t, s)' \subseteq HeldOrPromised(t, s)
  <2> DEFINE row == resv[sess[q].id]
             new == ChangedRow(row, sess[q])
  <2>1. sess[q] \in Session /\ sess[q].kind \in {"update", "cancel"} /\ At(q, "write")
    BY <1>10, <1>0 DEF ChangeWrite, At
  <2>2. (sess')[q] = Idle /\ \A p \in Requests \ {q} : (sess')[p] = sess[p]
    BY <1>10, <1>b DEF ChangeWrite
  <2>3. sess[q].id \in Bookings /\ row \in Booking
    BY <2>1, <1>0 DEF Session
  <2>4. /\ \A b \in Bookings \ {sess[q].id} : (resv')[b] = resv[b]
        /\ (resv')[sess[q].id] = row \/ (resv')[sess[q].id] = new
    BY <1>10, <1>0, <2>3 DEF ChangeWrite
  <2>5. /\ new.slot = row.slot
        /\ new.table = IF sess[q].table \in {NoTable, sess[q].was} THEN row.table ELSE sess[q].table
        /\ new.status = IF sess[q].new = sess[q].base THEN row.status ELSE sess[q].new
    <3> HIDE DEF row
    <3> QED
      BY <2>3 DEF ChangedRow, Booking
  <2>6. row.slot = sess[q].slot \/ sess[q].kind = "cancel"
    BY <2>1 DEF SessionsOK
  <2>7. sess[q].kind = "update" => new.table = Target(q) /\ new.slot = sess[q].slot
    BY <2>1, <2>5, <2>6 DEF Target, Keeps
  <2>8. sess[q].kind = "cancel" =>
          new.table = row.table /\ new.slot = row.slot /\ new.status = "cancelled"
    BY <2>1, <2>5 DEF SessionsOK, Active
  <2> QED
    <3> HIDE DEF new
    <3> QED
      BY <1>c, <2>1, <2>2, <2>4, <2>7, <2>8 DEF Kinds, Active
<1>12. ASSUME NEW q \in Requests, DeleteWrite(q)
       PROVE  HeldOrPromised(t, s)' \subseteq HeldOrPromised(t, s)
  <2>1. (sess')[q] = Idle /\ \A p \in Requests \ {q} : (sess')[p] = sess[p]
    BY <1>12, <1>b DEF DeleteWrite
  <2>2. ASSUME NEW b \in Bookings
        PROVE  /\ (resv')[b].slot = resv[b].slot /\ (resv')[b].status = resv[b].status
               /\ (resv')[b].table \in {resv[b].table, NoTable}
    <3>1. (resv')[b] = Cleared(b, sess[q].target) /\ resv[b] \in Booking
      BY <1>12, <1>0 DEF DeleteWrite
    <3> QED
      BY <3>1 DEF Cleared, Booking
  <2>3. Holders(t, s)' \subseteq Holders(t, s)
    BY <2>2, NoTableAssumption DEF Holders, InSlot
  <2>4. ASSUME NEW p \in Requests, Promises(p, t, s)'
        PROVE  Promises(p, t, s) /\ (sess')[p].id = sess[p].id
    <3>1. (sess')[p] = sess[p] /\ sess[p].kind \in {"book", "update"}
      BY <2>4, <2>1 DEF Promises, Idle
    <3>2. sess[p].id \in Bookings
      BY <3>1, <1>0 DEF Session, Kinds
    <3> QED
      BY <3>1, <3>2, <2>2, <2>4, NoTableAssumption DEF Promises, Target, Keeps
  <2> QED
    BY <2>3, <2>4 DEF HeldOrPromised, Promised
<1>13. ASSUME UNCHANGED <<resv, sess>>
       PROVE  HeldOrPromised(t, s)' \subseteq HeldOrPromised(t, s)
  BY <1>13 DEF HeldOrPromised, Promised, Promises, Target, Keeps, Holders, InSlot
<1> QED
  BY <1>1, <1>2, <1>4, <1>5, <1>6, <1>7, <1>8, <1>9, <1>10, <1>12, <1>13
     DEF Next, Arrive, Continue, Cancel, Update, CreateTable, vars

-----------------------------------------------------------------------------
(* The theorems *)

\* What is held or promised of a table nobody holds is promised by requests.
LEMMA PromisedBound ==
  ASSUME NEW t \in Tables, NEW s \in Slots
  PROVE  /\ IsFiniteSet(Promised(t, s))
         /\ Cardinality(Promised(t, s)) <= Cardinality(Requests)
<1> DEFINE f == [q \in Requests |-> sess[q].id]
           P == {q \in Requests : Promises(q, t, s)}
<1>1. Promised(t, s) = {f[q] : q \in P}
  BY DEF Promised
<1> HIDE DEF f
<1>2. P \in SUBSET Requests
  OBVIOUS
<1> HIDE DEF P
<1> QED
  BY <1>1, <1>2, ImageBound, RequestsAssumption

\* For every number of requests, the reservations that hold a table for a slot
\* and those that in-flight requests of create_reservation and
\* update_merchant_reservation_status may still put there are never more than
\* the requests: create_reservation's check lets only the first one through
\* once a reservation is committed.
THEOREM Overbooking == Spec => []OverbookingInv
<1> DEFINE Bounded == \A t \in Tables, s \in Slots :
             /\ IsFiniteSet(HeldOrPromised(t, s))
             /\ Cardinality(HeldOrPromised(t, s)) <= Cardinality(Requests)
<1>1. Init => OverbookingInv
  <2> SUFFICES ASSUME Init PROVE OverbookingInv
    OBVIOUS
  <2>1. \A q \in Requests : sess[q].kind = "idle"
    BY DEF Init, Idle
  <2>2. SessionsOK /\ DistinctIds
    BY <2>1 DEF SessionsOK, DistinctIds
  <2>3. ASSUME NEW t \in Tables, NEW s \in Slots
        PROVE  HeldOrPromised(t, s) = Promised(t, s)
    BY <2>1 DEF HeldOrPromised, Holders, InSlot, Init, NoBooking, Active
  <2> QED
    BY <2>2, <2>3, InitTypes, PromisedBound DEF OverbookingInv
<1>2. OverbookingInv /\ [Next]_vars => OverbookingInv'
  <2> SUFFICES ASSUME OverbookingInv, [Next]_vars PROVE OverbookingInv'
    OBVIOUS
  <2>1. TypeOK' /\ SessionsOK' /\ DistinctIds'
    BY NextTypes, NextSessions DEF OverbookingInv
  <2>2. ASSUME NEW t \in Tables, NEW s \in Slots
        PROVE  /\ IsFiniteSet(HeldOrPromised(t, s)')
               /\ Cardinality(HeldOrPromised(t, s)') <= Cardinality(Requests)
    <3>1. CASE HeldOrPromised(t, s)' \subseteq HeldOrPromised(t, s)
      <4>1. /\ IsFiniteSet(HeldOrPromised(t, s))
            /\ Cardinality(HeldOrPromised(t, s)) <= Cardinality(Requests)
        BY DEF OverbookingInv
      <4>2. /\ IsFiniteSet(HeldOrPromised(t, s)')
            /\ Cardinality(HeldOrPromised(t, s)') <= Cardinality(HeldOrPromised(t, s))
        BY <3>1, <4>1, FS_Subset
      <4>3. /\ Cardinality(HeldOrPromised(t, s)) \in Nat /\ Cardinality(Requests) \in Nat
            /\ Cardinality(HeldOrPromised(t, s)') \in Nat
        BY <4>1, <4>2, FS_CardinalityType, RequestsAssumption
      <4> QED
        BY <4>1, <4>2, <4>3
    <3>2. CASE Holders(t, s)' = {}
      <4> DEFINE f == [q \in Requests |-> (sess')[q].id]
                 P == {q \in Requests : Promises(q, t, s)'}
      <4>1. HeldOrPromised(t, s)' = {f[q] : q \in P}
        BY <3>2 DEF HeldOrPromised, Promised
      <4>2. P \in SUBSET Requests
        OBVIOUS
      <4> HIDE DEF f, P
      <4> QED
        BY <4>1, <4>2, ImageBound, RequestsAssumption
    <3> QED
      BY <3>1, <3>2, NothingAdded DEF OverbookingInv
  <2> QED
    BY <2>1, <2>2 DEF OverbookingInv
<1> QED
  BY <1>1, <1>2, PTL DEF Spec

\* A table has never more active reservations in one slot than there are
\* requests served at a time, however many are made, moved and cancelled.
THEOREM OverbookingIsBounded == Spec => []OverbookingBounded
<1>1. OverbookingInv => OverbookingBounded
  <2> SUFFICES ASSUME OverbookingInv, NEW t \in Tables, NEW s \in Slots
               PROVE  Cardinality(Holders(t, s)) <= Cardinality(Requests)
    BY DEF OverbookingBounded
  <2>1. /\ IsFiniteSet(HeldOrPromised(t, s))
        /\ Cardinality(HeldOrPromised(t, s)) <= Cardinality(Requests)
    BY DEF OverbookingInv
  <2>2. /\ IsFiniteSet(Holders(t, s))
        /\ Cardinality(Holders(t, s)) <= Cardinality(HeldOrPromised(t, s))
    BY <2>1, FS_Subset DEF HeldOrPromised
  <2>3. /\ Cardinality(Holders(t, s)) \in Nat /\ Cardinality(HeldOrPromised(t, s)) \in Nat
        /\ Cardinality(Requests) \in Nat
    BY <2>1, <2>2, FS_CardinalityType, RequestsAssumption
  <2> QED
    BY <2>1, <2>2, <2>3
<1> QED
  BY <1>1, Overbooking, PTL

\* "Selected table is no longer available for that time slot" (create_reservation;
\* update_reservation has the same check) keeps its word when requests are served
\* one at a time: a double booking needs two that overlap.
THEOREM SerialBookingIsExclusive ==
  ASSUME Cardinality(Requests) = 1
  PROVE  Spec => []NoDoubleBooking
<1>1. OverbookingBounded => NoDoubleBooking
  BY DEF OverbookingBounded, NoDoubleBooking
<1> QED
  BY <1>1, OverbookingIsBounded, PTL

\* Whatever the order in which stale writes land, the status of a reservation
\* is in the list of events shown with it.
THEOREM StatusIsRecorded == Spec => []StatusRecorded
<1> DEFINE Ok(row) == row.status # "none" => row.status \in row.events
<1>1. Init => StatusRecorded
  BY DEF Init, StatusRecorded, NoBooking
<1>2. OverbookingInv /\ StatusRecorded /\ [Next]_vars => StatusRecorded'
  <2> SUFFICES ASSUME OverbookingInv, StatusRecorded, [Next]_vars, NEW b \in Bookings
               PROVE  Ok((resv')[b])
    BY DEF StatusRecorded
  <2>0. /\ resv \in [Bookings -> Booking] /\ Ok(resv[b])
        /\ \A q \in Requests : sess[q].kind \in Kinds => sess[q] \in Session
    BY DEF OverbookingInv, TypeOK, EditSession, DeleteSession, Kinds, Idle, StatusRecorded
  <2>1. ASSUME UNCHANGED resv
        PROVE  Ok((resv')[b])
    BY <2>0, <2>1
  <2>2. ASSUME NEW q \in Requests, BookWrite(q)
        PROVE  Ok((resv')[b])
    <3> DEFINE new == [status |-> "pending", table |-> sess[q].table, slot |-> sess[q].slot,
                       party |-> sess[q].party, events |-> {"pending"}]
    <3>1. (resv')[b] \in {resv[b], new}
      BY <2>2, <2>0 DEF BookWrite
    <3> QED
      BY <3>1, <2>0
  <2>3. ASSUME NEW q \in Requests, ChangeWrite(q)
        PROVE  Ok((resv')[b])
    <3>1. \/ (resv')[b] = resv[b]
          \/ b = sess[q].id /\ (resv')[b] = ChangedRow(resv[b], sess[q])
      BY <2>3, <2>0 DEF ChangeWrite
    <3>2. ASSUME NEW row \in Booking, NEW s, Ok(row)
          PROVE  Ok(ChangedRow(row, s))
      <4>1. /\ ChangedRow(row, s).status \in {row.status, s.new}
            /\ ChangedRow(row, s).events = row.events \cup {s.new}
            /\ ChangedRow(row, s).status = row.status \/ ChangedRow(row, s).status = s.new
        BY DEF ChangedRow, Booking
      <4> HIDE DEF Ok
      <4>2. CASE ChangedRow(row, s).status = s.new
        BY <4>1, <4>2 DEF Ok
      <4>3. CASE ChangedRow(row, s).status = row.status
        BY <3>2, <4>1, <4>3 DEF Ok
      <4> QED
        BY <4>1, <4>2, <4>3
    <3> QED
      BY <3>1, <3>2, <2>0
  <2>4. ASSUME NEW q \in Requests, DeleteWrite(q)
        PROVE  Ok((resv')[b])
    <3>1. (resv')[b] = Cleared(b, sess[q].target)
      BY <2>4 DEF DeleteWrite
    <3>2. /\ Cleared(b, sess[q].target).status = resv[b].status
          /\ Cleared(b, sess[q].target).events = resv[b].events
      BY <2>0 DEF Cleared, Booking
    <3> QED
      BY <3>1, <3>2, <2>0
  <2> HIDE DEF Ok
  <2>5. \/ resv' = resv
        \/ \E q \in Requests : BookWrite(q) \/ ChangeWrite(q) \/ DeleteWrite(q)
    <3>1. ASSUME NEW q \in Requests, Arrive(q)  PROVE resv' = resv
      BY <3>1 DEF Arrive, Book, Cancel, Update, Load, EditTable, DeleteTable
    <3>2. ASSUME NEW q \in Requests, LookAtTable(q) \/ CheckSlot(q) \/ PickTable(q) \/ EditWrite(q) \/ Abort(q)
          PROVE  resv' = resv
      BY <3>2 DEF LookAtTable, CheckSlot, PickTable, EditWrite, Abort
    <3>3. ASSUME NEW t \in Tables, CreateTable(t)  PROVE resv' = resv
      BY <3>3 DEF CreateTable
    <3>4. CASE UNCHANGED vars
      BY <3>4 DEF vars
    <3> QED
      BY <3>1, <3>2, <3>3, <3>4 DEF Next, Continue
  <2> QED
    BY <2>1, <2>2, <2>3, <2>4, <2>5
<1> QED
  BY <1>1, <1>2, Overbooking, PTL DEF Spec

\* For any number of tables, slots and requests, the availability page and the
\* booking ask the same of a table (get_availability, create_reservation): an id
\* without a row holds no table that the check would have to leave out.
THEOREM ShownIsBookableAlways == Spec => []ShownIsBookable
<1>1. ShownIsBookable
  <2> SUFFICES ASSUME NEW t \in Tables, NEW s \in Slots, NEW g \in Guests, NEW b \in Bookings,
                      resv[b].status = "none"
               PROVE  t \in Shown(s, g) <=> Selectable(t, g) /\ t \notin TakenTables(s, b)
    BY DEF ShownIsBookable
  <2>1. b \notin InSlot(s)
    BY DEF InSlot, Active
  <2>2. t \notin TakenTables(s, b) <=> \A c \in InSlot(s) : resv[c].table # t
    BY <2>1, NoTableAssumption DEF TakenTables
  <2> QED BY <2>2 DEF Shown, Selectable
<1> QED
  BY <1>1, PTL
=============================================================================
