----------------------- MODULE ReservationsInvariant -----------------------
(***************************************************************************)
(* The inductive invariant behind OverbookingBounded.  A request whose     *)
(* check of the slot has passed, and an update that keeps the table, are   *)
(* promises: the write may put the reservation on the table, or revive a   *)
(* closed reservation that still has it.  Together with the             *)
(* reservations that hold the table, the promised ones never outnumber the *)
(* requests: a check passes only when nobody else holds the table, and     *)
(* then everything that is promised is promised by a request in flight.    *)
(***************************************************************************)
EXTENDS Reservations

\* An update without another table than the one it loaded leaves the table alone.
Keeps(q) == sess[q].kind = "update" /\ sess[q].table \in {NoTable, sess[q].was}

\* The table a request's write leaves its reservation on.
Target(q) == IF Keeps(q) THEN resv[sess[q].id].table ELSE sess[q].table

Promises(q, t, s) ==
  /\ sess[q].kind \in {"book", "update"}
  /\ sess[q].slot = s
  /\ \/ (Keeps(q) \/ sess[q].pc = "write") /\ Target(q) = t
     \/ sess[q].pc = "pick" /\ t \notin sess[q].taken

Promised(t, s) == {sess[q].id : q \in {p \in Requests : Promises(p, t, s)}}

HeldOrPromised(t, s) == Holders(t, s) \cup Promised(t, s)

\* Of the reservation of a request in flight: it has no row yet, or its row
\* has the slot the request remembers.
SessionsOK ==
  \A q \in Requests :
    LET s == sess[q] IN
    /\ s.kind = "book" => resv[s.id].status = "none"
    /\ s.kind \in {"update", "cancel"} =>
         /\ s.base \in Active
         /\ resv[s.id].status # "none" /\ resv[s.id].slot = s.slot
    /\ s.kind = "cancel" => s.table = NoTable /\ s.pc = "write" /\ s.new = "cancelled"
    /\ s.kind = "update" => s.pc # "pick"
    /\ s.kind = "update" /\ s.pc \in {"look", "check"} => s.table # NoTable
    /\ s.kind = "book" /\ s.pc = "pick" => s.table = NoTable

\* No two bookings in flight have the same id.
DistinctIds ==
  \A p, q \in Requests :
    sess[p].kind = "book" /\ sess[q].kind = "book" /\ sess[p].id = sess[q].id => p = q

OverbookingInv ==
  /\ TypeOK
  /\ SessionsOK
  /\ DistinctIds
  /\ \A t \in Tables, s \in Slots :
       /\ IsFiniteSet(HeldOrPromised(t, s))
       /\ Cardinality(HeldOrPromised(t, s)) <= Cardinality(Requests)
=============================================================================
