--------------------------- MODULE MCReservations ---------------------------
(* Instances of Reservations for TLC. *)
EXTENDS ReservationsInvariant, TLC

CONSTANTS b1, b2, b3, t1, q1, q2

\* Ids, tables and requests are interchangeable.
Interchange == Permutations(Bookings) \cup Permutations(Requests)
=============================================================================
