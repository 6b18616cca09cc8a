--------------------------- MODULE DeliveryBoard ---------------------------
(***************************************************************************)
(* What orders and their dispatch promise, without requests, snapshots,    *)
(* offers or locks: a board of delivery jobs.                              *)
(*   - A job has one rider or none and changes hands only by becoming free *)
(*     in between: nobody takes a job from its rider.                      *)
(*   - The marks a job collects (picked_up_at, delivered_at, cancelled_at) *)
(*     are never taken back.                                               *)
(*   - A job is paid for (settled with the restaurant) after it is marked  *)
(*     delivered, and stays paid.                                          *)
(* OrderDispatch implements this board (OrderDispatchRefines).             *)
(***************************************************************************)
CONSTANTS Jobs, People, Nobody

VARIABLES holder, marks, paid

boardVars == <<holder, marks, paid>>

Marks == {"picked_up_at", "delivered_at", "cancelled_at"}

BoardInit ==
  /\ holder = [j \in Jobs |-> Nobody]
  /\ marks = [j \in Jobs |-> {}]
  /\ paid = {}

Take(j, p) ==
  /\ holder[j] = Nobody
  /\ holder' = [holder EXCEPT ![j] = p]
  /\ UNCHANGED <<marks, paid>>

HandBack(j) ==
  /\ holder' = [holder EXCEPT ![j] = Nobody]
  /\ UNCHANGED <<marks, paid>>

Mark(j, new) ==
  /\ marks' = [marks EXCEPT ![j] = @ \cup new]
  /\ UNCHANGED <<holder, paid>>

Pay(j) ==
  /\ "delivered_at" \in marks[j]
  /\ paid' = paid \cup {j}
  /\ UNCHANGED <<holder, marks>>

BoardNext ==
  \E j \in Jobs :
    \/ \E p \in People : Take(j, p)
    \/ HandBack(j)
    \/ \E new \in SUBSET Marks : Mark(j, new)
    \/ Pay(j)

BoardSpec == BoardInit /\ [][BoardNext]_boardVars
=============================================================================
