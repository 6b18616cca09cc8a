------------------------ MODULE OrderDispatchRefines ------------------------
(***************************************************************************)
(* OrderDispatch as a DeliveryBoard: the holder of a job is the order's    *)
(* rider_user_id, its marks are the timestamps that are set, and it is     *)
(* paid for when it has a row in restaurant_settlements.                   *)
(***************************************************************************)
EXTENDS OrderDispatch

HolderOf == [o \in Orders |-> order[o].rider_user_id]

Final == {"picked_up_at", "delivered_at", "cancelled_at"}

MarksOf == [o \in Orders |-> order[o].stamps \cap Final]

Board == INSTANCE DeliveryBoard
           WITH Jobs <- Orders, People <- Riders, Nobody <- NoRider,
                holder <- HolderOf, marks <- MarksOf, paid <- settled

\* Every behaviour of the requests is a behaviour of the board: whatever the
\* interleaving of unconditional writes of stale snapshots, no rider is
\* replaced by another, no mark is lost, and nothing undelivered is settled.
IsABoard == Board!BoardSpec
=============================================================================
