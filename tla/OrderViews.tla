----------------------------- MODULE OrderViews -----------------------------
(***************************************************************************)
(* What the parties are shown of an order while it moves: the responses    *)
(* of app/modules/orders/service.py, which derive a sub-status, a timeline *)
(* and a live ETA from the status and the timestamps of the row.  They     *)
(* have no state of their own: a response is a function of the rows.       *)
(***************************************************************************)
EXTENDS OrderDispatch

StatusOnlySubStatus(row) ==
  IF row.status \in {"cancelled", "delivered", "placed"} THEN row.status
  ELSE IF "picked_up_at" \in row.stamps THEN "on_the_way"
  ELSE IF "rider_assigned_at" \in row.stamps THEN "rider_assigned"
  ELSE "preparing"

\* _derive_sub_status
SubStatus(row) ==
  IF row.status = "cancelled" THEN "cancelled"
  ELSE IF row.status = "delivered" \/ "delivered_at" \in row.stamps THEN "delivered"
  ELSE IF "picked_up_at" \in row.stamps THEN "on_the_way"
  ELSE IF "rider_assigned_at" \in row.stamps THEN "rider_assigned"
  ELSE IF "preparing_at" \in row.stamps \/ row.status = "preparing" THEN "preparing"
  ELSE "placed"

Events == <<"placed", "preparing", "rider_assigned", "picked_up", "delivered">>

UntimedRank(row) ==
  CASE row.status = "delivered" -> 5
    [] "picked_up_at" \in row.stamps -> 4
    [] "rider_assigned_at" \in row.stamps -> 3
    [] row.status = "preparing" -> 2
    [] OTHER -> 1

\* current_rank of _build_timeline
CurrentRank(row) ==
  LET has(s) == s \in row.stamps IN
  IF has("delivered_at") \/ row.status = "delivered" THEN 5
  ELSE IF has("picked_up_at") THEN 4
  ELSE IF has("rider_assigned_at") THEN 3
  ELSE IF has("preparing_at") \/ row.status = "preparing" THEN 2
  ELSE 1

\* The state of each event.
Timeline(row) ==
  [n \in 1..5 |->
     IF row.status = "cancelled" THEN IF n = 1 THEN "completed" ELSE "cancelled"
     ELSE IF n < CurrentRank(row) THEN "completed"
     ELSE IF n = CurrentRank(row) THEN "current"
     ELSE "upcoming"]

\* _live_eta_minutes: the stop the estimate is for.
EtaTarget(row) ==
  IF row.status \in {"delivered", "cancelled"} \/ row.rider_user_id = NoRider THEN "none"
  ELSE IF "picked_up_at" \in row.stamps THEN "customer"
  ELSE "restaurant"

\* _format_order_response, _format_merchant_order_response
Response(row) ==
  [subStatus |-> SubStatus(row), timeline |-> Timeline(row), eta |-> EtaTarget(row),
   rider |-> row.rider_user_id, status |-> row.status]

\* get_my_orders, get_merchant_orders
Placed == {o \in Orders : order[o].status # "absent"}

\* get_rider_orders: the orders of the rider, and those he is being offered.
RiderOrders(r) == {o \in Placed : order[o].rider_user_id = r \/ LiveRounds(o, r) # {}}

-----------------------------------------------------------------------------
(* Properties *)

Progress == [placed |-> 1, preparing |-> 2, rider_assigned |-> 3, on_the_way |-> 4, delivered |-> 5]

\* _derive_sub_status is the "single source of truth" clients read: whatever
\* commits over a newer status, what a client is shown never falls back, except
\* that a rider who has not picked up may leave, and that a cancelled order may
\* come and go.  A delivered order is never shown as under way again.
ShownForward ==
  [][\A o \in Placed :
       LET was == SubStatus(order[o])
           now == SubStatus(order'[o])
       IN "cancelled" \in {was, now} \/ was = "rider_assigned" \/ Progress[now] >= Progress[was]]_vars

\* What the handlers refuse, they refuse for the row they have loaded.  Of the
\* refusals this much is left when they commit.
\* update_merchant_order_status and release_assignment refuse an order that has
\* been picked up: such an order is cancelled for the first time, or loses its
\* rider, only by a request that had loaded it before the pickup.
KeepsPickup ==
  \A o \in Orders :
    /\ "picked_up_at" \in order[o].stamps
    /\ \/ "cancelled_at" \notin order[o].stamps /\ order'[o].status = "cancelled"
       \/ order[o].rider_user_id \notin {NoRider, order'[o].rider_user_id}
    => \E q \in Requests :
         /\ ~Free(q) /\ sess'[q] # sess[q] /\ sess[q].ord = o
         /\ "picked_up_at" \notin sess[q].base.stamps

\* "delivered/cancelled are terminal" (orders/service.py:37): no handler gives
\* another status to an order it has loaded delivered or cancelled, so one that
\* changes after all is changed by a request that had loaded another status.
KeepsFinal ==
  \A o \in Orders :
    order[o].status \in {"delivered", "cancelled"} /\ order'[o].status # order[o].status
    => \E q \in Requests :
         /\ ~Free(q) /\ sess'[q] # sess[q] /\ sess[q].ord = o
         /\ sess[q].base.status # order[o].status

RefusalsKept == [][KeepsPickup /\ KeepsFinal]_vars

\* The parts of one response tell one story, in every state the racing requests
\* leave behind: the current event of the timeline is the sub-status, an
\* estimate to the customer is of an order that was picked up, and an order that
\* waits for its rider's pickup is in the list of that rider.
ViewsAgree ==
  \A o \in Placed :
    LET seen == Response(order[o]) IN
    /\ seen.subStatus # "cancelled" =>
         /\ seen.timeline[Progress[seen.subStatus]] = "current"
         /\ \A n \in 1..5 : seen.timeline[n] = "current" => n = Progress[seen.subStatus]
    /\ seen.eta = "customer" => seen.subStatus \in {"on_the_way", "delivered"}
    /\ seen.subStatus = "rider_assigned" => \E r \in Riders : seen.rider = r /\ o \in RiderOrders(r)
=============================================================================
