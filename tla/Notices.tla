------------------------------- MODULE Notices -------------------------------
(***************************************************************************)
(* Which parties of an order the endpoints of app/modules/orders/api.py    *)
(* tell of a step, and the inbox rows that app/modules/notifications keeps.*)
(*                                                                         *)
(* The order is one, with a customer, a restaurant (its merchant users are *)
(* one party) and a rider.  A request ("errand") writes a row of the inbox *)
(* and starts a push for one party after the other; module Push delivers.  *)
(***************************************************************************)
EXTENDS Integers, FiniteSets

CONSTANTS
  Errands,       \* requests that change the order, each served once
  Endpoints      \* what they may be, a subset of the endpoints below

Party == {"customer", "merchant", "rider"}

-----------------------------------------------------------------------------
(* The parties that each endpoint tells, and the event its rows are keyed by *)

CancelTells == {"merchant"}
CheckoutTells == {"customer", "merchant"}
AssignTells == Party
ClaimTells == Party
PickupTells == Party
DeliverTells == Party
ReleaseTells == {}
StatusTells == {"customer", "merchant"}        \* and the rider, if there is one

Tells(e) ==
  CASE e = "cancel" -> {CancelTells}
    [] e = "checkout" -> {CheckoutTells}
    [] e = "assign" -> {AssignTells}
    [] e = "claim" -> {ClaimTells}
    [] e = "picked-up" -> {PickupTells}
    [] e = "delivered" -> {DeliverTells}
    [] e = "release" -> {ReleaseTells}
    [] e = "status" -> {StatusTells, StatusTells \cup {"rider"}}

\* event_id names the order, the status and the audience: an order that is
\* assigned a second time reaches the same row.
EventKey(e) ==
  CASE e = "cancel" -> "cancelled"
    [] e = "checkout" -> "placed"
    [] e \in {"assign", "claim"} -> "rider_assigned"
    [] e = "release" -> "rider_released"
    [] e = "picked-up" -> "picked_up"
    [] e = "delivered" -> "delivered"
    [] e = "status" -> "preparing"

ASSUME EndpointsAssumption == Endpoints # {} /\ Endpoints \subseteq
  {"cancel", "checkout", "assign", "claim", "picked-up", "delivered", "release", "status"}

Keys == {EventKey(e) : e \in Endpoints}

VARIABLES
  errand,   \* how far each request is
  inbox,    \* the rows of "user_notifications": a party and an event key
  broker    \* whether the task queue accepts tasks

noticeVars == <<errand, inbox, broker>>

ErrandState == {"new", "row", "insert", "update", "push", "sync", "over", "died"}

\* "left": the parties still to be told, the one at work included; "missed": the
\* request had to deliver a push itself and a device did not take it.
NoticeTypeOK ==
  /\ errand \in [Errands ->
       [at : ErrandState, endpoint : Endpoints, left : SUBSET Party, missed : BOOLEAN]]
  /\ inbox \subseteq Party \X Keys
  /\ broker \in BOOLEAN

KeyOf(s) == EventKey(errand[s].endpoint)

\* The customer is told first, then the merchant, then the rider.
Turn(left) ==
  IF "customer" \in left THEN "customer" ELSE IF "merchant" \in left THEN "merchant" ELSE "rider"

-----------------------------------------------------------------------------
(* safe_send_order_notifications *)

\* The order is committed and the realtime events are published.
StartErrand(s, e, told) ==
  /\ errand[s].at = "new"
  /\ told \in Tells(e)
  /\ errand' = [errand EXCEPT ![s] =
       [at |-> IF told = {} THEN "over" ELSE "row", endpoint |-> e, left |-> told, missed |-> FALSE]]
  /\ UNCHANGED <<inbox, broker>>

\* upsert_user_notification looks for the row, then inserts or updates it.
RowLoad(s) ==
  LET p == Turn(errand[s].left) IN
  /\ errand[s].at = "row"
  /\ errand' = [errand EXCEPT ![s].at =
       IF <<p, KeyOf(s)>> \in inbox THEN "update" ELSE "insert"]
  /\ UNCHANGED <<inbox, broker>>

\* The unique key refuses a second row, which ends the notifications of the
\* errand; an update writes the texts only.
RowCommit(s) ==
  LET row == <<Turn(errand[s].left), KeyOf(s)>> IN
  /\ errand[s].at \in {"insert", "update"}
  /\ errand' = [errand EXCEPT ![s].at =
       IF errand[s].at = "insert" /\ row \in inbox THEN "over" ELSE "push"]
  /\ inbox' = inbox \cup {row}
  /\ UNCHANGED broker

OnwardOnce(s) ==
  LET left == errand[s].left \ {Turn(errand[s].left)} IN
  [errand EXCEPT ![s].left = left, ![s].at = IF "merchant" \in left THEN "row" ELSE "over"]

\* After a party, the next one.
Onward(s) ==
  LET left == errand[s].left \ {Turn(errand[s].left)} IN
  [errand EXCEPT ![s].left = left, ![s].at = IF left = {} THEN "over" ELSE "row"]

\* The task is enqueued; when the broker refuses it the request delivers the
\* push itself, and a device it misses ends the notifications of the errand.
Enqueue(s) ==
  /\ errand[s].at = "push"
  /\ \/ broker /\ errand' = Onward(s)
     \/ ~broker /\ errand' = [errand EXCEPT ![s].at = "sync"]
  /\ UNCHANGED <<inbox, broker>>

SyncDone(s, missed) ==
  /\ errand[s].at = "sync"
  /\ errand' = IF missed THEN [errand EXCEPT ![s].at = "over", ![s].missed = TRUE] ELSE Onward(s)
  /\ UNCHANGED <<inbox, broker>>

BrokerTurns == broker' = ~broker /\ UNCHANGED <<errand, inbox>>

\* The process ends in the middle of a request.
ErrandDies(s) ==
  /\ errand[s].at \notin {"new", "over", "died"}
  /\ errand' = [errand EXCEPT ![s].at = "died"]
  /\ UNCHANGED <<inbox, broker>>

-----------------------------------------------------------------------------

NoticeInit ==
  /\ errand = [s \in Errands |->
       [at |-> "new", endpoint |-> CHOOSE e \in Endpoints : TRUE, left |-> {}, missed |-> FALSE]]
  /\ inbox = {}
  /\ broker = TRUE

NoticeNext ==
  \/ \E s \in Errands :
       \/ \E e \in Endpoints, told \in SUBSET Party : StartErrand(s, e, told)
       \/ \E missed \in BOOLEAN : SyncDone(s, missed)
       \/ RowLoad(s) \/ RowCommit(s) \/ Enqueue(s) \/ ErrandDies(s)
  \/ BrokerTurns

NoticeSpec == NoticeInit /\ [][NoticeNext]_noticeVars

-----------------------------------------------------------------------------
(* Properties *)

\* A party is left untold only after another request made the same row at the
\* same time, or a push that the request had to deliver itself was missed: what
\* one of the parties' rows and pushes costs the others (safe_send_order_notifications).
UntoldHasCause ==
  \A s \in Errands : errand[s].at = "over" /\ errand[s].left # {} =>
    \/ errand[s].missed
    \/ \E r \in Errands \ {s} :
         KeyOf(r) = KeyOf(s) /\ <<Turn(errand[s].left), KeyOf(s)>> \in inbox
=============================================================================
