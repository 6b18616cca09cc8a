----------------------- MODULE OrderDispatchInvariant -----------------------
(***************************************************************************)
(* The inductive invariant of OrderDispatch.  A request writes what it     *)
(* computed from a snapshot, long after the row may have changed, so the   *)
(* invariants of the rows follow only from what is known of the snapshots  *)
(* in flight:                                                              *)
(*   - a snapshot was a consistent row when it was loaded (RowOK),         *)
(*   - a mark it shows is still on the row, marks being final (Known),     *)
(*   - "mine" differs from "base" in the handler's own columns (Changed),  *)
(*   - riders a request carries passed the check of its handler (Vetted).  *)
(***************************************************************************)
EXTENDS OrderDispatchRefines

RowOK(row) ==
  /\ "rider_assigned_at" \in row.stamps <=> row.rider_user_id # NoRider
  /\ row.status = "preparing" => "preparing_at" \in row.stamps
  /\ row.status = "delivered" => "delivered_at" \in row.stamps
  /\ row.status = "cancelled" => "cancelled_at" \in row.stamps

Known(base, row) == base.stamps \cap Final \subseteq row.stamps

Changed(s) ==
  /\ s.pc = "update" => \E new \in DOMAIN StampOf : s.mine = UpdatedRow(s.base, new)
  /\ s.pc \in {"survey", "check", "offer"} /\ s.mode = "inline" =>
       s.mine = UpdatedRow(s.base, "preparing")
  /\ s.pc = "event" => s.mine.status = "preparing"
  /\ s.pc \in {"survey", "check", "offer"} /\ s.mode = "own" => s.mine = s.base
  /\ s.pc \in {"rejecting", "expiring"} =>
       s.mine \in {s.base, [s.base EXCEPT !.state = "unassigned"]}
  /\ s.pc = "release" => s.mine = ReleasedRow(s.base) /\ s.base.rider_user_id # NoRider
  /\ s.pc = "assign" =>
       /\ s.mine = [s.base EXCEPT !.state = "offered_manual", !.round = @ + 1]
       /\ s.round \in Rounds
  /\ s.pc = "pickup" => s.mine = PickedUpRow(s.base)
  /\ s.pc = "deliver" => s.mine = DeliveredRow(s.base)
  /\ s.mode = "inline" => s.pc \in {"survey", "check", "offer", "event"}

\* The requests about one rider's offer, claim or assignment.
NamesRider ==
  {"claim", "accept", "assign", "release", "reject", "rejecting", "expire", "expiring"}

Addressed(s) ==
  /\ s.pc \in NamesRider => s.rdr \in Riders
  /\ s.pc \in {"accept", "reject", "rejecting", "expire", "expiring"} => s.round \in Rounds

Vetted(s) ==
  s.ord \in PrivateOnly =>
    /\ s.pc \in NamesRider => s.rdr \in Access
    /\ s.picks \subseteq Access

SessionOK(s, row) ==
  /\ RowOK(s.base)
  /\ Known(s.base, row)
  /\ Changed(s)
  /\ Addressed(s)
  /\ Vetted(s)
  /\ s.pc = "complete" => "delivered_at" \in row.stamps

RowsOK == \A o \in Orders : RowOK(order[o])

SessionsOK ==
  \A q \in Requests : sess[q] # Idle => SessionOK(sess[q], order[sess[q].ord])

\* The inductive invariant: every snapshot in flight is one a handler could
\* have made from a row that is older than the present one.
IInv ==
  /\ TypeOK
  /\ RowsOK
  /\ SessionsOK
  /\ PrivateOnlyTeam
  /\ AuditTruthful
  /\ SettledAfterDelivery
-----------------------------------------------------------------------------
(* How far an order has come: it is placed once, and never placed again,      *)
(* although every handler writes a status it chose from a snapshot.           *)

Stage(row) ==
  IF row.status = "absent" THEN 0 ELSE IF row.status = "placed" THEN 1 ELSE 2

\* Nothing has happened to an order that is still placed.
Untouched(row) == Stage(row) < 2 => row.stamps = {}

\* The snapshot of a request is no further than the row, the requests that
\* refuse a picked-up order have loaded the order before its pickup, and none
\* gives another status to an order it loaded delivered or cancelled.
StageOK(s, row) ==
  /\ Untouched(s.base)
  /\ Stage(s.base) <= Stage(row)
  /\ Stage(row) >= 1
  /\ s.pc \notin {"reject", "expire"} => s.base.status # "absent"
  /\ s.pc = "update" /\ s.mine.status = "cancelled" => "picked_up_at" \notin s.base.stamps
  /\ s.pc = "release" => "picked_up_at" \notin s.base.stamps
  /\ s.pc = "pickup" => Stage(s.base) = 2
  /\ s.base.status \in {"delivered", "cancelled"} => s.mine.status = s.base.status

RowsUntouched == \A o \in Orders : Untouched(order[o])

OffersOfPlaced ==
  \A o \in Orders, r \in Riders, k \in Rounds :
    offer[o][r][k] # "none" => order[o].status # "absent"

StagesOK ==
  \A q \in Requests : sess[q] # Idle => StageOK(sess[q], order[sess[q].ord])

\* Inductive together with IInv.
StageInv == RowsUntouched /\ OffersOfPlaced /\ StagesOK

WholeInv == IInv /\ StageInv
=============================================================================
