---------------------- MODULE OrderDispatchBoardProofs ----------------------
(***************************************************************************)
(* OrderDispatch implements DeliveryBoard, for any orders, riders and      *)
(* requests: each write of a request is a step of the board or leaves it   *)
(* unchanged.  What a write may do to rider and marks follows from the     *)
(* inductive invariant (its snapshot is older than the row).  From the     *)
(* same invariant: what the parties are shown of an order agrees.  A       *)
(* second part of it, how far row and snapshot have come, says when what   *)
(* is shown falls back and what is left of the refusals of the handlers.   *)
(***************************************************************************)
EXTENDS OrderDispatchProofs, OrderViews

StepOfBoard == [Board!BoardNext]_(Board!boardVars)

MarksSame(row, new) == new.stamps \cap Final = row.stamps \cap Final

\* Rider and marks of all orders as they were.
LEMMA BoardStutter ==
  ASSUME UNCHANGED <<order, settled>>
  PROVE  StepOfBoard
BY DEF StepOfBoard, Board!boardVars, HolderOf, MarksOf

\* A row is replaced by one with the same rider and at least its marks.
LEMMA BoardMarks ==
  ASSUME IInv, NEW o \in Orders, NEW row \in Row,
         order' = [order EXCEPT ![o] = row], UNCHANGED settled,
         row.rider_user_id = order[o].rider_user_id, Known(order[o], row)
  PROVE  StepOfBoard
<1> DEFINE new == row.stamps \cap Final
<1>1. HolderOf' = HolderOf
  BY DEF HolderOf, IInv, TypeOK
<1>2. MarksOf' = [MarksOf EXCEPT ![o] = MarksOf[o] \cup new]
  BY DEF MarksOf, Known, IInv, TypeOK
<1>3. new \in SUBSET Board!Marks
  BY DEF Board!Marks, Final
<1>4. Board!Mark(o, new)
  BY <1>1, <1>2 DEF Board!Mark
<1> QED BY <1>3, <1>4 DEF StepOfBoard, Board!BoardNext

\* A row is replaced by one without rider, or a free row by one with a rider.
LEMMA BoardHolder ==
  ASSUME IInv, NEW o \in Orders, NEW row \in Row,
         order' = [order EXCEPT ![o] = row], UNCHANGED settled,
         MarksSame(order[o], row),
         \/ row.rider_user_id = NoRider
         \/ order[o].rider_user_id = NoRider /\ row.rider_user_id \in Riders
  PROVE  StepOfBoard
<1>1. MarksOf' = MarksOf
  BY DEF MarksOf, MarksSame, IInv, TypeOK
<1>2. HolderOf' = [HolderOf EXCEPT ![o] = row.rider_user_id]
  BY DEF HolderOf, IInv, TypeOK
<1>3. CASE row.rider_user_id = NoRider
  BY <1>1, <1>2, <1>3 DEF StepOfBoard, Board!BoardNext, Board!HandBack
<1>4. CASE order[o].rider_user_id = NoRider /\ row.rider_user_id \in Riders
  <2>1. HolderOf[o] = NoRider  BY <1>4 DEF HolderOf
  <2>2. Board!Take(o, row.rider_user_id)
    BY <1>1, <1>2, <2>1 DEF Board!Take
  <2> QED BY <1>4, <2>2 DEF StepOfBoard, Board!BoardNext
<1> QED BY <1>3, <1>4

-----------------------------------------------------------------------------
(* The writes *)

\* accept_offer and rider_claim_order: the conditional update takes a free
\* order, and keeps the marks of the row although the status is a snapshot's.
LEMMA TakeOnBoard ==
  ASSUME IInv, NEW q \in Requests, AcceptWrite(q) \/ ClaimWrite(q)
  PROVE  StepOfBoard
<1> DEFINE s == sess[q]
           o == s.ord
           row(starts) == ClaimedRow(order[o], s.base, s.rdr, starts)
<1>1. PICK pc \in {"accept", "claim"} : At(q, pc)
  BY DEF AcceptWrite, ClaimWrite
<1>2. pc \in Pc  BY DEF Pc
<1>3. /\ o \in Orders /\ s.base \in Row /\ s.rdr \in Riders /\ order[o] \in Row
      /\ RowOK(order[o]) /\ RowOK(s.base) /\ Known(s.base, order[o])
  BY <1>1, <1>2, InFlight DEF Addressed, NamesRider
<1>4. UNCHANGED settled  BY DEF AcceptWrite, ClaimWrite
<1>5. CASE UNCHANGED order
  BY <1>4, <1>5, BoardStutter
<1>6. ASSUME NEW starts \in BOOLEAN, s.base.status = "placed" => starts,
             Unclaimed(o), order' = [order EXCEPT ![o] = row(starts)]
      PROVE  StepOfBoard
  <2>1. row(starts) \in Row /\ row(starts).rider_user_id = s.rdr
    BY <1>3, <1>6, Claimed
  <2>2. MarksSame(order[o], row(starts))
    BY <1>3 DEF MarksSame, ClaimedRow, Row, Final
  <2>3. order[o].rider_user_id = NoRider  BY <1>6 DEF Unclaimed
  <2> HIDE DEF row
  <2> QED BY <1>3, <1>4, <1>6, <2>1, <2>2, <2>3, BoardHolder
<1>7. ASSUME AcceptWrite(q)  PROVE StepOfBoard
  <2> DEFINE starts == s.base.status = "placed"
  <2>1. starts \in BOOLEAN /\ (s.base.status = "placed" => starts)  OBVIOUS
  <2>2. UNCHANGED order \/ (Unclaimed(o) /\ order' = [order EXCEPT ![o] = row(starts)])
    BY <1>7 DEF AcceptWrite
  <2> HIDE DEF starts, row
  <2> QED BY <1>5, <1>6, <2>1, <2>2
<1>8. ASSUME ClaimWrite(q)  PROVE StepOfBoard
  <2> DEFINE starts == s.base.status \in {"placed", "preparing"}
  <2>1. starts \in BOOLEAN /\ (s.base.status = "placed" => starts)  OBVIOUS
  <2>2. UNCHANGED order \/ (Unclaimed(o) /\ order' = [order EXCEPT ![o] = row(starts)])
    BY <1>8 DEF ClaimWrite
  <2> HIDE DEF starts, row
  <2> QED BY <1>5, <1>6, <2>1, <2>2
<1> QED BY <1>7, <1>8

\* release_assignment may write onto a row that was released and taken again:
\* still a job that becomes free.
LEMMA ReleaseOnBoard ==
  ASSUME IInv, NEW q \in Requests, ReleaseWrite(q)
  PROVE  StepOfBoard
<1> DEFINE s   == sess[q]
           o   == s.ord
           row == Merge(order[o], s.base, s.mine)
<1>1. At(q, "release") /\ order' = [order EXCEPT ![o] = row] /\ UNCHANGED settled
  BY DEF ReleaseWrite
<1>2. "release" \in Pc  BY DEF Pc
<1>3. /\ o \in Orders /\ s.base \in Row /\ order[o] \in Row
      /\ RowOK(order[o]) /\ RowOK(s.base)
      /\ s.mine = ReleasedRow(s.base) /\ s.base.rider_user_id # NoRider
  BY <1>1, <1>2, InFlight DEF Changed
<1>4. row \in Row /\ row.rider_user_id = NoRider
  BY <1>3, MergeReleased
<1>5. s.mine.stamps = s.base.stamps \ {"rider_assigned_at"}
  BY <1>3 DEF ReleasedRow, Row
<1>6. MarksSame(order[o], row)
  BY <1>5 DEF MarksSame, Merge, Final
<1> HIDE DEF row
<1> QED BY <1>1, <1>3, <1>4, <1>6, BoardHolder

\* Flushes of a loaded row: rider as it was, marks added.
LEMMA FlushOnBoard ==
  ASSUME IInv, NEW q \in Requests,
         \/ UpdateStatusWrite(q) \/ AssignWrite(q) \/ PickUpWrite(q) \/ DeliverWrite(q)
         \/ RejectCommit(q) \/ ExpireCommit(q)
  PROVE  StepOfBoard
<1> DEFINE s   == sess[q]
           o   == s.ord
           row == Merge(order[o], s.base, s.mine)
<1>1. UNCHANGED settled
  BY DEF UpdateStatusWrite, AssignWrite, PickUpWrite, DeliverWrite, RejectCommit, ExpireCommit,
         Decline
<1>2. CASE UNCHANGED order
  BY <1>1, <1>2, BoardStutter
<1>3. CASE order' = [order EXCEPT ![o] = row]
  <2>1. PICK pc \in {"update", "assign", "pickup", "deliver", "rejecting", "expiring"} :
          At(q, pc) /\ (pc = "update" => s.mine.status # "preparing")
    BY DEF UpdateStatusWrite, AssignWrite, PickUpWrite, DeliverWrite, RejectCommit,
           ExpireCommit
  <2>2. pc \in Pc  BY DEF Pc
  <2>3. /\ o \in Orders /\ s.pc = pc /\ s.base \in Row /\ s.mine \in Row /\ order[o] \in Row
        /\ RowOK(order[o]) /\ RowOK(s.base) /\ Known(s.base, order[o]) /\ Changed(s)
    BY <2>1, <2>2, InFlight
  <2>4. row \in Row /\ Known(order[o], row) /\ row.rider_user_id = order[o].rider_user_id
    <3>1. CASE pc = "update"
      <4>1. PICK new \in DOMAIN StampOf : s.mine = UpdatedRow(s.base, new)
        BY <2>3, <3>1 DEF Changed
      <4>2. s.mine.status = new  BY <2>3, <4>1 DEF UpdatedRow, Row
      <4>3. new \in {"delivered", "cancelled"}  BY <2>1, <3>1, <4>2 DEF StampOf
      <4> QED BY <2>3, <4>1, <4>3, MergeUpdated
    <3>2. CASE pc = "deliver"
      <4>1. s.mine = DeliveredRow(s.base)  BY <2>3, <3>2 DEF Changed
      <4> QED BY <2>3, <4>1, MergeDelivered
    <3>3. CASE pc = "pickup"
      <4>1. /\ s.mine.status = s.base.status /\ s.mine.rider_user_id = s.base.rider_user_id
            /\ s.mine.stamps = s.base.stamps \cup {"picked_up_at"}
        BY <2>3, <3>3 DEF Changed, PickedUpRow, Row
      <4>2. s.mine.stamps \in {s.base.stamps, s.base.stamps \cup {"picked_up_at"}}
        BY <4>1
      <4>3. order[o] \in Row /\ s.base \in Row /\ s.mine \in Row /\ RowOK(order[o])
        BY <2>3
      <4> QED BY <4>1, <4>2, <4>3, MergeQuiet
    <3>4. CASE pc \in {"assign", "rejecting", "expiring"}
      <4>1. /\ s.mine.status = s.base.status /\ s.mine.rider_user_id = s.base.rider_user_id
            /\ s.mine.stamps = s.base.stamps
        BY <2>3, <3>4 DEF Changed, Row
      <4>2. s.mine.stamps \in {s.base.stamps, s.base.stamps \cup {"picked_up_at"}}
        BY <4>1
      <4>3. order[o] \in Row /\ s.base \in Row /\ s.mine \in Row /\ RowOK(order[o])
        BY <2>3
      <4> QED BY <4>1, <4>2, <4>3, MergeQuiet
    <3> QED BY <3>1, <3>2, <3>3, <3>4
  <2> HIDE DEF row
  <2> QED BY <1>1, <1>3, <2>3, <2>4, BoardMarks
<1> QED
  BY <1>2, <1>3 DEF UpdateStatusWrite, AssignWrite, PickUpWrite, DeliverWrite, RejectCommit,
                    ExpireCommit, Decline

\* The commits of a dispatch.
LEMMA DispatchOnBoard ==
  ASSUME IInv, NEW q \in Requests, CheckPending(q) \/ OfferRound(q)
  PROVE  StepOfBoard
<1> DEFINE s == sess[q]
           o == s.ord
<1>1. UNCHANGED settled
  BY DEF CheckPending, OfferRound
<1>2. CASE UNCHANGED order
  BY <1>1, <1>2, BoardStutter
<1>3. ASSUME NEW pc \in {"check", "offer"}, At(q, pc), NEW row \in Row,
             row.status = s.mine.status, row.rider_user_id = s.mine.rider_user_id,
             row.stamps = s.mine.stamps,
             order' = [order EXCEPT ![o] = Flushed(s, row)]
      PROVE  StepOfBoard
  <2> DEFINE new == Flushed(s, row)
  <2>1. pc \in Pc  BY DEF Pc
  <2>2. o \in Orders  BY <1>3, <2>1, InFlight
  <2>3. new \in Row /\ Known(order[o], new) /\ new.rider_user_id = order[o].rider_user_id
    BY <1>3, FlushedOK
  <2> HIDE DEF new
  <2>4. order' = [order EXCEPT ![o] = new]  BY <1>3 DEF new
  <2> QED BY <1>1, <2>2, <2>3, <2>4, BoardMarks
<1>4. ASSUME CheckPending(q)  PROVE StepOfBoard
  <2>1. At(q, "check") /\ "check" \in Pc  BY <1>4 DEF CheckPending, Pc
  <2>2. s.mine \in Row  BY <2>1, InFlight
  <2> QED BY <1>2, <1>3, <1>4, <2>1, <2>2 DEF CheckPending
<1>5. ASSUME OfferRound(q)  PROVE StepOfBoard
  <2> DEFINE row == DispatchRow(o, s.mine, s.picks)
  <2>1. At(q, "offer") /\ "offer" \in Pc /\ (s.picks # {} => s.mine.round < MaxRound)
    BY <1>5 DEF OfferRound, Pc
  <2>2. s.mine \in Row /\ s.picks \in SUBSET Riders /\ o \in Orders
    BY <2>1, InFlight
  <2>3. row \in Row  BY <2>1, <2>2, DispatchRowType
  <2>4. row.status = s.mine.status /\ row.rider_user_id = s.mine.rider_user_id
        /\ row.stamps = s.mine.stamps
    BY <2>2 DEF DispatchRow, Row
  <2>5. UNCHANGED order \/ order' = [order EXCEPT ![o] = Flushed(s, row)]
    BY <1>5 DEF OfferRound
  <2> HIDE DEF row
  <2> QED BY <1>2, <1>3, <2>1, <2>3, <2>4, <2>5
<1> QED BY <1>4, <1>5

\* compute_settlement_for_order: only for an order that is marked delivered.
LEMMA PayOnBoard ==
  ASSUME IInv, NEW q \in Requests, Complete(q)
  PROVE  StepOfBoard
<1> DEFINE o == sess[q].ord
<1>1. At(q, "complete") /\ "complete" \in Pc /\ UNCHANGED order
  BY DEF Complete, Pc
<1>2. o \in Orders /\ "delivered_at" \in order[o].stamps
  BY <1>1, InFlight DEF SessionOK
<1>3. HolderOf' = HolderOf /\ MarksOf' = MarksOf
  BY <1>1 DEF HolderOf, MarksOf
<1>4. CASE UNCHANGED settled
  BY <1>1, <1>4, BoardStutter
<1>5. CASE settled' = settled \cup {o}
  <2>1. "delivered_at" \in MarksOf[o]  BY <1>2 DEF MarksOf, Final
  <2>2. Board!Pay(o)  BY <1>3, <1>5, <2>1 DEF Board!Pay
  <2> QED BY <1>2, <2>2 DEF StepOfBoard, Board!BoardNext
<1> QED BY <1>4, <1>5 DEF Complete

LEMMA CustomerOnBoard ==
  ASSUME IInv, NEW o \in Orders, CancelOrder(o) \/ \E q \in Requests : PlaceOrder(q, o)
  PROVE  StepOfBoard
<1> DEFINE placed    == [order[o] EXCEPT !.status = "placed"]
           cancelled == [order[o] EXCEPT !.status = "cancelled", !.stamps = @ \cup {"cancelled_at"}]
<1>1. order[o] \in Row  BY Loaded
<1>2. CASE CancelOrder(o)
  <2>1. order' = [order EXCEPT ![o] = cancelled] /\ UNCHANGED settled
    BY <1>2 DEF CancelOrder, IInv, TypeOK
  <2>2. cancelled \in Row /\ cancelled.rider_user_id = order[o].rider_user_id
        /\ Known(order[o], cancelled)
    BY <1>1 DEF Row, Status, Stamps, Known
  <2> HIDE DEF cancelled
  <2> QED BY <2>1, <2>2, BoardMarks
<1>3. CASE \E q \in Requests : PlaceOrder(q, o)
  <2>1. order' = [order EXCEPT ![o] = placed] /\ UNCHANGED settled
    BY <1>3 DEF PlaceOrder
  <2>2. placed \in Row /\ placed.rider_user_id = order[o].rider_user_id
        /\ Known(order[o], placed)
    BY <1>1 DEF Row, Status, Known
  <2> HIDE DEF placed
  <2> QED BY <2>1, <2>2, BoardMarks
<1> QED BY <1>2, <1>3

-----------------------------------------------------------------------------
(* The refinement *)

LEMMA NextOnBoard ==
  ASSUME IInv, [Next]_vars
  PROVE  StepOfBoard
<1>1. ASSUME NEW q \in Requests, Continue(q)
      PROVE  StepOfBoard
  <2>1. CASE \/ UpdateStatusPreparing(q) \/ RecordEvent(q) \/ RejectFlush(q) \/ ExpireFlush(q)
             \/ \E online \in SUBSET Riders : Survey(q, online)
    BY <2>1, BoardStutter
       DEF UpdateStatusPreparing, RecordEvent, RejectFlush, ExpireFlush, Survey
  <2> QED
    BY <1>1, <2>1, TakeOnBoard, ReleaseOnBoard, FlushOnBoard, DispatchOnBoard, PayOnBoard
       DEF Continue
<1>2. ASSUME NEW q \in Requests, Arrive(q) \/ Expire(q) \/ Abort(q)
      PROVE  StepOfBoard
  <2>1. CASE Expire(q) \/ Abort(q)
    BY <2>1, BoardStutter DEF Expire, ExpireRead, Abort
  <2>2. ASSUME NEW o \in Orders, Merchant(q, o)
        PROVE  StepOfBoard
    BY <2>2, BoardStutter DEF Merchant, UpdateStatusRead, AssignRead
  <2>3. ASSUME NEW o \in Orders, NEW r \in Riders, Rider(q, o, r)
        PROVE  StepOfBoard
    BY <2>3, BoardStutter
       DEF Rider, ClaimRead, AcceptRead, RejectRead, ReleaseRead, PickUpRead, DeliverRead
  <2> QED BY <1>2, <2>1, <2>2, <2>3, CustomerOnBoard DEF Arrive
<1>3. CASE Lapse
  BY <1>3, BoardStutter DEF Lapse, LapseOffer
<1>4. CASE UNCHANGED vars
  BY <1>4, BoardStutter DEF vars
<1> QED BY <1>1, <1>2, <1>3, <1>4, CustomerOnBoard DEF Next

\* The requests implement the board: no rider is replaced by another, no mark
\* is lost and nothing undelivered is settled, whatever the interleaving.
THEOREM Refinement == Spec => IsABoard
<1>1. Init => Board!BoardInit
  BY DEF Init, Board!BoardInit, HolderOf, MarksOf, AbsentRow
<1>2. IInv /\ [Next]_vars => [Board!BoardNext]_(Board!boardVars)
  BY NextOnBoard DEF StepOfBoard
<1> QED BY <1>1, <1>2, Invariant, PTL DEF Spec, IsABoard, Board!BoardSpec

-----------------------------------------------------------------------------
(* What the parties are shown *)

\* The sub-status and the timeline read the same marks in the same order.
LEMMA CurrentIsSubStatus ==
  ASSUME NEW row, SubStatus(row) # "cancelled"
  PROVE  /\ row.status # "cancelled"
         /\ CurrentRank(row) = Progress[SubStatus(row)]
         /\ CurrentRank(row) \in 1..5
BY DEF SubStatus, CurrentRank, Progress

LEMMA CurrentInTimeline ==
  ASSUME NEW row, row.status # "cancelled", NEW n \in 1..5
  PROVE  /\ n = CurrentRank(row) => Timeline(row)[n] = "current"
         /\ Timeline(row)[n] = "current" => n = CurrentRank(row)
<1>1. CurrentRank(row) \in 1..5
  BY DEF CurrentRank
<1> QED
  BY <1>1 DEF Timeline

\* For any number of orders, riders and requests: sub-status, timeline, estimate
\* and the rider's list of one response tell one story (_derive_sub_status,
\* _build_timeline, _live_eta_minutes, get_rider_orders).
THEOREM ViewsAgreeAlways == Spec => []ViewsAgree
<1>1. ASSUME IInv  PROVE ViewsAgree
  <2> SUFFICES ASSUME NEW o \in Placed
               PROVE  LET seen == Response(order[o]) IN
                      /\ seen.subStatus # "cancelled" =>
                           /\ seen.timeline[Progress[seen.subStatus]] = "current"
                           /\ \A n \in 1..5 :
                                seen.timeline[n] = "current" => n = Progress[seen.subStatus]
                      /\ seen.eta = "customer" => seen.subStatus \in {"on_the_way", "delivered"}
                      /\ seen.subStatus = "rider_assigned" =>
                           \E r \in Riders : seen.rider = r /\ o \in RiderOrders(r)
    BY DEF ViewsAgree
  <2> DEFINE row == order[o]
             seen == Response(row)
  <2>1. o \in Orders /\ row \in Row /\ RowOK(row)
    BY <1>1 DEF Placed, IInv, TypeOK, RowsOK
  <2>2. /\ seen.subStatus = SubStatus(row) /\ seen.timeline = Timeline(row)
        /\ seen.eta = EtaTarget(row) /\ seen.rider = row.rider_user_id
    BY DEF Response
  <2>3. ASSUME SubStatus(row) # "cancelled"
        PROVE  /\ Timeline(row)[Progress[SubStatus(row)]] = "current"
               /\ \A n \in 1..5 : Timeline(row)[n] = "current" => n = Progress[SubStatus(row)]
    <3> HIDE DEF row
    <3> QED BY <2>3, CurrentIsSubStatus, CurrentInTimeline
  <2>4. EtaTarget(row) = "customer" => SubStatus(row) \in {"on_the_way", "delivered"}
    BY DEF EtaTarget, SubStatus
  <2>5. ASSUME SubStatus(row) = "rider_assigned"
        PROVE  row.rider_user_id \in Riders /\ o \in RiderOrders(row.rider_user_id)
    <3>1. "rider_assigned_at" \in row.stamps
      BY <2>5 DEF SubStatus
    <3>2. row.rider_user_id # NoRider
      BY <2>1, <3>1 DEF RowOK
    <3>3. row.rider_user_id \in Riders
      BY <2>1, <3>2 DEF Row, Holder
    <3> QED BY <3>3 DEF RiderOrders
  <2> HIDE DEF row, seen
  <2>6. seen.subStatus = "rider_assigned" => \E r \in Riders : seen.rider = r /\ o \in RiderOrders(r)
    BY <2>2, <2>5
  <2>7. /\ seen.subStatus # "cancelled" =>
             /\ seen.timeline[Progress[seen.subStatus]] = "current"
             /\ \A n \in 1..5 : seen.timeline[n] = "current" => n = Progress[seen.subStatus]
        /\ seen.eta = "customer" => seen.subStatus \in {"on_the_way", "delivered"}
    BY <2>2, <2>3, <2>4
  <2> QED BY <2>6, <2>7 DEF row, seen
<1> QED
  BY <1>1, Invariant, PTL
-----------------------------------------------------------------------------
(* How far an order has come *)

LEMMA Stages ==
  ASSUME NEW row
  PROVE  /\ Stage(row) \in 0..2
         /\ Stage(row) = 2 <=> row.status \notin {"absent", "placed"}
         /\ Stage(row) >= 1 <=> row.status # "absent"
BY DEF Stage

LEMMA SameStage ==
  ASSUME NEW a, NEW b, a.status = b.status
  PROVE  Stage(a) = Stage(b)
BY DEF Stage

\* A flush that writes a status or adds a timestamp is of an order under way.
LEMMA MergeStage ==
  ASSUME NEW db, NEW base, NEW mine, Untouched(db), Stage(base) <= Stage(db),
         mine.status # base.status \/ ~(mine.stamps \subseteq base.stamps) => Stage(mine) = 2
  PROVE  Untouched(Merge(db, base, mine)) /\ Stage(db) <= Stage(Merge(db, base, mine))
<1> DEFINE row == Merge(db, base, mine)
<1>1. /\ row.stamps = (db.stamps \ (base.stamps \ mine.stamps)) \cup (mine.stamps \ base.stamps)
      /\ row.status = IF mine.status = base.status THEN db.status ELSE mine.status
  BY DEF Merge, Dirty
<1> HIDE DEF row
<1>2. Stage(row) \in 0..2 /\ Stage(db) \in 0..2 /\ Stage(base) \in 0..2  BY Stages
<1>3. CASE mine.status # base.status
  <2>1. Stage(row) = Stage(mine)  BY <1>1, <1>3, SameStage
  <2> QED BY <1>2, <1>3, <2>1 DEF Untouched, row
<1>4. CASE mine.status = base.status
  <2>1. Stage(row) = Stage(db) /\ Stage(mine) = Stage(base)  BY <1>1, <1>4, SameStage
  <2>2. CASE mine.stamps \subseteq base.stamps
    <3>1. row.stamps \subseteq db.stamps  BY <1>1, <2>2
    <3> QED BY <1>2, <2>1, <3>1 DEF Untouched, row
  <2>3. CASE ~(mine.stamps \subseteq base.stamps)
    <3>1. Stage(row) = 2  BY <1>2, <2>1, <2>3
    <3> QED BY <1>2, <2>1, <3>1 DEF Untouched, row
  <2> QED BY <2>2, <2>3
<1> QED BY <1>3, <1>4

\* What a write makes of a row, with what its request had loaded.
Advances(s, old, new) ==
  /\ Untouched(new)
  /\ Stage(old) <= Stage(new)
  /\ "preparing_at" \in old.stamps =>
       new.stamps \cap {"preparing_at", "rider_assigned_at"} # {}
  /\ /\ "picked_up_at" \in old.stamps
     /\ \/ "cancelled_at" \notin old.stamps /\ new.status = "cancelled"
        \/ old.rider_user_id \notin {NoRider, new.rider_user_id}
     => "picked_up_at" \notin s.base.stamps
  /\ old.status \in {"delivered", "cancelled"} /\ new.status # old.status
     => s.base.status # old.status

\* New offers are of an order that was placed.
OffersFrom(o, row) ==
  \A p \in Orders, r \in Riders, k \in Rounds :
    (offer')[p][r][k] # "none" => offer[p][r][k] # "none" \/ (p = o /\ row.status # "absent")

\* A request that has written goes on with what it held.
GoesOn(s, t) ==
  t # Idle =>
    /\ t.ord = s.ord
    /\ t.pc \in {"complete", "survey", "check", "offer", "event"}
    /\ t.base.status = s.base.status /\ t.base.stamps \subseteq s.base.stamps
    /\ t.base.status # "absent"
    /\ t.base.status \in {"delivered", "cancelled"} => t.mine.status = t.base.status

\* The sessions and offers of the other orders, and of the same one, are still
\* of orders that have come as far.
LEMMA StageWrite ==
  ASSUME IInv, StageInv, NEW q \in Requests, NEW o \in Orders, NEW row \in Row,
         order' = [order EXCEPT ![o] = row],
         Untouched(row), Stage(order[o]) <= Stage(row),
         OffersFrom(o, row),
         NEW t, sess' = [sess EXCEPT ![q] = t],
         t # Idle => t.ord = o /\ StageOK(t, row)
  PROVE  StageInv'
<1>1. /\ (order')[o] = row
      /\ \A p \in Orders : p # o => (order')[p] = order[p]
      /\ (sess')[q] = t
      /\ \A p \in Requests : p # q => (sess')[p] = sess[p]
  BY DEF IInv, TypeOK
<1>2. ASSUME NEW p \in Orders
      PROVE  Stage(order[p]) <= Stage((order')[p]) /\ Untouched((order')[p])
  <2>1. CASE p = o  BY <1>1, <2>1
  <2>2. CASE p # o
    <3>1. (order')[p] = order[p]  BY <1>1, <2>2
    <3>2. Stage(order[p]) \in 0..2  BY Stages
    <3> QED BY <3>1, <3>2 DEF StageInv, RowsUntouched
  <2> QED BY <2>1, <2>2
<1>3. RowsUntouched'
  BY <1>2 DEF RowsUntouched
<1>4. OffersOfPlaced'
  <2> SUFFICES ASSUME NEW p \in Orders, NEW r \in Riders, NEW k \in Rounds,
                      (offer')[p][r][k] # "none"
               PROVE  (order')[p].status # "absent"
    BY DEF OffersOfPlaced
  <2>1. CASE p = o /\ row.status # "absent"  BY <1>1, <2>1
  <2>2. CASE offer[p][r][k] # "none"
    <3>1. order[p].status # "absent"  BY <2>2 DEF StageInv, OffersOfPlaced
    <3>2. Stage(order[p]) >= 1 /\ Stage(order[p]) \in 0..2  BY <3>1, Stages
    <3>3. Stage((order')[p]) >= 1  BY <1>2, <3>2, Stages
    <3> QED BY <3>3, Stages
  <2> QED BY <2>1, <2>2 DEF OffersFrom
<1>5. StagesOK'
  <2> SUFFICES ASSUME NEW p \in Requests, (sess')[p] # Idle
               PROVE  StageOK((sess')[p], (order')[(sess')[p].ord])
    BY DEF StagesOK
  <2>1. CASE p = q  BY <1>1, <2>1
  <2>2. CASE p # q
    <3>1. (sess')[p] = sess[p]  BY <1>1, <2>2
    <3>2. sess[p].ord \in Orders  BY <3>1 DEF IInv, TypeOK, Session
    <3>3. StageOK(sess[p], order[sess[p].ord])  BY <3>1 DEF StageInv, StagesOK
    <3>4. /\ Stage(sess[p].base) <= Stage((order')[sess[p].ord])
          /\ Stage((order')[sess[p].ord]) >= 1
      <4>1. /\ Stage(sess[p].base) <= Stage(order[sess[p].ord])
            /\ Stage(order[sess[p].ord]) <= Stage((order')[sess[p].ord])
            /\ Stage(order[sess[p].ord]) >= 1
        BY <1>2, <3>2, <3>3 DEF StageOK
      <4>2. /\ Stage(sess[p].base) \in 0..2 /\ Stage(order[sess[p].ord]) \in 0..2
            /\ Stage((order')[sess[p].ord]) \in 0..2
        BY Stages
      <4> QED BY <4>1, <4>2
    <3> QED BY <3>1, <3>3, <3>4 DEF StageOK
  <2> QED BY <2>1, <2>2
<1> QED BY <1>3, <1>4, <1>5 DEF StageInv

\* The same for a request that only moves.
LEMMA StageMove ==
  ASSUME IInv, StageInv, NEW q \in Requests, NEW t, sess' = [sess EXCEPT ![q] = t],
         t # Idle => t.ord \in Orders /\ StageOK(t, order[t.ord]),
         UNCHANGED <<order, offer>>
  PROVE  StageInv'
<1>1. ASSUME NEW p \in Requests, (sess')[p] # Idle
      PROVE  StageOK((sess')[p], (order')[(sess')[p].ord])
  <2>1. CASE p = q  BY <1>1, <2>1 DEF IInv, TypeOK
  <2>2. CASE p # q  BY <1>1, <2>2 DEF IInv, TypeOK, StageInv, StagesOK
  <2> QED BY <2>1, <2>2
<1> QED BY <1>1 DEF StageInv, RowsUntouched, OffersOfPlaced, StagesOK

LEMMA StageEnd ==
  ASSUME IInv, StageInv, NEW q \in Requests, End(q), UNCHANGED <<order, offer>>
  PROVE  StageInv'
BY StageMove DEF End

\* What is known of the snapshot of a request under way.
LEMMA StageInFlight ==
  ASSUME IInv, StageInv, NEW q \in Requests, NEW pc \in Pc, At(q, pc)
  PROVE  /\ StageOK(sess[q], order[sess[q].ord])
         /\ Untouched(sess[q].base)
         /\ Stage(sess[q].base) <= Stage(order[sess[q].ord])
         /\ Untouched(order[sess[q].ord])
         /\ Stage(order[sess[q].ord]) >= 1 /\ order[sess[q].ord].status # "absent"
         /\ sess[q].pc = pc
BY InFlight, Stages DEF StageInv, StagesOK, StageOK, RowsUntouched

\* A row with a rider is of an order under way.
LEMMA RiderUnderWay ==
  ASSUME NEW row, RowOK(row), Untouched(row), row.rider_user_id # NoRider
  PROVE  Stage(row) = 2
<1>1. row.stamps # {}  BY DEF RowOK
<1> QED BY <1>1, Stages DEF Untouched

LEMMA StageBegin ==
  ASSUME IInv, StageInv, NEW q \in Requests, NEW pc, NEW o \in Orders, NEW r, NEW k,
         NEW base, NEW mine, base \in {order[o], AbsentRow},
         Begin(q, pc, o, r, k, base, mine), UNCHANGED <<order, offer>>,
         order[o].status # "absent",
         pc \notin {"reject", "expire"} => base.status # "absent",
         pc = "update" /\ mine.status = "cancelled" => "picked_up_at" \notin base.stamps,
         pc = "release" => "picked_up_at" \notin base.stamps,
         pc = "pickup" => Stage(base) = 2,
         base.status \in {"delivered", "cancelled"} => mine.status = base.status
  PROVE  StageInv'
<1> DEFINE t == [pc |-> pc, ord |-> o, rdr |-> r, round |-> k,
                 base |-> base, mine |-> mine, picks |-> {}, mode |-> "own"]
<1>1. sess' = [sess EXCEPT ![q] = t]  BY DEF Begin
<1>2. Untouched(base) /\ Stage(base) <= Stage(order[o]) /\ Stage(order[o]) >= 1
  <2>1. Stage(order[o]) \in 0..2 /\ Stage(order[o]) >= 1  BY Stages
  <2>2. CASE base = order[o]  BY <2>1, <2>2 DEF StageInv, RowsUntouched
  <2>3. CASE base = AbsentRow
    <3>1. Stage(AbsentRow) = 0 /\ Untouched(AbsentRow)  BY DEF AbsentRow, Stage, Untouched
    <3> QED BY <2>1, <2>3, <3>1
  <2> QED BY <2>2, <2>3
<1>3. t.ord = o /\ t.base = base /\ t.mine = mine /\ t.pc = pc  OBVIOUS
<1> HIDE DEF t
<1>4. StageOK(t, order[o])  BY <1>2, <1>3 DEF StageOK
<1> QED BY <1>1, <1>3, <1>4, StageMove
\* The requests that read, and those that only move on.
LEMMA ReadStage ==
  ASSUME IInv, StageInv, NEW q \in Requests, NEW o \in Orders,
         \/ \E new \in {"preparing", "delivered", "cancelled"} : UpdateStatusRead(q, o, new)
         \/ \E r \in Riders, online \in SUBSET Riders :
              AssignRead(q, o, r, online) \/ ClaimRead(q, o, r, online)
         \/ \E r \in Riders, k \in Rounds :
              AcceptRead(q, o, r, k) \/ RejectRead(q, o, r, k) \/ ExpireRead(q, o, r, k)
         \/ \E r \in Riders : ReleaseRead(q, o, r) \/ PickUpRead(q, o, r) \/ DeliverRead(q, o, r)
  PROVE  StageInv'
<1> DEFINE row == order[o]
<1>1. ASSUME NEW new \in {"preparing", "delivered", "cancelled"}, UpdateStatusRead(q, o, new)
      PROVE  StageInv'
  <2>1. UpdatedRow(row, new).status = new  BY Loaded DEF UpdatedRow, Row
  <2>2. row.status # "absent"
    BY <1>1 DEF UpdateStatusRead, MerchantTransitions
  <2>3. new = "cancelled" => "picked_up_at" \notin row.stamps
    BY <1>1 DEF UpdateStatusRead
  <2>4. Begin(q, "update", o, NoRider, 0, row, UpdatedRow(row, new)) /\ UNCHANGED <<order, offer>>
    BY <1>1 DEF UpdateStatusRead
  <2>5. row.status \in {"delivered", "cancelled"} => new = row.status
    BY <1>1 DEF UpdateStatusRead, MerchantTransitions
  <2> QED BY <2>1, <2>2, <2>3, <2>4, <2>5, StageBegin
<1>2. ASSUME NEW r \in Riders, NEW online \in SUBSET Riders, AssignRead(q, o, r, online)
      PROVE  StageInv'
  BY <1>2, StageBegin DEF AssignRead
<1>3. ASSUME NEW r \in Riders, NEW online \in SUBSET Riders, ClaimRead(q, o, r, online)
      PROVE  StageInv'
  BY <1>3, StageBegin DEF ClaimRead
<1>4. ASSUME NEW r \in Riders, NEW k \in Rounds, AcceptRead(q, o, r, k)
      PROVE  StageInv'
  <2>1. row.status # "absent"
    BY <1>4 DEF AcceptRead, StageInv, OffersOfPlaced, StillPending
  <2> QED BY <1>4, <2>1, StageBegin DEF AcceptRead
<1>5. ASSUME NEW r \in Riders, NEW k \in Rounds, RejectRead(q, o, r, k) \/ ExpireRead(q, o, r, k)
      PROVE  StageInv'
  <2>1. row.status # "absent"
    BY <1>5 DEF RejectRead, ExpireRead, StageInv, OffersOfPlaced, StillPending
  <2> QED BY <1>5, <2>1, StageBegin DEF RejectRead, ExpireRead
<1>6. ASSUME NEW r \in Riders, row.rider_user_id = r
      PROVE  row.status # "absent" /\ Stage(row) = 2
  <2>1. RowOK(row) /\ row.rider_user_id # NoRider /\ Untouched(row)
    BY <1>6, Loaded, NoRiderAssumption DEF StageInv, RowsUntouched
  <2> QED BY <2>1, RiderUnderWay, Stages
<1>7. /\ ReleasedRow(row).status = row.status /\ PickedUpRow(row).status = row.status
      /\ DeliveredRow(row).status = "delivered"
  BY Loaded DEF ReleasedRow, PickedUpRow, DeliveredRow, Row
<1>8. ASSUME NEW r \in Riders, ReleaseRead(q, o, r)
      PROVE  StageInv'
  BY <1>6, <1>8, <1>7, StageBegin DEF ReleaseRead
<1>9. ASSUME NEW r \in Riders, PickUpRead(q, o, r)
      PROVE  StageInv'
  BY <1>6, <1>9, <1>7, StageBegin DEF PickUpRead
<1>10. ASSUME NEW r \in Riders, DeliverRead(q, o, r)
      PROVE  StageInv'
  BY <1>6, <1>10, <1>7, StageBegin DEF DeliverRead
<1> QED BY <1>1, <1>2, <1>3, <1>4, <1>5, <1>8, <1>9, <1>10

LEMMA MoveStage ==
  ASSUME IInv, StageInv, NEW q \in Requests,
         \/ UpdateStatusPreparing(q) \/ RecordEvent(q) \/ Complete(q)
         \/ RejectFlush(q) \/ ExpireFlush(q)
         \/ \E online \in SUBSET Riders : Survey(q, online)
  PROVE  StageInv'
<1> DEFINE s == sess[q]
<1>1. CASE RecordEvent(q) \/ Complete(q)
  BY <1>1, StageEnd DEF RecordEvent, Complete
<1>2. CASE RejectFlush(q) \/ ExpireFlush(q)
  <2>1. PICK pc \in {"reject", "expire"} : At(q, pc)
    BY <1>2 DEF RejectFlush, ExpireFlush
  <2>2. pc \in Pc  BY DEF Pc
  <2>3. s.ord \in Orders /\ order[s.ord].status # "absent"
    BY <2>1, <2>2, InFlight, StageInFlight
  <2>4. [order[s.ord] EXCEPT !.state = "unassigned"].status = order[s.ord].status
    BY <2>3, Loaded DEF Row
  <2>5. PICK now \in {"rejecting", "expiring"},
             mine \in {order[s.ord], [order[s.ord] EXCEPT !.state = "unassigned"]} :
          /\ Begin(q, now, s.ord, s.rdr, s.round, order[s.ord], mine)
          /\ UNCHANGED <<order, offer>>
    BY <1>2 DEF RejectFlush, ExpireFlush
  <2>6. mine.status = order[s.ord].status  BY <2>5, <2>4
  <2> QED BY <2>3, <2>5, <2>6, StageBegin
<1>3. ASSUME NEW pc \in {"update", "survey"}, At(q, pc),
             NEW now \in {"survey", "check", "offer"}, NEW picks \in SUBSET Riders,
             NEW mode \in {"own", "inline"},
             sess' = [sess EXCEPT ![q] = [s EXCEPT !.pc = now, !.picks = picks, !.mode = mode]],
             UNCHANGED <<order, offer>>
      PROVE  StageInv'
  <2> DEFINE t == [s EXCEPT !.pc = now, !.picks = picks, !.mode = mode]
  <2>1. pc \in Pc  BY DEF Pc
  <2>2. s \in Session /\ s.ord \in Orders  BY <1>3, <2>1, InFlight
  <2>3. StageOK(s, order[s.ord]) /\ s.pc = pc  BY <1>3, <2>1, StageInFlight
  <2>4. t.base = s.base /\ t.mine = s.mine /\ t.ord = s.ord /\ t.pc = now
    BY <2>2 DEF Session
  <2> HIDE DEF t
  <2>5. StageOK(t, order[t.ord])  BY <2>3, <2>4 DEF StageOK
  <2> QED BY <1>3, <2>2, <2>4, <2>5, StageMove DEF t
<1>4. CASE UpdateStatusPreparing(q)
  <2>1. "update" \in Pc /\ At(q, "update")  BY <1>4 DEF Pc, UpdateStatusPreparing
  <2>2. s \in Session /\ s.picks \in SUBSET Riders  BY <2>1, InFlight
  <2>3. sess' = [sess EXCEPT ![q] = [s EXCEPT !.pc = "survey", !.picks = s.picks, !.mode = "inline"]]
    BY <1>4, <2>2 DEF UpdateStatusPreparing, Session, IInv, TypeOK
  <2> QED BY <1>3, <1>4, <2>1, <2>2, <2>3 DEF UpdateStatusPreparing
<1>5. ASSUME NEW online \in SUBSET Riders, Survey(q, online)
      PROVE  StageInv'
  <2> DEFINE C == Candidates(s.ord, online)
  <2>1. "survey" \in Pc /\ At(q, "survey")  BY <1>5 DEF Pc, Survey
  <2>2. s \in Session /\ s.picks \in SUBSET Riders /\ s.mode \in {"own", "inline"}
        /\ s.ord \in Orders
    BY <2>1, InFlight
  <2>3. UNCHANGED <<order, offer>>  BY <1>5 DEF Survey
  <2>4. CASE C = {}
    <3>1. sess' = [sess EXCEPT ![q].pc = "offer"]  BY <1>5, <2>4 DEF Survey
    <3>2. sess' = [sess EXCEPT ![q] = [s EXCEPT !.pc = "offer", !.picks = s.picks, !.mode = s.mode]]
      BY <2>2, <3>1 DEF Session, IInv, TypeOK
    <3> QED BY <1>3, <2>1, <2>2, <2>3, <3>2
  <2>5. CASE C # {}
    <3>1. PICK picks \in Selections(s.ord, C) :
            sess' = [sess EXCEPT ![q].pc = "check", ![q].picks = picks]
      BY <1>5, <2>5 DEF Survey
    <3>2. C \subseteq Riders  BY DEF Candidates
    <3>3. picks \in SUBSET Riders
      BY <2>2, <3>1, <3>2, SelectionsOfCandidates
    <3>4. sess' = [sess EXCEPT ![q] = [s EXCEPT !.pc = "check", !.picks = picks, !.mode = s.mode]]
      BY <2>2, <3>1 DEF Session, IInv, TypeOK
    <3> QED BY <1>3, <2>1, <2>2, <2>3, <3>3, <3>4
  <2> QED BY <2>4, <2>5
<1> QED BY <1>1, <1>2, <1>4, <1>5
-----------------------------------------------------------------------------
(* The writes, as far as status and pickup go *)

\* What is shown of an order, and its pickup, in one step of request q.
Written(q) ==
  LET s == sess[q] IN
  /\ StageInv'
  /\ \/ UNCHANGED order
     \/ /\ (sess')[q] # s /\ s # Idle /\ s.ord \in Orders
        /\ \E row \in Row :
             /\ order' = [order EXCEPT ![s.ord] = row]
             /\ Advances(s, order[s.ord], row)

\* A request writes a row and goes on with what it held.
LEMMA WriteStage ==
  ASSUME IInv, StageInv, NEW q \in Requests, NEW pc \in Pc, At(q, pc),
         NEW row \in Row, order' = [order EXCEPT ![sess[q].ord] = row],
         Advances(sess[q], order[sess[q].ord], row),
         OffersFrom(sess[q].ord, row),
         NEW t, sess' = [sess EXCEPT ![q] = t], GoesOn(sess[q], t),
         t # sess[q]
  PROVE  Written(q)
<1> DEFINE s == sess[q]
           o == s.ord
<1>1. s # Idle /\ o \in Orders  BY InFlight
<1>2. /\ Untouched(s.base) /\ Stage(s.base) <= Stage(order[o]) /\ Stage(order[o]) >= 1
  BY StageInFlight
<1>3. Stage(s.base) <= Stage(row) /\ Stage(row) >= 1
  <2>1. Stage(order[o]) <= Stage(row)  BY DEF Advances
  <2>2. Stage(s.base) \in 0..2 /\ Stage(order[o]) \in 0..2 /\ Stage(row) \in 0..2  BY Stages
  <2> QED BY <1>2, <2>1, <2>2
<1>4. ASSUME t # Idle  PROVE t.ord = o /\ StageOK(t, row)
  <2>1. Stage(t.base) = Stage(s.base)  BY <1>4, SameStage DEF GoesOn
  <2>2. Untouched(t.base)  BY <1>2, <1>4, <2>1 DEF GoesOn, Untouched
  <2> QED BY <1>3, <1>4, <2>1, <2>2 DEF GoesOn, StageOK
<1>5. StageInv'
  BY <1>1, <1>4, StageWrite DEF Advances
<1>6. (sess')[q] = t  BY DEF IInv, TypeOK
<1> QED BY <1>1, <1>5, <1>6 DEF Written

\* Idle, and a session that has moved to another step, are not the session.
LEMMA Moved ==
  ASSUME NEW s \in Session, NEW t, t = Idle \/ t.pc # s.pc
  PROVE  t # s
<1>1. s.pc \in Pc  BY DEF Session
<1>2. "idle" \notin Pc  BY DEF Pc
<1> QED BY <1>1, <1>2 DEF Idle

\* accept_offer and rider_claim_order write a status of the snapshot, and only
\* onto a free order.
LEMMA TakeStage ==
  ASSUME IInv, StageInv, NEW q \in Requests, AcceptWrite(q) \/ ClaimWrite(q)
  PROVE  Written(q)
<1> DEFINE s == sess[q]
           o == s.ord
           row(starts) == ClaimedRow(order[o], s.base, s.rdr, starts)
<1>1. PICK pc \in {"accept", "claim"} : At(q, pc)
  BY DEF AcceptWrite, ClaimWrite
<1>2. pc \in Pc  BY DEF Pc
<1>3. /\ s \in Session /\ o \in Orders /\ s.base \in Row /\ s.rdr \in Riders /\ order[o] \in Row
      /\ RowOK(order[o]) /\ RowOK(s.base) /\ Known(s.base, order[o])
  BY <1>1, <1>2, InFlight DEF Addressed, NamesRider
<1>4. s.base.status # "absent"
  BY <1>1, <1>2, StageInFlight DEF StageOK
<1>5. End(q)  BY DEF AcceptWrite, ClaimWrite
<1>6. CASE UNCHANGED <<order, offer>>
  BY <1>5, <1>6, StageEnd DEF Written
<1>7. ASSUME NEW starts \in BOOLEAN, s.base.status = "placed" => starts, Unclaimed(o),
             order' = [order EXCEPT ![o] = row(starts)],
             \A x : OffersFrom(o, x)
      PROVE  Written(q)
  <2> DEFINE new == row(starts)
  <2>1. new \in Row  BY <1>3, <1>7, Claimed
  <2>2. /\ new.status = IF s.base.status = "placed" THEN "preparing" ELSE s.base.status
        /\ "rider_assigned_at" \in new.stamps
        /\ new.rider_user_id = s.rdr
    BY <1>3 DEF ClaimedRow, Row
  <2>3. order[o].rider_user_id = NoRider  BY <1>7 DEF Unclaimed
  <2> HIDE DEF row
  <2>4. Stage(new) = 2 /\ Stage(order[o]) \in 0..2  BY <1>4, <2>2, Stages
  <2>5. new.status = "cancelled" => "cancelled_at" \in order[o].stamps
    BY <1>3, <2>2 DEF RowOK, Known, Final
  <2>6. Advances(s, order[o], new)
    BY <2>2, <2>3, <2>4, <2>5 DEF Advances, Untouched
  <2>7. OffersFrom(o, new)  BY <1>7
  <2>8. sess' = [sess EXCEPT ![q] = Idle] /\ GoesOn(s, Idle) /\ Idle # s
    BY <1>3, <1>5, Moved DEF End, GoesOn
  <2> HIDE DEF new
  <2>9. order' = [order EXCEPT ![o] = new]  BY <1>7 DEF new
  <2> QED BY <1>1, <1>2, <2>1, <2>6, <2>7, <2>8, <2>9, WriteStage
<1>8. ASSUME AcceptWrite(q)  PROVE Written(q)
  <2> DEFINE starts == s.base.status = "placed"
  <2>1. starts \in BOOLEAN /\ (s.base.status = "placed" => starts)  OBVIOUS
  <2>2. CASE Live(o, s.rdr, s.round) /\ offer' = AcceptedOffers(o, s.rdr, s.round)
    <3>1. \A x : OffersFrom(o, x)
      BY <2>2 DEF OffersFrom, Live, AcceptedOffers, StillPending, IInv, TypeOK
    <3>2. UNCHANGED <<order, offer>>
            \/ (Unclaimed(o) /\ order' = [order EXCEPT ![o] = row(starts)])
      BY <1>8 DEF AcceptWrite
    <3> HIDE DEF starts, row
    <3> QED BY <1>6, <1>7, <2>1, <3>1, <3>2
  <2> QED BY <1>6, <1>8, <2>2 DEF AcceptWrite
<1>9. ASSUME ClaimWrite(q)  PROVE Written(q)
  <2> DEFINE starts == s.base.status \in {"placed", "preparing"}
  <2>1. starts \in BOOLEAN /\ (s.base.status = "placed" => starts)  OBVIOUS
  <2>2. UNCHANGED <<order, offer>>
          \/ (Unclaimed(o) /\ order' = [order EXCEPT ![o] = row(starts)])
    BY <1>9 DEF ClaimWrite
  <2>3. \A x : OffersFrom(o, x)  BY <1>9 DEF ClaimWrite, OffersFrom
  <2> HIDE DEF starts, row
  <2> QED BY <1>6, <1>7, <2>1, <2>2, <2>3
<1> QED BY <1>8, <1>9

\* The flush of what a handler made of its snapshot.
LEMMA FlushAdvances ==
  ASSUME NEW s, NEW db \in Row, NEW row \in Row, s.base \in Row, RowOK(db),
         Untouched(db), Stage(s.base) <= Stage(db),
         row.status # s.base.status \/ ~(row.stamps \subseteq s.base.stamps) => Stage(row) = 2,
         s.base.stamps \ row.stamps \subseteq {"rider_assigned_at"},
         row.status = "cancelled" => \/ s.base.status = "cancelled"
                                     \/ "picked_up_at" \notin s.base.stamps,
         \/ row.rider_user_id = s.base.rider_user_id
         \/ "picked_up_at" \notin s.base.stamps,
         s.base.status \in {"delivered", "cancelled"} => row.status = s.base.status
  PROVE  Advances(s, db, Merge(db, s.base, row))
<1> DEFINE new == Merge(db, s.base, row)
<1>1. Untouched(new) /\ Stage(db) <= Stage(new)
  BY MergeStage
<1>2. "preparing_at" \in db.stamps => "preparing_at" \in new.stamps
  BY DEF Merge
<1>3. new.status = "cancelled" /\ "cancelled_at" \notin db.stamps =>
        "picked_up_at" \notin s.base.stamps
  <2>1. "cancelled_at" \notin db.stamps => db.status # "cancelled"  BY DEF RowOK
  <2>2. new.status = IF row.status = s.base.status THEN db.status ELSE row.status
    BY DEF Merge, Dirty
  <2> HIDE DEF new
  <2> QED BY <2>1, <2>2
<1>4. db.rider_user_id # new.rider_user_id => "picked_up_at" \notin s.base.stamps
  BY DEF Merge, Dirty
<1>5. new.status = IF row.status = s.base.status THEN db.status ELSE row.status
  BY DEF Merge, Dirty
<1> HIDE DEF new
<1>6. Advances(s, db, new)
  BY <1>1, <1>2, <1>3, <1>4, <1>5 DEF Advances
<1> QED BY <1>6 DEF new
\* A request that has flushed its row ends, completes the order or dispatches it.
LEMMA AfterFlush ==
  ASSUME IInv, StageInv, NEW q \in Requests, NEW pc \in Pc, At(q, pc),
         \/ End(q)
         \/ pc \in {"update", "deliver"} /\ sess' = [sess EXCEPT ![q].pc = "complete"]
         \/ /\ pc \in {"release", "rejecting", "expiring"}
            /\ ThenDispatch(q, sess[q].mine)
            /\ sess[q].mine.status = sess[q].base.status
            /\ sess[q].mine.stamps \subseteq sess[q].base.stamps
  PROVE  \E t : sess' = [sess EXCEPT ![q] = t] /\ GoesOn(sess[q], t) /\ t # sess[q]
<1> DEFINE s == sess[q]
<1>1. s \in Session /\ s.pc = pc  BY InFlight
<1>2. CASE End(q)
  <2>1. Idle # s  BY <1>1, Moved
  <2> QED BY <1>2, <2>1 DEF End, GoesOn
<1>3. CASE pc \in {"update", "deliver"} /\ sess' = [sess EXCEPT ![q].pc = "complete"]
  <2> DEFINE t == [s EXCEPT !.pc = "complete"]
  <2>1. sess' = [sess EXCEPT ![q] = t]  BY <1>3
  <2>2. t.pc = "complete" /\ t.ord = s.ord /\ t.base = s.base /\ t.mine = s.mine
    BY <1>1 DEF Session
  <2>3. /\ s.base.status # "absent"
        /\ s.base.status \in {"delivered", "cancelled"} => s.mine.status = s.base.status
    BY <1>3, StageInFlight DEF StageOK
  <2> HIDE DEF t
  <2>4. t # s  BY <1>1, <1>3, <2>2, Moved
  <2>5. GoesOn(s, t)  BY <2>2, <2>3 DEF GoesOn
  <2> QED BY <2>1, <2>4, <2>5
<1>4. CASE /\ pc \in {"release", "rejecting", "expiring"}
           /\ Dispatchable(s.mine)
           /\ sess' = [sess EXCEPT ![q].pc = "survey", ![q].base = s.mine, ![q].mine = s.mine]
           /\ s.mine.status = s.base.status /\ s.mine.stamps \subseteq s.base.stamps
  <2> DEFINE t == [s EXCEPT !.pc = "survey", !.base = s.mine, !.mine = s.mine]
  <2>1. sess' = [sess EXCEPT ![q] = t]  BY <1>4 DEF IInv, TypeOK
  <2>2. t.pc = "survey" /\ t.ord = s.ord /\ t.base = s.mine /\ t.mine = s.mine
    BY <1>1 DEF Session
  <2>3. s.mine.status # "absent"  BY <1>4 DEF Dispatchable
  <2> HIDE DEF t
  <2>4. t # s  BY <1>1, <1>4, <2>2, Moved
  <2>5. GoesOn(s, t)  BY <1>4, <2>2, <2>3 DEF GoesOn
  <2> QED BY <2>1, <2>4, <2>5
<1> QED BY <1>2, <1>3, <1>4 DEF ThenDispatch

\* Flushes of a loaded row, on its own or with offers.
LEMMA FlushStage ==
  ASSUME IInv, StageInv, NEW q \in Requests,
         \/ UpdateStatusWrite(q) \/ AssignWrite(q) \/ ReleaseWrite(q)
         \/ PickUpWrite(q) \/ DeliverWrite(q) \/ RejectCommit(q) \/ ExpireCommit(q)
  PROVE  Written(q)
<1> DEFINE s   == sess[q]
           o   == s.ord
           db  == order[o]
           new == Merge(db, s.base, s.mine)
<1>1. PICK pc \in {"update", "assign", "release", "pickup", "deliver", "rejecting", "expiring"} :
        At(q, pc)
  BY DEF UpdateStatusWrite, AssignWrite, ReleaseWrite, PickUpWrite, DeliverWrite, RejectCommit,
         ExpireCommit
<1>2. pc \in Pc  BY DEF Pc
<1>3. /\ s \in Session /\ o \in Orders /\ s.base \in Row /\ s.mine \in Row /\ s.pc = pc
      /\ db \in Row /\ RowOK(db) /\ Changed(s) /\ Addressed(s)
  BY <1>1, <1>2, InFlight
<1>4. /\ StageOK(s, db) /\ Untouched(db) /\ Stage(s.base) <= Stage(db) /\ Stage(db) >= 1
      /\ s.base.status \in {"delivered", "cancelled"} => s.mine.status = s.base.status
  BY <1>1, <1>2, StageInFlight DEF StageOK
<1>5. Advances(s, db, new)
  <2>1. CASE pc = "update"
    <3>1. PICK x \in DOMAIN StampOf : s.mine = UpdatedRow(s.base, x)
      BY <1>3, <2>1 DEF Changed
    <3>2. /\ s.mine.status = x /\ s.mine.rider_user_id = s.base.rider_user_id
          /\ s.base.stamps \subseteq s.mine.stamps
      BY <1>3, <3>1 DEF UpdatedRow, Row
    <3>3. Stage(s.mine) = 2  BY <3>2, Stages DEF StampOf
    <3>4. s.mine.status = "cancelled" => "picked_up_at" \notin s.base.stamps
      BY <1>3, <1>4, <2>1 DEF StageOK
    <3> HIDE DEF s
    <3> QED BY <1>3, <1>4, <3>2, <3>3, <3>4, FlushAdvances
  <2>2. CASE pc \in {"assign", "rejecting", "expiring"}
    <3>1. /\ s.mine.status = s.base.status /\ s.mine.rider_user_id = s.base.rider_user_id
          /\ s.mine.stamps = s.base.stamps
      BY <1>3, <2>2 DEF Changed, Row
    <3> HIDE DEF s
    <3> QED BY <1>3, <1>4, <3>1, FlushAdvances
  <2>3. CASE pc = "release"
    <3>1. /\ s.mine.status = s.base.status
          /\ s.mine.stamps = s.base.stamps \ {"rider_assigned_at"}
      BY <1>3, <2>3 DEF Changed, ReleasedRow, Row
    <3>2. "picked_up_at" \notin s.base.stamps
      BY <1>3, <1>4, <2>3 DEF StageOK
    <3> HIDE DEF s
    <3> QED BY <1>3, <1>4, <3>1, <3>2, FlushAdvances
  <2>4. CASE pc = "pickup"
    <3>1. /\ s.mine.status = s.base.status /\ s.mine.rider_user_id = s.base.rider_user_id
          /\ s.base.stamps \subseteq s.mine.stamps
      BY <1>3, <2>4 DEF Changed, PickedUpRow, Row
    <3>2. Stage(s.mine) = 2
      BY <1>3, <1>4, <2>4, <3>1, SameStage DEF StageOK
    <3> HIDE DEF s
    <3> QED BY <1>3, <1>4, <3>1, <3>2, FlushAdvances
  <2>5. CASE pc = "deliver"
    <3>1. /\ s.mine.status = "delivered" /\ s.mine.rider_user_id = s.base.rider_user_id
          /\ s.base.stamps \subseteq s.mine.stamps
      BY <1>3, <2>5 DEF Changed, DeliveredRow, Row
    <3>2. Stage(s.mine) = 2  BY <3>1, Stages
    <3> HIDE DEF s
    <3> QED BY <1>3, <1>4, <3>1, <3>2, FlushAdvances
  <2> QED BY <2>1, <2>2, <2>3, <2>4, <2>5
<1>6. new \in Row  BY <1>3, MergeType
<1>7. CASE End(q) /\ UNCHANGED <<order, offer>>
  BY <1>7, StageEnd DEF Written
<1>8. CASE order' = [order EXCEPT ![o] = new]
  <2>1. PICK t : sess' = [sess EXCEPT ![q] = t] /\ GoesOn(s, t) /\ t # s
    <3>1. \/ End(q)
          \/ pc \in {"update", "deliver"} /\ sess' = [sess EXCEPT ![q].pc = "complete"]
          \/ pc \in {"release", "rejecting", "expiring"} /\ ThenDispatch(q, s.mine)
      BY <1>1, <1>3 DEF UpdateStatusWrite, AssignWrite, ReleaseWrite, PickUpWrite, DeliverWrite,
                        RejectCommit, ExpireCommit, At
    <3>2. pc \in {"release", "rejecting", "expiring"} =>
            s.mine.status = s.base.status /\ s.mine.stamps \subseteq s.base.stamps
      <4>1. pc = "release" => s.mine = ReleasedRow(s.base)
        BY <1>3 DEF Changed
      <4>2. pc \in {"rejecting", "expiring"} =>
              s.mine.status = s.base.status /\ s.mine.stamps = s.base.stamps
        BY <1>3 DEF Changed, Row
      <4>3. /\ ReleasedRow(s.base).status = s.base.status
            /\ ReleasedRow(s.base).stamps \subseteq s.base.stamps
        BY <1>3 DEF ReleasedRow, Row
      <4> HIDE DEF s
      <4> QED BY <4>1, <4>2, <4>3
    <3> QED BY <1>1, <1>2, <3>1, <3>2, AfterFlush
  <2>2. OffersFrom(o, new)
    <3>0. new.status # "absent"
      <4>1. Stage(db) \in 0..2 /\ Stage(new) \in 0..2  BY Stages
      <4>2. Stage(new) >= 1  BY <1>4, <1>5, <4>1 DEF Advances
      <4> QED BY <4>2, Stages
    <3>1. CASE UNCHANGED offer  BY <3>1 DEF OffersFrom
    <3>2. CASE AssignWrite(q)
      <4> HIDE DEF new
      <4>5. offer' = AddOffers(o, {s.rdr}, s.round) \/ UNCHANGED offer
        BY <3>2 DEF AssignWrite
      <4> QED BY <3>1, <3>0, <4>5 DEF OffersFrom, AddOffers, IInv, TypeOK
    <3>3. CASE ReleaseWrite(q)
      <4>1. offer' = ReleasedOffers(o, s.rdr)  BY <3>3 DEF ReleaseWrite
      <4>2. s.rdr \in Riders
        BY <1>2, <3>3, InFlight DEF ReleaseWrite, Addressed, NamesRider, Pc
      <4> QED BY <1>3, <4>1, <4>2 DEF OffersFrom, ReleasedOffers, IInv, TypeOK
    <3>4. ASSUME NEW verdict, Decline(q, verdict), pc \in {"rejecting", "expiring"}
          PROVE  OffersFrom(o, new)
      <4>1. offer' = [offer EXCEPT ![o][s.rdr][s.round] = verdict]  BY <3>4 DEF Decline
      <4>2. s.rdr \in Riders /\ s.round \in Rounds
        BY <1>3, <3>4 DEF Addressed, NamesRider
      <4> HIDE DEF new
      <4> QED BY <1>3, <3>0, <4>1, <4>2 DEF OffersFrom, IInv, TypeOK
    <3> QED
      BY <1>1, <1>3, <3>1, <3>2, <3>3, <3>4
         DEF At, UpdateStatusWrite, PickUpWrite, DeliverWrite, RejectCommit, ExpireCommit
  <2> HIDE DEF new
  <2> QED BY <1>1, <1>2, <1>3, <1>5, <1>6, <1>8, <2>1, <2>2, WriteStage
<1> QED
  BY <1>7, <1>8 DEF UpdateStatusWrite, AssignWrite, ReleaseWrite, PickUpWrite, DeliverWrite,
                    RejectCommit, ExpireCommit, Decline
\* The commits of a dispatch: an inline one writes "preparing".
LEMMA FlushedAdvances ==
  ASSUME IInv, StageInv, NEW q \in Requests, NEW pc \in {"check", "offer"}, At(q, pc),
         NEW row \in Row,
         row.status = sess[q].mine.status, row.rider_user_id = sess[q].mine.rider_user_id,
         row.stamps = sess[q].mine.stamps
  PROVE  Advances(sess[q], order[sess[q].ord], Flushed(sess[q], row))
<1> DEFINE s   == sess[q]
           db  == order[s.ord]
           new == Merge(db, s.base, row)
<1>1. pc \in Pc  BY DEF Pc
<1>2. /\ s \in Session /\ s.pc = pc /\ s.base \in Row /\ db \in Row
      /\ RowOK(db) /\ s.mode \in {"own", "inline"} /\ Changed(s)
  BY <1>1, InFlight
<1>3. /\ Untouched(db) /\ Stage(s.base) <= Stage(db)
      /\ s.base.status \in {"delivered", "cancelled"} => s.mine.status = s.base.status
  BY <1>1, StageInFlight DEF StageOK
<1>4. CASE s.mode = "own"
  <2>1. row.status = s.base.status /\ row.rider_user_id = s.base.rider_user_id
        /\ row.stamps = s.base.stamps
    BY <1>2, <1>4 DEF Changed
  <2>2. Flushed(s, row) = new  BY <1>4 DEF Flushed
  <2> HIDE DEF s
  <2>3. Advances(s, db, new)  BY <1>2, <1>3, <2>1, FlushAdvances
  <2> QED BY <2>2, <2>3 DEF s
<1>5. CASE s.mode = "inline"
  <2>1. s.mine = UpdatedRow(s.base, "preparing")  BY <1>2, <1>5 DEF Changed
  <2>2. /\ row.status = "preparing" /\ row.rider_user_id = s.base.rider_user_id
        /\ s.base.stamps \subseteq row.stamps
    BY <1>2, <2>1 DEF UpdatedRow, Row
  <2>3. Stage(row) = 2  BY <2>2, Stages
  <2>4. Flushed(s, row) = [new EXCEPT !.stamps = @ \cup {"preparing_at"}]
    BY <1>5 DEF Flushed
  <2>5. new.status = IF row.status = s.base.status THEN db.status ELSE row.status
    BY DEF Merge, Dirty
  <2>6. new \in Row  BY <1>2, MergeType
  <2>13. s.base.status \in {"delivered", "cancelled"} => row.status = s.base.status
    BY <1>3
  <2> HIDE DEF s
  <2>7. Advances(s, db, new)
    BY <1>2, <1>3, <2>2, <2>3, <2>13, FlushAdvances
  <2> HIDE DEF new
  <2>8. Stage(new) = 2
    <3>1. CASE row.status = s.base.status
      <4>1. Stage(s.base) = 2  BY <2>3, <3>1, SameStage
      <4>2. Stage(db) \in 0..2  BY Stages
      <4>3. Stage(db) = 2  BY <1>3, <4>1, <4>2
      <4> QED BY <2>5, <3>1, <4>3, SameStage
    <3>2. CASE row.status # s.base.status
      BY <2>3, <2>5, <3>2, SameStage
    <3> QED BY <3>1, <3>2
  <2> DEFINE fl == Flushed(s, row)
  <2>9. fl.status = new.status /\ fl.rider_user_id = new.rider_user_id
        /\ fl.stamps = new.stamps \cup {"preparing_at"}
    BY <2>4, <2>6 DEF Row
  <2> HIDE DEF fl
  <2>10. Stage(fl) = 2  BY <2>8, <2>9, SameStage
  <2>11. Stage(db) \in 0..2  BY Stages
  <2>12. Advances(s, db, fl)
    BY <2>7, <2>9, <2>10, <2>11 DEF Advances, Untouched
  <2> QED BY <2>12 DEF fl, s
<1> QED BY <1>2, <1>4, <1>5

LEMMA DispatchStage ==
  ASSUME IInv, StageInv, NEW q \in Requests, CheckPending(q) \/ OfferRound(q)
  PROVE  Written(q)
<1> DEFINE s == sess[q]
           o == s.ord
<1>1. PICK pc \in {"check", "offer"} : At(q, pc)
  BY DEF CheckPending, OfferRound
<1>2. pc \in Pc  BY DEF Pc
<1>3. /\ s \in Session /\ o \in Orders /\ s.mine \in Row /\ s.picks \in SUBSET Riders /\ s.pc = pc
      /\ s.base \in Row
  BY <1>1, <1>2, InFlight
<1>4. /\ StageOK(s, order[o]) /\ Stage(order[o]) >= 1 /\ s.base.status # "absent"
      /\ s.base.status \in {"delivered", "cancelled"} => s.mine.status = s.base.status
  BY <1>1, <1>2, StageInFlight DEF StageOK
<1>5. CASE End(q) /\ UNCHANGED <<order, offer>>
  BY <1>5, StageEnd DEF Written
<1>6. CASE sess' = [sess EXCEPT ![q].pc = "offer"] /\ UNCHANGED <<order, offer>>
  <2> DEFINE t == [s EXCEPT !.pc = "offer"]
  <2>1. t.base = s.base /\ t.mine = s.mine /\ t.ord = o /\ t.pc = "offer"  BY <1>3 DEF Session
  <2>2. sess' = [sess EXCEPT ![q] = t]  BY <1>6
  <2> HIDE DEF t
  <2>3. StageOK(t, order[t.ord])  BY <1>4, <2>1 DEF StageOK
  <2> QED BY <1>3, <1>6, <2>1, <2>2, <2>3, StageMove DEF Written
<1>7. ASSUME NEW row \in Row,
             row.status = s.mine.status, row.rider_user_id = s.mine.rider_user_id,
             row.stamps = s.mine.stamps,
             order' = [order EXCEPT ![o] = Flushed(s, row)],
             \A x : x.status # "absent" => OffersFrom(o, x),
             End(q) \/ (pc = "offer" /\ sess' = [sess EXCEPT ![q].pc = "event"])
      PROVE  Written(q)
  <2> DEFINE new == Flushed(s, row)
  <2>1. Advances(s, order[o], new)  BY <1>1, <1>7, FlushedAdvances
  <2>2. new \in Row  BY <1>1, <1>7, FlushedOK
  <2>3. PICK t : sess' = [sess EXCEPT ![q] = t] /\ GoesOn(s, t) /\ t # s
    <3>1. CASE End(q)
      <4>1. Idle # s  BY <1>3, Moved
      <4> QED BY <3>1, <4>1 DEF End, GoesOn
    <3>2. CASE pc = "offer" /\ sess' = [sess EXCEPT ![q].pc = "event"]
      <4> DEFINE t == [s EXCEPT !.pc = "event"]
      <4>1. t.base = s.base /\ t.mine = s.mine /\ t.ord = o /\ t.pc = "event"  BY <1>3 DEF Session
      <4>2. sess' = [sess EXCEPT ![q] = t]  BY <3>2
      <4> HIDE DEF t
      <4>3. t # s  BY <1>3, <3>2, <4>1, Moved
      <4>4. GoesOn(s, t)  BY <1>4, <4>1 DEF GoesOn
      <4> QED BY <4>2, <4>3, <4>4
    <3> QED BY <1>7, <3>1, <3>2
  <2> HIDE DEF new
  <2>4. new.status # "absent"
    <3>1. Stage(order[o]) \in 0..2 /\ Stage(new) \in 0..2  BY Stages
    <3>2. Stage(new) >= 1  BY <1>4, <2>1, <3>1 DEF Advances
    <3> QED BY <3>2, Stages
  <2>5. order' = [order EXCEPT ![o] = new]  BY <1>7 DEF new
  <2>6. OffersFrom(o, new)  BY <1>7, <2>4
  <2> QED BY <1>1, <1>2, <2>1, <2>2, <2>3, <2>5, <2>6, WriteStage
<1>8. CASE CheckPending(q)
  <2>1. \A x : OffersFrom(o, x)  BY <1>8 DEF CheckPending, OffersFrom
  <2>2. \/ sess' = [sess EXCEPT ![q].pc = "offer"] /\ UNCHANGED <<order, offer>>
        \/ End(q) /\ UNCHANGED <<order, offer>>
        \/ End(q) /\ order' = [order EXCEPT ![o] = Flushed(s, s.mine)]
    BY <1>8 DEF CheckPending
  <2> QED BY <1>3, <1>5, <1>6, <1>7, <2>1, <2>2
<1>9. CASE OfferRound(q)
  <2> DEFINE row == DispatchRow(o, s.mine, s.picks)
  <2>1. s.picks # {} => s.mine.round < MaxRound  BY <1>9 DEF OfferRound
  <2>2. row \in Row  BY <1>3, <2>1, DispatchRowType
  <2>3. row.status = s.mine.status /\ row.rider_user_id = s.mine.rider_user_id
        /\ row.stamps = s.mine.stamps
    BY <1>3 DEF DispatchRow, Row
  <2> HIDE DEF row
  <2>4. \/ End(q) /\ UNCHANGED <<order, offer>>
        \/ /\ order' = [order EXCEPT ![o] = Flushed(s, row)]
           /\ offer' = AddOffers(o, s.picks, row.round)
           /\ End(q) \/ sess' = [sess EXCEPT ![q].pc = "event"]
    BY <1>9 DEF OfferRound, row
  <2>5. CASE offer' = AddOffers(o, s.picks, row.round)
    <3>1. \A x : x.status # "absent" => OffersFrom(o, x)
      BY <2>5 DEF OffersFrom, AddOffers, IInv, TypeOK
    <3>2. pc = "offer"  BY <1>3, <1>9 DEF OfferRound, At
    <3> QED BY <1>5, <1>7, <2>2, <2>3, <2>4, <3>1, <3>2
  <2> QED BY <1>5, <2>4, <2>5
<1> QED BY <1>8, <1>9

\* An order is placed.
LEMMA PlaceStage ==
  ASSUME IInv, StageInv, NEW q \in Requests, NEW o \in Orders, PlaceOrder(q, o)
  PROVE  StageInv'
<1> DEFINE row == [order[o] EXCEPT !.status = "placed"]
           t == [pc |-> "survey", ord |-> o, rdr |-> NoRider, round |-> 0,
                 base |-> row, mine |-> row, picks |-> {}, mode |-> "own"]
<1>1. /\ order[o] \in Row /\ Free(q) /\ order[o].status = "absent"
      /\ order' = [order EXCEPT ![o] = row] /\ UNCHANGED offer
      /\ UNCHANGED sess \/ Begin(q, "survey", o, NoRider, 0, row, row)
  BY Loaded DEF PlaceOrder
<1>2. row \in Row /\ row.status = "placed" /\ row.stamps = order[o].stamps
  BY <1>1 DEF Row, Status
<1> HIDE DEF row
<1>3. Stage(row) = 1 /\ Stage(order[o]) = 0  BY <1>1, <1>2 DEF Stage
<1>4. Untouched(row) /\ Stage(order[o]) <= Stage(row)
  BY <1>2, <1>3 DEF StageInv, RowsUntouched, Untouched
<1>5. OffersFrom(o, row)  BY <1>1 DEF OffersFrom
<1>6. CASE UNCHANGED sess
  <2>1. sess' = [sess EXCEPT ![q] = Idle]  BY <1>1, <1>6 DEF Free, IInv, TypeOK
  <2> QED BY <1>1, <1>2, <1>4, <1>5, <2>1, StageWrite
<1>7. CASE Begin(q, "survey", o, NoRider, 0, row, row)
  <2>1. sess' = [sess EXCEPT ![q] = t]  BY <1>7 DEF Begin
  <2>2. t.ord = o /\ t.base = row /\ t.pc = "survey"  OBVIOUS
  <2> HIDE DEF t
  <2>3. StageOK(t, row)  BY <1>2, <1>3, <1>4, <2>2 DEF StageOK
  <2> QED BY <1>1, <1>2, <1>4, <1>5, <2>1, <2>2, <2>3, StageWrite
<1> QED BY <1>1, <1>6, <1>7

\* The customer's cancellation is of an order nobody has picked up.
LEMMA CancelStage ==
  ASSUME IInv, StageInv, NEW o \in Orders, CancelOrder(o)
  PROVE  StageInv' /\ order[o].stamps = {}
<1> DEFINE row == [order[o] EXCEPT !.status = "cancelled", !.stamps = @ \cup {"cancelled_at"}]
<1>1. /\ order[o] \in Row /\ order[o].status = "placed"
      /\ order' = [order EXCEPT ![o] = row] /\ UNCHANGED <<offer, sess>>
  BY Loaded DEF CancelOrder, Cancellable, IInv, TypeOK
<1>2. row.status = "cancelled"
  BY <1>1 DEF Row, Status, Stamps
<1> HIDE DEF row
<1>3. Stage(row) = 2 /\ Stage(order[o]) = 1  BY <1>1, <1>2 DEF Stage
<1>4. order[o].stamps = {}  BY <1>3 DEF StageInv, RowsUntouched, Untouched
<1>5. \A p \in Orders : /\ (order')[p] = IF p = o THEN row ELSE order[p]
  BY <1>1 DEF IInv, TypeOK
<1>6. \A p \in Orders : Stage(order[p]) \in 0..2  BY Stages
<1>7. \A p \in Orders : Untouched((order')[p]) /\ Stage(order[p]) <= Stage((order')[p])
  BY <1>3, <1>5, <1>6 DEF StageInv, RowsUntouched, Untouched
<1>8. RowsUntouched'  BY <1>7 DEF RowsUntouched
<1>9. OffersOfPlaced'
  BY <1>1, <1>2, <1>5 DEF StageInv, OffersOfPlaced
<1>10. StagesOK'
  <2> SUFFICES ASSUME NEW q \in Requests, (sess')[q] # Idle
               PROVE  StageOK((sess')[q], (order')[(sess')[q].ord])
    BY DEF StagesOK
  <2>1. (sess')[q] = sess[q]  BY <1>1
  <2>2. sess[q].ord \in Orders /\ StageOK(sess[q], order[sess[q].ord])
    BY <2>1 DEF StageInv, StagesOK, IInv, TypeOK, Session
  <2>3. Stage(order[sess[q].ord]) <= Stage((order')[sess[q].ord])  BY <1>7, <2>2
  <2>4. Stage(sess[q].base) \in 0..2 /\ Stage(order[sess[q].ord]) \in 0..2
        /\ Stage((order')[sess[q].ord]) \in 0..2
    BY Stages
  <2> QED BY <2>1, <2>2, <2>3, <2>4 DEF StageOK
<1> QED BY <1>4, <1>8, <1>9, <1>10 DEF StageInv
\* What one step makes of an order: nothing, its placing or the customer's
\* cancellation, or the write of a request under way.
Moves(o) ==
  \/ (order')[o] = order[o]
  \/ order[o].stamps = {} /\ order[o].status \in {"absent", "placed"}
  \/ \E q \in Requests :
       /\ ~Free(q) /\ (sess')[q] # sess[q] /\ sess[q].ord = o
       /\ Advances(sess[q], order[o], (order')[o])

LEMMA WrittenMoves ==
  ASSUME IInv, NEW q \in Requests, Written(q), NEW o \in Orders
  PROVE  Moves(o)
<1>1. CASE UNCHANGED order  BY <1>1 DEF Moves
<1>2. ASSUME (sess')[q] # sess[q], sess[q] # Idle, sess[q].ord \in Orders, NEW row \in Row,
             order' = [order EXCEPT ![sess[q].ord] = row],
             Advances(sess[q], order[sess[q].ord], row)
      PROVE  Moves(o)
  <2>1. CASE o = sess[q].ord
    <3>1. (order')[o] = row  BY <1>2, <2>1 DEF IInv, TypeOK
    <3> QED BY <1>2, <2>1, <3>1 DEF Moves, Free
  <2>2. CASE o # sess[q].ord
    <3>1. (order')[o] = order[o]  BY <1>2, <2>2 DEF IInv, TypeOK
    <3> QED BY <3>1 DEF Moves
  <2> QED BY <2>1, <2>2
<1> QED BY <1>1, <1>2 DEF Written

LEMMA NextStage ==
  ASSUME IInv, StageInv, [Next]_vars
  PROVE  StageInv' /\ \A o \in Orders : Moves(o)
<1>1. ASSUME NEW q \in Requests, Continue(q)
      PROVE  StageInv' /\ \A o \in Orders : Moves(o)
  <2>1. CASE Written(q)
    BY <2>1, WrittenMoves DEF Written
  <2>2. CASE \/ UpdateStatusPreparing(q) \/ RecordEvent(q) \/ Complete(q)
             \/ RejectFlush(q) \/ ExpireFlush(q)
             \/ \E online \in SUBSET Riders : Survey(q, online)
    <3>1. UNCHANGED order
      BY <2>2 DEF UpdateStatusPreparing, RecordEvent, Complete, RejectFlush, ExpireFlush, Survey
    <3> QED BY <2>2, <3>1, MoveStage DEF Moves
  <2> QED BY <1>1, <2>1, <2>2, TakeStage, FlushStage, DispatchStage DEF Continue
<1>2. ASSUME NEW q \in Requests, NEW o \in Orders, PlaceOrder(q, o)
      PROVE  StageInv' /\ \A p \in Orders : Moves(p)
  <2>1. StageInv'  BY <1>2, PlaceStage
  <2>2. order[o].stamps = {} /\ order[o].status = "absent"
    <3>1. order[o].status = "absent"  BY <1>2 DEF PlaceOrder
    <3> QED BY <3>1 DEF StageInv, RowsUntouched, Untouched, Stage
  <2>3. \A p \in Orders : p = o \/ (order')[p] = order[p]
    BY <1>2 DEF PlaceOrder, IInv, TypeOK
  <2> QED BY <2>1, <2>2, <2>3 DEF Moves
<1>3. ASSUME NEW o \in Orders, CancelOrder(o)
      PROVE  StageInv' /\ \A p \in Orders : Moves(p)
  <2>1. StageInv' /\ order[o].stamps = {}  BY <1>3, CancelStage
  <2>2. order[o].status = "placed"  BY <1>3 DEF CancelOrder, Cancellable
  <2>3. \A p \in Orders : p = o \/ (order')[p] = order[p]
    BY <1>3 DEF CancelOrder, IInv, TypeOK
  <2> QED BY <2>1, <2>2, <2>3 DEF Moves
<1>4. ASSUME NEW q \in Requests, Arrive(q) \/ Expire(q) \/ Abort(q)
      PROVE  StageInv' /\ \A o \in Orders : Moves(o)
  <2>1. CASE Abort(q)
    BY <2>1, StageEnd DEF Abort, Moves
  <2>2. CASE Expire(q)
    <3>1. UNCHANGED order  BY <2>2 DEF Expire, ExpireRead
    <3> QED BY <2>2, <3>1, ReadStage DEF Expire, Moves
  <2>3. ASSUME NEW o \in Orders, Merchant(q, o)
        PROVE  StageInv' /\ UNCHANGED order
    <3>1. UNCHANGED order  BY <2>3 DEF Merchant, UpdateStatusRead, AssignRead
    <3>2. \/ \E new \in {"preparing", "delivered", "cancelled"} : UpdateStatusRead(q, o, new)
          \/ \E r \in Riders, online \in SUBSET Riders : AssignRead(q, o, r, online)
      BY <2>3 DEF Merchant
    <3> QED BY <3>1, <3>2, ReadStage
  <2>4. ASSUME NEW o \in Orders, NEW r \in Riders, Rider(q, o, r)
        PROVE  StageInv' /\ UNCHANGED order
    <3>1. UNCHANGED order
      BY <2>4 DEF Rider, ClaimRead, AcceptRead, RejectRead, ReleaseRead, PickUpRead, DeliverRead
    <3>2. \/ \E online \in SUBSET Riders : ClaimRead(q, o, r, online)
          \/ \E k \in Rounds : AcceptRead(q, o, r, k) \/ RejectRead(q, o, r, k)
          \/ ReleaseRead(q, o, r) \/ PickUpRead(q, o, r) \/ DeliverRead(q, o, r)
      BY <2>4 DEF Rider
    <3> QED BY <3>1, <3>2, ReadStage
  <2> QED BY <1>2, <1>4, <2>1, <2>2, <2>3, <2>4 DEF Arrive, Moves
<1>5. CASE Lapse
  <2>1. PICK o \in Orders, r \in Riders, k \in Rounds : LapseOffer(o, r, k)
    BY <1>5 DEF Lapse
  <2>2. \A p \in Orders, x \in Riders, n \in Rounds :
          (offer')[p][x][n] # "none" => offer[p][x][n] # "none"
    BY <2>1 DEF LapseOffer, IInv, TypeOK
  <2>3. UNCHANGED <<order, sess>>  BY <2>1 DEF LapseOffer
  <2> QED
    BY <2>2, <2>3 DEF StageInv, RowsUntouched, OffersOfPlaced, StagesOK, Moves
<1>6. CASE UNCHANGED vars
  BY <1>6 DEF vars, StageInv, RowsUntouched, OffersOfPlaced, StagesOK, Moves
<1> QED BY <1>1, <1>3, <1>4, <1>5, <1>6 DEF Next

\* An order is placed once, a snapshot is never of an order that has come
\* further than its row, and what a request refuses of a picked-up order it has
\* checked on the snapshot: the invariant the two properties below rest on.
THEOREM WholeInvariant == Spec => []WholeInv
<1>1. Init => StageInv
  BY DEF Init, StageInv, RowsUntouched, OffersOfPlaced, StagesOK, Untouched, AbsentRow
<1>2. IInv /\ StageInv /\ [Next]_vars => StageInv'
  BY NextStage
<1> QED BY <1>1, <1>2, Invariant, PTL DEF Spec, WholeInv

\* What handlers refuse, they refuse for the row they loaded: a picked-up order
\* is cancelled for the first time, or loses its rider, only by a request that
\* had loaded it before the pickup, and a delivered or cancelled order changes
\* its status only by one that had loaded another status (the guards of
\* update_merchant_order_status, release_assignment, rider_mark_delivered, the
\* claim and the dispatch).
THEOREM RefusalsAreKept == Spec => RefusalsKept
<1>1. ASSUME WholeInv, [Next]_vars, NEW o \in Orders, (order')[o] # order[o],
             order[o].stamps # {} \/ order[o].status \notin {"absent", "placed"}
      PROVE  \E q \in Requests :
               /\ ~Free(q) /\ (sess')[q] # sess[q] /\ sess[q].ord = o
               /\ Advances(sess[q], order[o], (order')[o])
  BY <1>1, NextStage DEF WholeInv, Moves
<1>2. ASSUME WholeInv, [Next]_vars  PROVE KeepsPickup
  <2> SUFFICES ASSUME NEW o \in Orders,
                      "picked_up_at" \in order[o].stamps,
                      \/ "cancelled_at" \notin order[o].stamps /\ (order')[o].status = "cancelled"
                      \/ order[o].rider_user_id \notin {NoRider, (order')[o].rider_user_id}
               PROVE  \E q \in Requests :
                        /\ ~Free(q) /\ (sess')[q] # sess[q] /\ sess[q].ord = o
                        /\ "picked_up_at" \notin sess[q].base.stamps
    BY DEF KeepsPickup
  <2>1. RowOK(order[o])
    BY <1>2 DEF WholeInv, IInv, RowsOK
  <2>2. (order')[o] # order[o] /\ order[o].stamps # {}
    BY <2>1 DEF RowOK
  <2> QED BY <1>1, <1>2, <2>2 DEF Advances
<1>3. ASSUME WholeInv, [Next]_vars  PROVE KeepsFinal
  <2> SUFFICES ASSUME NEW o \in Orders,
                      order[o].status \in {"delivered", "cancelled"},
                      (order')[o].status # order[o].status
               PROVE  \E q \in Requests :
                        /\ ~Free(q) /\ (sess')[q] # sess[q] /\ sess[q].ord = o
                        /\ sess[q].base.status # order[o].status
    BY DEF KeepsFinal
  <2>1. (order')[o] # order[o] /\ order[o].status \notin {"absent", "placed"}
    OBVIOUS
  <2> QED BY <1>1, <1>3, <2>1 DEF Advances
<1>4. WholeInv /\ [Next]_vars => [KeepsPickup /\ KeepsFinal]_vars
  BY <1>2, <1>3
<1> QED BY <1>4, WholeInvariant, PTL DEF Spec, RefusalsKept

\* No step of the board takes a mark back.
LEMMA MarksKept ==
  ASSUME IInv, [Next]_vars, NEW o \in Orders
  PROVE  Known(order[o], (order')[o])
<1>1. StepOfBoard  BY NextOnBoard
<1>2. \A p \in Orders : MarksOf[p] \subseteq (MarksOf')[p]
  BY <1>1 DEF StepOfBoard, Board!BoardNext, Board!boardVars, Board!Take, Board!HandBack,
              Board!Mark, Board!Pay, MarksOf
<1>3. MarksOf[o] = order[o].stamps \cap Final /\ (MarksOf')[o] = (order')[o].stamps \cap Final
  BY DEF MarksOf
<1> QED BY <1>2, <1>3 DEF Known

\* The sub-status of a row that keeps its marks, and whose preparation or
\* assignment is still to be seen, does not fall back.
LEMMA SubStatusForward ==
  ASSUME NEW old, NEW new, RowOK(old), RowOK(new), Known(old, new),
         "preparing_at" \in old.stamps =>
           new.stamps \cap {"preparing_at", "rider_assigned_at"} # {},
         SubStatus(old) \notin {"cancelled", "rider_assigned"}, SubStatus(new) # "cancelled"
  PROVE  Progress[SubStatus(new)] >= Progress[SubStatus(old)]
<1>1. SubStatus(new) \in {"placed", "preparing", "rider_assigned", "on_the_way", "delivered"}
  BY DEF SubStatus
<1>2. CASE SubStatus(old) = "placed"
  BY <1>1, <1>2 DEF Progress
<1>3. CASE SubStatus(old) = "preparing"
  <2>1. "preparing_at" \in old.stamps  BY <1>3 DEF SubStatus, RowOK
  <2>2. SubStatus(new) # "placed"  BY <2>1 DEF SubStatus
  <2> QED BY <1>1, <1>3, <2>2 DEF Progress
<1>4. CASE SubStatus(old) = "on_the_way"
  <2>1. "picked_up_at" \in new.stamps  BY <1>4 DEF SubStatus, Known, Final
  <2>2. SubStatus(new) \in {"on_the_way", "delivered"}  BY <2>1 DEF SubStatus
  <2> QED BY <1>4, <2>2 DEF Progress
<1>5. CASE SubStatus(old) = "delivered"
  <2>1. "delivered_at" \in new.stamps  BY <1>5 DEF SubStatus, RowOK, Known, Final
  <2>2. SubStatus(new) = "delivered"  BY <2>1 DEF SubStatus
  <2> QED BY <1>5, <2>2 DEF Progress
<1> QED BY <1>2, <1>3, <1>4, <1>5 DEF SubStatus

\* What a client is shown of an order (_derive_sub_status) never falls back,
\* except when a rider leaves before the pickup or a cancellation comes and goes.
THEOREM ShownIsForward == Spec => ShownForward
<1> DEFINE Forward ==
      \A o \in Placed :
        LET was == SubStatus(order[o])
            now == SubStatus((order')[o])
        IN "cancelled" \in {was, now} \/ was = "rider_assigned" \/ Progress[now] >= Progress[was]
<1>1. ASSUME WholeInv, [Next]_vars  PROVE Forward
  <2> SUFFICES ASSUME NEW o \in Orders,
                      SubStatus(order[o]) \notin {"cancelled", "rider_assigned"},
                      SubStatus((order')[o]) # "cancelled"
               PROVE  Progress[SubStatus((order')[o])] >= Progress[SubStatus(order[o])]
    BY DEF Placed
  <2>1. IInv /\ Moves(o)
    BY <1>1, NextStage DEF WholeInv
  <2>2. IInv'  BY <1>1, <2>1, NextKeeps
  <2>3. RowOK(order[o]) /\ RowOK((order')[o])
    BY <2>1, <2>2 DEF IInv, RowsOK
  <2>4. Known(order[o], (order')[o])  BY <1>1, <2>1, MarksKept
  <2>5. "preparing_at" \in order[o].stamps =>
          ((order')[o]).stamps \cap {"preparing_at", "rider_assigned_at"} # {}
    BY <2>1 DEF Moves, Advances
  <2> QED BY <2>3, <2>4, <2>5, SubStatusForward
<1>2. WholeInv /\ [Next]_vars => [Forward]_vars
  BY <1>1
<1> QED BY <1>2, WholeInvariant, PTL DEF Spec, ShownForward
=============================================================================
