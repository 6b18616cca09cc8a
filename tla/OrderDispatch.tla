--------------------------- MODULE OrderDispatch ---------------------------
(***************************************************************************)
(* The life of an order and the search for its rider:                      *)
(* app/modules/orders/service.py, app/modules/rider_dispatch/service.py    *)
(* and the Celery task of app/tasks/rider_dispatch.py.                     *)
(*                                                                         *)
(* Every HTTP request (and every task) works on a database session of its  *)
(* own (app/db/session.py).  PostgreSQL runs at READ COMMITTED, and the    *)
(* identity map of the ORM keeps the columns of an order as they were when *)
(* the request first loaded it: a later get_by_id of the same request      *)
(* returns the loaded object unchanged.  A request is therefore a process  *)
(* with a snapshot of the row it works on ("base", what it loaded, and     *)
(* "mine", what it made of it), and a commit writes exactly the columns in *)
(* which the two differ.  Two kinds of statements reach the table:         *)
(*   - the flush of a changed object, UPDATE ... WHERE id, which looks at  *)
(*     nothing else (Merge below);                                         *)
(*   - the explicit conditional updates of cancel_order, accept_offer and  *)
(*     rider_claim_order, which re-check one condition on the row.         *)
(*                                                                         *)
(* An action is what one request does between two points where another     *)
(* request can commit.  Names of columns and states are the source's.      *)
(***************************************************************************)
EXTENDS Integers

CONSTANTS
  Orders,           \* order ids
  Riders,           \* users with the rider role
  NoRider,          \* rider_user_id IS NULL
  Requests,         \* requests (or tasks) the processes serve at one time
  Tier,             \* what _candidate_assignment_type says of each rider
  Access,           \* riders for whom _user_has_rider_access holds
  PrivateOnly,      \* orders of restaurants whose policy is private_only
  MaxRound,         \* bound on rider_assignment_round
  MaxCredits,       \* bound on the loyalty applications counted per order
  ExpiryTaskRuns,   \* FALSE: expire_dispatch_offer fails at its import
  MayAbort,         \* a process may die, PostgreSQL may abort a transaction
  Handlers          \* the endpoints clients call: a bound of an instance

AllHandlers ==
  {"cancel_order", "to_preparing", "to_delivered", "to_cancelled", "assign_rider",
   "claim", "accept_offer", "reject_offer", "release", "picked_up", "delivered"}

Tiers == {"rider_private", "open", "platform"}

ASSUME NoRiderAssumption == NoRider \notin Riders
ASSUME TierAssumption == Tier \in [Riders -> Tiers \cup {"none"}]
ASSUME AccessAssumption ==
  /\ Access \subseteq Riders
  /\ \A r \in Riders : Tier[r] = "rider_private" => r \in Access
ASSUME PrivateOnlyAssumption == PrivateOnly \subseteq Orders
ASSUME BoundsAssumption == MaxRound \in Nat \ {0} /\ MaxCredits \in Nat
ASSUME FlagsAssumption == ExpiryTaskRuns \in BOOLEAN /\ MayAbort \in BOOLEAN
ASSUME HandlersAssumption == Handlers \subseteq AllHandlers

VARIABLES
  order,    \* the rows of "orders"
  offer,    \* the rows of "order_dispatch_offers", keyed as their unique
            \* constraint does: order, rider, round
  audit,    \* per order, the new_status values in "order_status_events"
  settled,  \* orders with a row in "restaurant_settlements"
  credits,  \* per order, how often the customer's loyalty totals took it in
  sess      \* per request: where it is and what it holds in memory

vars == <<order, offer, audit, settled, credits, sess>>

-----------------------------------------------------------------------------
(* Rows, offers and sessions *)

Status == {"absent", "placed", "preparing", "delivered", "cancelled"}

AssignmentState ==
  {"unassigned", "offered_rider_private", "offered_open", "offered_platform",
   "offered_manual", "assigned", "open_unfilled"}

Holder == Riders \cup {NoRider}
Rounds == 1..MaxRound

Stamps ==
  {"preparing_at", "rider_assigned_at", "picked_up_at", "delivered_at", "cancelled_at"}

\* The columns the logic reads; "stamps" are the timestamps that are not null.
Row == [status : Status, rider_user_id : Holder,
        state : AssignmentState, round : 0..MaxRound, stamps : SUBSET Stamps]

AbsentRow ==
  [status |-> "absent", rider_user_id |-> NoRider,
   state |-> "unassigned", round |-> 0, stamps |-> {}]

\* "lapsed" is a row that still says pending but whose expires_at has passed.
OfferStatus ==
  {"none", "pending", "lapsed", "accepted", "rejected", "expired", "released"}
Declined == {"rejected", "expired", "released"}
StillPending == {"pending", "lapsed"}

Pc == {"update", "survey", "check", "offer", "event", "complete",
       "claim", "accept", "release", "reject", "rejecting", "expire",
       "expiring", "assign", "pickup", "deliver"}

Idle == [pc |-> "idle"]

\* The dispatch of update_merchant_order_status is "inline": it runs inside the
\* transaction that has not committed the status yet.
Session ==
  [pc : Pc, ord : Orders, rdr : Holder, round : 0..MaxRound,
   base : Row, mine : Row, picks : SUBSET Riders, mode : {"own", "inline"}]

TypeOK ==
  /\ order \in [Orders -> Row]
  /\ offer \in [Orders -> [Riders -> [Rounds -> OfferStatus]]]
  /\ audit \in [Orders -> SUBSET Status]
  /\ settled \subseteq Orders
  /\ credits \in [Orders -> 0..MaxCredits]
  /\ sess \in [Requests -> Session \cup {Idle}]

-----------------------------------------------------------------------------
(* The session: load, flush, locks *)

Free(q) == sess[q] = Idle
At(q, pc) == sess[q].pc = pc

\* Request q goes on to pc with order o: "base" is the row as it loaded it,
\* "mine" what it made of it in memory.
Begin(q, pc, o, r, k, base, mine) ==
  sess' = [sess EXCEPT ![q] =
    [pc |-> pc, ord |-> o, rdr |-> r, round |-> k,
     base |-> base, mine |-> mine, picks |-> {}, mode |-> "own"]]

End(q) == sess' = [sess EXCEPT ![q] = Idle]

Dirty(db, base, mine) == IF mine = base THEN db ELSE mine

WholeRow(db, base, mine) == mine

\* The flush of a loaded object: only the changed columns are written.
Merge(db, base, mine) ==
  [status        |-> Dirty(db.status, base.status, mine.status),
   rider_user_id |-> Dirty(db.rider_user_id, base.rider_user_id, mine.rider_user_id),
   state         |-> Dirty(db.state, base.state, mine.state),
   round         |-> Dirty(db.round, base.round, mine.round),
   stamps        |-> (db.stamps \ (base.stamps \ mine.stamps)) \cup (mine.stamps \ base.stamps)]

\* The row of o is locked by the transaction of another request's inline
\* dispatch, from the autoflush of the new status to the commit.
RowLocked(q, o) ==
  \E p \in Requests \ {q} :
    /\ ~Free(p)
    /\ sess[p].ord = o
    /\ sess[p].mode = "inline"
    /\ sess[p].pc \in {"survey", "check", "offer"}

\* An offer row is locked between the autoflush and the commit of
\* reject_offer and of expire_offer.
OfferLocked(o, r, k) ==
  \E p \in Requests :
    /\ sess[p].pc \in {"rejecting", "expiring"}
    /\ sess[p].ord = o /\ sess[p].rdr = r /\ sess[p].round = k

OffersLocked(o) == \E r \in Riders, k \in Rounds : OfferLocked(o, r, k)

-----------------------------------------------------------------------------
(* Who may be offered an order *)

DeclinedBy(o) ==
  {r \in Riders : \E k \in Rounds : offer[o][r][k] \in Declined}

Busy ==
  {r \in Riders : \E o \in Orders :
     /\ order[o].rider_user_id = r
     /\ order[o].stamps \cap {"cancelled_at", "delivered_at"} = {}}

CandidatesAnyTier(o, online) ==
  {r \in Riders \ (DeclinedBy(o) \cup Busy) :
     Tier[r] = "rider_private" \/ (Tier[r] \in Tiers /\ r \in online)}

\* online: the riders with is_accepting_offers; the private team needs none.
Candidates(o, online) ==
  {r \in Riders \ (DeclinedBy(o) \cup Busy) :
     \/ Tier[r] = "rider_private"
     \/ Tier[r] \in {"open", "platform"} /\ r \in online /\ o \notin PrivateOnly}

OfTier(C, t) == {r \in C : Tier[r] = t}

\* Whom one round reaches: the whole private team under private_only; else one
\* rider of the private team (the nearest); else the best tier in a broadcast.
Selections(o, C) ==
  IF o \in PrivateOnly THEN {C}
  ELSE IF OfTier(C, "rider_private") # {} THEN {{r} : r \in OfTier(C, "rider_private")}
  ELSE IF OfTier(C, "open") # {} THEN {OfTier(C, "open")}
  ELSE {OfTier(C, "platform")}

HasPending(o) ==
  \E r \in Riders, k \in Rounds : offer[o][r][k] \in StillPending

\* get_pending_offer_for_rider: pending and not past expires_at.
LiveRounds(o, r) == {k \in Rounds : offer[o][r][k] = "pending"}

OfferedState(o, picks) ==
  IF o \in PrivateOnly \/ OfTier(picks, "rider_private") # {}
    THEN "offered_rider_private"
  ELSE IF OfTier(picks, "open") # {} THEN "offered_open"
  ELSE "offered_platform"

\* What the round makes of the order in memory; no picks: nobody is left.
DispatchRow(o, row, picks) ==
  IF picks = {} THEN [row EXCEPT !.state = "open_unfilled"]
  ELSE [row EXCEPT !.state = OfferedState(o, picks), !.round = row.round + 1]

AddOffers(o, picks, k) ==
  [offer EXCEPT ![o] =
     [r \in Riders |-> [n \in Rounds |->
        IF r \in picks /\ n = k THEN "pending" ELSE offer[o][r][n]]]]

\* uq_order_dispatch_offer_round: the INSERT of such an offer fails.
RoundTaken(o, picks, k) == \E r \in picks : offer[o][r][k] # "none"

Dispatchable(row) == row.status \in {"preparing", "placed"}

NoDispatch(q, row) == End(q)

\* After its commit, a request calls dispatch_next_offer with the order it
\* holds in memory.
ThenDispatch(q, row) ==
  IF Dispatchable(row)
    THEN sess' = [sess EXCEPT ![q].pc = "survey", ![q].base = row, ![q].mine = row]
    ELSE End(q)

-----------------------------------------------------------------------------
(* The customer *)

\* checkout_cart, from the commit of the new order on: a private_only order is
\* dispatched at once.
PlaceOrder(q, o) ==
  LET row == [order[o] EXCEPT !.status = "placed"] IN
  /\ Free(q)
  /\ order[o].status = "absent"
  /\ order' = [order EXCEPT ![o] = row]
  /\ IF o \in PrivateOnly
       THEN Begin(q, "survey", o, NoRider, 0, row, row)
       ELSE UNCHANGED sess
  /\ UNCHANGED <<offer, audit, settled, credits>>

Cancellable(row) == row.status = "placed"

\* cancel_order: its read only repeats the condition of its UPDATE, and the
\* event is part of the same commit.
CancelOrder(o) ==
  /\ Cancellable(order[o])
  /\ \A q \in Requests : ~RowLocked(q, o)
  /\ order' = [order EXCEPT ![o].status = "cancelled", ![o].stamps = @ \cup {"cancelled_at"}]
  /\ audit' = [audit EXCEPT ![o] = @ \cup {"cancelled"}]
  /\ UNCHANGED <<offer, settled, credits, sess>>

-----------------------------------------------------------------------------
(* The merchant: update_merchant_order_status, assign_rider_to_order *)

MerchantTransitions ==
  {<<"placed", "preparing">>, <<"placed", "cancelled">>,
   <<"preparing", "delivered">>, <<"preparing", "cancelled">>}

StatusOnly(row, new) == [row EXCEPT !.status = new]

StampOf == [preparing |-> "preparing_at", delivered |-> "delivered_at",
            cancelled |-> "cancelled_at"]

UpdatedRow(row, new) == [row EXCEPT !.status = new, !.stamps = @ \cup {StampOf[new]}]

UpdateStatusReadPickedUp(q, o, new) ==
  LET row == order[o] IN
  /\ Free(q)
  /\ new = row.status \/ <<row.status, new>> \in MerchantTransitions
  /\ new = "delivered" => row.rider_user_id = NoRider
  /\ Begin(q, "update", o, NoRider, 0, row, UpdatedRow(row, new))
  /\ UNCHANGED <<order, offer, audit, settled, credits>>

UpdateStatusRead(q, o, new) ==
  LET row == order[o] IN
  /\ Free(q)
  /\ new = row.status \/ <<row.status, new>> \in MerchantTransitions
  /\ new = "cancelled" => "picked_up_at" \notin row.stamps
  /\ new = "delivered" => row.rider_user_id = NoRider
  /\ Begin(q, "update", o, NoRider, 0, row, UpdatedRow(row, new))
  /\ UNCHANGED <<order, offer, audit, settled, credits>>

\* The event that goes with a status the request changed.
WithEvent(s) ==
  IF s.mine.status = s.base.status THEN audit
  ELSE [audit EXCEPT ![s.ord] = @ \cup {s.mine.status}]

\* Without a dispatch: status, timestamp and event in one commit, then the
\* completion of an order that became delivered.
UpdateStatusWrite(q) ==
  LET s == sess[q] IN
  /\ At(q, "update")
  /\ s.mine.status # "preparing"
  /\ ~RowLocked(q, s.ord)
  /\ order' = [order EXCEPT ![s.ord] = Merge(@, s.base, s.mine)]
  /\ audit' = WithEvent(s)
  /\ IF s.mine.status = "delivered" /\ s.base.status # "delivered"
       THEN sess' = [sess EXCEPT ![q].pc = "complete"]
       ELSE End(q)
  /\ UNCHANGED <<offer, settled, credits>>

\* preparing: dispatch_next_offer runs before any commit, and its first query
\* flushes the new status.
UpdateStatusPreparing(q) ==
  LET s == sess[q] IN
  /\ At(q, "update")
  /\ s.mine.status = "preparing"
  /\ ~RowLocked(q, s.ord)
  /\ sess' = [sess EXCEPT ![q].pc = "survey", ![q].mode = "inline"]
  /\ UNCHANGED <<order, offer, audit, settled, credits>>

\* The commit after the dispatch: by then the status itself is committed.
RecordEvent(q) ==
  /\ At(q, "event")
  /\ audit' = WithEvent(sess[q])
  /\ End(q)
  /\ UNCHANGED <<order, offer, settled, credits>>

MayAssign(o, r, online) ==
  \/ r \in Access
  \/ o \notin PrivateOnly /\ Tier[r] = "platform" /\ r \in online

\* assign_rider_to_order; a live offer of the same rider answers the request.
AssignRead(q, o, r, online) ==
  LET row == order[o] IN
  /\ Free(q)
  /\ row.status \in {"placed", "preparing"}
  /\ MayAssign(o, r, online)
  /\ LiveRounds(o, r) = {}
  /\ row.round < MaxRound
  /\ Begin(q, "assign", o, r, row.round + 1, row,
           [row EXCEPT !.state = "offered_manual", !.round = @ + 1])
  /\ UNCHANGED <<order, offer, audit, settled, credits>>

AssignWrite(q) ==
  LET s == sess[q] IN
  /\ At(q, "assign")
  /\ ~RowLocked(q, s.ord)
  /\ IF RoundTaken(s.ord, {s.rdr}, s.round)
       THEN UNCHANGED <<order, offer>>
       ELSE /\ order' = [order EXCEPT ![s.ord] = Merge(@, s.base, s.mine)]
            /\ offer' = AddOffers(s.ord, {s.rdr}, s.round)
  /\ End(q)
  /\ UNCHANGED <<audit, settled, credits>>

-----------------------------------------------------------------------------
(* dispatch_next_offer *)

\* _dispatch_candidates_for_order, and whom the round will reach.
Survey(q, online) ==
  LET o == sess[q].ord
      C == Candidates(o, online)
  IN
  /\ At(q, "survey")
  /\ IF C = {}
       THEN sess' = [sess EXCEPT ![q].pc = "offer"]
       ELSE \E picks \in Selections(o, C) :
              sess' = [sess EXCEPT ![q].pc = "check", ![q].picks = picks]
  /\ UNCHANGED <<order, offer, audit, settled, credits>>

\* An inline dispatch also sets preparing_at, to a new time even if it was set.
Flushed(s, row) ==
  LET new == Merge(order[s.ord], s.base, row) IN
  IF s.mode = "inline" THEN [new EXCEPT !.stamps = @ \cup {"preparing_at"}] ELSE new

\* With offers pending there is nothing to do: an inline dispatch returns to
\* the one commit of status and event.
CheckPending(q) ==
  LET s == sess[q] IN
  /\ At(q, "check")
  /\ IF ~HasPending(s.ord)
       THEN /\ sess' = [sess EXCEPT ![q].pc = "offer"]
            /\ UNCHANGED <<order, audit>>
       ELSE /\ End(q)
            /\ IF s.mode = "inline"
                 THEN /\ order' = [order EXCEPT ![s.ord] = Flushed(s, s.mine)]
                      /\ audit' = WithEvent(s)
                 ELSE UNCHANGED <<order, audit>>
  /\ UNCHANGED <<offer, settled, credits>>

\* The commit of a round, or of open_unfilled; a clash with the unique
\* constraint fails the whole request.
OfferRound(q) ==
  LET s == sess[q]
      row == DispatchRow(s.ord, s.mine, s.picks)
  IN
  /\ At(q, "offer")
  /\ s.picks # {} => s.mine.round < MaxRound
  /\ ~RowLocked(q, s.ord)
  /\ IF RoundTaken(s.ord, s.picks, row.round)
       THEN End(q) /\ UNCHANGED <<order, offer>>
       ELSE /\ order' = [order EXCEPT ![s.ord] = Flushed(s, row)]
            /\ offer' = AddOffers(s.ord, s.picks, row.round)
            /\ IF s.mode = "inline" THEN sess' = [sess EXCEPT ![q].pc = "event"] ELSE End(q)
  /\ UNCHANGED <<audit, settled, credits>>

-----------------------------------------------------------------------------
(* The rider takes an order *)

UnclaimedIgnored(o) == TRUE
Unclaimed(o) == order[o].rider_user_id = NoRider

LiveIgnored(o, r, k) == offer[o][r][k] \in OfferStatus \ {"none"}
Live(o, r, k) == offer[o][r][k] = "pending"

UnstampedRow(db, snap, r, starts) ==
  [db EXCEPT !.rider_user_id = r, !.state = "assigned",
             !.status = IF snap.status = "placed" THEN "preparing" ELSE snap.status]

\* The values both conditional updates write: status and preparing_at are
\* computed from the snapshot; "starts" is when they fill in preparing_at.
ClaimedRow(db, snap, r, starts) ==
  [db EXCEPT !.rider_user_id = r,
             !.state = "assigned",
             !.status = IF snap.status = "placed" THEN "preparing" ELSE snap.status,
             !.stamps = (@ \ {"preparing_at"})
                        \cup (snap.stamps \cap {"preparing_at"})
                        \cup (IF starts THEN {"preparing_at"} ELSE {})
                        \cup {"rider_assigned_at"}]

\* accept_offer
AcceptRead(q, o, r, k) ==
  /\ Free(q)
  /\ offer[o][r][k] \in StillPending
  /\ Begin(q, "accept", o, r, k, order[o], order[o])
  /\ UNCHANGED <<order, offer, audit, settled, credits>>

\* The other pending offers of the order expire with the acceptance.
AcceptedOffers(o, r, k) ==
  [offer EXCEPT ![o] =
     [p \in Riders |-> [n \in Rounds |->
        IF p = r /\ n = k THEN "accepted"
        ELSE IF offer[o][p][n] \in StillPending THEN "expired"
        ELSE offer[o][p][n]]]]

AcceptWrite(q) ==
  LET s == sess[q] IN
  /\ At(q, "accept")
  /\ ~RowLocked(q, s.ord)
  /\ ~OffersLocked(s.ord)
  /\ IF Live(s.ord, s.rdr, s.round) /\ Unclaimed(s.ord)
       THEN /\ order' = [order EXCEPT ![s.ord] =
                           ClaimedRow(@, s.base, s.rdr, s.base.status = "placed")]
            /\ offer' = AcceptedOffers(s.ord, s.rdr, s.round)
       ELSE UNCHANGED <<order, offer>>
  /\ End(q)
  /\ UNCHANGED <<audit, settled, credits>>

MayClaim(o, r, online) ==
  \/ r \in Access
  \/ /\ Tier[r] = "platform"
     /\ r \in online
     /\ order[o].state = "open_unfilled"
     /\ o \notin PrivateOnly

\* rider_claim_order: a live offer is accepted, else the order is claimed.
ClaimRead(q, o, r, online) ==
  LET row == order[o] IN
  /\ Free(q)
  /\ row.status # "absent"
  /\ row.rider_user_id \in {NoRider, r}
  /\ \/ \E k \in LiveRounds(o, r) : Begin(q, "accept", o, r, k, row, row)
     \/ /\ LiveRounds(o, r) = {}
        /\ MayClaim(o, r, online)
        /\ Begin(q, "claim", o, r, 0, row, row)
  /\ UNCHANGED <<order, offer, audit, settled, credits>>

ClaimWrite(q) ==
  LET s == sess[q] IN
  /\ At(q, "claim")
  /\ ~RowLocked(q, s.ord)
  /\ IF Unclaimed(s.ord)
       THEN order' = [order EXCEPT ![s.ord] =
                        ClaimedRow(@, s.base, s.rdr, s.base.status \in {"placed", "preparing"})]
       ELSE UNCHANGED order
  /\ End(q)
  /\ UNCHANGED <<offer, audit, settled, credits>>

-----------------------------------------------------------------------------
(* The rider gives an order or an offer back, or lets it lapse *)

ReleasedRow(row) ==
  [row EXCEPT !.rider_user_id = NoRider, !.state = "unassigned",
              !.stamps = @ \ {"rider_assigned_at"}]

ReleaseRead(q, o, r) ==
  LET row == order[o] IN
  /\ Free(q)
  /\ row.rider_user_id = r
  /\ "picked_up_at" \notin row.stamps
  /\ row.status \notin {"delivered", "cancelled"}
  /\ Begin(q, "release", o, r, 0, row, ReleasedRow(row))
  /\ UNCHANGED <<order, offer, audit, settled, credits>>

ReleasedOffers(o, r) ==
  [offer EXCEPT ![o][r] =
     [k \in Rounds |-> IF offer[o][r][k] = "accepted" THEN "released" ELSE offer[o][r][k]]]

\* release_assignment, with the search for a replacement that follows.
ReleaseWrite(q) ==
  LET s == sess[q] IN
  /\ At(q, "release")
  /\ ~RowLocked(q, s.ord)
  /\ ~OffersLocked(s.ord)
  /\ order' = [order EXCEPT ![s.ord] = Merge(@, s.base, s.mine)]
  /\ offer' = ReleasedOffers(s.ord, s.rdr)
  /\ ThenDispatch(q, s.mine)
  /\ UNCHANGED <<audit, settled, credits>>

\* reject_offer loads the offer, changes it, and the query for the order
\* flushes the change; the order is loaded only then.
RejectRead(q, o, r, k) ==
  /\ Free(q)
  /\ offer[o][r][k] \in StillPending
  /\ Begin(q, "reject", o, r, k, AbsentRow, AbsentRow)
  /\ UNCHANGED <<order, offer, audit, settled, credits>>

RejectFlush(q) ==
  LET s == sess[q]
      row == order[s.ord]
  IN
  /\ At(q, "reject")
  /\ ~OfferLocked(s.ord, s.rdr, s.round)
  /\ Begin(q, "rejecting", s.ord, s.rdr, s.round, row,
           IF row.rider_user_id = NoRider THEN [row EXCEPT !.state = "unassigned"] ELSE row)
  /\ UNCHANGED <<order, offer, audit, settled, credits>>

\* The commit of a rejection or an expiry.
Decline(q, verdict) ==
  LET s == sess[q] IN
  /\ s.mine # s.base => ~RowLocked(q, s.ord)
  /\ order' = [order EXCEPT ![s.ord] = Merge(@, s.base, s.mine)]
  /\ offer' = [offer EXCEPT ![s.ord][s.rdr][s.round] = verdict]
  /\ UNCHANGED <<audit, settled, credits>>

RejectCommit(q) ==
  /\ At(q, "rejecting")
  /\ Decline(q, "rejected")
  /\ ThenDispatch(q, sess[q].mine)

\* The clock passes expires_at.
LapseOffer(o, r, k) ==
  /\ offer[o][r][k] = "pending"
  /\ offer' = [offer EXCEPT ![o][r][k] = "lapsed"]
  /\ UNCHANGED <<order, audit, settled, credits, sess>>

ExpireReadEarly(q, o, r, k) ==
  /\ ExpiryTaskRuns
  /\ Free(q)
  /\ offer[o][r][k] = "pending"
  /\ Begin(q, "expire", o, r, k, AbsentRow, AbsentRow)
  /\ UNCHANGED <<order, offer, audit, settled, credits>>

\* expire_offer, which only the Celery task calls.
ExpireRead(q, o, r, k) ==
  /\ ExpiryTaskRuns
  /\ Free(q)
  /\ offer[o][r][k] = "lapsed"
  /\ Begin(q, "expire", o, r, k, AbsentRow, AbsentRow)
  /\ UNCHANGED <<order, offer, audit, settled, credits>>

\* The assignment state is reset when no live offer of the order is left.
ExpireFlush(q) ==
  LET s == sess[q]
      row == order[s.ord]
      others == {r \in Riders : LiveRounds(s.ord, r) \ (IF r = s.rdr THEN {s.round} ELSE {}) # {}}
  IN
  /\ At(q, "expire")
  /\ ~OfferLocked(s.ord, s.rdr, s.round)
  /\ Begin(q, "expiring", s.ord, s.rdr, s.round, row,
           IF row.rider_user_id = NoRider /\ others = {}
             THEN [row EXCEPT !.state = "unassigned"] ELSE row)
  /\ UNCHANGED <<order, offer, audit, settled, credits>>

ExpireCommit(q) ==
  /\ At(q, "expiring")
  /\ Decline(q, "expired")
  /\ IF sess[q].mine.rider_user_id = NoRider
       THEN ThenDispatch(q, sess[q].mine) ELSE End(q)

-----------------------------------------------------------------------------
(* The rider delivers *)

\* rider_mark_picked_up
PickedUpRow(row) == [row EXCEPT !.stamps = @ \cup {"picked_up_at"}]

PickUpRead(q, o, r) ==
  LET row == order[o] IN
  /\ Free(q)
  /\ row.rider_user_id = r
  /\ row.status # "cancelled"
  /\ Begin(q, "pickup", o, r, 0, row, PickedUpRow(row))
  /\ UNCHANGED <<order, offer, audit, settled, credits>>

PickUpWrite(q) ==
  LET s == sess[q] IN
  /\ At(q, "pickup")
  /\ ~RowLocked(q, s.ord)
  /\ order' = [order EXCEPT ![s.ord] = Merge(@, s.base, s.mine)]
  /\ End(q)
  /\ UNCHANGED <<offer, audit, settled, credits>>

\* rider_mark_delivered
DeliveredRow(row) ==
  [row EXCEPT !.status = "delivered", !.stamps = @ \cup {"picked_up_at", "delivered_at"}]

DeliverRead(q, o, r) ==
  LET row == order[o] IN
  /\ Free(q)
  /\ row.rider_user_id = r
  /\ row.status # "cancelled"
  /\ Begin(q, "deliver", o, r, 0, row, DeliveredRow(row))
  /\ UNCHANGED <<order, offer, audit, settled, credits>>

DeliverWrite(q) ==
  LET s == sess[q] IN
  /\ At(q, "deliver")
  /\ ~RowLocked(q, s.ord)
  /\ order' = [order EXCEPT ![s.ord] = Merge(@, s.base, s.mine)]
  /\ IF s.base.status # "delivered"
       THEN sess' = [sess EXCEPT ![q].pc = "complete"] ELSE End(q)
  /\ UNCHANGED <<offer, audit, settled, credits>>

CompleteUnordered(q) ==
  LET o == sess[q].ord IN
  /\ At(q, "complete")
  /\ settled' \in {settled, settled \cup {o}}
  /\ credits' \in {credits, [credits EXCEPT ![o] = IF @ < MaxCredits THEN @ + 1 ELSE @]}
  /\ End(q)
  /\ UNCHANGED <<order, offer, audit>>

\* apply_completed_order_loyalty changes the customer in memory; the commit of
\* compute_settlement_for_order (or a later one of the request, when the
\* settlement exists) makes it durable.  Either may raise: a failed loyalty
\* leaves the settlement, a failed settlement rolls both back.
Complete(q) ==
  LET o == sess[q].ord IN
  /\ At(q, "complete")
  /\ \/ UNCHANGED <<settled, credits>>
     \/ /\ settled' = settled \cup {o}
        /\ credits' \in {credits, [credits EXCEPT ![o] = IF @ < MaxCredits THEN @ + 1 ELSE @]}
  /\ End(q)
  /\ UNCHANGED <<order, offer, audit>>

-----------------------------------------------------------------------------
(* The whole *)

\* The process dies, or PostgreSQL aborts the transaction (a deadlock victim,
\* a lost connection): what is not committed is gone.
Abort(q) ==
  /\ MayAbort
  /\ ~Free(q)
  /\ End(q)
  /\ UNCHANGED <<order, offer, audit, settled, credits>>

\* A request comes in.  (A merchant request for "placed" passes the checks of
\* a placed order only, and changes nothing.)
Merchant(q, o) ==
  \/ "to_preparing" \in Handlers /\ UpdateStatusRead(q, o, "preparing")
  \/ "to_delivered" \in Handlers /\ UpdateStatusRead(q, o, "delivered")
  \/ "to_cancelled" \in Handlers /\ UpdateStatusRead(q, o, "cancelled")
  \/ /\ "assign_rider" \in Handlers
     /\ \E r \in Riders, online \in SUBSET Riders : AssignRead(q, o, r, online)

Rider(q, o, r) ==
  \/ "claim" \in Handlers /\ \E online \in SUBSET Riders : ClaimRead(q, o, r, online)
  \/ "accept_offer" \in Handlers /\ \E k \in Rounds : AcceptRead(q, o, r, k)
  \/ "reject_offer" \in Handlers /\ \E k \in Rounds : RejectRead(q, o, r, k)
  \/ "release" \in Handlers /\ ReleaseRead(q, o, r)
  \/ "picked_up" \in Handlers /\ PickUpRead(q, o, r)
  \/ "delivered" \in Handlers /\ DeliverRead(q, o, r)

Arrive(q) ==
  \E o \in Orders : PlaceOrder(q, o) \/ Merchant(q, o) \/ \E r \in Riders : Rider(q, o, r)

Expire(q) == \E o \in Orders, r \in Riders, k \in Rounds : ExpireRead(q, o, r, k)

Continue(q) ==
  \/ UpdateStatusWrite(q) \/ UpdateStatusPreparing(q) \/ RecordEvent(q)
  \/ AssignWrite(q)
  \/ \E online \in SUBSET Riders : Survey(q, online)
  \/ CheckPending(q) \/ OfferRound(q)
  \/ AcceptWrite(q) \/ ClaimWrite(q)
  \/ ReleaseWrite(q)
  \/ RejectFlush(q) \/ RejectCommit(q)
  \/ ExpireFlush(q) \/ ExpireCommit(q)
  \/ PickUpWrite(q) \/ DeliverWrite(q) \/ Complete(q)

Lapse == \E o \in Orders, r \in Riders, k \in Rounds : LapseOffer(o, r, k)

Init ==
  /\ order = [o \in Orders |-> AbsentRow]
  /\ offer = [o \in Orders |-> [r \in Riders |-> [k \in Rounds |-> "none"]]]
  /\ audit = [o \in Orders |-> {}]
  /\ settled = {}
  /\ credits = [o \in Orders |-> 0]
  /\ sess = [q \in Requests |-> Idle]

Next ==
  \/ \E q \in Requests : Arrive(q) \/ Expire(q) \/ Continue(q) \/ Abort(q)
  \/ \E o \in Orders : "cancel_order" \in Handlers /\ CancelOrder(o)
  \/ Lapse

Spec == Init /\ [][Next]_vars

\* A request runs to its end, time passes, and the queue hands a due task to a
\* worker sooner or later.  Nobody has to send a request.
Fairness ==
  /\ \A q \in Requests : WF_vars(Continue(q))
  /\ WF_vars(Lapse)
  /\ SF_vars(\E q \in Requests : Expire(q))

FairSpec == Spec /\ Fairness

-----------------------------------------------------------------------------
(* What holds *)

\* An order has a rider exactly when it has rider_assigned_at, whatever the
\* snapshots of the requests that took it, gave it back or changed it: the
\* customer's sub-status (_derive_sub_status) reads the second for the first.
AssignmentStamped ==
  \A o \in Orders : "rider_assigned_at" \in order[o].stamps <=> order[o].rider_user_id # NoRider

\* A status carries its timestamp, also when a claim or an acceptance wrote
\* both from a stale snapshot: the timeline and the busy-rider query read the
\* timestamps, the handlers read the status.
StatusStamped ==
  \A o \in Orders :
    /\ order[o].status = "preparing" => "preparing_at" \in order[o].stamps
    /\ order[o].status = "delivered" => "delivered_at" \in order[o].stamps
    /\ order[o].status = "cancelled" => "cancelled_at" \in order[o].stamps

\* An order of a private_only restaurant is offered to, and carried by, riders
\* with access to that restaurant only, through every path that offers
\* (dispatch, manual assignment) or assigns (claim, acceptance).
PrivateOnlyTeam ==
  \A o \in PrivateOnly :
    /\ order[o].rider_user_id \in Access \cup {NoRider}
    /\ \A r \in Riders, k \in Rounds : offer[o][r][k] # "none" => r \in Access

\* An offer is accepted only while it is pending and unexpired, a declined one
\* is never revived, and a new round never overwrites an offer that was made,
\* although rejections and expiries are written without a condition and the
\* round number comes from a snapshot.
OfferStep(a, b) ==
  /\ b = "accepted" => a \in {"pending", "accepted"}
  /\ b \in StillPending => a \in StillPending \cup {"none"}
  /\ a \in Declined => b \in Declined
OffersStep ==
  \A o \in Orders, r \in Riders, k \in Rounds :
    OfferStep(offer[o][r][k], offer[o][r][k]')
OfferLifecycle == [][OffersStep]_vars

\* Money follows delivery: a settlement exists only for an order that was
\* marked delivered at some time, and loyalty is never durable without the
\* settlement it is committed with.
SettledAfterDelivery ==
  \A o \in Orders :
    /\ o \in settled => "delivered_at" \in order[o].stamps
    /\ credits[o] > 0 => o \in settled

\* The audit trail does not claim what did not happen: a recorded delivery or
\* cancellation was committed with its timestamp, which no later write of a
\* stale snapshot takes back.
AuditTruthful ==
  \A o \in Orders :
    /\ "delivered" \in audit[o] => "delivered_at" \in order[o].stamps
    /\ "cancelled" \in audit[o] => "cancelled_at" \in order[o].stamps

\* No order is forgotten: one that is being prepared without rider and without
\* a pending offer gets an offer, a rider, the open_unfilled flag the merchant
\* is told of, or is closed.  (The last conjunct is the bound on rounds.)
Waiting(o) ==
  /\ order[o].status = "preparing"
  /\ order[o].rider_user_id = NoRider
  /\ order[o].state # "open_unfilled"
  /\ ~HasPending(o)
  /\ order[o].round < MaxRound
NeverForgotten == \A o \in Orders : Waiting(o) ~> ~Waiting(o)

\* A lapsed offer is resolved, so that the search goes on to the next rider.
LapsedResolved ==
  \A o \in Orders, r \in Riders, k \in Rounds :
    offer[o][r][k] = "lapsed" ~> offer[o][r][k] # "lapsed"

-----------------------------------------------------------------------------
(* What the repository says and the code does not keep *)

\* orders/service.py:35-37: delivered and cancelled are terminal.
TerminalIsFinal ==
  [][\A o \in Orders :
       order[o].status \in {"delivered", "cancelled"} => order[o].status' = order[o].status]_vars
=============================================================================
