------------------------ MODULE OrderDispatchProofs ------------------------
(***************************************************************************)
(* Proofs, for any orders, riders, requests, policies and bounds.          *)
(***************************************************************************)
EXTENDS OrderDispatchInvariant, TLAPS

USE NoRiderAssumption, TierAssumption, AccessAssumption,
    PrivateOnlyAssumption, BoundsAssumption, FlagsAssumption

\* The flush of a consistent change of a snapshot yields a row.
LEMMA MergeType ==
  ASSUME NEW db \in Row, NEW base \in Row, NEW mine \in Row
  PROVE  Merge(db, base, mine) \in Row
BY DEF Merge, Dirty, Row

LEMMA RowTypes ==
  ASSUME NEW row \in Row
  PROVE  /\ AbsentRow \in Row
         /\ \A new \in DOMAIN StampOf : UpdatedRow(row, new) \in Row
         /\ ReleasedRow(row) \in Row
         /\ DeliveredRow(row) \in Row
         /\ PickedUpRow(row) \in Row
         /\ [row EXCEPT !.state = "unassigned"] \in Row
<1> USE DEF Row, Status, Holder, AssignmentState, Stamps
<1>1. AbsentRow \in Row
  BY DEF AbsentRow
<1>2. ASSUME NEW new \in DOMAIN StampOf
      PROVE  UpdatedRow(row, new) \in Row
  <2>1. new \in {"preparing", "delivered", "cancelled"} /\ StampOf[new] \in Stamps
    BY DEF StampOf
  <2> QED BY <2>1 DEF UpdatedRow
<1>3. ReleasedRow(row) \in Row
  BY DEF ReleasedRow
<1>4. DeliveredRow(row) \in Row
  BY DEF DeliveredRow
<1>5. PickedUpRow(row) \in Row
  BY DEF PickedUpRow
<1>6. [row EXCEPT !.state = "unassigned"] \in Row
  OBVIOUS
<1> QED BY <1>1, <1>2, <1>3, <1>4, <1>5, <1>6

LEMMA ClaimedRowType ==
  ASSUME NEW row \in Row, NEW snap \in Row, NEW r \in Riders, NEW starts \in BOOLEAN
  PROVE  ClaimedRow(row, snap, r, starts) \in Row
BY DEF ClaimedRow, Row, Status, Holder, AssignmentState, Stamps

LEMMA OfferedManuallyType ==
  ASSUME NEW row \in Row, row.round < MaxRound
  PROVE  [row EXCEPT !.state = "offered_manual", !.round = @ + 1] \in Row
<1>1. row.round + 1 \in 0..MaxRound  BY DEF Row
<1> QED BY <1>1 DEF Row, AssignmentState

LEMMA DispatchRowType ==
  ASSUME NEW o \in Orders, NEW row \in Row, NEW picks \in SUBSET Riders,
         picks # {} => row.round < MaxRound
  PROVE  DispatchRow(o, row, picks) \in Row
<1>1. CASE picks = {}
  BY <1>1 DEF DispatchRow, Row, AssignmentState
<1>2. CASE picks # {}
  <2>1. row.round + 1 \in 0..MaxRound  BY <1>2 DEF Row
  <2>2. OfferedState(o, picks) \in AssignmentState
    BY DEF OfferedState, AssignmentState
  <2> QED BY <1>2, <2>1, <2>2 DEF DispatchRow, Row
<1> QED BY <1>1, <1>2

LEMMA AddOffersType ==
  ASSUME offer \in [Orders -> [Riders -> [Rounds -> OfferStatus]]],
         NEW o \in Orders, NEW picks, NEW k
  PROVE  AddOffers(o, picks, k) \in [Orders -> [Riders -> [Rounds -> OfferStatus]]]
BY DEF AddOffers, OfferStatus

\* A request that is not idle is a session.
LEMMA Busy_is_session ==
  ASSUME TypeOK, NEW q \in Requests, NEW pc \in Pc, At(q, pc)
  PROVE  sess[q] \in Session /\ sess[q] # Idle
<1>1. pc # "idle"  BY DEF Pc
<1>2. sess[q] # Idle  BY <1>1 DEF At, Idle
<1> QED BY <1>2 DEF TypeOK

\* What one step makes of the rows; every step of the system is of this form.
RowStep ==
  /\ order' \in [Orders -> Row]
  /\ \A o \in Orders : RowOK(order[o]') /\ Known(order[o], order[o]')

LEMMA KnownTransitive ==
  ASSUME NEW a, NEW b, NEW c, Known(a, b), Known(b, c)
  PROVE  Known(a, c)
BY DEF Known

\* The sessions a step leaves alone stay good, because marks are final.
LEMMA SessionsCarry ==
  ASSUME TypeOK, SessionsOK, RowStep,
         NEW q \in Requests, NEW s \in Session \cup {Idle},
         sess' = [sess EXCEPT ![q] = s],
         s # Idle => SessionOK(s, (order')[s.ord])
  PROVE  SessionsOK' /\ sess' \in [Requests -> Session \cup {Idle}]
<1>1. sess' \in [Requests -> Session \cup {Idle}]
  BY DEF TypeOK
<1>2. ASSUME NEW p \in Requests, (sess')[p] # Idle
      PROVE  SessionOK((sess')[p], (order')[(sess')[p].ord])
  <2>1. CASE p = q
    BY <1>2, <2>1 DEF TypeOK
  <2>2. CASE p # q
    <3>1. (sess')[p] = sess[p]  BY <2>2 DEF TypeOK
    <3>2. sess[p] \in Session  BY <1>2, <3>1 DEF TypeOK
    <3>3. sess[p].ord \in Orders  BY <3>2 DEF Session
    <3>4. SessionOK(sess[p], order[sess[p].ord])  BY <1>2, <3>1 DEF SessionsOK
    <3>5. Known(order[sess[p].ord], (order')[sess[p].ord])  BY <3>3 DEF RowStep
    <3>6. Known(sess[p].base, (order')[sess[p].ord])
      BY <3>4, <3>5, KnownTransitive DEF SessionOK
    <3>7. sess[p].pc = "complete" => "delivered_at" \in (order')[sess[p].ord].stamps
      BY <3>4, <3>5 DEF SessionOK, Known, Final
    <3> QED BY <3>1, <3>4, <3>6, <3>7 DEF SessionOK
  <2> QED BY <2>1, <2>2
<1> QED BY <1>1, <1>2 DEF SessionsOK

\* A step that only moves a request: the rest of the invariant is untouched.
LEMMA OnlyASession ==
  ASSUME IInv, NEW q \in Requests, NEW s \in Session \cup {Idle},
         sess' = [sess EXCEPT ![q] = s],
         s # Idle => SessionOK(s, order[s.ord]),
         UNCHANGED <<order, offer, audit, settled, credits>>
  PROVE  IInv'
<1>1. RowStep
  BY DEF RowStep, IInv, RowsOK, TypeOK, Known
<1>2. SessionsOK' /\ sess' \in [Requests -> Session \cup {Idle}]
  BY <1>1, SessionsCarry DEF IInv
<1>3. RowsOK' /\ PrivateOnlyTeam' /\ AuditTruthful' /\ SettledAfterDelivery'
  BY DEF IInv, RowsOK, PrivateOnlyTeam, AuditTruthful, SettledAfterDelivery
<1> QED BY <1>2, <1>3 DEF IInv, TypeOK

-----------------------------------------------------------------------------
(* Flushes.  A handler either adds stamps to a row and keeps its rider, or    *)
(* (release) clears the rider together with rider_assigned_at.               *)

LEMMA MergeGrows ==
  ASSUME NEW db \in Row, NEW base \in Row, NEW mine \in Row,
         RowOK(db),
         mine.rider_user_id = base.rider_user_id,
         base.stamps \subseteq mine.stamps,
         "rider_assigned_at" \in mine.stamps => "rider_assigned_at" \in base.stamps,
         mine.status # base.status =>
           /\ mine.status \in DOMAIN StampOf
           /\ StampOf[mine.status] \in Merge(db, base, mine).stamps
  PROVE  /\ RowOK(Merge(db, base, mine))
         /\ Known(db, Merge(db, base, mine))
         /\ db.stamps \subseteq Merge(db, base, mine).stamps
         /\ mine.stamps \ base.stamps \subseteq Merge(db, base, mine).stamps
         /\ Merge(db, base, mine).rider_user_id = db.rider_user_id
<1> DEFINE row == Merge(db, base, mine)
<1>1. row.stamps = db.stamps \cup (mine.stamps \ base.stamps)
  BY DEF Merge, Row
<1>2. row.rider_user_id = db.rider_user_id
  BY DEF Merge, Dirty, Row
<1>3. row.status = db.status \/ (row.status = mine.status /\ mine.status # base.status)
  BY DEF Merge, Dirty, Row
<1>4. "rider_assigned_at" \in row.stamps <=> "rider_assigned_at" \in db.stamps
  BY <1>1
<1>5. RowOK(row)
  BY <1>1, <1>2, <1>3, <1>4 DEF RowOK, StampOf
<1> QED BY <1>1, <1>2, <1>5 DEF Known

\* The merchant's status change keeps the row consistent: a status it writes
\* comes with its stamp, on the row before or in the same flush.
LEMMA MergeUpdated ==
  ASSUME NEW db \in Row, NEW base \in Row, NEW new \in {"delivered", "cancelled"},
         RowOK(db), RowOK(base), Known(base, db)
  PROVE  LET row == Merge(db, base, UpdatedRow(base, new)) IN
         /\ row \in Row
         /\ RowOK(row)
         /\ Known(db, row)
         /\ StampOf[new] \in row.stamps
         /\ row.rider_user_id = db.rider_user_id
<1> DEFINE mine == UpdatedRow(base, new)
           row  == Merge(db, base, mine)
<1>1. new \in DOMAIN StampOf /\ StampOf[new] \in Final
      /\ StampOf[new] # "rider_assigned_at"
  BY DEF StampOf, Final
<1>2. mine \in Row  BY <1>1, RowTypes
<1>3. mine.rider_user_id = base.rider_user_id /\ mine.status = new
      /\ mine.stamps = base.stamps \cup {StampOf[new]}
  BY DEF UpdatedRow, Row
<1>4. row.stamps = db.stamps \cup (mine.stamps \ base.stamps)
  BY <1>3 DEF Merge, Row
<1>5. StampOf[new] \in row.stamps
  BY <1>1, <1>3, <1>4 DEF Known
<1>6. row \in Row  BY <1>2, MergeType
<1> HIDE DEF mine, row
<1>7. RowOK(row) /\ Known(db, row) /\ row.rider_user_id = db.rider_user_id
  BY <1>1, <1>2, <1>3, <1>5, MergeGrows DEF row
<1> QED BY <1>5, <1>6, <1>7 DEF row, mine

LEMMA MergeDelivered ==
  ASSUME NEW db \in Row, NEW base \in Row,
         RowOK(db), RowOK(base), Known(base, db)
  PROVE  LET row == Merge(db, base, DeliveredRow(base)) IN
         /\ row \in Row
         /\ RowOK(row)
         /\ Known(db, row)
         /\ "delivered_at" \in row.stamps
         /\ row.rider_user_id = db.rider_user_id
<1> DEFINE mine == DeliveredRow(base)
           row  == Merge(db, base, mine)
<1>2. mine \in Row  BY RowTypes
<1>3. mine.rider_user_id = base.rider_user_id /\ mine.status = "delivered"
      /\ mine.stamps = base.stamps \cup {"picked_up_at", "delivered_at"}
  BY DEF DeliveredRow, Row
<1>4. row.stamps = db.stamps \cup (mine.stamps \ base.stamps)
  BY <1>3 DEF Merge, Row
<1>5. "delivered_at" \in row.stamps
  BY <1>3, <1>4 DEF Known, Final
<1>6. row \in Row  BY <1>2, MergeType
<1>8. StampOf["delivered"] = "delivered_at" /\ "delivered" \in DOMAIN StampOf
  BY DEF StampOf
<1> HIDE DEF mine, row
<1>7. RowOK(row) /\ Known(db, row) /\ row.rider_user_id = db.rider_user_id
  BY <1>2, <1>3, <1>5, <1>8, MergeGrows DEF row
<1> QED BY <1>5, <1>6, <1>7 DEF row, mine

\* A flush that leaves status, rider and stamps alone, or only adds the pickup.
LEMMA MergeQuiet ==
  ASSUME NEW db \in Row, NEW base \in Row, NEW mine \in Row,
         RowOK(db),
         mine.status = base.status, mine.rider_user_id = base.rider_user_id,
         mine.stamps \in {base.stamps, base.stamps \cup {"picked_up_at"}}
  PROVE  LET row == Merge(db, base, mine) IN
         /\ row \in Row
         /\ RowOK(row)
         /\ Known(db, row)
         /\ row.rider_user_id = db.rider_user_id
<1>1. "rider_assigned_at" \in mine.stamps => "rider_assigned_at" \in base.stamps
  OBVIOUS
<1>2. base.stamps \subseteq mine.stamps
  OBVIOUS
<1>3. RowOK(Merge(db, base, mine)) /\ Known(db, Merge(db, base, mine))
      /\ Merge(db, base, mine).rider_user_id = db.rider_user_id
  BY <1>1, <1>2, MergeGrows
<1> QED BY <1>3, MergeType

LEMMA MergeReleased ==
  ASSUME NEW db \in Row, NEW base \in Row,
         RowOK(db), RowOK(base), base.rider_user_id # NoRider
  PROVE  LET row == Merge(db, base, ReleasedRow(base)) IN
         /\ row \in Row
         /\ RowOK(row)
         /\ Known(db, row)
         /\ row.rider_user_id = NoRider
<1> DEFINE mine == ReleasedRow(base)
           row  == Merge(db, base, mine)
<1>1. mine.status = base.status /\ mine.rider_user_id = NoRider
      /\ mine.stamps = base.stamps \ {"rider_assigned_at"}
  BY DEF ReleasedRow, Row
<1>2. "rider_assigned_at" \in base.stamps
  BY DEF RowOK
<1>3. row.stamps = db.stamps \ {"rider_assigned_at"}
  BY <1>1, <1>2 DEF Merge, Row
<1>4. row.rider_user_id = NoRider /\ row.status = db.status
  BY <1>1 DEF Merge, Dirty, Row
<1>5. row \in Row
  BY RowTypes, MergeType
<1>6. RowOK(row) /\ Known(db, row)
  BY <1>3, <1>4 DEF RowOK, Known, Final
<1> QED BY <1>4, <1>5, <1>6

\* The conditional updates write status and preparing_at of the snapshot.
LEMMA Claimed ==
  ASSUME NEW db \in Row, NEW snap \in Row, NEW r \in Riders, NEW starts \in BOOLEAN,
         RowOK(db), RowOK(snap), Known(snap, db),
         snap.status = "placed" => starts
  PROVE  LET row == ClaimedRow(db, snap, r, starts) IN
         /\ row \in Row
         /\ RowOK(row)
         /\ Known(db, row)
         /\ row.rider_user_id = r
<1> DEFINE row  == ClaimedRow(db, snap, r, starts)
           next == IF snap.status = "placed" THEN "preparing" ELSE snap.status
<1>1. row.rider_user_id = r /\ row.status = next
  BY DEF ClaimedRow, Row
<1>2. row.stamps = (db.stamps \ {"preparing_at"})
                     \cup (snap.stamps \cap {"preparing_at"})
                     \cup (IF starts THEN {"preparing_at"} ELSE {})
                     \cup {"rider_assigned_at"}
  BY DEF ClaimedRow, Row
<1>3. row \in Row  BY ClaimedRowType
<1> HIDE DEF row
<1>4. RowOK(row)
  BY <1>1, <1>2 DEF RowOK, Known, Final
<1>5. Known(db, row)
  BY <1>2 DEF Known, Final
<1> QED BY <1>1, <1>3, <1>4, <1>5 DEF row

-----------------------------------------------------------------------------
(* Steps *)

\* Offers of a private_only order go to riders with access.
OfferTeam(off) ==
  \A p \in PrivateOnly, r \in Riders, k \in Rounds : off[p][r][k] # "none" => r \in Access

\* An event says no more than the rows do.
EventsBacked ==
  \A p \in Orders, x \in {"delivered", "cancelled"} :
    x \in (audit')[p] => x \in audit[p] \/ StampOf[x] \in (order')[p].stamps

\* The shape of every step: it replaces one row by one that is consistent and
\* keeps the marks, moves one request, and may add offers and events.
LEMMA OneRow ==
  ASSUME IInv,
         NEW o \in Orders, NEW row \in Row,
         order' = [order EXCEPT ![o] = row],
         RowOK(row), Known(order[o], row),
         row.rider_user_id \in {order[o].rider_user_id, NoRider}
           \/ (o \in PrivateOnly => row.rider_user_id \in Access),
         NEW q \in Requests, NEW s \in Session \cup {Idle},
         sess' = [sess EXCEPT ![q] = s],
         s # Idle => s.ord = o /\ SessionOK(s, row),
         offer' \in [Orders -> [Riders -> [Rounds -> OfferStatus]]],
         OfferTeam(offer'),
         audit' \in [Orders -> SUBSET Status],
         EventsBacked,
         UNCHANGED <<settled, credits>>
  PROVE  IInv'
<1>1. order \in [Orders -> Row] /\ order' \in [Orders -> Row]
  BY DEF IInv, TypeOK
<1>2. (order')[o] = row /\ \A p \in Orders : p # o => (order')[p] = order[p]
  BY <1>1
<1>3. ASSUME NEW p \in Orders
      PROVE  RowOK((order')[p]) /\ Known(order[p], (order')[p])
  <2>1. CASE p = o  BY <1>2, <2>1
  <2>2. CASE p # o  BY <1>2, <2>2 DEF IInv, RowsOK, Known
  <2> QED BY <2>1, <2>2
<1>4. RowStep  BY <1>1, <1>3 DEF RowStep
<1>5. SessionsOK' /\ sess' \in [Requests -> Session \cup {Idle}]
  BY <1>2, <1>4, SessionsCarry DEF IInv
<1>6. TypeOK'
  BY <1>1, <1>5 DEF IInv, TypeOK
<1>7. RowsOK'
  BY <1>3 DEF RowsOK
<1>8. PrivateOnlyTeam'
  <2>1. ASSUME NEW p \in PrivateOnly
        PROVE  (order')[p].rider_user_id \in Access \cup {NoRider}
    BY <1>2, <2>1 DEF IInv, PrivateOnlyTeam
  <2> QED BY <2>1 DEF PrivateOnlyTeam, OfferTeam
<1>9. \A p \in Orders : order[p].stamps \cap Final \subseteq (order')[p].stamps
  BY <1>3 DEF Known
<1>10. AuditTruthful'
  BY <1>9 DEF AuditTruthful, EventsBacked, IInv, StampOf, Final
<1>11. SettledAfterDelivery'
  BY <1>9 DEF SettledAfterDelivery, IInv, TypeOK, Final
<1> QED BY <1>5, <1>6, <1>7, <1>8, <1>10, <1>11 DEF IInv

-----------------------------------------------------------------------------
(* The steps that read: a request begins, or looks around *)

LEMMA BeginRead ==
  ASSUME IInv, NEW q \in Requests,
         NEW pc \in Pc, NEW o \in Orders, NEW r \in Holder, NEW k \in 0..MaxRound,
         NEW base \in Row, NEW mine \in Row,
         Begin(q, pc, o, r, k, base, mine),
         RowOK(base), Known(base, order[o]),
         pc \notin {"event", "complete"},
         Changed([pc |-> pc, ord |-> o, rdr |-> r, round |-> k,
                  base |-> base, mine |-> mine, picks |-> {}, mode |-> "own"]),
         pc \in NamesRider => r \in Riders,
         pc \in {"accept", "reject", "rejecting", "expire", "expiring"} => k \in Rounds,
         o \in PrivateOnly /\ pc \in NamesRider => r \in Access,
         UNCHANGED <<order, offer, audit, settled, credits>>
  PROVE  IInv'
<1> DEFINE s == [pc |-> pc, ord |-> o, rdr |-> r, round |-> k,
                 base |-> base, mine |-> mine, picks |-> {}, mode |-> "own"]
<1>1. s \in Session
  BY DEF Session
<1>2. SessionOK(s, order[o])
  <2>1. Addressed(s)  BY DEF Addressed, NamesRider
  <2>2. Vetted(s)  BY DEF Vetted, NamesRider
  <2>3. Changed(s)  OBVIOUS
  <2> QED BY <2>1, <2>2, <2>3 DEF SessionOK
<1>3. sess' = [sess EXCEPT ![q] = s]
  BY DEF Begin
<1>4. s.ord = o  OBVIOUS
<1> QED BY <1>1, <1>2, <1>3, <1>4, OnlyASession

LEMMA Loaded ==
  ASSUME IInv, NEW o \in Orders
  PROVE  /\ order[o] \in Row /\ RowOK(order[o]) /\ Known(order[o], order[o])
         /\ NoRider \in Holder /\ Riders \subseteq Holder
         /\ 0 \in 0..MaxRound /\ Rounds \subseteq 0..MaxRound
BY DEF IInv, TypeOK, RowsOK, Known, Holder, Rounds

LEMMA UpdateStatusReadKeeps ==
  ASSUME IInv, NEW q \in Requests, NEW o \in Orders,
         NEW new \in {"preparing", "delivered", "cancelled"}, UpdateStatusRead(q, o, new)
  PROVE  IInv'
<1>1. new \in DOMAIN StampOf  BY DEF StampOf
<1>2. UpdatedRow(order[o], new) \in Row  BY <1>1, Loaded, RowTypes
<1>3. Changed([pc |-> "update", ord |-> o, rdr |-> NoRider, round |-> 0, base |-> order[o],
               mine |-> UpdatedRow(order[o], new), picks |-> {}, mode |-> "own"])
  BY <1>1 DEF Changed
<1>4. "update" \in Pc /\ "update" \notin NamesRider  BY DEF Pc, NamesRider
<1> QED BY <1>2, <1>3, <1>4, BeginRead, Loaded DEF UpdateStatusRead

LEMMA AssignReadKeeps ==
  ASSUME IInv, NEW q \in Requests, NEW o \in Orders, NEW r \in Riders,
         NEW online \in SUBSET Riders, AssignRead(q, o, r, online)
  PROVE  IInv'
<1> DEFINE mine == [order[o] EXCEPT !.state = "offered_manual", !.round = @ + 1]
<1>1. mine \in Row  BY Loaded, OfferedManuallyType DEF AssignRead
<1>2. order[o].round + 1 \in Rounds
  BY Loaded DEF AssignRead, Row, Rounds
<1>3. Changed([pc |-> "assign", ord |-> o, rdr |-> r, round |-> order[o].round + 1,
               base |-> order[o], mine |-> mine, picks |-> {}, mode |-> "own"])
  BY <1>2 DEF Changed
<1>4. "assign" \in Pc  BY DEF Pc
<1>5. o \in PrivateOnly => r \in Access  BY DEF AssignRead, MayAssign
<1> HIDE DEF mine
<1>6. Begin(q, "assign", o, r, order[o].round + 1, order[o], mine)
  BY DEF AssignRead, mine
<1>7. order[o].round + 1 \in 0..MaxRound /\ r \in Holder
  BY <1>2, Loaded
<1> QED BY <1>1, <1>3, <1>4, <1>5, <1>6, <1>7, BeginRead, Loaded DEF AssignRead

\* Requests that begin with the row as it is.
LEMMA PlainRead ==
  ASSUME IInv, NEW q \in Requests, NEW pc \in {"accept", "claim"},
         NEW o \in Orders, NEW r \in Riders, NEW k \in 0..MaxRound,
         pc = "accept" => k \in Rounds,
         o \in PrivateOnly => r \in Access,
         Begin(q, pc, o, r, k, order[o], order[o]),
         UNCHANGED <<order, offer, audit, settled, credits>>
  PROVE  IInv'
<1>1. Changed([pc |-> pc, ord |-> o, rdr |-> r, round |-> k,
               base |-> order[o], mine |-> order[o], picks |-> {}, mode |-> "own"])
  BY DEF Changed
<1>2. pc \in Pc  BY DEF Pc
<1> QED BY <1>1, <1>2, BeginRead, Loaded

LEMMA ClaimReadKeeps ==
  ASSUME IInv, NEW q \in Requests, NEW o \in Orders, NEW r \in Riders,
         NEW online \in SUBSET Riders, ClaimRead(q, o, r, online)
  PROVE  IInv'
<1>1. CASE \E k \in LiveRounds(o, r) : Begin(q, "accept", o, r, k, order[o], order[o])
  <2>1. PICK k \in LiveRounds(o, r) : Begin(q, "accept", o, r, k, order[o], order[o])
    BY <1>1
  <2>2. k \in Rounds /\ (o \in PrivateOnly => r \in Access)
    BY DEF LiveRounds, IInv, PrivateOnlyTeam
  <2> QED BY <2>1, <2>2, PlainRead, Loaded DEF ClaimRead
<1>2. CASE MayClaim(o, r, online) /\ Begin(q, "claim", o, r, 0, order[o], order[o])
  <2>1. o \in PrivateOnly => r \in Access  BY <1>2 DEF MayClaim
  <2> QED BY <1>2, <2>1, PlainRead, Loaded DEF ClaimRead
<1> QED BY <1>1, <1>2 DEF ClaimRead

LEMMA AbsentOK ==
  ASSUME TRUE
  PROVE  /\ AbsentRow \in Row /\ RowOK(AbsentRow)
         /\ \A row : Known(AbsentRow, row)
BY DEF AbsentRow, RowOK, Known, Row, Status, Holder, AssignmentState, Stamps

LEMMA OfferReadKeeps ==
  ASSUME IInv, NEW q \in Requests, NEW pc \in {"reject", "expire"},
         NEW o \in Orders, NEW r \in Riders, NEW k \in Rounds, offer[o][r][k] # "none",
         Begin(q, pc, o, r, k, AbsentRow, AbsentRow),
         UNCHANGED <<order, offer, audit, settled, credits>>
  PROVE  IInv'
<1>1. Changed([pc |-> pc, ord |-> o, rdr |-> r, round |-> k,
               base |-> AbsentRow, mine |-> AbsentRow, picks |-> {}, mode |-> "own"])
  BY DEF Changed
<1>2. pc \in Pc  BY DEF Pc
<1>3. o \in PrivateOnly => r \in Access  BY DEF IInv, PrivateOnlyTeam
<1> QED BY <1>1, <1>2, <1>3, BeginRead, AbsentOK, Loaded

-----------------------------------------------------------------------------
(* What is known of a request that is under way *)

LEMMA InFlight ==
  ASSUME IInv, NEW q \in Requests, NEW pc \in Pc, At(q, pc)
  PROVE  /\ sess[q] \in Session /\ sess[q] # Idle /\ sess[q].pc = pc
         /\ sess[q].ord \in Orders /\ sess[q].rdr \in Holder
         /\ sess[q].base \in Row /\ sess[q].mine \in Row
         /\ sess[q].picks \in SUBSET Riders
         /\ sess[q].mode \in {"own", "inline"}
         /\ RowOK(sess[q].base) /\ Known(sess[q].base, order[sess[q].ord])
         /\ Changed(sess[q]) /\ Addressed(sess[q]) /\ Vetted(sess[q])
         /\ order[sess[q].ord] \in Row /\ RowOK(order[sess[q].ord])
         /\ SessionOK(sess[q], order[sess[q].ord])
<1>1. sess[q] \in Session /\ sess[q] # Idle
  BY Busy_is_session DEF IInv
<1>2. SessionOK(sess[q], order[sess[q].ord])
  BY <1>1 DEF IInv, SessionsOK
<1>3. sess[q].ord \in Orders  BY <1>1 DEF Session
<1>4. order[sess[q].ord] \in Row /\ RowOK(order[sess[q].ord])
  BY <1>3, Loaded
<1> QED BY <1>1, <1>2, <1>3, <1>4 DEF SessionOK, Session, At

LEMMA EndKeeps ==
  ASSUME IInv, NEW q \in Requests, End(q),
         UNCHANGED <<order, offer, audit, settled, credits>>
  PROVE  IInv'
BY OnlyASession DEF End

LEMMA UpdateStatusPreparingKeeps ==
  ASSUME IInv, NEW q \in Requests, UpdateStatusPreparing(q)
  PROVE  IInv'
<1> DEFINE s == sess[q]
           t == [s EXCEPT !.pc = "survey", !.mode = "inline"]
<1>1. At(q, "update") /\ s.mine.status = "preparing"
      /\ sess' = [sess EXCEPT ![q].pc = "survey", ![q].mode = "inline"]
      /\ UNCHANGED <<order, offer, audit, settled, credits>>
  BY DEF UpdateStatusPreparing
<1>2. "update" \in Pc /\ "survey" \in Pc  BY DEF Pc
<1>3. s \in Session /\ SessionOK(s, order[s.ord]) /\ s.base \in Row
  BY <1>1, <1>2, InFlight
<1>4. t \in Session  BY <1>2, <1>3 DEF Session
<1>5. sess' = [sess EXCEPT ![q] = t]
  BY <1>1 DEF IInv, TypeOK
<1>6. t.base = s.base /\ t.mine = s.mine /\ t.ord = s.ord /\ t.picks = s.picks
      /\ t.pc = "survey" /\ t.mode = "inline"
  BY <1>3 DEF Session
<1>7. t.mine = UpdatedRow(t.base, "preparing")
  <2>1. PICK new \in DOMAIN StampOf : s.mine = UpdatedRow(s.base, new)
    BY <1>1, <1>3 DEF SessionOK, Changed, At
  <2>2. UpdatedRow(s.base, new).status = new
    BY <1>3 DEF UpdatedRow, Row
  <2> QED BY <1>1, <1>6, <2>1, <2>2
<1> HIDE DEF t
<1>8. Changed(t)  BY <1>6, <1>7 DEF Changed
<1>9. SessionOK(t, order[t.ord])
  BY <1>3, <1>6, <1>8 DEF SessionOK, Addressed, Vetted, NamesRider
<1> QED BY <1>1, <1>4, <1>5, <1>9, OnlyASession

\* Every candidate of a private_only order is on the private team.
LEMMA PrivateCandidates ==
  ASSUME NEW o \in PrivateOnly, NEW online \in SUBSET Riders
  PROVE  Candidates(o, online) \subseteq Access
BY DEF Candidates

LEMMA SelectionsOfCandidates ==
  ASSUME NEW o \in Orders, NEW C \in SUBSET Riders, NEW picks \in Selections(o, C)
  PROVE  picks \subseteq C
BY DEF Selections, OfTier

LEMMA SurveyKeeps ==
  ASSUME IInv, NEW q \in Requests, NEW online \in SUBSET Riders, Survey(q, online)
  PROVE  IInv'
<1> DEFINE s == sess[q]
           C == Candidates(s.ord, online)
<1>1. At(q, "survey") /\ UNCHANGED <<order, offer, audit, settled, credits>>
  BY DEF Survey
<1>2. {"survey", "check", "offer"} \subseteq Pc  BY DEF Pc
<1>3. s \in Session /\ SessionOK(s, order[s.ord]) /\ s.ord \in Orders /\ s.pc = "survey"
      /\ s.picks \in SUBSET Riders
  BY <1>1, <1>2, InFlight
<1>4. C \subseteq Riders /\ (s.ord \in PrivateOnly => C \subseteq Access)
  BY PrivateCandidates DEF Candidates
<1>5. \E pc \in {"check", "offer"}, picks \in SUBSET Riders :
        /\ picks = s.picks \/ picks \subseteq C
        /\ sess' = [sess EXCEPT ![q] = [s EXCEPT !.pc = pc, !.picks = picks]]
  <2>1. CASE C = {}
    <3>1. sess' = [sess EXCEPT ![q].pc = "offer"]  BY <2>1 DEF Survey
    <3>2. [s EXCEPT !.pc = "offer"] = [s EXCEPT !.pc = "offer", !.picks = s.picks]
      BY <1>3 DEF Session
    <3>3. sess' = [sess EXCEPT ![q] = [s EXCEPT !.pc = "offer", !.picks = s.picks]]
      BY <3>1, <3>2
    <3> QED BY <1>3, <3>3
  <2>2. CASE C # {}
    <3>1. PICK picks \in Selections(s.ord, C) :
            sess' = [sess EXCEPT ![q].pc = "check", ![q].picks = picks]
      BY <2>2 DEF Survey
    <3>2. picks \subseteq C  BY <1>3, <1>4, <3>1, SelectionsOfCandidates
    <3>3. sess' = [sess EXCEPT ![q] = [s EXCEPT !.pc = "check", !.picks = picks]]
      BY <3>1 DEF IInv, TypeOK
    <3> QED BY <1>4, <3>2, <3>3
  <2> QED BY <2>1, <2>2
<1>6. PICK pc \in {"check", "offer"}, picks \in SUBSET Riders :
        /\ picks = s.picks \/ picks \subseteq C
        /\ sess' = [sess EXCEPT ![q] = [s EXCEPT !.pc = pc, !.picks = picks]]
  BY <1>5
<1> DEFINE t == [s EXCEPT !.pc = pc, !.picks = picks]
<1>7. t \in Session  BY <1>2, <1>3 DEF Session
<1>8. t.base = s.base /\ t.mine = s.mine /\ t.ord = s.ord /\ t.picks = picks
      /\ t.pc = pc /\ t.mode = s.mode /\ t.rdr = s.rdr /\ t.round = s.round
  BY <1>3 DEF Session
<1> HIDE DEF t, C
<1>9. Changed(t)  BY <1>3, <1>8 DEF SessionOK, Changed
<1>10. Vetted(t)  BY <1>3, <1>4, <1>6, <1>8 DEF SessionOK, Vetted, NamesRider
<1>11. SessionOK(t, order[t.ord])
  BY <1>3, <1>8, <1>9, <1>10 DEF SessionOK, Addressed, NamesRider
<1>12. sess' = [sess EXCEPT ![q] = t]  BY <1>6 DEF t
<1> QED BY <1>1, <1>7, <1>11, <1>12, OnlyASession

\* reject_offer and expire_offer load the order after the flush of the offer.
LEMMA DeclineReadKeeps ==
  ASSUME IInv, NEW q \in Requests, NEW pc \in {"reject", "expire"}, At(q, pc),
         NEW now \in {"rejecting", "expiring"}, NEW mine,
         mine \in {order[sess[q].ord], [order[sess[q].ord] EXCEPT !.state = "unassigned"]},
         Begin(q, now, sess[q].ord, sess[q].rdr, sess[q].round, order[sess[q].ord], mine),
         UNCHANGED <<order, offer, audit, settled, credits>>
  PROVE  IInv'
<1> DEFINE s == sess[q]
<1>1. pc \in Pc /\ now \in Pc  BY DEF Pc
<1>2. s.ord \in Orders /\ order[s.ord] \in Row /\ s.rdr \in Riders /\ s.round \in Rounds
      /\ (s.ord \in PrivateOnly => s.rdr \in Access)
  BY <1>1, InFlight DEF Addressed, Vetted, NamesRider
<1>3. mine \in Row  BY <1>2, RowTypes
<1>4. Changed([pc |-> now, ord |-> s.ord, rdr |-> s.rdr, round |-> s.round,
               base |-> order[s.ord], mine |-> mine, picks |-> {}, mode |-> "own"])
  BY DEF Changed
<1>5. s.rdr \in Holder /\ s.round \in 0..MaxRound  BY <1>2, Loaded
<1>6. RowOK(order[s.ord]) /\ Known(order[s.ord], order[s.ord])  BY <1>2, Loaded
<1> QED BY <1>1, <1>2, <1>3, <1>4, <1>5, <1>6, BeginRead

-----------------------------------------------------------------------------
(* The steps that write *)

LEMMA EventOf ==
  ASSUME TypeOK, NEW s \in Session
  PROVE  /\ WithEvent(s) \in [Orders -> SUBSET Status]
         /\ \A p \in Orders, x \in Status :
              x \in WithEvent(s)[p] => x \in audit[p] \/ (p = s.ord /\ x = s.mine.status)
<1>1. s.mine.status \in Status /\ s.ord \in Orders  BY DEF Session, Row
<1> QED BY <1>1 DEF WithEvent, TypeOK

\* A step that replaces a row and touches neither offers nor events.
LEMMA RowOnly ==
  ASSUME IInv,
         NEW o \in Orders, NEW row \in Row,
         order' = [order EXCEPT ![o] = row],
         RowOK(row), Known(order[o], row),
         row.rider_user_id \in {order[o].rider_user_id, NoRider}
           \/ (o \in PrivateOnly => row.rider_user_id \in Access),
         NEW q \in Requests, NEW s \in Session \cup {Idle},
         sess' = [sess EXCEPT ![q] = s],
         s # Idle => s.ord = o /\ SessionOK(s, row),
         UNCHANGED <<offer, audit, settled, credits>>
  PROVE  IInv'
<1>1. OfferTeam(offer')
  BY DEF OfferTeam, IInv, PrivateOnlyTeam
<1>2. EventsBacked  BY DEF EventsBacked
<1>3. offer' \in [Orders -> [Riders -> [Rounds -> OfferStatus]]]
      /\ audit' \in [Orders -> SUBSET Status]
  BY DEF IInv, TypeOK
<1> QED BY <1>1, <1>2, <1>3, OneRow

LEMMA UpdateStatusWriteKeeps ==
  ASSUME IInv, NEW q \in Requests, UpdateStatusWrite(q)
  PROVE  IInv'
<1> DEFINE s   == sess[q]
           o   == s.ord
           row == Merge(order[o], s.base, s.mine)
           t   == [s EXCEPT !.pc = "complete"]
<1>1. At(q, "update") /\ s.mine.status # "preparing"
      /\ order' = [order EXCEPT ![o] = row] /\ audit' = WithEvent(s)
      /\ UNCHANGED <<offer, settled, credits>>
  BY DEF UpdateStatusWrite
<1>2. "update" \in Pc /\ "complete" \in Pc  BY DEF Pc
<1>3. /\ s \in Session /\ s.pc = "update" /\ o \in Orders /\ s.base \in Row
      /\ RowOK(s.base) /\ Known(s.base, order[o]) /\ order[o] \in Row /\ RowOK(order[o])
      /\ Changed(s) /\ Addressed(s) /\ Vetted(s)
  BY <1>1, <1>2, InFlight
<1>4. PICK new \in DOMAIN StampOf : s.mine = UpdatedRow(s.base, new)
  BY <1>3 DEF Changed
<1>5. s.mine.status = new  BY <1>3, <1>4 DEF UpdatedRow, Row
<1>6. new \in {"delivered", "cancelled"}  BY <1>1, <1>5 DEF StampOf
<1>7. /\ row \in Row /\ RowOK(row) /\ Known(order[o], row) /\ StampOf[new] \in row.stamps
      /\ row.rider_user_id = order[o].rider_user_id
  BY <1>3, <1>4, <1>6, MergeUpdated
<1> HIDE DEF row
<1>8. EventsBacked
  <2>1. \A p \in Orders, x \in Status :
          x \in (audit')[p] => x \in audit[p] \/ (p = o /\ x = new)
    BY <1>1, <1>3, <1>5, EventOf DEF IInv
  <2>2. (order')[o] = row  BY <1>1, <1>3 DEF IInv, TypeOK
  <2>3. "delivered" \in Status /\ "cancelled" \in Status  BY DEF Status
  <2> QED BY <1>7, <2>1, <2>2, <2>3 DEF EventsBacked
<1>9. audit' \in [Orders -> SUBSET Status]
  BY <1>1, <1>3, EventOf DEF IInv
<1>10. OfferTeam(offer') /\ offer' \in [Orders -> [Riders -> [Rounds -> OfferStatus]]]
  BY <1>1 DEF OfferTeam, IInv, TypeOK, PrivateOnlyTeam
<1>11. CASE End(q)
  BY <1>1, <1>3, <1>7, <1>8, <1>9, <1>10, <1>11, OneRow DEF End
<1>12. CASE sess' = [sess EXCEPT ![q].pc = "complete"] /\ s.mine.status = "delivered"
  <2>1. t \in Session /\ sess' = [sess EXCEPT ![q] = t]
    BY <1>2, <1>3, <1>12 DEF Session
  <2>2. /\ t.base = s.base /\ t.mine = s.mine /\ t.ord = o /\ t.picks = s.picks
        /\ t.pc = "complete" /\ t.mode = s.mode
    BY <1>3 DEF Session
  <2>3. Changed(t)  BY <1>3, <2>2 DEF Changed
  <2>4. StampOf[new] = "delivered_at"  BY <1>5, <1>12 DEF StampOf
  <2>5. Known(s.base, row)  BY <1>3, <1>7, KnownTransitive
  <2>6. SessionOK(t, row)
    BY <1>3, <1>7, <2>2, <2>3, <2>4, <2>5 DEF SessionOK, Addressed, Vetted, NamesRider
  <2> HIDE DEF t
  <2> QED BY <1>1, <1>3, <1>7, <1>8, <1>9, <1>10, <2>1, <2>2, <2>6, OneRow
<1> QED BY <1>11, <1>12 DEF UpdateStatusWrite

LEMMA RecordEventKeeps ==
  ASSUME IInv, NEW q \in Requests, RecordEvent(q)
  PROVE  IInv'
<1> DEFINE s == sess[q]
           o == s.ord
<1>1. At(q, "event") /\ audit' = WithEvent(s) /\ sess' = [sess EXCEPT ![q] = Idle]
      /\ UNCHANGED <<order, offer, settled, credits>>
  BY DEF RecordEvent, End
<1>2. "event" \in Pc  BY DEF Pc
<1>3. s \in Session /\ o \in Orders /\ s.mine.status = "preparing"
      /\ order[o] \in Row /\ RowOK(order[o])
  BY <1>1, <1>2, InFlight DEF Changed
<1>4. order' = [order EXCEPT ![o] = order[o]] /\ Known(order[o], order[o])
  BY <1>1, <1>3 DEF IInv, TypeOK, Known
<1>5. EventsBacked /\ audit' \in [Orders -> SUBSET Status]
  BY <1>1, <1>3, EventOf DEF EventsBacked, IInv, Status
<1>6. OfferTeam(offer') /\ offer' \in [Orders -> [Riders -> [Rounds -> OfferStatus]]]
  BY <1>1 DEF OfferTeam, IInv, TypeOK, PrivateOnlyTeam
<1> QED BY <1>1, <1>3, <1>4, <1>5, <1>6, OneRow

LEMMA AddOffersTeam ==
  ASSUME IInv, NEW o \in Orders, NEW picks \in SUBSET Riders, NEW k,
         o \in PrivateOnly => picks \subseteq Access,
         offer' = AddOffers(o, picks, k)
  PROVE  /\ OfferTeam(offer')
         /\ offer' \in [Orders -> [Riders -> [Rounds -> OfferStatus]]]
<1>1. offer \in [Orders -> [Riders -> [Rounds -> OfferStatus]]]  BY DEF IInv, TypeOK
<1>2. offer' \in [Orders -> [Riders -> [Rounds -> OfferStatus]]]
  BY <1>1, AddOffersType
<1>3. ASSUME NEW p \in PrivateOnly, NEW r \in Riders, NEW n \in Rounds,
             (offer')[p][r][n] # "none"
      PROVE  r \in Access
  <2>1. CASE offer[p][r][n] # "none"  BY <2>1 DEF IInv, PrivateOnlyTeam
  <2>2. CASE offer[p][r][n] = "none"
    BY <1>1, <1>3, <2>2 DEF AddOffers
  <2> QED BY <2>1, <2>2
<1> QED BY <1>2, <1>3 DEF OfferTeam

LEMMA AssignWriteKeeps ==
  ASSUME IInv, NEW q \in Requests, AssignWrite(q)
  PROVE  IInv'
<1> DEFINE s   == sess[q]
           o   == s.ord
           row == Merge(order[o], s.base, s.mine)
<1>1. At(q, "assign") /\ sess' = [sess EXCEPT ![q] = Idle]
      /\ UNCHANGED <<audit, settled, credits>>
  BY DEF AssignWrite, End
<1>2. "assign" \in Pc  BY DEF Pc
<1>3. /\ s \in Session /\ s.pc = "assign" /\ o \in Orders /\ s.base \in Row /\ s.mine \in Row
      /\ RowOK(s.base) /\ Known(s.base, order[o]) /\ order[o] \in Row /\ RowOK(order[o])
      /\ Changed(s) /\ Addressed(s) /\ Vetted(s)
  BY <1>1, <1>2, InFlight
<1>4. CASE UNCHANGED <<order, offer>>
  BY <1>1, <1>4, EndKeeps DEF End
<1>5. CASE order' = [order EXCEPT ![o] = row] /\ offer' = AddOffers(o, {s.rdr}, s.round)
  <2>1. s.mine.status = s.base.status /\ s.mine.rider_user_id = s.base.rider_user_id
        /\ s.mine.stamps = s.base.stamps
    BY <1>3 DEF Changed, Row
  <2>2. row \in Row /\ RowOK(row) /\ Known(order[o], row)
        /\ row.rider_user_id = order[o].rider_user_id
    BY <1>3, <2>1, MergeQuiet
  <2> HIDE DEF row
  <2>3. {s.rdr} \in SUBSET Riders /\ (o \in PrivateOnly => {s.rdr} \subseteq Access)
    BY <1>3 DEF Addressed, Vetted, NamesRider
  <2>4. OfferTeam(offer') /\ offer' \in [Orders -> [Riders -> [Rounds -> OfferStatus]]]
    BY <1>3, <1>5, <2>3, AddOffersTeam
  <2>5. EventsBacked /\ audit' \in [Orders -> SUBSET Status]
    BY <1>1 DEF EventsBacked, IInv, TypeOK
  <2> QED BY <1>1, <1>3, <1>5, <2>2, <2>4, <2>5, OneRow
<1> QED BY <1>4, <1>5 DEF AssignWrite

\* The flush of an inline dispatch: the status of the merchant's change, its
\* stamp, and what the round made of state and round number.
LEMMA FlushedOK ==
  ASSUME IInv, NEW q \in Requests, NEW pc \in {"check", "offer"}, At(q, pc),
         NEW row \in Row,
         row.status = sess[q].mine.status, row.rider_user_id = sess[q].mine.rider_user_id,
         row.stamps = sess[q].mine.stamps
  PROVE  LET s == sess[q]
             new == Flushed(s, row)
         IN  /\ new \in Row
             /\ RowOK(new)
             /\ Known(order[s.ord], new)
             /\ new.rider_user_id = order[s.ord].rider_user_id
<1> DEFINE s   == sess[q]
           db  == order[s.ord]
           new == Flushed(s, row)
           m   == Merge(db, s.base, row)
<1>1. pc \in Pc  BY DEF Pc
<1>2. /\ s \in Session /\ s.pc = pc /\ s.base \in Row /\ s.mine \in Row /\ db \in Row
      /\ RowOK(db) /\ s.mode \in {"own", "inline"} /\ Changed(s)
  BY <1>1, InFlight
<1>3. CASE s.mode = "own"
  <2>1. s.mine = s.base  BY <1>2, <1>3 DEF Changed
  <2>2. new = m  BY <1>3 DEF Flushed
  <2>3. m \in Row /\ RowOK(m) /\ Known(db, m) /\ m.rider_user_id = db.rider_user_id
    <3>1. row.status = s.base.status /\ row.rider_user_id = s.base.rider_user_id
          /\ row.stamps \in {s.base.stamps, s.base.stamps \cup {"picked_up_at"}}
      BY <2>1
    <3>2. db \in Row /\ s.base \in Row /\ row \in Row /\ RowOK(db)
      BY <1>2, <2>1
    <3> QED BY <3>1, <3>2, MergeQuiet
  <2> QED BY <2>2, <2>3
<1>4. CASE s.mode = "inline"
  <2>1. s.mine = UpdatedRow(s.base, "preparing")  BY <1>2, <1>4 DEF Changed
  <2>2. /\ row.status = "preparing" /\ row.rider_user_id = s.base.rider_user_id
        /\ row.stamps = s.base.stamps \cup {"preparing_at"}
    BY <1>2, <2>1 DEF UpdatedRow, StampOf, Row
  <2>3. m \in Row  BY <1>2, MergeType
  <2>4. new = [m EXCEPT !.stamps = @ \cup {"preparing_at"}]
    BY <1>4 DEF Flushed
  <2>5. m.stamps = db.stamps \cup (row.stamps \ s.base.stamps)
    BY <2>2 DEF Merge
  <2>6. new.stamps = db.stamps \cup {"preparing_at"}
    <3>1. new.stamps = m.stamps \cup {"preparing_at"}  BY <2>3, <2>4 DEF Row
    <3>2. row.stamps \ s.base.stamps \subseteq {"preparing_at"}  BY <2>2
    <3> HIDE DEF new, m
    <3> QED BY <2>5, <3>1, <3>2
  <2>7. m.rider_user_id = db.rider_user_id
    BY <1>2, <2>2 DEF Merge, Dirty, Row
  <2>8. m.status \in {db.status, "preparing"}
    BY <2>2 DEF Merge, Dirty
  <2>9. new \in Row /\ new.status = m.status /\ new.rider_user_id = m.rider_user_id
    BY <2>3, <2>4 DEF Row, Stamps
  <2>10. RowOK(new) /\ Known(db, new)
    BY <1>2, <2>6, <2>7, <2>8, <2>9 DEF RowOK, Known
  <2> QED BY <2>7, <2>9, <2>10
<1> QED BY <1>2, <1>3, <1>4

LEMMA CheckPendingKeeps ==
  ASSUME IInv, NEW q \in Requests, CheckPending(q)
  PROVE  IInv'
<1> DEFINE s   == sess[q]
           o   == s.ord
           row == Flushed(s, s.mine)
           t   == [s EXCEPT !.pc = "offer"]
<1>1. At(q, "check") /\ UNCHANGED <<offer, settled, credits>>
  BY DEF CheckPending
<1>2. "check" \in Pc /\ "offer" \in Pc  BY DEF Pc
<1>3. /\ s \in Session /\ s.pc = "check" /\ o \in Orders /\ s.mine \in Row
      /\ s.mode \in {"own", "inline"} /\ Changed(s) /\ SessionOK(s, order[o])
  BY <1>1, <1>2, InFlight
<1>4. CASE sess' = [sess EXCEPT ![q].pc = "offer"] /\ UNCHANGED <<order, audit>>
  <2>1. t \in Session /\ sess' = [sess EXCEPT ![q] = t]
    BY <1>2, <1>3, <1>4 DEF Session
  <2>2. /\ t.base = s.base /\ t.mine = s.mine /\ t.ord = o /\ t.picks = s.picks
        /\ t.pc = "offer" /\ t.mode = s.mode
    BY <1>3 DEF Session
  <2>3. Changed(t)  BY <1>3, <2>2 DEF Changed
  <2>4. SessionOK(t, order[t.ord])
    BY <1>3, <2>2, <2>3 DEF SessionOK, Addressed, Vetted, NamesRider
  <2> QED BY <1>1, <1>4, <2>1, <2>4, OnlyASession
<1>5. CASE End(q) /\ UNCHANGED <<order, audit>>
  BY <1>1, <1>5, EndKeeps
<1>6. CASE /\ End(q) /\ order' = [order EXCEPT ![o] = row] /\ audit' = WithEvent(s)
           /\ s.mode = "inline"
  <2>1. row \in Row /\ RowOK(row) /\ Known(order[o], row)
        /\ row.rider_user_id = order[o].rider_user_id
    BY <1>1, <1>3, FlushedOK
  <2> HIDE DEF row
  <2>2. s.mine.status = "preparing"
    <3>1. s.base \in Row /\ s.mine = UpdatedRow(s.base, "preparing")
      BY <1>3, <1>6 DEF Changed, Session
    <3> QED BY <3>1 DEF UpdatedRow, Row
  <2>3. EventsBacked /\ audit' \in [Orders -> SUBSET Status]
    BY <1>3, <1>6, <2>2, EventOf DEF EventsBacked, IInv, Status
  <2>4. OfferTeam(offer') /\ offer' \in [Orders -> [Riders -> [Rounds -> OfferStatus]]]
    BY <1>1 DEF OfferTeam, IInv, TypeOK, PrivateOnlyTeam
  <2> QED BY <1>1, <1>3, <1>6, <2>1, <2>3, <2>4, OneRow DEF End
<1> QED BY <1>4, <1>5, <1>6 DEF CheckPending

LEMMA OfferRoundKeeps ==
  ASSUME IInv, NEW q \in Requests, OfferRound(q)
  PROVE  IInv'
<1> DEFINE s   == sess[q]
           o   == s.ord
           row == DispatchRow(o, s.mine, s.picks)
           new == Flushed(s, row)
           t   == [s EXCEPT !.pc = "event"]
<1>1. At(q, "offer") /\ (s.picks # {} => s.mine.round < MaxRound)
      /\ UNCHANGED <<audit, settled, credits>>
  BY DEF OfferRound
<1>2. "event" \in Pc /\ "offer" \in Pc  BY DEF Pc
<1>3. /\ s \in Session /\ s.pc = "offer" /\ o \in Orders /\ s.mine \in Row /\ s.base \in Row
      /\ s.picks \in SUBSET Riders
      /\ Changed(s) /\ Vetted(s) /\ SessionOK(s, order[o])
  BY <1>1, <1>2, InFlight
<1>4. CASE End(q) /\ UNCHANGED <<order, offer>>
  BY <1>1, <1>4, EndKeeps
<1>5. CASE /\ order' = [order EXCEPT ![o] = new]
           /\ offer' = AddOffers(o, s.picks, row.round)
           /\ IF s.mode = "inline" THEN sess' = [sess EXCEPT ![q].pc = "event"] ELSE End(q)
  <2>1. row \in Row  BY <1>1, <1>3, DispatchRowType
  <2>2. row.status = s.mine.status /\ row.rider_user_id = s.mine.rider_user_id
        /\ row.stamps = s.mine.stamps
    BY <1>3 DEF DispatchRow, Row
  <2>3. new \in Row /\ RowOK(new) /\ Known(order[o], new)
        /\ new.rider_user_id = order[o].rider_user_id
    BY <1>1, <2>1, <2>2, FlushedOK
  <2>4. OfferTeam(offer') /\ offer' \in [Orders -> [Riders -> [Rounds -> OfferStatus]]]
    BY <1>3, <1>5, AddOffersTeam DEF Vetted, NamesRider
  <2>5. EventsBacked /\ audit' \in [Orders -> SUBSET Status]
    BY <1>1 DEF EventsBacked, IInv, TypeOK
  <2> HIDE DEF new, row
  <2>6. CASE End(q)
    BY <1>1, <1>3, <1>5, <2>3, <2>4, <2>5, <2>6, OneRow DEF End
  <2>7. CASE s.mode = "inline" /\ sess' = [sess EXCEPT ![q].pc = "event"]
    <3>1. t \in Session /\ sess' = [sess EXCEPT ![q] = t]
      BY <1>2, <1>3, <2>7 DEF Session
    <3>2. /\ t.base = s.base /\ t.mine = s.mine /\ t.ord = o /\ t.picks = s.picks
          /\ t.pc = "event" /\ t.mode = s.mode
      BY <1>3 DEF Session
    <3>3. s.mine.status = "preparing"
      BY <1>3, <2>7 DEF Changed, UpdatedRow, Row
    <3>4. Changed(t)  BY <3>2, <3>3 DEF Changed
    <3>5. Known(s.base, new)  BY <1>3, <2>3, KnownTransitive DEF SessionOK
    <3>6. SessionOK(t, new)
      BY <1>3, <3>2, <3>4, <3>5 DEF SessionOK, Addressed, Vetted, NamesRider
    <3> HIDE DEF t
    <3> QED BY <1>1, <1>3, <1>5, <2>3, <2>4, <2>5, <3>1, <3>2, <3>6, OneRow
  <2> QED BY <1>5, <2>6, <2>7
<1> QED BY <1>4, <1>5 DEF OfferRound

LEMMA NoEvent ==
  ASSUME IInv, UNCHANGED audit
  PROVE  EventsBacked /\ audit' \in [Orders -> SUBSET Status]
BY DEF EventsBacked, IInv, TypeOK

\* A step that makes no offer where there was none.
LEMMA TeamKept ==
  ASSUME IInv,
         \A p \in Orders, x \in Riders, n \in Rounds :
           offer[p][x][n] = "none" => (offer')[p][x][n] = "none"
  PROVE  OfferTeam(offer')
<1>1. ASSUME NEW p \in PrivateOnly, NEW x \in Riders, NEW n \in Rounds,
             (offer')[p][x][n] # "none"
      PROVE  x \in Access
  BY <1>1 DEF IInv, PrivateOnlyTeam
<1> QED BY <1>1 DEF OfferTeam

LEMMA AcceptedOffersTeam ==
  ASSUME IInv, NEW o \in Orders, NEW r \in Riders, NEW k \in Rounds, Live(o, r, k),
         offer' = AcceptedOffers(o, r, k)
  PROVE  /\ OfferTeam(offer')
         /\ offer' \in [Orders -> [Riders -> [Rounds -> OfferStatus]]]
<1>1. offer \in [Orders -> [Riders -> [Rounds -> OfferStatus]]]  BY DEF IInv, TypeOK
<1>2. offer' \in [Orders -> [Riders -> [Rounds -> OfferStatus]]]
  BY <1>1 DEF AcceptedOffers, OfferStatus
<1>3. ASSUME NEW p \in Orders, NEW x \in Riders, NEW n \in Rounds,
             offer[p][x][n] = "none"
      PROVE  (offer')[p][x][n] = "none"
  BY <1>1, <1>3 DEF AcceptedOffers, Live, StillPending
<1> QED BY <1>2, <1>3, TeamKept

LEMMA AcceptWriteKeeps ==
  ASSUME IInv, NEW q \in Requests, AcceptWrite(q)
  PROVE  IInv'
<1> DEFINE s   == sess[q]
           o   == s.ord
           starts == s.base.status = "placed"
           row == ClaimedRow(order[o], s.base, s.rdr, starts)
<1>1. At(q, "accept") /\ sess' = [sess EXCEPT ![q] = Idle]
      /\ UNCHANGED <<audit, settled, credits>>
  BY DEF AcceptWrite, End
<1>2. "accept" \in Pc  BY DEF Pc
<1>3. /\ s \in Session /\ o \in Orders /\ s.base \in Row /\ s.rdr \in Riders /\ s.round \in Rounds
      /\ RowOK(s.base) /\ Known(s.base, order[o]) /\ order[o] \in Row /\ RowOK(order[o])
  BY <1>1, <1>2, InFlight DEF Addressed, NamesRider
<1>4. CASE UNCHANGED <<order, offer>>
  BY <1>1, <1>4, EndKeeps DEF End
<1>5. CASE /\ Live(o, s.rdr, s.round)
           /\ order' = [order EXCEPT ![o] = row] /\ offer' = AcceptedOffers(o, s.rdr, s.round)
  <2>0. starts \in BOOLEAN /\ (s.base.status = "placed" => starts)  OBVIOUS
  <2> HIDE DEF starts
  <2>1. row \in Row /\ RowOK(row) /\ Known(order[o], row) /\ row.rider_user_id = s.rdr
    BY <1>3, <2>0, Claimed
  <2>2. o \in PrivateOnly => s.rdr \in Access
    BY <1>3, <1>5 DEF Live, IInv, PrivateOnlyTeam
  <2>3. OfferTeam(offer') /\ offer' \in [Orders -> [Riders -> [Rounds -> OfferStatus]]]
    BY <1>3, <1>5, AcceptedOffersTeam
  <2> HIDE DEF row
  <2> QED BY <1>1, <1>3, <1>5, <2>1, <2>2, <2>3, NoEvent, OneRow
<1> QED BY <1>4, <1>5 DEF AcceptWrite

LEMMA ClaimWriteKeeps ==
  ASSUME IInv, NEW q \in Requests, ClaimWrite(q)
  PROVE  IInv'
<1> DEFINE s   == sess[q]
           o   == s.ord
           starts == s.base.status \in {"placed", "preparing"}
           row == ClaimedRow(order[o], s.base, s.rdr, starts)
<1>1. At(q, "claim") /\ sess' = [sess EXCEPT ![q] = Idle]
      /\ UNCHANGED <<offer, audit, settled, credits>>
  BY DEF ClaimWrite, End
<1>2. "claim" \in Pc  BY DEF Pc
<1>3. /\ s \in Session /\ o \in Orders /\ s.base \in Row /\ s.rdr \in Riders
      /\ RowOK(s.base) /\ Known(s.base, order[o]) /\ order[o] \in Row /\ RowOK(order[o])
      /\ (o \in PrivateOnly => s.rdr \in Access)
  BY <1>1, <1>2, InFlight DEF Addressed, Vetted, NamesRider
<1>4. CASE UNCHANGED order
  BY <1>1, <1>4, EndKeeps DEF End
<1>5. CASE order' = [order EXCEPT ![o] = row]
  <2>0. starts \in BOOLEAN /\ (s.base.status = "placed" => starts)  OBVIOUS
  <2> HIDE DEF starts
  <2>1. row \in Row /\ RowOK(row) /\ Known(order[o], row) /\ row.rider_user_id = s.rdr
    BY <1>3, <2>0, Claimed
  <2> HIDE DEF row
  <2> QED BY <1>1, <1>3, <1>5, <2>1, RowOnly
<1> QED BY <1>4, <1>5 DEF ClaimWrite

\* A request that goes on to a dispatch carries a row older than the present.
LEMMA ThenDispatchOK ==
  ASSUME IInv, NEW q \in Requests, NEW pc \in {"release", "rejecting", "expiring"}, At(q, pc),
         NEW row \in Row, NEW db, RowOK(row), Known(row, db),
         ThenDispatch(q, row) \/ End(q)
  PROVE  \E t \in Session \cup {Idle} :
           /\ sess' = [sess EXCEPT ![q] = t]
           /\ t # Idle => t.ord = sess[q].ord /\ SessionOK(t, db)
<1> DEFINE s == sess[q]
           t == [s EXCEPT !.pc = "survey", !.base = row, !.mine = row]
<1>1. pc \in Pc /\ "survey" \in Pc  BY DEF Pc
<1>2. s \in Session /\ Changed(s) /\ Vetted(s) /\ s.pc = pc /\ s.mode \in {"own", "inline"}
  BY <1>1, InFlight
<1>3. s.mode = "own"  BY <1>2 DEF Changed
<1>4. CASE End(q)
  BY <1>4 DEF End
<1>5. CASE sess' = [sess EXCEPT ![q].pc = "survey", ![q].base = row, ![q].mine = row]
  <2>1. t \in Session /\ sess' = [sess EXCEPT ![q] = t]
    BY <1>1, <1>2, <1>5 DEF Session, IInv, TypeOK
  <2>2. /\ t.base = row /\ t.mine = row /\ t.ord = s.ord /\ t.picks = s.picks
        /\ t.pc = "survey" /\ t.mode = "own"
    BY <1>2, <1>3 DEF Session
  <2> HIDE DEF t
  <2>3. Changed(t)  BY <2>2 DEF Changed
  <2>4. SessionOK(t, db)
    BY <1>2, <2>2, <2>3 DEF SessionOK, Addressed, Vetted, NamesRider
  <2> QED BY <2>1, <2>2, <2>4
<1> QED BY <1>4, <1>5 DEF ThenDispatch

LEMMA ReleaseWriteKeeps ==
  ASSUME IInv, NEW q \in Requests, ReleaseWrite(q)
  PROVE  IInv'
<1> DEFINE s   == sess[q]
           o   == s.ord
           row == Merge(order[o], s.base, s.mine)
<1>1. At(q, "release") /\ order' = [order EXCEPT ![o] = row]
      /\ offer' = ReleasedOffers(o, s.rdr) /\ ThenDispatch(q, s.mine)
      /\ UNCHANGED <<audit, settled, credits>>
  BY DEF ReleaseWrite
<1>2. "release" \in Pc  BY DEF Pc
<1>3. /\ s \in Session /\ o \in Orders /\ s.base \in Row /\ s.mine \in Row /\ s.rdr \in Riders
      /\ RowOK(s.base) /\ Known(s.base, order[o]) /\ order[o] \in Row /\ RowOK(order[o])
      /\ s.mine = ReleasedRow(s.base) /\ s.base.rider_user_id # NoRider
  BY <1>1, <1>2, InFlight DEF Changed, Addressed, NamesRider
<1>4. /\ row \in Row /\ RowOK(row) /\ Known(order[o], row) /\ row.rider_user_id = NoRider
  BY <1>3, MergeReleased
<1>5. s.mine.stamps = s.base.stamps \ {"rider_assigned_at"} /\ s.mine.rider_user_id = NoRider
      /\ s.mine.status = s.base.status
  BY <1>3 DEF ReleasedRow, Row
<1>6. RowOK(s.mine)  BY <1>3, <1>5 DEF RowOK
<1>7. Known(s.mine, row)
  BY <1>3, <1>4, <1>5 DEF Known, Final
<1>8. PICK t \in Session \cup {Idle} :
        sess' = [sess EXCEPT ![q] = t] /\ (t # Idle => t.ord = o /\ SessionOK(t, row))
  BY <1>1, <1>3, <1>6, <1>7, ThenDispatchOK
<1>9. OfferTeam(offer') /\ offer' \in [Orders -> [Riders -> [Rounds -> OfferStatus]]]
  <2>1. offer \in [Orders -> [Riders -> [Rounds -> OfferStatus]]]  BY DEF IInv, TypeOK
  <2>2. offer' \in [Orders -> [Riders -> [Rounds -> OfferStatus]]]
    <3> DEFINE kept == [k \in Rounds |-> IF offer[o][s.rdr][k] = "accepted" THEN "released" ELSE offer[o][s.rdr][k]]
    <3>1. offer' = [offer EXCEPT ![o][s.rdr] = kept]
      BY <1>1 DEF ReleasedOffers
    <3>2. offer[o][s.rdr] \in [Rounds -> OfferStatus]
      BY <1>3, <2>1
    <3>3. kept \in [Rounds -> OfferStatus]
      BY <3>2 DEF OfferStatus
    <3> HIDE DEF kept
    <3> QED BY <1>3, <2>1, <3>1, <3>3
  <2>3. ASSUME NEW p \in Orders, NEW x \in Riders, NEW n \in Rounds, offer[p][x][n] = "none"
        PROVE  (offer')[p][x][n] = "none"
    BY <1>1, <1>3, <2>1, <2>3 DEF ReleasedOffers
  <2> QED BY <2>2, <2>3, TeamKept
<1> HIDE DEF row
<1> QED BY <1>1, <1>3, <1>4, <1>8, <1>9, NoEvent, OneRow

LEMMA DeclineKeeps ==
  ASSUME IInv, NEW q \in Requests, NEW pc \in {"rejecting", "expiring"}, At(q, pc),
         NEW verdict \in Declined, Decline(q, verdict),
         ThenDispatch(q, sess[q].mine) \/ End(q)
  PROVE  IInv'
<1> DEFINE s   == sess[q]
           o   == s.ord
           row == Merge(order[o], s.base, s.mine)
<1>1. /\ order' = [order EXCEPT ![o] = row]
      /\ offer' = [offer EXCEPT ![o][s.rdr][s.round] = verdict]
      /\ UNCHANGED <<audit, settled, credits>>
  BY DEF Decline
<1>2. pc \in Pc  BY DEF Pc
<1>3. /\ s \in Session /\ o \in Orders /\ s.base \in Row /\ s.mine \in Row
      /\ s.rdr \in Riders /\ s.round \in Rounds
      /\ RowOK(s.base) /\ Known(s.base, order[o]) /\ order[o] \in Row /\ RowOK(order[o])
      /\ s.mine \in {s.base, [s.base EXCEPT !.state = "unassigned"]}
      /\ (o \in PrivateOnly => s.rdr \in Access)
  BY <1>2, InFlight DEF Changed, Addressed, Vetted, NamesRider
<1>4. s.mine.stamps = s.base.stamps /\ s.mine.rider_user_id = s.base.rider_user_id
      /\ s.mine.status = s.base.status
  BY <1>3 DEF Row
<1>5. row \in Row /\ RowOK(row) /\ Known(order[o], row)
      /\ row.rider_user_id = order[o].rider_user_id
  <2>1. s.mine.stamps \in {s.base.stamps, s.base.stamps \cup {"picked_up_at"}}
    BY <1>4
  <2>2. order[o] \in Row /\ s.base \in Row /\ s.mine \in Row /\ RowOK(order[o])
    BY <1>3
  <2> QED BY <1>4, <2>1, <2>2, MergeQuiet
<1>6. RowOK(s.mine)  BY <1>3, <1>4 DEF RowOK
<1>7. Known(s.mine, row)
  BY <1>3, <1>4, <1>5 DEF Known, Final
<1>8. PICK t \in Session \cup {Idle} :
        sess' = [sess EXCEPT ![q] = t] /\ (t # Idle => t.ord = o /\ SessionOK(t, row))
  BY <1>3, <1>6, <1>7, ThenDispatchOK
<1>9. offer' \in [Orders -> [Riders -> [Rounds -> OfferStatus]]]
  BY <1>1, <1>3 DEF IInv, TypeOK, Declined, OfferStatus
<1>10. OfferTeam(offer')
  BY <1>1, <1>3 DEF OfferTeam, IInv, TypeOK, PrivateOnlyTeam
<1> HIDE DEF row
<1> QED BY <1>1, <1>3, <1>5, <1>8, <1>9, <1>10, NoEvent, OneRow

LEMMA PickUpWriteKeeps ==
  ASSUME IInv, NEW q \in Requests, PickUpWrite(q)
  PROVE  IInv'
<1> DEFINE s   == sess[q]
           o   == s.ord
           row == Merge(order[o], s.base, s.mine)
<1>1. At(q, "pickup") /\ order' = [order EXCEPT ![o] = row] /\ sess' = [sess EXCEPT ![q] = Idle]
      /\ UNCHANGED <<offer, audit, settled, credits>>
  BY DEF PickUpWrite, End
<1>2. "pickup" \in Pc  BY DEF Pc
<1>3. /\ o \in Orders /\ s.base \in Row /\ s.mine \in Row /\ order[o] \in Row /\ RowOK(order[o])
      /\ s.mine = PickedUpRow(s.base)
  BY <1>1, <1>2, InFlight DEF Changed
<1>4. s.mine.status = s.base.status /\ s.mine.rider_user_id = s.base.rider_user_id
      /\ s.mine.stamps = s.base.stamps \cup {"picked_up_at"}
  BY <1>3 DEF PickedUpRow, Row
<1>5. row \in Row /\ RowOK(row) /\ Known(order[o], row)
      /\ row.rider_user_id = order[o].rider_user_id
  BY <1>3, <1>4, MergeQuiet
<1> HIDE DEF row
<1> QED BY <1>1, <1>3, <1>5, RowOnly

LEMMA DeliverWriteKeeps ==
  ASSUME IInv, NEW q \in Requests, DeliverWrite(q)
  PROVE  IInv'
<1> DEFINE s   == sess[q]
           o   == s.ord
           row == Merge(order[o], s.base, s.mine)
           t   == [s EXCEPT !.pc = "complete"]
<1>1. At(q, "deliver") /\ order' = [order EXCEPT ![o] = row]
      /\ UNCHANGED <<offer, audit, settled, credits>>
  BY DEF DeliverWrite
<1>2. "deliver" \in Pc /\ "complete" \in Pc  BY DEF Pc
<1>3. /\ s \in Session /\ s.pc = "deliver" /\ o \in Orders /\ s.base \in Row /\ s.mine \in Row
      /\ RowOK(s.base) /\ Known(s.base, order[o]) /\ order[o] \in Row /\ RowOK(order[o])
      /\ Changed(s) /\ Addressed(s) /\ Vetted(s) /\ s.mine = DeliveredRow(s.base)
  BY <1>1, <1>2, InFlight DEF Changed
<1>4. /\ row \in Row /\ RowOK(row) /\ Known(order[o], row) /\ "delivered_at" \in row.stamps
      /\ row.rider_user_id = order[o].rider_user_id
  BY <1>3, MergeDelivered
<1> HIDE DEF row
<1>5. CASE End(q)
  BY <1>1, <1>3, <1>4, <1>5, RowOnly DEF End
<1>6. CASE sess' = [sess EXCEPT ![q].pc = "complete"]
  <2>1. t \in Session /\ sess' = [sess EXCEPT ![q] = t]
    BY <1>2, <1>3, <1>6 DEF Session
  <2>2. /\ t.base = s.base /\ t.mine = s.mine /\ t.ord = o /\ t.picks = s.picks
        /\ t.pc = "complete" /\ t.mode = s.mode
    BY <1>3 DEF Session
  <2>3. Changed(t)  BY <1>3, <2>2 DEF Changed
  <2>4. Known(s.base, row)  BY <1>3, <1>4, KnownTransitive
  <2>5. SessionOK(t, row)
    BY <1>3, <1>4, <2>2, <2>3, <2>4 DEF SessionOK, Addressed, Vetted, NamesRider
  <2> HIDE DEF t
  <2> QED BY <1>1, <1>3, <1>4, <2>1, <2>2, <2>5, RowOnly
<1> QED BY <1>5, <1>6 DEF DeliverWrite

LEMMA CompleteKeeps ==
  ASSUME IInv, NEW q \in Requests, Complete(q)
  PROVE  IInv'
<1> DEFINE o == sess[q].ord
<1>1. At(q, "complete") /\ sess' = [sess EXCEPT ![q] = Idle] /\ UNCHANGED <<order, offer, audit>>
  BY DEF Complete, End
<1>2. "complete" \in Pc  BY DEF Pc
<1>3. o \in Orders /\ "delivered_at" \in order[o].stamps
  BY <1>1, <1>2, InFlight DEF SessionOK
<1>4. RowStep
  BY <1>1 DEF RowStep, IInv, RowsOK, TypeOK, Known
<1>5. SessionsOK' /\ sess' \in [Requests -> Session \cup {Idle}]
  BY <1>1, <1>4, SessionsCarry DEF IInv
<1>6. /\ settled' \subseteq Orders /\ settled \subseteq settled'
      /\ credits' \in [Orders -> 0..MaxCredits]
      /\ settled' \subseteq settled \cup {o}
      /\ \A p \in Orders : (credits')[p] > 0 => credits[p] > 0 \/ (p = o /\ o \in settled')
  BY <1>3 DEF Complete, IInv, TypeOK
<1>7. SettledAfterDelivery'
  BY <1>1, <1>3, <1>6 DEF SettledAfterDelivery, IInv
<1>8. RowsOK' /\ PrivateOnlyTeam' /\ AuditTruthful'
  BY <1>1 DEF IInv, RowsOK, PrivateOnlyTeam, AuditTruthful
<1>9. TypeOK'
  BY <1>1, <1>5, <1>6 DEF IInv, TypeOK
<1> QED BY <1>5, <1>7, <1>8, <1>9 DEF IInv

\* Steps in which no request takes part.
LEMMA SessionsStay ==
  ASSUME TypeOK, SessionsOK, RowStep, UNCHANGED sess
  PROVE  SessionsOK'
<1>1. ASSUME NEW p \in Requests, sess[p] # Idle
      PROVE  SessionOK(sess[p], (order')[sess[p].ord])
  <2>1. sess[p] \in Session /\ sess[p].ord \in Orders
    BY <1>1 DEF TypeOK, Session
  <2>2. sess' = [sess EXCEPT ![p] = sess[p]]  BY DEF TypeOK
  <2>3. SessionOK(sess[p], order[sess[p].ord])  BY <1>1 DEF SessionsOK
  <2>4. Known(order[sess[p].ord], (order')[sess[p].ord])  BY <2>1 DEF RowStep
  <2>5. Known(sess[p].base, (order')[sess[p].ord])
    BY <2>3, <2>4, KnownTransitive DEF SessionOK
  <2>6. sess[p].pc = "complete" => "delivered_at" \in (order')[sess[p].ord].stamps
    BY <2>3, <2>4 DEF SessionOK, Known, Final
  <2> QED BY <2>3, <2>5, <2>6 DEF SessionOK
<1> QED BY <1>1 DEF SessionsOK

LEMMA LapseOfferKeeps ==
  ASSUME IInv, NEW o \in Orders, NEW r \in Riders, NEW k \in Rounds, LapseOffer(o, r, k)
  PROVE  IInv'
<1>1. RowStep
  BY DEF LapseOffer, RowStep, IInv, RowsOK, TypeOK, Known
<1>2. SessionsOK'
  BY <1>1, SessionsStay DEF IInv, LapseOffer
<1>3. offer' \in [Orders -> [Riders -> [Rounds -> OfferStatus]]]
  BY DEF LapseOffer, IInv, TypeOK, OfferStatus
<1>4. ASSUME NEW p \in Orders, NEW x \in Riders, NEW n \in Rounds, offer[p][x][n] = "none"
      PROVE  (offer')[p][x][n] = "none"
  BY <1>4 DEF LapseOffer, IInv, TypeOK
<1>5. PrivateOnlyTeam'
  BY <1>4, TeamKept DEF LapseOffer, OfferTeam, IInv, PrivateOnlyTeam
<1>6. RowsOK' /\ AuditTruthful' /\ SettledAfterDelivery'
  BY DEF LapseOffer, IInv, RowsOK, AuditTruthful, SettledAfterDelivery
<1> QED BY <1>2, <1>3, <1>5, <1>6 DEF IInv, TypeOK, LapseOffer

LEMMA CancelOrderKeeps ==
  ASSUME IInv, NEW o \in Orders, CancelOrder(o)
  PROVE  IInv'
<1> DEFINE row == [order[o] EXCEPT !.status = "cancelled", !.stamps = @ \cup {"cancelled_at"}]
<1>1. /\ order' = [order EXCEPT ![o] = row]
      /\ audit' = [audit EXCEPT ![o] = @ \cup {"cancelled"}]
      /\ UNCHANGED <<offer, settled, credits, sess>>
  BY DEF CancelOrder, IInv, TypeOK
<1>2. order[o] \in Row /\ RowOK(order[o])  BY Loaded
<1>3. row \in Row  BY <1>2 DEF Row, Status, Stamps
<1>4. row.status = "cancelled" /\ row.rider_user_id = order[o].rider_user_id
      /\ row.stamps = order[o].stamps \cup {"cancelled_at"}
  BY <1>2 DEF Row
<1> HIDE DEF row
<1>5. RowOK(row) /\ Known(order[o], row)
  BY <1>2, <1>4 DEF RowOK, Known
<1>6. (order')[o] = row /\ \A p \in Orders : p # o => (order')[p] = order[p]
  BY <1>1 DEF IInv, TypeOK
<1>7. RowStep
  BY <1>1, <1>3, <1>5, <1>6 DEF RowStep, IInv, RowsOK, TypeOK, Known
<1>8. SessionsOK'
  BY <1>1, <1>7, SessionsStay DEF IInv
<1>9. TypeOK'
  BY <1>1, <1>7 DEF IInv, TypeOK, RowStep, Status
<1>10. RowsOK'
  BY <1>7 DEF RowsOK, RowStep
<1>11. PrivateOnlyTeam'
  BY <1>1, <1>4, <1>6 DEF PrivateOnlyTeam, IInv
<1>12. AuditTruthful'
  BY <1>1, <1>4, <1>6 DEF AuditTruthful, IInv, TypeOK
<1>13. SettledAfterDelivery'
  BY <1>1, <1>4, <1>6 DEF SettledAfterDelivery, IInv
<1> QED BY <1>8, <1>9, <1>10, <1>11, <1>12, <1>13 DEF IInv

\* A rider's request about the order that is theirs.
LEMMA OwnOrderReadKeeps ==
  ASSUME IInv, NEW q \in Requests, NEW o \in Orders, NEW r \in Riders,
         \/ ReleaseRead(q, o, r)
         \/ PickUpRead(q, o, r)
         \/ DeliverRead(q, o, r)
  PROVE  IInv'
<1>1. order[o] \in Row /\ RowOK(order[o]) /\ Known(order[o], order[o]) /\ r \in Holder
      /\ 0 \in 0..MaxRound
  BY Loaded
<1>2. CASE ReleaseRead(q, o, r)
  <2>1. "release" \in Pc /\ ReleasedRow(order[o]) \in Row  BY <1>1, RowTypes DEF Pc
  <2>2. order[o].rider_user_id = r /\ r # NoRider  BY <1>2 DEF ReleaseRead
  <2>3. o \in PrivateOnly => r \in Access  BY <2>2 DEF IInv, PrivateOnlyTeam
  <2>4. Changed([pc |-> "release", ord |-> o, rdr |-> r, round |-> 0, base |-> order[o],
                 mine |-> ReleasedRow(order[o]), picks |-> {}, mode |-> "own"])
    BY <2>2 DEF Changed
  <2> QED BY <1>1, <1>2, <2>1, <2>3, <2>4, BeginRead DEF ReleaseRead
<1>3. CASE PickUpRead(q, o, r)
  <2>1. "pickup" \in Pc /\ "pickup" \notin NamesRider /\ PickedUpRow(order[o]) \in Row
    BY <1>1, RowTypes DEF Pc, NamesRider
  <2>2. Changed([pc |-> "pickup", ord |-> o, rdr |-> r, round |-> 0, base |-> order[o],
                 mine |-> PickedUpRow(order[o]), picks |-> {}, mode |-> "own"])
    BY DEF Changed
  <2> QED BY <1>1, <1>3, <2>1, <2>2, BeginRead DEF PickUpRead
<1>4. CASE DeliverRead(q, o, r)
  <2>1. "deliver" \in Pc /\ "deliver" \notin NamesRider /\ DeliveredRow(order[o]) \in Row
    BY <1>1, RowTypes DEF Pc, NamesRider
  <2>2. Changed([pc |-> "deliver", ord |-> o, rdr |-> r, round |-> 0, base |-> order[o],
                 mine |-> DeliveredRow(order[o]), picks |-> {}, mode |-> "own"])
    BY DEF Changed
  <2> QED BY <1>1, <1>4, <2>1, <2>2, BeginRead DEF DeliverRead
<1> QED BY <1>2, <1>3, <1>4

LEMMA PlaceOrderKeeps ==
  ASSUME IInv, NEW q \in Requests, NEW o \in Orders, PlaceOrder(q, o)
  PROVE  IInv'
<1> DEFINE row == [order[o] EXCEPT !.status = "placed"]
           t   == [pc |-> "survey", ord |-> o, rdr |-> NoRider, round |-> 0, base |-> row,
                   mine |-> row, picks |-> {}, mode |-> "own"]
<1>1. /\ order' = [order EXCEPT ![o] = row] /\ sess[q] = Idle
      /\ UNCHANGED <<offer, audit, settled, credits>>
  BY DEF PlaceOrder, Free
<1>2. order[o] \in Row /\ RowOK(order[o])  BY Loaded
<1>3. row \in Row  BY <1>2 DEF Row, Status
<1>4. row.status = "placed" /\ row.stamps = order[o].stamps
      /\ row.rider_user_id = order[o].rider_user_id
  BY <1>2 DEF Row
<1>5. RowOK(row) /\ Known(order[o], row) /\ Known(row, row)
  BY <1>2, <1>4 DEF RowOK, Known
<1>6. CASE UNCHANGED sess
  <2>1. sess' = [sess EXCEPT ![q] = Idle]  BY <1>1, <1>6 DEF IInv, TypeOK
  <2> HIDE DEF row
  <2> QED BY <1>1, <1>3, <1>4, <1>5, <2>1, RowOnly
<1>7. CASE Begin(q, "survey", o, NoRider, 0, row, row)
  <2>1. sess' = [sess EXCEPT ![q] = t]  BY <1>7 DEF Begin
  <2> HIDE DEF row
  <2>2. t \in Session
    BY <1>3, Loaded DEF Session, Pc
  <2>3. Changed(t)  BY DEF Changed
  <2>4. Addressed(t) /\ Vetted(t)  BY DEF Addressed, Vetted, NamesRider
  <2>5. SessionOK(t, row)  BY <1>5, <2>3, <2>4 DEF SessionOK
  <2>6. t.ord = o  OBVIOUS
  <2> HIDE DEF t
  <2> QED BY <1>1, <1>3, <1>4, <1>5, <2>1, <2>2, <2>5, <2>6, RowOnly
<1> QED BY <1>6, <1>7 DEF PlaceOrder

-----------------------------------------------------------------------------
(* The system *)

LEMMA InitInv ==
  ASSUME Init
  PROVE  IInv
<1>1. TypeOK
  BY AbsentOK DEF Init, TypeOK, OfferStatus
<1>2. RowsOK  BY AbsentOK DEF Init, RowsOK
<1>3. SessionsOK  BY DEF Init, SessionsOK
<1>4. PrivateOnlyTeam  BY DEF Init, PrivateOnlyTeam, AbsentRow
<1>5. AuditTruthful /\ SettledAfterDelivery
  BY DEF Init, AuditTruthful, SettledAfterDelivery
<1> QED BY <1>1, <1>2, <1>3, <1>4, <1>5 DEF IInv

LEMMA ArriveKeeps ==
  ASSUME IInv, NEW q \in Requests, Arrive(q)
  PROVE  IInv'
<1> PICK o \in Orders : PlaceOrder(q, o) \/ Merchant(q, o) \/ \E r \in Riders : Rider(q, o, r)
  BY DEF Arrive
<1>1. CASE PlaceOrder(q, o)  BY <1>1, PlaceOrderKeeps
<1>2. CASE Merchant(q, o)
  BY <1>2, UpdateStatusReadKeeps, AssignReadKeeps DEF Merchant
<1>3. ASSUME NEW r \in Riders, Rider(q, o, r)
      PROVE  IInv'
  <2>1. CASE \E online \in SUBSET Riders : ClaimRead(q, o, r, online)
    BY <2>1, ClaimReadKeeps
  <2>2. ASSUME NEW k \in Rounds, AcceptRead(q, o, r, k)
        PROVE  IInv'
    <3>1. o \in PrivateOnly => r \in Access
      BY <2>2 DEF AcceptRead, StillPending, IInv, PrivateOnlyTeam
    <3> QED BY <2>2, <3>1, PlainRead, Loaded DEF AcceptRead
  <2>3. ASSUME NEW k \in Rounds, RejectRead(q, o, r, k)
        PROVE  IInv'
    BY <2>3, OfferReadKeeps DEF RejectRead, StillPending
  <2> QED BY <1>3, <2>1, <2>2, <2>3, OwnOrderReadKeeps DEF Rider
<1> QED BY <1>1, <1>2, <1>3

LEMMA ContinueKeeps ==
  ASSUME IInv, NEW q \in Requests, Continue(q)
  PROVE  IInv'
<1>1. ASSUME RejectFlush(q)  PROVE IInv'
  BY <1>1, DeclineReadKeeps DEF RejectFlush
<1>2. ASSUME ExpireFlush(q)  PROVE IInv'
  BY <1>2, DeclineReadKeeps DEF ExpireFlush
<1>3. ASSUME RejectCommit(q)  PROVE IInv'
  BY <1>3, DeclineKeeps DEF RejectCommit, Declined
<1>4. ASSUME ExpireCommit(q)  PROVE IInv'
  BY <1>4, DeclineKeeps DEF ExpireCommit, Declined
<1>5. ASSUME NEW online \in SUBSET Riders, Survey(q, online)  PROVE IInv'
  BY <1>5, SurveyKeeps
<1> QED
  BY <1>1, <1>2, <1>3, <1>4, <1>5, UpdateStatusWriteKeeps, UpdateStatusPreparingKeeps,
     RecordEventKeeps, AssignWriteKeeps, CheckPendingKeeps, OfferRoundKeeps,
     AcceptWriteKeeps, ClaimWriteKeeps, ReleaseWriteKeeps, PickUpWriteKeeps,
     DeliverWriteKeeps, CompleteKeeps DEF Continue

LEMMA NextKeeps ==
  ASSUME IInv, [Next]_vars
  PROVE  IInv'
<1>1. ASSUME NEW q \in Requests, Expire(q)  PROVE IInv'
  BY <1>1, OfferReadKeeps DEF Expire, ExpireRead
<1>2. ASSUME NEW q \in Requests, Abort(q)  PROVE IInv'
  BY <1>2, EndKeeps DEF Abort
<1>3. CASE Lapse
  BY <1>3, LapseOfferKeeps DEF Lapse
<1>4. CASE UNCHANGED vars
  BY <1>4 DEF vars, IInv, TypeOK, RowsOK, SessionsOK, PrivateOnlyTeam, AuditTruthful,
              SettledAfterDelivery
<1> QED
  BY <1>1, <1>2, <1>3, <1>4, ArriveKeeps, ContinueKeeps, CancelOrderKeeps DEF Next

\* The inductive invariant: whatever requests interleave, every snapshot in
\* flight stays one that a handler could have made of an older row.
THEOREM Invariant == Spec => []IInv
<1>1. Init => IInv  BY InitInv
<1>2. IInv /\ [Next]_vars => IInv'  BY NextKeeps
<1> QED BY <1>1, <1>2, PTL DEF Spec

\* Every row, offer, event and session has its type, and a round number never
\* leaves its range although it is computed from a snapshot.
THEOREM TypeCorrect == Spec => []TypeOK
BY Invariant, PTL DEF IInv

\* rider_assigned_at is set exactly on the orders that have a rider, for any
\* interleaving of claims, acceptances, releases and status changes.
THEOREM AssignmentIsStamped == Spec => []AssignmentStamped
<1>1. IInv => AssignmentStamped
  BY DEF IInv, RowsOK, RowOK, AssignmentStamped
<1> QED BY <1>1, Invariant, PTL

\* A status carries its timestamp, also when both were written from a stale
\* snapshot.
THEOREM StatusIsStamped == Spec => []StatusStamped
<1>1. IInv => StatusStamped
  BY DEF IInv, RowsOK, RowOK, StatusStamped
<1> QED BY <1>1, Invariant, PTL

\* Orders of a private_only restaurant are offered to, and carried by, its own
\* riders only.
THEOREM PrivateStaysPrivate == Spec => []PrivateOnlyTeam
BY Invariant, PTL DEF IInv

\* A recorded delivery or cancellation was committed with its timestamp, which
\* no stale write takes back.
THEOREM AuditIsTruthful == Spec => []AuditTruthful
BY Invariant, PTL DEF IInv

\* Settlement and loyalty only follow a delivery.
THEOREM MoneyFollowsDelivery == Spec => []SettledAfterDelivery
BY Invariant, PTL DEF IInv

-----------------------------------------------------------------------------
(* The life of an offer *)

LEMMA NewOffersStep ==
  ASSUME IInv, NEW o \in Orders, NEW picks \in SUBSET Riders, NEW k,
         ~RoundTaken(o, picks, k), offer' = AddOffers(o, picks, k)
  PROVE  OffersStep
<1>1. ASSUME NEW p \in Orders, NEW x \in Riders, NEW n \in Rounds
      PROVE  OfferStep(offer[p][x][n], (offer')[p][x][n])
  <2>1. CASE p = o /\ x \in picks /\ n = k
    <3>1. (offer')[p][x][n] = "pending"
      BY <2>1 DEF AddOffers, IInv, TypeOK
    <3>2. offer[p][x][n] = "none"  BY <2>1 DEF RoundTaken
    <3> QED BY <3>1, <3>2 DEF OfferStep, StillPending, Declined
  <2>2. CASE ~(p = o /\ x \in picks /\ n = k)
    <3>1. (offer')[p][x][n] = offer[p][x][n]
      BY <2>2 DEF AddOffers, IInv, TypeOK
    <3> QED BY <3>1 DEF OfferStep, StillPending, Declined
  <2> QED BY <2>1, <2>2
<1> QED BY <1>1 DEF OffersStep

LEMMA SameOffersStep ==
  ASSUME UNCHANGED offer
  PROVE  OffersStep
BY DEF OffersStep, OfferStep, StillPending, Declined

LEMMA AcceptOffersStep ==
  ASSUME IInv, NEW q \in Requests, AcceptWrite(q)
  PROVE  OffersStep
<1> DEFINE s == sess[q]
           o == s.ord
<1>1. At(q, "accept") /\ "accept" \in Pc  BY DEF AcceptWrite, Pc
<1>2. o \in Orders /\ s.rdr \in Riders /\ s.round \in Rounds
  BY <1>1, InFlight DEF Addressed, NamesRider
<1>3. CASE Live(o, s.rdr, s.round) /\ offer' = AcceptedOffers(o, s.rdr, s.round)
  <2>1. ASSUME NEW p \in Orders, NEW x \in Riders, NEW n \in Rounds
        PROVE  OfferStep(offer[p][x][n], (offer')[p][x][n])
    <3>1. CASE p = o /\ x = s.rdr /\ n = s.round
      BY <1>3, <3>1 DEF Live, AcceptedOffers, OfferStep, StillPending, Declined, IInv, TypeOK
    <3>2. CASE ~(p = o /\ x = s.rdr /\ n = s.round)
      <4>1. \/ (offer')[p][x][n] = offer[p][x][n]
            \/ /\ offer[p][x][n] \in StillPending
               /\ (offer')[p][x][n] = "expired"
        BY <1>3, <3>2 DEF AcceptedOffers, IInv, TypeOK
      <4> QED BY <4>1 DEF OfferStep, StillPending, Declined
    <3> QED BY <3>1, <3>2
  <2> QED BY <2>1 DEF OffersStep
<1> QED BY <1>3, SameOffersStep DEF AcceptWrite

\* Offers given back or declined.
LEMMA GivenBackStep ==
  ASSUME IInv, NEW q \in Requests, ReleaseWrite(q) \/ RejectCommit(q) \/ ExpireCommit(q)
  PROVE  OffersStep
<1> DEFINE s == sess[q]
           o == s.ord
<1>1. PICK pc \in {"release", "rejecting", "expiring"} : At(q, pc)
  BY DEF ReleaseWrite, RejectCommit, ExpireCommit
<1>2. o \in Orders /\ s.rdr \in Riders
  BY <1>1, InFlight DEF Addressed, NamesRider, Pc
<1>3. ASSUME NEW p \in Orders, NEW x \in Riders, NEW n \in Rounds
      PROVE  (offer')[p][x][n] \in Declined \cup {offer[p][x][n]}
  <2>1. ASSUME ReleaseWrite(q)
        PROVE  (offer')[p][x][n] \in Declined \cup {offer[p][x][n]}
    BY <1>2, <2>1 DEF ReleaseWrite, ReleasedOffers, Declined, IInv, TypeOK
  <2>2. ASSUME NEW verdict \in Declined, Decline(q, verdict)
        PROVE  (offer')[p][x][n] \in Declined \cup {offer[p][x][n]}
    BY <1>2, <2>2 DEF Decline, IInv, TypeOK
  <2> QED BY <2>1, <2>2 DEF RejectCommit, ExpireCommit, Declined
<1> QED BY <1>3 DEF OffersStep, OfferStep, StillPending, Declined

LEMMA NextOffersStep ==
  ASSUME IInv, [Next]_vars
  PROVE  OffersStep
<1>1. ASSUME NEW q \in Requests, Continue(q)
      PROVE  OffersStep
  <2>1. ASSUME AssignWrite(q)  PROVE OffersStep
    <3>1. At(q, "assign") /\ "assign" \in Pc  BY <2>1 DEF AssignWrite, Pc
    <3>2. sess[q].ord \in Orders /\ {sess[q].rdr} \in SUBSET Riders
      BY <3>1, InFlight DEF Addressed, NamesRider
    <3> QED BY <2>1, <3>2, NewOffersStep, SameOffersStep DEF AssignWrite
  <2>2. ASSUME OfferRound(q)  PROVE OffersStep
    <3>1. At(q, "offer") /\ "offer" \in Pc  BY <2>2 DEF OfferRound, Pc
    <3>2. sess[q].ord \in Orders /\ sess[q].picks \in SUBSET Riders
      BY <3>1, InFlight
    <3> QED BY <2>2, <3>2, NewOffersStep, SameOffersStep DEF OfferRound
  <2> QED
    BY <1>1, <2>1, <2>2, AcceptOffersStep, GivenBackStep, SameOffersStep
       DEF Continue, UpdateStatusWrite, UpdateStatusPreparing, RecordEvent, Survey,
           CheckPending, ClaimWrite, RejectFlush, ExpireFlush, PickUpWrite, DeliverWrite,
           Complete
<1>2. ASSUME NEW o \in Orders, NEW r \in Riders, NEW k \in Rounds, LapseOffer(o, r, k)
      PROVE  OffersStep
  BY <1>2 DEF LapseOffer, OffersStep, OfferStep, StillPending, Declined, IInv, TypeOK
<1>3. ASSUME NEW q \in Requests, Arrive(q) \/ Expire(q) \/ Abort(q)
      PROVE  UNCHANGED offer
  <2>1. CASE Expire(q) \/ Abort(q)  BY <2>1 DEF Expire, ExpireRead, Abort
  <2>2. ASSUME NEW o \in Orders, PlaceOrder(q, o) \/ Merchant(q, o)
        PROVE  UNCHANGED offer
    BY <2>2 DEF PlaceOrder, Merchant, UpdateStatusRead, AssignRead
  <2>3. ASSUME NEW o \in Orders, NEW r \in Riders, Rider(q, o, r)
        PROVE  UNCHANGED offer
    BY <2>3 DEF Rider, ClaimRead, AcceptRead, RejectRead, ReleaseRead, PickUpRead, DeliverRead
  <2> QED BY <1>3, <2>1, <2>2, <2>3 DEF Arrive
<1> QED
  BY <1>1, <1>2, <1>3, SameOffersStep DEF Next, Lapse, CancelOrder, vars

\* An offer is accepted only while pending, a declined offer stays declined, and
\* no round overwrites an offer, in every interleaving of unconditional writes.
THEOREM OffersFollowTheirLife == Spec => OfferLifecycle
<1>1. IInv /\ [Next]_vars => [OffersStep]_vars
  BY NextOffersStep
<1> QED BY <1>1, Invariant, PTL DEF Spec, OfferLifecycle
=============================================================================
