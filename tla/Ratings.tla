------------------------------- MODULE Ratings -------------------------------
(***************************************************************************)
(* Reviews of one restaurant and the rating it caches: the review          *)
(* endpoints of app/modules/restaurants/api.py and repository.py, the      *)
(* older ones of app/modules/reviews and the moderation of                 *)
(* app/modules/admin/api.py.                                               *)
(*                                                                         *)
(* A request loads the restaurant at its start and keeps that row, commits *)
(* the review, counts the published reviews again and commits the two      *)
(* cached columns, each only if it differs from the row it loaded.         *)
(***************************************************************************)
EXTENDS Integers, FiniteSets, FiniteSetsExt

CONSTANTS
  Sales,        \* orders of customers of the restaurant
  Extras,       \* ids of reviews that the older endpoint makes, without an order
  Rates,        \* ratings
  Guests        \* requests that are served at one time

ASSUME RatesAssumption == Rates # {} /\ Rates \subseteq 1..5
ASSUME ReviewsAssumption ==
  Sales \cap Extras = {} /\ IsFiniteSet(Sales) /\ IsFiniteSet(Extras)

VARIABLES
  delivered,   \* the orders that were delivered
  review,      \* the reviews, by their order (unique) or their own id
  cached,      \* review_count and rating_average of the restaurant
  guest,       \* per request: what it does and what it has read
  exact        \* history: the cached columns were counted after the last change

ratingVars == <<delivered, review, cached, guest, exact>>

Reviews == Sales \cup Extras
NoRating == 0
Review == [rating : Rates \cup {NoRating}, shown : BOOLEAN]
NoReview == [rating |-> NoRating, shown |-> FALSE]

Present(s) == review[s] # NoReview

\* Orders that can be reviewed: delivered, without a review.
Unreviewed == {s \in delivered : ~Present(s)}

\* The rounded average is an integer here: hundredths, cut off.
Stats == [count : Nat, average : Nat]

GuestOps == {"create", "update", "delete"}

\* "alone": nobody else changed a review or the cached columns since the load.
Guest ==
  [at : {"idle"}]
  \cup [at : {"loaded"}, op : GuestOps, id : Reviews, rating : Rates \cup {NoRating},
        was : Review, base : Stats, alone : BOOLEAN]
  \cup [at : {"written"}, base : Stats, alone : BOOLEAN]
  \cup [at : {"counted"}, base : Stats, fresh : Stats, alone : BOOLEAN]

AtHome == [at |-> "idle"]

RatingTypeOK ==
  /\ delivered \subseteq Sales
  /\ review \in [Reviews -> Review]
  /\ cached \in Stats
  /\ guest \in [Guests -> Guest]
  /\ exact \in BOOLEAN

\* What sync_review_stats counts.
Average(rows, of) ==
  IF of = {} THEN 0
  ELSE (100 * MapThenSumSet(LAMBDA s : rows[s].rating, of)) \div Cardinality(of)

Counted(all) ==
  LET of == {s \in Reviews : Present(s) /\ (all \/ review[s].shown)}
  IN [count |-> Cardinality(of), average |-> Average(review, of)]

\* Everybody else in flight is no longer alone.
Disturb(g, own) ==
  [h \in Guests |-> IF h = g THEN own
                    ELSE IF guest[h] = AtHome THEN AtHome ELSE [guest[h] EXCEPT !.alone = FALSE]]
DisturbAll == [h \in Guests |-> IF guest[h] = AtHome THEN AtHome ELSE [guest[h] EXCEPT !.alone = FALSE]]

-----------------------------------------------------------------------------
(* The customer's endpoints *)

Deliver(s) ==
  /\ delivered' = delivered \cup {s}
  /\ UNCHANGED <<review, cached, guest, exact>>

\* Eligibility: a delivered order that nobody reviewed; the author edits and
\* deletes a review, hidden or not.
ReviewLoad(g, op, s, rating) ==
  /\ guest[g] = AtHome
  /\ IF op = "create" THEN s \in Unreviewed ELSE Present(s)
  /\ (op = "delete") <=> (rating = NoRating)
  /\ guest' = [guest EXCEPT ![g] = [at |-> "loaded", op |-> op, id |-> s, rating |-> rating,
       was |-> review[s], base |-> cached, alone |-> TRUE]]
  /\ UNCHANGED <<delivered, review, cached, exact>>

\* create_review, update_review: an edit publishes the review, as far as the
\* row that was loaded differs; a row that is gone cannot be updated.
Edited(w) ==
  [rating |-> IF w.rating = w.was.rating THEN review[w.id].rating ELSE w.rating,
   shown |-> IF w.was.shown THEN review[w.id].shown ELSE TRUE]

ReviewCommit(g) ==
  LET w == guest[g] IN
  /\ w.at = "loaded"
  /\ \/ w.op = "create" /\ ~Present(w.id)
        /\ review' = [review EXCEPT ![w.id] = [rating |-> w.rating, shown |-> TRUE]]
     \/ w.op = "update" /\ Present(w.id) /\ review' = [review EXCEPT ![w.id] = Edited(w)]
     \/ w.op = "delete" /\ review' = [review EXCEPT ![w.id] = NoReview]
  /\ guest' = Disturb(g, [at |-> "written", base |-> w.base, alone |-> w.alone])
  /\ exact' = FALSE
  /\ UNCHANGED <<delivered, cached>>

SyncReadAll(g) ==
  /\ guest[g].at = "written"
  /\ guest' = [guest EXCEPT ![g] =
       [at |-> "counted", base |-> @.base, fresh |-> Counted(TRUE), alone |-> @.alone]]
  /\ UNCHANGED <<delivered, review, cached, exact>>

\* sync_review_stats, its query
SyncRead(g) ==
  /\ guest[g].at = "written"
  /\ guest' = [guest EXCEPT ![g] =
       [at |-> "counted", base |-> @.base, fresh |-> Counted(FALSE), alone |-> @.alone]]
  /\ UNCHANGED <<delivered, review, cached, exact>>

\* and its commit
SyncCommit(g) ==
  LET w == guest[g] IN
  /\ w.at = "counted"
  /\ cached' = [count |-> IF w.fresh.count = w.base.count THEN cached.count ELSE w.fresh.count,
                average |-> IF w.fresh.average = w.base.average THEN cached.average ELSE w.fresh.average]
  /\ guest' = Disturb(g, AtHome)
  /\ exact' = w.alone
  /\ UNCHANGED <<delivered, review>>

\* The process ends, before or after the review was committed; the restaurant
\* is suspended before its rating is counted.
GuestDies(g) ==
  /\ guest[g] # AtHome
  /\ guest' = [guest EXCEPT ![g] = AtHome]
  /\ UNCHANGED <<delivered, review, cached, exact>>

-----------------------------------------------------------------------------
(* Changes that count nothing *)

Unsynced ==
  /\ guest' = DisturbAll
  /\ exact' = FALSE
  /\ UNCHANGED <<delivered, cached>>

\* POST /reviews/customer/{restaurant_id}, of anybody, without an order
PostLegacy(s, rating) ==
  /\ s \in Extras /\ ~Present(s)
  /\ review' = [review EXCEPT ![s] = [rating |-> rating, shown |-> TRUE]]
  /\ Unsynced

Moderate(s, shown) ==
  /\ Present(s)
  /\ review' = [review EXCEPT ![s].shown = shown]
  /\ Unsynced

AdminDelete(s) ==
  /\ Present(s)
  /\ review' = [review EXCEPT ![s] = NoReview]
  /\ Unsynced

-----------------------------------------------------------------------------

RatingInit ==
  /\ delivered = {}
  /\ review = [s \in Reviews |-> NoReview]
  /\ cached = [count |-> 0, average |-> 0]
  /\ guest = [g \in Guests |-> AtHome]
  /\ exact = TRUE

RatingNext ==
  \/ \E s \in Sales : Deliver(s)
  \/ \E g \in Guests :
       \/ \E op \in GuestOps, s \in Reviews, rating \in Rates \cup {NoRating} : ReviewLoad(g, op, s, rating)
       \/ ReviewCommit(g) \/ SyncRead(g) \/ SyncCommit(g) \/ GuestDies(g)
  \/ \E s \in Reviews :
       \/ \E rating \in Rates : PostLegacy(s, rating)
       \/ \E shown \in BOOLEAN : Moderate(s, shown)
       \/ AdminDelete(s)

RatingSpec == RatingInit /\ [][RatingNext]_ratingVars

-----------------------------------------------------------------------------
(* Properties *)

\* A review that is written, edited or deleted while nobody else changes the
\* restaurant leaves its cached rating exact, and repairs what moderation and
\* the older endpoint left uncounted (sync_review_stats).
RatingRepaired == exact => cached = Counted(FALSE)
=============================================================================
