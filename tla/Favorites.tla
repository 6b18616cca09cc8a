------------------------------ MODULE Favorites ------------------------------
(***************************************************************************)
(* What customers have on their wishlist, and the counter of each menu     *)
(* item that ranks it in the lists of the catalog:                         *)
(* app/modules/favorites/api.py and repository.py.                         *)
(*                                                                         *)
(* A request looks for the customer's row, then writes.  Adding is caught  *)
(* by a unique key; removing is by the row's id, and a row that is already *)
(* gone only makes the database layer warn.                                *)
(***************************************************************************)
EXTENDS Integers, FiniteSets

CONSTANTS
  Fans,         \* customers
  Hearted,      \* menu items; each has a counter
  Houses,       \* restaurants; they have none
  MaxHearts,      \* bound on the rows that are ever made for one customer and thing
  Taps          \* requests that are served at one time

ASSUME HeartedAssumption == IsFiniteSet(Fans) /\ Hearted \cap Houses = {}
ASSUME MaxHeartsAssumption == MaxHearts \in Nat

VARIABLES
  row,              \* the row of each customer and thing, 0 when there is none
  made,             \* rows made so far
  favorite_count,   \* of each menu item
  tap,              \* per request: what it does and the row it has found
  gone              \* history: removals of a menu item that found the row gone

favoriteVars == <<row, made, favorite_count, tap, gone>>

Things == Hearted \cup Houses
HeartIds == 0..MaxHearts
Tap == [op : {"add", "remove"}, fan : Fans, thing : Things, row : HeartIds]

FavoriteTypeOK ==
  /\ row \in [Fans \X Things -> HeartIds] /\ made \in [Fans \X Things -> HeartIds]
  /\ favorite_count \in [Hearted -> Nat]
  /\ DOMAIN tap \subseteq Taps /\ \A h \in DOMAIN tap : tap[h] \in Tap
  /\ gone \in [Hearted -> Nat]

\* list_favorites
Wishlist(f) ==
  [restaurant_ids |-> {t \in Houses : row[<<f, t>>] # 0},
   menu_item_ids  |-> {t \in Hearted : row[<<f, t>>] # 0}]

Hearts(t) == Cardinality({f \in Fans : t \in Wishlist(f).menu_item_ids})

Tapped(h) == tap' = [g \in DOMAIN tap \ {h} |-> tap[g]]

\* The counter moves in the statement itself, from the value of the moment.
CounterMoves(t, by) ==
  favorite_count' = IF t \in Hearted THEN [favorite_count EXCEPT ![t] = @ + by] ELSE favorite_count

-----------------------------------------------------------------------------
\* favorite_*: a row that is there is the answer.  unfavorite_*: no row, nothing
\* to do.  Otherwise the request goes on to write.
FindHeart(h, f, t, op) ==
  /\ h \notin DOMAIN tap
  /\ (row[<<f, t>>] = 0) <=> (op = "add")
  /\ op = "add" => made[<<f, t>>] < MaxHearts
  /\ tap' = [g \in DOMAIN tap \cup {h} |-> IF g = h
       THEN [op |-> op, fan |-> f, thing |-> t, row |-> row[<<f, t>>]] ELSE tap[g]]
  /\ UNCHANGED <<row, made, favorite_count, gone>>

\* The row and the counter are written in one commit.
HeartCommit(h) ==
  LET p == <<tap[h].fan, tap[h].thing>> IN
  /\ tap[h].op = "add" /\ row[p] = 0 /\ made[p] < MaxHearts
  /\ made' = [made EXCEPT ![p] = @ + 1]
  /\ row' = [row EXCEPT ![p] = made[p] + 1]
  /\ CounterMoves(tap[h].thing, 1)
  /\ Tapped(h)
  /\ UNCHANGED gone

\* The unique key refuses a second row and with it the whole commit.
HeartClash(h) ==
  /\ tap[h].op = "add" /\ row[<<tap[h].fan, tap[h].thing>>] # 0
  /\ Tapped(h)
  /\ UNCHANGED <<row, made, favorite_count, gone>>

UnheartUncounted(h) ==
  LET p == <<tap[h].fan, tap[h].thing>> t == tap[h].thing IN
  /\ tap[h].op = "remove"
  /\ row' = [row EXCEPT ![p] = IF @ = tap[h].row THEN 0 ELSE @]
  /\ CounterMoves(t, 0)
  /\ Tapped(h)
  /\ UNCHANGED <<made, gone>>

\* The counter goes down, never below zero, whether or not the row was there.
UnheartCommit(h) ==
  LET p == <<tap[h].fan, tap[h].thing>> t == tap[h].thing IN
  /\ tap[h].op = "remove"
  /\ row' = [row EXCEPT ![p] = IF @ = tap[h].row THEN 0 ELSE @]
  /\ CounterMoves(t, IF t \in Hearted /\ favorite_count[t] > 0 THEN -1 ELSE 0)
  /\ gone' = IF t \in Hearted /\ row[p] # tap[h].row THEN [gone EXCEPT ![t] = @ + 1] ELSE gone
  /\ Tapped(h)
  /\ UNCHANGED made

-----------------------------------------------------------------------------
FavoriteInit ==
  /\ row = [p \in Fans \X Things |-> 0] /\ made = row
  /\ favorite_count = [t \in Hearted |-> 0]
  /\ tap = <<>> /\ gone = [t \in Hearted |-> 0]

FavoriteNext ==
  \/ \E h \in Taps, f \in Fans, t \in Things, op \in {"add", "remove"} : FindHeart(h, f, t, op)
  \/ \E h \in DOMAIN tap : HeartCommit(h) \/ HeartClash(h) \/ UnheartCommit(h)

FavoriteSpec == FavoriteInit /\ [][FavoriteNext]_favoriteVars

-----------------------------------------------------------------------------
\* The counter of a menu item never claims a heart that no wishlist has, and it
\* misses at most as many as removals found their row already removed: two
\* overlapping removals of one row take two hearts off.
HeartsCounted ==
  \A t \in Hearted :
    /\ favorite_count[t] <= Hearts(t)
    /\ favorite_count[t] >= Hearts(t) - gone[t]
=============================================================================
