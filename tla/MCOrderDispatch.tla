-------------------------- MODULE MCOrderDispatch --------------------------
(* Instances of OrderDispatch for TLC. *)
EXTENDS OrderDispatchInvariant, OrderViews, TLC

CONSTANTS o1, r1, r2, r3, q1, q2

\* Requests are interchangeable; orders and riders are not (tier, policy).
SlotSymmetry == Permutations(Requests)

MCPrivateAndPlatform == r1 :> "rider_private" @@ r2 :> "platform"
MCPrivateTeam == r1 :> "rider_private" @@ r2 :> "rider_private" @@ r3 :> "platform"

\* A request that is past its read steps can be told from another one only by
\* the columns its remaining steps read or write: states that differ in the
\* other columns of a snapshot have the same future.
Keep(row, cols) == [c \in DOMAIN row |-> IF c \in cols THEN row[c] ELSE AbsentRow[c]]
Needed(s) ==
  CASE s.pc \in {"accept", "claim"} -> {"status", "stamps"}
    [] s.pc = "pickup" -> {}
    [] s.pc \in {"deliver", "event"} -> {"status"}
    [] s.pc = "complete" -> {}
    [] s.pc = "update" /\ s.mine.status # "preparing" -> {"status"}
    [] s.pc = "assign" -> {"state", "round"}
    [] OTHER -> {"status", "state", "round", "rider_user_id"}
Seen(s) ==
  IF s = Idle THEN s
  ELSE [s EXCEPT !.base = Keep(@, Needed(s)), !.mine = Keep(@, Needed(s))]
View == <<order, offer, audit, settled, credits, [q \in Requests |-> Seen(sess[q])]>>
=============================================================================
