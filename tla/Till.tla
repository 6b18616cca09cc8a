-------------------------------- MODULE Till --------------------------------
(***************************************************************************)
(* What carts, checkout, coupon and payment promise, without requests and  *)
(* their copies: a till.                                                   *)
(*   - A basket is opened once; once it is sold it stays sold.             *)
(*   - A sale is of an opened basket, and what it charges never changes.   *)
(*   - A voucher has so many slots.  Each slip takes one, for a sale that  *)
(*     charges a reduced price, and at most one for each sale; when the    *)
(*     voucher is withdrawn its slips are gone, and no slip follows.       *)
(*   - Only a sale is settled, and it stays settled.                       *)
(* A basket may be sold more than once: how often, Checkout bounds.        *)
(* Checkout implements this till (CheckoutRefines).                        *)
(***************************************************************************)
EXTENDS Naturals

CONSTANTS Baskets, Sales, Unsold, Bills, Reduced, Slots

VARIABLES
  opened, sold,    \* baskets
  sale,            \* per sale: its basket and its bill
  slips, used,     \* the sales that have a slip; the slots that are taken
  withdrawn,
  settled          \* sales

tillVars == <<opened, sold, sale, slips, used, withdrawn, settled>>

TillInit ==
  /\ opened = {} /\ sold = {}
  /\ sale = [s \in Sales |-> Unsold]
  /\ slips = {} /\ used = 0 /\ withdrawn = FALSE
  /\ settled = {}

OpenBasket(b) ==
  /\ b \notin opened
  /\ opened' = opened \cup {b}
  /\ UNCHANGED <<sold, sale, slips, used, withdrawn, settled>>

Sell(s, b) ==
  /\ sale[s] = Unsold
  /\ b \in opened
  /\ sold' = sold \cup {b}
  /\ \E bill \in Bills : sale' = [sale EXCEPT ![s] = [basket |-> b, bill |-> bill]]
  /\ UNCHANGED <<opened, slips, used, withdrawn, settled>>

Slip(s) ==
  /\ sale[s] # Unsold
  /\ sale[s].bill \in Reduced
  /\ s \notin slips
  /\ ~withdrawn /\ used < Slots
  /\ slips' = slips \cup {s} /\ used' = used + 1
  /\ UNCHANGED <<opened, sold, sale, withdrawn, settled>>

Withdraw ==
  /\ ~withdrawn
  /\ withdrawn' = TRUE /\ slips' = {}
  /\ UNCHANGED <<opened, sold, sale, used, settled>>

Settle(s) ==
  /\ sale[s] # Unsold
  /\ settled' = settled \cup {s}
  /\ UNCHANGED <<opened, sold, sale, slips, used, withdrawn>>

TillNext ==
  \/ \E b \in Baskets : OpenBasket(b)
  \/ \E s \in Sales :
       \/ \E b \in Baskets : Sell(s, b)
       \/ Slip(s) \/ Settle(s)
  \/ Withdraw

TillSpec == TillInit /\ [][TillNext]_tillVars
=============================================================================
