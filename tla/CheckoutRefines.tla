--------------------------- MODULE CheckoutRefines ---------------------------
(***************************************************************************)
(* Checkout as a Till: a basket is a cart, a sale an order with the items  *)
(* and columns it was placed with, a slip a row of promotion_redemptions,  *)
(* and an order is settled when it is paid.                                *)
(***************************************************************************)
EXTENDS Checkout

OpenedOf == {c \in Carts : cart[c].status # "absent"}
SoldOf == {c \in Carts : cart[c].status = "checked_out"}

\* What an order charges, and whether a coupon has reduced it.
Bill == [goods : Goods, cols : Pricing]
ReducedBill == {b \in Bill : b.cols.coupon /\ b.cols.off}

NoSale == [basket |-> NoCart]
SaleOf ==
  [o \in Orders |-> IF order[o].cart = NoCart THEN NoSale
     ELSE [basket |-> order[o].cart, bill |-> [goods |-> order[o].goods, cols |-> order[o].cols]]]

\* The placed orders that are paid.
SettledOf == {o \in Orders : order[o].cart # NoCart /\ order[o].paid}

CouponTill == INSTANCE Till
  WITH Baskets <- Carts, Sales <- Orders, Unsold <- NoSale, Bills <- Bill, Reduced <- ReducedBill,
       Slots <- UsageLimit, opened <- OpenedOf, sold <- SoldOf, sale <- SaleOf,
       slips <- redeemed, used <- promo.used, withdrawn <- promo.status = "deleted",
       settled <- SettledOf

\* Every behaviour of the requests is a behaviour of the till: however loads
\* and commits of stale copies interleave, no cart is reopened, no placed order
\* is changed, a coupon is redeemed once for an order it reduced and never past
\* its limit or its deletion, and no payment is taken back.
IsATill == CouponTill!TillSpec
=============================================================================
