------------------------- MODULE CheckoutInvariant -------------------------
(***************************************************************************)
(* The inductive invariant of Checkout.  Three bounds rest on one          *)
(* argument: a request promises to add something (an order of a cart, an   *)
(* active cart, a verified payment) only after it has seen none, and until *)
(* it delivers it is one of the requests in flight; so what exists and     *)
(* what is promised never outnumber the requests together.  The exactness  *)
(* of an undisturbed checkout follows the copy of the cart from load to    *)
(* load: while nobody else writes, copy and database agree.                *)
(***************************************************************************)
EXTENDS Checkout

InCart == {"items", "pick", "update", "refresh", "again", "quote", "save", "place"}

CheckoutPoints == InCart \cup {"redeem"}

\* What a request has in hand at the point it has reached.
SessionOK(q) ==
  ~Free(q) =>
    LET s == sess[q] IN
    /\ s.pc \in InCart \/ (s.pc = "put" /\ s.kind = "add") =>
         s.cart \in Carts /\ cart[s.cart].status # "absent"
    /\ s.pc \in {"redeem", "call"} => s.order \in Orders /\ order[s.order].cart # NoCart
    /\ s.round > 1 => s.kind \in {"context", "checkout"}
    /\ s.round = 3 => s.kind = "checkout"
    /\ s.pc = "place" => s.round = 3
    /\ s.pc = "update" => s.kind \in {"context", "checkout"}
    /\ s.pc \in {"update", "quote", "save"} => s.round < 3
    /\ s.pc \in {"create", "pick"} => s.kind = "add"
    /\ s.pc = "find" => s.kind \in {"add", "set", "remove"}
    /\ s.pc = "put" => s.kind = "add" \/ (s.kind \in {"set", "remove"} /\ s.line # NoLine)
    /\ s.kind = "checkout" => s.pc \in CheckoutPoints
    /\ s.pc = "redeem" =>
         /\ s.order \notin redeemed
         /\ order[s.order].cols.coupon /\ order[s.order].cols.off

SessionsOK == \A q \in Requests : SessionOK(q)

\* Redemptions are of orders that got the discount.
RedeemedOK ==
  \A o \in redeemed : order[o].cart # NoCart /\ order[o].cols.coupon /\ order[o].cols.off

\* No two requests redeem the coupon for one order.
DistinctOrders ==
  \A p, q \in Requests :
    At(p, "redeem") /\ At(q, "redeem") /\ sess[p].order = sess[q].order => p = q

\* A checkout that will not look at the status of the cart again.
Placing(c) ==
  {q \in Requests : ~Free(q) /\ sess[q].cart = c /\ sess[q].round = 3
                     /\ sess[q].pc \in {"items", "place"}}
Creating(u) == {q \in Requests : At(q, "create") /\ sess[q].who = u}
Verifying(o) == {q \in Requests : At(q, "call") /\ sess[q].order = o}

OrdersPromised ==
  \A c \in Carts :
    /\ cart[c].status = "checked_out" <=> OrdersOf(c) # {}
    /\ Cardinality(OrdersOf(c)) + Cardinality(Placing(c)) <= Cardinality(Requests)

CartsPromised ==
  \A u \in Customers :
    Cardinality(ActiveCarts(u)) + Cardinality(Creating(u)) <= Cardinality(Requests)

PaymentsPromised ==
  \A o \in Orders :
    /\ order[o].paid <=> order[o].verified > 0
    /\ order[o].verified + Cardinality(Verifying(o)) <= Cardinality(Requests)

\* The copy of a checkout that nobody has disturbed.
CopyOK(s) ==
  LET goods == Contents(s.cart)
      cols == cart[s.cart].cols
  IN
  /\ ~(s.pc = "items" /\ s.round = 1) => goods # Nothing
  /\ s.pc \in {"update", "quote", "save", "place"} => s.goods = goods
  /\ s.pc # "refresh" => s.seen = cols
  /\ s.pc \notin {"refresh", "save"} => s.mine = cols
  /\ s.pc = "save" => s.mine = Priced(s.mine.coupon, goods)
  /\ s.round = 3 => cols = Priced(cols.coupon, goods)

CopiesOK ==
  \A q \in Requests :
    ~Free(q) /\ sess[q].kind = "checkout" /\ sess[q].pc # "redeem" /\ sess[q].alone =>
      CopyOK(sess[q])

CheckoutInv ==
  /\ TypeOK
  /\ SessionsOK
  /\ RedeemedOK
  /\ DistinctOrders
  /\ OrdersPromised
  /\ CartsPromised
  /\ PaymentsPromised
  /\ CouponSupply
  /\ CopiesOK
  /\ ExactWhenAlone
=============================================================================
