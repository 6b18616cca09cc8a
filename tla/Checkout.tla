------------------------------ MODULE Checkout ------------------------------
(***************************************************************************)
(* From the cart to the paid order: app/modules/carts, checkout_cart of    *)
(* app/modules/orders/service.py, the coupon engine of                     *)
(* app/modules/promotions and the verification of app/modules/payments.    *)
(*                                                                         *)
(* A request works on a copy of the cart: it loads the row, then its       *)
(* items, prices them, and writes back the columns it has changed.  Each   *)
(* action is one statement or one commit, and other requests run in        *)
(* between.  Prices are abstracted: a total is the quantities it was       *)
(* computed from and whether a coupon cut it.  There is one restaurant     *)
(* and one coupon; a customer and the restaurant are the key of a cart.    *)
(***************************************************************************)
EXTENDS Integers, FiniteSets

CONSTANTS
  Customers,
  Carts, NoCart,       \* cart ids; none yet
  Lines, NoLine,       \* ids of cart items; none
  Orders, NoOrder,     \* order ids; none yet
  MaxQuantity,         \* bound on the quantity of a cart item
  Benefit,             \* discount_type: "discount" or "free_delivery"
  UsageLimit,          \* usage_limit of the coupon
  PerUserLimit,        \* per_user_limit of the coupon
  Requests,            \* requests the processes serve at one time
  Work                 \* the requests that arrive: a bound of an instance

ASSUME NoneAssumption == NoCart \notin Carts /\ NoLine \notin Lines /\ NoOrder \notin Orders
ASSUME CustomersAssumption == Customers # {}
ASSUME QuantityAssumption == MaxQuantity \in Nat \ {0}
ASSUME BenefitAssumption == Benefit \in {"discount", "free_delivery"}
ASSUME LimitAssumption == UsageLimit \in Nat \ {0} /\ PerUserLimit \in Nat \ {0}
ASSUME FiniteAssumption == IsFiniteSet(Requests) /\ IsFiniteSet(Orders) /\ IsFiniteSet(Carts)

VARIABLES
  cart,      \* the rows of "carts"
  line,      \* the rows of "cart_items"
  order,     \* the rows of "orders", with their items and verified "payments"
  promo,     \* the row of the coupon in "promotions"
  redeemed,  \* the orders that have a row in "promotion_redemptions"
  sess       \* per request: where it is and the copy it works on

vars == <<cart, line, order, promo, redeemed, sess>>

Quantity == 0..MaxQuantity
Goods == [Lines -> Quantity]
Nothing == [l \in Lines |-> 0]

\* The columns a request writes back: coupon_code, coupon_discount # 0, total_amount.
Total == [goods : Goods, cut : BOOLEAN]
Columns == {"coupon", "off", "total"}
Pricing == [coupon : BOOLEAN, off : BOOLEAN, total : Total]
NewPricing == [coupon |-> FALSE, off |-> FALSE, total |-> [goods |-> Nothing, cut |-> FALSE]]

Cart == [status : {"absent", "active", "checked_out"}, owner : Customers, cols : Pricing]
NoRow == [status |-> "absent", owner |-> CHOOSE u \in Customers : TRUE, cols |-> NewPricing]

\* A line without a cart is an id not handed out, one with quantity 0 is deleted.
Line == [cart : Carts \cup {NoCart}, qty : Quantity]

Order ==
  [cart : Carts \cup {NoCart}, goods : Goods, cols : Pricing, alone : BOOLEAN,
   paid : BOOLEAN, verified : Nat]
NotPlaced ==
  [cart |-> NoCart, goods |-> Nothing, cols |-> NewPricing, alone |-> FALSE,
   paid |-> FALSE, verified |-> 0]

Promotion == [status : {"active", "inactive", "deleted"}, used : Nat]

\* "round" counts the times the request has loaded its cart; "seen" are the
\* columns as loaded, "mine" as the request has set them, "goods" the items as
\* loaded; "want" is the coupon the request asks for; "alone" is history: nobody
\* else has written the cart, or its items, since the request loaded it.
Kinds == {"view", "context", "checkout", "add", "set", "remove", "verify"}
Session ==
  [kind : Kinds,
   pc : {"create", "find", "items", "pick", "put", "update", "refresh", "again",
         "quote", "save", "place", "redeem", "call"},
   round : 1..3, who : Customers, cart : Carts \cup {NoCart}, seen : Pricing,
   mine : Pricing, goods : Goods, alone : BOOLEAN, want : {"keep", "code", "none"},
   line : Lines \cup {NoLine}, qty : Quantity, order : Orders \cup {NoOrder}]

Idle == [kind |-> "idle"]

TypeOK ==
  /\ cart \in [Carts -> Cart]
  /\ line \in [Lines -> Line]
  /\ order \in [Orders -> Order]
  /\ promo \in Promotion
  /\ redeemed \subseteq Orders
  /\ sess \in [Requests -> Session \cup {Idle}]

Free(q) == sess[q] = Idle
End(q) == sess' = [sess EXCEPT ![q] = Idle]
At(q, pc) == ~Free(q) /\ sess[q].pc = pc
Goto(q, pc) == sess' = [sess EXCEPT ![q].pc = pc]

\* A session that has just loaded the columns of a cart.
Loaded(kind, pc, c, want) ==
  [kind |-> kind, pc |-> pc, round |-> 1, who |-> cart[c].owner, cart |-> c,
   seen |-> cart[c].cols, mine |-> cart[c].cols, goods |-> Nothing, alone |-> TRUE, want |-> want,
   line |-> NoLine, qty |-> 0, order |-> NoOrder]

\* A session that has not loaded a cart.
Started(kind, pc, u) ==
  [kind |-> kind, pc |-> pc, round |-> 1, who |-> u, cart |-> NoCart,
   seen |-> NewPricing, mine |-> NewPricing, goods |-> Nothing, alone |-> TRUE, want |-> "keep",
   line |-> NoLine, qty |-> 0, order |-> NoOrder]

\* A request between a commit and its next load has no use for its copy.
Reloading(s, round) ==
  [s EXCEPT !.pc = "refresh", !.round = round, !.want = "keep",
            !.goods = Nothing, !.seen = NewPricing, !.mine = NewPricing]

\* A request that goes on as s after a write to a cart or its items: the others
\* that have loaded the cart are alone with it no longer.
Wrote(q, c, s) ==
  sess' = [p \in Requests |->
             IF p = q THEN s
             ELSE IF ~Free(p) /\ sess[p].cart = c THEN [sess[p] EXCEPT !.alone = FALSE]
             ELSE sess[p]]

Active(c) == cart[c].status = "active"
ActiveCarts(u) == {c \in Carts : Active(c) /\ cart[c].owner = u}
Contents(c) == [l \in Lines |-> IF line[l].cart = c THEN line[l].qty ELSE 0]
OrdersOf(c) == {o \in Orders : order[o].cart = c}

-----------------------------------------------------------------------------
(* Loading a cart *)

\* get_active_cart, _get_checkout_cart: the row, if it is active.
Open(q, kind, c, want) ==
  /\ Free(q)
  /\ Active(c)
  /\ sess' = [sess EXCEPT ![q] = Loaded(kind, "items", c, want)]
  /\ UNCHANGED <<cart, line, order, promo, redeemed>>

\* GET, apply_coupon and remove_coupon of CartService.
View(q, c, want) == Open(q, "view", c, want)
UpdateContext(q, c) == Open(q, "context", c, "keep")
AddItem(q, c) == Open(q, "add", c, "keep")
CheckoutCart(q, c, want) == Open(q, "checkout", c, want)

\* Where the request goes with its items.
WithItems(s) ==
  CASE s.round = 3 -> "place"
    [] s.kind = "add" -> "pick"
    [] s.round = 1 /\ s.kind \in {"context", "checkout"} -> "update"
    [] OTHER -> "quote"

LoadItemsUnchecked(q) ==
  LET s == sess[q] IN
  /\ At(q, "items")
  /\ sess' = [sess EXCEPT ![q].goods = Contents(s.cart), ![q].pc = WithItems(s)]
  /\ UNCHANGED <<cart, line, order, promo, redeemed>>

\* The items of the cart: the second statement of the load.  Checkout refuses
\* an empty cart the first time, and does not look again.
LoadItems(q) ==
  LET s == sess[q]
      goods == Contents(s.cart)
  IN
  /\ At(q, "items")
  /\ IF s.kind = "checkout" /\ s.round = 1 /\ goods = Nothing
       THEN End(q)
       ELSE sess' = [sess EXCEPT ![q].goods = goods, ![q].pc = WithItems(s)]
  /\ UNCHANGED <<cart, line, order, promo, redeemed>>

\* session.refresh(cart) after a commit.
Refresh(q) ==
  LET cols == cart[sess[q].cart].cols IN
  /\ At(q, "refresh")
  /\ sess' = [sess EXCEPT ![q].seen = cols, ![q].mine = cols, ![q].pc = "again"]
  /\ UNCHANGED <<cart, line, order, promo, redeemed>>

\* The cart is selected again, if it is still active.  Its columns are not
\* read again, and add_item_to_cart keeps the items it had.
Reload(q) ==
  /\ At(q, "again")
  /\ IF Active(sess[q].cart)
       THEN Goto(q, IF sess[q].kind = "add" THEN "quote" ELSE "items")
       ELSE End(q)
  /\ UNCHANGED <<cart, line, order, promo, redeemed>>

-----------------------------------------------------------------------------
(* The items of the cart *)

AddFirstUnchecked(q, u) ==
  /\ Free(q)
  /\ sess' = [sess EXCEPT ![q] = Started("add", "create", u)]
  /\ UNCHANGED <<cart, line, order, promo, redeemed>>

\* add_item_to_cart finds no active cart, and creates one.
AddFirst(q, u) ==
  /\ Free(q)
  /\ ActiveCarts(u) = {}
  /\ sess' = [sess EXCEPT ![q] = Started("add", "create", u)]
  /\ UNCHANGED <<cart, line, order, promo, redeemed>>

CreateCart(q) ==
  /\ At(q, "create")
  /\ \E c \in Carts :
       /\ cart[c].status = "absent"
       /\ cart' = [cart EXCEPT ![c] = [status |-> "active", owner |-> sess[q].who,
                                       cols |-> NewPricing]]
  /\ Goto(q, "find")
  /\ UNCHANGED <<line, order, promo, redeemed>>

\* get_active_cart for what follows a write: any active cart of the customer.
Find(q) ==
  LET s == sess[q] IN
  /\ At(q, "find")
  /\ IF ActiveCarts(s.who) = {}
       THEN End(q)
       ELSE \E c \in ActiveCarts(s.who) :
              sess' = [sess EXCEPT ![q] = Loaded(s.kind, "items", c, "keep")]
  /\ UNCHANGED <<cart, line, order, promo, redeemed>>

\* The quantity of a row as the request knows it: from its copy, if that has the row.
Known(q, l) == IF sess[q].goods[l] > 0 THEN sess[q].goods[l] ELSE line[l].qty
Choose(q, l, n) ==
  sess' = [sess EXCEPT ![q] = [sess[q] EXCEPT !.line = l, !.qty = n, !.pc = "put"]]

\* CartRepository.add_item: a row with the same selections is increased, or a
\* row is inserted.
PickLine(q) ==
  /\ At(q, "pick")
  /\ \/ \E l \in Lines, n \in 1..MaxQuantity :
          /\ Contents(sess[q].cart)[l] > 0
          /\ Known(q, l) + n <= MaxQuantity
          /\ Choose(q, l, Known(q, l) + n)
     \/ \E n \in 1..MaxQuantity : Choose(q, NoLine, n)
  /\ UNCHANGED <<cart, line, order, promo, redeemed>>

\* update_item_quantity and remove_item select the row through its active cart.
SelectItem(q, l, n) ==
  /\ Free(q)
  /\ line[l].cart # NoCart
  /\ line[l].qty \notin {0, n}
  /\ Active(line[l].cart)
  /\ sess' = [sess EXCEPT ![q] =
       [Started(IF n = 0 THEN "remove" ELSE "set", "put", cart[line[l].cart].owner)
          EXCEPT !.line = l, !.qty = n]]
  /\ UNCHANGED <<cart, line, order, promo, redeemed>>

\* The commit of a new item, whose list in the copy is not loaded again.
InsertItem(q) ==
  LET s == sess[q] IN
  /\ At(q, "put")
  /\ s.line = NoLine
  /\ \E l \in Lines :
       /\ line[l].cart = NoCart
       /\ line' = [line EXCEPT ![l] = [cart |-> s.cart, qty |-> s.qty]]
  /\ Wrote(q, s.cart, [s EXCEPT !.pc = "again", !.qty = 0])
  /\ UNCHANGED <<cart, order, promo, redeemed>>

\* The commit of a quantity, 0 for a deletion.  A row that is gone fails an
\* update, and nothing is left to delete.
ChangeItem(q) ==
  LET s == sess[q]
      next == IF s.kind # "add" THEN Started(s.kind, "find", s.who)
              ELSE [s EXCEPT !.pc = "again", !.line = NoLine, !.qty = 0,
                             !.goods[s.line] = IF @ > 0 THEN s.qty ELSE 0]
  IN
  /\ At(q, "put")
  /\ s.line # NoLine
  /\ IF line[s.line].qty = 0
       THEN /\ sess' = [sess EXCEPT ![q] = IF s.kind = "remove" THEN next ELSE Idle]
            /\ UNCHANGED line
       ELSE /\ line' = [line EXCEPT ![s.line].qty = s.qty]
            /\ Wrote(q, line[s.line].cart, next)
  /\ UNCHANGED <<cart, order, promo, redeemed>>

-----------------------------------------------------------------------------
(* Prices *)

\* quote_discount: the promotion, its limit, and the customer's redemptions.
Redemptions(u) == {o \in redeemed : cart[order[o].cart].owner = u}
Quotable(u) ==
  /\ promo.status = "active"
  /\ promo.used < UsageLimit
  /\ Cardinality(Redemptions(u)) < PerUserLimit

\* A discount is cut off at the price of the items.
Priced(coupon, goods) ==
  LET cut == coupon /\ (Benefit = "free_delivery" \/ goods # Nothing) IN
  [coupon |-> coupon, off |-> cut /\ Benefit = "discount",
   total |-> [goods |-> goods, cut |-> cut]]

StaleRecalculate(q) ==
  /\ At(q, "quote")
  /\ Goto(q, "save")
  /\ UNCHANGED <<cart, line, order, promo, redeemed>>

\* _recalculate_cart_totals on the copy; apply_coupon and remove_coupon have
\* set its coupon.  A coupon that cannot be quoted ends the request.
Recalculate(q) ==
  LET s == sess[q]
      coupon == IF s.kind = "view" /\ s.want # "keep" THEN s.want = "code"
                ELSE s.mine.coupon
  IN
  /\ At(q, "quote")
  /\ IF coupon /\ ~Quotable(s.who)
       THEN End(q)
       ELSE sess' = [sess EXCEPT ![q].mine = Priced(coupon, s.goods), ![q].pc = "save"]
  /\ UNCHANGED <<cart, line, order, promo, redeemed>>

\* CartRepository.update_cart_context: the columns that differ from what was
\* loaded are written, whatever the status of the cart.
Written(c, mine, seen) ==
  [cart[c].cols EXCEPT
     !.coupon = IF mine.coupon = seen.coupon THEN @ ELSE mine.coupon,
     !.off = IF mine.off = seen.off THEN @ ELSE mine.off,
     !.total = IF mine.total = seen.total THEN @ ELSE mine.total]

Write(q, mine, next) ==
  LET s == sess[q] IN
  /\ cart' = [cart EXCEPT ![s.cart].cols = Written(s.cart, mine, s.seen)]
  /\ IF mine = s.seen THEN sess' = [sess EXCEPT ![q] = next] ELSE Wrote(q, s.cart, next)
  /\ UNCHANGED <<line, order, promo, redeemed>>

\* The first write of checkout and of update_cart_context.
UpdateCart(q) ==
  LET s == sess[q] IN
  /\ At(q, "update")
  /\ Write(q, IF s.want = "keep" THEN s.mine ELSE [s.mine EXCEPT !.coupon = s.want = "code"],
           Reloading(s, 2))

\* The totals.  What follows in CartService (another load, a response) writes nothing.
SaveTotals(q) ==
  LET s == sess[q] IN
  /\ At(q, "save")
  /\ Write(q, s.mine,
           IF s.kind = "checkout" THEN Reloading(s, 3) ELSE Idle)

-----------------------------------------------------------------------------
(* The order *)

PlaceOrderOnly(q) ==
  LET s == sess[q] IN
  /\ At(q, "place")
  /\ \E o \in Orders :
       /\ order[o].cart = NoCart
       /\ order' = [order EXCEPT ![o] =
            [cart |-> s.cart, goods |-> s.goods, cols |-> s.mine, alone |-> s.alone,
             paid |-> FALSE, verified |-> 0]]
       /\ Wrote(q, s.cart, IF s.mine.coupon /\ s.mine.off
                             THEN [Started("checkout", "redeem", s.who) EXCEPT !.order = o]
                             ELSE Idle)
  /\ UNCHANGED <<cart, line, promo, redeemed>>

\* create_order_from_cart: the order with its items, and the cart checked out,
\* in one commit.  The cart's status is not part of the UPDATE's condition.
PlaceOrder(q) ==
  LET s == sess[q] IN
  /\ At(q, "place")
  /\ \E o \in Orders :
       /\ order[o].cart = NoCart
       /\ order' = [order EXCEPT ![o] =
            [cart |-> s.cart, goods |-> s.goods, cols |-> s.mine, alone |-> s.alone,
             paid |-> FALSE, verified |-> 0]]
       /\ Wrote(q, s.cart, IF s.mine.coupon /\ s.mine.off
                             THEN [Started("checkout", "redeem", s.who) EXCEPT !.order = o]
                             ELSE Idle)
  /\ cart' = [cart EXCEPT ![s.cart].status = "checked_out"]
  /\ UNCHANGED <<line, promo, redeemed>>

RedeemUnchecked(q) ==
  /\ At(q, "redeem")
  /\ promo' = [promo EXCEPT !.used = @ + 1]
  /\ redeemed' = redeemed \cup {sess[q].order}
  /\ End(q)
  /\ UNCHANGED <<cart, line, order>>

\* redeem: the claim of a usage slot locks the row of the promotion, so that the
\* claim, the redemption and the later commit that keeps them are one step; when
\* that commit does not come, the request aborts here.  A lost claim is
\* swallowed.
Redeem(q) ==
  /\ At(q, "redeem")
  /\ IF promo.status # "deleted" /\ promo.used < UsageLimit
       THEN /\ promo' = [promo EXCEPT !.used = @ + 1]
            /\ redeemed' = redeemed \cup {sess[q].order}
       ELSE UNCHANGED <<promo, redeemed>>
  /\ End(q)
  /\ UNCHANGED <<cart, line, order>>

\* update_promotion (is_active) and delete_promotion, whose redemptions go with it.
EditPromotion ==
  /\ promo.status # "deleted"
  /\ \E status \in {"active", "inactive"} : promo' = [promo EXCEPT !.status = status]
  /\ UNCHANGED <<cart, line, order, redeemed, sess>>

DeletePromotion ==
  /\ promo.status # "deleted"
  /\ promo' = [promo EXCEPT !.status = "deleted"]
  /\ redeemed' = {}
  /\ UNCHANGED <<cart, line, order, sess>>

-----------------------------------------------------------------------------
(* The payment *)

VerifyAgain(q, o) ==
  /\ Free(q)
  /\ order[o].cart # NoCart
  /\ sess' = [sess EXCEPT ![q] =
       [Started("verify", "call", cart[order[o].cart].owner) EXCEPT !.order = o]]
  /\ UNCHANGED <<cart, line, order, promo, redeemed>>

\* verify_esewa_payment: an order that is paid has its payment returned;
\* otherwise a payment is inserted, not committed, and the provider is asked.
Verify(q, o) ==
  /\ Free(q)
  /\ order[o].cart # NoCart
  /\ ~order[o].paid
  /\ sess' = [sess EXCEPT ![q] =
       [Started("verify", "call", cart[order[o].cart].owner) EXCEPT !.order = o]]
  /\ UNCHANGED <<cart, line, order, promo, redeemed>>

\* The provider confirms: payment and order in one commit.  After any other
\* answer the payment is committed as failed, which nothing reads: Abort.
Verified(q) ==
  /\ At(q, "call")
  /\ order' = [order EXCEPT ![sess[q].order].paid = TRUE, ![sess[q].order].verified = @ + 1]
  /\ End(q)
  /\ UNCHANGED <<cart, line, promo, redeemed>>

\* The process dies, or the request ends with an error: what is not committed is gone.
Abort(q) ==
  /\ ~Free(q)
  /\ End(q)
  /\ UNCHANGED <<cart, line, order, promo, redeemed>>

-----------------------------------------------------------------------------
Init ==
  /\ cart = [c \in Carts |-> NoRow]
  /\ line = [l \in Lines |-> [cart |-> NoCart, qty |-> 0]]
  /\ order = [o \in Orders |-> NotPlaced]
  /\ promo = [status |-> "active", used |-> 0]
  /\ redeemed = {}
  /\ sess = [q \in Requests |-> Idle]

Arrive(q) ==
  \/ "add" \in Work /\ (\E u \in Customers : AddFirst(q, u))
  \/ "add" \in Work /\ (\E c \in Carts : AddItem(q, c))
  \/ "context" \in Work /\ (\E c \in Carts : UpdateContext(q, c))
  \/ "view" \in Work /\ (\E c \in Carts, want \in {"keep", "code", "none"} : View(q, c, want))
  \/ "checkout" \in Work /\ (\E c \in Carts, want \in {"keep", "code", "none"} : CheckoutCart(q, c, want))
  \/ "set" \in Work /\ (\E l \in Lines, n \in Quantity : SelectItem(q, l, n))
  \/ "verify" \in Work /\ (\E o \in Orders : Verify(q, o))

Continue(q) ==
  \/ LoadItems(q) \/ Refresh(q) \/ Reload(q)
  \/ CreateCart(q) \/ Find(q) \/ PickLine(q) \/ InsertItem(q) \/ ChangeItem(q)
  \/ Recalculate(q) \/ UpdateCart(q) \/ SaveTotals(q)
  \/ PlaceOrder(q) \/ Redeem(q) \/ Verified(q)

Next ==
  \/ \E q \in Requests : Arrive(q) \/ Continue(q) \/ Abort(q)
  \/ "promotion" \in Work /\ (EditPromotion \/ DeletePromotion)

Spec == Init /\ [][Next]_vars

-----------------------------------------------------------------------------
(* What holds *)

\* A cart is checked out exactly when an order was made from it, and although
\* the UPDATE that checks it out asks for no status, it gives no more orders
\* than there are requests served at a time: a checkout that starts later finds
\* the cart closed.
OrdersBounded ==
  \A c \in Carts :
    /\ cart[c].status = "checked_out" <=> OrdersOf(c) # {}
    /\ Cardinality(OrdersOf(c)) <= Cardinality(Requests)

\* No unique constraint keeps a customer from having two active carts of a
\* restaurant; but there are no more than requests served at a time.
ActiveCartsBounded ==
  \A u \in Customers : Cardinality(ActiveCarts(u)) <= Cardinality(Requests)

\* The counter of the coupon is the number of its redemptions, each of an order
\* that got the discount, and keeps to usage_limit, however checkouts overlap,
\* fail or lose the race for the last slot.
CouponSupply ==
  promo.status # "deleted" =>
    /\ promo.used = Cardinality(redeemed) /\ promo.used <= UsageLimit
    /\ \A o \in redeemed : order[o].cart # NoCart /\ order[o].cols.coupon /\ order[o].cols.off

\* An order is paid when a verified payment is on record and only then, and
\* overlapping verifications record no more of them than there are requests.
PaymentsBounded ==
  \A o \in Orders :
    /\ order[o].paid <=> order[o].verified > 0
    /\ order[o].verified <= Cardinality(Requests)

\* A checkout that nobody else interfered with orders what it charges for: the
\* total is that of the items of the order and of the coupon it names, although
\* items, columns and prices come from three different loads of the cart.
ExactWhenAlone ==
  \A o \in Orders :
    order[o].alone =>
      /\ order[o].goods # Nothing
      /\ order[o].cols = Priced(order[o].cols.coupon, order[o].goods)

\* promotions/models.py:48, "One row per successful use of a promotion on a
\* placed order": an order whose total a coupon cut has its redemption, unless
\* the request is still on its way there.
OneRowPerUse ==
  \A o \in Orders :
    order[o].cart # NoCart /\ order[o].cols.total.cut =>
      \/ o \in redeemed
      \/ promo.status = "deleted"
      \/ \E q \in Requests : At(q, "redeem") /\ sess[q].order = o
=============================================================================
