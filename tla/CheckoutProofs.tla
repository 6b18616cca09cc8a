--------------------------- MODULE CheckoutProofs ---------------------------
(***************************************************************************)
(* Proofs about Checkout, for every number of customers, carts, items,     *)
(* orders and requests: carts, orders and payments never outnumber the     *)
(* requests that overlap, the counter of the coupon is right, and an       *)
(* undisturbed checkout charges for exactly what it orders.                *)
(***************************************************************************)
EXTENDS CheckoutInvariant, CheckoutRefines, FiniteSetTheorems, TLAPS

-----------------------------------------------------------------------------
(* Types *)

LEMMA NothingType == Nothing \in Goods
BY QuantityAssumption DEF Nothing, Goods, Quantity

LEMMA NewPricingType == NewPricing \in Pricing
BY NothingType DEF NewPricing, Pricing, Total

LEMMA InitTypes == Init => TypeOK
<1> SUFFICES ASSUME Init PROVE TypeOK
  OBVIOUS
<1>1. cart \in [Carts -> Cart]
  BY NewPricingType, CustomersAssumption DEF Init, Cart, NoRow
<1>2. line \in [Lines -> Line]
  BY QuantityAssumption DEF Init, Line, Quantity
<1>3. order \in [Orders -> Order]
  BY NewPricingType, NothingType DEF Init, Order, NotPlaced
<1> QED
  BY <1>1, <1>2, <1>3 DEF Init, TypeOK, Promotion

LEMMA ContentsType ==
  ASSUME TypeOK, NEW c
  PROVE  Contents(c) \in Goods
BY QuantityAssumption DEF TypeOK, Contents, Goods, Line, Quantity

LEMMA LoadedType ==
  ASSUME TypeOK, NEW kind \in Kinds, NEW c \in Carts, NEW want \in {"keep", "code", "none"}
  PROVE  Loaded(kind, "items", c, want) \in Session
BY NothingType, QuantityAssumption DEF TypeOK, Loaded, Session, Cart, Quantity

LEMMA StartedType ==
  ASSUME NEW kind \in Kinds, NEW u \in Customers,
         NEW pc \in {"create", "find", "put", "redeem", "call"}
  PROVE  Started(kind, pc, u) \in Session
BY NothingType, NewPricingType, QuantityAssumption DEF Started, Session, Quantity

LEMMA PricedType ==
  ASSUME NEW coupon \in BOOLEAN, NEW goods \in Goods
  PROVE  Priced(coupon, goods) \in Pricing
BY DEF Priced, Pricing, Total

LEMMA WrittenType ==
  ASSUME TypeOK, NEW c \in Carts, NEW mine \in Pricing, NEW seen \in Pricing
  PROVE  Written(c, mine, seen) \in Pricing
BY DEF TypeOK, Written, Pricing, Cart

\* A request in flight has a session.
LEMMA Busy ==
  ASSUME TypeOK, NEW q \in Requests, ~Free(q)
  PROVE  sess[q] \in Session
BY DEF TypeOK, Free

\* A write leaves every request a session of its own.
LEMMA WroteType ==
  ASSUME TypeOK, NEW q \in Requests, NEW c, NEW s \in Session \cup {Idle}, Wrote(q, c, s)
  PROVE  sess' \in [Requests -> Session \cup {Idle}]
<1>1. ASSUME NEW t \in Session PROVE [t EXCEPT !.alone = FALSE] \in Session
  BY DEF Session
<1>2. ASSUME NEW p \in Requests, ~Free(p)
      PROVE  [sess[p] EXCEPT !.alone = FALSE] \in Session
  BY <1>1, <1>2, Busy
<1> QED
  BY <1>2 DEF Wrote, TypeOK

\* Where the change of an item leaves a request.
LEMMA ChangeFields ==
  ASSUME TypeOK, NEW q \in Requests, ChangeItem(q), sess'[q] # Idle
  PROVE  LET s == sess[q]
             t == sess'[q]
         IN
         /\ t.kind = s.kind
         /\ s.kind = "add" => t.pc = "again" /\ t.round = s.round /\ t.cart = s.cart
         /\ s.kind # "add" => t.pc = "find" /\ t.round = 1
<1> DEFINE s == sess[q]
           t == sess'[q]
           goods == [s.goods EXCEPT ![s.line] = IF @ > 0 THEN s.qty ELSE 0]
<1>1. s \in Session /\ sess \in [Requests -> Session \cup {Idle}]
  BY Busy DEF ChangeItem, At, TypeOK
<1>2. CASE s.kind = "add"
  <2>1. t = [s EXCEPT !.pc = "again", !.line = NoLine, !.qty = 0,
                      !.goods[s.line] = IF @ > 0 THEN s.qty ELSE 0]
    BY <1>1, <1>2 DEF ChangeItem, Wrote
  <2>2. t = [s EXCEPT !.pc = "again", !.line = NoLine, !.qty = 0, !.goods = goods]
    BY <1>1, <2>1 DEF Session
  <2>3. s \in Session
    BY <1>1
  <2> HIDE DEF s, t, goods
  <2>4. t.kind = s.kind /\ t.pc = "again" /\ t.round = s.round /\ t.cart = s.cart
    BY <2>2, <2>3 DEF Session
  <2> QED
    BY <1>2, <2>4 DEF s, t
<1>3. CASE s.kind # "add"
  <2>1. t = Started(s.kind, "find", s.who)
    BY <1>1, <1>3 DEF ChangeItem, Wrote
  <2> QED
    BY <1>3, <2>1 DEF Started
<1> QED
  BY <1>2, <1>3

\* The steps of a request that change nothing but its session.
LEMMA SessionTypes ==
  ASSUME TypeOK, SessionsOK, NEW q \in Requests,
         UNCHANGED <<cart, line, order, promo, redeemed>>,
         \/ LoadItems(q) \/ Refresh(q) \/ Reload(q) \/ Find(q) \/ PickLine(q)
         \/ Recalculate(q) \/ Abort(q)
  PROVE  TypeOK'
<1> DEFINE s == sess[q]
<1>1. SUFFICES sess' \in [Requests -> Session \cup {Idle}]
  BY <1>1 DEF TypeOK
<1>2. sess \in [Requests -> Session \cup {Idle}]
  BY DEF TypeOK
<1>3. CASE LoadItems(q)
  <2>1. s \in Session
    BY <1>3, Busy DEF LoadItems, At
  <2>2. WithItems(s) \in {"place", "pick", "update", "quote"}
    BY DEF WithItems
  <2>3. [s EXCEPT !.goods = Contents(s.cart), !.pc = WithItems(s)] \in Session
    BY <2>1, <2>2, ContentsType DEF Session
  <2> QED
    BY <1>2, <1>3, <2>3 DEF LoadItems, End
<1>4. CASE Refresh(q)
  <2>1. s \in Session /\ s.cart \in Carts
    BY <1>4, Busy DEF Refresh, At, SessionsOK, SessionOK, InCart
  <2>2. cart[s.cart].cols \in Pricing
    BY <2>1 DEF TypeOK, Cart
  <2>3. [s EXCEPT !.seen = cart[s.cart].cols, !.mine = cart[s.cart].cols, !.pc = "again"] \in Session
    BY <2>1, <2>2 DEF Session
  <2> QED
    BY <1>2, <1>4, <2>3 DEF Refresh
<1>5. CASE Reload(q)
  <2>1. s \in Session
    BY <1>5, Busy DEF Reload, At
  <2>2. \A pc \in {"quote", "items"} : [s EXCEPT !.pc = pc] \in Session
    BY <2>1 DEF Session
  <2> QED
    BY <1>2, <1>5, <2>2 DEF Reload, End, Goto
<1>6. CASE Find(q)
  <2>1. s \in Session
    BY <1>6, Busy DEF Find, At
  <2>2. s.kind \in Kinds
    BY <2>1 DEF Session
  <2>3. \A c \in ActiveCarts(s.who) : Loaded(s.kind, "items", c, "keep") \in Session
    BY <2>2, LoadedType DEF ActiveCarts
  <2> QED
    BY <1>2, <1>6, <2>3 DEF Find, End
<1>7. CASE PickLine(q)
  <2>1. s \in Session
    BY <1>7, Busy DEF PickLine, At
  <2>2. ASSUME NEW l \in Lines \cup {NoLine}, NEW n \in 1..MaxQuantity, Choose(q, l, n)
        PROVE  sess' \in [Requests -> Session \cup {Idle}]
    <3>0. n \in Quantity
      BY QuantityAssumption DEF Quantity
    <3>1. [s EXCEPT !.line = l, !.qty = n, !.pc = "put"] \in Session
      BY <2>1, <3>0 DEF Session
    <3> QED
      BY <1>2, <2>2, <3>1 DEF Choose
  <2>3. \A l \in Lines : Known(q, l) \in Quantity
    BY <2>1 DEF Known, Session, Goods, TypeOK, Line
  <2>4. ASSUME NEW l \in Lines, NEW n \in 1..MaxQuantity, Known(q, l) + n <= MaxQuantity
        PROVE  Known(q, l) + n \in 1..MaxQuantity
    BY <2>3, <2>4, QuantityAssumption DEF Quantity
  <2> QED
    BY <1>7, <2>2, <2>4 DEF PickLine
<1>8. CASE Recalculate(q)
  <2>1. s \in Session
    BY <1>8, Busy DEF Recalculate, At
  <2>2. \A coupon \in BOOLEAN :
          [s EXCEPT !.mine = Priced(coupon, s.goods), !.pc = "save"] \in Session
    BY <2>1, PricedType DEF Session
  <2>3. s.mine.coupon \in BOOLEAN
    BY <2>1 DEF Session, Pricing
  <2> QED
    BY <1>2, <1>8, <2>2, <2>3 DEF Recalculate, End
<1>9. CASE Abort(q)
  BY <1>2, <1>9 DEF Abort, End
<1> QED
  BY <1>3, <1>4, <1>5, <1>6, <1>7, <1>8, <1>9

\* Arrivals.
LEMMA ArriveTypes ==
  ASSUME TypeOK, SessionsOK, NEW q \in Requests, Arrive(q)
  PROVE  TypeOK'
<1> USE DEF TypeOK
<1>1. ASSUME NEW u \in Customers, AddFirst(q, u) PROVE TypeOK'
  <2>1. Started("add", "create", u) \in Session
    BY StartedType DEF Kinds
  <2> QED
    BY <1>1, <2>1 DEF AddFirst
<1>2. ASSUME NEW c \in Carts, NEW kind \in Kinds, NEW want \in {"keep", "code", "none"},
             Open(q, kind, c, want)
      PROVE  TypeOK'
  BY <1>2, LoadedType DEF Open
<1>3. ASSUME NEW l \in Lines, NEW n \in Quantity, SelectItem(q, l, n) PROVE TypeOK'
  <2> DEFINE kind == IF n = 0 THEN "remove" ELSE "set"
             u == cart[line[l].cart].owner
  <2>1. line[l].cart \in Carts
    BY <1>3 DEF SelectItem, Line
  <2>2. Started(kind, "put", u) \in Session
    BY <2>1, StartedType DEF Kinds, Cart
  <2>3. [Started(kind, "put", u) EXCEPT !.line = l, !.qty = n] \in Session
    BY <2>2 DEF Session
  <2> QED
    BY <1>3, <2>3 DEF SelectItem
<1>4. ASSUME NEW o \in Orders, Verify(q, o) PROVE TypeOK'
  <2>1. order[o].cart \in Carts
    BY <1>4 DEF Verify, Order
  <2>2. Started("verify", "call", cart[order[o].cart].owner) \in Session
    BY <2>1, StartedType DEF Kinds, Cart
  <2>3. [Started("verify", "call", cart[order[o].cart].owner) EXCEPT !.order = o] \in Session
    BY <2>2 DEF Session
  <2> QED
    BY <1>4, <2>3 DEF Verify
<1> QED
  BY <1>1, <1>2, <1>3, <1>4 DEF Arrive, AddItem, UpdateContext, View, CheckoutCart, Kinds

LEMMA CreateCartTypes ==
  ASSUME TypeOK, NEW q \in Requests, CreateCart(q)
  PROVE  TypeOK'
<1>1. sess[q] \in Session
  BY Busy DEF CreateCart, At
<1>2. [status |-> "active", owner |-> sess[q].who, cols |-> NewPricing] \in Cart
  BY <1>1, NewPricingType DEF Session, Cart
<1>3. [sess[q] EXCEPT !.pc = "find"] \in Session
  BY <1>1 DEF Session
<1> QED
  BY <1>2, <1>3 DEF CreateCart, Goto, TypeOK

LEMMA InsertItemTypes ==
  ASSUME TypeOK, SessionsOK, NEW q \in Requests, InsertItem(q)
  PROVE  TypeOK'
<1> DEFINE s == sess[q]
<1>1. s \in Session
  BY Busy DEF InsertItem, At
<1>2. 0 \in Quantity
  BY QuantityAssumption DEF Quantity
<1>3. [s EXCEPT !.pc = "again", !.qty = 0] \in Session
  BY <1>1, <1>2 DEF Session
<1>4. sess' \in [Requests -> Session \cup {Idle}]
  BY <1>3, WroteType DEF InsertItem
<1>5. [cart |-> s.cart, qty |-> s.qty] \in Line
  BY <1>1 DEF Session, Line
<1>6. line' \in [Lines -> Line]
  BY <1>5 DEF InsertItem, TypeOK
<1> QED
  BY <1>4, <1>6 DEF InsertItem, TypeOK

LEMMA ChangeItemTypes ==
  ASSUME TypeOK, NEW q \in Requests, ChangeItem(q)
  PROVE  TypeOK'
<1> DEFINE s == sess[q]
           quiet == Started(s.kind, "find", s.who)
           busy == [s EXCEPT !.pc = "again", !.line = NoLine, !.qty = 0,
                             !.goods[s.line] = IF @ > 0 THEN s.qty ELSE 0]
           next == IF s.kind # "add" THEN quiet ELSE busy
<1>1. s \in Session
  BY Busy DEF ChangeItem, At
<1>2. s.line \in Lines /\ s.qty \in Quantity /\ s.kind \in Kinds /\ s.who \in Customers
  BY <1>1 DEF ChangeItem, Session
<1>3. quiet \in Session
  BY <1>2, StartedType
<1>4. busy \in Session
  <2>1. 0 \in Quantity
    BY QuantityAssumption DEF Quantity
  <2> DEFINE goods == [s.goods EXCEPT ![s.line] = IF @ > 0 THEN s.qty ELSE 0]
  <2>2. goods \in Goods
    BY <1>1, <1>2, <2>1 DEF Session, Goods
  <2>3. busy = [s EXCEPT !.pc = "again", !.line = NoLine, !.qty = 0, !.goods = goods]
    BY <1>1 DEF Session
  <2> HIDE DEF goods
  <2>4. [s EXCEPT !.pc = "again", !.line = NoLine, !.qty = 0, !.goods = goods] \in Session
    BY <1>1, <2>1, <2>2 DEF Session
  <2> QED
    BY <2>3, <2>4
<1>5. next \in Session
  BY <1>3, <1>4
<1>6. CASE line[s.line].qty = 0
  <2>1. sess' = [sess EXCEPT ![q] = IF s.kind = "remove" THEN next ELSE Idle]
    BY <1>6 DEF ChangeItem
  <2>2. UNCHANGED line
    BY <1>6 DEF ChangeItem
  <2> HIDE DEF next
  <2> QED
    BY <1>5, <2>1, <2>2 DEF ChangeItem, TypeOK
<1>7. CASE line[s.line].qty # 0
  <2>1. Wrote(q, line[s.line].cart, next)
    BY <1>7 DEF ChangeItem
  <2>2. line' = [line EXCEPT ![s.line].qty = s.qty]
    BY <1>7 DEF ChangeItem
  <2>3. line' \in [Lines -> Line]
    BY <1>2, <2>2 DEF TypeOK, Line
  <2> HIDE DEF next
  <2>4. sess' \in [Requests -> Session \cup {Idle}]
    BY <1>5, <2>1, WroteType
  <2> QED
    BY <2>3, <2>4 DEF ChangeItem, TypeOK
<1> QED
  BY <1>6, <1>7

LEMMA WriteTypes ==
  ASSUME TypeOK, SessionsOK, NEW q \in Requests, NEW mine \in Pricing,
         NEW next \in Session \cup {Idle},
         sess[q] \in Session, sess[q].cart \in Carts, Write(q, mine, next)
  PROVE  TypeOK'
<1>1. Written(sess[q].cart, mine, sess[q].seen) \in Pricing
  BY WrittenType DEF Session
<1>2. cart' \in [Carts -> Cart]
  BY <1>1 DEF Write, TypeOK, Cart
<1>3. sess' \in [Requests -> Session \cup {Idle}]
  <2>1. CASE mine = sess[q].seen
    BY <2>1 DEF Write, TypeOK
  <2>2. CASE mine # sess[q].seen
    BY <2>2, WroteType DEF Write
  <2> QED
    BY <2>1, <2>2
<1> QED
  BY <1>2, <1>3 DEF Write, TypeOK

LEMMA ReloadingType ==
  ASSUME NEW s \in Session, NEW round \in 1..3
  PROVE  Reloading(s, round) \in Session
BY NewPricingType, NothingType DEF Reloading, Session

LEMMA ReloadingFields ==
  ASSUME NEW s \in Session, NEW round
  PROVE  LET t == Reloading(s, round) IN
         /\ t.pc = "refresh" /\ t.round = round
         /\ t.kind = s.kind /\ t.cart = s.cart /\ t.alone = s.alone
BY DEF Reloading, Session

LEMMA SavingTypes ==
  ASSUME TypeOK, SessionsOK, NEW q \in Requests, UpdateCart(q) \/ SaveTotals(q)
  PROVE  TypeOK'
<1> DEFINE s == sess[q]
<1>1. s \in Session /\ s.cart \in Carts
  BY Busy DEF UpdateCart, SaveTotals, At, SessionsOK, SessionOK, InCart
<1>2. s.mine \in Pricing /\ [s.mine EXCEPT !.coupon = s.want = "code"] \in Pricing
  BY <1>1 DEF Session, Pricing
<1>3. CASE UpdateCart(q)
  BY <1>1, <1>2, <1>3, WriteTypes, ReloadingType DEF UpdateCart
<1>4. CASE SaveTotals(q)
  BY <1>1, <1>2, <1>4, WriteTypes, ReloadingType DEF SaveTotals
<1> QED
  BY <1>3, <1>4

LEMMA PlaceOrderTypes ==
  ASSUME TypeOK, SessionsOK, NEW q \in Requests, PlaceOrder(q)
  PROVE  TypeOK'
<1> DEFINE s == sess[q]
           Row == [cart |-> s.cart, goods |-> s.goods, cols |-> s.mine, alone |-> s.alone,
                   paid |-> FALSE, verified |-> 0]
           Next1(o) == IF s.mine.coupon /\ s.mine.off
                         THEN [Started("checkout", "redeem", s.who) EXCEPT !.order = o]
                         ELSE Idle
<1>1. s \in Session
  BY Busy DEF PlaceOrder, At
<1>2. PICK o \in Orders : order' = [order EXCEPT ![o] = Row] /\ Wrote(q, s.cart, Next1(o))
  BY DEF PlaceOrder
<1>3. Row \in Order
  BY <1>1 DEF Order, Session
<1>4. Next1(o) \in Session \cup {Idle}
  <2>1. Started("checkout", "redeem", s.who) \in Session
    BY <1>1, StartedType DEF Session, Kinds
  <2>2. [Started("checkout", "redeem", s.who) EXCEPT !.order = o] \in Session
    BY <2>1 DEF Session
  <2> QED
    BY <2>2
<1>5. order' \in [Orders -> Order]
  BY <1>2, <1>3 DEF TypeOK
<1> HIDE DEF Next1
<1>6. sess' \in [Requests -> Session \cup {Idle}]
  BY <1>2, <1>4, WroteType
<1>7. cart' \in [Carts -> Cart]
  <2>1. cart' = [cart EXCEPT ![s.cart].status = "checked_out"]
    BY DEF PlaceOrder
  <2>2. \A c \in Carts : [cart[c] EXCEPT !.status = "checked_out"] \in Cart
    BY DEF TypeOK, Cart
  <2> QED
    BY <2>1, <2>2 DEF TypeOK
<1> QED
  BY <1>5, <1>6, <1>7 DEF PlaceOrder, TypeOK

LEMMA EndTypes ==
  ASSUME TypeOK, SessionsOK, NEW q \in Requests, Redeem(q) \/ Verified(q)
  PROVE  TypeOK'
<1>1. sess[q] \in Session /\ sess[q].order \in Orders
  BY Busy DEF Redeem, Verified, At, SessionsOK, SessionOK
<1>2. CASE Redeem(q)
  BY <1>1, <1>2 DEF Redeem, TypeOK, End, Promotion
<1>3. CASE Verified(q)
  BY <1>1, <1>3 DEF Verified, TypeOK, End, Order
<1> QED
  BY <1>2, <1>3

LEMMA NextTypes == TypeOK /\ SessionsOK /\ [Next]_vars => TypeOK'
<1> SUFFICES ASSUME TypeOK, SessionsOK, [Next]_vars PROVE TypeOK'
  OBVIOUS
<1>1. ASSUME NEW q \in Requests, Continue(q) \/ Abort(q) PROVE TypeOK'
  BY <1>1, SessionTypes, CreateCartTypes, InsertItemTypes, ChangeItemTypes, SavingTypes,
     PlaceOrderTypes, EndTypes
     DEF Continue, LoadItems, Refresh, Reload, Find, PickLine, Recalculate, Abort
<1>2. CASE EditPromotion \/ DeletePromotion
  BY <1>2 DEF EditPromotion, DeletePromotion, TypeOK, Promotion
<1>3. CASE UNCHANGED vars
  BY <1>3 DEF vars, TypeOK
<1> QED
  BY <1>1, <1>2, <1>3, ArriveTypes DEF Next

-----------------------------------------------------------------------------
(* What a step leaves alone *)

Step(q) == Arrive(q) \/ Continue(q) \/ Abort(q)

\* A request that a step of another one leaves as it was, but for "alone".
Like(p) ==
  /\ Free(p)' <=> Free(p)
  /\ ~Free(p) =>
       /\ sess'[p] = [sess[p] EXCEPT !.alone = sess'[p].alone]
       /\ sess'[p].alone => sess[p].alone

LEMMA WroteOthers ==
  ASSUME TypeOK, NEW q \in Requests, NEW p \in Requests, p # q, NEW c, NEW s, Wrote(q, c, s)
  PROVE  /\ Like(p)
         /\ ~Free(p) /\ sess[p].cart = c => ~sess'[p].alone
<1>1. CASE Free(p)
  BY <1>1 DEF Wrote, Like, Free, Idle
<1>2. CASE ~Free(p)
  <2>1. sess[p] \in Session
    BY <1>2, Busy
  <2>2. [sess[p] EXCEPT !.alone = FALSE].kind # "idle"
    BY <2>1 DEF Session, Kinds
  <2>3. sess'[p] = IF sess[p].cart = c THEN [sess[p] EXCEPT !.alone = FALSE] ELSE sess[p]
    BY <1>2 DEF Wrote
  <2> QED
    BY <1>2, <2>1, <2>2, <2>3 DEF Like, Free, Idle, Session
<1> QED
  BY <1>1, <1>2

LEMMA SameOthers ==
  ASSUME TypeOK, NEW p \in Requests, sess'[p] = sess[p]
  PROVE  Like(p)
<1>1. CASE Free(p)
  BY <1>1 DEF Like, Free
<1>2. CASE ~Free(p)
  BY <1>2, Busy DEF Like, Free, Session
<1> QED
  BY <1>1, <1>2

LEMMA Others ==
  ASSUME TypeOK, NEW q \in Requests, Step(q), NEW p \in Requests, p # q
  PROVE  Like(p)
<1>1. CASE \E c, s : Wrote(q, c, s)
  BY <1>1, WroteOthers
<1>2. CASE sess'[p] = sess[p]
  BY <1>2, SameOthers
<1>3. CASE InsertItem(q) \/ ChangeItem(q) \/ UpdateCart(q) \/ SaveTotals(q) \/ PlaceOrder(q)
  <2>1. sess \in [Requests -> Session \cup {Idle}]
    BY DEF TypeOK
  <2> QED
    BY <1>1, <1>2, <1>3, <2>1 DEF InsertItem, ChangeItem, UpdateCart, SaveTotals, PlaceOrder, Write
<1>4. CASE \/ LoadItems(q) \/ Refresh(q) \/ Reload(q) \/ CreateCart(q) \/ Find(q)
           \/ PickLine(q) \/ Recalculate(q) \/ Redeem(q) \/ Verified(q) \/ Abort(q)
  <2>1. sess'[p] = sess[p]
    <3> USE DEF TypeOK, End, Goto
    <3>1. CASE LoadItems(q) \/ Refresh(q) \/ Reload(q) \/ CreateCart(q)
      BY <3>1 DEF LoadItems, Refresh, Reload, CreateCart
    <3>2. CASE Find(q) \/ PickLine(q) \/ Recalculate(q)
      BY <3>2 DEF Find, PickLine, Choose, Recalculate
    <3>3. CASE Redeem(q) \/ Verified(q) \/ Abort(q)
      BY <3>3 DEF Redeem, Verified, Abort
    <3> QED
      BY <1>4, <3>1, <3>2, <3>3
  <2> QED
    BY <1>2, <2>1
<1>5. CASE Arrive(q)
  <2>1. sess'[p] = sess[p]
    BY <1>5 DEF Arrive, AddFirst, AddItem, UpdateContext, View, CheckoutCart, Open,
                SelectItem, Verify, TypeOK
  <2> QED
    BY <1>2, <2>1
<1> QED
  BY <1>3, <1>4, <1>5 DEF Step, Continue

\* An order that is placed keeps its cart, its items and its price.
LEMMA OrderKept ==
  ASSUME TypeOK, [Next]_vars, NEW o \in Orders, order[o].cart # NoCart
  PROVE  /\ order'[o].cart = order[o].cart /\ order'[o].goods = order[o].goods
         /\ order'[o].cols = order[o].cols /\ order'[o].alone = order[o].alone
<1>1. ASSUME NEW q \in Requests, PlaceOrder(q) PROVE order'[o] = order[o]
  BY <1>1 DEF PlaceOrder, TypeOK
<1>2. ASSUME NEW q \in Requests, Verified(q)
      PROVE  /\ order'[o].cart = order[o].cart /\ order'[o].goods = order[o].goods
             /\ order'[o].cols = order[o].cols /\ order'[o].alone = order[o].alone
  BY <1>2 DEF Verified, TypeOK, Order
<1>3. CASE UNCHANGED order
  BY <1>3
<1>4. ASSUME NEW q \in Requests, Arrive(q) PROVE UNCHANGED order
  BY <1>4 DEF Arrive, AddFirst, AddItem, UpdateContext, View, CheckoutCart, Open, SelectItem, Verify
<1>5. ASSUME NEW q \in Requests, Continue(q) \/ Abort(q), ~PlaceOrder(q), ~Verified(q)
      PROVE  UNCHANGED order
  BY <1>5 DEF Continue, Abort, LoadItems, Refresh, Reload, CreateCart, Find, PickLine, InsertItem,
              ChangeItem, Recalculate, UpdateCart, SaveTotals, Write, Redeem
<1>6. CASE EditPromotion \/ DeletePromotion
  BY <1>3, <1>6 DEF EditPromotion, DeletePromotion
<1> QED
  BY <1>1, <1>2, <1>3, <1>4, <1>5, <1>6 DEF Next, vars

\* No cart becomes absent.
LEMMA CartKept ==
  ASSUME TypeOK, [Next]_vars, NEW c \in Carts, cart[c].status # "absent"
  PROVE  cart'[c].status # "absent" /\ cart'[c].owner = cart[c].owner
<1>1. ASSUME NEW q \in Requests, Arrive(q) PROVE UNCHANGED cart
  BY <1>1 DEF Arrive, AddFirst, AddItem, UpdateContext, View, CheckoutCart, Open, SelectItem, Verify
<1>2. ASSUME NEW q \in Requests, CreateCart(q)
      PROVE  cart'[c] = cart[c]
  BY <1>2 DEF CreateCart, TypeOK
<1>3. ASSUME NEW q \in Requests, UpdateCart(q) \/ SaveTotals(q) \/ PlaceOrder(q)
      PROVE  cart'[c].status # "absent" /\ cart'[c].owner = cart[c].owner
  BY <1>3 DEF UpdateCart, SaveTotals, PlaceOrder, Write, TypeOK, Cart
<1>4. ASSUME NEW q \in Requests, Continue(q) \/ Abort(q), ~CreateCart(q), ~UpdateCart(q),
             ~SaveTotals(q), ~PlaceOrder(q)
      PROVE  UNCHANGED cart
  BY <1>4 DEF Continue, Abort, LoadItems, Refresh, Reload, Find, PickLine, InsertItem,
              ChangeItem, Recalculate, Redeem, Verified
<1>5. CASE EditPromotion \/ DeletePromotion \/ UNCHANGED vars
  BY <1>5 DEF EditPromotion, DeletePromotion, vars
<1> QED
  BY <1>1, <1>2, <1>3, <1>4, <1>5 DEF Next

-----------------------------------------------------------------------------
(* Sessions *)

\* What a session of a request at rest in a step keeps.
LEMMA SessionKept ==
  ASSUME TypeOK, SessionsOK, [Next]_vars, NEW p \in Requests, Like(p),
         ~Free(p) /\ sess[p].pc = "redeem" => sess[p].order \notin redeemed'
  PROVE  SessionOK(p)'
<1>1. SUFFICES ASSUME ~Free(p) PROVE SessionOK(p)'
  BY <1>1 DEF Like, SessionOK
<1>2. sess[p] \in Session /\ SessionOK(p)
  BY <1>1, Busy DEF SessionsOK
<1> DEFINE s == sess[p]
           t == sess'[p]
<1>3. /\ t.kind = s.kind /\ t.pc = s.pc /\ t.round = s.round /\ t.cart = s.cart
      /\ t.line = s.line /\ t.order = s.order
  BY <1>1, <1>2 DEF Like, Session
<1>4. s.cart \in Carts /\ cart[s.cart].status # "absent" => cart'[s.cart].status # "absent"
  BY CartKept
<1>5. s.order \in Orders /\ order[s.order].cart # NoCart =>
        order'[s.order].cart # NoCart /\ order'[s.order].cols = order[s.order].cols
  BY OrderKept
<1>6. ~Free(p)' /\ ~Free(p)
  BY <1>1 DEF Like
<1> HIDE DEF s, t
<1> QED
  BY <1>1, <1>2, <1>3, <1>4, <1>5, <1>6 DEF SessionOK, s, t

LEMMA ArriveOwn ==
  ASSUME TypeOK, SessionsOK, NEW q \in Requests, Arrive(q)
  PROVE  SessionOK(q)'
<1> USE DEF TypeOK
<1>1. ASSUME NEW u \in Customers, AddFirst(q, u) PROVE SessionOK(q)'
  BY <1>1 DEF AddFirst, Started, SessionOK, InCart
<1>2. ASSUME NEW c \in Carts, NEW kind \in {"add", "context", "view", "checkout"},
             NEW want \in {"keep", "code", "none"}, Open(q, kind, c, want)
      PROVE  SessionOK(q)'
  BY <1>2 DEF Open, Loaded, Active, SessionOK, InCart, CheckoutPoints
<1>3. ASSUME NEW l \in Lines, NEW n \in Quantity, SelectItem(q, l, n) PROVE SessionOK(q)'
  BY <1>3, NoneAssumption DEF SelectItem, Started, SessionOK, InCart
<1>4. ASSUME NEW o \in Orders, Verify(q, o) PROVE SessionOK(q)'
  BY <1>4 DEF Verify, Started, SessionOK, InCart
<1> QED
  BY <1>1, <1>2, <1>3, <1>4 DEF Arrive, AddItem, UpdateContext, View, CheckoutCart

LEMMA ContinueOwn ==
  ASSUME TypeOK, SessionsOK, RedeemedOK, NEW q \in Requests, Continue(q) \/ Abort(q)
  PROVE  SessionOK(q)'
<1> DEFINE s == sess[q]
           t == sess'[q]
<1>0. /\ sess \in [Requests -> Session \cup {Idle}]
      /\ ~Free(q) /\ SessionOK(q)
      /\ s \in Session
  BY Busy DEF TypeOK, SessionsOK, Continue, Abort, LoadItems, Refresh, Reload, CreateCart, Find,
     PickLine, InsertItem, ChangeItem, Recalculate, UpdateCart, SaveTotals, PlaceOrder, Redeem,
     Verified, At
<1>1. CASE t = Idle
  BY <1>1 DEF SessionOK, Free
<1> DEFINE Into(pc) == t = [s EXCEPT !.pc = pc]
<1>2. ASSUME t # Idle, LoadItems(q) PROVE SessionOK(q)'
  <2>1. /\ WithItems(s) \in {"place", "pick", "update", "quote"}
        /\ WithItems(s) = "place" => s.round = 3
        /\ WithItems(s) = "pick" => s.kind = "add"
        /\ WithItems(s) = "update" => s.kind \in {"context", "checkout"}
        /\ WithItems(s) \in {"update", "quote"} => s.round # 3
    BY DEF WithItems
  <2>2. t = [s EXCEPT !.goods = Contents(s.cart), !.pc = WithItems(s)] /\ s.pc = "items"
        /\ UNCHANGED <<cart, order, redeemed>>
    BY <1>0, <1>2 DEF LoadItems, End, At
  <2>3. /\ t.kind = s.kind /\ t.pc = WithItems(s) /\ t.round = s.round /\ t.cart = s.cart
    BY <1>0, <2>2 DEF Session
  <2>4. s.round \in 1..3 /\ s.cart \in Carts /\ cart[s.cart].status # "absent"
    BY <1>0, <2>2 DEF Session, SessionOK, InCart
  <2> HIDE DEF s, t
  <2> QED
    BY <1>0, <2>1, <2>2, <2>3, <2>4 DEF SessionOK, InCart, CheckoutPoints, s, t
<1>3. ASSUME t # Idle, Refresh(q) \/ Reload(q) PROVE SessionOK(q)'
  <2>1. /\ s.pc \in {"refresh", "again"} /\ t.pc \in {"again", "quote", "items"}
        /\ t.pc = "quote" => s.kind = "add"
        /\ t.kind = s.kind /\ t.round = s.round /\ t.cart = s.cart
        /\ UNCHANGED <<cart, order, redeemed>>
    BY <1>0, <1>3 DEF Refresh, Reload, End, Goto, At, Session
  <2>2. s.round \in 1..3 /\ s.cart \in Carts /\ cart[s.cart].status # "absent"
    BY <1>0, <2>1 DEF Session, SessionOK, InCart
  <2> HIDE DEF s, t
  <2> QED
    BY <1>0, <2>1, <2>2 DEF SessionOK, InCart, CheckoutPoints, s, t
<1>4. ASSUME CreateCart(q) PROVE SessionOK(q)'
  <2>1. s.pc = "create" /\ t.pc = "find" /\ t.kind = s.kind /\ t.round = s.round
    BY <1>0, <1>4 DEF CreateCart, Goto, At, Session
  <2> HIDE DEF s, t
  <2> QED
    BY <1>0, <2>1 DEF SessionOK, InCart, CheckoutPoints, s, t
<1>5. ASSUME t # Idle, Find(q) PROVE SessionOK(q)'
  <2>1. PICK c \in ActiveCarts(s.who) : t = Loaded(s.kind, "items", c, "keep")
    BY <1>0, <1>5 DEF Find, End
  <2>2. s.kind \in {"add", "set", "remove"}
    BY <1>0, <1>5 DEF Find, At, SessionOK
  <2>3. t.kind = s.kind /\ t.pc = "items" /\ t.round = 1 /\ t.cart = c
    BY <2>1 DEF Loaded
  <2>4. c \in Carts /\ cart'[c].status = "active"
    BY <1>5 DEF Find, ActiveCarts, Active
  <2> HIDE DEF s, t
  <2> QED
    BY <2>2, <2>3, <2>4 DEF SessionOK, InCart, CheckoutPoints, s, t
<1>6. ASSUME PickLine(q) PROVE SessionOK(q)'
  <2>1. PICK l, n : Choose(q, l, n)
    BY <1>6, Zenon DEF PickLine
  <2>2. s.pc = "pick" /\ t.pc = "put" /\ t.kind = s.kind /\ t.round = s.round /\ t.cart = s.cart
    BY <1>0, <1>6, <2>1 DEF PickLine, Choose, At, Session
  <2>3. UNCHANGED cart
    BY <1>6 DEF PickLine
  <2> HIDE DEF s, t
  <2> QED
    BY <1>0, <2>2, <2>3 DEF SessionOK, InCart, CheckoutPoints, s, t
<1>7. ASSUME InsertItem(q) PROVE SessionOK(q)'
  <2>1. s.pc = "put" /\ s.line = NoLine
    BY <1>7 DEF InsertItem, At
  <2>2. t.pc = "again" /\ t.kind = s.kind /\ t.round = s.round /\ t.cart = s.cart
    BY <1>0, <1>7 DEF InsertItem, Wrote, Session
  <2>3. UNCHANGED cart
    BY <1>7 DEF InsertItem
  <2> HIDE DEF s, t
  <2> QED
    BY <1>0, <2>1, <2>2, <2>3 DEF SessionOK, InCart, CheckoutPoints, s, t
<1>8. ASSUME t # Idle, ChangeItem(q) PROVE SessionOK(q)'
  <2>1. /\ t.kind = s.kind
        /\ s.kind = "add" => t.pc = "again" /\ t.round = s.round /\ t.cart = s.cart
        /\ s.kind # "add" => t.pc = "find" /\ t.round = 1
    BY <1>8, ChangeFields
  <2>2. s.pc = "put" /\ UNCHANGED cart
    BY <1>8 DEF ChangeItem, At
  <2> HIDE DEF s, t
  <2> QED
    BY <1>0, <2>1, <2>2 DEF SessionOK, InCart, CheckoutPoints, s, t
<1>9. ASSUME t # Idle, Recalculate(q) PROVE SessionOK(q)'
  <2>1. /\ s.pc = "quote" /\ t.pc = "save" /\ t.kind = s.kind /\ t.round = s.round
        /\ t.cart = s.cart /\ UNCHANGED cart
    BY <1>0, <1>9 DEF Recalculate, End, At, Session
  <2> HIDE DEF s, t
  <2> QED
    BY <1>0, <2>1 DEF SessionOK, InCart, CheckoutPoints, s, t
<1>10. ASSUME t # Idle, UpdateCart(q) \/ SaveTotals(q) PROVE SessionOK(q)'
  <2>1. \/ t = Reloading(s, 2) /\ s.pc = "update"
        \/ t = Reloading(s, 3) /\ s.pc = "save" /\ s.kind = "checkout"
    <3>1. CASE UpdateCart(q)
      BY <1>0, <3>1 DEF UpdateCart, Write, Wrote, At
    <3>2. CASE SaveTotals(q)
      BY <1>0, <1>10, <3>2 DEF SaveTotals, Write, Wrote, At
    <3> QED
      BY <1>10, <3>1, <3>2
  <2>2. /\ t.pc = "refresh" /\ t.kind = s.kind /\ t.cart = s.cart
        /\ t.round = 2 \/ (t.round = 3 /\ s.kind = "checkout")
    <3>1. CASE t = Reloading(s, 2)
      BY <1>0, <2>1, <3>1, ReloadingFields
    <3>2. CASE t = Reloading(s, 3) /\ s.kind = "checkout"
      BY <1>0, <2>1, <3>2, ReloadingFields
    <3> QED
      BY <2>1, <3>1, <3>2
  <2>3. s.cart \in Carts /\ cart[s.cart].status # "absent"
    BY <1>0, <2>1 DEF SessionOK, InCart
  <2>4. cart'[s.cart].status = cart[s.cart].status
    BY <1>10, <2>3 DEF UpdateCart, SaveTotals, Write, TypeOK, Cart
  <2> HIDE DEF s, t
  <2> QED
    BY <1>0, <2>1, <2>2, <2>3, <2>4 DEF SessionOK, InCart, CheckoutPoints, s, t
<1>11. ASSUME t # Idle, PlaceOrder(q) PROVE SessionOK(q)'
  <2>1. PICK o \in Orders :
          /\ order[o].cart = NoCart
          /\ order' = [order EXCEPT ![o] =
               [cart |-> s.cart, goods |-> s.goods, cols |-> s.mine, alone |-> s.alone,
                paid |-> FALSE, verified |-> 0]]
          /\ Wrote(q, s.cart, IF s.mine.coupon /\ s.mine.off
                                THEN [Started("checkout", "redeem", s.who) EXCEPT !.order = o]
                                ELSE Idle)
    BY <1>11 DEF PlaceOrder
  <2>2. /\ s.mine.coupon /\ s.mine.off
        /\ t = [Started("checkout", "redeem", s.who) EXCEPT !.order = o]
    BY <1>0, <1>11, <2>1 DEF Wrote
  <2>3. t.pc = "redeem" /\ t.kind = "checkout" /\ t.round = 1 /\ t.order = o
    BY <2>2 DEF Started
  <2>4. s.cart \in Carts /\ s.cart # NoCart
    BY <1>0, <1>11, NoneAssumption DEF PlaceOrder, At, SessionOK, InCart
  <2>5. order'[o].cart = s.cart /\ order'[o].cols = s.mine
    BY <2>1 DEF TypeOK
  <2>6. o \notin redeemed /\ UNCHANGED redeemed
    BY <1>11, <2>1 DEF RedeemedOK, PlaceOrder
  <2> HIDE DEF s, t
  <2> QED
    BY <2>2, <2>3, <2>4, <2>5, <2>6 DEF SessionOK, InCart, CheckoutPoints, t
<1>12. ASSUME Redeem(q) \/ Verified(q) \/ Abort(q) PROVE t = Idle
  BY <1>0, <1>12 DEF Redeem, Verified, Abort, End
<1> QED
  BY <1>1, <1>2, <1>3, <1>4, <1>5, <1>6, <1>7, <1>8, <1>9, <1>10, <1>11, <1>12 DEF Continue

\* How a request comes to the points that the promises are about.
LEMMA OwnPoint ==
  ASSUME TypeOK, SessionsOK, NEW q \in Requests, Step(q), sess'[q] # Idle
  PROVE  LET s == sess[q]
             t == sess'[q]
         IN
         /\ t.pc = "redeem" => PlaceOrder(q)
         /\ t.pc = "create" => AddFirst(q, t.who)
         /\ t.pc = "call" => Verify(q, t.order)
         /\ t.pc \in {"items", "place"} /\ t.round = 3 =>
              t.cart = s.cart /\ (q \in Placing(s.cart) \/ Active(s.cart))
<1> DEFINE s == sess[q]
           t == sess'[q]
<1>0. sess \in [Requests -> Session \cup {Idle}]
  BY DEF TypeOK
<1>1. ASSUME Arrive(q) PROVE /\ t.pc \notin {"redeem", "place"} /\ t.round = 1
                             /\ t.pc = "create" => AddFirst(q, t.who)
                             /\ t.pc = "call" => Verify(q, t.order)
  <2>1. ASSUME NEW u, AddFirst(q, u) PROVE t.pc = "create" /\ t.round = 1 /\ t.who = u
    BY <1>0, <2>1 DEF AddFirst, Started
  <2>2. ASSUME NEW c, NEW kind, NEW want, Open(q, kind, c, want)
        PROVE  t.pc = "items" /\ t.round = 1
    BY <1>0, <2>2 DEF Open, Loaded
  <2>3. ASSUME NEW l, NEW n, SelectItem(q, l, n) PROVE t.pc = "put" /\ t.round = 1
    BY <1>0, <2>3 DEF SelectItem, Started
  <2>4. ASSUME NEW o, Verify(q, o) PROVE t.pc = "call" /\ t.round = 1 /\ t.order = o
    BY <1>0, <2>4 DEF Verify, Started
  <2>5. \/ \E u : AddFirst(q, u)
        \/ \E c, kind, want : Open(q, kind, c, want)
        \/ \E l, n : SelectItem(q, l, n)
        \/ \E o : Verify(q, o)
    BY <1>1 DEF Arrive, AddItem, UpdateContext, View, CheckoutCart
  <2> QED
    BY <2>1, <2>2, <2>3, <2>4, <2>5
<1>2. ASSUME Continue(q) \/ Abort(q) PROVE ~Free(q) /\ s \in Session
  BY <1>2, Busy DEF Continue, Abort, LoadItems, Refresh, Reload, CreateCart, Find,
     PickLine, InsertItem, ChangeItem, Recalculate, UpdateCart, SaveTotals, PlaceOrder, Redeem,
     Verified, At
<1>3. CASE LoadItems(q)
  <2>1. t = [s EXCEPT !.goods = Contents(s.cart), !.pc = WithItems(s)] /\ s.pc = "items"
    BY <1>0, <1>2, <1>3 DEF LoadItems, End, At, Continue
  <2>2. t.pc = WithItems(s) /\ t.round = s.round /\ t.cart = s.cart
    BY <1>2, <1>3, <2>1 DEF Session, Continue
  <2>3. WithItems(s) \in {"place", "pick", "update", "quote"} /\ s.round \in 1..3
    BY <1>2, <1>3 DEF WithItems, Session, Continue
  <2> QED
    BY <1>2, <1>3, <2>1, <2>2, <2>3 DEF Placing, Continue
<1>4. CASE Refresh(q) \/ CreateCart(q) \/ Recalculate(q)
  <2>1. t.pc \in {"again", "find", "save"}
    BY <1>0, <1>2, <1>4 DEF Refresh, CreateCart, Recalculate, Goto, End, Continue, Session
  <2> QED
    BY <2>1
<1>5. CASE Reload(q)
  <2>1. t.pc \in {"quote", "items"} /\ t.cart = s.cart /\ Active(s.cart)
    BY <1>0, <1>2, <1>5 DEF Reload, Goto, End, Continue, Session
  <2> QED
    BY <2>1
<1>6. CASE Find(q)
  <2>1. PICK c : t = Loaded(s.kind, "items", c, "keep")
    BY <1>0, <1>2, <1>6 DEF Find, End, Continue
  <2> QED
    BY <2>1 DEF Loaded
<1>7. CASE PickLine(q)
  <2>1. PICK l, n : Choose(q, l, n)
    BY <1>7, Zenon DEF PickLine
  <2>2. t.pc = "put"
    BY <1>0, <1>2, <1>7, <2>1 DEF Choose, Continue, Session
  <2> QED
    BY <2>2
<1>8. CASE InsertItem(q)
  <2>1. t.pc = "again"
    BY <1>2, <1>8 DEF InsertItem, Wrote, Session, Continue
  <2> QED
    BY <2>1
<1>9. CASE ChangeItem(q)
  <2>1. t.pc \in {"find", "again"}
    BY <1>9, ChangeFields
  <2> QED
    BY <2>1
<1>10. CASE UpdateCart(q) \/ SaveTotals(q)
  <2>1. t = Reloading(s, 2) \/ t = Reloading(s, 3)
    BY <1>0, <1>2, <1>10 DEF UpdateCart, SaveTotals, Write, Wrote
  <2>2. t.pc = "refresh"
    BY <1>2, <1>10, <2>1, ReloadingFields DEF Continue
  <2> QED
    BY <2>2
<1>11. CASE PlaceOrder(q)
  <2>1. PICK o : t = [Started("checkout", "redeem", s.who) EXCEPT !.order = o]
    BY <1>0, <1>2, <1>11 DEF PlaceOrder, Wrote
  <2> QED
    BY <1>11, <2>1 DEF Started
<1>12. CASE Redeem(q) \/ Verified(q) \/ Abort(q)
  BY <1>0, <1>12 DEF Redeem, Verified, Abort, End
<1> QED
  BY <1>1, <1>3, <1>4, <1>5, <1>6, <1>7, <1>8, <1>9, <1>10, <1>11, <1>12 DEF Step, Continue

-----------------------------------------------------------------------------
(* Which steps write which rows *)

LEMMA OrderSteps ==
  ASSUME NEW q \in Requests, Step(q)
  PROVE  PlaceOrder(q) \/ Verified(q) \/ UNCHANGED order
BY DEF Step, Arrive, AddFirst, AddItem, UpdateContext, View, CheckoutCart, Open, SelectItem, Verify,
   Continue, Abort, LoadItems, Refresh, Reload, CreateCart, Find, PickLine, InsertItem,
   ChangeItem, Recalculate, UpdateCart, SaveTotals, Write, Redeem

LEMMA CartSteps ==
  ASSUME NEW q \in Requests, Step(q)
  PROVE  CreateCart(q) \/ UpdateCart(q) \/ SaveTotals(q) \/ PlaceOrder(q) \/ UNCHANGED cart
BY DEF Step, Arrive, AddFirst, AddItem, UpdateContext, View, CheckoutCart, Open, SelectItem, Verify,
   Continue, Abort, LoadItems, Refresh, Reload, Find, PickLine, InsertItem,
   ChangeItem, Recalculate, Redeem, Verified

LEMMA CouponSteps ==
  ASSUME NEW q \in Requests, Step(q)
  PROVE  Redeem(q) \/ UNCHANGED <<promo, redeemed>>
BY DEF Step, Arrive, AddFirst, AddItem, UpdateContext, View, CheckoutCart, Open, SelectItem, Verify,
   Continue, Abort, LoadItems, Refresh, Reload, CreateCart, Find, PickLine, InsertItem,
   ChangeItem, Recalculate, UpdateCart, SaveTotals, Write, PlaceOrder, Verified

LEMMA LineSteps ==
  ASSUME NEW q \in Requests, Step(q)
  PROVE  InsertItem(q) \/ ChangeItem(q) \/ UNCHANGED line
BY DEF Step, Arrive, AddFirst, AddItem, UpdateContext, View, CheckoutCart, Open, SelectItem, Verify,
   Continue, Abort, LoadItems, Refresh, Reload, CreateCart, Find, PickLine,
   Recalculate, UpdateCart, SaveTotals, Write, PlaceOrder, Redeem, Verified

LEMMA PromotionSteps ==
  ASSUME EditPromotion \/ DeletePromotion
  PROVE  UNCHANGED <<cart, line, order, sess>> /\ redeemed' \subseteq redeemed
BY DEF EditPromotion, DeletePromotion

-----------------------------------------------------------------------------
(* Sessions and redemptions are right *)

\* A redemption that a request adds is of its own order.
LEMMA Redeems ==
  ASSUME TypeOK, SessionsOK, NEW q \in Requests, Step(q), NEW o \in redeemed' \ redeemed
  PROVE  At(q, "redeem") /\ o = sess[q].order /\ o \in Orders /\ order[o].cart # NoCart
         /\ order[o].cols.coupon /\ order[o].cols.off /\ sess'[q] = Idle
<1>1. Redeem(q)
  BY CouponSteps
<1>2. At(q, "redeem") /\ o = sess[q].order /\ sess'[q] = Idle
  BY <1>1 DEF Redeem, End, TypeOK
<1> QED
  BY <1>2 DEF At, SessionsOK, SessionOK

LEMMA RedeemedNext ==
  ASSUME TypeOK, SessionsOK, RedeemedOK, [Next]_vars
  PROVE  RedeemedOK'
<1>1. ASSUME NEW o \in redeemed'
      PROVE  o \in Orders /\ order[o].cart # NoCart /\ order[o].cols.coupon /\ order[o].cols.off
  <2>1. CASE o \in redeemed
    BY <2>1 DEF RedeemedOK, TypeOK
  <2>2. CASE o \notin redeemed
    <3>1. PICK q \in Requests : Step(q)
      BY <1>1, <2>2, PromotionSteps DEF Next, Step, vars
    <3> QED
      BY <1>1, <2>2, <3>1, Redeems
  <2> QED
    BY <2>1, <2>2
<1> QED
  BY <1>1, OrderKept DEF RedeemedOK

LEMMA SessionsNext ==
  ASSUME TypeOK, SessionsOK, RedeemedOK, DistinctOrders, [Next]_vars
  PROVE  SessionsOK'
<1>1. ASSUME NEW q \in Requests, Step(q), NEW p \in Requests PROVE SessionOK(p)'
  <2>1. CASE p = q
    BY <1>1, <2>1, ArriveOwn, ContinueOwn DEF Step
  <2>2. CASE p # q
    <3>1. Like(p)
      BY <1>1, <2>2, Others
    <3>2. ASSUME ~Free(p) /\ sess[p].pc = "redeem" PROVE sess[p].order \notin redeemed'
      <4>1. sess[p].order \notin redeemed
        BY <3>2 DEF SessionsOK, SessionOK
      <4>2. ~(At(q, "redeem") /\ sess[p].order = sess[q].order)
        BY <2>2, <3>2 DEF DistinctOrders, At
      <4> QED
        BY <1>1, <4>1, <4>2, Redeems
    <3> QED
      BY <3>1, <3>2, SessionKept
  <2> QED
    BY <2>1, <2>2
<1>2. ASSUME UNCHANGED sess, redeemed' \subseteq redeemed, NEW p \in Requests PROVE SessionOK(p)'
  <2>1. ~Free(p) /\ sess[p].pc = "redeem" => sess[p].order \notin redeemed'
    BY <1>2 DEF SessionsOK, SessionOK
  <2> QED
    BY <1>2, <2>1, SameOthers, SessionKept
<1>3. CASE \E q \in Requests : Step(q)
  BY <1>1, <1>3 DEF SessionsOK
<1>4. CASE EditPromotion \/ DeletePromotion \/ UNCHANGED vars
  BY <1>2, <1>4, PromotionSteps DEF SessionsOK, vars
<1> QED
  BY <1>3, <1>4 DEF Next, Step

LEMMA DistinctNext ==
  ASSUME TypeOK, SessionsOK, DistinctOrders, [Next]_vars
  PROVE  DistinctOrders'
<1>1. CASE UNCHANGED sess
  BY <1>1 DEF DistinctOrders, At, Free
<1>2. ASSUME NEW q \in Requests, Step(q) PROVE DistinctOrders'
  <2>1. ASSUME NEW p \in Requests, p # q, At(p, "redeem")'
        PROVE  At(p, "redeem") /\ sess'[p].order = sess[p].order
    <3>1. Like(p)
      BY <1>2, <2>1, Others
    <3>2. ~Free(p) /\ sess[p] \in Session
      BY <2>1, <3>1, Busy DEF Like, At
    <3> QED
      BY <2>1, <3>1, <3>2 DEF Like, At, Session
  <2>2. ASSUME NEW p \in Requests, p # q, At(p, "redeem")', At(q, "redeem")'
        PROVE  sess'[p].order # sess'[q].order
    <3>1. PlaceOrder(q)
      BY <1>2, <2>2, OwnPoint DEF At, Free
    <3>2. PICK o \in Orders : order[o].cart = NoCart /\ sess'[q] = [Started("checkout", "redeem", sess[q].who) EXCEPT !.order = o]
      BY <2>2, <3>1 DEF PlaceOrder, Wrote, At, Free
    <3>3. sess'[q].order = o
      BY <3>2 DEF Started
    <3>4. order[sess[p].order].cart # NoCart
      BY <2>1, <2>2 DEF SessionsOK, SessionOK, At
    <3> QED
      BY <2>1, <2>2, <3>2, <3>3, <3>4
  <2>3. ASSUME NEW p \in Requests, NEW r \in Requests, At(p, "redeem")', At(r, "redeem")',
               sess'[p].order = sess'[r].order, p # r
        PROVE  FALSE
    <3>1. CASE p = q
      BY <2>2, <2>3, <3>1
    <3>2. CASE r = q
      BY <2>2, <2>3, <3>2
    <3>3. CASE p # q /\ r # q
      BY <2>1, <2>3, <3>3 DEF DistinctOrders
    <3> QED
      BY <3>1, <3>2, <3>3
  <2> QED
    BY <2>3 DEF DistinctOrders
<1> QED
  BY <1>1, <1>2, PromotionSteps DEF Next, Step, vars

-----------------------------------------------------------------------------
(* Promises: what exists and what is on its way, together *)

LEMMA Finite == \A S : S \subseteq Requests =>
                  IsFiniteSet(S) /\ Cardinality(S) \in Nat /\ Cardinality(S) <= Cardinality(Requests)
BY FiniteAssumption, FS_Subset, FS_CardinalityType

\* One more exists, and the request that promised it no longer does.
LEMMA Delivered ==
  ASSUME NEW A, NEW x, NEW S, NEW q \in S, NEW bound \in Nat,
         IsFiniteSet(A), IsFiniteSet(S), Cardinality(A) + Cardinality(S) <= bound
  PROVE  /\ IsFiniteSet(A \cup {x}) /\ IsFiniteSet(S \ {q})
         /\ Cardinality(A \cup {x}) + Cardinality(S \ {q}) <= bound
<1>1. IsFiniteSet(A \cup {x}) /\ Cardinality(A \cup {x}) \in Nat
      /\ Cardinality(A \cup {x}) <= Cardinality(A) + 1
  <2>1. IsFiniteSet(A \cup {x})
    BY FS_AddElement
  <2>2. Cardinality(A \cup {x}) = Cardinality(A) \/ Cardinality(A \cup {x}) = Cardinality(A) + 1
    BY FS_AddElement
  <2>3. Cardinality(A) \in Nat /\ Cardinality(A \cup {x}) \in Nat
    BY <2>1, FS_CardinalityType
  <2> QED
    BY <2>1, <2>2, <2>3
<1>2. IsFiniteSet(S \ {q}) /\ Cardinality(S \ {q}) = Cardinality(S) - 1
  BY FS_RemoveElement
<1>3. Cardinality(A) \in Nat /\ Cardinality(S) \in Nat
  BY FS_CardinalityType
<1> QED
  BY <1>1, <1>2, <1>3

\* Neither is more than before.
LEMMA NoMore ==
  ASSUME NEW A, NEW B, NEW S, NEW T, NEW bound \in Nat,
         IsFiniteSet(A), IsFiniteSet(S), B \subseteq A, T \subseteq S,
         Cardinality(A) + Cardinality(S) <= bound
  PROVE  Cardinality(B) + Cardinality(T) <= bound
<1>1. Cardinality(B) <= Cardinality(A) /\ Cardinality(B) \in Nat /\ Cardinality(A) \in Nat
  BY FS_Subset, FS_CardinalityType
<1>2. Cardinality(T) <= Cardinality(S) /\ Cardinality(T) \in Nat /\ Cardinality(S) \in Nat
  BY FS_Subset, FS_CardinalityType
<1> QED
  BY <1>1, <1>2

\* Nothing exists, and everyone may promise.
LEMMA NoneYet ==
  ASSUME NEW B, NEW T, B = {}, T \subseteq Requests
  PROVE  Cardinality(B) + Cardinality(T) <= Cardinality(Requests)
BY Finite, FS_EmptySet

LEMMA PlacingMoves ==
  ASSUME TypeOK, SessionsOK, NEW q \in Requests, Step(q), NEW c \in Carts, ~Active(c)
  PROVE  Placing(c)' \subseteq Placing(c)
<1>1. ASSUME NEW p \in Placing(c)' PROVE p \in Placing(c)
  <2>1. /\ p \in Requests /\ ~Free(p)' /\ sess'[p].cart = c /\ sess'[p].round = 3
        /\ sess'[p].pc \in {"items", "place"}
    BY <1>1 DEF Placing
  <2>2. CASE p # q
    <3>1. Like(p)
      BY <2>1, <2>2, Others
    <3>2. ~Free(p) /\ sess[p] \in Session
      BY <2>1, <3>1, Busy DEF Like
    <3> QED
      BY <2>1, <3>1, <3>2 DEF Like, Placing, Session
  <2>3. CASE p = q
    BY <2>1, <2>3, OwnPoint DEF Free
  <2> QED
    BY <2>2, <2>3
<1> QED
  BY <1>1

\* The status of a cart only changes when it is created and when it is checked out.
LEMMA StatusSteps ==
  ASSUME TypeOK, SessionsOK, NEW q \in Requests, Step(q), NEW c \in Carts, ~PlaceOrder(q)
  PROVE  \/ cart'[c].status = cart[c].status /\ cart'[c].owner = cart[c].owner
         \/ /\ CreateCart(q) /\ cart[c].status = "absent"
            /\ cart'[c].status = "active" /\ cart'[c].owner = sess[q].who
<1>1. CASE CreateCart(q)
  <2>1. PICK d \in Carts :
          /\ cart[d].status = "absent"
          /\ cart' = [cart EXCEPT ![d] = [status |-> "active", owner |-> sess[q].who,
                                         cols |-> NewPricing]]
    BY <1>1 DEF CreateCart
  <2> QED
    BY <1>1, <2>1 DEF TypeOK
<1>2. CASE UpdateCart(q) \/ SaveTotals(q)
  BY <1>2 DEF UpdateCart, SaveTotals, Write, TypeOK, Cart
<1> QED
  BY <1>1, <1>2, CartSteps

LEMMA OrdersNext ==
  ASSUME TypeOK, SessionsOK, OrdersPromised, [Next]_vars
  PROVE  OrdersPromised'
<1>1. SUFFICES ASSUME NEW c \in Carts, NEW q \in Requests, Step(q)
               PROVE  /\ cart'[c].status = "checked_out" <=> OrdersOf(c)' # {}
                      /\ Cardinality(OrdersOf(c)') + Cardinality(Placing(c)') <= Cardinality(Requests)
  <2>1. ASSUME UNCHANGED <<cart, order, sess>> PROVE OrdersPromised'
    BY <2>1 DEF OrdersPromised, OrdersOf, Placing, Free
  <2> QED
    BY <1>1, <2>1, PromotionSteps DEF OrdersPromised, Next, Step, vars
<1>2. /\ cart[c].status = "checked_out" <=> OrdersOf(c) # {}
      /\ Cardinality(OrdersOf(c)) + Cardinality(Placing(c)) <= Cardinality(Requests)
  BY DEF OrdersPromised
<1>3. /\ IsFiniteSet(OrdersOf(c)) /\ IsFiniteSet(Placing(c)) /\ Cardinality(Requests) \in Nat
      /\ Placing(c)' \subseteq Requests
  BY FiniteAssumption, FS_Subset, FS_CardinalityType DEF OrdersOf, Placing
<1>4. CASE PlaceOrder(q) /\ sess[q].cart = c
  <2>1. PICK o \in Orders :
          /\ order[o].cart = NoCart
          /\ order' = [order EXCEPT ![o] =
               [cart |-> sess[q].cart, goods |-> sess[q].goods, cols |-> sess[q].mine,
                alone |-> sess[q].alone, paid |-> FALSE, verified |-> 0]]
    BY <1>4 DEF PlaceOrder
  <2>2. OrdersOf(c)' = OrdersOf(c) \cup {o}
    BY <1>4, <2>1 DEF OrdersOf, TypeOK
  <2>3. cart'[c].status = "checked_out"
    BY <1>4 DEF PlaceOrder, TypeOK, Cart
  <2>4. q \in Placing(c)
    BY <1>4 DEF PlaceOrder, At, SessionsOK, SessionOK, Placing
  <2>5. Placing(c)' \subseteq Placing(c) \ {q}
    <3>1. ASSUME NEW p \in Placing(c)' PROVE p \in Placing(c) /\ p # q
      <4>1. /\ p \in Requests /\ ~Free(p)' /\ sess'[p].cart = c /\ sess'[p].round = 3
            /\ sess'[p].pc \in {"items", "place"}
        BY <3>1 DEF Placing
      <4>2. p # q
        <5>1. sess'[q] = Idle \/ \E o1 : sess'[q] = [Started("checkout", "redeem", sess[q].who) EXCEPT !.order = o1]
          BY <1>4 DEF PlaceOrder, Wrote
        <5>2. sess'[q] = Idle \/ sess'[q].pc = "redeem"
          BY <5>1 DEF Started
        <5> QED
          BY <4>1, <5>2 DEF Free
      <4>3. Like(p)
        BY <1>1, <4>1, <4>2, Others
      <4>4. ~Free(p) /\ sess[p] \in Session
        BY <4>1, <4>3, Busy DEF Like
      <4> QED
        BY <4>1, <4>2, <4>3, <4>4 DEF Like, Placing, Session
    <3> QED
      BY <3>1
  <2>6. Cardinality(OrdersOf(c)') + Cardinality(Placing(c)') <= Cardinality(Requests)
    <3>1. /\ IsFiniteSet(OrdersOf(c) \cup {o}) /\ IsFiniteSet(Placing(c) \ {q})
          /\ Cardinality(OrdersOf(c) \cup {o}) + Cardinality(Placing(c) \ {q})
               <= Cardinality(Requests)
      BY <1>2, <1>3, <2>4, Delivered
    <3> QED
      BY <1>3, <2>2, <2>5, <3>1, NoMore
  <2> QED
    BY <2>2, <2>3, <2>6
<1>5. CASE ~(PlaceOrder(q) /\ sess[q].cart = c)
  <2>1. OrdersOf(c)' = OrdersOf(c)
    <3>1. CASE PlaceOrder(q)
      <4>1. PICK o \in Orders :
              /\ order[o].cart = NoCart
              /\ order' = [order EXCEPT ![o] =
                   [cart |-> sess[q].cart, goods |-> sess[q].goods, cols |-> sess[q].mine,
                    alone |-> sess[q].alone, paid |-> FALSE, verified |-> 0]]
        BY <3>1 DEF PlaceOrder
      <4> QED
        BY <1>5, <3>1, <4>1, NoneAssumption DEF OrdersOf, TypeOK
    <3>2. CASE Verified(q)
      BY <3>2 DEF Verified, OrdersOf, TypeOK, Order
    <3> QED
      BY <1>1, <3>1, <3>2, OrderSteps DEF OrdersOf
  <2>2. cart'[c].status = "checked_out" <=> cart[c].status = "checked_out"
    <3>1. CASE PlaceOrder(q)
      BY <1>5, <3>1 DEF PlaceOrder, TypeOK
    <3> QED
      BY <1>1, <3>1, StatusSteps
  <2>3. CASE Active(c)
    <3>1. OrdersOf(c)' = {}
      BY <1>2, <2>1, <2>3 DEF Active
    <3> QED
      BY <1>2, <1>3, <2>1, <2>2, <3>1, NoneYet
  <2>4. CASE ~Active(c)
    <3>1. Placing(c)' \subseteq Placing(c)
      BY <1>1, <2>4, PlacingMoves
    <3>2. Cardinality(OrdersOf(c)') + Cardinality(Placing(c)') <= Cardinality(Requests)
      BY <1>2, <1>3, <2>1, <3>1, NoMore
    <3> QED
      BY <1>2, <2>1, <2>2, <3>2
  <2> QED
    BY <2>3, <2>4
<1> QED
  BY <1>4, <1>5

LEMMA CreatingMoves ==
  ASSUME TypeOK, SessionsOK, NEW q \in Requests, Step(q), NEW u \in Customers, ~AddFirst(q, u)
  PROVE  Creating(u)' \subseteq Creating(u) \ {q}
<1>1. ASSUME NEW p \in Creating(u)' PROVE p \in Creating(u) /\ p # q
  <2>1. p \in Requests /\ ~Free(p)' /\ sess'[p].who = u /\ sess'[p].pc = "create"
    BY <1>1 DEF Creating, At
  <2>2. p # q
    BY <2>1, OwnPoint DEF Free
  <2>3. Like(p)
    BY <2>1, <2>2, Others
  <2>4. ~Free(p) /\ sess[p] \in Session
    BY <2>1, <2>3, Busy DEF Like
  <2> QED
    BY <2>1, <2>2, <2>3, <2>4 DEF Like, Creating, At, Session
<1> QED
  BY <1>1

LEMMA CartsNext ==
  ASSUME TypeOK, SessionsOK, CartsPromised, [Next]_vars
  PROVE  CartsPromised'
<1>1. SUFFICES ASSUME NEW u \in Customers, NEW q \in Requests, Step(q)
               PROVE  Cardinality(ActiveCarts(u)') + Cardinality(Creating(u)') <= Cardinality(Requests)
  <2>1. ASSUME UNCHANGED <<cart, sess>> PROVE CartsPromised'
    BY <2>1 DEF CartsPromised, ActiveCarts, Active, Creating, At, Free
  <2> QED
    BY <1>1, <2>1, PromotionSteps DEF CartsPromised, Next, Step, vars
<1>2. Cardinality(ActiveCarts(u)) + Cardinality(Creating(u)) <= Cardinality(Requests)
  BY DEF CartsPromised
<1>3. /\ IsFiniteSet(ActiveCarts(u)) /\ IsFiniteSet(Creating(u)) /\ Cardinality(Requests) \in Nat
      /\ Creating(u)' \subseteq Requests
  BY FiniteAssumption, FS_Subset, FS_CardinalityType DEF ActiveCarts, Creating
<1>4. CASE AddFirst(q, u)
  <2>1. ActiveCarts(u)' = {}
    BY <1>4 DEF AddFirst, ActiveCarts, Active
  <2> QED
    BY <1>3, <2>1, NoneYet
<1>5. CASE CreateCart(q) /\ sess[q].who = u
  <2>1. PICK c \in Carts :
          cart' = [cart EXCEPT ![c] = [status |-> "active", owner |-> sess[q].who,
                                       cols |-> NewPricing]]
    BY <1>5 DEF CreateCart
  <2>2. ActiveCarts(u)' \subseteq ActiveCarts(u) \cup {c}
    BY <2>1 DEF ActiveCarts, Active, TypeOK
  <2>3. q \in Creating(u)
    BY <1>5 DEF CreateCart, Creating
  <2>4. ~AddFirst(q, u)
    BY <1>5 DEF CreateCart, AddFirst, At
  <2>5. Creating(u)' \subseteq Creating(u) \ {q}
    BY <1>1, <2>4, CreatingMoves
  <2>6. /\ IsFiniteSet(ActiveCarts(u) \cup {c}) /\ IsFiniteSet(Creating(u) \ {q})
        /\ Cardinality(ActiveCarts(u) \cup {c}) + Cardinality(Creating(u) \ {q})
             <= Cardinality(Requests)
    BY <1>2, <1>3, <2>3, Delivered
  <2> QED
    BY <1>3, <2>2, <2>5, <2>6, NoMore
<1>6. CASE ~AddFirst(q, u) /\ ~(CreateCart(q) /\ sess[q].who = u)
  <2>1. ActiveCarts(u)' \subseteq ActiveCarts(u)
    <3>1. ASSUME NEW c \in Carts, Active(c)', cart'[c].owner = u
          PROVE  Active(c) /\ cart[c].owner = u
      <4>1. CASE PlaceOrder(q)
        BY <3>1, <4>1 DEF PlaceOrder, TypeOK, Active, Cart
      <4> QED
        BY <1>1, <1>6, <3>1, <4>1, StatusSteps DEF Active
    <3> QED
      BY <3>1 DEF ActiveCarts
  <2>2. Creating(u)' \subseteq Creating(u)
    BY <1>1, <1>6, CreatingMoves
  <2> QED
    BY <1>2, <1>3, <2>1, <2>2, NoMore
<1> QED
  BY <1>4, <1>5, <1>6

LEMMA VerifyingMoves ==
  ASSUME TypeOK, SessionsOK, NEW q \in Requests, Step(q), NEW o \in Orders, ~Verify(q, o)
  PROVE  Verifying(o)' \subseteq Verifying(o) \ {q}
<1>1. ASSUME NEW p \in Verifying(o)' PROVE p \in Verifying(o) /\ p # q
  <2>1. p \in Requests /\ ~Free(p)' /\ sess'[p].order = o /\ sess'[p].pc = "call"
    BY <1>1 DEF Verifying, At
  <2>2. p # q
    BY <2>1, OwnPoint DEF Free
  <2>3. Like(p)
    BY <2>1, <2>2, Others
  <2>4. ~Free(p) /\ sess[p] \in Session
    BY <2>1, <2>3, Busy DEF Like
  <2> QED
    BY <2>1, <2>2, <2>3, <2>4 DEF Like, Verifying, At, Session
<1> QED
  BY <1>1

LEMMA PaymentsNext ==
  ASSUME TypeOK, SessionsOK, PaymentsPromised, [Next]_vars
  PROVE  PaymentsPromised'
<1>1. SUFFICES ASSUME NEW o \in Orders, NEW q \in Requests, Step(q)
               PROVE  /\ order'[o].paid <=> order'[o].verified > 0
                      /\ order'[o].verified + Cardinality(Verifying(o)') <= Cardinality(Requests)
  <2>1. ASSUME UNCHANGED <<order, sess>> PROVE PaymentsPromised'
    BY <2>1 DEF PaymentsPromised, Verifying, At, Free
  <2> QED
    BY <1>1, <2>1, PromotionSteps DEF PaymentsPromised, Next, Step, vars
<1>2. /\ order[o].paid <=> order[o].verified > 0
      /\ order[o].verified + Cardinality(Verifying(o)) <= Cardinality(Requests)
  BY DEF PaymentsPromised
<1>3. order[o].verified \in Nat
  BY DEF TypeOK, Order
<1>4. /\ IsFiniteSet(Verifying(o)) /\ Cardinality(Verifying(o)) \in Nat
      /\ Cardinality(Requests) \in Nat
      /\ Cardinality(Verifying(o)') \in Nat
      /\ Cardinality(Verifying(o)') <= Cardinality(Requests)
  BY Finite DEF Verifying
<1>5. CASE Verify(q, o)
  <2>1. order[o].verified = 0 /\ order' = order
    BY <1>2, <1>3, <1>5 DEF Verify
  <2> QED
    BY <1>2, <1>4, <2>1
<1>6. CASE Verified(q) /\ sess[q].order = o
  <2>1. order'[o].paid = TRUE /\ order'[o].verified = order[o].verified + 1
    BY <1>6 DEF Verified, TypeOK, Order
  <2>2. q \in Verifying(o)
    BY <1>6 DEF Verified, Verifying
  <2>3. Verifying(o)' \subseteq Verifying(o) \ {q}
    BY <1>1, <1>6, VerifyingMoves DEF Verified, Verify, At
  <2>4. Cardinality(Verifying(o) \ {q}) = Cardinality(Verifying(o)) - 1
        /\ IsFiniteSet(Verifying(o) \ {q})
    BY <1>4, <2>2, FS_RemoveElement
  <2>5. Cardinality(Verifying(o)') <= Cardinality(Verifying(o) \ {q})
    BY <2>3, <2>4, FS_Subset
  <2> QED
    BY <1>2, <1>3, <1>4, <2>1, <2>4, <2>5
<1>7. CASE ~Verify(q, o) /\ ~(Verified(q) /\ sess[q].order = o)
  <2>1. \/ order'[o].paid = FALSE /\ order'[o].verified = 0
        \/ order'[o].paid = order[o].paid /\ order'[o].verified = order[o].verified
    <3>1. CASE PlaceOrder(q)
      <4>1. PICK p \in Orders :
              order' = [order EXCEPT ![p] =
                [cart |-> sess[q].cart, goods |-> sess[q].goods, cols |-> sess[q].mine,
                 alone |-> sess[q].alone, paid |-> FALSE, verified |-> 0]]
        BY <3>1 DEF PlaceOrder
      <4> QED
        BY <4>1 DEF TypeOK
    <3>2. CASE Verified(q)
      BY <1>7, <3>2 DEF Verified, TypeOK, Order
    <3> QED
      BY <1>1, <3>1, <3>2, OrderSteps
  <2>2. Verifying(o)' \subseteq Verifying(o)
    BY <1>1, <1>7, VerifyingMoves
  <2>3. Cardinality(Verifying(o)') <= Cardinality(Verifying(o))
    BY <1>4, <2>2, FS_Subset
  <2> QED
    BY <1>2, <1>3, <1>4, <2>1, <2>3
<1> QED
  BY <1>5, <1>6, <1>7

-----------------------------------------------------------------------------
(* The coupon *)

LEMMA CouponNext ==
  ASSUME TypeOK, SessionsOK, RedeemedOK, CouponSupply, [Next]_vars
  PROVE  CouponSupply'
<1>1. RedeemedOK'
  BY RedeemedNext
<1>2. SUFFICES ASSUME promo'.status # "deleted"
               PROVE  promo'.used = Cardinality(redeemed') /\ promo'.used <= UsageLimit
  BY <1>1, <1>2 DEF CouponSupply, RedeemedOK
<1>3. IsFiniteSet(redeemed) /\ Cardinality(redeemed) \in Nat
  BY FiniteAssumption, FS_Subset, FS_CardinalityType DEF TypeOK
<1>4. promo \in Promotion
  BY DEF TypeOK
<1>5. CASE UNCHANGED <<promo, redeemed>>
  BY <1>2, <1>5 DEF CouponSupply
<1>6. ASSUME NEW q \in Requests, Redeem(q), ~UNCHANGED <<promo, redeemed>>
      PROVE  promo'.used = Cardinality(redeemed') /\ promo'.used <= UsageLimit
  <2>1. /\ promo.status # "deleted" /\ promo.used < UsageLimit
        /\ promo' = [promo EXCEPT !.used = @ + 1]
        /\ redeemed' = redeemed \cup {sess[q].order}
    BY <1>6 DEF Redeem
  <2>2. sess[q].order \notin redeemed
    BY <1>6 DEF Redeem, At, SessionsOK, SessionOK
  <2>3. Cardinality(redeemed') = Cardinality(redeemed) + 1
    BY <1>3, <2>1, <2>2, FS_AddElement
  <2>4. promo'.used = promo.used + 1 /\ promo.used \in Nat
    BY <1>4, <2>1 DEF Promotion
  <2> QED
    BY <2>1, <2>3, <2>4, LimitAssumption DEF CouponSupply
<1>7. CASE EditPromotion
  <2>1. UNCHANGED redeemed /\ promo'.used = promo.used /\ promo.status # "deleted"
    BY <1>4, <1>7 DEF EditPromotion, Promotion
  <2> QED
    BY <2>1 DEF CouponSupply
<1>8. CASE DeletePromotion
  BY <1>2, <1>4, <1>8 DEF DeletePromotion, Promotion
<1> QED
  BY <1>5, <1>6, <1>7, <1>8, CouponSteps DEF Next, Step, vars

-----------------------------------------------------------------------------
(* The copy of an undisturbed checkout *)

\* A request that is still alone with its cart finds it as it was.
LEMMA Quiet ==
  ASSUME TypeOK, SessionsOK, NEW q \in Requests, Step(q), NEW p \in Requests, p # q, ~Free(p),
         sess[p].pc \in InCart, sess'[p].alone, NEW c, c = sess[p].cart
  PROVE  /\ Contents(c)' = Contents(c)
         /\ cart'[c].cols = cart[c].cols
<1>1. c \in Carts /\ cart[c].status # "absent" /\ c # NoCart
  BY NoneAssumption DEF SessionsOK, SessionOK
<1>2. ASSUME NEW d, NEW s, Wrote(q, d, s) PROVE c # d
  BY <1>2, WroteOthers
<1>3. Contents(c)' = Contents(c)
  <2>1. CASE InsertItem(q)
    <3>1. sess[q].cart # c
      BY <1>2, <2>1 DEF InsertItem
    <3>2. PICK l \in Lines :
            /\ line[l].cart = NoCart
            /\ line' = [line EXCEPT ![l] = [cart |-> sess[q].cart, qty |-> sess[q].qty]]
      BY <2>1 DEF InsertItem
    <3> QED
      BY <1>1, <3>1, <3>2 DEF Contents, TypeOK
  <2>2. CASE ChangeItem(q) /\ line' # line
    <3>1. /\ line' = [line EXCEPT ![sess[q].line].qty = sess[q].qty]
          /\ line[sess[q].line].cart # c
      BY <1>2, <2>2 DEF ChangeItem
    <3> QED
      BY <3>1 DEF Contents, TypeOK, Line
  <2> QED
    BY <2>1, <2>2, LineSteps DEF Contents
<1>4. cart'[c].cols = cart[c].cols
  <2>1. CASE CreateCart(q)
    <3>1. PICK d \in Carts :
            /\ cart[d].status = "absent"
            /\ cart' = [cart EXCEPT ![d] = [status |-> "active", owner |-> sess[q].who,
                                           cols |-> NewPricing]]
      BY <2>1 DEF CreateCart
    <3> QED
      BY <1>1, <3>1 DEF TypeOK
  <2>2. ASSUME NEW mine, NEW next, Write(q, mine, next) PROVE cart'[c].cols = cart[c].cols
    <3> DEFINE d == sess[q].cart
    <3>1. cart' = [cart EXCEPT ![d].cols = Written(d, mine, sess[q].seen)]
      BY <2>2 DEF Write
    <3>2. CASE mine = sess[q].seen
      <4>1. cart[c].cols \in Pricing
        BY <1>1 DEF TypeOK, Cart
      <4>2. Written(c, mine, sess[q].seen) = cart[c].cols
        BY <3>2, <4>1 DEF Written, Pricing
      <4> QED
        BY <1>1, <3>1, <4>2 DEF TypeOK, Cart
    <3>3. CASE mine # sess[q].seen
      <4>1. d # c
        BY <1>2, <2>2, <3>3 DEF Write
      <4> QED
        BY <1>1, <3>1, <4>1 DEF TypeOK
    <3> QED
      BY <3>2, <3>3
  <2>3. CASE PlaceOrder(q)
    BY <1>1, <2>3 DEF PlaceOrder, TypeOK, Cart
  <2> QED
    BY <2>1, <2>2, <2>3, CartSteps DEF UpdateCart, SaveTotals
<1> QED
  BY <1>3, <1>4

\* The copy of one request while another one takes a step.
LEMMA CopyKept ==
  ASSUME TypeOK, SessionsOK, CopiesOK, NEW q \in Requests, Step(q),
         NEW p \in Requests, p # q, ~Free(p)', sess'[p].kind = "checkout",
         sess'[p].pc # "redeem", sess'[p].alone
  PROVE  CopyOK(sess[p])'
<1> DEFINE s == sess[p]
           t == sess'[p]
<1>1. Like(p)
  BY Others
<1>2. ~Free(p) /\ s \in Session
  BY <1>1, Busy DEF Like
<1>3. /\ t.kind = s.kind /\ t.pc = s.pc /\ t.round = s.round /\ t.cart = s.cart /\ t.goods = s.goods
      /\ t.seen = s.seen /\ t.mine = s.mine /\ s.alone
  BY <1>1, <1>2 DEF Like, Session
<1>4. s.pc \in InCart
  BY <1>2, <1>3 DEF SessionsOK, SessionOK, CheckoutPoints
<1>5. PICK c : c = s.cart
  OBVIOUS
<1>6. Contents(c)' = Contents(c) /\ cart'[c].cols = cart[c].cols
  BY <1>2, <1>4, <1>5, Quiet
<1>7. CopyOK(s)
  BY <1>2, <1>3 DEF CopiesOK
<1>8. t.cart = c
  BY <1>3, <1>5
<1>9. Contents(s.cart)' = Contents(c)
  BY <1>6, <1>8 DEF Contents
<1> HIDE DEF s, t
<1> QED
  BY <1>3, <1>5, <1>6, <1>7, <1>8, <1>9 DEF CopyOK, s, t

LEMMA CopyIntro ==
  ASSUME NEW q \in Requests, NEW c, NEW goods, NEW cols,
         sess'[q].cart = c, Contents(c)' = goods, cart'[c].cols = cols,
         ~(sess'[q].pc = "items" /\ sess'[q].round = 1) => goods # Nothing,
         sess'[q].pc \in {"update", "quote", "save", "place"} => sess'[q].goods = goods,
         sess'[q].pc # "refresh" => sess'[q].seen = cols,
         sess'[q].pc \notin {"refresh", "save"} => sess'[q].mine = cols,
         sess'[q].pc = "save" => sess'[q].mine = Priced(sess'[q].mine.coupon, goods),
         sess'[q].round = 3 => cols = Priced(cols.coupon, goods)
  PROVE  CopyOK(sess[q])'
<1>1. Contents(sess[q].cart)' = goods
  BY DEF Contents
<1>2. Nothing' = Nothing /\ \A x, y : Priced(x, y)' = Priced(x, y)
  BY DEF Nothing, Priced
<1> QED
  BY <1>1, <1>2 DEF CopyOK

\* The copy of the request that takes the step.  PICK d names the cart by a
\* constant, so that Contents(d)' are the new contents of that same cart.
LEMMA CopyOwn ==
  ASSUME TypeOK, SessionsOK, CopiesOK, NEW q \in Requests, Step(q), ~Free(q)',
         sess'[q].kind = "checkout", sess'[q].pc # "redeem", sess'[q].alone
  PROVE  CopyOK(sess[q])'
<1> DEFINE s == sess[q]
           t == sess'[q]
<1>0. sess \in [Requests -> Session \cup {Idle}] /\ t # Idle
  BY DEF TypeOK, Free
<1>1. ASSUME Arrive(q) PROVE CopyOK(sess[q])'
  <2>1. ASSUME NEW u, AddFirst(q, u) PROVE FALSE
    BY <1>0, <2>1 DEF AddFirst, Started
  <2>2. ASSUME NEW l, NEW n, SelectItem(q, l, n) PROVE FALSE
    BY <1>0, <2>2 DEF SelectItem, Started
  <2>3. ASSUME NEW o, Verify(q, o) PROVE FALSE
    BY <1>0, <2>3 DEF Verify, Started
  <2>4. PICK c, kind, want : Open(q, kind, c, want)
    BY <1>1, <2>1, <2>2, <2>3 DEF Arrive, AddItem, UpdateContext, View, CheckoutCart
  <2>5. t = Loaded(kind, "items", c, want) /\ UNCHANGED <<cart, line>>
    BY <1>0, <2>4 DEF Open
  <2>6. /\ t.pc = "items" /\ t.round = 1 /\ t.cart = c
        /\ t.seen = cart[c].cols /\ t.mine = cart[c].cols
    BY <2>5 DEF Loaded
  <2> HIDE DEF s, t
  <2> QED
    BY <2>5, <2>6, CopyIntro DEF t
<1>2. ASSUME Continue(q) \/ Abort(q) PROVE ~Free(q) /\ s \in Session /\ SessionOK(q)
  BY <1>2, Busy DEF Continue, Abort, LoadItems, Refresh, Reload, CreateCart, Find,
     PickLine, InsertItem, ChangeItem, Recalculate, UpdateCart, SaveTotals, PlaceOrder, Redeem,
     Verified, At, SessionsOK
<1>3. SUFFICES ASSUME Continue(q) \/ Abort(q), s.kind = "checkout" => CopyOK(s) \/ ~s.alone \/ s.pc = "redeem",
                      ~Free(q), s \in Session, SessionOK(q)
               PROVE  CopyOK(sess[q])'
  BY <1>1, <1>2, <1>3 DEF Step, CopiesOK
<1>4. CASE LoadItems(q)
  <2> DEFINE c == s.cart
  <2>1. /\ t = [s EXCEPT !.goods = Contents(c), !.pc = WithItems(s)] /\ s.pc = "items"
        /\ UNCHANGED <<cart, line>>
        /\ s.kind = "checkout" /\ s.round = 1 => Contents(c) # Nothing
    BY <1>0, <1>3, <1>4 DEF LoadItems, End, At
  <2>2. /\ t.kind = s.kind /\ t.pc = WithItems(s) /\ t.round = s.round /\ t.cart = c
        /\ t.goods = Contents(c) /\ t.seen = s.seen /\ t.mine = s.mine /\ t.alone = s.alone
    <3> HIDE DEF s, t
    <3> QED
      BY <1>3, <2>1 DEF Session
  <2>3. CopyOK(s) /\ Contents(c) # Nothing
    BY <1>3, <2>1, <2>2 DEF CopyOK
  <2>4. WithItems(s) \in {"place", "pick", "update", "quote"}
    BY DEF WithItems
  <2>5. PICK d : d = c
    OBVIOUS
  <2>6. Contents(d)' = Contents(d) /\ cart' = cart
    BY <2>1 DEF Contents
  <2>7. /\ s.seen = cart[d].cols /\ s.mine = cart[d].cols
        /\ s.round = 3 => cart[d].cols = Priced(cart[d].cols.coupon, Contents(d))
    BY <2>1, <2>3, <2>5 DEF CopyOK
  <2> HIDE DEF s, t
  <2> QED
    BY <2>2, <2>3, <2>4, <2>5, <2>6, <2>7, CopyIntro DEF t
<1>5. CASE Refresh(q)
  <2>1. PICK d : d = s.cart
    OBVIOUS
  <2>2. /\ t = [s EXCEPT !.seen = cart[d].cols, !.mine = cart[d].cols, !.pc = "again"]
        /\ s.pc = "refresh" /\ UNCHANGED <<cart, line>>
    BY <1>0, <1>3, <1>5, <2>1 DEF Refresh, At
  <2>3. /\ t.kind = s.kind /\ t.pc = "again" /\ t.round = s.round /\ t.cart = d
        /\ t.seen = cart[d].cols /\ t.mine = cart[d].cols /\ t.alone = s.alone
    <3> HIDE DEF s, t
    <3> QED
      BY <1>3, <2>1, <2>2 DEF Session
  <2>4. CopyOK(s) /\ Contents(d) # Nothing
        /\ (s.round = 3 => cart[d].cols = Priced(cart[d].cols.coupon, Contents(d)))
    BY <1>3, <2>1, <2>2, <2>3 DEF CopyOK
  <2>5. Contents(d)' = Contents(d) /\ cart' = cart
    BY <2>2 DEF Contents
  <2> HIDE DEF s, t
  <2> QED
    BY <2>3, <2>4, <2>5, CopyIntro DEF t
<1>6. CASE Reload(q)
  <2>1. PICK d : d = s.cart
    OBVIOUS
  <2>2. /\ t = [s EXCEPT !.pc = IF s.kind = "add" THEN "quote" ELSE "items"]
        /\ s.pc = "again" /\ UNCHANGED <<cart, line>>
    BY <1>0, <1>3, <1>6 DEF Reload, At, Goto, End
  <2>3. /\ t.kind = s.kind /\ t.round = s.round /\ t.cart = d
        /\ t.seen = s.seen /\ t.mine = s.mine /\ t.alone = s.alone
    BY <1>3, <2>1, <2>2 DEF Session
  <2>4. t.pc = "items"
    BY <1>3, <2>2, <2>3 DEF Session
  <2>5. /\ Contents(d) # Nothing /\ s.seen = cart[d].cols /\ s.mine = cart[d].cols
        /\ (s.round = 3 => cart[d].cols = Priced(cart[d].cols.coupon, Contents(d)))
    BY <1>3, <2>1, <2>2, <2>3 DEF CopyOK
  <2>6. Contents(d)' = Contents(d) /\ cart' = cart
    BY <2>2 DEF Contents
  <2> HIDE DEF s, t
  <2> QED
    BY <2>3, <2>4, <2>5, <2>6, CopyIntro DEF t
<1>7. CASE UpdateCart(q)
  <2>1. t = Reloading(s, 2) /\ s.pc = "update" /\ UNCHANGED line
    BY <1>0, <1>3, <1>7 DEF UpdateCart, Write, Wrote, At
  <2>2. t.pc = "refresh" /\ t.round = 2 /\ t.kind = s.kind /\ t.cart = s.cart /\ t.alone = s.alone
    <3>1. s \in Session /\ t = Reloading(s, 2)
      BY <1>3, <2>1
    <3> HIDE DEF s, t
    <3> QED
      BY <3>1, ReloadingFields
  <2>3. PICK d : d = s.cart
    OBVIOUS
  <2>4. Contents(d) # Nothing
    BY <1>3, <2>1, <2>2, <2>3 DEF CopyOK
  <2>5. Contents(d)' = Contents(d)
    BY <2>1 DEF Contents
  <2>6. sess'[q].cart = d /\ sess'[q].pc = "refresh" /\ sess'[q].round = 2
    BY <2>2, <2>3
  <2>7. Contents(sess[q].cart)' # Nothing'
    BY <2>4, <2>5, <2>6 DEF Contents, Nothing
  <2> QED
    BY <2>6, <2>7 DEF CopyOK
<1>8. CASE Recalculate(q)
  <2>1. PICK coupon : /\ t = [s EXCEPT !.mine = Priced(coupon, s.goods), !.pc = "save"]
                      /\ s.pc = "quote" /\ UNCHANGED <<cart, line>>
    BY <1>0, <1>3, <1>8 DEF Recalculate, At, End
  <2>2. /\ t.kind = s.kind /\ t.pc = "save" /\ t.round = s.round /\ t.cart = s.cart
        /\ t.goods = s.goods /\ t.seen = s.seen /\ t.mine = Priced(coupon, s.goods)
        /\ t.alone = s.alone
    <3> HIDE DEF s, t
    <3> QED
      BY <1>3, <2>1 DEF Session
  <2>3. PICK d : d = s.cart
    OBVIOUS
  <2>4. Contents(d) # Nothing /\ s.goods = Contents(d) /\ s.seen = cart[d].cols
    BY <1>3, <2>1, <2>2, <2>3 DEF CopyOK
  <2>5. Contents(d)' = Contents(d) /\ cart' = cart
    BY <2>1 DEF Contents
  <2>6. s.round < 3 /\ s.round \in 1..3
    BY <1>3, <2>1 DEF SessionOK, Session
  <2>7. t.mine = Priced(t.mine.coupon, Contents(d))
    BY <2>2, <2>4 DEF Priced
  <2> HIDE DEF s, t
  <2> QED
    BY <2>2, <2>3, <2>4, <2>5, <2>6, <2>7, CopyIntro DEF t
<1>9. CASE SaveTotals(q)
  <2>1. /\ t.pc = "refresh" /\ t.round = 3 /\ t.kind = s.kind /\ t.cart = s.cart
        /\ t.alone = s.alone /\ s.pc = "save" /\ UNCHANGED line
    <3>1. t = Reloading(s, 3) /\ s.pc = "save" /\ UNCHANGED line
      BY <1>0, <1>3, <1>9 DEF SaveTotals, Write, Wrote, At
    <3>2. s \in Session
      BY <1>3
    <3> HIDE DEF s, t
    <3> QED
      BY <3>1, <3>2, ReloadingFields
  <2>2. PICK d \in Carts : d = s.cart
    BY <1>3, <2>1 DEF SessionOK, InCart
  <2>3. /\ Contents(d) # Nothing /\ s.seen = cart[d].cols
        /\ s.mine = Priced(s.mine.coupon, Contents(d))
    BY <1>3, <2>1, <2>2 DEF CopyOK
  <2>4. Contents(d)' = Contents(d)
    BY <2>1 DEF Contents
  <2>5. cart'[d].cols = s.mine
    <3>1. s.mine \in Pricing /\ s.seen \in Pricing
      BY <1>3 DEF Session
    <3>2. Written(d, s.mine, s.seen) = s.mine
      BY <2>3, <3>1 DEF Written, Pricing
    <3>3. cart'[d].cols = Written(d, s.mine, s.seen)
      BY <1>9, <2>2 DEF SaveTotals, Write, TypeOK, Cart
    <3> QED
      BY <3>2, <3>3
  <2>6. PICK mine : mine = s.mine
    OBVIOUS
  <2> HIDE DEF s, t
  <2> QED
    BY <2>1, <2>2, <2>3, <2>4, <2>5, <2>6, CopyIntro DEF t
<1>10. CASE CreateCart(q) \/ PickLine(q)
  <2>1. s.kind = "add"
    BY <1>3, <1>10 DEF CreateCart, PickLine, At, SessionOK
  <2>2. t.kind = s.kind
    <3>1. CASE CreateCart(q)
      BY <1>0, <1>3, <3>1 DEF CreateCart, Goto, Session
    <3>2. CASE PickLine(q)
      <4>1. PICK l, n : Choose(q, l, n)
        BY <3>2, Zenon DEF PickLine
      <4> QED
        BY <1>0, <1>3, <4>1 DEF Choose, Session
    <3> QED
      BY <1>10, <3>1, <3>2
  <2> QED
    BY <2>1, <2>2
<1>11. CASE Find(q)
  <2>1. PICK c : t = Loaded(s.kind, "items", c, "keep")
    BY <1>0, <1>11 DEF Find, End
  <2>2. s.kind # "checkout"
    BY <1>3, <1>11 DEF Find, At, SessionOK
  <2> QED
    BY <2>1, <2>2 DEF Loaded
<1>12. CASE InsertItem(q) \/ ChangeItem(q)
  <2>1. s.kind # "checkout"
    BY <1>3, <1>12 DEF InsertItem, ChangeItem, At, SessionOK
  <2>2. t.kind = s.kind
    <3>1. CASE InsertItem(q)
      BY <1>3, <3>1 DEF InsertItem, Wrote, Session
    <3>2. CASE ChangeItem(q)
      BY <1>0, <3>2, ChangeFields
    <3> QED
      BY <1>12, <3>1, <3>2
  <2> QED
    BY <2>1, <2>2
<1>13. CASE PlaceOrder(q)
  <2>1. PICK o : t = [Started("checkout", "redeem", s.who) EXCEPT !.order = o]
    BY <1>0, <1>13 DEF PlaceOrder, Wrote
  <2> QED
    BY <2>1 DEF Started
<1>14. CASE Redeem(q) \/ Verified(q) \/ Abort(q)
  BY <1>0, <1>14 DEF Redeem, Verified, Abort, End
<1> QED
  BY <1>3, <1>4, <1>5, <1>6, <1>7, <1>8, <1>9, <1>10, <1>11, <1>12, <1>13, <1>14 DEF Continue

LEMMA CopiesNext ==
  ASSUME TypeOK, SessionsOK, CopiesOK, [Next]_vars
  PROVE  CopiesOK'
<1>1. CASE UNCHANGED <<cart, line, sess>>
  BY <1>1 DEF CopiesOK, CopyOK, Contents, Free
<1>2. ASSUME NEW q \in Requests, Step(q) PROVE CopiesOK'
  <2>1. ASSUME NEW p \in Requests, ~Free(p)', sess'[p].kind = "checkout", sess'[p].pc # "redeem",
               sess'[p].alone
        PROVE  CopyOK(sess[p])'
    BY <1>2, <2>1, CopyOwn, CopyKept
  <2> QED
    BY <2>1 DEF CopiesOK
<1> QED
  BY <1>1, <1>2, PromotionSteps DEF Next, Step, vars

LEMMA ExactNext ==
  ASSUME TypeOK, SessionsOK, CopiesOK, ExactWhenAlone, [Next]_vars
  PROVE  ExactWhenAlone'
<1>1. SUFFICES ASSUME NEW o \in Orders, order'[o].alone
               PROVE  /\ order'[o].goods # Nothing
                      /\ order'[o].cols = Priced(order'[o].cols.coupon, order'[o].goods)
  BY DEF ExactWhenAlone, Nothing, Priced
<1>2. CASE /\ order'[o].alone = order[o].alone /\ order'[o].goods = order[o].goods
           /\ order'[o].cols = order[o].cols
  BY <1>1, <1>2 DEF ExactWhenAlone
<1>3. ASSUME NEW q \in Requests, PlaceOrder(q)
      PROVE  /\ order'[o].goods # Nothing
             /\ order'[o].cols = Priced(order'[o].cols.coupon, order'[o].goods)
  <2> DEFINE s == sess[q]
  <2>1. PICK p \in Orders :
          order' = [order EXCEPT ![p] =
            [cart |-> s.cart, goods |-> s.goods, cols |-> s.mine, alone |-> s.alone,
             paid |-> FALSE, verified |-> 0]]
    BY <1>3 DEF PlaceOrder
  <2>2. CASE p # o
    BY <1>2, <2>1, <2>2 DEF TypeOK
  <2>3. CASE p = o
    <3>1. order'[o].goods = s.goods /\ order'[o].cols = s.mine /\ s.alone
      BY <1>1, <2>1, <2>3 DEF TypeOK
    <3>2. ~Free(q) /\ s.pc = "place" /\ s.round = 3 /\ s.kind = "checkout"
      BY <1>3 DEF PlaceOrder, At, SessionsOK, SessionOK
    <3>3. CopyOK(s)
      BY <3>1, <3>2 DEF CopiesOK
    <3> QED
      BY <3>1, <3>2, <3>3 DEF CopyOK
  <2> QED
    BY <2>2, <2>3
<1>4. ASSUME NEW q \in Requests, Verified(q)
      PROVE  /\ order'[o].alone = order[o].alone /\ order'[o].goods = order[o].goods
             /\ order'[o].cols = order[o].cols
  BY <1>4 DEF Verified, TypeOK, Order
<1>5. CASE UNCHANGED order
  BY <1>2, <1>5
<1> QED
  BY <1>2, <1>3, <1>4, <1>5, OrderSteps, PromotionSteps DEF Next, Step, vars

-----------------------------------------------------------------------------
(* The invariant and the properties *)

LEMMA Starts == Init => CheckoutInv
<1> SUFFICES ASSUME Init PROVE CheckoutInv
  OBVIOUS
<1>1. TypeOK
  BY InitTypes
<1>2. \A q \in Requests : Free(q)
  BY DEF Init, Free
<1>3. /\ Cardinality({}) = 0 /\ IsFiniteSet({}) /\ Cardinality(Requests) \in Nat
      /\ 0 + 0 <= Cardinality(Requests)
  BY Finite, FS_EmptySet
<1>4. SessionsOK /\ RedeemedOK /\ DistinctOrders /\ CopiesOK
  BY <1>2 DEF Init, SessionsOK, SessionOK, RedeemedOK, DistinctOrders, CopiesOK, At
<1>5. OrdersPromised
  <2>1. ASSUME NEW c \in Carts
        PROVE  OrdersOf(c) = {} /\ Placing(c) = {} /\ cart[c].status = "absent"
    BY <1>2, NoneAssumption DEF Init, OrdersOf, NotPlaced, Placing, NoRow
  <2> QED
    BY <1>3, <2>1 DEF OrdersPromised
<1>6. CartsPromised
  <2>1. ASSUME NEW u \in Customers PROVE ActiveCarts(u) = {} /\ Creating(u) = {}
    BY <1>2 DEF Init, ActiveCarts, Active, NoRow, Creating, At
  <2> QED
    BY <1>3, <2>1 DEF CartsPromised
<1>7. PaymentsPromised
  <2>1. ASSUME NEW o \in Orders
        PROVE  Verifying(o) = {} /\ ~order[o].paid /\ order[o].verified = 0
    BY <1>2 DEF Init, Verifying, At, NotPlaced
  <2>2. ASSUME NEW o \in Orders
        PROVE  /\ order[o].paid <=> order[o].verified > 0
               /\ order[o].verified + Cardinality(Verifying(o)) <= Cardinality(Requests)
    BY <1>3, <2>1
  <2> QED
    BY <2>2 DEF PaymentsPromised
<1>8. CouponSupply
  BY <1>3, LimitAssumption DEF Init, CouponSupply
<1>9. ExactWhenAlone
  BY DEF Init, ExactWhenAlone, NotPlaced
<1> QED
  BY <1>1, <1>4, <1>5, <1>6, <1>7, <1>8, <1>9 DEF CheckoutInv

LEMMA Preserved == CheckoutInv /\ [Next]_vars => CheckoutInv'
BY NextTypes, SessionsNext, RedeemedNext, DistinctNext, OrdersNext, CartsNext, PaymentsNext,
   CouponNext, CopiesNext, ExactNext DEF CheckoutInv

\* The invariant holds of every execution of carts, checkouts and payments.
THEOREM Invariant == Spec => []CheckoutInv
BY Starts, Preserved, PTL DEF Spec

\* What every request reads and writes has the type of its column or copy.
THEOREM TypeCorrect == Spec => []TypeOK
<1>1. CheckoutInv => TypeOK
  BY DEF CheckoutInv
<1> QED
  BY <1>1, Invariant, PTL

\* checkout_cart: checked-out carts are those with orders, and a cart gives at
\* most as many orders as there are requests at a time.
THEOREM CheckoutIsBounded == Spec => []OrdersBounded
<1>1. CheckoutInv => OrdersBounded
  <2> SUFFICES ASSUME CheckoutInv, NEW c \in Carts
               PROVE  /\ cart[c].status = "checked_out" <=> OrdersOf(c) # {}
                      /\ Cardinality(OrdersOf(c)) <= Cardinality(Requests)
    BY DEF OrdersBounded
  <2>1. /\ cart[c].status = "checked_out" <=> OrdersOf(c) # {}
        /\ Cardinality(OrdersOf(c)) + Cardinality(Placing(c)) <= Cardinality(Requests)
    BY DEF CheckoutInv, OrdersPromised
  <2>2. Cardinality(OrdersOf(c)) \in Nat
    BY FiniteAssumption, FS_Subset, FS_CardinalityType DEF OrdersOf
  <2>3. Cardinality(Placing(c)) \in Nat /\ Cardinality(Requests) \in Nat
    BY Finite DEF Placing
  <2> QED
    BY <2>1, <2>2, <2>3
<1> QED
  BY <1>1, Invariant, PTL

\* add_item_to_cart: a customer has at most as many active carts of a
\* restaurant as there are requests at a time.
THEOREM CartsAreBounded == Spec => []ActiveCartsBounded
<1>1. CheckoutInv => ActiveCartsBounded
  <2> SUFFICES ASSUME CheckoutInv, NEW u \in Customers
               PROVE  Cardinality(ActiveCarts(u)) <= Cardinality(Requests)
    BY DEF ActiveCartsBounded
  <2>1. Cardinality(ActiveCarts(u)) + Cardinality(Creating(u)) <= Cardinality(Requests)
    BY DEF CheckoutInv, CartsPromised
  <2>2. Cardinality(ActiveCarts(u)) \in Nat
    BY FiniteAssumption, FS_Subset, FS_CardinalityType DEF ActiveCarts
  <2>3. Cardinality(Creating(u)) \in Nat /\ Cardinality(Requests) \in Nat
    BY Finite DEF Creating
  <2> QED
    BY <2>1, <2>2, <2>3
<1> QED
  BY <1>1, Invariant, PTL

\* verify_esewa_payment: paid orders are those with a verified payment, of which
\* there are at most as many as there are requests at a time.
THEOREM VerificationsAreBounded == Spec => []PaymentsBounded
<1>1. CheckoutInv => PaymentsBounded
  <2> SUFFICES ASSUME CheckoutInv, NEW o \in Orders
               PROVE  /\ order[o].paid <=> order[o].verified > 0
                      /\ order[o].verified <= Cardinality(Requests)
    BY DEF PaymentsBounded
  <2>1. /\ order[o].paid <=> order[o].verified > 0
        /\ order[o].verified + Cardinality(Verifying(o)) <= Cardinality(Requests)
    BY DEF CheckoutInv, PaymentsPromised
  <2>2. order[o].verified \in Nat
    BY DEF CheckoutInv, TypeOK, Order
  <2>3. Cardinality(Verifying(o)) \in Nat /\ Cardinality(Requests) \in Nat
    BY Finite DEF Verifying
  <2> QED
    BY <2>1, <2>2, <2>3
<1> QED
  BY <1>1, Invariant, PTL

\* claim_usage_slot: the counter of a coupon is the number of its redemptions
\* and keeps to its limit.
THEOREM CouponIsNotOversold == Spec => []CouponSupply
<1>1. CheckoutInv => CouponSupply
  BY DEF CheckoutInv
<1> QED
  BY <1>1, Invariant, PTL

\* checkout_cart: a checkout that nobody disturbed charges for what it orders.
THEOREM UndisturbedCheckoutIsExact == Spec => []ExactWhenAlone
<1>1. CheckoutInv => ExactWhenAlone
  BY DEF CheckoutInv
<1> QED
  BY <1>1, Invariant, PTL
-----------------------------------------------------------------------------
(* A till *)

TillStep == [CouponTill!TillNext]_(CouponTill!tillVars)

LEMMA SamePaid ==
  ASSUME UNCHANGED order
  PROVE  SettledOf' = SettledOf /\ SaleOf' = SaleOf
BY DEF SettledOf, SaleOf

LEMMA SameCarts ==
  ASSUME \A c \in Carts : cart'[c].status = cart[c].status
  PROVE  OpenedOf' = OpenedOf /\ SoldOf' = SoldOf
BY DEF OpenedOf, SoldOf

\* An order that is in place is a sale with the bill of its row.
LEMMA SaleOfPlaced ==
  ASSUME TypeOK, NEW o \in Orders, order[o].cart # NoCart
  PROVE  /\ SaleOf[o] # NoSale
         /\ SaleOf[o].bill = [goods |-> order[o].goods, cols |-> order[o].cols]
         /\ SaleOf[o].bill \in Bill
<1>1. SaleOf[o] = [basket |-> order[o].cart, bill |-> [goods |-> order[o].goods, cols |-> order[o].cols]]
  BY DEF SaleOf
<1>2. SaleOf[o].basket = order[o].cart /\ NoSale.basket = NoCart
  BY <1>1 DEF NoSale
<1>3. order[o] \in Order  BY DEF TypeOK
<1> QED BY <1>1, <1>2, <1>3 DEF Bill, Order

LEMMA CreateIsOpening ==
  ASSUME TypeOK, NEW q \in Requests, CreateCart(q)
  PROVE  TillStep
<1>1. PICK c \in Carts :
        /\ cart[c].status = "absent"
        /\ cart' = [cart EXCEPT ![c] = [status |-> "active", owner |-> sess[q].who, cols |-> NewPricing]]
  BY DEF CreateCart
<1>2. UNCHANGED <<order, promo, redeemed>>  BY DEF CreateCart
<1>3. cart'[c].status = "active" /\ \A d \in Carts \ {c} : cart'[d] = cart[d]
  BY <1>1 DEF TypeOK
<1>4. c \notin OpenedOf /\ OpenedOf' = OpenedOf \cup {c} /\ SoldOf' = SoldOf
  BY <1>1, <1>3 DEF OpenedOf, SoldOf
<1>5. CouponTill!OpenBasket(c)
  BY <1>2, <1>4, SamePaid DEF CouponTill!OpenBasket, SettledOf
<1> QED BY <1>5 DEF TillStep, CouponTill!TillNext

LEMMA PlaceIsSale ==
  ASSUME TypeOK, SessionsOK, NEW q \in Requests, PlaceOrder(q)
  PROVE  TillStep
<1> DEFINE c == sess[q].cart
           bill == [goods |-> sess[q].goods, cols |-> sess[q].mine]
<1>1. PICK o \in Orders :
        /\ order[o].cart = NoCart
        /\ order' = [order EXCEPT ![o] =
             [cart |-> c, goods |-> sess[q].goods, cols |-> sess[q].mine, alone |-> sess[q].alone,
              paid |-> FALSE, verified |-> 0]]
  BY DEF PlaceOrder
<1>2. /\ cart' = [cart EXCEPT ![c].status = "checked_out"] /\ UNCHANGED <<promo, redeemed>>
      /\ At(q, "place")
  BY DEF PlaceOrder
<1>3. c \in Carts /\ cart[c].status # "absent" /\ sess[q] \in Session
  BY <1>2, Busy DEF At, SessionsOK, SessionOK, InCart
<1>4. bill \in Bill
  BY <1>3 DEF Bill, Session
<1>5. OpenedOf' = OpenedOf /\ c \in OpenedOf /\ SoldOf' = SoldOf \cup {c}
  <2>1. cart'[c].status = "checked_out" /\ \A d \in Carts \ {c} : cart'[d] = cart[d]
    BY <1>2, <1>3 DEF TypeOK, Cart
  <2> HIDE DEF c
  <2> QED BY <1>3, <2>1 DEF OpenedOf, SoldOf
<1>6. /\ (order')[o].cart = c /\ (order')[o].goods = bill.goods /\ (order')[o].cols = bill.cols
      /\ (order')[o].paid = FALSE /\ \A p \in Orders \ {o} : (order')[p] = order[p]
  BY <1>1 DEF TypeOK
<1>7. SettledOf' = SettledOf
  <2> HIDE DEF c, bill
  <2> QED BY <1>1, <1>6 DEF SettledOf
<1>8. SaleOf[o] = NoSale /\ SaleOf' = [SaleOf EXCEPT ![o] = [basket |-> c, bill |-> bill]]
  <2>1. c # NoCart  BY <1>3, NoneAssumption
  <2>2. bill = [goods |-> bill.goods, cols |-> bill.cols]  OBVIOUS
  <2> HIDE DEF c, bill
  <2> QED BY <1>1, <1>6, <2>1, <2>2 DEF SaleOf
<1> HIDE DEF c, bill
<1>9. CouponTill!Sell(o, c)
  BY <1>2, <1>4, <1>5, <1>7, <1>8 DEF CouponTill!Sell, SettledOf
<1> QED BY <1>3, <1>9 DEF TillStep, CouponTill!TillNext
LEMMA RedeemIsSlip ==
  ASSUME TypeOK, SessionsOK, NEW q \in Requests, Redeem(q)
  PROVE  TillStep
<1> DEFINE o == sess[q].order
<1>1. /\ At(q, "redeem") /\ UNCHANGED <<cart, order>>
      /\ \/ /\ promo.status # "deleted" /\ promo.used < UsageLimit
            /\ promo' = [promo EXCEPT !.used = @ + 1] /\ redeemed' = redeemed \cup {o}
         \/ UNCHANGED <<promo, redeemed>>
  BY DEF Redeem
<1>2. /\ o \in Orders /\ order[o].cart # NoCart /\ o \notin redeemed
      /\ order[o].cols.coupon /\ order[o].cols.off
  BY <1>1 DEF At, SessionsOK, SessionOK
<1>3. SaleOf[o] # NoSale /\ SaleOf[o].bill \in ReducedBill
  <2> HIDE DEF o
  <2> DEFINE bill == [goods |-> order[o].goods, cols |-> order[o].cols]
  <2>0. SaleOf[o].bill = bill  BY <1>2, SaleOfPlaced
  <2>1. SaleOf[o].bill.cols = order[o].cols  BY <2>0
  <2> QED BY <1>2, <2>1, SaleOfPlaced DEF ReducedBill
<1>4. UNCHANGED <<OpenedOf, SoldOf, SaleOf, SettledOf>>
  BY <1>1, SamePaid, SameCarts
<1>5. CASE UNCHANGED <<promo, redeemed>>
  BY <1>4, <1>5 DEF TillStep, CouponTill!tillVars
<1>6. CASE /\ promo.status # "deleted" /\ promo.used < UsageLimit
           /\ promo' = [promo EXCEPT !.used = @ + 1] /\ redeemed' = redeemed \cup {o}
  <2>1. (promo').used = promo.used + 1 /\ (promo').status = promo.status
    BY <1>6 DEF TypeOK, Promotion
  <2> HIDE DEF o
  <2>2. CouponTill!Slip(o)
    BY <1>2, <1>3, <1>4, <1>6, <2>1 DEF CouponTill!Slip
  <2> QED BY <1>2, <2>2 DEF TillStep, CouponTill!TillNext
<1> QED BY <1>1, <1>5, <1>6

LEMMA VerifiedIsSettling ==
  ASSUME TypeOK, SessionsOK, NEW q \in Requests, Verified(q)
  PROVE  TillStep
<1> DEFINE o == sess[q].order
<1>1. /\ At(q, "call") /\ UNCHANGED <<cart, promo, redeemed>>
      /\ order' = [order EXCEPT ![o].paid = TRUE, ![o].verified = @ + 1]
  BY DEF Verified
<1>2. o \in Orders /\ order[o].cart # NoCart
  BY <1>1 DEF At, SessionsOK, SessionOK
<1>3. /\ (order')[o].cart = order[o].cart /\ (order')[o].goods = order[o].goods
      /\ (order')[o].cols = order[o].cols /\ (order')[o].paid = TRUE
      /\ \A p \in Orders \ {o} : (order')[p] = order[p]
  BY <1>1, <1>2 DEF TypeOK, Order
<1> HIDE DEF o
<1>4. SaleOf' = SaleOf /\ SettledOf' = SettledOf \cup {o}
  BY <1>2, <1>3 DEF SaleOf, SettledOf
<1>5. SaleOf[o] # NoSale  BY <1>2, SaleOfPlaced
<1>6. CouponTill!Settle(o)
  BY <1>1, <1>4, <1>5, SameCarts DEF CouponTill!Settle
<1> QED BY <1>2, <1>6 DEF TillStep, CouponTill!TillNext

LEMMA PromotionOnTill ==
  ASSUME TypeOK, EditPromotion \/ DeletePromotion
  PROVE  TillStep
<1>1. UNCHANGED <<OpenedOf, SoldOf, SaleOf, SettledOf>>
  BY SamePaid, SameCarts, PromotionSteps
<1>2. CASE EditPromotion
  <2>1. (promo').used = promo.used /\ (promo').status # "deleted" /\ promo.status # "deleted"
        /\ UNCHANGED redeemed
    BY <1>2 DEF EditPromotion, TypeOK, Promotion
  <2> QED BY <1>1, <2>1 DEF TillStep, CouponTill!tillVars
<1>3. CASE DeletePromotion
  <2>1. (promo').used = promo.used /\ (promo').status = "deleted" /\ promo.status # "deleted"
        /\ redeemed' = {}
    BY <1>3 DEF DeletePromotion, TypeOK, Promotion
  <2>2. CouponTill!Withdraw
    BY <1>1, <2>1 DEF CouponTill!Withdraw
  <2> QED BY <2>2 DEF TillStep, CouponTill!TillNext
<1> QED BY <1>2, <1>3

LEMMA NextOnTill == TypeOK /\ SessionsOK /\ [Next]_vars => TillStep
<1> SUFFICES ASSUME TypeOK, SessionsOK, [Next]_vars  PROVE TillStep
  OBVIOUS
<1>1. ASSUME NEW q \in Requests, Step(q)  PROVE TillStep
  <2>1. CASE PlaceOrder(q) \/ Verified(q) \/ Redeem(q) \/ CreateCart(q)
    BY <2>1, PlaceIsSale, VerifiedIsSettling, RedeemIsSlip, CreateIsOpening
  <2>2. CASE ~(PlaceOrder(q) \/ Verified(q) \/ Redeem(q) \/ CreateCart(q))
    <3>1. UNCHANGED <<order, promo, redeemed>>
      BY <1>1, <2>2, OrderSteps, CouponSteps
    <3>2. \A c \in Carts : cart'[c].status = cart[c].status
      BY <1>1, <2>2, StatusSteps
    <3> QED BY <3>1, <3>2, SamePaid, SameCarts DEF TillStep, CouponTill!tillVars
  <2> QED BY <2>1, <2>2
<1>2. CASE UNCHANGED vars
  BY <1>2, SamePaid, SameCarts DEF TillStep, CouponTill!tillVars, vars
<1> QED BY <1>1, <1>2, PromotionOnTill DEF Next, Step

\* For any number of customers, carts, orders and requests, carts, checkouts,
\* coupon and payments are a till: no cart is reopened, no placed order changes,
\* and slots, slips and payments are taken once and kept (checkout_cart,
\* create_order_from_cart, redeem, verify_esewa_payment).
THEOREM TillRefinement == Spec => IsATill
<1>1. Init => CouponTill!TillInit
  BY NoneAssumption DEF Init, CouponTill!TillInit, OpenedOf, SoldOf, SaleOf, SettledOf, NoRow, NotPlaced
<1>2. CheckoutInv /\ [Next]_vars => [CouponTill!TillNext]_(CouponTill!tillVars)
  BY NextOnTill DEF TillStep, CheckoutInv
<1> QED BY <1>1, <1>2, Invariant, PTL DEF Spec, IsATill, CouponTill!TillSpec
=============================================================================
