----------------------------- MODULE MCCheckout -----------------------------
(* Instances of Checkout for TLC. *)
EXTENDS CheckoutInvariant, CheckoutRefines, TLC

CONSTANTS c1, c2, c3, l1, l2, o1, o2, q1, q2

\* Ids and requests are interchangeable.
Interchange ==
  Permutations(Carts) \cup Permutations(Lines) \cup Permutations(Orders)
    \cup Permutations(Requests)
=============================================================================
