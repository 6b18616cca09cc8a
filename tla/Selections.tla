----------------------------- MODULE Selections -----------------------------
(***************************************************************************)
(* A dish with a group of modifier options and an add-on, and the line of  *)
(* a cart that selects from them: app/modules/carts/service.py,            *)
(* calculate_summary of app/modules/orders/service.py and                  *)
(* create_order_from_cart of app/modules/orders/repository.py.             *)
(*                                                                         *)
(* Four pieces of code price one selection: the quote, the cart, the total *)
(* of the order and the items of the order.  The merchant goes on changing *)
(* the menu while a line is in a cart.  A line has quantity 1: a larger    *)
(* one multiplies every price alike.                                       *)
(***************************************************************************)
EXTENDS Integers, Sequences, FiniteSets, SequencesExt

CONSTANTS
  Options,     \* options of the one group
  OptionPrice, \* price_adjustment of each
  AddOnPrice,  \* price of the add-on
  DishPrice,   \* price of the menu item
  MaxPicks     \* bound on what a request lists, and on quantities

ASSUME PricesAssumption ==
  /\ IsFiniteSet(Options) /\ OptionPrice \in [Options -> Nat]
  /\ AddOnPrice \in Nat /\ DishPrice \in Nat /\ MaxPicks \in Nat \ {0}

VARIABLES
  served,  \* is_available of the menu item
  group,   \* the modifier group
  option,  \* its options
  addOn,   \* the add-on
  line     \* the line of the cart

selectionVars == <<served, group, option, addOn, line>>

Group == [made : BOOLEAN, required : BOOLEAN, min : 0..MaxPicks, max : 1..MaxPicks]
NoGroup == [made |-> FALSE, required |-> FALSE, min |-> 0, max |-> 1]
AddOn == [state : {"absent", "on", "off", "deleted"}, max : 1..MaxPicks]

\* What a request selects: modifier_ids, which may name one twice, and the
\* quantities of add_on_selections, of which several may name one add-on.
Selection == [mods : SeqOf(Options, MaxPicks), adds : SeqOf(1..MaxPicks, MaxPicks)]
NoLine == [mods |-> <<>>, adds |-> <<0>>]

SelectionTypeOK ==
  /\ served \in BOOLEAN
  /\ group \in Group
  /\ option \in [Options -> {"absent", "on", "off"}]
  /\ addOn \in AddOn
  /\ line \in Selection \cup {NoLine}

-----------------------------------------------------------------------------
(* Prices of a selection *)

Refused == -1

AddsUp(quantities) == SumFunction(quantities)
ModsUp(mods, S) == SumFunction([n \in DOMAIN mods |-> IF mods[n] \in S THEN OptionPrice[mods[n]] ELSE 0])
OptionsUp(S) == SumFunctionOnSet(OptionPrice, S)    \* each of a set, once

Made == {x \in Options : option[x] # "absent"}
On == {x \in Options : option[x] = "on"}

\* _recalculate_cart_totals, which checkout_cart uses too: what is not available
\* costs nothing.
CartPrice(s) ==
  DishPrice + ModsUp(s.mods, On) + IF addOn.state = "on" THEN AddOnPrice * AddsUp(s.adds) ELSE 0

ItemPriceBare(s) == DishPrice + OptionsUp(Made \cap Range(s.mods))

\* The price of the order item of create_order_from_cart: every option that is
\* in the line, once, and the add-on, available or not.
ItemPrice(s) ==
  DishPrice + OptionsUp(Made \cap Range(s.mods))
            + IF addOn.state \in {"on", "off"} THEN AddOnPrice * AddsUp(s.adds) ELSE 0

AddOnsOrderable(s) ==
  s.adds # <<>> => addOn.state = "on" /\ \A n \in Range(s.adds) : n <= addOn.max

\* calculate_summary; it asks for the price only, and looks at no bounds.
Quote(s) ==
  IF Range(s.mods) \subseteq On /\ AddOnsOrderable(s)
    THEN DishPrice + ModsUp(s.mods, Options) + AddOnPrice * AddsUp(s.adds)
    ELSE Refused

-----------------------------------------------------------------------------
(* The merchant: create_modifier_group, create_modifier_item, *_add_on *)

MakeGroup ==
  /\ ~group.made
  /\ group' \in {g \in Group : g.made}
  /\ UNCHANGED <<served, option, addOn, line>>

MakeOption(x) ==
  /\ group.made /\ option[x] = "absent"
  /\ \E state \in {"on", "off"} : option' = [option EXCEPT ![x] = state]
  /\ UNCHANGED <<served, group, addOn, line>>

MakeAddOn ==
  /\ addOn.state = "absent"
  /\ addOn' \in {a \in AddOn : a.state \in {"on", "off"}}
  /\ UNCHANGED <<served, group, option, line>>

UpdateAddOn ==
  /\ addOn.state \in {"on", "off"}
  /\ addOn' \in {a \in AddOn : a.state \in {"on", "off"}}
  /\ UNCHANGED <<served, group, option, line>>

DeleteAddOn ==
  /\ addOn.state \in {"on", "off"}
  /\ addOn' = [addOn EXCEPT !.state = "deleted"]
  /\ UNCHANGED <<served, group, option, line>>

ServeDish ==
  /\ served' = ~served
  /\ UNCHANGED <<group, option, addOn, line>>

-----------------------------------------------------------------------------
(* The customer *)

\* The bounds of the group; only options that are available count.
WithinGroup(s) ==
  LET count == Cardinality(Range(s.mods) \cap On) IN
  group.made => /\ group.required => count >= group.min
                /\ count <= group.max

\* add_item_to_cart
AddLine(s) ==
  /\ line = NoLine /\ served
  /\ Range(s.mods) \subseteq On
  /\ WithinGroup(s)
  /\ AddOnsOrderable(s)
  /\ line' = s
  /\ UNCHANGED <<served, group, option, addOn>>

\* remove_item_from_cart
RemoveLine ==
  /\ line # NoLine
  /\ line' = NoLine
  /\ UNCHANGED <<served, group, option, addOn>>

\* checkout_cart: the order takes over the line, at the prices it has now.
\* Nothing looks again at what is available.
OrderLine ==
  /\ line # NoLine
  /\ line' = NoLine
  /\ UNCHANGED <<served, group, option, addOn>>

-----------------------------------------------------------------------------

SelectionInit ==
  /\ served = TRUE
  /\ group = NoGroup
  /\ option = [x \in Options |-> "absent"]
  /\ addOn = [state |-> "absent", max |-> 1]
  /\ line = NoLine

SelectionNext ==
  \/ MakeGroup \/ MakeAddOn \/ UpdateAddOn \/ DeleteAddOn \/ ServeDish
  \/ \E x \in Options : MakeOption(x)
  \/ \E s \in Selection : AddLine(s)
  \/ RemoveLine \/ OrderLine

SelectionSpec == SelectionInit /\ [][SelectionNext]_selectionVars

-----------------------------------------------------------------------------
(* Properties *)

\* What the customer is quoted is what the cart charges, and the items of an
\* order add up to what it charges, except for what the code lets apart: an
\* add-on that was switched off after it went into the cart is on the order and
\* costs nothing, and an option that was listed twice is charged twice and on
\* the order once (_recalculate_cart_totals, create_order_from_cart).
OnePrice ==
  /\ \A s \in Selection : Quote(s) # Refused => Quote(s) = CartPrice(s)
  /\ line # NoLine =>
       ItemPrice(line) - CartPrice(line) =
         (IF addOn.state = "off" THEN AddOnPrice * AddsUp(line.adds) ELSE 0)
         - (ModsUp(line.mods, Options) - OptionsUp(Range(line.mods)))
=============================================================================
