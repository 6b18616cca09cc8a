------------------------------- MODULE Catalog -------------------------------
(***************************************************************************)
(* The categories that restaurants share and the menu items that are in    *)
(* them: app/modules/catalog/service.py and repository.py, and what        *)
(* app/modules/admin/api.py does to categories.                            *)
(*                                                                         *)
(* A category exists once for the platform; a restaurant has it in its     *)
(* menu through a link.  A request checks, then writes in one commit, and  *)
(* no lock keeps what it checked.                                          *)
(***************************************************************************)
EXTENDS Integers, FiniteSets

CONSTANTS
  Kitchens,     \* restaurants
  Cats,         \* categories, by their slug
  Dishes,       \* ids of menu items
  KitchenOf,    \* the restaurant of each menu item
  Uncategorised,   \* category_id IS NULL
  Cooks         \* requests that are served at one time

ASSUME KitchenAssumption == KitchenOf \in [Dishes -> Kitchens]
ASSUME UncategorisedAssumption == Uncategorised \notin Cats

VARIABLES
  known,     \* the rows of "categories"
  links,     \* the rows of "restaurant_categories"
  dish,      \* the category of each menu item that exists
  cook,      \* per request: what it does and what it has read
  strayed    \* history: items that were put into a category which was being
             \* taken off the menu, or that an administrator took off

menuVars == <<known, links, dish, cook, strayed>>

NoDish == "absent"
ASSUME NoDishAssumption == NoDish \notin Cats \cup {Uncategorised}

Cook ==
  [op : {"none"}]
  \cup [op : {"link"}, kitchen : Kitchens, cat : Cats, make : BOOLEAN, linked : BOOLEAN]
  \cup [op : {"unlink", "delete"}, kitchen : Kitchens, cat : Cats, dishes : SUBSET Dishes]
  \cup [op : {"drop"}, kitchen : Kitchens, cat : Cats, dishes : SUBSET Dishes, last : BOOLEAN]
  \cup [op : {"put"}, dish : Dishes, cat : Cats \cup {Uncategorised}, was : Cats \cup {Uncategorised, NoDish}]

Waiting == [op |-> "none"]

MenuTypeOK ==
  /\ known \subseteq Cats
  /\ links \subseteq Kitchens \X Cats
  /\ dish \in [Dishes -> Cats \cup {Uncategorised, NoDish}]
  /\ cook \in [Cooks -> Cook]
  /\ strayed \subseteq Dishes

Cooking(h, w) == cook[h] = Waiting /\ cook' = [cook EXCEPT ![h] = w]
Served(h) == cook' = [cook EXCEPT ![h] = Waiting]

InCat(c) == {i \in Dishes : dish[i] = c}
Own(k) == {i \in Dishes : KitchenOf[i] = k}

Emptied(items) == [i \in Dishes |-> IF i \in items /\ dish[i] # NoDish THEN Uncategorised ELSE dish[i]]

\* Somebody is taking category c off the menu of k.
Leaving(k, c) ==
  \E h \in Cooks : cook[h].op \in {"unlink", "delete", "drop"} /\ cook[h].kitchen = k /\ cook[h].cat = c

-----------------------------------------------------------------------------
(* Categories of a restaurant *)

\* create_category finds the category by its slug or makes it;
\* link_existing_category and the profile update need that it exists.
LinkLoad(h, k, c) ==
  /\ Cooking(h, [op |-> "link", kitchen |-> k, cat |-> c, make |-> c \notin known,
                 linked |-> <<k, c>> \in links])
  /\ UNCHANGED <<known, links, dish, strayed>>

\* The slug is unique, a link has one row, and its category must be there.
LinkCommit(h) ==
  LET w == cook[h] IN
  /\ w.op = "link"
  /\ w.make <=> (w.cat \notin known)
  /\ ~w.linked => <<w.kitchen, w.cat>> \notin links
  /\ known' = known \cup {w.cat}
  /\ links' = IF w.linked THEN links ELSE links \cup {<<w.kitchen, w.cat>>}
  /\ Served(h)
  /\ UNCHANGED <<dish, strayed>>

\* delete_category, and the profile update without the category: the items of
\* the restaurant are looked up.
UnlinkLoad(h, k, c, op) ==
  /\ <<k, c>> \in links
  /\ op \in {"unlink", "delete"}
  /\ Cooking(h, [op |-> op, kitchen |-> k, cat |-> c, dishes |-> InCat(c) \cap Own(k)])
  /\ UNCHANGED <<known, links, dish, strayed>>

\* category_link_count, which sees that the own link is gone
LinkCount(h) ==
  LET w == cook[h] IN
  /\ w.op = "delete"
  /\ cook' = [cook EXCEPT ![h] = [op |-> "drop", kitchen |-> w.kitchen, cat |-> w.cat,
       dishes |-> w.dishes, last |-> \A k \in Kitchens \ {w.kitchen} : <<k, w.cat>> \notin links]]
  /\ UNCHANGED <<known, links, dish, strayed>>

\* The row of the category takes its links along and empties the items.
Dropped(c) ==
  /\ known' = known \ {c}
  /\ links' = {l \in links : l[2] # c}

UnlinkCommitBare(h) ==
  LET w == cook[h] IN
  /\ w.op \in {"unlink", "drop"}
  /\ IF w.op = "drop" /\ w.last
       THEN Dropped(w.cat) /\ dish' = Emptied(w.dishes \cup InCat(w.cat))
       ELSE links' = links \ {<<w.kitchen, w.cat>>} /\ UNCHANGED <<dish, known>>
  /\ strayed' = {i \in strayed : dish'[i] \notin {Uncategorised, NoDish}}
  /\ Served(h)

\* The items that were found lose their category, whatever it is by now; an item
\* that was deleted meanwhile fails the request.
UnlinkCommit(h) ==
  LET w == cook[h] IN
  /\ w.op \in {"unlink", "drop"}
  /\ \A i \in w.dishes : dish[i] # NoDish
  /\ IF w.op = "drop" /\ w.last
       THEN Dropped(w.cat) /\ dish' = Emptied(w.dishes \cup InCat(w.cat))
       ELSE /\ links' = links \ {<<w.kitchen, w.cat>>}
            /\ dish' = Emptied(w.dishes)
            /\ UNCHANGED known
  /\ strayed' = {i \in strayed : dish'[i] \notin {Uncategorised, NoDish}}
  /\ Served(h)

-----------------------------------------------------------------------------
(* Menu items *)

\* create_menu_item and update_menu_item: "Selected category does not belong
\* to this restaurant."
DishLoad(h, i, c) ==
  /\ c # Uncategorised => <<KitchenOf[i], c>> \in links
  /\ Cooking(h, [op |-> "put", dish |-> i, cat |-> c, was |-> dish[i]])
  /\ UNCHANGED <<known, links, dish, strayed>>

\* The foreign key needs the category, the update needs the item; a category
\* that is the one the item was loaded with is not written.
DishCommit(h) ==
  LET w == cook[h]
      new == IF w.cat = w.was THEN dish[w.dish] ELSE w.cat
  IN
  /\ w.op = "put"
  /\ (w.was = NoDish) <=> (dish[w.dish] = NoDish)
  /\ new \in known \cup {Uncategorised}
  /\ dish' = [dish EXCEPT ![w.dish] = new]
  /\ strayed' =
       IF new = Uncategorised THEN strayed \ {w.dish}
       ELSE IF <<KitchenOf[w.dish], new>> \notin links \/ Leaving(KitchenOf[w.dish], new)
         THEN strayed \cup {w.dish}
       ELSE strayed
  /\ Served(h)
  /\ UNCHANGED <<known, links>>

DishDeleted(i) ==
  /\ dish[i] # NoDish
  /\ dish' = [dish EXCEPT ![i] = NoDish]
  /\ strayed' = strayed \ {i}
  /\ UNCHANGED <<known, links, cook>>

\* An error, or a row that is gone: nothing is committed.
CookFails(h) ==
  /\ cook[h] # Waiting
  /\ Served(h)
  /\ UNCHANGED <<known, links, dish, strayed>>

-----------------------------------------------------------------------------
(* The administrator *)

\* _replace_restaurant_categories leaves the items in a category it unlinks.
AdminUnlink(k, c) ==
  /\ <<k, c>> \in links
  /\ links' = links \ {<<k, c>>}
  /\ strayed' = strayed \cup (InCat(c) \cap Own(k))
  /\ UNCHANGED <<known, dish, cook>>

AdminLink(k, c) ==
  /\ c \in known
  /\ links' = links \cup {<<k, c>>}
  /\ UNCHANGED <<known, dish, cook, strayed>>

AdminDrop(c) ==
  /\ c \in known
  /\ Dropped(c)
  /\ dish' = Emptied(InCat(c))
  /\ strayed' = strayed \ InCat(c)
  /\ UNCHANGED cook

-----------------------------------------------------------------------------

MenuInit ==
  /\ known = {} /\ links = {} /\ strayed = {}
  /\ dish = [i \in Dishes |-> NoDish]
  /\ cook = [h \in Cooks |-> Waiting]

MenuNext ==
  \/ \E h \in Cooks :
       \/ \E k \in Kitchens, c \in Cats :
            LinkLoad(h, k, c) \/ \E op \in {"unlink", "delete"} : UnlinkLoad(h, k, c, op)
       \/ \E i \in Dishes, c \in Cats \cup {Uncategorised} : DishLoad(h, i, c)
       \/ LinkCommit(h) \/ LinkCount(h) \/ UnlinkCommit(h) \/ DishCommit(h) \/ CookFails(h)
  \/ \E i \in Dishes : DishDeleted(i)
  \/ \E c \in Cats : AdminDrop(c) \/ \E k \in Kitchens : AdminUnlink(k, c) \/ AdminLink(k, c)

MenuSpec == MenuInit /\ [][MenuNext]_menuVars

-----------------------------------------------------------------------------
(* Properties *)

\* A menu item is in a category of its own restaurant's menu, unless it was put
\* there while the category was being taken off, or an administrator took it
\* off: deletions by other restaurants and their races do no harm
\* (create_menu_item, update_menu_item, delete_category).
DishOnItsMenu ==
  \A i \in Dishes : dish[i] \in Cats => <<KitchenOf[i], dish[i]>> \in links \/ i \in strayed
=============================================================================
