----------------------------- MODULE Merchants -----------------------------
(***************************************************************************)
(* How an account becomes a merchant and which restaurant it acts for:     *)
(* app/modules/workspaces/service.py and repository.py, and what           *)
(* app/modules/admin/api.py does to workspaces and restaurants.            *)
(*                                                                         *)
(* An application ("claim") lists restaurant requests ("asks").  Handlers   *)
(* read, then write in one commit; several of them may be between the two. *)
(***************************************************************************)
EXTENDS Integers, FiniteSets

CONSTANTS
  Merchants,     \* user ids
  Spaces,        \* ids of merchant workspaces
  Customer,      \* any workspace that is not a merchant's: the personal one
  Places,        \* restaurant ids
  NoPlace,       \* a restaurant id that IS NULL
  Onboard,       \* the restaurants that exist before
  MaxClaims,     \* bound on the rows of "merchant_applications"
  MaxAsks,       \* bound on the rows of "merchant_restaurant_requests"
  Desks          \* requests that are served at one time

ASSUME NoPlaceAssumption == NoPlace \notin Places
ASSUME CustomerAssumption == Customer \notin Spaces
ASSUME ShopBoundsAssumption == MaxClaims \in Nat \ {0} /\ MaxAsks \in Nat
ASSUME OnboardAssumption == Onboard \subseteq Places

\* Rows are numbered as they are inserted.
Forms == 1..MaxClaims
Asks == 1..MaxAsks

VARIABLES
  account,   \* active_workspace_id and active_restaurant_id of each user
  space,     \* the merchant workspaces with their owner's membership
  places,    \* the restaurants that exist
  grant,     \* per user: the restaurants with an owner assignment and role
  claim,     \* the rows of "merchant_applications"
  ask,       \* the rows of "merchant_restaurant_requests"
  desk       \* per handler: what it does and what it has read

shopVars == <<account, space, places, grant, claim, ask, desk>>

SomePlace == Places \cup {NoPlace}
Editable == {"draft", "rejected"}
ClaimState == {"none", "draft", "submitted", "approved", "rejected", "deleted"}
SpaceState == {"none", "pending", "pending_review", "active", "rejected", "suspended"}
AskKind == {"create", "link"}

Account == [space : Spaces \cup {Customer}, place : SomePlace]
SpaceRow == [owner : Merchants, status : SpaceState, primary : SomePlace]
ClaimRow == [status : ClaimState, user : Merchants, space : Spaces]
AskRow == [status : ClaimState, form : Forms, kind : AskKind, place : SomePlace]

\* What a handler has read; "base" is the status of the workspace it loaded.
Desk ==
  [op : {"none"}]
  \cup [op : {"create"}, user : Merchants, drafts : SUBSET Forms, space : Spaces \cup {Customer}]
  \cup [op : {"add"}, form : Forms, kind : AskKind, place : SomePlace]
  \cup [op : {"submit", "approve", "reject"}, form : Forms, asks : SUBSET Asks, base : SpaceState]

AtRest == [op |-> "none"]

ShopTypeOK ==
  /\ account \in [Merchants -> Account]
  /\ space \in [Spaces -> SpaceRow]
  /\ places \subseteq Places
  /\ grant \in [Merchants -> SUBSET Places]
  /\ claim \in [Forms -> ClaimRow]
  /\ ask \in [Asks -> AskRow]
  /\ desk \in [Desks -> Desk]

Sit(d, w) == desk[d] = AtRest /\ desk' = [desk EXCEPT ![d] = w]
Leave(d) == desk' = [desk EXCEPT ![d] = AtRest]
IsAt(d, op) == desk[d].op = op

Exists(f) == claim[f].status \notin {"none", "deleted"}
ClaimsOf(m) == {f \in Forms : Exists(f) /\ claim[f].user = m}
AsksOf(f) == {a \in Asks : ask[a].status \notin {"none", "deleted"} /\ ask[a].form = f}
SpacesOf(m) == {w \in Spaces : space[w].status # "none" /\ space[w].owner = m}

-----------------------------------------------------------------------------
(* The restaurant a user acts for *)

\* _collect_merchant_restaurants: inside a merchant workspace that has a
\* restaurant, that one only.
Collected(m) ==
  LET w == account[m].space
      only == IF w = Customer THEN NoPlace ELSE space[w].primary
  IN  IF only = NoPlace THEN grant[m] ELSE grant[m] \cap {only}

\* get_active_merchant_restaurant_id: the workspace first, then the active
\* restaurant if there is an assignment to it.
ActingFor(m) ==
  IF account[m].space # Customer THEN space[account[m].space].primary
  ELSE IF account[m].place \in grant[m] THEN account[m].place ELSE NoPlace

\* _ensure_active_restaurant, which every listing of workspaces and of
\* restaurants runs and commits: kept if it may be, else one of those collected
\* (inside a workspace with a restaurant there is no other).
EnsureActive(m) ==
  /\ \E r \in IF Collected(m) = {} THEN {NoPlace}
             ELSE IF account[m].place \in Collected(m) THEN {account[m].place} ELSE Collected(m) :
       account' = [account EXCEPT ![m].place = r]
  /\ UNCHANGED <<space, places, grant, claim, ask, desk>>

\* switch_workspace: a member's workspace takes its restaurant along.
SwitchWorkspace(m, w) ==
  /\ w \in SpacesOf(m) \cup {Customer}
  /\ account' = [account EXCEPT ![m] =
       [space |-> w, place |-> IF w = Customer \/ space[w].primary = NoPlace
                               THEN account[m].place ELSE space[w].primary]]
  /\ UNCHANGED <<space, places, grant, claim, ask, desk>>

SwitchRestaurant(m, r) ==
  /\ r \in Collected(m)
  /\ account' = [account EXCEPT ![m].place = r]
  /\ UNCHANGED <<space, places, grant, claim, ask, desk>>

-----------------------------------------------------------------------------
(* The merchant's application *)

\* create_merchant_application: no submitted one may wait; drafts will go.
CreateLoad(d, m) ==
  /\ \A f \in ClaimsOf(m) : claim[f].status # "submitted"
  /\ \E w \in IF SpacesOf(m) = {} THEN {Customer} ELSE SpacesOf(m) :
       Sit(d, [op |-> "create", user |-> m, space |-> w,
               drafts |-> {f \in ClaimsOf(m) : claim[f].status = "draft"}])
  /\ UNCHANGED <<account, space, places, grant, claim, ask>>

\* The drafts are deleted by id, whatever they have become, and their
\* requests with them.
CreateCommit(d, f) ==
  LET c == desk[d]
      gone == {g \in c.drafts : Exists(g)}
      lost == {a \in Asks : ask[a].status # "none" /\ ask[a].form \in gone}
  IN
  /\ IsAt(d, "create")
  /\ claim[f].status = "none"
  /\ \A g \in 1..(f - 1) : claim[g].status # "none"
  /\ \E w \in IF c.space # Customer THEN {c.space} ELSE {v \in Spaces : space[v].status = "none"} :
       /\ space' = IF c.space # Customer THEN space
                   ELSE [space EXCEPT ![w] = [owner |-> c.user, status |-> "pending", primary |-> NoPlace]]
       /\ claim' = [g \in Forms |->
            IF g = f THEN [status |-> "draft", user |-> c.user, space |-> w]
            ELSE IF g \in gone THEN [claim[g] EXCEPT !.status = "deleted"] ELSE claim[g]]
  /\ ask' = [a \in Asks |-> IF a \in lost THEN [ask[a] EXCEPT !.status = "deleted"] ELSE ask[a]]
  /\ Leave(d)
  /\ UNCHANGED <<account, places, grant>>

\* add_restaurant_request: while the application can be edited.
AddLoad(d, f, kind, r) ==
  /\ claim[f].status \in Editable
  /\ IF kind = "create" THEN r = NoPlace ELSE r \in places
  /\ Sit(d, [op |-> "add", form |-> f, kind |-> kind, place |-> r])
  /\ UNCHANGED <<account, space, places, grant, claim, ask>>

\* The foreign keys ask that the application and the restaurant still exist.
AddCommit(d, a) ==
  LET c == desk[d] IN
  /\ IsAt(d, "add")
  /\ ask[a].status = "none"
  /\ \A b \in 1..(a - 1) : ask[b].status # "none"
  /\ Exists(c.form)
  /\ c.place \in places \cup {NoPlace}
  /\ ask' = [ask EXCEPT ![a] =
       [status |-> "draft", form |-> c.form, kind |-> c.kind, place |-> c.place]]
  /\ Leave(d)
  /\ UNCHANGED <<account, space, places, grant, claim>>

SubmitLoad(d, f) ==
  /\ claim[f].status \in Editable
  /\ AsksOf(f) # {}
  /\ Sit(d, [op |-> "submit", form |-> f, asks |-> AsksOf(f), base |-> space[claim[f].space].status])
  /\ UNCHANGED <<account, space, places, grant, claim, ask>>

\* The rows a handler loaded and may still write to; an UPDATE of a deleted
\* row fails, and with it the request.
Loaded(d) == LET c == desk[d] IN Exists(c.form) /\ \A a \in c.asks : ask[a].status # "deleted"

\* A workspace keeps the status it was loaded with if that one stays.
WithStatus(w, base, new) == IF base = new THEN space[w] ELSE [space[w] EXCEPT !.status = new]

SubmitCommit(d) ==
  LET c == desk[d]
      w == claim[c.form].space
  IN
  /\ IsAt(d, "submit")
  /\ Loaded(d)
  /\ claim' = [claim EXCEPT ![c.form].status = "submitted"]
  /\ ask' = [a \in Asks |-> IF a \in c.asks THEN [ask[a] EXCEPT !.status = "submitted"] ELSE ask[a]]
  /\ space' = IF c.base = "active" THEN space
              ELSE [space EXCEPT ![w] = WithStatus(w, c.base, "pending_review")]
  /\ Leave(d)
  /\ UNCHANGED <<account, places, grant>>

-----------------------------------------------------------------------------
(* The administrator's answer *)

VerdictLoad(d, f, op) ==
  /\ \/ op = "approve" /\ claim[f].status = "submitted"
     \/ op = "reject" /\ claim[f].status \in {"submitted", "draft"}
  /\ Sit(d, [op |-> op, form |-> f, base |-> space[claim[f].space].status, asks |->
              {a \in AsksOf(f) : op = "reject" => ask[a].status = "submitted"}])
  /\ UNCHANGED <<account, space, places, grant, claim, ask>>

\* The restaurants of the requests: a new one for each that creates one.
Won(asks, made) == {made[a] : a \in DOMAIN made} \cup {ask[a].place : a \in asks \ DOMAIN made}

\* approve_application answers every request it loaded.
Answered(c, made) ==
  [a \in Asks |->
     IF a \notin c.asks THEN ask[a]
     ELSE [ask[a] EXCEPT !.status = "approved", !.place = IF a \in DOMAIN made THEN made[a] ELSE @]]

GrantCommit(d) ==
  LET c == desk[d]
      m == claim[c.form].user
      w == claim[c.form].space
      new == {a \in c.asks : ask[a].kind = "create"}
  IN
  /\ IsAt(d, "approve")
  /\ Loaded(d)
  /\ \A a \in c.asks \ new : ask[a].place \in places
  /\ \E made \in [new -> Places \ places], first \in SomePlace :
       /\ \A a, b \in new : made[a] = made[b] => a = b
       /\ LET won == Won(c.asks, made) IN
          /\ first \in IF won = {} THEN {NoPlace} ELSE won
          /\ places' = places \cup {made[a] : a \in new}
          /\ grant' = [grant EXCEPT ![m] = @ \cup won]
          /\ ask' = Answered(c, made)
          /\ space' = [space EXCEPT ![w] = [WithStatus(w, c.base, "active") EXCEPT
               !.primary = IF first = NoPlace THEN @ ELSE first]]
          /\ account' = IF first = NoPlace THEN account ELSE [account EXCEPT
               ![m].place = IF @ = NoPlace THEN first ELSE @,
               ![m].space = IF @ = Customer THEN w ELSE @]
  /\ claim' = [claim EXCEPT ![c.form].status = "approved"]
  /\ Leave(d)

RefuseCommit(d) ==
  LET c == desk[d]
      w == claim[c.form].space
  IN
  /\ IsAt(d, "reject")
  /\ Loaded(d)
  /\ claim' = [claim EXCEPT ![c.form].status = "rejected"]
  /\ space' = IF c.base = "active" THEN space
              ELSE [space EXCEPT ![w] = WithStatus(w, c.base, "rejected")]
  /\ ask' = [a \in Asks |-> IF a \in c.asks THEN [ask[a] EXCEPT !.status = "rejected"] ELSE ask[a]]
  /\ Leave(d)
  /\ UNCHANGED <<account, places, grant>>

\* The request ends without a commit: an error, or a row that is gone.
GiveUp(d) ==
  /\ desk[d] # AtRest
  /\ Leave(d)
  /\ UNCHANGED <<account, space, places, grant, claim, ask>>

SetWorkspaceStatus(w, to) ==
  /\ space[w].status # "none"
  /\ space' = [space EXCEPT ![w].status = to]
  /\ UNCHANGED <<account, places, grant, claim, ask, desk>>

\* delete_restaurant: assignments and roles cascade, references become NULL.
PlaceKept(was) == space
PlaceDeleted(was) == [w \in Spaces |->
  IF space[w].primary = was THEN [space[w] EXCEPT !.primary = NoPlace] ELSE space[w]]

DeleteRestaurant(r) ==
  /\ r \in places
  /\ places' = places \ {r}
  /\ grant' = [m \in Merchants |-> grant[m] \ {r}]
  /\ account' = [m \in Merchants |->
       IF account[m].place = r THEN [account[m] EXCEPT !.place = NoPlace] ELSE account[m]]
  /\ space' = PlaceDeleted(r)
  /\ ask' = [a \in Asks |-> IF ask[a].place = r THEN [ask[a] EXCEPT !.place = NoPlace] ELSE ask[a]]
  /\ UNCHANGED <<claim, desk>>

-----------------------------------------------------------------------------

ShopInit ==
  /\ account = [m \in Merchants |-> [space |-> Customer, place |-> NoPlace]]
  /\ \E m \in Merchants, w \in Spaces :
       /\ space = [v \in Spaces |-> [owner |-> m, status |-> "none", primary |-> NoPlace]]
       /\ claim = [g \in Forms |-> [status |-> "none", user |-> m, space |-> w]]
       /\ ask = [a \in Asks |->
            [status |-> "none", form |-> 1, kind |-> "create", place |-> NoPlace]]
  /\ places = Onboard
  /\ grant = [m \in Merchants |-> {}]
  /\ desk = [d \in Desks |-> AtRest]

ShopNext ==
  \/ \E m \in Merchants :
       \/ EnsureActive(m)
       \/ \E w \in Spaces \cup {Customer} : SwitchWorkspace(m, w)
       \/ \E r \in Places : SwitchRestaurant(m, r)
  \/ \E d \in Desks :
       \/ \E m \in Merchants : CreateLoad(d, m)
       \/ \E f \in Forms :
            \/ CreateCommit(d, f) \/ SubmitLoad(d, f)
            \/ \E kind \in AskKind, r \in SomePlace : AddLoad(d, f, kind, r)
            \/ \E op \in {"approve", "reject"} : VerdictLoad(d, f, op)
       \/ \E a \in Asks : AddCommit(d, a)
       \/ SubmitCommit(d) \/ GrantCommit(d) \/ RefuseCommit(d) \/ GiveUp(d)
  \/ \E w \in Spaces, to \in {"active", "suspended"} : SetWorkspaceStatus(w, to)
  \/ \E r \in Places : DeleteRestaurant(r)

ShopSpec == ShopInit /\ [][ShopNext]_shopVars

-----------------------------------------------------------------------------
(* Properties *)

\* Whoever acts for a restaurant owns it: the restaurant that every merchant
\* endpoint resolves has an assignment of that user, in the merchant workspace
\* too, where get_active_merchant_restaurant_id does not look for one.
ActingForOwned ==
  \A m \in Merchants : ActingFor(m) # NoPlace => ActingFor(m) \in grant[m] \cap places
=============================================================================
