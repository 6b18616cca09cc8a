------------------------------ MODULE Addresses ------------------------------
(***************************************************************************)
(* A customer's saved addresses and the one the account names as its       *)
(* default: app/modules/customers/service.py and repository.py.            *)
(*                                                                         *)
(* A request loads its user when it authenticates and keeps that copy: a   *)
(* later SELECT of the same row in the session does not refresh it, and a  *)
(* field is written only when it differs from the copy.  An address is     *)
(* never removed, only made inactive.                                      *)
(***************************************************************************)
EXTENDS Integers, Sequences

CONSTANTS
  Customers,
  MaxAddresses,     \* bound on the addresses that are saved
  Visits            \* requests that are served at one time

ASSUME MaxAddressesAssumption == MaxAddresses \in Nat

VARIABLES
  book,        \* the rows of "customer_addresses", by their id
  standard,    \* users.default_address_id, 0 for NULL
  open,        \* customers whose account is not deleted
  visit,       \* per request: what it does, its copy of the user, how far it is
  torn         \* history: addresses that one request deleted while another made
               \* them the default

addressVars == <<book, standard, open, visit, torn>>

AddressIds == 1..MaxAddresses
AddressRow == [owner : Customers, is_active : BOOLEAN]

Visit ==
  [op : {"none", "create", "edit", "delete", "pick", "clear", "close"}, who : Customers, at : 0..MaxAddresses,
   had : 0..MaxAddresses, wish : {"default", "not", "keep"}, step : {"arrived", "looked", "written"}]

AddressTypeOK ==
  /\ book \in Seq(AddressRow) /\ Len(book) <= MaxAddresses
  /\ standard \in [Customers -> 0..Len(book)]
  /\ open \subseteq Customers
  /\ DOMAIN visit \subseteq Visits /\ \A h \in DOMAIN visit : visit[h] \in Visit
  /\ torn \subseteq AddressIds

\* get_address: the row is the customer's and active.
Found(c, a) == a \in DOMAIN book /\ book[a].owner = c /\ book[a].is_active

\* _build_profile_response: an id that names no active address is kept in the
\* answer, without its address.
Profile(c) ==
  [default_address_id |-> standard[c],
   default_address    |-> IF Found(c, standard[c]) THEN standard[c] ELSE 0,
   saved_addresses    |-> {a \in DOMAIN book : Found(c, a)}]

Left(h) == visit' = [g \in DOMAIN visit \ {h} |-> visit[g]]
Reaches(h, w) == visit' = [visit EXCEPT ![h] = w]

\* Requests in flight that would make address a the default.
Makes(w, a) == w.at = a /\ (w.op = "pick" \/ (w.op \in {"create", "edit"} /\ w.wish = "default"))

\* The history is kept with every change of the requests in flight.
Noted ==
  torn' = torn \cup {a \in AddressIds : \E g, h \in DOMAIN visit' :
    visit'[g].op = "delete" /\ visit'[g].at = a /\ Makes(visit'[h], a)}

-----------------------------------------------------------------------------
(* The requests *)

\* get_current_user answers only for an account that is open.
Arrive(h, c, op, a, wish) ==
  /\ h \notin DOMAIN visit /\ c \in open
  /\ a \in DOMAIN book <=> op \in {"edit", "delete", "pick"}
  /\ wish # "keep" => op = "edit" \/ (op = "create" /\ wish = "default")
  /\ op = "create" => Len(book) < MaxAddresses
  /\ visit' = [g \in DOMAIN visit \cup {h} |-> IF g = h
       THEN [op |-> op, who |-> c, at |-> IF a \in DOMAIN book THEN a ELSE 0, had |-> standard[c],
             wish |-> wish, step |-> "arrived"]
       ELSE visit[g]]
  /\ Noted
  /\ UNCHANGED <<book, standard, open>>

\* update_address, delete_address, set_default_address and update_profile look
\* the address up first.  A profile update may also fail on an email or a phone
\* number that another account has.
FindAddress(h) ==
  LET w == visit[h] IN
  /\ w.op \in {"edit", "delete", "pick"} /\ w.step = "arrived"
  /\ \/ Found(w.who, w.at) /\ Reaches(h, [w EXCEPT !.step = "looked"])
     \/ (~Found(w.who, w.at) \/ w.op = "pick") /\ Left(h)
  /\ Noted
  /\ UNCHANGED <<book, standard, open>>

SaveAddress(h) ==
  LET w == visit[h] IN
  /\ w.op = "create" /\ w.step = "arrived" /\ Len(book) < MaxAddresses
  /\ book' = Append(book, [owner |-> w.who, is_active |-> TRUE])
  /\ IF w.wish = "default" THEN Reaches(h, [w EXCEPT !.at = Len(book) + 1, !.step = "written"])
                           ELSE Left(h)
  /\ Noted
  /\ UNCHANGED <<standard, open>>

\* The address itself is written; its lines are not modelled.
ChangeAddress(h) ==
  LET w == visit[h] IN
  /\ w.op = "edit" /\ w.step = "looked"
  /\ IF w.wish = "keep" THEN Left(h) ELSE Reaches(h, [w EXCEPT !.step = "written"])
  /\ Noted
  /\ UNCHANGED <<book, standard, open>>

\* update_user_profile writes what differs from the copy.
Set(w, a) == IF w.had = a THEN standard ELSE [standard EXCEPT ![w.who] = a]

ProfileCommit(h) ==
  LET w == visit[h] IN
  /\ \/ w.op \in {"create", "edit"} /\ w.step = "written"
     \/ w.op = "pick" /\ w.step = "looked"
     \/ w.op = "clear"
  /\ standard' = CASE w.op = "clear" -> Set(w, 0)
                   [] w.wish = "not" -> IF w.had = w.at THEN Set(w, 0) ELSE standard
                   [] OTHER          -> Set(w, w.at)
  /\ Left(h)
  /\ Noted
  /\ UNCHANGED <<book, open>>

DeleteCommitOnly(h) ==
  LET w == visit[h] IN
  /\ w.op = "delete" /\ w.step = "looked"
  /\ book' = [book EXCEPT ![w.at].is_active = FALSE]
  /\ Left(h)
  /\ Noted
  /\ UNCHANGED <<standard, open>>

\* "If this was the default address, clear it": by the copy of the user.
DeleteCommit(h) ==
  LET w == visit[h] IN
  /\ w.op = "delete" /\ w.step = "looked"
  /\ book' = [book EXCEPT ![w.at].is_active = FALSE]
  /\ standard' = IF w.had = w.at THEN Set(w, 0) ELSE standard
  /\ Left(h)
  /\ Noted
  /\ UNCHANGED open

\* soft_delete_account; requests in flight go on.
CloseCommit(h) ==
  /\ visit[h].op = "close"
  /\ open' = open \ {visit[h].who}
  /\ Left(h)
  /\ Noted
  /\ UNCHANGED <<book, standard>>

-----------------------------------------------------------------------------
AddressInit ==
  /\ book = <<>> /\ standard = [c \in Customers |-> 0] /\ open = Customers
  /\ visit = <<>> /\ torn = {}

AddressNext ==
  \/ \E h \in Visits, c \in Customers, a \in 0..MaxAddresses, op \in {"create", "edit", "delete", "pick", "clear", "close"},
        wish \in {"default", "not", "keep"} : Arrive(h, c, op, a, wish)
  \/ \E h \in DOMAIN visit :
       \/ FindAddress(h) \/ SaveAddress(h) \/ ChangeAddress(h) \/ ProfileCommit(h) \/ DeleteCommit(h)
       \/ CloseCommit(h)

AddressSpec == AddressInit /\ [][AddressNext]_addressVars

-----------------------------------------------------------------------------
\* A customer whose profile names a default address can have it delivered to: it
\* is shown, so it is the customer's own and active.  Only an address that was
\* deleted and made the default by requests served at one time may be named and
\* not shown: neither the lookup nor the copy of the user is locked.
DefaultPerOverlap ==
  \A c \in Customers :
    LET p == Profile(c) IN p.default_address_id \in {p.default_address} \cup torn
=============================================================================
