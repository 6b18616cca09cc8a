----------------------------- MODULE StaffProofs -----------------------------
(***************************************************************************)
(* Proofs about who may act: who holds a session of an account (Sessions), *)
(* the restaurant a merchant acts for (Merchants), the accounts that act   *)
(* as riders and their seats on a team (RiderTeam), and the riders that    *)
(* have a salary (Payroll), for every set of users, restaurants and        *)
(* workspaces and every number of requests.                                *)
(***************************************************************************)
EXTENDS Sessions, Merchants, RiderTeam, Payroll, FiniteSetTheorems, TLAPS

-----------------------------------------------------------------------------
(* Payroll *)

\* A salary is about to be set for a rider who is a platform rider, or was when
\* the request began.
SettersChecked ==
  \A c \in Clerks : clerk[c].op = "set" => clerk[c].rider \in platform \cup crossed

PayrollIInv == PayrollTypeOK /\ SettersChecked /\ SalariedIsPlatform

LEMMA PayrollInitial == PayrollInit => PayrollIInv
BY DEF PayrollInit, PayrollIInv, PayrollTypeOK, SettersChecked, SalariedIsPlatform,
       Salaried, NoClerk, Clerk, Unpaid

\* A request that opens or closes, and changes neither status nor salary.
LEMMA ClerkMoves ==
  ASSUME PayrollIInv, NEW c \in Clerks, NEW w \in Clerk,
         clerk' = [clerk EXCEPT ![c] = w],
         w.op = "set" => w.rider \in platform \cup crossed,
         platform' = platform, crossed' = crossed
  PROVE  clerk' \in [Clerks -> Clerk] /\ SettersChecked'
BY DEF PayrollIInv, PayrollTypeOK, SettersChecked

LEMMA NoClerkIsClerk == NoClerk \in Clerk /\ NoClerk.op # "set"
BY DEF NoClerk, Clerk

LEMMA PayrollStep == PayrollIInv /\ [PayrollNext]_payVars => PayrollIInv'
<1> SUFFICES ASSUME PayrollIInv, [PayrollNext]_payVars PROVE PayrollIInv'
  OBVIOUS
<1>a. PayrollTypeOK /\ SettersChecked /\ SalariedIsPlatform
  BY DEF PayrollIInv
<1>1. ASSUME NEW r \in Staff, Grant(r) PROVE PayrollIInv'
  BY <1>a, <1>1 DEF Grant, PayrollIInv, PayrollTypeOK, SettersChecked, SalariedIsPlatform, Salaried
<1>2. ASSUME NEW r \in Staff, MarkPaid(r) PROVE PayrollIInv'
  BY <1>a, <1>2 DEF MarkPaid, PayrollIInv, PayrollTypeOK, SettersChecked, SalariedIsPlatform, Salaried
<1>3. ASSUME NEW c \in Clerks, NEW r \in Staff, RevokeLoad(c, r) PROVE PayrollIInv'
  <2>1. PICK w : w = [op |-> "revoke", rider |-> r, drop |-> r \in Salaried]
    OBVIOUS
  <2>2. w \in Clerk /\ w.op # "set"
    BY <2>1 DEF Clerk
  <2>3. clerk' = [clerk EXCEPT ![c] = w] /\ UNCHANGED <<platform, salary, payroll, paid, shown, crossed>>
    BY <1>3, <2>1 DEF RevokeLoad, Opens
  <2>4. clerk' \in [Clerks -> Clerk] /\ SettersChecked'
    BY <2>2, <2>3, ClerkMoves
  <2> QED
    BY <1>a, <2>3, <2>4 DEF PayrollIInv, PayrollTypeOK, SalariedIsPlatform, Salaried
<1>4. ASSUME NEW c \in Clerks, NEW r \in Staff, NEW amount \in Salaries, SetLoad(c, r, amount)
      PROVE  PayrollIInv'
  <2>1. PICK w : w = [op |-> "set", rider |-> r, base |-> salary[r], amount |-> amount]
    OBVIOUS
  <2>2. w \in Clerk /\ w.rider \in platform
    BY <1>a, <1>4, <2>1 DEF Clerk, PayrollTypeOK, SetLoad
  <2>3. clerk' = [clerk EXCEPT ![c] = w] /\ UNCHANGED <<platform, salary, payroll, paid, shown, crossed>>
    BY <1>4, <2>1 DEF SetLoad, Opens
  <2>4. clerk' \in [Clerks -> Clerk] /\ SettersChecked'
    BY <2>2, <2>3, ClerkMoves
  <2> QED
    BY <1>a, <2>3, <2>4 DEF PayrollIInv, PayrollTypeOK, SalariedIsPlatform, Salaried
<1>5. ASSUME NEW c \in Clerks, RevokeCommit(c) PROVE PayrollIInv'
  <2>1. PICK r : r = clerk[c].rider
    OBVIOUS
  <2>2. /\ clerk[c].op = "revoke" /\ platform' = platform \ {r}
        /\ salary' = IF clerk[c].drop THEN [salary EXCEPT ![r] = Unpaid] ELSE salary
        /\ crossed' = IF Setting(r) \/ (~clerk[c].drop /\ r \in Salaried) THEN crossed \cup {r} ELSE crossed
        /\ clerk' = [clerk EXCEPT ![c] = NoClerk]
        /\ UNCHANGED <<payroll, paid, shown>>
    BY <1>5, <2>1 DEF RevokeCommit, Closes
  <2>3. r \in Staff
    BY <1>a, <2>1, <2>2 DEF PayrollTypeOK, Clerk
  <2>4. PayrollTypeOK'
    BY <1>a, <2>2, <2>3, NoClerkIsClerk DEF PayrollTypeOK
  <2>5. SettersChecked'
    BY <1>a, <2>2, NoClerkIsClerk DEF SettersChecked, Setting, PayrollTypeOK
  <2>6. SalariedIsPlatform'
    BY <1>a, <2>2, <2>3 DEF SalariedIsPlatform, Salaried, PayrollTypeOK
  <2> QED
    BY <2>4, <2>5, <2>6 DEF PayrollIInv
<1>6. ASSUME NEW c \in Clerks, SetCommit(c) PROVE PayrollIInv'
  <2>1. PICK r, a : r = clerk[c].rider /\ a = clerk[c].amount
    OBVIOUS
  <2>2. /\ clerk[c].op = "set"
        /\ salary' = IF clerk[c].base = a THEN salary ELSE [salary EXCEPT ![r] = a]
        /\ clerk' = [clerk EXCEPT ![c] = NoClerk]
        /\ UNCHANGED <<platform, payroll, paid, shown, crossed>>
    BY <1>6, <2>1 DEF SetCommit, Closes
  <2>3. r \in Staff /\ a \in Salaries /\ r \in platform \cup crossed
    BY <1>a, <2>1, <2>2 DEF PayrollTypeOK, Clerk, SettersChecked
  <2>4. clerk' \in [Clerks -> Clerk] /\ SettersChecked'
    BY <2>2, NoClerkIsClerk, ClerkMoves
  <2>5. SalariedIsPlatform'
    BY <1>a, <2>2, <2>3 DEF SalariedIsPlatform, Salaried, PayrollTypeOK
  <2> QED
    BY <1>a, <2>2, <2>3, <2>4, <2>5 DEF PayrollIInv, PayrollTypeOK
<1>7. ASSUME NEW c \in Clerks, ClerkFails(c) PROVE PayrollIInv'
  <2>1. clerk' = [clerk EXCEPT ![c] = NoClerk] /\ UNCHANGED <<platform, salary, payroll, paid, shown, crossed>>
    BY <1>7 DEF ClerkFails, Closes
  <2>2. clerk' \in [Clerks -> Clerk] /\ SettersChecked'
    BY <2>1, NoClerkIsClerk, ClerkMoves
  <2> QED
    BY <1>a, <2>1, <2>2 DEF PayrollIInv, PayrollTypeOK, SalariedIsPlatform, Salaried
<1>8. ASSUME NEW c \in Clerks, ListLoad(c) PROVE PayrollIInv'
  <2>1. PICK w : w = [op |-> "list", due |-> salary, seen |-> FALSE, existing |-> {}]
    OBVIOUS
  <2>2. w \in Clerk /\ w.op # "set"
    BY <1>a, <2>1 DEF Clerk, PayrollTypeOK
  <2>3. clerk' = [clerk EXCEPT ![c] = w] /\ UNCHANGED <<platform, salary, payroll, paid, shown, crossed>>
    BY <1>8, <2>1 DEF ListLoad, Opens
  <2>4. clerk' \in [Clerks -> Clerk] /\ SettersChecked'
    BY <2>2, <2>3, ClerkMoves
  <2> QED
    BY <1>a, <2>3, <2>4 DEF PayrollIInv, PayrollTypeOK, SalariedIsPlatform, Salaried
<1>9. ASSUME NEW c \in Clerks, ListExisting(c) PROVE PayrollIInv'
  <2>1. PICK w : w = [clerk[c] EXCEPT !.seen = TRUE, !.existing = Rows]
    OBVIOUS
  <2>2. w \in Clerk /\ w.op # "set"
    BY <1>a, <1>9, <2>1 DEF Clerk, PayrollTypeOK, ListExisting, Rows
  <2>3. clerk' = [clerk EXCEPT ![c] = w] /\ UNCHANGED <<platform, salary, payroll, paid, shown, crossed>>
    BY <1>9, <2>1 DEF ListExisting
  <2>4. clerk' \in [Clerks -> Clerk] /\ SettersChecked'
    BY <2>2, <2>3, ClerkMoves
  <2> QED
    BY <1>a, <2>3, <2>4 DEF PayrollIInv, PayrollTypeOK, SalariedIsPlatform, Salaried
<1>10. ASSUME NEW c \in Clerks, ListAnswer(c) PROVE PayrollIInv'
  <2>1. clerk' = [clerk EXCEPT ![c] = NoClerk] /\ UNCHANGED <<platform, salary, paid, crossed>>
    BY <1>10 DEF ListAnswer, Closes
  <2>2. clerk' \in [Clerks -> Clerk] /\ SettersChecked'
    BY <2>1, NoClerkIsClerk, ClerkMoves
  <2>3. payroll' \in [Staff -> Salaries \cup {Unpaid}]
    <3>1. clerk[c] \in Clerk /\ clerk[c].op = "list"
      BY <1>a, <1>10 DEF PayrollTypeOK, ListAnswer
    <3>2. clerk[c].due \in [Staff -> Salaries \cup {Unpaid}]
      BY <3>1 DEF Clerk
    <3>3. PICK due : due = clerk[c].due
      OBVIOUS
    <3>4. PICK added : added = {r \in Staff : due[r] # Unpaid} \ clerk[c].existing
      OBVIOUS
    <3>5. \/ payroll' = payroll
          \/ payroll' = [r \in Staff |-> IF r \in added THEN due[r] ELSE payroll[r]]
      BY <1>10, <3>3, <3>4 DEF ListAnswer
    <3> QED
      BY <1>a, <3>2, <3>3, <3>5 DEF PayrollTypeOK
  <2>4. shown' \subseteq Staff
    BY <1>10 DEF ListAnswer, Rows
  <2> QED
    BY <1>a, <2>1, <2>2, <2>3, <2>4 DEF PayrollIInv, PayrollTypeOK, SalariedIsPlatform, Salaried
<1>11. CASE UNCHANGED payVars
  BY <1>a, <1>11 DEF payVars, PayrollIInv, PayrollTypeOK, SettersChecked, SalariedIsPlatform, Salaried
<1> QED
  BY <1>1, <1>2, <1>3, <1>4, <1>5, <1>6, <1>7, <1>8, <1>9, <1>10, <1>11 DEF PayrollNext

\* Whoever is salaried is a platform rider, unless a revocation crossed the
\* request that set the salary (update_rider_platform_status, set_salary).
THEOREM SalariedIsPlatformAlways == PayrollSpec => []SalariedIsPlatform
<1>1. PayrollIInv => SalariedIsPlatform
  BY DEF PayrollIInv
<1> QED
  BY <1>1, PayrollInitial, PayrollStep, PTL DEF PayrollSpec

-----------------------------------------------------------------------------
(* Merchants *)

Mine(m, w) == space[w].owner = m /\ space[w].status # "none"

\* What a request read stays true of the rows it names until it commits.
DeskRight(k) ==
  /\ k.op = "create" /\ k.space # Customer => Mine(k.user, k.space)
  /\ k.op \in {"submit", "approve", "reject"} => claim[k.form].status # "none" /\ k.base # "none"

GrantsExist == \A m \in Merchants : grant[m] \subseteq places
PrimaryOwned ==
  \A w \in Spaces : space[w].primary # NoPlace => space[w].primary \in grant[space[w].owner]
AccountsRight ==
  \A m \in Merchants : account[m].space # Customer => Mine(m, account[m].space)
ClaimsRight ==
  \A f \in Forms : claim[f].status # "none" => Mine(claim[f].user, claim[f].space)
DesksRight == \A d \in Desks : DeskRight(desk[d])

ShopIInv ==
  ShopTypeOK /\ GrantsExist /\ PrimaryOwned /\ AccountsRight /\ ClaimsRight /\ DesksRight

LEMMA ShopInvariantSuffices == ShopIInv => ActingForOwned
<1> SUFFICES ASSUME ShopIInv, NEW m \in Merchants, ActingFor(m) # NoPlace
             PROVE  ActingFor(m) \in grant[m] \cap places
  BY DEF ActingForOwned
<1>1. CASE account[m].space # Customer
  <2>1. PICK w : w = account[m].space
    OBVIOUS
  <2>2. w \in Spaces /\ ActingFor(m) = space[w].primary
    BY <1>1, <2>1 DEF ShopIInv, ShopTypeOK, Account, ActingFor
  <2>3. space[w].owner = m
    BY <1>1, <2>1 DEF ShopIInv, AccountsRight, Mine
  <2> QED
    BY <2>2, <2>3 DEF ShopIInv, PrimaryOwned, GrantsExist
<1>2. CASE account[m].space = Customer
  BY <1>2 DEF ActingFor, ShopIInv, GrantsExist
<1> QED
  BY <1>1, <1>2

LEMMA ShopInitial == ShopInit => ShopIInv
<1> SUFFICES ASSUME ShopInit PROVE ShopIInv
  OBVIOUS
<1>1. ShopTypeOK
  BY OnboardAssumption, ShopBoundsAssumption, CustomerAssumption
     DEF ShopInit, ShopTypeOK, Account, SpaceRow, ClaimRow, AskRow, Desk, AtRest, SomePlace,
         SpaceState, ClaimState, AskKind, Forms
<1> QED
  BY <1>1 DEF ShopInit, ShopIInv, GrantsExist, PrimaryOwned, AccountsRight, ClaimsRight,
              DesksRight, DeskRight, AtRest

LEMMA AtRestIsDesk == AtRest \in Desk /\ AtRest.op = "none"
BY DEF AtRest, Desk

\* A workspace keeps its owner once it has one, and an application once made
\* stays, as a deleted one at last.
Lasting ==
  /\ \A w \in Spaces : space[w].status # "none" =>
       space'[w].owner = space[w].owner /\ space'[w].status # "none"
  /\ \A f \in Forms : claim[f].status # "none" => claim'[f].status # "none"

LEMMA MineLasts ==
  ASSUME Lasting, NEW m, NEW w \in Spaces, Mine(m, w)
  PROVE  Mine(m, w)'
BY DEF Lasting, Mine

LEMMA DeskLasts ==
  ASSUME Lasting, NEW k \in Desk, DeskRight(k)
  PROVE  DeskRight(k)'
<1>1. k.op = "create" /\ k.space # Customer => k.space \in Spaces
  BY DEF Desk
<1>2. k.op \in {"submit", "approve", "reject"} => k.form \in Forms
  BY DEF Desk
<1>3. k.op = "create" /\ k.space # Customer => Mine(k.user, k.space)'
  BY <1>1, MineLasts DEF DeskRight
<1> QED
  BY <1>2, <1>3 DEF DeskRight, Lasting

\* A request begins, commits or fails.
LEMMA DeskTurns ==
  ASSUME ShopIInv, Lasting, NEW d \in Desks, NEW k \in Desk, DeskRight(k),
         desk' = [desk EXCEPT ![d] = k]
  PROVE  desk' \in [Desks -> Desk] /\ DesksRight'
<1>1. \A e \in Desks : desk'[e] = (IF e = d THEN k ELSE desk[e]) /\ desk[e] \in Desk
  BY DEF ShopIInv, ShopTypeOK
<1>2. desk' \in [Desks -> Desk]
  BY DEF ShopIInv, ShopTypeOK
<1>3. SUFFICES ASSUME NEW e \in Desks, NEW v, v = IF e = d THEN k ELSE desk[e]
               PROVE  DeskRight(v)'
  BY <1>1, <1>2 DEF DesksRight, DeskRight
<1>4. v \in Desk /\ DeskRight(v)
  BY <1>1, <1>3 DEF ShopIInv, DesksRight
<1> QED
  BY <1>4, DeskLasts

\* Nothing but the request itself moves when it has read.
LEMMA ReadKeeps ==
  ASSUME ShopIInv, NEW d \in Desks, NEW k \in Desk, DeskRight(k), desk' = [desk EXCEPT ![d] = k],
         UNCHANGED <<account, space, places, grant, claim, ask>>
  PROVE  ShopIInv'
<1>1. Lasting
  BY DEF Lasting
<1>2. desk' \in [Desks -> Desk] /\ DesksRight'
  BY <1>1, DeskTurns
<1> QED
  BY <1>2 DEF ShopIInv, ShopTypeOK, GrantsExist, PrimaryOwned, AccountsRight, ClaimsRight, Mine

LEMMA ReadsKeep ==
  ASSUME ShopIInv, NEW d \in Desks,
         \/ \E m \in Merchants : CreateLoad(d, m)
         \/ \E f \in Forms :
              \/ SubmitLoad(d, f)
              \/ \E kind \in AskKind, r \in SomePlace : AddLoad(d, f, kind, r)
              \/ \E op \in {"approve", "reject"} : VerdictLoad(d, f, op)
         \/ GiveUp(d)
  PROVE  ShopIInv'
<1>1. ASSUME NEW m \in Merchants, CreateLoad(d, m) PROVE ShopIInv'
  <2>1. PICK w \in IF SpacesOf(m) = {} THEN {Customer} ELSE SpacesOf(m) :
          Sit(d, [op |-> "create", user |-> m, space |-> w,
                  drafts |-> {f \in ClaimsOf(m) : claim[f].status = "draft"}])
    BY <1>1 DEF CreateLoad
  <2>2. PICK k : k = [op |-> "create", user |-> m, space |-> w,
                      drafts |-> {f \in ClaimsOf(m) : claim[f].status = "draft"}]
    OBVIOUS
  <2>3. w \in Spaces \cup {Customer} /\ (w # Customer => Mine(m, w))
    BY <2>1 DEF SpacesOf, Mine
  <2>4. k \in Desk /\ DeskRight(k)
    BY <2>2, <2>3 DEF Desk, DeskRight, ClaimsOf
  <2> QED
    BY <1>1, <2>1, <2>2, <2>4, ReadKeeps DEF CreateLoad, Sit
<1>2. ASSUME NEW f \in Forms, SubmitLoad(d, f) PROVE ShopIInv'
  <2>1. PICK k : k = [op |-> "submit", form |-> f, asks |-> AsksOf(f),
                      base |-> space[claim[f].space].status]
    OBVIOUS
  <2>2. claim[f].status # "none"
    BY <1>2 DEF SubmitLoad, Editable
  <2>3. claim[f].space \in Spaces /\ k.base \in SpaceState /\ k.base # "none"
    BY <2>1, <2>2 DEF ShopIInv, ShopTypeOK, ClaimsRight, Mine, ClaimRow, SpaceRow
  <2>4. k \in Desk /\ DeskRight(k)
    BY <2>1, <2>2, <2>3 DEF Desk, DeskRight, AsksOf
  <2> QED
    BY <1>2, <2>1, <2>4, ReadKeeps DEF SubmitLoad, Sit
<1>3. ASSUME NEW f \in Forms, NEW kind \in AskKind, NEW r \in SomePlace, AddLoad(d, f, kind, r)
      PROVE  ShopIInv'
  <2>1. PICK k : k = [op |-> "add", form |-> f, kind |-> kind, place |-> r]
    OBVIOUS
  <2>2. k \in Desk /\ DeskRight(k)
    BY <2>1 DEF Desk, DeskRight
  <2> QED
    BY <1>3, <2>1, <2>2, ReadKeeps DEF AddLoad, Sit
<1>4. ASSUME NEW f \in Forms, NEW op \in {"approve", "reject"}, VerdictLoad(d, f, op)
      PROVE  ShopIInv'
  <2>1. PICK k : k = [op |-> op, form |-> f, base |-> space[claim[f].space].status, asks |->
                        {a \in AsksOf(f) : op = "reject" => ask[a].status = "submitted"}]
    OBVIOUS
  <2>2. claim[f].status # "none"
    BY <1>4 DEF VerdictLoad
  <2>3. claim[f].space \in Spaces /\ k.base \in SpaceState /\ k.base # "none"
    BY <2>1, <2>2 DEF ShopIInv, ShopTypeOK, ClaimsRight, Mine, ClaimRow, SpaceRow
  <2>4. k \in Desk /\ DeskRight(k)
    BY <2>1, <2>2, <2>3 DEF Desk, DeskRight, AsksOf
  <2> QED
    BY <1>4, <2>1, <2>4, ReadKeeps DEF VerdictLoad, Sit
<1>5. ASSUME GiveUp(d) PROVE ShopIInv'
  <2>1. DeskRight(AtRest)
    BY AtRestIsDesk DEF DeskRight
  <2> QED
    BY <1>5, <2>1, AtRestIsDesk, ReadKeeps DEF GiveUp, Leave
<1> QED
  BY <1>1, <1>2, <1>3, <1>4, <1>5

\* The actions that touch accounts, and the administrator's on a workspace.
LEMMA AccountsKeep ==
  ASSUME ShopIInv, NEW m \in Merchants,
         \/ EnsureActive(m)
         \/ \E w \in Spaces \cup {Customer} : SwitchWorkspace(m, w)
         \/ \E r \in Places : SwitchRestaurant(m, r)
  PROVE  ShopIInv'
<1>1. PICK w, r : /\ account' = [account EXCEPT ![m] = [space |-> w, place |-> r]]
                  /\ r \in SomePlace /\ w \in Spaces \cup {Customer}
                  /\ w # Customer => Mine(m, w)
  <2>1. account \in [Merchants -> Account] /\ account[m] \in Account
        /\ grant[m] \subseteq Places /\ \A v \in Spaces : space[v].primary \in SomePlace
    BY DEF ShopIInv, ShopTypeOK, SpaceRow
  <2>2. account[m].space \in Spaces \cup {Customer} /\ account[m].place \in SomePlace
        /\ (account[m].space # Customer => Mine(m, account[m].space))
    BY <2>1 DEF Account, ShopIInv, AccountsRight
  <2>3. Collected(m) \subseteq Places
    BY <2>1 DEF Collected
  <2>4. ASSUME NEW r \in SomePlace, account' = [account EXCEPT ![m].place = r]
        PROVE  account' = [account EXCEPT ![m] = [space |-> account[m].space, place |-> r]]
    <3>1. [account[m] EXCEPT !.place = r] = [space |-> account[m].space, place |-> r]
      BY <2>1 DEF Account
    <3> QED
      BY <2>4, <3>1
  <2>5. CASE EnsureActive(m)
    <3>1. PICK r \in SomePlace : account' = [account EXCEPT ![m].place = r]
      BY <2>2, <2>3, <2>5 DEF EnsureActive, SomePlace
    <3> QED
      BY <2>2, <2>4, <3>1
  <2>6. CASE \E r \in Places : SwitchRestaurant(m, r)
    <3>1. PICK r \in SomePlace : account' = [account EXCEPT ![m].place = r]
      BY <2>6 DEF SwitchRestaurant, SomePlace
    <3> QED
      BY <2>2, <2>4, <3>1
  <2>7. CASE \E v \in Spaces \cup {Customer} : SwitchWorkspace(m, v)
    <3>1. PICK v \in Spaces \cup {Customer} : SwitchWorkspace(m, v)
      BY <2>7
    <3>2. PICK r : r = IF v = Customer \/ space[v].primary = NoPlace
                       THEN account[m].place ELSE space[v].primary
      OBVIOUS
    <3>3. account' = [account EXCEPT ![m] = [space |-> v, place |-> r]]
      BY <3>1, <3>2 DEF SwitchWorkspace
    <3>4. r \in SomePlace
      BY <2>1, <2>2, <3>2
    <3>5. v # Customer => Mine(m, v)
      BY <3>1 DEF SwitchWorkspace, SpacesOf, Mine
    <3> QED
      BY <3>3, <3>4, <3>5
  <2> QED
    BY <2>5, <2>6, <2>7
<1>2. UNCHANGED <<space, places, grant, claim, ask, desk>>
  BY DEF EnsureActive, SwitchWorkspace, SwitchRestaurant
<1>3. [space |-> w, place |-> r] \in Account
  BY <1>1 DEF Account
<1>4. ShopTypeOK'
  BY <1>1, <1>2, <1>3 DEF ShopIInv, ShopTypeOK
<1>5. AccountsRight'
  <2>1. \A n \in Merchants : account'[n] = IF n = m THEN [space |-> w, place |-> r] ELSE account[n]
    BY <1>1 DEF ShopIInv, ShopTypeOK
  <2> QED
    BY <1>1, <1>2, <2>1 DEF ShopIInv, AccountsRight, Mine
<1>6. /\ GrantsExist' /\ PrimaryOwned' /\ ClaimsRight' /\ DesksRight'
  BY <1>2 DEF ShopIInv, GrantsExist, PrimaryOwned, ClaimsRight, DesksRight, DeskRight, Mine
<1> QED
  BY <1>4, <1>5, <1>6 DEF ShopIInv

LEMMA StatusKeeps ==
  ASSUME ShopIInv, NEW w \in Spaces, NEW to \in {"active", "suspended"}, SetWorkspaceStatus(w, to)
  PROVE  ShopIInv'
<1>1. /\ space[w].status # "none" /\ space' = [space EXCEPT ![w].status = to]
      /\ UNCHANGED <<account, places, grant, claim, ask, desk>>
  BY DEF SetWorkspaceStatus
<1>2. \A v \in Spaces : /\ space'[v].owner = space[v].owner /\ space'[v].primary = space[v].primary
                        /\ space'[v].status = IF v = w THEN to ELSE space[v].status
                        /\ space'[v] \in SpaceRow
  BY <1>1 DEF ShopIInv, ShopTypeOK, SpaceRow, SpaceState
<1>3. space' \in [Spaces -> SpaceRow]
  BY <1>1, <1>2 DEF ShopIInv, ShopTypeOK
<1>4. Lasting
  BY <1>1, <1>2 DEF Lasting
<1>5. DesksRight'
  BY <1>1, <1>4, DeskLasts DEF DesksRight, ShopIInv, ShopTypeOK, DeskRight, Mine
<1>6. AccountsRight' /\ ClaimsRight'
  BY <1>1, <1>4, MineLasts DEF ShopIInv, ShopTypeOK, Account, ClaimRow, AccountsRight, ClaimsRight, Mine
<1>7. PrimaryOwned' /\ GrantsExist'
  BY <1>1, <1>2 DEF ShopIInv, PrimaryOwned, GrantsExist
<1> QED
  BY <1>1, <1>3, <1>5, <1>6, <1>7 DEF ShopIInv, ShopTypeOK

LEMMA DeletionKeeps ==
  ASSUME ShopIInv, NEW r \in Places, DeleteRestaurant(r)
  PROVE  ShopIInv'
<1>1. /\ places' = places \ {r} /\ grant' = [m \in Merchants |-> grant[m] \ {r}]
      /\ account' = [m \in Merchants |->
           IF account[m].place = r THEN [account[m] EXCEPT !.place = NoPlace] ELSE account[m]]
      /\ space' = [w \in Spaces |->
           IF space[w].primary = r THEN [space[w] EXCEPT !.primary = NoPlace] ELSE space[w]]
      /\ ask' = [a \in Asks |-> IF ask[a].place = r THEN [ask[a] EXCEPT !.place = NoPlace] ELSE ask[a]]
      /\ UNCHANGED <<claim, desk>>
  BY DEF DeleteRestaurant, PlaceDeleted
<1>2. \A w \in Spaces :
        /\ space'[w].owner = space[w].owner /\ space'[w].status = space[w].status
        /\ space'[w].primary = IF space[w].primary = r THEN NoPlace ELSE space[w].primary
        /\ space'[w] \in SpaceRow
  BY <1>1 DEF ShopIInv, ShopTypeOK, SpaceRow, SomePlace
<1>3. \A m \in Merchants : account'[m].space = account[m].space /\ account'[m] \in Account
  BY <1>1 DEF ShopIInv, ShopTypeOK, Account, SomePlace
<1>4. \A a \in Asks : ask'[a] \in AskRow
  BY <1>1 DEF ShopIInv, ShopTypeOK, AskRow, SomePlace
<1>5. ShopTypeOK'
  BY <1>1, <1>2, <1>3, <1>4 DEF ShopIInv, ShopTypeOK
<1>6. Lasting
  BY <1>1, <1>2 DEF Lasting
<1>7. DesksRight'
  BY <1>1, <1>6, DeskLasts DEF DesksRight, ShopIInv, ShopTypeOK, DeskRight, Mine
<1>8. AccountsRight' /\ ClaimsRight'
  BY <1>1, <1>2, <1>3 DEF ShopIInv, ShopTypeOK, Account, ClaimRow, AccountsRight, ClaimsRight, Mine
<1>9. GrantsExist'
  BY <1>1 DEF ShopIInv, GrantsExist
<1>10. PrimaryOwned'
  BY <1>1, <1>2 DEF ShopIInv, ShopTypeOK, SpaceRow, PrimaryOwned
<1> QED
  BY <1>5, <1>7, <1>8, <1>9, <1>10 DEF ShopIInv

\* A commit that keeps accounts, restaurants and grants, and of the workspaces
\* and applications only moves statuses on.
LEMMA QuietCommit ==
  ASSUME ShopIInv, NEW d \in Desks, Leave(d),
         claim' \in [Forms -> ClaimRow], space' \in [Spaces -> SpaceRow], ask' \in [Asks -> AskRow],
         UNCHANGED <<account, places, grant>>,
         \A f \in Forms : /\ claim'[f].user = claim[f].user /\ claim'[f].space = claim[f].space
                          /\ claim'[f].status = "none" <=> claim[f].status = "none",
         \A w \in Spaces : /\ space'[w].owner = space[w].owner /\ space'[w].primary = space[w].primary
                           /\ space'[w].status = "none" <=> space[w].status = "none"
  PROVE  ShopIInv'
<1>1. Lasting
  BY DEF Lasting
<1>2. DeskRight(AtRest)
  BY AtRestIsDesk DEF DeskRight
<1>3. desk' \in [Desks -> Desk] /\ DesksRight'
  BY <1>1, <1>2, AtRestIsDesk, DeskTurns DEF Leave
<1>4. ClaimsRight' /\ AccountsRight'
  BY DEF ShopIInv, ShopTypeOK, ClaimRow, Account, ClaimsRight, AccountsRight, Mine
<1>5. GrantsExist' /\ PrimaryOwned'
  BY DEF ShopIInv, GrantsExist, PrimaryOwned
<1> QED
  BY <1>3, <1>4, <1>5 DEF ShopIInv, ShopTypeOK

LEMMA AddCommitKeeps ==
  ASSUME ShopIInv, NEW d \in Desks, NEW a \in Asks, AddCommit(d, a)
  PROVE  ShopIInv'
<1>1. PICK c : c = desk[d]
  OBVIOUS
<1>2. c \in Desk /\ c.op = "add"
  BY <1>1 DEF AddCommit, IsAt, ShopIInv, ShopTypeOK
<1>3. [status |-> "draft", form |-> c.form, kind |-> c.kind, place |-> c.place] \in AskRow
  BY <1>2 DEF Desk, AskRow, ClaimState
<1>4. /\ ask' = [ask EXCEPT ![a] =
           [status |-> "draft", form |-> c.form, kind |-> c.kind, place |-> c.place]]
      /\ Leave(d) /\ UNCHANGED <<account, space, places, grant, claim>>
  BY <1>1 DEF AddCommit
<1>5. ask' \in [Asks -> AskRow]
  BY <1>3, <1>4 DEF ShopIInv, ShopTypeOK
<1>6. claim' \in [Forms -> ClaimRow] /\ space' \in [Spaces -> SpaceRow]
  BY <1>4 DEF ShopIInv, ShopTypeOK
<1> QED
  BY <1>4, <1>5, <1>6, QuietCommit

\* A workspace that is written back, with the status it was loaded with or a new one.
LEMMA StatusWritten ==
  ASSUME ShopIInv, NEW w \in Spaces, space[w].status # "none", NEW base,
         NEW to \in SpaceState \ {"none"}, NEW s,
         s = WithStatus(w, base, to)
  PROVE  /\ s \in SpaceRow /\ s.owner = space[w].owner /\ s.primary = space[w].primary
         /\ s.status # "none"
BY DEF ShopIInv, ShopTypeOK, SpaceRow, WithStatus

\* The application and the workspace of a request that answers or submits one.
LEMMA AnswersOwn ==
  ASSUME ShopIInv, NEW d \in Desks, desk[d].op \in {"submit", "approve", "reject"}
  PROVE  /\ desk[d].form \in Forms /\ desk[d].asks \subseteq Asks
         /\ claim[desk[d].form] \in ClaimRow
         /\ claim[desk[d].form].status # "none"
         /\ claim[desk[d].form].space \in Spaces
         /\ Mine(claim[desk[d].form].user, claim[desk[d].form].space)
<1>1. desk[d] \in Desk /\ DeskRight(desk[d])
  BY DEF ShopIInv, ShopTypeOK, DesksRight
<1>2. desk[d].form \in Forms /\ desk[d].asks \subseteq Asks
  BY <1>1 DEF Desk
<1>3. claim[desk[d].form] \in ClaimRow /\ claim[desk[d].form].status # "none"
  BY <1>1, <1>2 DEF DeskRight, ShopIInv, ShopTypeOK
<1> QED
  BY <1>2, <1>3 DEF ClaimRow, ShopIInv, ClaimsRight

LEMMA AnswerKeeps ==
  ASSUME ShopIInv, NEW d \in Desks, SubmitCommit(d) \/ RefuseCommit(d)
  PROVE  ShopIInv'
<1>1. PICK f, w, asks, base : /\ f = desk[d].form /\ w = claim[f].space
                              /\ asks = desk[d].asks /\ base = desk[d].base
  OBVIOUS
<1>2. /\ f \in Forms /\ asks \subseteq Asks /\ claim[f].status # "none" /\ w \in Spaces
      /\ space[w].status # "none"
  BY <1>1, AnswersOwn DEF SubmitCommit, RefuseCommit, IsAt, Mine
<1>3. PICK to, new :
        /\ to \in {"submitted", "rejected"} /\ new \in SpaceState \ {"none"}
        /\ claim' = [claim EXCEPT ![f].status = to]
        /\ ask' = [a \in Asks |-> IF a \in asks THEN [ask[a] EXCEPT !.status = to] ELSE ask[a]]
        /\ space' = IF base = "active" THEN space
                    ELSE [space EXCEPT ![w] = WithStatus(w, base, new)]
  <2>1. CASE SubmitCommit(d)
    <3>1. /\ claim' = [claim EXCEPT ![f].status = "submitted"]
          /\ ask' = [a \in Asks |-> IF a \in asks THEN [ask[a] EXCEPT !.status = "submitted"] ELSE ask[a]]
          /\ space' = IF base = "active" THEN space
                      ELSE [space EXCEPT ![w] = WithStatus(w, base, "pending_review")]
      BY <1>1, <2>1 DEF SubmitCommit
    <3> QED
      BY <3>1 DEF SpaceState
  <2>2. CASE RefuseCommit(d)
    <3>1. /\ claim' = [claim EXCEPT ![f].status = "rejected"]
          /\ ask' = [a \in Asks |-> IF a \in asks THEN [ask[a] EXCEPT !.status = "rejected"] ELSE ask[a]]
          /\ space' = IF base = "active" THEN space
                      ELSE [space EXCEPT ![w] = WithStatus(w, base, "rejected")]
      BY <1>1, <2>2 DEF RefuseCommit
    <3> QED
      BY <3>1 DEF SpaceState
  <2> QED
    BY <2>1, <2>2
<1>4. Leave(d) /\ UNCHANGED <<account, places, grant>>
  BY DEF SubmitCommit, RefuseCommit
<1>5. PICK s : s = WithStatus(w, base, new)
  OBVIOUS
<1>6. /\ s \in SpaceRow /\ s.owner = space[w].owner /\ s.primary = space[w].primary
      /\ s.status # "none"
  BY <1>2, <1>3, <1>5, StatusWritten
<1>7. /\ claim' \in [Forms -> ClaimRow]
      /\ \A g \in Forms : /\ claim'[g].user = claim[g].user /\ claim'[g].space = claim[g].space
                          /\ claim'[g].status = "none" <=> claim[g].status = "none"
  BY <1>2, <1>3 DEF ShopIInv, ShopTypeOK, ClaimRow, ClaimState
<1>8. ask' \in [Asks -> AskRow]
  BY <1>3 DEF ShopIInv, ShopTypeOK, AskRow, ClaimState
<1>9. space' = space \/ space' = [space EXCEPT ![w] = s]
  BY <1>3, <1>5
<1>10. /\ space' \in [Spaces -> SpaceRow]
       /\ \A v \in Spaces : /\ space'[v].owner = space[v].owner /\ space'[v].primary = space[v].primary
                            /\ space'[v].status = "none" <=> space[v].status = "none"
  BY <1>2, <1>6, <1>9 DEF ShopIInv, ShopTypeOK
<1> QED
  BY <1>4, <1>7, <1>8, <1>10, QuietCommit

\* create_merchant_application: the new row, the deleted drafts, and a workspace
\* for who has none.
LEMMA CreateKeeps ==
  ASSUME ShopIInv, NEW d \in Desks, NEW f \in Forms, CreateCommit(d, f)
  PROVE  ShopIInv'
<1>1. PICK c : c = desk[d]
  OBVIOUS
<1>2. c \in Desk /\ DeskRight(c) /\ c.op = "create"
  BY <1>1 DEF CreateCommit, IsAt, ShopIInv, ShopTypeOK, DesksRight
<1>3. c.user \in Merchants /\ c.space \in Spaces \cup {Customer} /\ (c.space # Customer => Mine(c.user, c.space))
  BY <1>2 DEF Desk, DeskRight
<1>4. PICK w, gone :
        /\ w \in IF c.space # Customer THEN {c.space} ELSE {v \in Spaces : space[v].status = "none"}
        /\ space' = IF c.space # Customer THEN space
                    ELSE [space EXCEPT ![w] = [owner |-> c.user, status |-> "pending", primary |-> NoPlace]]
        /\ claim' = [g \in Forms |->
             IF g = f THEN [status |-> "draft", user |-> c.user, space |-> w]
             ELSE IF g \in gone THEN [claim[g] EXCEPT !.status = "deleted"] ELSE claim[g]]
        /\ \A g \in gone : claim[g].status # "none"
  <2>1. PICK gone : gone = {g \in c.drafts : Exists(g)}
    OBVIOUS
  <2>2. \A g \in gone : claim[g].status # "none"
    BY <2>1 DEF Exists
  <2>3. PICK w \in IF c.space # Customer THEN {c.space} ELSE {v \in Spaces : space[v].status = "none"} :
        /\ space' = IF c.space # Customer THEN space
                    ELSE [space EXCEPT ![w] = [owner |-> c.user, status |-> "pending", primary |-> NoPlace]]
        /\ claim' = [g \in Forms |->
             IF g = f THEN [status |-> "draft", user |-> c.user, space |-> w]
             ELSE IF g \in gone THEN [claim[g] EXCEPT !.status = "deleted"] ELSE claim[g]]
    BY <1>1, <2>1 DEF CreateCommit
  <2> QED
    BY <2>2, <2>3
<1>5. claim[f].status = "none" /\ Leave(d) /\ UNCHANGED <<account, places, grant>>
  BY DEF CreateCommit
<1>6a. ask' \in [Asks -> AskRow]
  <2>1. PICK lost : ask' = [a \in Asks |-> IF a \in lost THEN [ask[a] EXCEPT !.status = "deleted"] ELSE ask[a]]
    BY DEF CreateCommit
  <2> QED
    BY <2>1 DEF ShopIInv, ShopTypeOK, AskRow, ClaimState
<1>6. w \in Spaces
  BY <1>3, <1>4
<1>7. \A v \in Spaces :
        /\ space'[v] \in SpaceRow
        /\ space'[v] = space[v]
           \/ (v = w /\ space[v].status = "none" /\ space'[v].owner = c.user
               /\ space'[v].status = "pending" /\ space'[v].primary = NoPlace)
  BY <1>3, <1>4, <1>6 DEF ShopIInv, ShopTypeOK, SpaceRow, SpaceState, SomePlace
<1>8. space' \in [Spaces -> SpaceRow]
  BY <1>4, <1>7 DEF ShopIInv, ShopTypeOK
<1>9. Mine(c.user, w)'
  BY <1>3, <1>4, <1>6 DEF Mine, ShopIInv, ShopTypeOK
<1>10. \A g \in Forms :
         /\ claim'[g] \in ClaimRow
         /\ g = f => claim'[g].user = c.user /\ claim'[g].space = w /\ claim'[g].status = "draft"
         /\ g # f => /\ claim'[g].user = claim[g].user /\ claim'[g].space = claim[g].space
                     /\ claim'[g].status \in {claim[g].status, "deleted"}
  <2>1. [status |-> "draft", user |-> c.user, space |-> w] \in ClaimRow
    BY <1>3, <1>6 DEF ClaimRow, ClaimState
  <2>2. \A g \in Forms : claim[g] \in ClaimRow
    BY DEF ShopIInv, ShopTypeOK
  <2> QED
    BY <1>4, <2>1, <2>2 DEF ClaimRow, ClaimState
<1>11. claim' \in [Forms -> ClaimRow]
  BY <1>4, <1>10
<1>12. Lasting
  BY <1>5, <1>7, <1>10 DEF Lasting
<1>13. desk' \in [Desks -> Desk] /\ DesksRight'
  <2>1. DeskRight(AtRest)
    BY AtRestIsDesk DEF DeskRight
  <2> QED
    BY <1>5, <1>12, <2>1, AtRestIsDesk, DeskTurns DEF Leave
<1>14. AccountsRight'
  BY <1>5, <1>12, MineLasts DEF ShopIInv, ShopTypeOK, Account, AccountsRight, Mine
<1>15. ClaimsRight'
  <2> SUFFICES ASSUME NEW g \in Forms, NEW v, v = claim'[g].space, NEW m, m = claim'[g].user,
                      claim'[g].status # "none"
               PROVE  Mine(m, v)'
    BY DEF ClaimsRight, Mine
  <2>1. CASE g = f
    BY <1>9, <1>10, <2>1
  <2>2. CASE g # f
    <3>1. claim[g].status # "none" /\ m = claim[g].user /\ v = claim[g].space
      BY <1>4, <1>10, <2>2
    <3>2. Mine(m, v) /\ v \in Spaces
      BY <3>1 DEF ShopIInv, ShopTypeOK, ClaimRow, ClaimsRight
    <3> QED
      BY <1>12, <3>2, MineLasts
  <2> QED
    BY <2>1, <2>2
<1>16. GrantsExist' /\ PrimaryOwned'
  BY <1>5, <1>7 DEF ShopIInv, GrantsExist, PrimaryOwned
<1> QED
  BY <1>5, <1>6a, <1>8, <1>11, <1>13, <1>14, <1>15, <1>16 DEF ShopIInv, ShopTypeOK

\* approve_application: the restaurants that the requests won are granted, and one
\* of them becomes the workspace's.
LEMMA GrantKeeps ==
  ASSUME ShopIInv, NEW d \in Desks, GrantCommit(d)
  PROVE  ShopIInv'
<1> DEFINE f == desk[d].form
           m == claim[f].user
           w == claim[f].space
           asks == desk[d].asks
           base == desk[d].base
           new == {a \in asks : ask[a].kind = "create"}
<1>2. /\ f \in Forms /\ asks \subseteq Asks /\ claim[f] \in ClaimRow /\ claim[f].status # "none"
      /\ w \in Spaces /\ Mine(m, w)
  BY AnswersOwn DEF GrantCommit, IsAt
<1>3. m \in Merchants
  BY <1>2 DEF ClaimRow
<1>5. PICK made \in [new -> Places \ places], first \in SomePlace :
        LET won == Won(asks, made) IN
        /\ first \in IF won = {} THEN {NoPlace} ELSE won
        /\ places' = places \cup {made[a] : a \in new}
        /\ grant' = [grant EXCEPT ![m] = @ \cup won]
        /\ ask' = Answered(desk[d], made)
        /\ space' = [space EXCEPT ![w] = [WithStatus(w, base, "active") EXCEPT
             !.primary = IF first = NoPlace THEN @ ELSE first]]
        /\ account' = IF first = NoPlace THEN account ELSE [account EXCEPT
             ![m].place = IF @ = NoPlace THEN first ELSE @,
             ![m].space = IF @ = Customer THEN w ELSE @]
  BY DEF GrantCommit
<1>6. PICK won : won = Won(asks, made)
  OBVIOUS
<1>7. /\ claim' = [claim EXCEPT ![f].status = "approved"] /\ Leave(d)
      /\ \A a \in asks \ new : ask[a].place \in places
  BY DEF GrantCommit
<1> HIDE DEF f, m, w, asks, base, new
<1>8. won \subseteq places' /\ places \subseteq places' /\ places' \subseteq Places
  <2>1. DOMAIN made = new /\ \A a \in new : made[a] \in Places
    BY <1>5
  <2>2. won = {made[a] : a \in new} \cup {ask[a].place : a \in asks \ new}
    BY <1>6, <2>1, Zenon DEF Won
  <2>3. places' = places \cup {made[a] : a \in new}
    BY <1>5
  <2>4. places \subseteq Places
    BY DEF ShopIInv, ShopTypeOK
  <2> QED
    BY <1>7, <2>1, <2>2, <2>3, <2>4
<1>9. first # NoPlace => first \in won
  BY <1>5, <1>6
<1>10. /\ grant' \in [Merchants -> SUBSET Places]
       /\ \A n \in Merchants : grant'[n] = IF n = m THEN grant[m] \cup won ELSE grant[n]
  <2>1. grant' = [grant EXCEPT ![m] = grant[m] \cup won]
    BY <1>5, <1>6
  <2> QED
    BY <1>3, <1>8, <2>1 DEF ShopIInv, ShopTypeOK
<1>11. GrantsExist'
  BY <1>3, <1>8, <1>10 DEF ShopIInv, GrantsExist
<1>12. PICK s : s = WithStatus(w, base, "active")
  OBVIOUS
<1>13. /\ s \in SpaceRow /\ s.owner = space[w].owner /\ s.primary = space[w].primary
       /\ s.status # "none"
  BY <1>2, <1>12, StatusWritten DEF SpaceState, Mine
<1>14. PICK t : t = [s EXCEPT !.primary = IF first = NoPlace THEN s.primary ELSE first]
  OBVIOUS
<1>15. space' = [space EXCEPT ![w] = t]
  BY <1>5, <1>12, <1>14
<1>16. /\ t \in SpaceRow /\ t.owner = space[w].owner /\ t.status # "none"
       /\ t.primary = IF first = NoPlace THEN space[w].primary ELSE first
  BY <1>13, <1>14 DEF SpaceRow
<1>17. /\ space' \in [Spaces -> SpaceRow]
       /\ \A v \in Spaces : space'[v] = IF v = w THEN t ELSE space[v]
  BY <1>2, <1>15, <1>16 DEF ShopIInv, ShopTypeOK
<1>18. PrimaryOwned'
  <2> SUFFICES ASSUME NEW v \in Spaces, NEW p, p = space'[v].primary, p # NoPlace,
                      NEW o, o = space'[v].owner
               PROVE  p \in grant'[o]
    BY DEF PrimaryOwned
  <2>1. o \in Merchants
    BY <1>17 DEF SpaceRow
  <2>2. CASE v = w /\ first # NoPlace
    <3>1. p = first /\ o = m
      BY <1>2, <1>16, <1>17, <2>2 DEF Mine
    <3> QED
      BY <1>3, <1>9, <1>10, <2>2, <3>1
  <2>3. CASE ~(v = w /\ first # NoPlace)
    <3>1. p = space[v].primary /\ o = space[v].owner
      BY <1>16, <1>17, <2>3
    <3>2. p \in grant[o]
      BY <3>1 DEF ShopIInv, PrimaryOwned
    <3> QED
      BY <1>10, <2>1, <3>2
  <2> QED
    BY <2>2, <2>3
<1>19. /\ claim' \in [Forms -> ClaimRow]
       /\ \A g \in Forms : /\ claim'[g].user = claim[g].user /\ claim'[g].space = claim[g].space
                           /\ claim[g].status = "none" <=> claim'[g].status = "none"
  BY <1>2, <1>7 DEF ShopIInv, ShopTypeOK, ClaimRow, ClaimState
<1>20. Lasting
  BY <1>16, <1>17, <1>19 DEF Lasting
<1>21. desk' \in [Desks -> Desk] /\ DesksRight'
  <2>1. DeskRight(AtRest)
    BY AtRestIsDesk DEF DeskRight
  <2> QED
    BY <1>7, <1>20, <2>1, AtRestIsDesk, DeskTurns DEF Leave
<1>22. ClaimsRight'
  <2> SUFFICES ASSUME NEW g \in Forms, NEW v, v = claim'[g].space, NEW n, n = claim'[g].user,
                      claim'[g].status # "none"
               PROVE  Mine(n, v)'
    BY DEF ClaimsRight, Mine
  <2>1. Mine(n, v) /\ v \in Spaces
    BY <1>19 DEF ShopIInv, ShopTypeOK, ClaimRow, ClaimsRight
  <2> QED
    BY <1>20, <2>1, MineLasts
<1>23. \A n \in Merchants :
         /\ account'[n] \in Account
         /\ account'[n].space = account[n].space \/ (n = m /\ account'[n].space = w)
  <2>1. account \in [Merchants -> Account]
    BY DEF ShopIInv, ShopTypeOK
  <2>2. CASE first = NoPlace
    BY <1>5, <2>1, <2>2
  <2>3. CASE first # NoPlace
    <3>1. PICK b : b = [space |-> IF account[m].space = Customer THEN w ELSE account[m].space,
                        place |-> IF account[m].place = NoPlace THEN first ELSE account[m].place]
      OBVIOUS
    <3>2. account' = [account EXCEPT ![m] = b]
      <4>1. account' = [account EXCEPT ![m].place = IF @ = NoPlace THEN first ELSE @,
                                       ![m].space = IF @ = Customer THEN w ELSE @]
        BY <1>5, <2>3
      <4>2. account[m] \in Account
        BY <1>3, <2>1
      <4>3. PICK i : i = [account EXCEPT ![m].place = IF account[m].place = NoPlace THEN first ELSE account[m].place]
        OBVIOUS
      <4>4. account' = [i EXCEPT ![m].space = IF i[m].space = Customer THEN w ELSE i[m].space]
        BY <4>1, <4>3
      <4>5. /\ DOMAIN i = Merchants /\ \A n \in Merchants : n # m => i[n] = account[n]
            /\ i[m] = [account[m] EXCEPT !.place = IF account[m].place = NoPlace THEN first ELSE account[m].place]
        BY <1>3, <2>1, <4>3
      <4>6. i[m] = [space |-> account[m].space,
                    place |-> IF account[m].place = NoPlace THEN first ELSE account[m].place]
        BY <4>2, <4>5 DEF Account
      <4>7. [i[m] EXCEPT !.space = IF i[m].space = Customer THEN w ELSE i[m].space] = b
        BY <3>1, <4>6
      <4>8. DOMAIN account' = Merchants /\ \A n \in Merchants : account'[n] = IF n = m THEN b ELSE account[n]
        BY <1>3, <4>4, <4>5, <4>7
      <4> QED
        BY <1>3, <2>1, <4>4, <4>5, <4>7, <4>8
    <3>3. b \in Account
      BY <1>2, <1>3, <1>5, <2>1, <3>1 DEF Account
    <3> QED
      BY <1>3, <2>1, <3>1, <3>2, <3>3
  <2> QED
    BY <2>2, <2>3
<1>24. account' \in [Merchants -> Account]
  BY <1>3, <1>5, <1>23 DEF ShopIInv, ShopTypeOK
<1>25. AccountsRight'
  <2> SUFFICES ASSUME NEW n \in Merchants, NEW v, v = account'[n].space, v # Customer
               PROVE  Mine(n, v)'
    BY DEF AccountsRight, Mine
  <2>1. Mine(n, v) /\ v \in Spaces
    BY <1>2, <1>23 DEF ShopIInv, ShopTypeOK, Account, AccountsRight
  <2> QED
    BY <1>20, <2>1, MineLasts
<1>26. ask' \in [Asks -> AskRow]
  <2>1. ask' = [a \in Asks |-> IF a \notin asks THEN ask[a]
                ELSE [ask[a] EXCEPT !.status = "approved", !.place = IF a \in DOMAIN made THEN made[a] ELSE @]]
    BY <1>5 DEF Answered, asks
  <2>2. \A a \in DOMAIN made : made[a] \in SomePlace
    BY <1>5 DEF SomePlace
  <2> QED
    BY <2>1, <2>2 DEF ShopIInv, ShopTypeOK, AskRow, ClaimState
<1> QED
  BY <1>8, <1>10, <1>11, <1>17, <1>18, <1>19, <1>21, <1>22, <1>24, <1>25, <1>26
  DEF ShopIInv, ShopTypeOK

LEMMA ShopStep == ShopIInv /\ [ShopNext]_shopVars => ShopIInv'
<1> SUFFICES ASSUME ShopIInv, [ShopNext]_shopVars PROVE ShopIInv'
  OBVIOUS
<1>1. ASSUME NEW m \in Merchants,
             \/ EnsureActive(m)
             \/ \E w \in Spaces \cup {Customer} : SwitchWorkspace(m, w)
             \/ \E r \in Places : SwitchRestaurant(m, r)
      PROVE  ShopIInv'
  BY <1>1, AccountsKeep
<1>2. ASSUME NEW d \in Desks,
             \/ \E m \in Merchants : CreateLoad(d, m)
             \/ \E f \in Forms :
                  \/ SubmitLoad(d, f)
                  \/ \E kind \in AskKind, r \in SomePlace : AddLoad(d, f, kind, r)
                  \/ \E op \in {"approve", "reject"} : VerdictLoad(d, f, op)
             \/ GiveUp(d)
      PROVE  ShopIInv'
  BY <1>2, ReadsKeep
<1>3. ASSUME NEW d \in Desks, NEW f \in Forms, CreateCommit(d, f) PROVE ShopIInv'
  BY <1>3, CreateKeeps
<1>4. ASSUME NEW d \in Desks, NEW a \in Asks, AddCommit(d, a) PROVE ShopIInv'
  BY <1>4, AddCommitKeeps
<1>5. ASSUME NEW d \in Desks, SubmitCommit(d) \/ RefuseCommit(d) PROVE ShopIInv'
  BY <1>5, AnswerKeeps
<1>6. ASSUME NEW d \in Desks, GrantCommit(d) PROVE ShopIInv'
  BY <1>6, GrantKeeps
<1>7. ASSUME NEW w \in Spaces, NEW to \in {"active", "suspended"}, SetWorkspaceStatus(w, to)
      PROVE  ShopIInv'
  BY <1>7, StatusKeeps
<1>8. ASSUME NEW r \in Places, DeleteRestaurant(r) PROVE ShopIInv'
  BY <1>8, DeletionKeeps
<1>9. CASE UNCHANGED shopVars
  BY <1>9 DEF shopVars, ShopIInv, ShopTypeOK, GrantsExist, PrimaryOwned, AccountsRight,
              ClaimsRight, DesksRight, DeskRight, Mine
<1> QED
  BY <1>1, <1>2, <1>3, <1>4, <1>5, <1>6, <1>7, <1>8, <1>9 DEF ShopNext

\* Whoever acts for a restaurant has been granted it, and the restaurant exists,
\* however approvals, switches and deletions overlap (get_active_merchant_restaurant_id).
THEOREM ActingForOwnedAlways == ShopSpec => []ActingForOwned
BY ShopInitial, ShopStep, ShopInvariantSuffices, PTL DEF ShopSpec

-----------------------------------------------------------------------------
(* RiderTeam *)

\* What a request read stays true of the rows it names until it commits.
WorkRight(k) ==
  /\ k.op = "invite" => k.user \in {NoRider, k.rider}
  /\ k.op = "answer" => invite[k.id].status # "none"
  /\ k.op = "accept" =>
       person[k.rider].role /\ invite[k.id].status # "none" /\ invite[k.id].email = k.rider
  /\ k.op = "review" => form[k.id].status # "none"
  /\ k.op = "enter" => form[k.id].status # "none" /\ person[form[k.id].user].role
  /\ k.op = "space" => person[k.rider].role /\ (k.make \/ person[k.rider].spaces > 0)

\* A workspace comes with the role, and the mode of a rider with a workspace.
ModesRight ==
  \A r \in Riders : /\ person[r].spaces > 0 => person[r].role
                    /\ person[r].active = "rider" => person[r].spaces > 0

\* An invitation is its addressee's, and a row that is not there nobody's.
InvitesRight ==
  \A i \in Invites : /\ invite[i].user \in {NoRider, invite[i].email}
                     /\ invite[i].status = "none" => invite[i].user = NoRider

SeatsRight ==
  \A s \in Seats : seat[s] # NoRider =>
    person[seat[s]].role /\ \E i \in Invites : invite[i].user = seat[s]

WorksRight == \A h \in Handlers : WorkRight(work[h])

TeamIInv ==
  TeamTypeOK /\ ModesRight /\ InvitesRight /\ SeatsRight /\ WorksRight

LEMMA TeamInvariantSuffices == TeamIInv => RidersAreReal
BY DEF TeamIInv, ModesRight, SeatsRight, RidersAreReal

LEMMA TeamInitial == TeamInit => TeamIInv
<1> SUFFICES ASSUME TeamInit PROVE TeamIInv
  OBVIOUS
<1>1. TeamTypeOK
  BY NoRiderAssumption DEF TeamInit, TeamTypeOK, Person, InviteRow, FormRow, Work, Resting,
     InviteStatus, Duplicate, Live, FormStatus
<1> QED
  BY <1>1 DEF TeamInit, TeamIInv, ModesRight, InvitesRight, SeatsRight, WorksRight, WorkRight, Resting

\* Roles, workspaces, invitations and applications are never taken back.
Enduring ==
  /\ \A r \in Riders : /\ person[r].role => person'[r].role
                       /\ person[r].spaces > 0 => person'[r].spaces > 0
  /\ \A i \in Invites : invite[i].status # "none" =>
       invite'[i].status # "none" /\ invite'[i].email = invite[i].email
  /\ \A a \in Applications : form[a].status # "none" =>
       form'[a].status # "none" /\ form'[a].user = form[a].user

LEMMA WorkEndures ==
  ASSUME TeamTypeOK, Enduring, NEW k \in Work, WorkRight(k)
  PROVE  WorkRight(k)'
<1>1. CASE k.op \in {"none", "invite", "remove", "apply"}
  BY <1>1 DEF WorkRight
<1>2. CASE k.op = "answer"
  <2>1. k.id \in Invites
    BY <1>2 DEF Work
  <2> QED
    BY <1>2, <2>1 DEF WorkRight, Enduring
<1>3. CASE k.op = "accept"
  <2>1. k.id \in Invites /\ k.rider \in Riders
    BY <1>3 DEF Work
  <2> QED
    BY <1>3, <2>1 DEF WorkRight, Enduring
<1>4. CASE k.op = "review"
  <2>1. k.id \in Applications
    BY <1>4 DEF Work
  <2> QED
    BY <1>4, <2>1 DEF WorkRight, Enduring
<1>5. CASE k.op = "enter"
  <2>1. k.id \in Applications /\ form[k.id].user \in Riders
    BY <1>5 DEF Work, TeamTypeOK, FormRow
  <2> QED
    BY <1>5, <2>1 DEF WorkRight, Enduring
<1>6. CASE k.op = "space"
  <2>1. k.rider \in Riders
    BY <1>6 DEF Work
  <2> QED
    BY <1>6, <2>1 DEF WorkRight, Enduring
<1>7. k.op \in {"none", "invite", "answer", "accept", "remove", "apply", "review", "enter", "space"}
  BY DEF Work
<1> QED
  BY <1>1, <1>2, <1>3, <1>4, <1>5, <1>6, <1>7

\* A handler begins, goes on, or ends.
LEMMA WorkTurns ==
  ASSUME TeamIInv, Enduring, NEW h \in Handlers, NEW k \in Work, WorkRight(k)',
         work' = [work EXCEPT ![h] = k]
  PROVE  work' \in [Handlers -> Work] /\ WorksRight'
<1>1. \A g \in Handlers : work'[g] = (IF g = h THEN k ELSE work[g]) /\ work[g] \in Work
  BY DEF TeamIInv, TeamTypeOK
<1>2. work' \in [Handlers -> Work]
  BY DEF TeamIInv, TeamTypeOK
<1>3. SUFFICES ASSUME NEW g \in Handlers, NEW v, v = IF g = h THEN k ELSE work[g]
               PROVE  WorkRight(v)'
  BY <1>1, <1>2 DEF WorksRight, WorkRight
<1>4. CASE g = h
  BY <1>3, <1>4
<1>5. CASE g # h
  <2>1. v \in Work /\ WorkRight(v)
    BY <1>1, <1>3, <1>5 DEF TeamIInv, WorksRight
  <2> QED
    BY <2>1, WorkEndures DEF TeamIInv
<1> QED
  BY <1>4, <1>5

LEMMA RestingRight == Resting \in Work /\ WorkRight(Resting)'
BY DEF Resting, Work, WorkRight

\* Nothing but the handler itself moves when it has read.
LEMMA HandlerReads ==
  ASSUME TeamIInv, NEW h \in Handlers, NEW k \in Work, WorkRight(k), work' = [work EXCEPT ![h] = k],
         UNCHANGED <<person, invite, seat, form>>
  PROVE  TeamIInv'
<1>1. Enduring
  BY DEF Enduring
<1>2. WorkRight(k)'
  BY <1>1, WorkEndures DEF TeamIInv
<1>3. work' \in [Handlers -> Work] /\ WorksRight'
  BY <1>1, <1>2, WorkTurns
<1> QED
  BY <1>3 DEF TeamIInv, TeamTypeOK, ModesRight, InvitesRight, SeatsRight

LEMMA MerchantReads ==
  ASSUME TeamIInv, NEW h \in Handlers,
         \/ \E r \in Riders : InviteLoad(h, r)
         \/ \E i \in Invites, to \in {"sent", "cancelled"} : MerchantLoad(h, i, to)
         \/ \E s \in Seats : RemoveLoad(h, s)
         \/ \E a \in Applications, to \in {"approved", "rejected"} : FormReviewLoad(h, a, to)
  PROVE  TeamIInv'
<1>1. ASSUME NEW r \in Riders, InviteLoad(h, r) PROVE TeamIInv'
  <2>1. PICK k : k = [op |-> "invite", rider |-> r,
                      user |-> IF person[r].registered THEN r ELSE NoRider]
    OBVIOUS
  <2>2. k \in Work /\ WorkRight(k)
    BY <2>1 DEF Work, WorkRight
  <2> QED
    BY <1>1, <2>1, <2>2, HandlerReads DEF InviteLoad, Start
<1>2. ASSUME NEW i \in Invites, NEW to \in {"sent", "cancelled"}, MerchantLoad(h, i, to) PROVE TeamIInv'
  <2>1. PICK k : k = [op |-> "answer", id |-> i, base |-> invite[i].status, to |-> to]
    OBVIOUS
  <2>2. invite[i].status \in Live
    BY <1>2 DEF MerchantLoad
  <2>3. k \in Work /\ WorkRight(k)
    BY <2>1, <2>2 DEF Work, WorkRight, Live, Duplicate, InviteStatus
  <2> QED
    BY <1>2, <2>1, <2>3, HandlerReads DEF MerchantLoad, Start
<1>3. ASSUME NEW s \in Seats, RemoveLoad(h, s) PROVE TeamIInv'
  <2>1. PICK k : k = [op |-> "remove", id |-> s]
    OBVIOUS
  <2>2. k \in Work /\ WorkRight(k)
    BY <2>1 DEF Work, WorkRight
  <2> QED
    BY <1>3, <2>1, <2>2, HandlerReads DEF RemoveLoad, Start
<1>4. ASSUME NEW a \in Applications, NEW to \in {"approved", "rejected"}, FormReviewLoad(h, a, to)
      PROVE  TeamIInv'
  <2>1. PICK k : k = [op |-> "review", id |-> a, base |-> form[a].status, to |-> to]
    OBVIOUS
  <2>2. form[a].status # "none" /\ form[a].status \in FormStatus
    BY <1>4 DEF FormReviewLoad, TeamIInv, TeamTypeOK, FormRow
  <2>3. k \in Work /\ WorkRight(k)
    BY <2>1, <2>2 DEF Work, WorkRight
  <2> QED
    BY <1>4, <2>1, <2>3, HandlerReads DEF FormReviewLoad, Start
<1> QED
  BY <1>1, <1>2, <1>3, <1>4

LEMMA RiderReads ==
  ASSUME TeamIInv, NEW h \in Handlers,
         \/ \E r \in Riders : ApplyLoad(h, r) \/ EnsureLoad(h, r)
         \/ \E i \in Invites, r \in Riders : AcceptLoad(h, i, r) \/ RejectLoad(h, i, r)
         \/ EnterLoad(h)
         \/ EnterFails(h)
  PROVE  TeamIInv'
<1>1. ASSUME NEW r \in Riders, ApplyLoad(h, r) PROVE TeamIInv'
  <2>1. PICK k : k = [op |-> "apply", rider |-> r]
    OBVIOUS
  <2>2. k \in Work /\ WorkRight(k)
    BY <2>1 DEF Work, WorkRight
  <2> QED
    BY <1>1, <2>1, <2>2, HandlerReads DEF ApplyLoad, Start
<1>2. ASSUME NEW r \in Riders, EnsureLoad(h, r) PROVE TeamIInv'
  <2>1. PICK k : k = [op |-> "space", rider |-> r, make |-> TRUE, go |-> FALSE]
    OBVIOUS
  <2>2. k \in Work /\ WorkRight(k)
    BY <1>2, <2>1 DEF Work, WorkRight, EnsureLoad
  <2> QED
    BY <1>2, <2>1, <2>2, HandlerReads DEF EnsureLoad, Start
<1>3. ASSUME NEW i \in Invites, NEW r \in Riders, AcceptLoad(h, i, r) PROVE TeamIInv'
  <2>1. PICK k : k = [op |-> "accept", id |-> i, rider |-> r, join |-> SeatsOf(r) = {}]
    OBVIOUS
  <2>2. invite[i].email = r
    BY <1>3, NoRiderAssumption DEF AcceptLoad, Addressee, TeamIInv, InvitesRight
  <2>3. k \in Work /\ WorkRight(k)
    BY <1>3, <2>1, <2>2 DEF Work, WorkRight, AcceptLoad, Live
  <2> QED
    BY <1>3, <2>1, <2>3, HandlerReads DEF AcceptLoad, Start
<1>4. ASSUME NEW i \in Invites, NEW r \in Riders, RejectLoad(h, i, r) PROVE TeamIInv'
  <2>1. PICK k : k = [op |-> "answer", id |-> i, base |-> invite[i].status, to |-> "rejected"]
    OBVIOUS
  <2>2. invite[i].status # "none" /\ invite[i].status \in InviteStatus
    BY <1>4 DEF RejectLoad, TeamIInv, TeamTypeOK, InviteRow
  <2>3. k \in Work /\ WorkRight(k)
    BY <2>1, <2>2 DEF Work, WorkRight
  <2> QED
    BY <1>4, <2>1, <2>3, HandlerReads DEF RejectLoad, Start
<1>5. ASSUME EnterLoad(h) PROVE TeamIInv'
  <2>1. PICK r : r = form[work[h].id].user
    OBVIOUS
  <2>2. work[h] \in Work /\ work[h].op = "enter" /\ WorkRight(work[h])
    BY <1>5 DEF EnterLoad, Doing, TeamIInv, TeamTypeOK, WorksRight
  <2>a. work[h].id \in Applications
    BY <2>2 DEF Work
  <2>3. r \in Riders /\ person[r].role
    BY <2>1, <2>2, <2>a DEF WorkRight, TeamIInv, TeamTypeOK, FormRow
  <2>4. PICK k : k = [op |-> "space", rider |-> r, make |-> person[r].spaces = 0,
                      go |-> person[r].active = "customer"]
    OBVIOUS
  <2>5. person[r].spaces \in Nat
    BY <2>3 DEF TeamIInv, TeamTypeOK, Person
  <2>d. k.op = "space" /\ k.rider = r
    BY <2>4
  <2>b. k.make \/ person[r].spaces > 0
    <3>1. k.make = (person[r].spaces = 0)
      BY <2>4, Zenon
    <3>2. CASE person[r].spaces = 0
      BY <3>1, <3>2, Zenon
    <3>3. CASE person[r].spaces # 0
      BY <2>5, <3>3
    <3> QED
      BY <3>2, <3>3
  <2>c. k \in Work
    BY <2>3, <2>4 DEF Work
  <2>6. k \in Work /\ WorkRight(k)
    BY <2>3, <2>b, <2>c, <2>d DEF WorkRight
  <2> QED
    BY <1>5, <2>1, <2>4, <2>6, HandlerReads DEF EnterLoad
<1>6. ASSUME EnterFails(h) PROVE TeamIInv'
  <2>1. Resting \in Work /\ WorkRight(Resting)
    BY DEF Resting, Work, WorkRight
  <2> QED
    BY <1>6, <2>1, HandlerReads DEF EnterFails, Done
<1> QED
  BY <1>1, <1>2, <1>3, <1>4, <1>5, <1>6

\* What the commits of the merchant and of a rider do to invitations and seats.
LEMMA InviteCommits ==
  ASSUME TeamIInv, NEW h \in Handlers, NEW i \in Invites, InviteCommit(h, i)
  PROVE  TeamIInv'
<1>1. PICK k : k = work[h]
  OBVIOUS
<1>2. k \in Work /\ k.op = "invite" /\ WorkRight(k)
  BY <1>1 DEF InviteCommit, Doing, TeamIInv, TeamTypeOK, WorksRight
<1>3. k.rider \in Riders /\ k.user \in {NoRider, k.rider}
  BY <1>2 DEF Work, WorkRight
<1>4. PICK w : w = [status |-> "pending", email |-> k.rider, user |-> k.user]
  OBVIOUS
<1>5. w \in InviteRow
  BY <1>3, <1>4 DEF InviteRow, InviteStatus, Duplicate, Live
<1>6. /\ invite[i].status = "none" /\ invite' = [invite EXCEPT ![i] = w]
      /\ Done(h) /\ UNCHANGED <<person, seat, form>>
  BY <1>1, <1>4 DEF InviteCommit
<1>7. /\ invite' \in [Invites -> InviteRow]
      /\ \A j \in Invites : invite'[j] = IF j = i THEN w ELSE invite[j]
  BY <1>5, <1>6 DEF TeamIInv, TeamTypeOK
<1>8. Enduring
  BY <1>6, <1>7 DEF Enduring
<1>9. work' \in [Handlers -> Work] /\ WorksRight'
  BY <1>6, <1>8, RestingRight, WorkTurns DEF Done
<1>10. InvitesRight'
  BY <1>3, <1>4, <1>7 DEF TeamIInv, InvitesRight
<1>11. SeatsRight'
  <2> SUFFICES ASSUME NEW s \in Seats, seat[s] # NoRider
               PROVE  person[seat[s]].role /\ \E j \in Invites : invite'[j].user = seat[s]
    BY <1>6 DEF SeatsRight
  <2>1. PICK j \in Invites : person[seat[s]].role /\ invite[j].user = seat[s]
    BY DEF TeamIInv, SeatsRight
  <2>2. j # i
    BY <1>6, <2>1 DEF TeamIInv, InvitesRight
  <2> QED
    BY <1>7, <2>1, <2>2
<1> QED
  BY <1>6, <1>7, <1>9, <1>10, <1>11 DEF TeamIInv, TeamTypeOK, ModesRight

LEMMA AnswerCommits ==
  ASSUME TeamIInv, NEW h \in Handlers, AnswerCommit(h)
  PROVE  TeamIInv'
<1>1. PICK k, i : k = work[h] /\ i = work[h].id
  OBVIOUS
<1>2. k \in Work /\ k.op = "answer" /\ WorkRight(k)
  BY <1>1 DEF AnswerCommit, Doing, TeamIInv, TeamTypeOK, WorksRight
<1>3. i \in Invites /\ k.to \in InviteStatus \ {"none"} /\ invite[i].status # "none"
  BY <1>1, <1>2 DEF Work, WorkRight, InviteStatus, Duplicate, Live
<1>4. /\ invite' = invite \/ invite' = [invite EXCEPT ![i].status = k.to]
      /\ Done(h) /\ UNCHANGED <<person, seat, form>>
  BY <1>1 DEF AnswerCommit
<1>5. /\ invite' \in [Invites -> InviteRow]
      /\ \A j \in Invites : /\ invite'[j].user = invite[j].user /\ invite'[j].email = invite[j].email
                            /\ invite'[j].status = "none" <=> invite[j].status = "none"
  BY <1>3, <1>4 DEF TeamIInv, TeamTypeOK, InviteRow
<1>6. Enduring
  BY <1>4, <1>5 DEF Enduring
<1>7. work' \in [Handlers -> Work] /\ WorksRight'
  BY <1>4, <1>6, RestingRight, WorkTurns DEF Done
<1>8. InvitesRight' /\ SeatsRight'
  BY <1>4, <1>5 DEF TeamIInv, InvitesRight, SeatsRight
<1> QED
  BY <1>4, <1>5, <1>7, <1>8 DEF TeamIInv, TeamTypeOK, ModesRight

LEMMA RemoveCommits ==
  ASSUME TeamIInv, NEW h \in Handlers, RemoveCommit(h)
  PROVE  TeamIInv'
<1>1. PICK s : s = work[h].id
  OBVIOUS
<1>2. seat' = [seat EXCEPT ![s] = NoRider] /\ Done(h) /\ UNCHANGED <<person, invite, form>>
  BY <1>1 DEF RemoveCommit
<1>3. Enduring
  BY <1>2 DEF Enduring
<1>4. work' \in [Handlers -> Work] /\ WorksRight'
  BY <1>2, <1>3, RestingRight, WorkTurns DEF Done
<1>5. seat' \in [Seats -> Riders \cup {NoRider}] /\ \A t \in Seats : seat'[t] \in {NoRider, seat[t]}
  BY <1>2 DEF TeamIInv, TeamTypeOK
<1>6. SeatsRight'
  BY <1>2, <1>5 DEF TeamIInv, SeatsRight
<1> QED
  BY <1>2, <1>4, <1>5, <1>6 DEF TeamIInv, TeamTypeOK, ModesRight, InvitesRight

LEMMA AcceptCommits ==
  ASSUME TeamIInv, NEW h \in Handlers, AcceptCommit(h)
  PROVE  TeamIInv'
<1>1. PICK r, i : r = work[h].rider /\ i = work[h].id
  OBVIOUS
<1>2. work[h] \in Work /\ work[h].op = "accept" /\ WorkRight(work[h])
  BY DEF AcceptCommit, Doing, TeamIInv, TeamTypeOK, WorksRight
<1>3. i \in Invites /\ r \in Riders
  BY <1>1, <1>2 DEF Work
<1>4. person[r].role /\ invite[i].status # "none" /\ invite[i].email = r
  BY <1>1, <1>2 DEF WorkRight
<1>5. /\ invite' = [invite EXCEPT ![i].status = "accepted", ![i].user = r]
      /\ Done(h) /\ UNCHANGED <<person, form>>
      /\ seat' = seat \/ \E s \in Seats : seat' = [seat EXCEPT ![s] = r]
  BY <1>1 DEF AcceptCommit
<1>6. /\ invite' \in [Invites -> InviteRow]
      /\ \A j \in Invites : j # i => invite'[j] = invite[j]
      /\ invite'[i].user = r /\ invite'[i].status = "accepted" /\ invite'[i].email = r
  <2>1. PICK w : w = [status |-> "accepted", email |-> invite[i].email, user |-> r]
    OBVIOUS
  <2>2. invite[i] \in InviteRow
    BY <1>3 DEF TeamIInv, TeamTypeOK
  <2>a. PICK m : m = [invite EXCEPT ![i].status = "accepted"]
    OBVIOUS
  <2>b. invite' = [m EXCEPT ![i].user = r]
    BY <1>5, <2>a
  <2>c. /\ DOMAIN m = Invites /\ \A j \in Invites : j # i => m[j] = invite[j]
        /\ m[i] = [invite[i] EXCEPT !.status = "accepted"]
    BY <1>3, <2>a DEF TeamIInv, TeamTypeOK
  <2>d. m[i] = [status |-> "accepted", email |-> invite[i].email, user |-> invite[i].user]
    BY <2>2, <2>c DEF InviteRow
  <2>e. [m[i] EXCEPT !.user = r] = w
    BY <2>1, <2>d
  <2>3. DOMAIN invite' = Invites /\ \A j \in Invites : invite'[j] = IF j = i THEN w ELSE invite[j]
    BY <1>3, <2>b, <2>c, <2>e
  <2>4. invite' = [j \in Invites |-> invite'[j]]
    BY <2>b, <2>c, <2>3
  <2>5. w \in InviteRow
    BY <1>3, <2>1, <2>2 DEF InviteRow, InviteStatus, Duplicate
  <2> QED
    BY <1>3, <1>4, <2>1, <2>3, <2>4, <2>5 DEF TeamIInv, TeamTypeOK
<1>7. Enduring
  BY <1>4, <1>5, <1>6 DEF Enduring
<1>8. work' \in [Handlers -> Work] /\ WorksRight'
  BY <1>5, <1>7, RestingRight, WorkTurns DEF Done
<1>9. InvitesRight'
  BY <1>6 DEF TeamIInv, InvitesRight
<1>10. seat' \in [Seats -> Riders \cup {NoRider}] /\ \A s \in Seats : seat'[s] \in {r, seat[s]}
  BY <1>3, <1>5 DEF TeamIInv, TeamTypeOK
<1>11. SeatsRight'
  <2> SUFFICES ASSUME NEW s \in Seats, NEW q, q = seat'[s], q # NoRider
               PROVE  person[q].role /\ \E j \in Invites : invite'[j].user = q
    BY <1>5 DEF SeatsRight
  <2>1. CASE q = r
    BY <1>3, <1>4, <1>6, <2>1
  <2>2. CASE q # r
    <3>1. PICK j \in Invites : person[q].role /\ invite[j].user = q
      BY <1>10, <2>2 DEF TeamIInv, SeatsRight
    <3>2. j # i
      BY <1>4, <2>2, <3>1 DEF TeamIInv, InvitesRight
    <3> QED
      BY <1>6, <3>1, <3>2
  <2> QED
    BY <2>1, <2>2
<1> QED
  BY <1>5, <1>6, <1>8, <1>9, <1>10, <1>11 DEF TeamIInv, TeamTypeOK, ModesRight

\* What the commits about applications do.
LEMMA FormCommits ==
  ASSUME TeamIInv, NEW h \in Handlers, Done(h), NEW a \in Applications, NEW w \in FormRow,
         w.status # "none", form[a].status # "none" => w.user = form[a].user,
         form' = [form EXCEPT ![a] = w],
         UNCHANGED <<person, invite, seat>>
  PROVE  TeamIInv'
<1>1. /\ form' \in [Applications -> FormRow]
      /\ \A b \in Applications : form'[b] = IF b = a THEN w ELSE form[b]
  BY DEF TeamIInv, TeamTypeOK
<1>2. Enduring
  BY <1>1 DEF Enduring
<1>3. work' \in [Handlers -> Work] /\ WorksRight'
  BY <1>2, RestingRight, WorkTurns DEF Done
<1> QED
  BY <1>1, <1>3 DEF TeamIInv, TeamTypeOK, ModesRight, InvitesRight, SeatsRight

LEMMA ApplyCommits ==
  ASSUME TeamIInv, NEW h \in Handlers, NEW a \in Applications, ApplyCommit(h, a)
  PROVE  TeamIInv'
<1>1. PICK w : w = [status |-> "submitted", user |-> work[h].rider]
  OBVIOUS
<1>2. work[h] \in Work /\ work[h].op = "apply"
  BY DEF ApplyCommit, Doing, TeamIInv, TeamTypeOK
<1>3. w \in FormRow /\ w.status # "none"
  BY <1>1, <1>2 DEF Work, FormRow, FormStatus
<1> QED
  BY <1>1, <1>3, FormCommits DEF ApplyCommit

LEMMA RejectFormCommits ==
  ASSUME TeamIInv, NEW h \in Handlers, RejectFormCommit(h)
  PROVE  TeamIInv'
<1>1. PICK a : a = work[h].id
  OBVIOUS
<1>2. work[h] \in Work /\ work[h].op = "review"
  BY DEF RejectFormCommit, Doing, TeamIInv, TeamTypeOK
<1>3. a \in Applications
  BY <1>1, <1>2 DEF Work
<1>4. PICK w : w = [form[a] EXCEPT !.status = "rejected"]
  OBVIOUS
<1>5. w \in FormRow /\ w.status # "none" /\ w.user = form[a].user
  BY <1>3, <1>4 DEF TeamIInv, TeamTypeOK, FormRow, FormStatus
<1>6. form' = [form EXCEPT ![a] = w]
  BY <1>1, <1>4 DEF RejectFormCommit
<1> QED
  BY <1>3, <1>5, <1>6, FormCommits DEF RejectFormCommit

LEMMA ApproveCommits ==
  ASSUME TeamIInv, NEW h \in Handlers, ApproveCommit(h)
  PROVE  TeamIInv'
<1>1. PICK a, r : a = work[h].id /\ r = form[a].user
  OBVIOUS
<1>2. work[h] \in Work /\ work[h].op = "review" /\ WorkRight(work[h])
  BY DEF ApproveCommit, Doing, TeamIInv, TeamTypeOK, WorksRight
<1>3. a \in Applications /\ form[a].status # "none"
  BY <1>1, <1>2 DEF Work, WorkRight
<1>4. r \in Riders
  BY <1>1, <1>3 DEF TeamIInv, TeamTypeOK, FormRow
<1>5. PICK k : k = [op |-> "enter", id |-> a]
  OBVIOUS
<1>6. /\ form' = [form EXCEPT ![a].status = "approved"]
      /\ person' = [person EXCEPT ![r].role = TRUE]
      /\ work' = [work EXCEPT ![h] = k] /\ UNCHANGED <<invite, seat>>
  BY <1>1, <1>5 DEF ApproveCommit
<1>7. /\ form' \in [Applications -> FormRow]
      /\ \A b \in Applications : /\ form'[b].user = form[b].user
                                 /\ form'[b].status = IF b = a THEN "approved" ELSE form[b].status
  BY <1>3, <1>6 DEF TeamIInv, TeamTypeOK, FormRow, FormStatus
<1>8. /\ person' \in [Riders -> Person]
      /\ \A q \in Riders : /\ person'[q].spaces = person[q].spaces
                           /\ person'[q].active = person[q].active
                           /\ person[q].role => person'[q].role
      /\ person'[r].role
  BY <1>4, <1>6 DEF TeamIInv, TeamTypeOK, Person
<1>9. Enduring
  BY <1>6, <1>7, <1>8 DEF Enduring
<1>10. k \in Work /\ WorkRight(k)'
  BY <1>1, <1>3, <1>5, <1>7, <1>8 DEF Work, WorkRight
<1>11. work' \in [Handlers -> Work] /\ WorksRight'
  BY <1>6, <1>9, <1>10, WorkTurns
<1>12. ModesRight'
  BY <1>8 DEF TeamIInv, ModesRight
<1>13. SeatsRight'
  BY <1>6, <1>8 DEF TeamIInv, TeamTypeOK, SeatsRight
<1> QED
  BY <1>6, <1>7, <1>8, <1>11, <1>12, <1>13 DEF TeamIInv, TeamTypeOK, InvitesRight

LEMMA SpaceCommits ==
  ASSUME TeamIInv, NEW h \in Handlers, SpaceCommit(h)
  PROVE  TeamIInv'
<1>1. PICK r : r = work[h].rider
  OBVIOUS
<1>2. work[h] \in Work /\ work[h].op = "space" /\ WorkRight(work[h])
  BY DEF SpaceCommit, Doing, TeamIInv, TeamTypeOK, WorksRight
<1>3. r \in Riders
  BY <1>1, <1>2 DEF Work
<1>4. person[r].role /\ (work[h].make \/ person[r].spaces > 0) /\ person[r] \in Person
  BY <1>1, <1>2, <1>3 DEF WorkRight, TeamIInv, TeamTypeOK
<1>5. PICK n, to : /\ n = IF work[h].make THEN person[r].spaces + 1 ELSE person[r].spaces
                   /\ to = IF work[h].go THEN "rider" ELSE person[r].active
  OBVIOUS
<1>6. n \in Nat /\ n > 0 /\ to \in {"customer", "rider"}
  BY <1>4, <1>5 DEF Person
<1>7. PICK p : p = [registered |-> person[r].registered, role |-> person[r].role, spaces |-> n, active |-> to]
  OBVIOUS
<1>8. Done(h) /\ UNCHANGED <<invite, seat, form>>
  BY DEF SpaceCommit
<1>9. \A q \in Riders : person'[q] = IF q = r THEN p ELSE person[q]
  <2>1. PICK m : m = [person EXCEPT ![r].spaces = n]
    OBVIOUS
  <2>2. person' = [m EXCEPT ![r].active = IF work[h].go THEN "rider" ELSE m[r].active]
    BY <1>1, <1>5, <2>1 DEF SpaceCommit
  <2>3. /\ DOMAIN m = Riders /\ \A q \in Riders : q # r => m[q] = person[q]
        /\ m[r] = [person[r] EXCEPT !.spaces = n]
    BY <1>3, <2>1 DEF TeamIInv, TeamTypeOK
  <2>4. m[r] = [registered |-> person[r].registered, role |-> person[r].role, spaces |-> n,
                active |-> person[r].active]
    BY <1>4, <2>3 DEF Person
  <2>5. [m[r] EXCEPT !.active = IF work[h].go THEN "rider" ELSE m[r].active] = p
    BY <1>5, <1>7, <2>4
  <2> QED
    BY <1>3, <2>2, <2>3, <2>5
<1>10. p \in Person
  BY <1>4, <1>6, <1>7 DEF Person
<1>11. person' \in [Riders -> Person]
  <2>1. DOMAIN person' = Riders /\ person' = [q \in Riders |-> person'[q]]
    BY DEF SpaceCommit, TeamIInv, TeamTypeOK
  <2> QED
    BY <1>9, <1>10, <2>1 DEF TeamIInv, TeamTypeOK
<1>12. Enduring
  BY <1>6, <1>7, <1>8, <1>9 DEF Enduring
<1>13. work' \in [Handlers -> Work] /\ WorksRight'
  BY <1>8, <1>12, RestingRight, WorkTurns DEF Done
<1>14. ModesRight'
  BY <1>4, <1>6, <1>7, <1>9 DEF TeamIInv, ModesRight
<1>15. SeatsRight'
  BY <1>3, <1>7, <1>8, <1>9 DEF TeamIInv, TeamTypeOK, SeatsRight
<1> QED
  BY <1>8, <1>11, <1>13, <1>14, <1>15 DEF TeamIInv, TeamTypeOK, InvitesRight

LEMMA RiderActs ==
  ASSUME TeamIInv, NEW r \in Riders, Register(r) \/ \E to \in {"customer", "rider"} : SwitchMode(r, to)
  PROVE  TeamIInv'
<1>1. UNCHANGED <<invite, seat, form, work>>
  BY DEF Register, SwitchMode
<1>2. /\ person' \in [Riders -> Person]
      /\ \A q \in Riders : /\ person'[q].role = person[q].role /\ person'[q].spaces = person[q].spaces
                           /\ person'[q].active = "rider" =>
                                person[q].active = "rider" \/ person[q].spaces > 0
  <2>1. person \in [Riders -> Person]
    BY DEF TeamIInv, TeamTypeOK
  <2>2. CASE Register(r)
    BY <2>1, <2>2 DEF Register, Person
  <2>3. CASE \E to \in {"customer", "rider"} : SwitchMode(r, to)
    BY <2>1, <2>3 DEF SwitchMode, Person
  <2> QED
    BY <2>2, <2>3
<1>3. Enduring
  BY <1>1, <1>2 DEF Enduring
<1>4. WorksRight'
  BY <1>1, <1>3, WorkEndures DEF TeamIInv, TeamTypeOK, WorksRight, WorkRight
<1>5. ModesRight' /\ SeatsRight'
  BY <1>1, <1>2 DEF TeamIInv, TeamTypeOK, ModesRight, SeatsRight
<1> QED
  BY <1>1, <1>2, <1>4, <1>5 DEF TeamIInv, TeamTypeOK, InvitesRight

LEMMA TeamStep == TeamIInv /\ [TeamNext]_teamVars => TeamIInv'
<1> SUFFICES ASSUME TeamIInv, [TeamNext]_teamVars PROVE TeamIInv'
  OBVIOUS
<1>1. CASE UNCHANGED teamVars
  BY <1>1 DEF teamVars, TeamIInv, TeamTypeOK, ModesRight, InvitesRight, SeatsRight, WorksRight, WorkRight
<1>2. CASE TeamNext
  BY <1>2, RiderActs, MerchantReads, RiderReads, InviteCommits, AnswerCommits, RemoveCommits,
     AcceptCommits, ApplyCommits, ApproveCommits, RejectFormCommits, SpaceCommits, Zenon DEF TeamNext
<1> QED
  BY <1>1, <1>2

\* Whoever is in rider mode has a rider workspace and the role, and whoever is on a
\* team accepted an invitation with that role, however reviews, invitations and
\* answers overlap and wherever an approval fails (approve_application,
\* accept_invitation, switch_workspace).
THEOREM RidersAreRealAlways == TeamSpec => []RidersAreReal
BY TeamInitial, TeamStep, TeamInvariantSuffices, PTL DEF TeamSpec

-----------------------------------------------------------------------------
(* How much there is and how much is on its way, together *)

\* One more exists, and the request that was to make it is done.
LEMMA OneMadeOneDone ==
  ASSUME NEW A, NEW x, NEW S, NEW h \in S, NEW bound \in Nat,
         IsFiniteSet(A), IsFiniteSet(S), Cardinality(A) + Cardinality(S) <= bound
  PROVE  Cardinality(A \cup {x}) + Cardinality(S \ {h}) <= bound
<1>1. /\ IsFiniteSet(A \cup {x})
      /\ Cardinality(A \cup {x}) \in {Cardinality(A), Cardinality(A) + 1}
  BY FS_AddElement
<1>2. IsFiniteSet(S \ {h}) /\ Cardinality(S \ {h}) = Cardinality(S) - 1
  BY FS_RemoveElement
<1>3. Cardinality(A) \in Nat /\ Cardinality(S) \in Nat
  BY FS_CardinalityType
<1> QED
  BY <1>1, <1>2, <1>3

LEMMA NothingAdded ==
  ASSUME NEW A, NEW B, NEW S, NEW T, NEW bound \in Nat,
         IsFiniteSet(A), IsFiniteSet(S), B \subseteq A, T \subseteq S,
         Cardinality(A) + Cardinality(S) <= bound
  PROVE  Cardinality(B) + Cardinality(T) <= bound
<1>1. Cardinality(B) <= Cardinality(A) /\ Cardinality(B) \in Nat /\ Cardinality(A) \in Nat
  BY FS_Subset, FS_CardinalityType
<1>2. Cardinality(T) <= Cardinality(S) /\ Cardinality(T) \in Nat /\ Cardinality(S) \in Nat
  BY FS_Subset, FS_CardinalityType
<1> QED
  BY <1>1, <1>2

LEMMA NothingMade ==
  ASSUME NEW All, IsFiniteSet(All), NEW B, NEW T, B = {}, T \subseteq All
  PROVE  Cardinality(B) + Cardinality(T) <= Cardinality(All)
<1>1. Cardinality(T) <= Cardinality(All) /\ Cardinality(T) \in Nat
  BY FS_Subset, FS_CardinalityType
<1>2. Cardinality(B) = 0
  BY FS_EmptySet
<1> QED
  BY <1>1, <1>2

-----------------------------------------------------------------------------
(* Seats on a team *)

\* The acceptances that found no seat of r and will make one.
Joining(r) == {h \in Handlers : work[h].op = "accept" /\ work[h].rider = r /\ work[h].join}

\* A handler is about to make a seat only if it found none, so seats and those
\* that are on their way are together no more than the handlers.
SeatsPromised ==
  \A r \in Riders : Cardinality(SeatsOf(r)) + Cardinality(Joining(r)) <= Cardinality(Handlers)

LEMMA TeamFinite ==
  ASSUME NEW r \in Riders
  PROVE  /\ IsFiniteSet(SeatsOf(r)) /\ IsFiniteSet(Joining(r))
         /\ Cardinality(Handlers) \in Nat
<1>1. IsFiniteSet(Seats)
  BY TeamBoundsAssumption, FS_Interval DEF Seats
<1>2. SeatsOf(r) \subseteq Seats /\ Joining(r) \subseteq Handlers
  BY DEF SeatsOf, Joining
<1> QED
  BY <1>1, <1>2, HandlersAssumption, FS_Subset, FS_CardinalityType

\* A step that gives r no seat and starts no acceptance of r.
LEMMA SeatsKeep ==
  ASSUME NEW r \in Riders, SeatsPromised, SeatsOf(r)' \subseteq SeatsOf(r), Joining(r)' \subseteq Joining(r)
  PROVE  (Cardinality(SeatsOf(r)) + Cardinality(Joining(r)) <= Cardinality(Handlers))'
<1>1. Cardinality(SeatsOf(r)) + Cardinality(Joining(r)) <= Cardinality(Handlers)
  BY DEF SeatsPromised
<1>2. Cardinality(SeatsOf(r)') + Cardinality(Joining(r)') <= Cardinality(Handlers)
  BY <1>1, TeamFinite, NothingAdded
<1> QED
  BY <1>2

LEMMA JoiningMoves ==
  ASSUME TeamTypeOK, NEW h \in Handlers, NEW w, work' = [work EXCEPT ![h] = w], w.op # "accept",
         NEW r \in Riders
  PROVE  Joining(r)' = Joining(r) \ {h}
<1>1. work \in [Handlers -> Work]
  BY DEF TeamTypeOK
<1>2. ASSUME NEW g \in Handlers PROVE (work')[g] = IF g = h THEN w ELSE work[g]
  BY <1>1
<1> QED
  BY <1>2 DEF Joining

LEMMA SeatsStep ==
  ASSUME TeamTypeOK, SeatsPromised, [TeamNext]_teamVars
  PROVE  SeatsPromised'
<1>1. work \in [Handlers -> Work] /\ seat \in [Seats -> Riders \cup {NoRider}]
  BY DEF TeamTypeOK
<1>2. Resting.op # "accept"
  BY DEF Resting
<1>3. ASSUME UNCHANGED <<seat, work>>  PROVE SeatsPromised'
  BY <1>3 DEF SeatsPromised, SeatsOf, Joining
<1>4. ASSUME NEW h \in Handlers, NEW w, work' = [work EXCEPT ![h] = w], w.op # "accept",
             \A s \in Seats : (seat')[s] \in {seat[s], NoRider}
      PROVE  SeatsPromised'
  <2> SUFFICES ASSUME NEW r \in Riders
               PROVE  (Cardinality(SeatsOf(r)) + Cardinality(Joining(r)) <= Cardinality(Handlers))'
    BY DEF SeatsPromised
  <2>1. Joining(r)' \subseteq Joining(r)
    BY <1>4, JoiningMoves
  <2>2. SeatsOf(r)' \subseteq SeatsOf(r)
    BY <1>4, NoRiderAssumption DEF SeatsOf
  <2> QED BY <2>1, <2>2, SeatsKeep
<1>5. ASSUME NEW h \in Handlers,
             \/ \E r \in Riders : InviteLoad(h, r) \/ ApplyLoad(h, r) \/ EnsureLoad(h, r)
             \/ \E i \in Invites :
                  \/ \E to \in {"sent", "cancelled"} : MerchantLoad(h, i, to)
                  \/ \E r \in Riders : RejectLoad(h, i, r)
             \/ \E s \in Seats : RemoveLoad(h, s)
             \/ \E a \in Applications, to \in {"approved", "rejected"} : FormReviewLoad(h, a, to)
             \/ ApproveCommit(h) \/ EnterLoad(h)
      PROVE  SeatsPromised'
  <2> DEFINE Moves(w) == work' = [work EXCEPT ![h] = w] /\ w.op # "accept" /\ seat' = seat
  <2>1. ASSUME NEW r \in Riders, InviteLoad(h, r)  PROVE \E w : Moves(w)
    <3>1. Moves([op |-> "invite", rider |-> r, user |-> IF person[r].registered THEN r ELSE NoRider])
      BY <2>1 DEF InviteLoad, Start
    <3> QED BY <3>1
  <2>2. ASSUME NEW r \in Riders, ApplyLoad(h, r)  PROVE \E w : Moves(w)
    <3>1. Moves([op |-> "apply", rider |-> r])
      BY <2>2 DEF ApplyLoad, Start
    <3> QED BY <3>1
  <2>3. ASSUME NEW r \in Riders, EnsureLoad(h, r)  PROVE \E w : Moves(w)
    <3>1. Moves([op |-> "space", rider |-> r, make |-> TRUE, go |-> FALSE])
      BY <2>3 DEF EnsureLoad, Start
    <3> QED BY <3>1
  <2>4. ASSUME NEW i \in Invites, NEW to, MerchantLoad(h, i, to)  PROVE \E w : Moves(w)
    <3>1. Moves([op |-> "answer", id |-> i, base |-> invite[i].status, to |-> to])
      BY <2>4 DEF MerchantLoad, Start
    <3> QED BY <3>1
  <2>5. ASSUME NEW i \in Invites, NEW r \in Riders, RejectLoad(h, i, r)  PROVE \E w : Moves(w)
    <3>1. Moves([op |-> "answer", id |-> i, base |-> invite[i].status, to |-> "rejected"])
      BY <2>5 DEF RejectLoad, Start
    <3> QED BY <3>1
  <2>6. ASSUME NEW s \in Seats, RemoveLoad(h, s)  PROVE \E w : Moves(w)
    <3>1. Moves([op |-> "remove", id |-> s])
      BY <2>6 DEF RemoveLoad, Start
    <3> QED BY <3>1
  <2>7. ASSUME NEW a \in Applications, NEW to, FormReviewLoad(h, a, to)  PROVE \E w : Moves(w)
    <3>1. Moves([op |-> "review", id |-> a, base |-> form[a].status, to |-> to])
      BY <2>7 DEF FormReviewLoad, Start
    <3> QED BY <3>1
  <2>8. ASSUME ApproveCommit(h)  PROVE \E w : Moves(w)
    <3>1. Moves([op |-> "enter", id |-> work[h].id])
      BY <2>8 DEF ApproveCommit
    <3> QED BY <3>1
  <2>9. ASSUME EnterLoad(h)  PROVE \E w : Moves(w)
    <3> DEFINE r == form[work[h].id].user
               make == person[r].spaces = 0
               go == person[r].active = "customer"
               w == [op |-> "space", rider |-> r, make |-> make, go |-> go]
    <3>1. work' = [work EXCEPT ![h] = w] /\ seat' = seat
      BY <2>9 DEF EnterLoad
    <3> HIDE DEF make, go, r
    <3>2. w.op # "accept"
      OBVIOUS
    <3> QED BY <3>1, <3>2
  <2>10. PICK w : Moves(w)
    <3> HIDE DEF Moves
    <3> QED BY <1>5, <2>1, <2>2, <2>3, <2>4, <2>5, <2>6, <2>7, <2>8, <2>9
  <2>11. \A s \in Seats : (seat')[s] \in {seat[s], NoRider}
    BY <2>10
  <2> QED BY <1>4, <2>10, <2>11
<1>6. ASSUME NEW h \in Handlers,
             \/ \E i \in Invites : InviteCommit(h, i)
             \/ \E a \in Applications : ApplyCommit(h, a)
             \/ AnswerCommit(h) \/ EnterFails(h) \/ RejectFormCommit(h) \/ SpaceCommit(h)
      PROVE  SeatsPromised'
  <2>1. seat' = seat /\ work' = [work EXCEPT ![h] = Resting]
    BY <1>6 DEF InviteCommit, ApplyCommit, AnswerCommit, EnterFails, RejectFormCommit, SpaceCommit, Done
  <2> QED BY <1>2, <1>4, <2>1
<1>7. ASSUME NEW h \in Handlers, RemoveCommit(h)  PROVE SeatsPromised'
  <2>1. work' = [work EXCEPT ![h] = Resting] /\ seat' = [seat EXCEPT ![work[h].id] = NoRider]
    BY <1>7 DEF RemoveCommit, Done
  <2>2. \A s \in Seats : (seat')[s] \in {seat[s], NoRider}
    BY <1>1, <2>1
  <2> QED BY <1>2, <1>4, <2>1, <2>2
<1>8. ASSUME NEW h \in Handlers, NEW i \in Invites, NEW r \in Riders, AcceptLoad(h, i, r)
      PROVE  SeatsPromised'
  <2>1. PICK w : /\ work' = [work EXCEPT ![h] = w] /\ seat' = seat
                 /\ w.rider = r /\ (w.join => SeatsOf(r) = {})
    <3> DEFINE join == SeatsOf(r) = {}
               w == [op |-> "accept", id |-> i, rider |-> r, join |-> join]
    <3>1. work' = [work EXCEPT ![h] = w] /\ seat' = seat
      BY <1>8 DEF AcceptLoad, Start
    <3>2. w.rider = r /\ (w.join => join)
      BY Zenon
    <3> QED BY <3>1, <3>2
  <2> SUFFICES ASSUME NEW p \in Riders
               PROVE  (Cardinality(SeatsOf(p)) + Cardinality(Joining(p)) <= Cardinality(Handlers))'
    BY DEF SeatsPromised
  <2>2. \A g \in Handlers : (work')[g] = IF g = h THEN w ELSE work[g]
    BY <1>1, <2>1
  <2>3. SeatsOf(p)' = SeatsOf(p)
    BY <2>1 DEF SeatsOf
  <2>4. CASE p = r /\ w.join
    <3>1. SeatsOf(p)' = {} /\ Joining(p)' \subseteq Handlers
      BY <2>1, <2>3, <2>4 DEF Joining
    <3>2. Cardinality(SeatsOf(p)') + Cardinality(Joining(p)') <= Cardinality(Handlers)
      BY <3>1, HandlersAssumption, NothingMade
    <3> QED BY <3>2
  <2>5. CASE ~(p = r /\ w.join)
    <3>1. Joining(p)' \subseteq Joining(p)
      BY <2>1, <2>2, <2>5 DEF Joining
    <3> QED BY <2>3, <3>1, SeatsKeep
  <2> QED BY <2>4, <2>5
<1>9. ASSUME NEW h \in Handlers, AcceptCommit(h)  PROVE SeatsPromised'
  <2>1. work[h].op = "accept" /\ work' = [work EXCEPT ![h] = Resting]
    BY <1>9 DEF AcceptCommit, Doing, Done
  <2>2. CASE ~work[h].join
    <3>1. seat' = seat
      BY <1>9, <2>2 DEF AcceptCommit
    <3> QED BY <1>2, <1>4, <2>1, <3>1
  <2>3. CASE work[h].join
    <3>1. PICK s \in Seats : seat[s] = NoRider /\ seat' = [seat EXCEPT ![s] = work[h].rider]
      BY <1>9, <2>3 DEF AcceptCommit, FreeSeat, Taken
    <3> SUFFICES ASSUME NEW p \in Riders
                 PROVE  (Cardinality(SeatsOf(p)) + Cardinality(Joining(p)) <= Cardinality(Handlers))'
      BY DEF SeatsPromised
    <3>2. Joining(p)' = Joining(p) \ {h}
      BY <1>2, <2>1, JoiningMoves
    <3>3. CASE p = work[h].rider
      <4>1. SeatsOf(p)' = SeatsOf(p) \cup {s}
        BY <1>1, <3>1, <3>3 DEF SeatsOf
      <4>2. h \in Joining(p)
        BY <2>1, <2>3, <3>3 DEF Joining
      <4>3. Cardinality(SeatsOf(p)) + Cardinality(Joining(p)) <= Cardinality(Handlers)
        BY DEF SeatsPromised
      <4>4. Cardinality(SeatsOf(p) \cup {s}) + Cardinality(Joining(p) \ {h}) <= Cardinality(Handlers)
        BY <4>2, <4>3, TeamFinite, OneMadeOneDone
      <4>5. Cardinality(SeatsOf(p)') + Cardinality(Joining(p)') <= Cardinality(Handlers)
        BY <3>2, <4>1, <4>4
      <4> QED BY <4>5
    <3>4. CASE p # work[h].rider
      <4>1. SeatsOf(p)' \subseteq SeatsOf(p)
        BY <1>1, <3>1, <3>4 DEF SeatsOf
      <4>2. Joining(p)' \subseteq Joining(p)
        BY <3>2
      <4> QED BY <4>1, <4>2, SeatsKeep
    <3> QED BY <3>3, <3>4
  <2> QED BY <2>2, <2>3
<1>10. CASE \E r \in Riders : Register(r) \/ \E to \in {"customer", "rider"} : SwitchMode(r, to)
  BY <1>3, <1>10 DEF Register, SwitchMode
<1>11. CASE UNCHANGED teamVars
  BY <1>3, <1>11 DEF teamVars
<1> QED
  BY <1>5, <1>6, <1>7, <1>8, <1>9, <1>10, <1>11 DEF TeamNext

\* For any number of riders, invitations and handlers, no rider is on the team
\* more often than there are handlers (accept_invitation, remove_rider).
THEOREM OneSeatPerOverlapAlways == TeamSpec => []OneSeatPerOverlap
<1>1. TeamInit => SeatsPromised
  <2> SUFFICES ASSUME TeamInit, NEW r \in Riders
               PROVE  Cardinality(SeatsOf(r)) + Cardinality(Joining(r)) <= Cardinality(Handlers)
    BY DEF SeatsPromised
  <2>1. SeatsOf(r) = {} /\ Joining(r) \subseteq Handlers
    BY NoRiderAssumption DEF TeamInit, SeatsOf, Joining
  <2> QED BY <2>1, HandlersAssumption, NothingMade
<1>2. TeamIInv => TeamTypeOK
  BY DEF TeamIInv
<1>3. SeatsPromised => OneSeatPerOverlap
  <2> SUFFICES ASSUME SeatsPromised, NEW r \in Riders
               PROVE  Cardinality(SeatsOf(r)) <= Cardinality(Handlers)
    BY DEF OneSeatPerOverlap
  <2>1. /\ Cardinality(SeatsOf(r)) + Cardinality(Joining(r)) <= Cardinality(Handlers)
        /\ IsFiniteSet(SeatsOf(r)) /\ IsFiniteSet(Joining(r)) /\ Cardinality(Handlers) \in Nat
    BY TeamFinite DEF SeatsPromised
  <2>2. Cardinality(SeatsOf(r)) \in Nat /\ Cardinality(Joining(r)) \in Nat
    BY <2>1, FS_CardinalityType
  <2> QED BY <2>1, <2>2
<1>4. TeamTypeOK /\ SeatsPromised /\ [TeamNext]_teamVars => SeatsPromised'
  BY SeatsStep
<1> QED
  BY <1>1, <1>2, <1>3, <1>4, TeamInitial, TeamStep, PTL DEF TeamSpec

-----------------------------------------------------------------------------
(* Sessions *)

\* Before the account is there, nobody has signed in to it.
Unmade ==
  ~acct.made => /\ ~acct.active /\ acct.password = 0
                /\ \A t \in Tokens : sess[t].state = "none"

\* What a call has found is still there.
Founded(w) ==
  /\ w.op \in {"login", "confirm", "change", "status"} => acct.made
  /\ w.op = "google" /\ w.base => acct.made
  /\ w.op \in {"refresh", "logout"} => sess[w.token].state # "none"

CallsFounded == \A c \in Calls : Founded(call[c])

\* Only a session that is over has successors.
ChainKept ==
  \A t \in Tokens :
    /\ sess[t].state = "none" => sess[t].from = NoToken
    /\ sess[t].state \in {"none", "live"} => \A s \in Tokens : sess[s].from # t

Successors(t) == {s \in Tokens : sess[s].from = t}
Redeemers(t) == {c \in Calls : call[c].op = "refresh" /\ call[c].token = t}

\* A refresh is let in only while its token has no successor, so successors and
\* those that are on their way are together no more than the calls.
RedeemsPromised ==
  \A t \in Tokens : Cardinality(Successors(t)) + Cardinality(Redeemers(t)) <= Cardinality(Calls)

SessionIInv ==
  AuthTypeOK /\ Unmade /\ CallsFounded /\ ChainKept /\ RedeemsPromised /\ ChangeThrowsOut

LEMMA SessionTypes ==
  ASSUME SessionIInv
  PROVE  /\ acct \in Acct /\ sess \in [Tokens -> SessRow]
         /\ reset \in [ResetCodes -> {"none", "fresh", "over"}] /\ call \in [Calls -> Call]
         /\ NoToken \notin Tokens
BY DEF SessionIInv, AuthTypeOK, NoToken, Tokens

LEMMA NoCallIsCall == NoCall \in Call /\ NoCall.op = "none"
BY DEF NoCall, Call

LEMMA ChainFinite ==
  ASSUME NEW t \in Tokens
  PROVE  /\ IsFiniteSet(Successors(t)) /\ IsFiniteSet(Redeemers(t))
         /\ Cardinality(Calls) \in Nat
<1>1. IsFiniteSet(Tokens)
  BY AuthBoundsAssumption, FS_Interval DEF Tokens
<1>2. Successors(t) \subseteq Tokens /\ Redeemers(t) \subseteq Calls
  BY DEF Successors, Redeemers
<1> QED
  BY <1>1, <1>2, CallsAssumption, FS_Subset, FS_CardinalityType

\* A step that gives t no successor and starts no refresh of t.
LEMMA RedeemsKeep ==
  ASSUME NEW t \in Tokens, RedeemsPromised,
         Successors(t)' \subseteq Successors(t), Redeemers(t)' \subseteq Redeemers(t)
  PROVE  (Cardinality(Successors(t)) + Cardinality(Redeemers(t)) <= Cardinality(Calls))'
<1>1. Cardinality(Successors(t)) + Cardinality(Redeemers(t)) <= Cardinality(Calls)
  BY DEF RedeemsPromised
<1>2. Cardinality(Successors(t)') + Cardinality(Redeemers(t)') <= Cardinality(Calls)
  BY <1>1, ChainFinite, NothingAdded
<1> QED
  BY <1>2

\* A call that goes on to what is not a refresh.
LEMMA CallMoves ==
  ASSUME SessionIInv, NEW c \in Calls, NEW w \in Call, call' = [call EXCEPT ![c] = w],
         w.op # "refresh", Founded(w)',
         acct.made => acct'.made,
         \A t \in Tokens : sess[t].state # "none" => (sess')[t].state # "none"
  PROVE  /\ call' \in [Calls -> Call] /\ CallsFounded'
         /\ \A t \in Tokens : Redeemers(t)' = Redeemers(t) \ {c}
<1>1. call \in [Calls -> Call]
  BY SessionTypes
<1>2. ASSUME NEW d \in Calls PROVE (call')[d] = IF d = c THEN w ELSE call[d]
  BY <1>1
<1>3. call' \in [Calls -> Call]
  BY <1>1
<1>4. ASSUME NEW d \in Calls PROVE Founded(call[d])'
  <2>1. CASE d = c
    BY <1>2, <2>1 DEF Founded
  <2>2. CASE d # c
    <3> DEFINE v == call[d]
    <3>1. v \in Call /\ Founded(v)
      BY <1>1 DEF SessionIInv, CallsFounded
    <3>2. (call')[d] = v
      BY <1>2, <2>2
    <3>3. v.op \in {"refresh", "logout"} => v.token \in Tokens
      BY <3>1 DEF Call
    <3> HIDE DEF v
    <3>4. v.op \in {"login", "confirm", "change", "status"} => acct'.made
      BY <3>1 DEF Founded
    <3>5. v.op = "google" /\ v.base => acct'.made
      BY <3>1 DEF Founded
    <3>6. v.op \in {"refresh", "logout"} => (sess')[v.token].state # "none"
      BY <3>1, <3>3 DEF Founded
    <3> QED BY <3>2, <3>4, <3>5, <3>6 DEF Founded
  <2> QED BY <2>1, <2>2
<1>5. CallsFounded'
  BY <1>4 DEF CallsFounded
<1> QED
  BY <1>2, <1>3, <1>5 DEF Redeemers

\* A call opens, or ends, without a write to the account or its sessions.
LEMMA OpeningKeeps ==
  ASSUME SessionIInv, NEW c \in Calls, NEW w \in Call, call' = [call EXCEPT ![c] = w],
         w.op # "refresh", Founded(w), UNCHANGED <<acct, sess>>,
         reset' \in [ResetCodes -> {"none", "fresh", "over"}]
  PROVE  SessionIInv'
<1>1. /\ call' \in [Calls -> Call] /\ CallsFounded'
      /\ \A t \in Tokens : Redeemers(t)' = Redeemers(t) \ {c}
  <2>1. Founded(w)'
    BY DEF Founded
  <2> QED BY <2>1, CallMoves
<1>2. AuthTypeOK' /\ Unmade' /\ ChainKept' /\ ChangeThrowsOut'
  BY <1>1 DEF SessionIInv, AuthTypeOK, Unmade, ChainKept, ChangeThrowsOut
<1>3. ASSUME NEW t \in Tokens
      PROVE  (Cardinality(Successors(t)) + Cardinality(Redeemers(t)) <= Cardinality(Calls))'
  <2>1. Successors(t)' \subseteq Successors(t) /\ Redeemers(t)' \subseteq Redeemers(t)
    BY <1>1 DEF Successors
  <2> QED BY <2>1, RedeemsKeep DEF SessionIInv
<1>4. RedeemsPromised'
  BY <1>3 DEF RedeemsPromised
<1> QED
  BY <1>1, <1>2, <1>4 DEF SessionIInv

LEMMA OpensKeep ==
  ASSUME SessionIInv, NEW c \in Calls,
         \/ LoginLoad(c) \/ GoogleLoad(c) \/ AskLoad(c) \/ ChangeLoad(c) \/ CallFails(c)
         \/ \E t \in Tokens : LogoutLoad(c, t)
         \/ \E k \in ResetCodes : AskCommit(c, k) \/ ConfirmLoad(c, k)
         \/ \E to \in BOOLEAN : StatusLoad(c, to)
  PROVE  SessionIInv'
<1> DEFINE Moves(w) ==
      call' = [call EXCEPT ![c] = w] /\ w.op # "refresh" /\ Founded(w) /\ UNCHANGED <<acct, sess, reset>>
<1>1. acct \in Acct /\ (~acct.made => ~acct.active /\ acct.password = 0)
  BY DEF SessionIInv, AuthTypeOK, Unmade
<1>2. acct.made \in BOOLEAN /\ acct.active \in BOOLEAN /\ acct.password \in Passwords
  BY <1>1 DEF Acct
<1>3. ASSUME LoginLoad(c)  PROVE \E w \in Call : Moves(w)
  <2> DEFINE w == [op |-> "login", under |-> acct.password]
  <2>1. w \in Call
    BY <1>2 DEF Call
  <2>2. acct.made /\ call' = [call EXCEPT ![c] = w] /\ UNCHANGED <<acct, sess, reset>>
    BY <1>3 DEF LoginLoad, Begin
  <2>3. Founded(w)
    BY <2>2 DEF Founded
  <2> QED BY <2>1, <2>2, <2>3
<1>4. ASSUME GoogleLoad(c)  PROVE \E w \in Call : Moves(w)
  <2> DEFINE f == acct.made
             b == acct.active
             p == acct.password
             w == [op |-> "google", found |-> f, base |-> b, under |-> p]
  <2>1. b => f
    BY <1>1
  <2>2. call' = [call EXCEPT ![c] = w] /\ UNCHANGED <<acct, sess, reset>>
    BY <1>4 DEF GoogleLoad, Begin
  <2>3. f = acct.made /\ f \in BOOLEAN /\ b \in BOOLEAN /\ p \in Passwords
    BY <1>2
  <2> HIDE DEF f, b, p
  <2>4. w \in Call
    BY <2>3 DEF Call
  <2>5. w.op = "google" /\ w.base = b
    OBVIOUS
  <2> HIDE DEF w
  <2>6. Founded(w)
    BY <2>1, <2>3, <2>5 DEF Founded
  <2> QED BY <2>2, <2>4, <2>5, <2>6
<1>5. ASSUME AskLoad(c)  PROVE \E w \in Call : Moves(w)
  <2> DEFINE w == [op |-> "ask", old |-> {k \in ResetCodes : reset[k] = "fresh"}]
  <2>1. w \in Call
    BY DEF Call
  <2>2. Moves(w)
    BY <1>5 DEF AskLoad, Begin, Founded
  <2> QED BY <2>1, <2>2
<1>6. ASSUME ChangeLoad(c)  PROVE \E w \in Call : Moves(w)
  <2> DEFINE w == [op |-> "change"]
  <2>1. w \in Call
    BY DEF Call
  <2>2. acct.made
    BY <1>1, <1>6 DEF ChangeLoad
  <2>3. Moves(w)
    BY <1>6, <2>2 DEF ChangeLoad, Begin, Founded
  <2> QED BY <2>1, <2>3
<1>7. ASSUME CallFails(c)  PROVE \E w \in Call : Moves(w)
  <2>1. Moves(NoCall)
    BY <1>7, NoCallIsCall DEF CallFails, End, Founded
  <2> QED BY <2>1, NoCallIsCall
<1>8. ASSUME NEW t \in Tokens, LogoutLoad(c, t)  PROVE \E w \in Call : Moves(w)
  <2> DEFINE w == [op |-> "logout", token |-> t]
  <2>1. w \in Call
    BY DEF Call
  <2>2. Moves(w)
    BY <1>8 DEF LogoutLoad, Begin, Founded
  <2> QED BY <2>1, <2>2
<1>9. ASSUME NEW k \in ResetCodes, ConfirmLoad(c, k)  PROVE \E w \in Call : Moves(w)
  <2> DEFINE w == [op |-> "confirm", code |-> k]
  <2>1. w \in Call
    BY DEF Call
  <2>2. acct.made
    BY <1>1, <1>9 DEF ConfirmLoad
  <2>3. Moves(w)
    BY <1>9, <2>2 DEF ConfirmLoad, Begin, Founded
  <2> QED BY <2>1, <2>3
<1>10. ASSUME NEW to \in BOOLEAN, StatusLoad(c, to)  PROVE \E w \in Call : Moves(w)
  <2> DEFINE b == acct.active
             w == [op |-> "status", base |-> b, to |-> to]
  <2>1. acct.made /\ call' = [call EXCEPT ![c] = w] /\ UNCHANGED <<acct, sess, reset>>
    BY <1>10 DEF StatusLoad, Begin
  <2>2. b \in BOOLEAN
    BY <1>2
  <2> HIDE DEF b
  <2>3. w \in Call
    BY <2>2 DEF Call
  <2>4. w.op = "status"
    OBVIOUS
  <2> HIDE DEF w
  <2>5. Founded(w)
    BY <2>1, <2>4 DEF Founded
  <2> QED BY <2>1, <2>3, <2>4, <2>5
<1>11. ASSUME NEW k \in ResetCodes, AskCommit(c, k)  PROVE SessionIInv'
  <2>1. call' = [call EXCEPT ![c] = NoCall] /\ UNCHANGED <<acct, sess>>
    BY <1>11 DEF AskCommit, End
  <2>2. reset' \in [ResetCodes -> {"none", "fresh", "over"}]
    BY <1>11, SessionTypes DEF AskCommit
  <2>3. Founded(NoCall)
    BY NoCallIsCall DEF Founded
  <2> QED BY <2>1, <2>2, <2>3, NoCallIsCall, OpeningKeeps
<1>12. ASSUME \E w \in Call : Moves(w)  PROVE SessionIInv'
  <2>1. PICK w \in Call : Moves(w)
    BY <1>12
  <2>2. reset' \in [ResetCodes -> {"none", "fresh", "over"}]
    BY <2>1, SessionTypes
  <2> QED BY <2>1, <2>2, OpeningKeeps
<1> HIDE DEF Moves
<1> QED
  BY <1>3, <1>4, <1>5, <1>6, <1>7, <1>8, <1>9, <1>10, <1>11, <1>12

LEMMA RefreshLoadKeeps ==
  ASSUME SessionIInv, NEW c \in Calls, NEW t \in Tokens, RefreshLoad(c, t)
  PROVE  SessionIInv'
<1> DEFINE w == [op |-> "refresh", token |-> t]
<1>1. sess[t].state = "live" /\ call' = [call EXCEPT ![c] = w] /\ UNCHANGED <<acct, sess, reset>>
  BY DEF RefreshLoad, Begin
<1>2. w \in Call
  BY DEF Call
<1>3. call' \in [Calls -> Call] /\ \A d \in Calls : (call')[d] = IF d = c THEN w ELSE call[d]
  BY <1>1, <1>2, SessionTypes
<1>4. CallsFounded'
  BY <1>1, <1>3 DEF SessionIInv, CallsFounded, Founded
<1>5. AuthTypeOK' /\ Unmade' /\ ChainKept' /\ ChangeThrowsOut'
  BY <1>1, <1>3 DEF SessionIInv, AuthTypeOK, Unmade, ChainKept, ChangeThrowsOut
<1>6. ASSUME NEW u \in Tokens
      PROVE  (Cardinality(Successors(u)) + Cardinality(Redeemers(u)) <= Cardinality(Calls))'
  <2>1. CASE u = t
    <3>1. Successors(u)' = {} /\ Redeemers(u)' \subseteq Calls
      BY <1>1, <2>1 DEF SessionIInv, ChainKept, Successors, Redeemers
    <3>2. Cardinality(Successors(u)') + Cardinality(Redeemers(u)') <= Cardinality(Calls)
      BY <3>1, CallsAssumption, NothingMade
    <3> QED BY <3>2
  <2>2. CASE u # t
    <3>1. Successors(u)' \subseteq Successors(u) /\ Redeemers(u)' \subseteq Redeemers(u)
      BY <1>1, <1>3, <2>2 DEF Successors, Redeemers
    <3> QED BY <3>1, RedeemsKeep DEF SessionIInv
  <2> QED BY <2>1, <2>2
<1>7. RedeemsPromised'
  BY <1>6 DEF RedeemsPromised
<1> QED
  BY <1>4, <1>5, <1>7 DEF SessionIInv

\* Sessions end, and none begins, in a step that may end a call and change the
\* password too if no session is left.
LEMMA EndingKeeps ==
  ASSUME SessionIInv,
         call' = call \/ \E c \in Calls : call' = [call EXCEPT ![c] = NoCall],
         sess' \in [Tokens -> SessRow], acct' \in Acct,
         reset' \in [ResetCodes -> {"none", "fresh", "over"}],
         acct'.made = acct.made, ~acct.made => UNCHANGED acct,
         \A t \in Tokens :
           /\ sess[t].state = "none" => (sess')[t] = sess[t]
           /\ sess[t].state # "none" => (sess')[t].state # "none" /\ (sess')[t].from = sess[t].from
           /\ (sess')[t].state = "live" => (sess')[t] = sess[t] /\ acct'.password = acct.password
  PROVE  SessionIInv'
<1>1. /\ call' \in [Calls -> Call] /\ CallsFounded'
      /\ \A t \in Tokens : Redeemers(t)' \subseteq Redeemers(t)
  <2>1. CASE call' = call
    <3>1. CallsFounded'
      <4> SUFFICES ASSUME NEW d \in Calls PROVE Founded(call[d])'
        BY DEF CallsFounded
      <4> DEFINE v == call[d]
      <4>1. v \in Call /\ Founded(v) /\ (call')[d] = v
        BY <2>1, SessionTypes DEF SessionIInv, CallsFounded
      <4>2. v.op \in {"refresh", "logout"} => v.token \in Tokens
        BY <4>1 DEF Call
      <4> HIDE DEF v
      <4>3. v.op \in {"login", "confirm", "change", "status"} => acct'.made
        BY <4>1 DEF Founded
      <4>4. v.op = "google" /\ v.base => acct'.made
        BY <4>1 DEF Founded
      <4>5. v.op \in {"refresh", "logout"} => (sess')[v.token].state # "none"
        BY <4>1, <4>2 DEF Founded
      <4> QED BY <4>1, <4>3, <4>4, <4>5 DEF Founded
    <3> QED BY <2>1, <3>1, SessionTypes DEF Redeemers
  <2>2. ASSUME NEW c \in Calls, call' = [call EXCEPT ![c] = NoCall]
        PROVE  /\ call' \in [Calls -> Call] /\ CallsFounded'
               /\ \A t \in Tokens : Redeemers(t)' = Redeemers(t) \ {c}
    <3>1. Founded(NoCall)'
      BY NoCallIsCall DEF Founded
    <3> QED BY <2>2, <3>1, NoCallIsCall, CallMoves
  <2> QED BY <2>1, <2>2
<1>2. /\ acct \in Acct /\ sess \in [Tokens -> SessRow]
      /\ \A t \in Tokens : (sess')[t].from = sess[t].from
  BY SessionTypes
<1>3. AuthTypeOK'
  BY <1>1 DEF AuthTypeOK
<1>4. Unmade'
  BY DEF SessionIInv, Unmade
<1>5. ChainKept'
  BY <1>2 DEF SessionIInv, ChainKept, SessRow
<1>6. ChangeThrowsOut'
  BY DEF SessionIInv, ChangeThrowsOut
<1>7. ASSUME NEW t \in Tokens
      PROVE  (Cardinality(Successors(t)) + Cardinality(Redeemers(t)) <= Cardinality(Calls))'
  <2>1. Successors(t)' \subseteq Successors(t) /\ Redeemers(t)' \subseteq Redeemers(t)
    BY <1>1, <1>2 DEF Successors
  <2> QED BY <2>1, RedeemsKeep DEF SessionIInv
<1>8. RedeemsPromised'
  BY <1>7 DEF RedeemsPromised
<1> QED
  BY <1>1, <1>3, <1>4, <1>5, <1>6, <1>8 DEF SessionIInv

LEMMA SessionOver ==
  ASSUME NEW row \in SessRow
  PROVE  /\ [row EXCEPT !.state = "over"] \in SessRow
         /\ [row EXCEPT !.state = "over"].state = "over"
         /\ [row EXCEPT !.state = "over"].from = row.from
         /\ [row EXCEPT !.state = "over"].under = row.under
         /\ [row EXCEPT !.state = "over"].late = row.late
BY DEF SessRow

LEMMA EndsKeep ==
  ASSUME SessionIInv,
         \/ \E t \in Tokens : TokenExpires(t)
         \/ \E k \in ResetCodes : ResetExpires(k)
         \/ \E c \in Calls : LogoutCommit(c) \/ PasswordCommit(c) \/ StatusCommit(c)
  PROVE  SessionIInv'
<1>1. /\ acct \in Acct /\ sess \in [Tokens -> SessRow] /\ call \in [Calls -> Call]
      /\ reset \in [ResetCodes -> {"none", "fresh", "over"}]
  BY SessionTypes
<1>2. ASSUME NEW t \in Tokens, sess[t].state # "none", sess' = [sess EXCEPT ![t].state = "over"],
             call' = call \/ \E c \in Calls : call' = [call EXCEPT ![c] = NoCall],
             UNCHANGED <<acct, reset>>
      PROVE  SessionIInv'
  <2>1. sess' = [sess EXCEPT ![t] = [sess[t] EXCEPT !.state = "over"]]
    BY <1>2
  <2>2. /\ sess' \in [Tokens -> SessRow] /\ (sess')[t].state = "over" /\ (sess')[t].from = sess[t].from
        /\ \A u \in Tokens \ {t} : (sess')[u] = sess[u]
    BY <1>1, <2>1, SessionOver
  <2> QED BY <1>1, <1>2, <2>2, EndingKeeps
<1>3. ASSUME NEW t \in Tokens, TokenExpires(t)  PROVE SessionIInv'
  BY <1>2, <1>3 DEF TokenExpires
<1>4. ASSUME NEW c \in Calls, LogoutCommit(c)  PROVE SessionIInv'
  <2> DEFINE w == call[c]
  <2>1. w \in Call /\ w.op = "logout" /\ Founded(w)
    BY <1>1, <1>4 DEF LogoutCommit, Runs, SessionIInv, CallsFounded
  <2>2. w.token \in Tokens
    BY <2>1 DEF Call
  <2>3. sess[w.token].state # "none"
    BY <2>1 DEF Founded
  <2>4. /\ sess' = [sess EXCEPT ![w.token].state = "over"]
        /\ call' = [call EXCEPT ![c] = NoCall] /\ UNCHANGED <<acct, reset>>
    BY <1>4 DEF LogoutCommit, End
  <2> HIDE DEF w
  <2> QED BY <1>2, <2>2, <2>3, <2>4
<1>5. ASSUME NEW k \in ResetCodes, ResetExpires(k)  PROVE SessionIInv'
  <2>1. reset' \in [ResetCodes -> {"none", "fresh", "over"}] /\ UNCHANGED <<acct, sess, call>>
    BY <1>1, <1>5 DEF ResetExpires
  <2> QED BY <1>1, <2>1, EndingKeeps
<1>6. ASSUME NEW c \in Calls, StatusCommit(c)  PROVE SessionIInv'
  <2> DEFINE w == call[c]
             now == IF w.to = w.base THEN acct.active ELSE w.to
  <2>1. w \in Call /\ w.op = "status" /\ Founded(w)
    BY <1>1, <1>6 DEF StatusCommit, Runs, SessionIInv, CallsFounded
  <2>2. w.to \in BOOLEAN /\ acct.active \in BOOLEAN
    BY <1>1, <2>1 DEF Call, Acct
  <2>3. /\ acct' = [acct EXCEPT !.active = now]
        /\ call' = [call EXCEPT ![c] = NoCall] /\ UNCHANGED <<sess, reset>>
    BY <1>6 DEF StatusCommit, End
  <2>4. now \in BOOLEAN
    BY <2>2
  <2>5. acct.made
    BY <2>1 DEF Founded
  <2> HIDE DEF now, w
  <2>6. acct' \in Acct /\ acct'.made = acct.made /\ acct'.password = acct.password
    BY <1>1, <2>3, <2>4 DEF Acct
  <2> QED BY <1>1, <2>3, <2>5, <2>6, EndingKeeps
<1>7. ASSUME NEW c \in Calls, PasswordCommit(c)  PROVE SessionIInv'
  <2> DEFINE w == call[c]
  <2>1. w \in Call /\ w.op \in {"confirm", "change"} /\ Founded(w)
    BY <1>1, <1>7 DEF PasswordCommit, SessionIInv, CallsFounded
  <2>2. acct.made
    BY <2>1 DEF Founded
  <2>3. acct' = [acct EXCEPT !.password = @ + 1] /\ acct.password < MaxPasswords
    BY <1>7 DEF PasswordCommit
  <2>4. acct' \in Acct /\ acct'.made = acct.made
    BY <1>1, <2>3, AuthBoundsAssumption DEF Acct, Passwords
  <2>5. reset' \in [ResetCodes -> {"none", "fresh", "over"}]
    BY <1>1, <1>7 DEF PasswordCommit
  <2>6. sess' = RevokedAll /\ call' = [call EXCEPT ![c] = NoCall]
    BY <1>7 DEF PasswordCommit, End
  <2>7. ASSUME NEW t \in Tokens
        PROVE  /\ (sess')[t] \in SessRow
               /\ sess[t].state = "none" => (sess')[t] = sess[t]
               /\ sess[t].state # "none" => (sess')[t].state # "none" /\ (sess')[t].from = sess[t].from
               /\ (sess')[t].state # "live"
    <3>1. (sess')[t] = IF sess[t].state = "live" THEN [sess[t] EXCEPT !.state = "over"] ELSE sess[t]
      BY <2>6 DEF RevokedAll
    <3> QED BY <1>1, <3>1, SessionOver
  <2>8. sess' \in [Tokens -> SessRow]
    BY <2>6, <2>7 DEF RevokedAll
  <2> QED BY <2>2, <2>4, <2>5, <2>6, <2>7, <2>8, EndingKeeps
<1> QED
  BY <1>3, <1>4, <1>5, <1>6, <1>7

\* A sign-in: a session more that descends from no other.
LEMMA SigningKeeps ==
  ASSUME SessionIInv, NEW t \in Tokens, sess[t].state = "none", NEW row \in SessRow,
         sess' = [sess EXCEPT ![t] = row], row.state = "live", row.from = NoToken,
         ~row.late => row.under = acct'.password,
         call' = call \/ \E c \in Calls : call' = [call EXCEPT ![c] = NoCall],
         acct' \in Acct, acct'.made, acct.made => acct'.password = acct.password,
         UNCHANGED reset
  PROVE  SessionIInv'
<1>1. /\ sess \in [Tokens -> SessRow] /\ call \in [Calls -> Call] /\ NoToken \notin Tokens
      /\ reset \in [ResetCodes -> {"none", "fresh", "over"}]
  BY SessionTypes
<1>2. /\ sess' \in [Tokens -> SessRow]
      /\ \A u \in Tokens : (sess')[u] = IF u = t THEN row ELSE sess[u]
  BY <1>1
<1>3. /\ call' \in [Calls -> Call] /\ CallsFounded'
      /\ \A u \in Tokens : Redeemers(u)' \subseteq Redeemers(u)
  <2>1. \A u \in Tokens : sess[u].state # "none" => (sess')[u].state # "none"
    BY <1>2
  <2>2. CASE call' = call
    <3>1. CallsFounded'
      <4> SUFFICES ASSUME NEW d \in Calls PROVE Founded(call[d])'
        BY DEF CallsFounded
      <4> DEFINE v == call[d]
      <4>1. v \in Call /\ Founded(v) /\ (call')[d] = v
        BY <2>2, SessionTypes DEF SessionIInv, CallsFounded
      <4>2. v.op \in {"refresh", "logout"} => v.token \in Tokens
        BY <4>1 DEF Call
      <4> HIDE DEF v
      <4>3. v.op \in {"refresh", "logout"} => (sess')[v.token].state # "none"
        BY <2>1, <4>1, <4>2 DEF Founded
      <4> QED BY <4>1, <4>3 DEF Founded
    <3> QED BY <1>1, <2>2, <3>1 DEF Redeemers
  <2>3. ASSUME NEW c \in Calls, call' = [call EXCEPT ![c] = NoCall]
        PROVE  /\ call' \in [Calls -> Call] /\ CallsFounded'
               /\ \A u \in Tokens : Redeemers(u)' = Redeemers(u) \ {c}
    <3>1. Founded(NoCall)'
      BY NoCallIsCall DEF Founded
    <3> QED BY <2>1, <2>3, <3>1, NoCallIsCall, CallMoves
  <2> QED BY <2>2, <2>3
<1>4. AuthTypeOK' /\ Unmade'
  BY <1>1, <1>2, <1>3 DEF AuthTypeOK, Unmade
<1>5. ChainKept'
  BY <1>1, <1>2 DEF SessionIInv, ChainKept
<1>6. ASSUME NEW u \in Tokens, (sess')[u].state = "live", ~(sess')[u].late
      PROVE  (sess')[u].under = acct'.password
  <2>1. CASE u = t
    BY <1>2, <1>6, <2>1
  <2>2. CASE u # t
    <3>1. acct.made
      BY <1>2, <1>6, <2>2 DEF SessionIInv, Unmade
    <3> QED BY <1>2, <1>6, <2>2, <3>1 DEF SessionIInv, ChangeThrowsOut
  <2> QED BY <2>1, <2>2
<1>7. ASSUME NEW u \in Tokens
      PROVE  (Cardinality(Successors(u)) + Cardinality(Redeemers(u)) <= Cardinality(Calls))'
  <2>1. Successors(u)' \subseteq Successors(u)
    BY <1>1, <1>2 DEF Successors
  <2> QED BY <1>3, <2>1, RedeemsKeep DEF SessionIInv
<1>8. RedeemsPromised' /\ ChangeThrowsOut'
  BY <1>6, <1>7 DEF RedeemsPromised, ChangeThrowsOut
<1> QED
  BY <1>3, <1>4, <1>5, <1>8 DEF SessionIInv

LEMMA SignsKeep ==
  ASSUME SessionIInv, NEW t \in Tokens,
         RegisterAccount(t) \/ \E c \in Calls : SignInCommit(c, t)
  PROVE  SessionIInv'
<1>1. acct \in Acct /\ call \in [Calls -> Call] /\ 1 \in Passwords /\ acct.password \in Passwords
  BY SessionTypes, AuthBoundsAssumption DEF Acct, Passwords
<1>2. CASE RegisterAccount(t)
  <2>1. /\ ~acct.made /\ sess[t].state = "none" /\ sess' = Issue(t, NoToken, 1, 1, FALSE)
        /\ acct' = [acct EXCEPT !.made = TRUE, !.active = TRUE, !.password = 1]
        /\ UNCHANGED <<reset, call>>
    BY <1>2 DEF RegisterAccount, NewToken
  <2>2. acct' \in Acct /\ acct'.made /\ acct'.password = 1
    BY <1>1, <2>1 DEF Acct
  <2>3. PICK row \in SessRow :
          /\ Issue(t, NoToken, 1, 1, FALSE) = [sess EXCEPT ![t] = row]
          /\ row.state = "live" /\ row.from = NoToken /\ (~row.late => row.under = 1)
    <3> DEFINE b == FALSE \/ 1 # 1
               row == [state |-> "live", from |-> NoToken, under |-> 1, late |-> b]
    <3>1. b \in BOOLEAN /\ (~b => 1 = 1)
      OBVIOUS
    <3>2. Issue(t, NoToken, 1, 1, FALSE) = [sess EXCEPT ![t] = row]
      BY DEF Issue
    <3> HIDE DEF b
    <3>3. row \in SessRow
      BY <1>1, <3>1 DEF SessRow
    <3>4. row.state = "live" /\ row.from = NoToken /\ row.under = 1 /\ row.late = b
      OBVIOUS
    <3> HIDE DEF row
    <3> QED BY <3>1, <3>2, <3>3, <3>4
  <2>4. /\ sess' = [sess EXCEPT ![t] = row] /\ (~row.late => row.under = acct'.password)
        /\ (call' = call \/ \E c \in Calls : call' = [call EXCEPT ![c] = NoCall])
        /\ (acct.made => acct'.password = acct.password)
    BY <2>1, <2>2, <2>3
  <2> QED BY <2>1, <2>2, <2>3, <2>4, SigningKeeps
<1>3. ASSUME NEW c \in Calls, SignInCommit(c, t)  PROVE SessionIInv'
  <2> DEFINE w == call[c]
             proof == w.under
             today == acct.password
  <2>1. w \in Call /\ w.op \in {"login", "google"} /\ Founded(w)
    BY <1>1, <1>3 DEF SignInCommit, SessionIInv, CallsFounded
  <2>2. proof \in Passwords
    BY <2>1 DEF Call
  <2>3. /\ sess[t].state = "none" /\ sess' = Issue(t, NoToken, proof, today, FALSE)
        /\ call' = [call EXCEPT ![c] = NoCall] /\ UNCHANGED reset
    BY <1>3 DEF SignInCommit, NewToken, End
  <2>4. acct' \in Acct /\ acct'.made /\ acct'.password = today
    <3>1. CASE w.op = "google" /\ ~w.base
      <4>1. acct' = [acct EXCEPT !.made = TRUE, !.active = TRUE]
        BY <1>3, <3>1 DEF SignInCommit, Runs
      <4> QED BY <1>1, <4>1 DEF Acct
    <3>2. CASE ~(w.op = "google" /\ ~w.base)
      <4>1. acct' = acct
        BY <1>3, <3>2 DEF SignInCommit, Runs
      <4>2. acct.made
        BY <2>1, <3>2 DEF Founded
      <4> QED BY <1>1, <4>1, <4>2
    <3> QED BY <3>1, <3>2
  <2> HIDE DEF w, proof
  <2>5. PICK row \in SessRow :
          /\ Issue(t, NoToken, proof, today, FALSE) = [sess EXCEPT ![t] = row]
          /\ row.state = "live" /\ row.from = NoToken /\ (~row.late => row.under = today)
    <3> DEFINE b == FALSE \/ proof # today
               row == [state |-> "live", from |-> NoToken, under |-> proof, late |-> b]
    <3>1. b \in BOOLEAN /\ (~b => proof = today)
      OBVIOUS
    <3>2. Issue(t, NoToken, proof, today, FALSE) = [sess EXCEPT ![t] = row]
      BY DEF Issue
    <3> HIDE DEF b
    <3>3. row \in SessRow
      BY <2>2, <3>1 DEF SessRow
    <3>4. row.state = "live" /\ row.from = NoToken /\ row.under = proof /\ row.late = b
      OBVIOUS
    <3> HIDE DEF row
    <3> QED BY <3>1, <3>2, <3>3, <3>4
  <2>6. /\ sess' = [sess EXCEPT ![t] = row] /\ (~row.late => row.under = acct'.password)
        /\ (call' = call \/ \E d \in Calls : call' = [call EXCEPT ![d] = NoCall])
        /\ (acct.made => acct'.password = acct.password)
    BY <2>3, <2>4, <2>5
  <2> QED BY <2>3, <2>4, <2>5, <2>6, SigningKeeps
<1> QED
  BY <1>2, <1>3

\* The successor of a session takes the place that was promised to its refresh.
LEMMA RefreshCommitKeeps ==
  ASSUME SessionIInv, NEW c \in Calls, NEW t \in Tokens, RefreshCommit(c, t)
  PROVE  SessionIInv'
<1> DEFINE w == call[c]
           old == w.token
           proof == sess[old].under
           late == sess[old].late
           today == acct.password
<1>1. /\ acct \in Acct /\ sess \in [Tokens -> SessRow] /\ call \in [Calls -> Call]
      /\ NoToken \notin Tokens /\ reset \in [ResetCodes -> {"none", "fresh", "over"}]
  BY SessionTypes
<1>2. w \in Call /\ w.op = "refresh" /\ Founded(w)
  BY <1>1 DEF RefreshCommit, Runs, SessionIInv, CallsFounded
<1>3. old \in Tokens
  BY <1>2 DEF Call
<1>4. sess[old].state # "none" /\ sess[old] \in SessRow
  BY <1>1, <1>2, <1>3 DEF Founded
<1>5. proof \in Passwords /\ late \in BOOLEAN
  BY <1>4 DEF SessRow
<1>6. /\ sess[t].state = "none" /\ call' = [call EXCEPT ![c] = NoCall] /\ UNCHANGED <<acct, reset>>
      /\ sess' = [Issue(t, old, proof, today, late) EXCEPT ![old].state = "over"]
  BY DEF RefreshCommit, NewToken, End
<1>7. c \in Redeemers(old)
  BY <1>2 DEF Redeemers
<1> HIDE DEF w, old, proof, late, today
<1>8. PICK row \in SessRow :
        /\ Issue(t, old, proof, today, late) = [sess EXCEPT ![t] = row]
        /\ row.state = "live" /\ row.from = old /\ (~row.late => row.under = today)
  <2> DEFINE b == late \/ proof # today
             row == [state |-> "live", from |-> old, under |-> proof, late |-> b]
  <2>1. b \in BOOLEAN /\ (~b => proof = today)
    OBVIOUS
  <2>2. Issue(t, old, proof, today, late) = [sess EXCEPT ![t] = row]
    BY DEF Issue
  <2> HIDE DEF b
  <2>3. row \in SessRow
    BY <1>3, <1>5, <2>1 DEF SessRow
  <2>4. row.state = "live" /\ row.from = old /\ row.under = proof /\ row.late = b
    OBVIOUS
  <2> HIDE DEF row
  <2> QED BY <2>1, <2>2, <2>3, <2>4
<1>9. old # t
  BY <1>4, <1>6
<1>10. sess' = [sess EXCEPT ![t] = row, ![old] = [sess[old] EXCEPT !.state = "over"]]
  BY <1>1, <1>3, <1>6, <1>8, <1>9
<1>11. /\ sess' \in [Tokens -> SessRow] /\ (sess')[t] = row
       /\ (sess')[old].state = "over" /\ (sess')[old].from = sess[old].from
       /\ \A u \in Tokens \ {t, old} : (sess')[u] = sess[u]
  BY <1>1, <1>3, <1>4, <1>9, <1>10, SessionOver
<1>12. /\ call' \in [Calls -> Call] /\ CallsFounded'
       /\ \A u \in Tokens : Redeemers(u)' = Redeemers(u) \ {c}
  <2>1. Founded(NoCall)'
    BY NoCallIsCall DEF Founded
  <2>2. \A u \in Tokens : sess[u].state # "none" => (sess')[u].state # "none"
    BY <1>3, <1>4, <1>6, <1>11
  <2> QED BY <1>6, <2>1, <2>2, NoCallIsCall, CallMoves
<1>13. AuthTypeOK' /\ Unmade'
  BY <1>1, <1>3, <1>4, <1>6, <1>11, <1>12 DEF SessionIInv, AuthTypeOK, Unmade
<1>14. ChainKept'
  <2>1. sess[t].from = NoToken /\ \A s \in Tokens : sess[s].from # t
    BY <1>6 DEF SessionIInv, ChainKept
  <2>2. \A s \in Tokens : (sess')[s].from = IF s = t THEN old ELSE sess[s].from
    BY <1>3, <1>8, <1>11
  <2> QED BY <1>3, <1>8, <1>9, <1>11, <2>1, <2>2 DEF SessionIInv, ChainKept
<1>15. ChangeThrowsOut'
  <2>1. ASSUME NEW u \in Tokens, (sess')[u].state = "live", ~(sess')[u].late
        PROVE  (sess')[u].under = acct'.password
    <3>1. CASE u = t
      BY <1>6, <1>8, <1>11, <2>1, <3>1 DEF today
    <3>2. CASE u # t
      BY <1>6, <1>11, <2>1, <3>2 DEF SessionIInv, ChangeThrowsOut
    <3> QED BY <3>1, <3>2
  <2> QED BY <2>1 DEF ChangeThrowsOut
<1>16. ASSUME NEW u \in Tokens
       PROVE  (Cardinality(Successors(u)) + Cardinality(Redeemers(u)) <= Cardinality(Calls))'
  <2>1. Cardinality(Successors(u)) + Cardinality(Redeemers(u)) <= Cardinality(Calls)
    BY DEF SessionIInv, RedeemsPromised
  <2>2. CASE u = old
    <3>1. Successors(u)' = Successors(u) \cup {t} /\ Redeemers(u)' = Redeemers(u) \ {c}
      BY <1>1, <1>3, <1>6, <1>8, <1>9, <1>11, <1>12, <2>2 DEF SessionIInv, ChainKept, Successors
    <3>2. Cardinality(Successors(u) \cup {t}) + Cardinality(Redeemers(u) \ {c}) <= Cardinality(Calls)
      BY <1>7, <2>1, <2>2, ChainFinite, OneMadeOneDone
    <3>3. Cardinality(Successors(u)') + Cardinality(Redeemers(u)') <= Cardinality(Calls)
      BY <3>1, <3>2
    <3> QED BY <3>3
  <2>3. CASE u # old
    <3>1. Successors(u)' \subseteq Successors(u) /\ Redeemers(u)' \subseteq Redeemers(u)
      BY <1>3, <1>8, <1>11, <1>12, <2>3 DEF Successors
    <3> QED BY <3>1, RedeemsKeep DEF SessionIInv
  <2> QED BY <2>2, <2>3
<1>17. RedeemsPromised'
  BY <1>16 DEF RedeemsPromised
<1> QED
  BY <1>12, <1>13, <1>14, <1>15, <1>17 DEF SessionIInv

LEMMA SessionInitial == AuthInit => SessionIInv
<1> SUFFICES ASSUME AuthInit PROVE SessionIInv
  OBVIOUS
<1>1. AuthTypeOK /\ Unmade /\ ChainKept /\ ChangeThrowsOut
  BY AuthBoundsAssumption
     DEF AuthInit, AuthTypeOK, Acct, Passwords, SessRow, Call, NoCall, NoToken, Tokens,
         Unmade, ChainKept, ChangeThrowsOut
<1>2. CallsFounded
  BY NoCallIsCall DEF AuthInit, CallsFounded, Founded
<1>3. ASSUME NEW t \in Tokens
      PROVE  Cardinality(Successors(t)) + Cardinality(Redeemers(t)) <= Cardinality(Calls)
  <2>1. Successors(t) = {} /\ Redeemers(t) \subseteq Calls
    BY DEF AuthInit, Successors, Redeemers, NoToken, Tokens
  <2> QED BY <2>1, CallsAssumption, NothingMade
<1> QED
  BY <1>1, <1>2, <1>3 DEF SessionIInv, RedeemsPromised

LEMMA SessionStep == SessionIInv /\ [AuthNext]_authVars => SessionIInv'
<1> SUFFICES ASSUME SessionIInv, [AuthNext]_authVars PROVE SessionIInv'
  OBVIOUS
<1>1. CASE \E t \in Tokens : RegisterAccount(t) \/ \E c \in Calls : SignInCommit(c, t)
  BY <1>1, SignsKeep
<1>2. CASE \/ \E t \in Tokens : TokenExpires(t)
           \/ \E k \in ResetCodes : ResetExpires(k)
           \/ \E c \in Calls : LogoutCommit(c) \/ PasswordCommit(c) \/ StatusCommit(c)
  BY <1>2, EndsKeep
<1>3. CASE \E c \in Calls, t \in Tokens : RefreshLoad(c, t)
  BY <1>3, RefreshLoadKeeps
<1>4. CASE \E c \in Calls, t \in Tokens : RefreshCommit(c, t)
  BY <1>4, RefreshCommitKeeps
<1>5. CASE \E c \in Calls :
             \/ LoginLoad(c) \/ GoogleLoad(c) \/ AskLoad(c) \/ ChangeLoad(c) \/ CallFails(c)
             \/ \E t \in Tokens : LogoutLoad(c, t)
             \/ \E k \in ResetCodes : AskCommit(c, k) \/ ConfirmLoad(c, k)
             \/ \E to \in BOOLEAN : StatusLoad(c, to)
  BY <1>5, OpensKeep
<1>6. CASE UNCHANGED authVars
  BY <1>6 DEF authVars, SessionIInv, AuthTypeOK, Unmade, CallsFounded, Founded, ChainKept,
              RedeemsPromised, Successors, Redeemers, ChangeThrowsOut
<1> QED
  BY <1>1, <1>2, <1>3, <1>4, <1>5, <1>6 DEF AuthNext

\* For any number of tokens, reset codes, passwords and overlapping calls: a
\* session lives under the password of today or overlapped its change, and no
\* refresh token is redeemed by more calls than overlap (confirm_password_reset,
\* change_password, refresh).
THEOREM SessionsRightfulAlways == AuthSpec => []SessionsRightful
<1>1. SessionIInv => SessionsRightful
  <2> SUFFICES ASSUME SessionIInv, NEW t \in Tokens
               PROVE  Cardinality(Successors(t)) <= Cardinality(Calls)
    BY DEF SessionIInv, SessionsRightful, RedeemedPerOverlap, Successors
  <2>1. /\ Cardinality(Successors(t)) + Cardinality(Redeemers(t)) <= Cardinality(Calls)
        /\ IsFiniteSet(Successors(t)) /\ IsFiniteSet(Redeemers(t)) /\ Cardinality(Calls) \in Nat
    BY ChainFinite DEF SessionIInv, RedeemsPromised
  <2>2. Cardinality(Successors(t)) \in Nat /\ Cardinality(Redeemers(t)) \in Nat
    BY <2>1, FS_CardinalityType
  <2> QED BY <2>1, <2>2
<1> QED
  BY <1>1, SessionInitial, SessionStep, PTL DEF AuthSpec
=============================================================================
