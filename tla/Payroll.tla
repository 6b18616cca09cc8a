------------------------------- MODULE Payroll -------------------------------
(***************************************************************************)
(* Salaries of platform riders and their payroll rows of one period:       *)
(* app/modules/rider_payroll/service.py, and the platform status that      *)
(* app/modules/admin/api.py grants and revokes.                            *)
(*                                                                         *)
(* A request reads with several statements and commits at most once; what  *)
(* it flushed and did not commit is rolled back when its session closes.   *)
(***************************************************************************)
EXTENDS Integers, FiniteSets

CONSTANTS
  Staff,        \* users with the rider role
  MaxSalary,    \* bound on a salary, in units
  Clerks        \* requests of administrators that are served at one time

ASSUME PayrollAssumption == MaxSalary \in Nat /\ IsFiniteSet(Staff)

Unpaid == 0     \* no salary row, and no payroll row
Salaries == 1..MaxSalary

VARIABLES
  platform,   \* the riders whose rider_work_mode is "platform"
  salary,     \* the rows of "rider_salaries"
  payroll,    \* the amounts of the rows of the period in "rider_payroll_payments"
  paid,       \* those of them whose status is "paid"
  clerk,      \* per request: what it does and what it has read
  shown,      \* history: the riders with a row in the answer that was given last
  crossed     \* history: riders who were revoked while a salary was being set

payVars == <<platform, salary, payroll, paid, clerk, shown, crossed>>

Clerk ==
  [op : {"none"}]
  \cup [op : {"set"}, rider : Staff, base : Salaries \cup {Unpaid}, amount : Salaries]
  \cup [op : {"revoke"}, rider : Staff, drop : BOOLEAN]
  \cup [op : {"list"}, due : [Staff -> Salaries \cup {Unpaid}], seen : BOOLEAN, existing : SUBSET Staff]

NoClerk == [op |-> "none"]

PayrollTypeOK ==
  /\ platform \subseteq Staff
  /\ salary \in [Staff -> Salaries \cup {Unpaid}]
  /\ payroll \in [Staff -> Salaries \cup {Unpaid}]
  /\ paid \subseteq Staff
  /\ clerk \in [Clerks -> Clerk]
  /\ shown \subseteq Staff
  /\ crossed \subseteq Staff

Opens(c, w) == clerk[c] = NoClerk /\ clerk' = [clerk EXCEPT ![c] = w]
Closes(c) == clerk' = [clerk EXCEPT ![c] = NoClerk]
Setting(r) == \E c \in Clerks : clerk[c].op = "set" /\ clerk[c].rider = r

Salaried == {r \in Staff : salary[r] # Unpaid}
Rows == {r \in Staff : payroll[r] # Unpaid}

-----------------------------------------------------------------------------
(* Platform status and salaries *)

Grant(r) ==
  /\ platform' = platform \cup {r}
  /\ UNCHANGED <<salary, payroll, paid, clerk, shown, crossed>>

RevokeLoad(c, r) ==
  /\ r \in platform
  /\ Opens(c, [op |-> "revoke", rider |-> r, drop |-> r \in Salaried])
  /\ UNCHANGED <<platform, salary, payroll, paid, shown, crossed>>

RevokeCommitModeOnly(c) ==
  LET r == clerk[c].rider IN
  /\ clerk[c].op = "revoke"
  /\ platform' = platform \ {r}
  /\ crossed' = IF Setting(r) THEN crossed \cup {r} ELSE crossed
  /\ Closes(c)
  /\ UNCHANGED <<salary, payroll, paid, shown>>

\* The salary row that was found is deleted with the status.
RevokeCommit(c) ==
  LET r == clerk[c].rider IN
  /\ clerk[c].op = "revoke"
  /\ platform' = platform \ {r}
  /\ salary' = IF clerk[c].drop THEN [salary EXCEPT ![r] = Unpaid] ELSE salary
  /\ crossed' = IF Setting(r) \/ (~clerk[c].drop /\ r \in Salaried) THEN crossed \cup {r} ELSE crossed
  /\ Closes(c)
  /\ UNCHANGED <<payroll, paid, shown>>

\* set_salary: "Grant platform status first."
SetLoad(c, r, amount) ==
  /\ r \in platform
  /\ Opens(c, [op |-> "set", rider |-> r, base |-> salary[r], amount |-> amount])
  /\ UNCHANGED <<platform, salary, payroll, paid, shown, crossed>>

\* An insert needs that there is no row, the update that the row is there.
SetCommit(c) ==
  LET w == clerk[c] IN
  /\ w.op = "set"
  /\ (w.base = Unpaid) <=> (salary[w.rider] = Unpaid)
  /\ salary' = IF w.base = w.amount THEN salary ELSE [salary EXCEPT ![w.rider] = w.amount]
  /\ Closes(c)
  /\ UNCHANGED <<platform, payroll, paid, shown, crossed>>

\* The request ends with an error and without a commit.
ClerkFails(c) ==
  /\ clerk[c] # NoClerk
  /\ Closes(c)
  /\ UNCHANGED <<platform, salary, payroll, paid, shown, crossed>>

-----------------------------------------------------------------------------
(* list_payroll_for_period and mark_paid *)

ListLoad(c) ==
  /\ Opens(c, [op |-> "list", due |-> salary, seen |-> FALSE, existing |-> {}])
  /\ UNCHANGED <<platform, salary, payroll, paid, shown, crossed>>

ListExisting(c) ==
  /\ clerk[c].op = "list" /\ ~clerk[c].seen
  /\ clerk' = [clerk EXCEPT ![c].seen = TRUE, ![c].existing = Rows]
  /\ UNCHANGED <<platform, salary, payroll, paid, shown, crossed>>

\* The rows that are missing are added; they are committed if fewer rows were
\* found than salaries, and else only flushed by the SELECT of the answer.  A
\* row that was added meanwhile fails the insert.
ListAnswer(c) ==
  LET w == clerk[c]
      due == {r \in Staff : w.due[r] # Unpaid}
      added == due \ w.existing
      commits == Cardinality(w.existing) < Cardinality(due)
  IN
  /\ w.op = "list" /\ w.seen
  /\ added \cap Rows = {}
  /\ payroll' = IF commits THEN [r \in Staff |-> IF r \in added THEN w.due[r] ELSE payroll[r]]
                ELSE payroll
  /\ shown' = Rows \cup added
  /\ Closes(c)
  /\ UNCHANGED <<platform, salary, paid, crossed>>

\* A row that does not exist is "Payroll record not found."
MarkPaid(r) ==
  /\ r \in shown \cap Rows
  /\ paid' = paid \cup {r}
  /\ UNCHANGED <<platform, salary, payroll, clerk, shown, crossed>>

-----------------------------------------------------------------------------

PayrollInit ==
  /\ platform = {} /\ paid = {} /\ shown = {} /\ crossed = {}
  /\ salary = [r \in Staff |-> Unpaid]
  /\ payroll = [r \in Staff |-> Unpaid]
  /\ clerk = [c \in Clerks |-> NoClerk]

PayrollNext ==
  \/ \E r \in Staff : Grant(r) \/ MarkPaid(r)
  \/ \E c \in Clerks :
       \/ \E r \in Staff : RevokeLoad(c, r) \/ \E amount \in Salaries : SetLoad(c, r, amount)
       \/ RevokeCommit(c) \/ SetCommit(c) \/ ClerkFails(c)
       \/ ListLoad(c) \/ ListExisting(c) \/ ListAnswer(c)

PayrollSpec == PayrollInit /\ [][PayrollNext]_payVars

-----------------------------------------------------------------------------
(* Properties *)

\* Only platform riders are salaried: "a revoked rider doesn't linger on the
\* admin payroll screen", unless the revocation crossed a request that set the
\* salary (update_rider_platform_status, set_salary).
SalariedIsPlatform == \A r \in Salaried : r \in platform \/ r \in crossed

\* "the admin screen always has an actionable row": each row of an answer of
\* list_payroll_for_period is stored, so that it can be marked paid.
ShownIsActionable == shown \subseteq Rows
=============================================================================
