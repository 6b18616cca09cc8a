------------------------------ MODULE RateLimit ------------------------------
(***************************************************************************)
(* AuthService._enforce_rate_limit (app/modules/auth/service.py): attempts *)
(* of one action under one key, counted in a row of "auth_rate_limits".    *)
(*                                                                         *)
(* The row is read without a lock when the request begins and written with *)
(* the request's commit, the fields that changed only; attempts that       *)
(* overlap count from the same value.  Time is counted in units.           *)
(***************************************************************************)
EXTENDS Integers

CONSTANTS
  Attempts,      \* requests that are served at one time
  MaxAttempts, Window, Block,   \* a rule: attempts, and the two durations
  Hold,          \* how long a request takes at most
  MaxNow         \* bound on the time

\* _rate_limit_rule, durations in minutes.
RateLimitRule ==
  [register               |-> [attempts |-> 5,  window |-> 60, block |-> 60],
   login                  |-> [attempts |-> 5,  window |-> 15, block |-> 15],
   google_login           |-> [attempts |-> 10, window |-> 15, block |-> 15],
   password_reset_request |-> [attempts |-> 3,  window |-> 15, block |-> 30],
   password_reset_confirm |-> [attempts |-> 5,  window |-> 15, block |-> 30],
   change_password        |-> [attempts |-> 5,  window |-> 15, block |-> 15],
   otherwise              |-> [attempts |-> 10, window |-> 15, block |-> 15]]

\* What the model uses of the rules, and the rule it is run with keeps too.
ASSUME RuleAssumption ==
  /\ \A a \in DOMAIN RateLimitRule :
       /\ RateLimitRule[a].attempts > 0
       /\ RateLimitRule[a].window <= RateLimitRule[a].block
  /\ MaxAttempts \in Nat \ {0} /\ Window \in Nat \ {0} /\ Block \in Nat /\ Window <= Block
  /\ Hold \in Nat /\ Hold < Window
  /\ MaxNow \in Nat

VARIABLES
  now,       \* the time
  record,    \* the row of "auth_rate_limits"
  attempt    \* per request: what it will write, or that it does nothing

rateVars == <<now, record, attempt>>

Never == -1            \* blocked_until IS NULL
Keep == -2             \* a field that the request does not write
Instants == 0..MaxNow

RateTypeOK ==
  /\ now \in Instants
  /\ record \in [there : BOOLEAN, count : Nat, started : Instants, until : Int]
  /\ attempt \in [Attempts -> [busy : BOOLEAN, count : Nat, started : Int, until : Int, at : Instants]]

NoAttempt == [busy |-> FALSE, count |-> 0, started |-> Keep, until |-> Keep, at |-> 0]

Blocked == record.there /\ record.until # Never /\ record.until > now
WindowOver == record.started + Window <= now

EnterStillBlocked(a) ==
  LET over == record.there /\ WindowOver
      count == IF over \/ ~record.there THEN 1 ELSE record.count + 1
  IN
  /\ ~attempt[a].busy
  /\ ~Blocked
  /\ record.there \/ \A b \in Attempts : ~attempt[b].busy
  /\ attempt' = [attempt EXCEPT ![a] =
       [busy |-> TRUE, count |-> count, at |-> now,
        started |-> IF over \/ ~record.there THEN now ELSE Keep,
        until |-> IF count > MaxAttempts THEN now + Block ELSE Keep]]
  /\ UNCHANGED <<now, record>>

\* The first attempt inserts the row; the unique key makes overlapping inserts
\* wait for it and then read its row.
Enter(a) ==
  LET over == record.there /\ WindowOver
      count == IF over \/ ~record.there THEN 1 ELSE record.count + 1
      freed == over /\ record.until # Never
  IN
  /\ ~attempt[a].busy
  /\ ~Blocked
  /\ record.there \/ \A b \in Attempts : ~attempt[b].busy
  /\ attempt' = [attempt EXCEPT ![a] =
       [busy |-> TRUE, count |-> count, at |-> now,
        started |-> IF over \/ ~record.there THEN now ELSE Keep,
        until |-> IF count > MaxAttempts THEN now + Block ELSE IF freed THEN Never ELSE Keep]]
  /\ UNCHANGED <<now, record>>

\* The request commits, admitted or refused.
Count(a) ==
  LET w == attempt[a] IN
  /\ w.busy
  /\ record' = [record EXCEPT !.there = TRUE, !.count = w.count,
                              !.started = IF w.started = Keep THEN @ ELSE w.started,
                              !.until = IF w.until = Keep THEN @ ELSE w.until]
  /\ attempt' = [attempt EXCEPT ![a] = NoAttempt]
  /\ UNCHANGED now

\* The request fails for another reason and rolls back.
Forget(a) ==
  /\ attempt[a].busy
  /\ attempt' = [attempt EXCEPT ![a] = NoAttempt]
  /\ UNCHANGED <<now, record>>

RateTick ==
  /\ now < MaxNow
  /\ \A a \in Attempts : attempt[a].busy => now < attempt[a].at + Hold
  /\ now' = now + 1
  /\ UNCHANGED <<record, attempt>>

RateInit ==
  /\ now = 0
  /\ record = [there |-> FALSE, count |-> 0, started |-> 0, until |-> Never]
  /\ attempt = [a \in Attempts |-> NoAttempt]

RateNext == RateTick \/ \E a \in Attempts : Enter(a) \/ Count(a) \/ Forget(a)

RateSpec == RateInit /\ [][RateNext]_rateVars

-----------------------------------------------------------------------------
(* Properties *)

\* Who has waited out a block gets an attempt: the window of the attempts that
\* led to it is over, and the count starts anew.  Only requests that were in
\* flight when the block was set may delay that, as long as a request may take
\* (_enforce_rate_limit).
BlockEnds == record.until # Never /\ record.until + Hold <= now => WindowOver
=============================================================================
