------------------------------- MODULE Sessions -------------------------------
(***************************************************************************)
(* Sign-in, refresh rotation, password resets and suspension of an account:*)
(* app/modules/auth/service.py and the operator status of                  *)
(* app/modules/admin/api.py.                                               *)
(*                                                                         *)
(* The account is one: every query names its user.  A call reads rows      *)
(* without a lock and writes in one commit at its end; a password change   *)
(* selects the sessions it revokes in the transaction that commits it.     *)
(* Passwords are numbered in the order in which they are set.              *)
(***************************************************************************)
EXTENDS Integers, FiniteSets

CONSTANTS
  MaxTokens,      \* bound on the rows of "refresh_sessions"
  MaxCodes,       \* bound on the rows of "password_reset_codes"
  MaxPasswords,   \* bound on the passwords an account is given
  Calls           \* requests that are served at one time

ASSUME CallsAssumption == IsFiniteSet(Calls)
ASSUME AuthBoundsAssumption ==
  MaxTokens \in Nat /\ MaxCodes \in Nat /\ MaxPasswords \in Nat \ {0}

\* Rows are numbered as they are inserted.
Tokens == 1..MaxTokens
ResetCodes == 1..MaxCodes
NoToken == 0      \* the origin of a session that a sign-in issued, not a refresh

VARIABLES
  acct,    \* the user row
  sess,    \* the rows of "refresh_sessions"
  reset,   \* the state of each password reset code
  call     \* per call: what it does and what it has read

authVars == <<acct, sess, reset, call>>

Passwords == 0..MaxPasswords    \* 0: password_hash IS NULL, a Google account

Acct == [made : BOOLEAN, active : BOOLEAN, password : Passwords]

\* Two fields record history: "under", the password that was set when the
\* holder last proved who they are, and "late", that it was no longer set
\* when the session was committed.
\* A session that is "over" was revoked or has expired: neither is redeemed.
SessRow == [state : {"none", "live", "over"},
            from : Tokens \cup {NoToken}, under : Passwords, late : BOOLEAN]

Call ==
  [op : {"none", "change"}]
  \cup [op : {"login"}, under : Passwords]
  \cup [op : {"google"}, found : BOOLEAN, base : BOOLEAN, under : Passwords]
  \cup [op : {"refresh", "logout"}, token : Tokens]
  \cup [op : {"ask"}, old : SUBSET ResetCodes]
  \cup [op : {"confirm"}, code : ResetCodes]
  \cup [op : {"status"}, base : BOOLEAN, to : BOOLEAN]

NoCall == [op |-> "none"]

AuthTypeOK ==
  /\ acct \in Acct
  /\ sess \in [Tokens -> SessRow]
  /\ reset \in [ResetCodes -> {"none", "fresh", "over"}]
  /\ call \in [Calls -> Call]

Begin(c, w) == call[c] = NoCall /\ call' = [call EXCEPT ![c] = w]
End(c) == call' = [call EXCEPT ![c] = NoCall]
Runs(c, op) == call[c].op = op

NewToken(t) == sess[t].state = "none" /\ \A s \in 1..(t - 1) : sess[s].state # "none"

\* _issue_tokens: a new row, that of a refresh token "from" which was redeemed.
Issue(t, from, under, password, late) ==
  [sess EXCEPT ![t] = [state |-> "live", from |-> from, under |-> under,
                       late |-> late \/ under # password]]

-----------------------------------------------------------------------------
(* Accounts and sign-in *)

\* register commits the user, its customer role and a session; the unique
\* email makes the second of two overlapping ones fail.
RegisterAccount(t) ==
  /\ ~acct.made
  /\ NewToken(t)
  /\ acct' = [acct EXCEPT !.made = TRUE, !.active = TRUE, !.password = 1]
  /\ sess' = Issue(t, NoToken, 1, 1, FALSE)
  /\ UNCHANGED <<reset, call>>

\* _authenticate_login_user: a password, the right one, an active account.
LoginLoad(c) ==
  /\ acct.made /\ acct.active /\ acct.password # 0
  /\ Begin(c, [op |-> "login", under |-> acct.password])
  /\ UNCHANGED <<acct, sess, reset>>

\* login_with_google: who has no account gets one without a password.
GoogleLoad(c) ==
  /\ Begin(c, [op |-> "google", found |-> acct.made, base |-> acct.active,
               under |-> acct.password])
  /\ UNCHANGED <<acct, sess, reset>>

\* A Google sign-in sets status and is_active, written if they were not set
\* when the row was loaded; a new account must still not be there.
SignInCommit(c, t) ==
  /\ call[c].op \in {"login", "google"}
  /\ NewToken(t)
  /\ IF Runs(c, "google") /\ ~call[c].base
       THEN /\ call[c].found \/ ~acct.made
            /\ acct' = [acct EXCEPT !.made = TRUE, !.active = TRUE]
       ELSE UNCHANGED acct
  /\ sess' = Issue(t, NoToken, call[c].under, acct.password, FALSE)
  /\ End(c)
  /\ UNCHANGED reset

-----------------------------------------------------------------------------
(* Refresh and logout *)

RefreshLoad(c, t) ==
  /\ sess[t].state = "live"
  /\ acct.active
  /\ Begin(c, [op |-> "refresh", token |-> t])
  /\ UNCHANGED <<acct, sess, reset>>

\* The old session is revoked and its successor inserted in one commit.
RefreshCommit(c, t) ==
  LET old == call[c].token IN
  /\ Runs(c, "refresh")
  /\ NewToken(t)
  /\ sess' = [Issue(t, old, sess[old].under, acct.password, sess[old].late)
              EXCEPT ![old].state = "over"]
  /\ End(c)
  /\ UNCHANGED <<acct, reset>>

\* logout asks for a session with that token, in whatever state.
LogoutLoad(c, t) ==
  /\ sess[t].state # "none"
  /\ Begin(c, [op |-> "logout", token |-> t])
  /\ UNCHANGED <<acct, sess, reset>>

LogoutCommit(c) ==
  /\ Runs(c, "logout")
  /\ sess' = [sess EXCEPT ![call[c].token].state = "over"]
  /\ End(c)
  /\ UNCHANGED <<acct, reset>>

-----------------------------------------------------------------------------
(* Passwords *)

\* request_password_reset: the unused codes are marked used, a new one is made.
\* A code that is "over" was used or has expired.
AskLoad(c) ==
  /\ acct.made /\ acct.active
  /\ Begin(c, [op |-> "ask", old |-> {k \in ResetCodes : reset[k] = "fresh"}])
  /\ UNCHANGED <<acct, sess, reset>>

AskCommit(c, k) ==
  /\ Runs(c, "ask")
  /\ reset[k] = "none"
  /\ \A j \in 1..(k - 1) : reset[j] # "none"
  /\ reset' = [j \in ResetCodes |->
       IF j = k THEN "fresh" ELSE IF j \in call[c].old THEN "over" ELSE reset[j]]
  /\ End(c)
  /\ UNCHANGED <<acct, sess>>

\* confirm_password_reset: the code is that of the user, not used, not expired.
ConfirmLoad(c, k) ==
  /\ acct.active
  /\ reset[k] = "fresh"
  /\ Begin(c, [op |-> "confirm", code |-> k])
  /\ UNCHANGED <<acct, sess, reset>>

\* change_password: the current password is checked against the loaded row.
ChangeLoad(c) ==
  /\ acct.active /\ acct.password # 0
  /\ Begin(c, [op |-> "change"])
  /\ UNCHANGED <<acct, sess, reset>>

RevokedSignIns ==
  [t \in Tokens |-> IF sess[t].state = "live" /\ sess[t].from = NoToken
                    THEN [sess[t] EXCEPT !.state = "over"] ELSE sess[t]]

\* revoke_all_refresh_sessions_for_user
RevokedAll ==
  [t \in Tokens |-> IF sess[t].state = "live"
                    THEN [sess[t] EXCEPT !.state = "over"] ELSE sess[t]]

PasswordCommit(c) ==
  /\ call[c].op \in {"confirm", "change"}
  /\ acct.password < MaxPasswords
  /\ acct' = [acct EXCEPT !.password = @ + 1]
  /\ sess' = RevokedAll
  /\ reset' = IF Runs(c, "confirm") THEN [reset EXCEPT ![call[c].code] = "over"] ELSE reset
  /\ End(c)

-----------------------------------------------------------------------------
(* Suspension and time *)

\* update_admin_operator_status; the sessions stay as they are.
StatusLoad(c, to) ==
  /\ acct.made
  /\ Begin(c, [op |-> "status", base |-> acct.active, to |-> to])
  /\ UNCHANGED <<acct, sess, reset>>

StatusCommit(c) ==
  /\ Runs(c, "status")
  /\ acct' = [acct EXCEPT !.active = IF call[c].to = call[c].base THEN @ ELSE call[c].to]
  /\ End(c)
  /\ UNCHANGED <<sess, reset>>

\* The request ends without a commit.
CallFails(c) ==
  /\ call[c] # NoCall
  /\ End(c)
  /\ UNCHANGED <<acct, sess, reset>>

TokenExpires(t) ==
  /\ sess[t].state = "live"
  /\ sess' = [sess EXCEPT ![t].state = "over"]
  /\ UNCHANGED <<acct, reset, call>>

ResetExpires(k) ==
  /\ reset[k] = "fresh"
  /\ reset' = [reset EXCEPT ![k] = "over"]
  /\ UNCHANGED <<acct, sess, call>>

-----------------------------------------------------------------------------

AuthInit ==
  /\ acct = [made |-> FALSE, active |-> FALSE, password |-> 0]
  /\ sess = [t \in Tokens |->
       [state |-> "none", from |-> NoToken, under |-> 0, late |-> FALSE]]
  /\ reset = [k \in ResetCodes |-> "none"]
  /\ call = [c \in Calls |-> NoCall]

AuthNext ==
  \/ \E t \in Tokens : RegisterAccount(t) \/ TokenExpires(t)
  \/ \E k \in ResetCodes : ResetExpires(k)
  \/ \E c \in Calls :
       \/ LoginLoad(c) \/ GoogleLoad(c) \/ AskLoad(c) \/ ChangeLoad(c)
       \/ \E t \in Tokens :
            SignInCommit(c, t) \/ RefreshLoad(c, t) \/ RefreshCommit(c, t) \/ LogoutLoad(c, t)
       \/ \E k \in ResetCodes : AskCommit(c, k) \/ ConfirmLoad(c, k)
       \/ \E to \in BOOLEAN : StatusLoad(c, to)
       \/ CallFails(c) \/ LogoutCommit(c) \/ PasswordCommit(c) \/ StatusCommit(c)

AuthSpec == AuthInit /\ [][AuthNext]_authVars

-----------------------------------------------------------------------------
(* Properties *)

\* A session lives under the password that its holder's proof was made under,
\* unless the sign-in or a refresh it descends from overlapped the change: a
\* password reset throws out everybody else (revoke_all_refresh_sessions_for_user).
ChangeThrowsOut ==
  \A t \in Tokens : sess[t].state = "live" /\ ~sess[t].late => sess[t].under = acct.password

\* Refresh rotation: one refresh token is redeemed by no more requests than
\* overlap, although none of them locks its row (refresh).
RedeemedPerOverlap ==
  \A t \in Tokens : Cardinality({s \in Tokens : sess[s].from = t}) <= Cardinality(Calls)

\* Who holds a session holds it by right: by the password of today, through a
\* chain of refreshes that nobody else was given, but for requests that overlap.
SessionsRightful == ChangeThrowsOut /\ RedeemedPerOverlap
=============================================================================
