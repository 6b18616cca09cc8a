----------------------------- MODULE RiderTeam -----------------------------
(***************************************************************************)
(* How an account becomes a rider and joins the team of a restaurant:      *)
(* app/modules/rider_applications/service.py, the invitations of           *)
(* app/modules/rider_dispatch/service.py and the rider workspace of        *)
(* app/modules/workspaces.                                                 *)
(*                                                                         *)
(* The team is that of one restaurant: every query of an invitation or of  *)
(* an assignment names its restaurant.  A handler reads, then writes in    *)
(* one commit; what it read may be old by then, and no constraint of the   *)
(* database forbids two live invitations of one email or two assignments   *)
(* of one rider (branch_id is NULL in uq_restaurant_assignment).           *)
(***************************************************************************)
EXTENDS Integers, FiniteSets

CONSTANTS
  Riders,        \* people who may become riders; each has one email
  NoRider,       \* invited_user_id IS NULL, and a seat that is not taken
  MaxInvites,    \* bound on the ids of "restaurant_rider_invitations"
  MaxSeats,      \* bound on the rider_private rows of "restaurant_user_assignments"
  MaxForms,      \* bound on the ids of "rider_applications", 1..MaxForms
  Handlers       \* requests that are served at one time

ASSUME NoRiderAssumption == NoRider \notin Riders
ASSUME HandlersAssumption == IsFiniteSet(Handlers)
ASSUME TeamBoundsAssumption == MaxForms \in Nat /\ MaxInvites \in Nat /\ MaxSeats \in Nat

\* Rows are numbered as they are inserted, the place of a removed one is used again.
Applications == 1..MaxForms
Invites == 1..MaxInvites
Seats == 1..MaxSeats

VARIABLES
  person,  \* the user rows, with the rider role and the workspaces of each
  invite,  \* the rows of "restaurant_rider_invitations"
  seat,    \* who holds each assignment row
  form,    \* the rows of "rider_applications"
  work     \* per handler: what it does and what it has read

teamVars == <<person, invite, seat, form, work>>

Live == {"pending", "sent"}
Duplicate == Live \cup {"accepted"}
InviteStatus == Duplicate \cup {"none", "rejected", "cancelled"}
FormStatus == {"none", "submitted", "approved", "rejected"}

\* "spaces" is the number of rider workspaces, "active" the type of the active one.
Person ==
  [registered : BOOLEAN, role : BOOLEAN, spaces : Nat, active : {"customer", "rider"}]

InviteRow ==
  [status : InviteStatus, email : Riders, user : Riders \cup {NoRider}]

FormRow == [status : FormStatus, user : Riders]

\* A handler that has read and not yet committed.  "base" is the status it read.
Work ==
  [op : {"none"}]
  \cup [op : {"invite"}, rider : Riders, user : Riders \cup {NoRider}]
  \cup [op : {"answer"}, id : Invites, base : InviteStatus, to : {"sent", "cancelled", "rejected"}]
  \cup [op : {"accept"}, id : Invites, rider : Riders, join : BOOLEAN]
  \cup [op : {"remove"}, id : Seats]
  \cup [op : {"apply"}, rider : Riders]
  \cup [op : {"review"}, id : Applications, base : FormStatus, to : {"approved", "rejected"}]
  \cup [op : {"enter"}, id : Applications]
  \cup [op : {"space"}, rider : Riders, make : BOOLEAN, go : BOOLEAN]

Resting == [op |-> "none"]

TeamTypeOK ==
  /\ person \in [Riders -> Person]
  /\ invite \in [Invites -> InviteRow]
  /\ seat \in [Seats -> Riders \cup {NoRider}]
  /\ form \in [Applications -> FormRow]
  /\ work \in [Handlers -> Work]

Start(h, w) == work[h] = Resting /\ work' = [work EXCEPT ![h] = w]
Done(h) == work' = [work EXCEPT ![h] = Resting]
Doing(h, op) == work[h].op = op

SeatsOf(r) == {s \in Seats : seat[s] = r}

\* The duplicate query of invite_rider.
DuplicatesOf(r) == {i \in Invites : invite[i].email = r /\ invite[i].status \in Duplicate}

-----------------------------------------------------------------------------
(* auth: an account is registered with a customer workspace, the active one *)

Register(r) ==
  /\ ~person[r].registered
  /\ person' = [person EXCEPT ![r].registered = TRUE]
  /\ UNCHANGED <<invite, seat, form, work>>

-----------------------------------------------------------------------------
(* The merchant invites, resends, cancels and removes *)

\* The account of the email is looked up first, the duplicates after.
InviteLoad(h, r) ==
  /\ DuplicatesOf(r) = {}
  /\ Start(h, [op |-> "invite", rider |-> r,
               user |-> IF person[r].registered THEN r ELSE NoRider])
  /\ UNCHANGED <<person, invite, seat, form>>

InviteCommit(h, i) ==
  /\ Doing(h, "invite")
  /\ invite[i].status = "none"
  /\ \A j \in 1..(i - 1) : invite[j].status # "none"
  /\ invite' = [invite EXCEPT ![i] =
       [status |-> "pending", email |-> work[h].rider, user |-> work[h].user]]
  /\ Done(h)
  /\ UNCHANGED <<person, seat, form>>

\* cancel_invitation and resend_invitation look for a live invitation.
MerchantLoad(h, i, to) ==
  /\ invite[i].status \in Live
  /\ to \in {"sent", "cancelled"}
  /\ Start(h, [op |-> "answer", id |-> i, base |-> invite[i].status, to |-> to])
  /\ UNCHANGED <<person, invite, seat, form>>

\* A status that is the one the row was loaded with is not written.
AnswerCommit(h) ==
  /\ Doing(h, "answer")
  /\ invite' = IF work[h].to = work[h].base THEN invite
               ELSE [invite EXCEPT ![work[h].id].status = work[h].to]
  /\ Done(h)
  /\ UNCHANGED <<person, seat, form>>

\* remove_rider takes one of the rows; the invitation is left as it is.
RemoveLoad(h, s) ==
  /\ seat[s] # NoRider
  /\ Start(h, [op |-> "remove", id |-> s])
  /\ UNCHANGED <<person, invite, seat, form>>

RemoveCommit(h) ==
  /\ Doing(h, "remove")
  /\ seat' = [seat EXCEPT ![work[h].id] = NoRider]
  /\ Done(h)
  /\ UNCHANGED <<person, invite, form>>

-----------------------------------------------------------------------------
(* The rider accepts or rejects; require_role(["rider"]) guards both *)

Addressee(i, r) ==
  IF invite[i].user = NoRider THEN invite[i].email = r ELSE invite[i].user = r

AcceptLoadAgain(h, i, r) ==
  /\ person[r].role
  /\ invite[i].status \in Live
  /\ Addressee(i, r)
  /\ Start(h, [op |-> "accept", id |-> i, rider |-> r, join |-> TRUE])
  /\ UNCHANGED <<person, invite, seat, form>>

\* The look-up of the assignment fails when there are two rows.
AcceptLoad(h, i, r) ==
  /\ person[r].role
  /\ invite[i].status \in Live
  /\ Addressee(i, r)
  /\ Cardinality(SeatsOf(r)) <= 1
  /\ Start(h, [op |-> "accept", id |-> i, rider |-> r, join |-> SeatsOf(r) = {}])
  /\ UNCHANGED <<person, invite, seat, form>>

\* The first id that no row has and no handler is about to delete.
Taken(s) == seat[s] # NoRider \/ \E h \in Handlers : Doing(h, "remove") /\ work[h].id = s
FreeSeat(s) == ~Taken(s) /\ \A t \in 1..(s - 1) : Taken(t)

AcceptCommitUnnamed(h) ==
  LET r == work[h].rider IN
  /\ Doing(h, "accept")
  /\ IF work[h].join
       THEN \E s \in Seats : FreeSeat(s) /\ seat' = [seat EXCEPT ![s] = r]
       ELSE UNCHANGED seat
  /\ invite' = [invite EXCEPT ![work[h].id].status = "accepted"]
  /\ Done(h)
  /\ UNCHANGED <<person, form>>

\* The commit writes the invitation and, for who is not on the team, the row.
AcceptCommit(h) ==
  LET r == work[h].rider IN
  /\ Doing(h, "accept")
  /\ IF work[h].join
       THEN \E s \in Seats : FreeSeat(s) /\ seat' = [seat EXCEPT ![s] = r]
       ELSE UNCHANGED seat
  /\ invite' = [invite EXCEPT ![work[h].id].status = "accepted", ![work[h].id].user = r]
  /\ Done(h)
  /\ UNCHANGED <<person, form>>

\* reject_invitation asks neither for a live invitation nor for the email.
RejectLoad(h, i, r) ==
  /\ person[r].role
  /\ invite[i].status # "none"
  /\ invite[i].user \in {NoRider, r}
  /\ Start(h, [op |-> "answer", id |-> i, base |-> invite[i].status, to |-> "rejected"])
  /\ UNCHANGED <<person, invite, seat, form>>

-----------------------------------------------------------------------------
(* Rider applications *)

FormsOf(r) == {a \in Applications : form[a].status # "none" /\ form[a].user = r}

\* get_latest_application_for_user: only the form of the greatest id is looked at.
LatestIsOpen(r) ==
  \E a \in FormsOf(r) :
    /\ \A b \in FormsOf(r) : b <= a
    /\ form[a].status \in {"submitted", "approved"}

ApplyLoad(h, r) ==
  /\ person[r].registered
  /\ ~person[r].role
  /\ ~LatestIsOpen(r)
  /\ Start(h, [op |-> "apply", rider |-> r])
  /\ UNCHANGED <<person, invite, seat, form>>

ApplyCommit(h, a) ==
  /\ Doing(h, "apply")
  /\ form[a].status = "none"
  /\ \A b \in 1..(a - 1) : form[b].status # "none"
  /\ form' = [form EXCEPT ![a] = [status |-> "submitted", user |-> work[h].rider]]
  /\ Done(h)
  /\ UNCHANGED <<person, invite, seat>>

\* A review that finds its own answer on the row ends at once; any other
\* status, the opposite answer too, can be reviewed.
FormReviewLoad(h, a, to) ==
  /\ form[a].status \notin {"none", to}
  /\ Start(h, [op |-> "review", id |-> a, base |-> form[a].status, to |-> to])
  /\ UNCHANGED <<person, invite, seat, form>>

\* The first commit of approve_application: the status and the role.
ApproveCommit(h) ==
  /\ Doing(h, "review")
  /\ work[h].to = "approved"
  /\ form' = [form EXCEPT ![work[h].id].status = "approved"]
  /\ person' = [person EXCEPT ![form[work[h].id].user].role = TRUE]
  /\ work' = [work EXCEPT ![h] = [op |-> "enter", id |-> work[h].id]]
  /\ UNCHANGED <<invite, seat>>

\* Its second transaction makes the rider workspace if there is none, and
\* moves a user of the customer workspace there.
EnterLoad(h) ==
  LET r == form[work[h].id].user IN
  /\ Doing(h, "enter")
  /\ work' = [work EXCEPT ![h] = [op |-> "space", rider |-> r, make |-> person[r].spaces = 0,
                                 go |-> person[r].active = "customer"]]
  /\ UNCHANGED <<person, invite, seat, form>>

\* The process ends, or the second transaction fails, after the first commit.
EnterFails(h) ==
  /\ Doing(h, "enter")
  /\ Done(h)
  /\ UNCHANGED <<person, invite, seat, form>>

\* reject_application leaves the role that an approval granted.
RejectFormCommit(h) ==
  /\ Doing(h, "review")
  /\ work[h].to = "rejected"
  /\ form' = [form EXCEPT ![work[h].id].status = "rejected"]
  /\ Done(h)
  /\ UNCHANGED <<person, invite, seat>>

-----------------------------------------------------------------------------
(* Workspaces of a rider *)

\* Login and /auth/me create the rider workspace of an eligible user who has
\* none; two of them at one time create two.
EnsureLoad(h, r) ==
  /\ person[r].role
  /\ person[r].spaces = 0
  /\ Start(h, [op |-> "space", rider |-> r, make |-> TRUE, go |-> FALSE])
  /\ UNCHANGED <<person, invite, seat, form>>

SpaceCommit(h) ==
  LET w == work[h] IN
  /\ Doing(h, "space")
  /\ person' = [person EXCEPT ![w.rider].spaces = IF w.make THEN @ + 1 ELSE @,
                              ![w.rider].active = IF w.go THEN "rider" ELSE @]
  /\ Done(h)
  /\ UNCHANGED <<invite, seat, form>>

\* switch_workspace: the user must be a member of the workspace.
SwitchMode(r, to) ==
  /\ person[r].registered
  /\ to = "rider" => person[r].spaces > 0
  /\ person' = [person EXCEPT ![r].active = to]
  /\ UNCHANGED <<invite, seat, form, work>>

-----------------------------------------------------------------------------

TeamInit ==
  /\ person = [r \in Riders |->
       [registered |-> FALSE, role |-> FALSE, spaces |-> 0, active |-> "customer"]]
  /\ \E r \in Riders :
       /\ invite = [i \in Invites |-> [status |-> "none", email |-> r, user |-> NoRider]]
       /\ form = [a \in Applications |-> [status |-> "none", user |-> r]]
  /\ seat = [s \in Seats |-> NoRider]
  /\ work = [h \in Handlers |-> Resting]

TeamNext ==
  \/ \E r \in Riders : Register(r) \/ \E to \in {"customer", "rider"} : SwitchMode(r, to)
  \/ \E h \in Handlers :
       \/ \E r \in Riders : InviteLoad(h, r) \/ ApplyLoad(h, r) \/ EnsureLoad(h, r)
       \/ \E i \in Invites :
            \/ InviteCommit(h, i)
            \/ \E to \in {"sent", "cancelled"} : MerchantLoad(h, i, to)
            \/ \E r \in Riders : AcceptLoad(h, i, r) \/ RejectLoad(h, i, r)
       \/ \E s \in Seats : RemoveLoad(h, s)
       \/ \E a \in Applications :
            ApplyCommit(h, a) \/ \E to \in {"approved", "rejected"} : FormReviewLoad(h, a, to)
       \/ AnswerCommit(h) \/ RemoveCommit(h) \/ AcceptCommit(h)
       \/ ApproveCommit(h) \/ EnterLoad(h) \/ EnterFails(h) \/ RejectFormCommit(h)
       \/ SpaceCommit(h)

TeamSpec == TeamInit /\ [][TeamNext]_teamVars

-----------------------------------------------------------------------------
(* Properties *)

\* Only handlers that overlap give one rider several assignment rows: a rider
\* is never on the team more often than there are handlers, so that a removal
\* takes a rider off the team when requests are served one after the other
\* (accept_invitation, remove_rider).
OneSeatPerOverlap == \A r \in Riders : Cardinality(SeatsOf(r)) <= Cardinality(Handlers)

\* An account in rider mode has a rider workspace to be in and the rider role,
\* although the role is committed first and the workspace may fail; and who sits
\* on a team accepted an invitation as an account with that role, also when a
\* stale request has overwritten the answer since (approve_application,
\* switch_workspace, accept_invitation).
RidersAreReal ==
  /\ \A r \in Riders : person[r].active = "rider" => person[r].spaces > 0 /\ person[r].role
  /\ \A s \in Seats : seat[s] # NoRider =>
       person[seat[s]].role /\ \E i \in Invites : invite[i].user = seat[s]
=============================================================================
