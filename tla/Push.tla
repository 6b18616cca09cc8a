--------------------------------- MODULE Push ---------------------------------
(***************************************************************************)
(* Delivery of one event to the devices of one user: the push methods of   *)
(* app/modules/notifications/service.py, the rows of its repository and    *)
(* the tasks of app/tasks/notifications.py.                                *)
(*                                                                         *)
(* A push is a task of the queue, or is done by the request itself when    *)
(* the queue refused it.  Tasks are acknowledged when a worker takes them: *)
(* one that dies with its worker is lost.  Each result of a device is      *)
(* committed on its own.                                                   *)
(***************************************************************************)
EXTENDS Integers, FiniteSets

CONSTANTS
  Pushes,        \* the pushes of the event to the user
  Web, Fcm,      \* subscriptions of browsers, and tokens of phones
  MaxRetries     \* max_retries of the push tasks

ASSUME DevicesAssumption == Web \cap Fcm = {}
ASSUME RetriesAssumption == MaxRetries \in Nat

Devices == Web \cup Fcm

VARIABLES
  push,      \* how far each push is
  device,    \* the devices whose row is active and the user's
  failure    \* the devices with a row in "push_delivery_failures"

pushVars == <<push, device, failure>>

PushState == {"none", "queued", "web", "fcm", "ended", "dead", "lost"}

\* "missed": the devices that the current run failed to reach.
PushTypeOK ==
  /\ push \in [Pushes -> [at : PushState, sync : BOOLEAN, left : SUBSET Devices,
                          missed : SUBSET Devices, tries : 0..MaxRetries]]
  /\ device \subseteq Devices
  /\ failure \subseteq Devices

Listed(kind) == kind \cap device

\* Every run starts over, with the browsers.
Run(n) == push' = [push EXCEPT ![n].at = "web", ![n].left = Listed(Web), ![n].missed = {}]

\* The request delivers the push itself.
SyncPush(n) ==
  /\ push[n].at = "none"
  /\ push' = [push EXCEPT ![n].at = "web", ![n].sync = TRUE, ![n].left = Listed(Web)]
  /\ UNCHANGED <<device, failure>>

QueuePush(n) ==
  /\ push[n].at = "none"
  /\ push' = [push EXCEPT ![n].at = "queued"]
  /\ UNCHANGED <<device, failure>>

TakeTask(n) ==
  /\ push[n].at = "queued"
  /\ Run(n)
  /\ UNCHANGED <<device, failure>>

\* What a device answers: reached, gone for good, or not reached this time.
Outcome == {"reached", "gone", "transient"}

\* record_push_delivery_failure and clear_push_delivery_failure
Failures(d, outcome) ==
  CASE outcome = "reached" -> failure \ {d}
    [] outcome = "gone" -> failure
    [] outcome = "transient" -> failure \cup {d}

Deliver(n, d, outcome) ==
  /\ d \in push[n].left
  /\ push' = [push EXCEPT ![n].left = @ \ {d},
                          ![n].missed = IF outcome = "transient" THEN @ \cup {d} ELSE @]
  /\ failure' = Failures(d, outcome)
  /\ device' = IF outcome = "gone" THEN device \ {d} ELSE device

WebDeliver(n, d, outcome) == push[n].at = "web" /\ Deliver(n, d, outcome)
FcmDeliver(n, d, outcome) == push[n].at = "fcm" /\ Deliver(n, d, outcome)

\* A task tries the phones whatever happened with the browsers; a request that
\* missed a browser raises there.
WebDone(n) ==
  /\ push[n].at = "web" /\ push[n].left = {}
  /\ push' = IF push[n].sync /\ push[n].missed # {}
             THEN [push EXCEPT ![n].at = "dead"]
             ELSE [push EXCEPT ![n].at = "fcm", ![n].left = Listed(Fcm)]
  /\ UNCHANGED <<device, failure>>

RetryForever(was) ==
  IF was.missed = {} THEN [was EXCEPT !.at = "ended"]
  ELSE IF ~was.sync THEN [was EXCEPT !.at = "queued"]
  ELSE [was EXCEPT !.at = "dead"]

\* autoretry_for: a task that missed a device is queued again, max_retries times.
Retry(was) ==
  IF was.missed = {} THEN [was EXCEPT !.at = "ended"]
  ELSE IF ~was.sync /\ was.tries < MaxRetries
    THEN [was EXCEPT !.at = "queued", !.tries = @ + 1]
  ELSE [was EXCEPT !.at = "dead"]

FcmDone(n) ==
  /\ push[n].at = "fcm" /\ push[n].left = {}
  /\ push' = [push EXCEPT ![n] = Retry(@)]
  /\ UNCHANGED <<device, failure>>

\* Another push of the event inserts the row of the device at the same time: the
\* unique key fails the second insert and with it the run.
Clash(n, d) ==
  /\ push[n].at \in {"web", "fcm"}
  /\ d \in push[n].left \cap failure
  /\ \E m \in Pushes \ {n} : push[m].at # "none"
  /\ push' = [push EXCEPT ![n] = Retry([@ EXCEPT !.left = {}, !.missed = @ \cup {d}])]
  /\ UNCHANGED <<device, failure>>

\* A task is acknowledged when it is taken: with its worker it is lost.
WorkerDies(n) ==
  /\ push[n].at \in {"web", "fcm"}
  /\ push' = [push EXCEPT ![n].at = "lost", ![n].left = {}]
  /\ UNCHANGED <<device, failure>>

\* upsert_web_push_subscription, upsert_fcm_token: the endpoint or the token is
\* unique, whoever registers it takes it over from another user.
RegisterDevice(d, mine) ==
  /\ device' = IF mine THEN device \cup {d} ELSE device \ {d}
  /\ UNCHANGED <<push, failure>>

Unsubscribe(d) ==
  /\ d \in Web
  /\ device' = device \ {d}
  /\ UNCHANGED <<push, failure>>

PushInit ==
  /\ push = [n \in Pushes |->
       [at |-> "none", sync |-> FALSE, left |-> {}, missed |-> {}, tries |-> 0]]
  /\ device = {}
  /\ failure = {}

PushStep(n) ==
  \/ TakeTask(n) \/ WebDone(n) \/ FcmDone(n)
  \/ \E d \in Devices : Clash(n, d)
  \/ \E d \in Devices, outcome \in Outcome : WebDeliver(n, d, outcome) \/ FcmDeliver(n, d, outcome)

PushNext ==
  \/ \E n \in Pushes : PushStep(n) \/ SyncPush(n) \/ QueuePush(n) \/ WorkerDies(n)
  \/ \E d \in Devices : Unsubscribe(d) \/ \E mine \in BOOLEAN : RegisterDevice(d, mine)

\* A worker takes the tasks there are, and a call to a device comes back.
PushFairness == \A n \in Pushes : WF_pushVars(PushStep(n))

PushSpec == PushInit /\ [][PushNext]_pushVars /\ PushFairness

-----------------------------------------------------------------------------
(* Properties *)

\* Every push ends, however its devices answer: retries are bounded.
PushEnds ==
  \A n \in Pushes :
    push[n].at \in {"queued", "web", "fcm"} ~> push[n].at \in {"ended", "dead", "lost"}
=============================================================================
