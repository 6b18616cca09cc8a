------------------------------- MODULE Realtime -------------------------------
(***************************************************************************)
(* RedisRealtimeBus of app/modules/realtime/bus.py in one server process,  *)
(* and the registry of sockets that its handlers send to                   *)
(* (OrderConnectionManager, ConnectionManager).                            *)
(*                                                                         *)
(* The coroutines of the process switch at awaits only; a step is what one *)
(* of them does between two awaits.  Redis goes down and up as it likes.   *)
(***************************************************************************)
EXTENDS Integers, FiniteSets

CONSTANTS
  Publishers,   \* coroutines that publish an event
  Sockets,      \* websockets of the users that a channel is about
  MaxLinks      \* bound on the connections that are made, 1..MaxLinks

ASSUME LinksAssumption == MaxLinks \in Nat \ {0}

VARIABLES
  redis,      \* whether the server of Redis answers
  bus,        \* _started, _connected and the connection in _client
  links,      \* how many connections were made
  dead,       \* the connections that broke, known to the bus or not
  listener,   \* the connection that _listener_task reads, or NoLink
  retry,      \* what _reconnect_task does; "boot": start() itself connects
  publisher,  \* per publisher: what it waits for, and on which connection
  socket,     \* the state of each socket
  registry    \* the sockets in _connections

busVars == <<redis, bus, links, dead, listener, retry, publisher, socket, registry>>

NoLink == 0
Links == 1..MaxLinks

BusTypeOK ==
  /\ redis \in BOOLEAN
  /\ bus \in [started : BOOLEAN, connected : BOOLEAN, link : Links \cup {NoLink}]
  /\ links \in Links \cup {0}
  /\ dead \subseteq Links
  /\ listener \in Links \cup {NoLink}
  /\ retry \in {"none", "boot", "sleeping", "connecting"}
  /\ publisher \in [Publishers -> [at : {"idle", "sending", "closing"}, link : Links \cup {NoLink}]]
  /\ socket \in [Sockets -> {"new", "open", "broken", "closed"}]
  /\ registry \subseteq Sockets

Quiet == [at |-> "idle", link |-> NoLink]

-----------------------------------------------------------------------------
(* Connecting *)

StartBus ==
  /\ ~bus.started /\ links = 0
  /\ bus' = [bus EXCEPT !.started = TRUE]
  /\ retry' = "boot"
  /\ UNCHANGED <<redis, links, dead, listener, publisher, socket, registry>>

\* The reconnect task wakes up.
WakeUp ==
  /\ retry = "sleeping"
  /\ retry' = "connecting"
  /\ UNCHANGED <<redis, bus, links, dead, listener, publisher, socket, registry>>

\* _connect_once succeeds: the channels are subscribed, a listener runs, and
\* the reconnect task is over.
Connect ==
  /\ retry \in {"boot", "connecting"}
  /\ redis /\ links < MaxLinks
  /\ links' = links + 1
  /\ bus' = [bus EXCEPT !.connected = TRUE, !.link = links + 1]
  /\ listener' = links + 1
  /\ retry' = "none"
  /\ UNCHANGED <<redis, dead, publisher, socket, registry>>

\* It fails: start() schedules the reconnect task, the task sleeps again.
ConnectFails ==
  /\ retry \in {"boot", "connecting"}
  /\ ~redis
  /\ retry' = "sleeping"
  /\ UNCHANGED <<redis, bus, links, dead, listener, publisher, socket, registry>>

Unscheduled == retry

\* _schedule_reconnect: not after stop(), and not twice.
Scheduled == IF bus.started /\ retry = "none" THEN "sleeping" ELSE retry

\* _listen_loop meets an error and finds the bus still connected.
ListenerLoses ==
  /\ listener \in dead
  /\ listener' = NoLink
  /\ bus' = [bus EXCEPT !.connected = FALSE, !.link = NoLink]
  /\ retry' = Scheduled
  /\ UNCHANGED <<redis, links, dead, publisher, socket, registry>>

-----------------------------------------------------------------------------
(* Publishing *)

\* Nothing is sent when the bus is not connected.
Publish(p) ==
  /\ publisher[p] = Quiet
  /\ bus.connected
  /\ publisher' = [publisher EXCEPT ![p] = [at |-> "sending", link |-> bus.link]]
  /\ UNCHANGED <<redis, bus, links, dead, listener, retry, socket, registry>>

Published(p) ==
  /\ publisher[p].at = "sending" /\ publisher[p].link \notin dead
  /\ publisher' = [publisher EXCEPT ![p] = Quiet]
  /\ UNCHANGED <<redis, bus, links, dead, listener, retry, socket, registry>>

\* The call on a broken connection fails, perhaps long after; if the bus is
\* connected, by a newer connection even, its listener is cancelled and it
\* is taken down.
PublishFails(p) ==
  /\ publisher[p].at = "sending" /\ publisher[p].link \in dead
  /\ IF bus.connected
       THEN /\ bus' = [bus EXCEPT !.connected = FALSE]
            /\ listener' = NoLink
            /\ publisher' = [publisher EXCEPT ![p].at = "closing"]
       ELSE /\ publisher' = [publisher EXCEPT ![p] = Quiet]
            /\ UNCHANGED <<bus, listener>>
  /\ UNCHANGED <<redis, links, dead, retry, socket, registry>>

\* _disconnect has closed the client; then the reconnect is scheduled.
Closed(p) ==
  /\ publisher[p].at = "closing"
  /\ publisher' = [publisher EXCEPT ![p] = Quiet]
  /\ bus' = [bus EXCEPT !.link = NoLink]
  /\ retry' = Scheduled
  /\ UNCHANGED <<redis, links, dead, listener, socket, registry>>

\* stop(), when the process ends
StopBus ==
  /\ bus.started /\ retry # "boot"
  /\ bus' = [started |-> FALSE, connected |-> FALSE, link |-> NoLink]
  /\ listener' = NoLink
  /\ retry' = "none"
  /\ UNCHANGED <<redis, links, dead, publisher, socket, registry>>

-----------------------------------------------------------------------------
(* Sockets and Redis *)

OpenSocket(s) ==
  /\ socket[s] = "new"
  /\ socket' = [socket EXCEPT ![s] = "open"]
  /\ registry' = registry \cup {s}
  /\ UNCHANGED <<redis, bus, links, dead, listener, retry, publisher>>

SocketBreaks(s) ==
  /\ socket[s] = "open"
  /\ socket' = [socket EXCEPT ![s] = "broken"]
  /\ UNCHANGED <<redis, bus, links, dead, listener, retry, publisher, registry>>

\* The endpoint's receive loop notices; sends that failed before were ignored.
SocketLeaves(s) ==
  /\ socket[s] = "broken"
  /\ socket' = [socket EXCEPT ![s] = "closed"]
  /\ registry' = registry \ {s}
  /\ UNCHANGED <<redis, bus, links, dead, listener, retry, publisher>>

\* A connection that is lost while Redis is up is lost all the same.
RedisTurns(up) ==
  /\ redis' = up
  /\ dead' = dead \cup 1..links
  /\ UNCHANGED <<bus, links, listener, retry, publisher, socket, registry>>

-----------------------------------------------------------------------------

BusInit ==
  /\ redis \in BOOLEAN
  /\ bus = [started |-> FALSE, connected |-> FALSE, link |-> NoLink]
  /\ links = 0 /\ dead = {} /\ listener = NoLink
  /\ retry = "none"
  /\ publisher = [p \in Publishers |-> Quiet]
  /\ socket = [s \in Sockets |-> "new"]
  /\ registry = {}

\* What the process does by itself, without another event from outside.
BusStep ==
  \/ WakeUp \/ Connect \/ ConnectFails \/ ListenerLoses
  \/ \E p \in Publishers : Published(p) \/ PublishFails(p) \/ Closed(p)

BusNext ==
  \/ BusStep \/ StartBus \/ StopBus
  \/ \E p \in Publishers : Publish(p)
  \/ \E s \in Sockets : OpenSocket(s) \/ SocketBreaks(s) \/ SocketLeaves(s)
  \/ \E up \in BOOLEAN : RedisTurns(up)

\* The event loop runs what can run, and a client that is gone is noticed.
BusFairness ==
  /\ WF_busVars(WakeUp) /\ WF_busVars(Connect) /\ WF_busVars(ConnectFails)
  /\ WF_busVars(ListenerLoses)
  /\ \A p \in Publishers : WF_busVars(Published(p) \/ PublishFails(p) \/ Closed(p))
  /\ \A s \in Sockets : WF_busVars(SocketLeaves(s))

BusSpec == BusInit /\ [][BusNext]_busVars /\ BusFairness

-----------------------------------------------------------------------------
(* Properties *)

\* The bus never forgets to reconnect: while it should run and does not, a
\* reconnect is under way or somebody who will schedule it is (_schedule_reconnect).
ReconnectUnderWay ==
  bus.started /\ ~bus.connected =>
    retry # "none" \/ \E p \in Publishers : publisher[p].at = "closing"

\* There is a listener exactly while the bus is connected, and it reads the
\* connection that the bus publishes on (_connect_once, _disconnect, _listen_loop).
ListenerIsCurrent ==
  IF bus.connected THEN listener = bus.link /\ listener # NoLink ELSE listener = NoLink

\* "a dropped connection ... schedules a background reconnect loop ... instead of
\* permanently disabling realtime delivery": once Redis stays up and the bus is
\* not stopped, the bus comes back, unless the bound on connections is reached.
BusComesBack ==
  <>[](bus.started /\ redis) => []<>(bus.connected \/ links = MaxLinks)
=============================================================================
