---------------------------- MODULE Conversations ----------------------------
(***************************************************************************)
(* Messages between one restaurant and its customers:                      *)
(* app/modules/messages/api.py and repository.py.  A conversation is the   *)
(* messages of one customer.                                               *)
(*                                                                         *)
(* created_at is now() of the database: the time at which the transaction  *)
(* of the request began, which is before its message is visible and may be *)
(* before a message that is already there.                                 *)
(***************************************************************************)
EXTENDS Integers, Sequences, FiniteSets, Functions

CONSTANTS
  Talks,          \* customers of the restaurant
  Limit,          \* messages on one page
  MaxMessages,    \* bound on the messages
  MaxClock,       \* bound on the time
  Writers,        \* requests that send, served at one time
  Scrollers       \* clients that page through a conversation

ASSUME LimitAssumption == Limit \in Nat \ {0} /\ MaxMessages \in Nat /\ MaxClock \in Nat

VARIABLES
  message,     \* the rows of "messages", by their id
  clock,
  writer,      \* per request: its message and the time its transaction began
  scroller     \* per client: the conversation it reads, from which side, and how far

messageVars == <<message, clock, writer, scroller>>

MessageIds == 1..MaxMessages
MessageRow == [talk : Talks, is_from_merchant : BOOLEAN, created_at : 0..MaxClock, unread : BOOLEAN]

Scroller ==
  [talk : Talks, merchant : BOOLEAN, step : {"mark", "page", "turn"}, before : 0..MaxMessages,
   has_more : BOOLEAN,
   there : SUBSET MessageIds,    \* history: the conversation when its first page was read
   shown : SUBSET MessageIds, twice : SUBSET MessageIds]   \* history: what the pages showed, once and again

MessageTypeOK ==
  /\ message \in Seq(MessageRow)
  /\ Len(message) <= MaxMessages
  /\ clock \in 0..MaxClock
  /\ DOMAIN writer \subseteq Writers
  /\ \A h \in DOMAIN writer : writer[h] \in [talk : Talks, is_from_merchant : BOOLEAN, created_at : 0..MaxClock]
  /\ DOMAIN scroller \subseteq Scrollers
  /\ \A s \in DOMAIN scroller : scroller[s] \in Scroller

Messages(t) == {i \in DOMAIN message : message[i].talk = t}

-----------------------------------------------------------------------------
(* The pages of a conversation *)

BeforeByTime(i, c) == message[i].created_at < message[c].created_at

\* The rows that a cursor leaves: those before it by time, then by id.
Before(i, c) ==
  \/ message[i].created_at < message[c].created_at
  \/ message[i].created_at = message[c].created_at /\ i < c

\* get_conversation_page takes the newest of them, and looks one row further to
\* know whether there are more.
Page(t, c) ==
  LET rows == {i \in Messages(t) : c # 0 => Before(i, c)}
      newer(i) == {j \in rows : message[j].created_at > message[i].created_at
                              \/ (message[j].created_at = message[i].created_at /\ j > i)}
  IN [items |-> {i \in rows : Cardinality(newer(i)) < Limit},
      has_more |-> Cardinality(rows) > Limit]

\* What the next request passes as before_message_id: the first of the page.
First(items) ==
  CHOOSE i \in items : \A j \in items \ {i} :
    message[i].created_at < message[j].created_at
      \/ (message[i].created_at = message[j].created_at /\ i < j)

-----------------------------------------------------------------------------
(* The lists of conversations *)

\* list_conversations joins each message to its customer's newest time: a row
\* per message that has that time.
Listed ==
  {i \in DOMAIN message : \A j \in Messages(message[i].talk) : message[j].created_at <= message[i].created_at}

\* get_unread_count, total_unread_for_restaurant: what customers sent.
Unread(t) == {i \in Messages(t) : message[i].unread /\ ~message[i].is_from_merchant}
TotalUnread == Cardinality({i \in DOMAIN message : message[i].unread /\ ~message[i].is_from_merchant})

\* One summary per row: the customer, the last message and the unread ones.
Summaries == {[customer |-> message[i].talk, last |-> i, unread_count |-> Cardinality(Unread(message[i].talk))] : i \in Listed}

\* Two messages of one conversation carry its newest time.
Tied == \E i, j \in Listed : i # j /\ message[i].talk = message[j].talk

-----------------------------------------------------------------------------
(* Requests and time *)

Tick == clock < MaxClock /\ clock' = clock + 1 /\ UNCHANGED <<message, writer, scroller>>

\* The transaction of send_message or customer_send_message begins with the
\* query that authenticates the request.
SendBegin(h, t, merchant) ==
  /\ h \notin DOMAIN writer /\ Len(message) < MaxMessages
  /\ writer' = [g \in DOMAIN writer \cup {h} |-> IF g = h
       THEN [talk |-> t, is_from_merchant |-> merchant, created_at |-> clock] ELSE writer[g]]
  /\ UNCHANGED <<message, clock, scroller>>

\* create_message; the events and the notice that follow are other modules'.
SendCommit(h) ==
  LET w == writer[h] IN
  /\ Len(message) < MaxMessages
  /\ message' = Append(message, [talk |-> w.talk, is_from_merchant |-> w.is_from_merchant,
                                 created_at |-> w.created_at, unread |-> TRUE])
  /\ writer' = [g \in DOMAIN writer \ {h} |-> writer[g]]
  /\ UNCHANGED <<clock, scroller>>

Open(s, t, merchant) ==
  /\ s \notin DOMAIN scroller
  /\ scroller' = [g \in DOMAIN scroller \cup {s} |-> IF g = s
       THEN [talk |-> t, merchant |-> merchant, step |-> "mark", before |-> 0, has_more |-> TRUE,
             there |-> {}, shown |-> {}, twice |-> {}] ELSE scroller[g]]
  /\ UNCHANGED <<message, clock, writer>>

\* mark_conversation_read: what the other side sent, on whatever page it is.
Mark(s) ==
  LET v == scroller[s] IN
  /\ v.step = "mark"
  /\ message' = [i \in DOMAIN message |->
       IF i \in Messages(v.talk) /\ message[i].is_from_merchant # v.merchant
         THEN [message[i] EXCEPT !.unread = FALSE] ELSE message[i]]
  /\ scroller' = [scroller EXCEPT ![s].step = "page"]
  /\ UNCHANGED <<clock, writer>>

\* The page is read after the commit of the mark.
ReadPage(s) ==
  LET v == scroller[s]
      page == Page(v.talk, v.before)
  IN
  /\ v.step = "page"
  /\ scroller' = [scroller EXCEPT ![s] = [v EXCEPT
       !.step = "turn",
       !.before = IF page.items = {} THEN @ ELSE First(page.items),
       !.has_more = page.has_more,
       !.there = IF v.before = 0 THEN Messages(v.talk) ELSE @,
       !.shown = @ \cup page.items,
       !.twice = @ \cup (v.shown \cap page.items)]]
  /\ UNCHANGED <<message, clock, writer>>

\* The client asks for an older page, or leaves.
TurnPage(s) ==
  /\ scroller[s].step = "turn"
  /\ \/ scroller[s].has_more /\ scroller' = [scroller EXCEPT ![s].step = "mark"]
     \/ scroller' = [g \in DOMAIN scroller \ {s} |-> scroller[g]]
  /\ UNCHANGED <<message, clock, writer>>

-----------------------------------------------------------------------------
MessageInit == message = <<>> /\ clock = 0 /\ writer = <<>> /\ scroller = <<>>

MessageNext ==
  \/ Tick
  \/ \E h \in Writers, t \in Talks, merchant \in BOOLEAN : SendBegin(h, t, merchant)
  \/ \E h \in DOMAIN writer : SendCommit(h)
  \/ \E s \in Scrollers, t \in Talks, merchant \in BOOLEAN : Open(s, t, merchant)
  \/ \E s \in DOMAIN scroller : Mark(s) \/ ReadPage(s) \/ TurnPage(s)

MessageSpec == MessageInit /\ [][MessageNext]_messageVars

-----------------------------------------------------------------------------
\* Paging back through a conversation, a client that reaches its end has seen
\* every message that was there when it began, and none twice, whatever is sent
\* and whatever time it carries meanwhile; and what the conversations of the
\* list have unread adds up to the restaurant's total, save that a conversation
\* whose two newest messages carry one time is listed, and counted, twice.
ConversationWhole ==
  /\ \A s \in DOMAIN scroller :
       /\ scroller[s].twice = {}
       /\ ~scroller[s].has_more => scroller[s].there \subseteq scroller[s].shown
  /\ LET sum == SumFunction([row \in Summaries |-> row.unread_count]) IN
       sum = TotalUnread \/ (Tied /\ sum > TotalUnread)
=============================================================================
