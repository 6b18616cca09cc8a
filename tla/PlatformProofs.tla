--------------------------- MODULE PlatformProofs ---------------------------
(***************************************************************************)
(* Proofs about what the other services rely on, for any number of         *)
(* requests: the limiter of attempts (RateLimit), the default address of a *)
(* customer (Addresses), the bus of one process (Realtime), for any bound  *)
(* on its connections, and the parties of an order that are told of a step *)
(* (Notices).                                                              *)
(***************************************************************************)
EXTENDS RateLimit, Addresses, Realtime, Notices, TLAPS


-----------------------------------------------------------------------------
(* RateLimit *)

\* What an attempt in flight will write fits the time at which it came.
AttemptFits ==
  \A a \in Attempts : attempt[a].busy =>
    /\ attempt[a].at <= now /\ now <= attempt[a].at + Hold
    /\ attempt[a].started \in {Keep, attempt[a].at}
    /\ attempt[a].until \in {Keep, Never, attempt[a].at + Block}

\* No window that began, or that an attempt in flight will begin without lifting
\* the block, outlasts the block by more than a request takes.
BlockOutlastsWindow ==
  record.until # Never =>
    /\ record.started + Window <= record.until + Hold
    /\ \A a \in Attempts :
         attempt[a].busy /\ attempt[a].started # Keep /\ attempt[a].until = Keep =>
           attempt[a].started + Window <= record.until + Hold

RateIInv ==
  /\ RateTypeOK
  /\ record.started <= now
  /\ ~record.there => record.until = Never
  /\ AttemptFits
  /\ BlockOutlastsWindow

LEMMA RuleFacts ==
  /\ MaxAttempts \in Nat \ {0} /\ Window \in Nat \ {0} /\ Block \in Nat /\ Window <= Block
  /\ Hold \in Nat /\ Hold < Window /\ MaxNow \in Nat
BY RuleAssumption

USE RuleFacts DEF Instants, Never, Keep

LEMMA RateInitial == RateInit => RateIInv
BY DEF RateInit, RateIInv, RateTypeOK, AttemptFits, BlockOutlastsWindow, NoAttempt

LEMMA EnterKeeps ==
  ASSUME RateIInv, NEW a \in Attempts, Enter(a)
  PROVE  RateIInv'
<1> DEFINE over == record.there /\ WindowOver
           count == IF over \/ ~record.there THEN 1 ELSE record.count + 1
           freed == over /\ record.until # Never
           new == [busy |-> TRUE, count |-> count, at |-> now,
                   started |-> IF over \/ ~record.there THEN now ELSE Keep,
                   until |-> IF count > MaxAttempts THEN now + Block
                             ELSE IF freed THEN Never ELSE Keep]
<1>1. attempt' = [attempt EXCEPT ![a] = new] /\ now' = now /\ record' = record
  BY DEF Enter
<1>2. now \in Nat /\ record.count \in Nat /\ record.until \in Int /\ record.started \in Nat
  BY DEF RateIInv, RateTypeOK
<1>3. count \in Nat
  BY <1>2
<1>4. new \in [busy : BOOLEAN, count : Nat, started : Int, until : Int, at : Instants]
  BY <1>2, <1>3 DEF RateIInv, RateTypeOK
<1>5. /\ new.at = now /\ new.started \in {Keep, now}
      /\ new.until \in {Keep, Never, now + Block}
  OBVIOUS
<1>6. new.started # Keep /\ new.until = Keep => record.until = Never
  BY DEF RateIInv
<1> HIDE DEF new
<1>7. \A b \in Attempts : attempt'[b] = IF b = a THEN new ELSE attempt[b]
  BY <1>1 DEF RateIInv, RateTypeOK
<1>8. RateTypeOK'
  BY <1>1, <1>4 DEF RateIInv, RateTypeOK
<1>9. AttemptFits'
  BY <1>1, <1>2, <1>5, <1>7 DEF RateIInv, AttemptFits
<1>10. BlockOutlastsWindow'
  BY <1>1, <1>6, <1>7 DEF RateIInv, BlockOutlastsWindow
<1> QED
  BY <1>1, <1>8, <1>9, <1>10 DEF RateIInv

LEMMA CountKeeps ==
  ASSUME RateIInv, NEW a \in Attempts, Count(a)
  PROVE  RateIInv'
<1> DEFINE w == attempt[a]
<1>1. now' = now /\ attempt' = [attempt EXCEPT ![a] = NoAttempt]
  BY DEF Count
<1>2. \A b \in Attempts : attempt'[b] = IF b = a THEN NoAttempt ELSE attempt[b]
  BY <1>1 DEF RateIInv, RateTypeOK
<1>3. /\ w.busy /\ w.at \in Instants /\ w.count \in Nat /\ w.at <= now /\ now <= w.at + Hold
      /\ w.started \in {Keep, w.at} /\ w.until \in {Keep, Never, w.at + Block}
  BY DEF Count, RateIInv, RateTypeOK, AttemptFits
<1>4. /\ now \in Instants /\ record.started \in Instants /\ record.until \in Int
      /\ record.started <= now
  BY DEF RateIInv, RateTypeOK
<1>5. /\ record'.there /\ record'.count = w.count
      /\ record'.started = IF w.started = Keep THEN record.started ELSE w.started
      /\ record'.until = IF w.until = Keep THEN record.until ELSE w.until
      /\ record' \in [there : BOOLEAN, count : Nat, started : Instants, until : Int]
  BY <1>3, <1>4 DEF Count, RateIInv, RateTypeOK
<1>6. RateTypeOK'
  BY <1>1, <1>5 DEF RateIInv, RateTypeOK, NoAttempt
<1>7. AttemptFits'
  BY <1>1, <1>2 DEF RateIInv, AttemptFits, NoAttempt
<1>8. record'.started <= now'
  BY <1>1, <1>3, <1>4, <1>5
<1>9. BlockOutlastsWindow'
  <2> SUFFICES ASSUME record'.until # Never PROVE BlockOutlastsWindow'
    BY DEF BlockOutlastsWindow
  <2>1. CASE w.until = Keep
    BY <1>2, <1>3, <1>4, <1>5, <2>1 DEF RateIInv, BlockOutlastsWindow, NoAttempt
  <2>2. CASE w.until = w.at + Block
    <3>1. record'.started + Window <= record'.until + Hold
      BY <1>3, <1>4, <1>5, <2>2
    <3>2. ASSUME NEW b \in Attempts, attempt[b].busy, attempt[b].started # Keep
          PROVE  attempt[b].started + Window <= record'.until + Hold
      <4>1. attempt[b].started = attempt[b].at /\ attempt[b].at <= now /\ attempt[b].at \in Instants
        BY <3>2 DEF RateIInv, RateTypeOK, AttemptFits
      <4> QED
        BY <1>3, <1>4, <1>5, <2>2, <4>1
    <3> QED
      BY <1>2, <3>1, <3>2 DEF BlockOutlastsWindow, NoAttempt
  <2> QED
    BY <1>3, <1>5, <2>1, <2>2
<1> QED
  BY <1>5, <1>6, <1>7, <1>8, <1>9 DEF RateIInv

LEMMA RateStep == RateIInv /\ [RateNext]_rateVars => RateIInv'
<1> SUFFICES ASSUME RateIInv, [RateNext]_rateVars PROVE RateIInv'
  OBVIOUS
<1>1. ASSUME NEW a \in Attempts, Forget(a) PROVE RateIInv'
  <2>1. \A b \in Attempts : attempt'[b] = IF b = a THEN NoAttempt ELSE attempt[b]
    BY <1>1 DEF RateIInv, RateTypeOK, Forget
  <2> QED
    BY <1>1, <2>1 DEF RateIInv, RateTypeOK, Forget, AttemptFits, BlockOutlastsWindow, NoAttempt
<1>2. CASE RateTick
  BY <1>2 DEF RateIInv, RateTypeOK, RateTick, AttemptFits, BlockOutlastsWindow
<1>3. CASE UNCHANGED rateVars
  BY <1>3 DEF rateVars, RateIInv, RateTypeOK, AttemptFits, BlockOutlastsWindow, WindowOver
<1> QED
  BY <1>1, <1>2, <1>3, EnterKeeps, CountKeeps DEF RateNext

\* For every rule whose window is no longer than its block: who has waited out a
\* block is not refused for the attempts that led to it (_enforce_rate_limit).
THEOREM BlockEndsAlways == RateSpec => []BlockEnds
<1>1. RateIInv => BlockEnds
  BY DEF RateIInv, RateTypeOK, BlockOutlastsWindow, BlockEnds, WindowOver
<1> QED
  BY <1>1, RateInitial, RateStep, PTL DEF RateSpec

-----------------------------------------------------------------------------
(* Addresses *)

\* A deletion and a request that makes the same address the default have been
\* noted when both are in flight.
CrossingIsNoted ==
  \A g, h \in DOMAIN visit :
    visit[g].op = "delete" /\ Makes(visit[h], visit[g].at) => visit[g].at \in torn

\* A request that has found its address can rely on it, unless that is noted.
FoundIsKept ==
  \A h \in DOMAIN visit :
    LET w == visit[h] IN
    /\ w.step # "arrived" => w.at \in DOMAIN book /\ book[w.at].owner = w.who
    /\ w.step # "arrived" /\ Makes(w, w.at) => Found(w.who, w.at) \/ w.at \in torn
    /\ w.op \in {"edit", "delete", "pick"} => w.at \in DOMAIN book
    /\ w.step = "written" => w.wish # "keep"

\* A deletion knows that its address is the default, unless that is noted.
DeletionKnows ==
  \A h \in DOMAIN visit :
    LET w == visit[h] IN
    w.op = "delete" /\ standard[w.who] = w.at => w.had = w.at \/ w.at \in torn

DefaultIsFound ==
  \A c \in Customers :
    standard[c] = 0 \/ Found(c, standard[c]) \/ standard[c] \in torn

AddressIInv == AddressTypeOK /\ CrossingIsNoted /\ FoundIsKept /\ DeletionKnows /\ DefaultIsFound

USE MaxAddressesAssumption DEF AddressIds

LEMMA AddressInitial == AddressInit => AddressIInv
BY DEF AddressInit, AddressIInv, AddressTypeOK, CrossingIsNoted, FoundIsKept, DeletionKnows,
       DefaultIsFound

\* Rows stay where they are; only a deletion makes one inactive.
LEMMA NotedKeeps ==
  ASSUME Noted, \A h \in DOMAIN visit' : visit'[h].op = "delete" => visit'[h].at \in AddressIds
  PROVE  torn \subseteq torn' /\ CrossingIsNoted'
BY DEF Noted, CrossingIsNoted, Makes

LEMMA NotedType ==
  ASSUME AddressTypeOK, Noted
  PROVE  torn' \subseteq AddressIds
BY DEF AddressTypeOK, Noted

\* Leaving disturbs nothing that is said about the others.
LEMMA LeftKeeps ==
  ASSUME NEW h \in DOMAIN visit, Left(h)
  PROVE  /\ DOMAIN visit' = DOMAIN visit \ {h}
         /\ \A g \in DOMAIN visit' : visit'[g] = visit[g]
BY DEF Left

LEMMA ReachesKeeps ==
  ASSUME NEW h \in DOMAIN visit, NEW w, Reaches(h, w)
  PROVE  /\ DOMAIN visit' = DOMAIN visit
         /\ visit'[h] = w
         /\ \A g \in DOMAIN visit' \ {h} : visit'[g] = visit[g]
BY DEF Reaches

LEMMA BookDomain ==
  ASSUME AddressTypeOK
  PROVE  DOMAIN book = 1..Len(book) /\ Len(book) \in 0..MaxAddresses /\ DOMAIN book \subseteq AddressIds
BY DEF AddressTypeOK

LEMMA DeletionsName ==
  ASSUME AddressIInv
  PROVE  \A h \in DOMAIN visit : visit[h].op = "delete" => visit[h].at \in AddressIds
BY BookDomain DEF AddressIInv, FoundIsKept

LEMMA ArriveKeeps ==
  ASSUME AddressIInv, NEW h \in Visits, NEW c \in Customers, NEW op, NEW a \in 0..MaxAddresses,
         NEW wish, op \in {"create", "edit", "delete", "pick", "clear", "close"},
         wish \in {"default", "not", "keep"}, Arrive(h, c, op, a, wish)
  PROVE  AddressIInv'
<1> DEFINE new == [op |-> op, who |-> c, at |-> IF a \in DOMAIN book THEN a ELSE 0, had |-> standard[c],
                   wish |-> wish, step |-> "arrived"]
<1>1. /\ DOMAIN visit' = DOMAIN visit \cup {h} /\ visit'[h] = new
      /\ \A g \in DOMAIN visit : visit'[g] = visit[g]
      /\ book' = book /\ standard' = standard /\ open' = open /\ Noted
  BY DEF Arrive
<1>2. new \in Visit
  BY DEF AddressIInv, AddressTypeOK, Visit
<1>3. /\ new.step = "arrived" /\ new.had = standard[new.who]
      /\ new.op \in {"edit", "delete", "pick"} => new.at \in DOMAIN book
  BY DEF Arrive
<1> HIDE DEF new
<1>4. AddressTypeOK'
  BY <1>1, <1>2, NotedType DEF AddressIInv, AddressTypeOK
<1>5. \A g \in DOMAIN visit' : visit'[g].op = "delete" => visit'[g].at \in AddressIds
  BY <1>1, <1>3 DEF AddressIInv, AddressTypeOK, FoundIsKept
<1>6. torn \subseteq torn' /\ CrossingIsNoted'
  BY <1>1, <1>5, NotedKeeps
<1>7. FoundIsKept'
  BY <1>1, <1>3, <1>6 DEF AddressIInv, FoundIsKept, Found, Makes
<1>8. DeletionKnows' /\ DefaultIsFound'
  BY <1>1, <1>3, <1>6 DEF AddressIInv, DeletionKnows, DefaultIsFound, Found
<1> QED
  BY <1>4, <1>6, <1>7, <1>8 DEF AddressIInv

\* A request that leaves and writes nothing.
LEMMA LeavingKeeps ==
  ASSUME AddressIInv, NEW h \in DOMAIN visit, Left(h), Noted,
         book' = book, standard' = standard, open' \subseteq open
  PROVE  AddressIInv'
<1>1. /\ DOMAIN visit' = DOMAIN visit \ {h}
      /\ \A g \in DOMAIN visit' : visit'[g] = visit[g]
  BY LeftKeeps
<1>2. \A g \in DOMAIN visit' : visit'[g].op = "delete" => visit'[g].at \in AddressIds
  BY <1>1, DeletionsName
<1>3. torn \subseteq torn' /\ CrossingIsNoted'
  BY <1>2, NotedKeeps
<1>4. AddressTypeOK'
  BY <1>1, NotedType DEF AddressIInv, AddressTypeOK
<1>5. FoundIsKept' /\ DeletionKnows' /\ DefaultIsFound'
  BY <1>1, <1>3 DEF AddressIInv, FoundIsKept, DeletionKnows, DefaultIsFound, Found, Makes
<1> QED
  BY <1>3, <1>4, <1>5 DEF AddressIInv

\* A request that goes on with the address it has found.
LEMMA GoingOnKeeps ==
  ASSUME AddressIInv, NEW h \in DOMAIN visit, NEW step \in {"looked", "written"},
         visit[h].step # "arrived" \/ Found(visit[h].who, visit[h].at),
         step = "written" => visit[h].wish # "keep",
         Reaches(h, [visit[h] EXCEPT !.step = step]), Noted,
         book' = book, standard' = standard, open' = open
  PROVE  AddressIInv'
<1> DEFINE w == visit[h]
           new == [w EXCEPT !.step = step]
<1>1. /\ w \in Visit /\ new \in Visit /\ new.op = w.op /\ new.who = w.who /\ new.at = w.at
      /\ new.had = w.had /\ new.wish = w.wish
      /\ new.step = step
  BY DEF AddressIInv, AddressTypeOK, Visit
<1>2. Reaches(h, new)
  OBVIOUS
<1> HIDE DEF new
<1>3. /\ DOMAIN visit' = DOMAIN visit /\ visit'[h] = new
      /\ \A g \in DOMAIN visit' \ {h} : visit'[g] = visit[g]
  BY <1>2, ReachesKeeps
<1>4. \A g \in DOMAIN visit' : visit'[g].op = "delete" => visit'[g].at \in AddressIds
  BY <1>1, <1>3, DeletionsName
<1>5. torn \subseteq torn' /\ CrossingIsNoted'
  BY <1>4, NotedKeeps
<1>6. AddressTypeOK'
  BY <1>1, <1>3, NotedType DEF AddressIInv, AddressTypeOK
<1>7. FoundIsKept'
  BY <1>1, <1>3, <1>5 DEF AddressIInv, FoundIsKept, Found, Makes
<1>8. DeletionKnows' /\ DefaultIsFound'
  BY <1>1, <1>3, <1>5 DEF AddressIInv, DeletionKnows, DefaultIsFound, Found
<1> QED
  BY <1>5, <1>6, <1>7, <1>8 DEF AddressIInv

LEMMA FindAddressKeeps ==
  ASSUME AddressIInv, NEW h \in DOMAIN visit, FindAddress(h)
  PROVE  AddressIInv'
BY LeavingKeeps, GoingOnKeeps DEF FindAddress

LEMMA ChangeAddressKeeps ==
  ASSUME AddressIInv, NEW h \in DOMAIN visit, ChangeAddress(h)
  PROVE  AddressIInv'
<1>1. /\ Noted /\ book' = book /\ standard' = standard /\ open' = open
      /\ visit[h].step = "looked"
      /\ Left(h) \/ (visit[h].wish # "keep" /\ Reaches(h, [visit[h] EXCEPT !.step = "written"]))
  BY DEF ChangeAddress
<1>2. visit[h].step # "arrived"
  BY <1>1
<1> QED
  BY <1>1, <1>2, LeavingKeeps, GoingOnKeeps

LEMMA SaveAddressKeeps ==
  ASSUME AddressIInv, NEW h \in DOMAIN visit, SaveAddress(h)
  PROVE  AddressIInv'
<1> DEFINE w == visit[h]
           row == [owner |-> w.who, is_active |-> TRUE]
<1>1. /\ book' = Append(book, row) /\ standard' = standard /\ open' = open /\ Noted /\ w \in Visit
      /\ w.op = "create" /\ Len(book) < MaxAddresses
  BY DEF SaveAddress, AddressIInv, AddressTypeOK
<1>2. row \in AddressRow /\ row.owner = w.who /\ row.is_active
  BY <1>1 DEF Visit, AddressRow
<1> HIDE DEF row
<1>3. book \in Seq(AddressRow) /\ Len(book) \in Nat
  BY DEF AddressIInv, AddressTypeOK
<1>4. /\ book' \in Seq(AddressRow) /\ Len(book') = Len(book) + 1
      /\ DOMAIN book' = 1..(Len(book) + 1) /\ DOMAIN book = 1..Len(book)
      /\ book'[Len(book) + 1] = row /\ \A a \in DOMAIN book : book'[a] = book[a]
  BY <1>1, <1>2, <1>3
\* What was found stays found.
<1>5. \A c, a : Found(c, a) => Found(c, a)'
  BY <1>3, <1>4 DEF Found
<1>6. DOMAIN book \subseteq DOMAIN book'
  BY <1>3, <1>4
<1>7. standard' \in [Customers -> 0..Len(book')] /\ Len(book') <= MaxAddresses
  BY <1>1, <1>3, <1>4 DEF AddressIInv, AddressTypeOK
<1>8. CASE w.wish # "default" /\ Left(h)
  <2>1. /\ DOMAIN visit' = DOMAIN visit \ {h}
        /\ \A g \in DOMAIN visit' : visit'[g] = visit[g]
    BY <1>8, LeftKeeps
  <2>2. torn \subseteq torn' /\ CrossingIsNoted'
    BY <1>1, <2>1, DeletionsName, NotedKeeps
  <2>3. AddressTypeOK'
    BY <1>1, <1>4, <1>7, <2>1, NotedType DEF AddressIInv, AddressTypeOK
  <2>4. FoundIsKept'
    BY <1>4, <1>5, <1>6, <2>1, <2>2 DEF AddressIInv, FoundIsKept, Makes
  <2>5. DeletionKnows' /\ DefaultIsFound'
    BY <1>1, <1>5, <2>1, <2>2 DEF AddressIInv, DeletionKnows, DefaultIsFound
  <2> QED
    BY <2>2, <2>3, <2>4, <2>5 DEF AddressIInv
<1>9. CASE w.wish = "default" /\ Reaches(h, [w EXCEPT !.at = Len(book) + 1, !.step = "written"])
  <2> PICK new : new = [w EXCEPT !.at = Len(book) + 1, !.step = "written"]
    OBVIOUS
  <2>a. Len(book) + 1 \in 0..MaxAddresses
    BY <1>1, <1>3
  <2>1. /\ new \in Visit /\ new.op = "create" /\ new.who = w.who /\ new.at = Len(book) + 1
        /\ new.step = "written" /\ new.wish = w.wish
    BY <1>1, <2>a DEF Visit
  <2>2. /\ DOMAIN visit' = DOMAIN visit /\ visit'[h] = new
        /\ \A g \in DOMAIN visit' \ {h} : visit'[g] = visit[g]
    BY <1>9, ReachesKeeps
  <2>3. \A g \in DOMAIN visit' : visit'[g].op = "delete" => visit'[g].at \in AddressIds
    BY <2>1, <2>2, DeletionsName
  <2>4. torn \subseteq torn' /\ CrossingIsNoted'
    BY <1>1, <2>3, NotedKeeps
  <2>5. AddressTypeOK'
    BY <1>1, <1>4, <1>7, <2>1, <2>2, NotedType DEF AddressIInv, AddressTypeOK
  <2>6. Found(new.who, new.at)'
    BY <1>2, <1>3, <1>4, <2>1 DEF Found
  <2>7. FoundIsKept'
    <3> SUFFICES ASSUME NEW g \in DOMAIN visit, NEW v, v = visit'[g]
                 PROVE  /\ v.step # "arrived" => v.at \in DOMAIN book' /\ book'[v.at].owner = v.who
                        /\ v.step # "arrived" /\ Makes(v, v.at) => Found(v.who, v.at)' \/ v.at \in torn'
                        /\ v.op \in {"edit", "delete", "pick"} => v.at \in DOMAIN book'
                        /\ v.step = "written" => v.wish # "keep"
      BY <2>2 DEF FoundIsKept, Found, Makes
    <3>1. CASE g = h
      <4>1. v = new
        BY <2>2, <3>1
      <4>2. book'[v.at].owner = v.who /\ v.at \in DOMAIN book'
        BY <1>2, <1>3, <1>4, <2>1, <4>1
      <4> QED
        BY <1>9, <2>1, <2>6, <4>1, <4>2
    <3>2. CASE g # h
      <4>1. visit[g] = v
        BY <2>2, <3>2
      <4>2. /\ v.step # "arrived" => v.at \in DOMAIN book /\ book[v.at].owner = v.who
            /\ v.step # "arrived" /\ Makes(v, v.at) => Found(v.who, v.at) \/ v.at \in torn
            /\ v.op \in {"edit", "delete", "pick"} => v.at \in DOMAIN book
            /\ v.step = "written" => v.wish # "keep"
        BY <4>1 DEF AddressIInv, FoundIsKept
      <4>3. Found(v.who, v.at) => Found(v.who, v.at)'
        BY <1>5
      <4>4. v.step # "arrived" => v.at \in DOMAIN book' /\ book'[v.at].owner = v.who
        BY <1>4, <1>6, <4>2
      <4> QED
        BY <1>6, <2>4, <4>2, <4>3, <4>4
    <3> QED
      BY <3>1, <3>2
  <2>8. DeletionKnows' /\ DefaultIsFound'
    BY <1>1, <1>5, <2>1, <2>2, <2>4 DEF AddressIInv, DeletionKnows, DefaultIsFound
  <2> QED
    BY <2>4, <2>5, <2>7, <2>8 DEF AddressIInv
<1> QED
  BY <1>8, <1>9 DEF SaveAddress

LEMMA ProfileKeeps ==
  ASSUME AddressIInv, NEW h \in DOMAIN visit, ProfileCommit(h)
  PROVE  AddressIInv'
<1> DEFINE w == visit[h]
<1>1. /\ book' = book /\ open' = open /\ Noted /\ Left(h) /\ w \in Visit
  BY DEF ProfileCommit, AddressIInv, AddressTypeOK
<1>2. /\ DOMAIN visit' = DOMAIN visit \ {h}
      /\ \A g \in DOMAIN visit' : visit'[g] = visit[g]
  BY <1>1, LeftKeeps
<1>3. torn \subseteq torn' /\ CrossingIsNoted'
  BY <1>1, <1>2, DeletionsName, NotedKeeps
<1>4. \/ standard' = standard
      \/ standard' = [standard EXCEPT ![w.who] = 0]
      \/ /\ standard' = [standard EXCEPT ![w.who] = w.at] /\ Makes(w, w.at) /\ w.step # "arrived"
  <2>1. CASE w.op = "clear"
    BY <2>1 DEF ProfileCommit, Set
  <2>2. CASE w.op # "clear" /\ w.wish = "not"
    BY <2>2 DEF ProfileCommit, Set
  <2>3. CASE w.op # "clear" /\ w.wish # "not"
    <3>1. standard' = Set(w, w.at)
      BY <2>3 DEF ProfileCommit
    <3>a. \/ w.op \in {"create", "edit"} /\ w.step = "written"
          \/ w.op = "pick" /\ w.step = "looked"
          \/ w.op = "clear"
      BY DEF ProfileCommit
    <3>2. w.step # "arrived" /\ (w.op = "pick" \/ (w.op \in {"create", "edit"} /\ w.step = "written"))
      BY <2>3, <3>a
    <3>b. w.wish \in {"default", "not", "keep"}
      BY <1>1 DEF Visit
    <3>c. w.step = "written" => w.wish # "keep"
      BY DEF AddressIInv, FoundIsKept
    <3>3. Makes(w, w.at)
      BY <2>3, <3>2, <3>b, <3>c DEF Makes
    <3> QED
      BY <3>1, <3>2, <3>3 DEF Set
  <2> QED
    BY <2>1, <2>2, <2>3
<1>5. w.who \in Customers /\ standard \in [Customers -> 0..Len(book)] /\ Len(book) \in Nat
  BY <1>1 DEF AddressIInv, AddressTypeOK, Visit
<1>6. w.step # "arrived" => w.at \in 0..Len(book)
  BY <1>1, BookDomain DEF AddressIInv, FoundIsKept
<1>7. standard' \in [Customers -> 0..Len(book)]
  BY <1>4, <1>5, <1>6
<1>8. AddressTypeOK'
  BY <1>1, <1>2, <1>7, NotedType DEF AddressIInv, AddressTypeOK
<1>9. FoundIsKept'
  BY <1>1, <1>2, <1>3 DEF AddressIInv, FoundIsKept, Found, Makes
<1>10. DefaultIsFound'
  BY <1>1, <1>3, <1>4, <1>5 DEF AddressIInv, DefaultIsFound, FoundIsKept, Found
<1>11. DeletionKnows'
  <2> SUFFICES ASSUME NEW g \in DOMAIN visit', visit'[g].op = "delete",
                      standard'[visit'[g].who] = visit'[g].at
               PROVE  visit'[g].had = visit'[g].at \/ visit'[g].at \in torn'
    BY DEF DeletionKnows
  <2>1. visit'[g] = visit[g] /\ g \in DOMAIN visit /\ visit[g].at \in AddressIds
        /\ visit[g].who \in Customers
    BY <1>2, DeletionsName DEF AddressIInv, AddressTypeOK, Visit
  <2>2. CASE standard[visit[g].who] = visit[g].at
    BY <1>3, <2>1, <2>2 DEF AddressIInv, DeletionKnows
  <2>3. CASE standard[visit[g].who] # visit[g].at
    <3>1. visit[g].at = w.at /\ Makes(w, w.at)
      BY <1>4, <1>5, <2>1, <2>3
    <3> QED
      BY <1>3, <2>1, <3>1 DEF AddressIInv, CrossingIsNoted
  <2> QED
    BY <2>2, <2>3
<1> QED
  BY <1>3, <1>8, <1>9, <1>10, <1>11 DEF AddressIInv

LEMMA DeleteKeeps ==
  ASSUME AddressIInv, NEW h \in DOMAIN visit, DeleteCommit(h)
  PROVE  AddressIInv'
<1> DEFINE w == visit[h]
<1>1. /\ book' = [book EXCEPT ![w.at].is_active = FALSE] /\ open' = open /\ Noted /\ Left(h)
      /\ w \in Visit /\ w.op = "delete" /\ w.step # "arrived"
      /\ standard' = IF w.had = w.at THEN Set(w, 0) ELSE standard
  BY DEF DeleteCommit, AddressIInv, AddressTypeOK
<1>2. /\ DOMAIN visit' = DOMAIN visit \ {h}
      /\ \A g \in DOMAIN visit' : visit'[g] = visit[g]
  BY <1>1, LeftKeeps
<1>3. torn \subseteq torn' /\ CrossingIsNoted'
  BY <1>1, <1>2, DeletionsName, NotedKeeps
<1>4. w.at \in DOMAIN book /\ book[w.at].owner = w.who /\ w.at # 0 /\ w.who \in Customers
  BY <1>1, BookDomain DEF AddressIInv, FoundIsKept, Visit
<1>5. /\ book \in Seq(AddressRow) /\ DOMAIN book' = DOMAIN book /\ book' \in Seq(AddressRow)
      /\ Len(book') = Len(book)
      /\ \A a \in DOMAIN book : book'[a].owner = book[a].owner
      /\ \A a \in DOMAIN book : a # w.at => book'[a] = book[a]
  <2>1. book \in Seq(AddressRow)
    BY DEF AddressIInv, AddressTypeOK
  <2>a. book[w.at] \in AddressRow
    BY <1>4, <2>1
  <2>2. [book[w.at] EXCEPT !.is_active = FALSE] \in AddressRow
    BY <2>a DEF AddressRow
  <2>3. [book[w.at] EXCEPT !.is_active = FALSE].owner = book[w.at].owner
    BY <2>a DEF AddressRow
  <2> QED
    BY <1>1, <1>4, <2>1, <2>2, <2>3
<1>6. \A c, a : Found(c, a) /\ a # w.at => Found(c, a)'
  BY <1>5 DEF Found
<1>7. \/ standard' = standard /\ w.had # w.at
      \/ standard' = [standard EXCEPT ![w.who] = 0] /\ w.had = w.at
  BY <1>1, <1>4 DEF Set
<1>8. standard \in [Customers -> 0..Len(book)] /\ standard' \in [Customers -> 0..Len(book)]
  BY <1>4, <1>5, <1>7 DEF AddressIInv, AddressTypeOK
<1>9. AddressTypeOK'
  BY <1>1, <1>2, <1>5, <1>8, NotedType DEF AddressIInv, AddressTypeOK
<1>10. FoundIsKept'
  <2> SUFFICES ASSUME NEW g \in DOMAIN visit, visit'[g] = visit[g], g # h
               PROVE  LET v == visit[g] IN
                 /\ v.step # "arrived" => v.at \in DOMAIN book' /\ book'[v.at].owner = v.who
                 /\ v.step # "arrived" /\ Makes(v, v.at) => Found(v.who, v.at)' \/ v.at \in torn'
                 /\ v.op \in {"edit", "delete", "pick"} => v.at \in DOMAIN book'
                 /\ v.step = "written" => v.wish # "keep"
    BY <1>2 DEF FoundIsKept, Found, Makes
  <2>1. visit[g].at = w.at /\ Makes(visit[g], visit[g].at) => visit[g].at \in torn
    BY <1>1 DEF AddressIInv, CrossingIsNoted
  <2> QED
    BY <1>3, <1>5, <1>6, <2>1 DEF AddressIInv, FoundIsKept
<1>11. DeletionKnows'
  <2> SUFFICES ASSUME NEW g \in DOMAIN visit', visit'[g].op = "delete",
                      standard'[visit'[g].who] = visit'[g].at
               PROVE  visit'[g].had = visit'[g].at \/ visit'[g].at \in torn'
    BY DEF DeletionKnows
  <2>1. visit'[g] = visit[g] /\ g \in DOMAIN visit /\ visit[g].at \in AddressIds
        /\ visit[g].who \in Customers
    BY <1>2, DeletionsName DEF AddressIInv, AddressTypeOK, Visit
  <2>2. standard[visit[g].who] = visit[g].at
    BY <1>4, <1>7, <1>8, <2>1
  <2> QED
    BY <1>3, <2>1, <2>2 DEF AddressIInv, DeletionKnows
<1>12. DefaultIsFound'
  <2> SUFFICES ASSUME NEW c \in Customers
               PROVE  standard'[c] = 0 \/ Found(c, standard[c])' \/ standard'[c] \in torn'
    BY DEF DefaultIsFound, Found
  <2>1. standard'[c] = 0 \/ standard'[c] = standard[c]
    BY <1>4, <1>7, <1>8
  <2>2. CASE standard'[c] = standard[c] /\ standard[c] # w.at
    BY <1>3, <1>6, <2>2 DEF AddressIInv, DefaultIsFound
  <2>3. CASE standard'[c] = standard[c] /\ standard[c] = w.at
    <3>1. CASE w.at \in torn
      BY <1>3, <2>3, <3>1
    <3>2. CASE w.at \notin torn
      <4>1. c = w.who
        BY <1>4, <2>3, <3>2 DEF AddressIInv, DefaultIsFound, Found
      <4>2. w.had = w.at
        BY <1>1, <2>3, <3>2, <4>1 DEF AddressIInv, DeletionKnows
      <4> QED
        BY <1>7, <1>8, <2>3, <4>1, <4>2
    <3> QED
      BY <3>1, <3>2
  <2> QED
    BY <2>1, <2>2, <2>3
<1> QED
  BY <1>3, <1>9, <1>10, <1>11, <1>12 DEF AddressIInv

LEMMA AddressStep == AddressIInv /\ [AddressNext]_addressVars => AddressIInv'
<1> SUFFICES ASSUME AddressIInv, [AddressNext]_addressVars PROVE AddressIInv'
  OBVIOUS
<1>1. ASSUME NEW h \in DOMAIN visit, CloseCommit(h) PROVE AddressIInv'
  BY <1>1, LeavingKeeps DEF CloseCommit
<1>2. CASE UNCHANGED addressVars
  BY <1>2 DEF addressVars, AddressIInv, AddressTypeOK, CrossingIsNoted, FoundIsKept, DeletionKnows,
     DefaultIsFound, Found, Makes
<1> QED
  BY <1>1, <1>2, ArriveKeeps, FindAddressKeeps, SaveAddressKeeps, ChangeAddressKeeps, ProfileKeeps,
     DeleteKeeps DEF AddressNext

\* For every number of requests: a default address that is not shown was
\* deleted and made the default by requests served at one time.
THEOREM DefaultPerOverlapAlways == AddressSpec => []DefaultPerOverlap
<1>1. AddressIInv => DefaultPerOverlap
  BY BookDomain DEF AddressIInv, DefaultIsFound, DefaultPerOverlap, Profile, Found
<1> QED
  BY <1>1, AddressInitial, AddressStep, PTL DEF AddressSpec

-----------------------------------------------------------------------------
(* Realtime *)


Closing(p) == publisher[p].at = "closing"

\* A stopped bus is at rest and a connected one does not reconnect; who is taking
\* the connection down does so alone, and nobody reconnects until that is done.
\* Nobody has published before the first connection.
OneAtATime ==
  /\ ~bus.started => retry = "none" /\ ~bus.connected
  /\ bus.connected => retry = "none"
  /\ \A p \in Publishers : Closing(p) => retry = "none" /\ ~bus.connected
  /\ \A p, q \in Publishers : Closing(p) /\ Closing(q) => p = q
  /\ links = 0 => ~bus.connected /\ \A p \in Publishers : publisher[p].at = "idle"

BusIInv == BusTypeOK /\ OneAtATime /\ ReconnectUnderWay /\ ListenerIsCurrent

BusRow == [started : BOOLEAN, connected : BOOLEAN, link : Links \cup {NoLink}]
PublisherRow == [at : {"idle", "sending", "closing"}, link : Links \cup {NoLink}]

LEMMA BusInitial == BusInit => BusIInv
<1> SUFFICES ASSUME BusInit PROVE BusIInv
  OBVIOUS
<1>1. BusTypeOK
  BY LinksAssumption DEF BusInit, BusTypeOK, Quiet, Links, NoLink
<1>2. OneAtATime /\ ReconnectUnderWay /\ ListenerIsCurrent
  BY DEF BusInit, OneAtATime, Closing, Quiet, ReconnectUnderWay, ListenerIsCurrent
<1> QED
  BY <1>1, <1>2 DEF BusIInv

\* Steps of publishers, sockets and Redis that leave the bus as it is.
LEMMA SendsKeep ==
  ASSUME BusIInv, NEW p \in Publishers, NEW k \in PublisherRow, k.at # "closing", ~Closing(p),
         bus.connected \/ k.at = "idle",
         publisher' = [publisher EXCEPT ![p] = k],
         UNCHANGED <<redis, bus, links, dead, listener, retry, socket, registry>>
  PROVE  BusIInv'
<1>1. /\ publisher' \in [Publishers -> PublisherRow]
      /\ \A q \in Publishers : publisher'[q].at = "closing" <=> Closing(q)
      /\ \A q \in Publishers : publisher'[q].at = IF q = p THEN k.at ELSE publisher[q].at
  BY DEF BusIInv, BusTypeOK, PublisherRow, Closing
<1>2. BusTypeOK'
  BY <1>1 DEF BusIInv, BusTypeOK, PublisherRow
<1>3. OneAtATime'
  BY <1>1 DEF BusIInv, OneAtATime, Closing
<1>4. ReconnectUnderWay' /\ ListenerIsCurrent'
  BY <1>1 DEF BusIInv, ReconnectUnderWay, ListenerIsCurrent, Closing
<1> QED
  BY <1>2, <1>3, <1>4 DEF BusIInv

LEMMA ConnectingKeeps ==
  ASSUME BusIInv, StartBus \/ WakeUp \/ ConnectFails
  PROVE  BusIInv'
<1>1. BusTypeOK'
  <2>1. bus \in BusRow
    BY DEF BusIInv, BusTypeOK, BusRow
  <2>2. bus' \in BusRow
    BY <2>1 DEF BusRow, StartBus, WakeUp, ConnectFails
  <2>3. /\ retry' \in {"boot", "connecting", "sleeping"}
        /\ UNCHANGED <<redis, links, dead, listener, publisher, socket, registry>>
    BY DEF StartBus, WakeUp, ConnectFails
  <2> QED
    BY <2>2, <2>3 DEF BusIInv, BusTypeOK, BusRow
<1>2. OneAtATime'
  <2>1. CASE StartBus
    <3>1. /\ links = 0 /\ ~bus.connected /\ \A p \in Publishers : publisher[p].at = "idle"
      BY <2>1 DEF StartBus, BusIInv, OneAtATime
    <3>2. bus'.started /\ ~bus'.connected
      BY <2>1, <3>1 DEF StartBus, BusIInv, BusTypeOK
    <3> QED
      BY <2>1, <3>1, <3>2 DEF StartBus, OneAtATime, Closing
  <2>2. CASE WakeUp \/ ConnectFails
    BY <2>2 DEF BusIInv, OneAtATime, Closing, WakeUp, ConnectFails
  <2> QED
    BY <2>1, <2>2
<1>3. ReconnectUnderWay' /\ ListenerIsCurrent'
  BY DEF BusIInv, BusTypeOK, ReconnectUnderWay, ListenerIsCurrent, StartBus, WakeUp, ConnectFails
<1> QED
  BY <1>1, <1>2, <1>3 DEF BusIInv

LEMMA ConnectKeeps ==
  ASSUME BusIInv, Connect
  PROVE  BusIInv'
<1>1. links + 1 \in Links /\ links + 1 # NoLink
  BY LinksAssumption DEF Connect, BusIInv, BusTypeOK, Links, NoLink
<1>2. bus' \in BusRow /\ bus'.started = bus.started /\ bus'.connected /\ bus'.link = links + 1
  BY <1>1 DEF Connect, BusIInv, BusTypeOK, BusRow
<1>3. bus.started /\ \A p \in Publishers : ~Closing(p)
  BY DEF Connect, BusIInv, OneAtATime
<1>4. BusTypeOK'
  BY <1>1, <1>2 DEF Connect, BusIInv, BusTypeOK, BusRow
<1>5. OneAtATime'
  BY <1>1, <1>2, <1>3 DEF Connect, OneAtATime, Closing, NoLink
<1>6. ReconnectUnderWay' /\ ListenerIsCurrent'
  BY <1>1, <1>2 DEF Connect, ReconnectUnderWay, ListenerIsCurrent
<1> QED
  BY <1>4, <1>5, <1>6 DEF BusIInv

LEMMA LossKeeps ==
  ASSUME BusIInv, ListenerLoses
  PROVE  BusIInv'
<1>1. listener # NoLink
  BY LinksAssumption DEF ListenerLoses, BusIInv, BusTypeOK, Links, NoLink
<1>2. /\ bus.connected /\ bus.started /\ retry = "none" /\ links # 0
      /\ \A p \in Publishers : ~Closing(p)
  BY <1>1 DEF BusIInv, ListenerIsCurrent, OneAtATime, BusTypeOK
<1>3. /\ bus' \in BusRow /\ bus'.started /\ ~bus'.connected
      /\ retry' = "sleeping" /\ listener' = NoLink
      /\ UNCHANGED <<redis, links, dead, publisher, socket, registry>>
  BY <1>2 DEF ListenerLoses, Scheduled, BusIInv, BusTypeOK, BusRow
<1>4. BusTypeOK'
  BY <1>3 DEF BusIInv, BusTypeOK, BusRow
<1>5. OneAtATime'
  BY <1>2, <1>3 DEF OneAtATime, Closing
<1>6. ReconnectUnderWay' /\ ListenerIsCurrent'
  BY <1>3 DEF ReconnectUnderWay, ListenerIsCurrent
<1> QED
  BY <1>4, <1>5, <1>6 DEF BusIInv

LEMMA PublishFailsKeeps ==
  ASSUME BusIInv, NEW p \in Publishers, PublishFails(p)
  PROVE  BusIInv'
<1>1. CASE ~bus.connected
  <2>1. Quiet \in PublisherRow /\ Quiet.at = "idle" /\ ~Closing(p)
    BY DEF Quiet, PublisherRow, PublishFails, Closing
  <2> QED
    BY <1>1, <2>1, SendsKeep DEF PublishFails
<1>2. CASE bus.connected
  <2>1. bus.started /\ retry = "none" /\ links # 0 /\ \A q \in Publishers : ~Closing(q)
    BY <1>2 DEF BusIInv, OneAtATime
  <2>2. /\ bus' = [bus EXCEPT !.connected = FALSE] /\ listener' = NoLink
        /\ publisher' = [publisher EXCEPT ![p].at = "closing"]
        /\ UNCHANGED <<redis, links, dead, retry, socket, registry>>
    BY <1>2 DEF PublishFails
  <2>3. bus' \in BusRow /\ ~bus'.connected
    BY <2>2 DEF BusIInv, BusTypeOK, BusRow
  <2>4. /\ publisher' \in [Publishers -> PublisherRow]
        /\ \A q \in Publishers : publisher'[q].at = "closing" <=> q = p
    BY <2>1, <2>2 DEF BusIInv, BusTypeOK, PublisherRow, Closing
  <2>5. BusTypeOK'
    BY <2>2, <2>3, <2>4 DEF BusIInv, BusTypeOK, BusRow, PublisherRow
  <2>6. OneAtATime'
    BY <2>1, <2>2, <2>3, <2>4 DEF OneAtATime, Closing
  <2>7. ReconnectUnderWay' /\ ListenerIsCurrent'
    BY <2>2, <2>3, <2>4 DEF ReconnectUnderWay, ListenerIsCurrent
  <2> QED
    BY <2>5, <2>6, <2>7 DEF BusIInv
<1> QED
  BY <1>1, <1>2

LEMMA ClosedKeeps ==
  ASSUME BusIInv, NEW p \in Publishers, Closed(p)
  PROVE  BusIInv'
<1>1. Closing(p) /\ retry = "none" /\ ~bus.connected /\ listener = NoLink /\ links # 0
  BY DEF Closed, Closing, BusIInv, OneAtATime, ListenerIsCurrent
<1>2. /\ publisher' = [publisher EXCEPT ![p] = Quiet] /\ bus' = [bus EXCEPT !.link = NoLink]
      /\ retry' = IF bus.started THEN "sleeping" ELSE "none"
      /\ UNCHANGED <<redis, links, dead, listener, socket, registry>>
  BY <1>1 DEF Closed, Scheduled
<1>3. bus' \in BusRow /\ bus'.started = bus.started /\ ~bus'.connected
  BY <1>1, <1>2 DEF BusIInv, BusTypeOK, BusRow
<1>4. /\ publisher' \in [Publishers -> PublisherRow]
      /\ \A q \in Publishers : publisher'[q].at # "closing"
  BY <1>1, <1>2 DEF BusIInv, BusTypeOK, OneAtATime, PublisherRow, Closing, Quiet
<1>5. BusTypeOK'
  BY <1>2, <1>3, <1>4 DEF BusIInv, BusTypeOK, BusRow, PublisherRow
<1>6. OneAtATime'
  BY <1>1, <1>2, <1>3, <1>4 DEF OneAtATime, Closing
<1>7. ReconnectUnderWay' /\ ListenerIsCurrent'
  BY <1>1, <1>2, <1>3 DEF ReconnectUnderWay, ListenerIsCurrent
<1> QED
  BY <1>5, <1>6, <1>7 DEF BusIInv

LEMMA StopKeeps ==
  ASSUME BusIInv, StopBus
  PROVE  BusIInv'
<1>1. /\ ~bus'.started /\ ~bus'.connected /\ bus' \in BusRow
      /\ retry' = "none" /\ listener' = NoLink
      /\ UNCHANGED <<redis, links, dead, publisher, socket, registry>>
  BY DEF StopBus, BusRow
<1>2. BusTypeOK'
  BY <1>1 DEF BusIInv, BusTypeOK, BusRow
<1>3. OneAtATime'
  BY <1>1 DEF BusIInv, OneAtATime, Closing
<1>4. ReconnectUnderWay' /\ ListenerIsCurrent'
  BY <1>1 DEF ReconnectUnderWay, ListenerIsCurrent
<1> QED
  BY <1>2, <1>3, <1>4 DEF BusIInv

LEMMA OutsideKeeps ==
  ASSUME BusIInv,
         \/ \E s \in Sockets : OpenSocket(s) \/ SocketBreaks(s) \/ SocketLeaves(s)
         \/ \E up \in BOOLEAN : RedisTurns(up)
         \/ UNCHANGED busVars
  PROVE  BusIInv'
<1>1. UNCHANGED <<bus, links, listener, retry, publisher>>
  BY DEF OpenSocket, SocketBreaks, SocketLeaves, RedisTurns, busVars
<1>2. dead' \subseteq Links
  <2>1. 1..links \subseteq Links
    BY LinksAssumption DEF BusIInv, BusTypeOK, Links
  <2> QED
    BY <2>1 DEF BusIInv, BusTypeOK, OpenSocket, SocketBreaks, SocketLeaves, RedisTurns, busVars
<1>3. redis' \in BOOLEAN /\ registry' \subseteq Sockets
  BY DEF BusIInv, BusTypeOK, OpenSocket, SocketBreaks, SocketLeaves, RedisTurns, busVars
<1>4. socket' \in [Sockets -> {"new", "open", "broken", "closed"}]
  BY DEF BusIInv, BusTypeOK, OpenSocket, SocketBreaks, SocketLeaves, RedisTurns, busVars
<1> QED
  BY <1>1, <1>2, <1>3, <1>4 DEF BusIInv, BusTypeOK, OneAtATime, Closing, ReconnectUnderWay, ListenerIsCurrent

LEMMA BusMoves == BusIInv /\ [BusNext]_busVars => BusIInv'
<1> SUFFICES ASSUME BusIInv, [BusNext]_busVars PROVE BusIInv'
  OBVIOUS
<1>1. ASSUME NEW p \in Publishers, Publish(p) \/ Published(p) PROVE BusIInv'
  <2>1. PICK k \in PublisherRow : /\ k.at # "closing" /\ (bus.connected \/ k.at = "idle")
                               /\ publisher' = [publisher EXCEPT ![p] = k]
    BY <1>1 DEF Publish, Published, Quiet, PublisherRow, BusIInv, BusTypeOK
  <2>2. ~Closing(p) /\ UNCHANGED <<redis, bus, links, dead, listener, retry, socket, registry>>
    BY <1>1 DEF Publish, Published, Quiet, Closing
  <2> QED
    BY <2>1, <2>2, SendsKeep
<1> QED
  BY <1>1, ConnectingKeeps, ConnectKeeps, LossKeeps, PublishFailsKeeps, ClosedKeeps, StopKeeps,
     OutsideKeeps DEF BusNext, BusStep

\* No interleaving of publishers, listener and reconnect task leaves a bus that
\* should run disconnected with nobody to reconnect it (_schedule_reconnect).
THEOREM ReconnectUnderWayAlways == BusSpec => []ReconnectUnderWay
<1>1. BusIInv => ReconnectUnderWay
  BY DEF BusIInv
<1> QED
  BY <1>1, BusInitial, BusMoves, PTL DEF BusSpec

\* The listener reads the connection that the bus publishes on, and there is none
\* when the bus is not connected (_connect_once, _disconnect, _listen_loop).
THEOREM ListenerIsCurrentAlways == BusSpec => []ListenerIsCurrent
<1>1. BusIInv => ListenerIsCurrent
  BY DEF BusIInv
<1> QED
  BY <1>1, BusInitial, BusMoves, PTL DEF BusSpec

-----------------------------------------------------------------------------
(* Notices *)

Telling == {"row", "insert", "update", "push", "sync"}
RowIsThere == {"push", "sync", "over", "died"}

\* The request s has made the row of p, or does not tell p.
Did(s, p) ==
  /\ errand[s].at # "new"
  /\ p \in errand[s].left => p = Turn(errand[s].left) /\ errand[s].at \in RowIsThere

\* Every row of the inbox was made by a request that is past it.
RowsMade ==
  \A p \in Party, k \in Keys :
    <<p, k>> \in inbox => \E r \in Errands : KeyOf(r) = k /\ Did(r, p)

\* Who is telling has somebody left to tell.
SomebodyLeft == \A s \in Errands : errand[s].at \in Telling => errand[s].left # {}

Cause(s) ==
  \/ errand[s].missed
  \/ \E r \in Errands \ {s} :
       /\ errand[r].at # "new"
       /\ KeyOf(r) = KeyOf(s) /\ <<Turn(errand[s].left), KeyOf(s)>> \in inbox

CausesLast == \A s \in Errands : errand[s].at = "over" /\ errand[s].left # {} => Cause(s)

NoticeIInv == NoticeTypeOK /\ RowsMade /\ SomebodyLeft /\ CausesLast

LEMMA TurnIsLeft == ASSUME NEW left \in SUBSET Party, left # {} PROVE Turn(left) \in left
BY DEF Turn, Party

LEMMA TurnIsParty == ASSUME NEW left PROVE Turn(left) \in Party
BY DEF Turn, Party

LEMMA NoticeInitial == NoticeInit => NoticeIInv
<1> SUFFICES ASSUME NoticeInit PROVE NoticeIInv
  OBVIOUS
<1>1. (CHOOSE e \in Endpoints : TRUE) \in Endpoints
  BY EndpointsAssumption
<1> QED
  BY <1>1 DEF NoticeInit, NoticeIInv, NoticeTypeOK, RowsMade, SomebodyLeft, CausesLast,
              ErrandState, Telling

\* A request goes on: what it did it has done, and what made a row lasts.
LEMMA ErrandMoves ==
  ASSUME NoticeIInv, NEW s \in Errands, NEW v,
         v \in [at : ErrandState, endpoint : Endpoints, left : SUBSET Party, missed : BOOLEAN],
         errand' = [errand EXCEPT ![s] = v], UNCHANGED broker,
         inbox' \in SUBSET (Party \X Keys), inbox \subseteq inbox', v.at # "new",
         errand[s].at # "new" => v.endpoint = errand[s].endpoint /\ \A p \in Party : Did(s, p) => Did(s, p)',
         v.at \in Telling => v.left # {},
         errand[s].at # "over",
         v.at = "over" /\ v.left # {} => Cause(s)',
         \A p \in Party, k \in Keys : <<p, k>> \in inbox' \ inbox =>
           k = EventKey(v.endpoint) /\ Did(s, p)'
  PROVE  NoticeIInv'
<1>1. /\ errand \in [Errands ->
           [at : ErrandState, endpoint : Endpoints, left : SUBSET Party, missed : BOOLEAN]]
      /\ \A r \in Errands : (errand')[r] = IF r = s THEN v ELSE errand[r]
  BY DEF NoticeIInv, NoticeTypeOK
<1>2. NoticeTypeOK'
  BY <1>1 DEF NoticeIInv, NoticeTypeOK
<1>3. ASSUME NEW r \in Errands, errand[r].at # "new"
      PROVE  /\ KeyOf(r)' = KeyOf(r) /\ (errand')[r].at # "new"
             /\ \A p \in Party : Did(r, p) => Did(r, p)'
  <2>1. CASE r = s
    BY <1>1, <1>3, <2>1 DEF KeyOf
  <2>2. CASE r # s
    BY <1>1, <1>3, <2>2 DEF KeyOf, Did
  <2> QED BY <2>1, <2>2
<1>4. ASSUME NEW p \in Party, NEW k \in Keys, <<p, k>> \in inbox'
      PROVE  \E r \in Errands : KeyOf(r)' = k /\ Did(r, p)'
  <2>1. CASE <<p, k>> \in inbox
    <3>1. PICK r \in Errands : KeyOf(r) = k /\ Did(r, p)
      BY <2>1 DEF NoticeIInv, RowsMade
    <3>2. errand[r].at # "new"
      BY <3>1 DEF Did
    <3> QED BY <1>3, <3>1, <3>2
  <2>2. CASE <<p, k>> \notin inbox
    BY <1>1, <1>4, <2>2 DEF KeyOf
  <2> QED BY <2>1, <2>2
<1>5. SomebodyLeft'
  BY <1>1 DEF NoticeIInv, SomebodyLeft
<1>6. ASSUME NEW u \in Errands, (errand')[u].at = "over", (errand')[u].left # {}
      PROVE  Cause(u)'
  <2>1. CASE u = s
    BY <1>1, <1>6, <2>1
  <2>2. CASE u # s
    <3>1. errand[u].at = "over" /\ Cause(u) /\ (errand')[u] = errand[u]
      BY <1>1, <1>6, <2>2 DEF NoticeIInv, CausesLast
    <3>2. CASE errand[u].missed
      BY <3>1, <3>2 DEF Cause
    <3>3. CASE ~errand[u].missed
      <4>1. PICK r \in Errands \ {u} :
              /\ errand[r].at # "new"
              /\ KeyOf(r) = KeyOf(u) /\ <<Turn(errand[u].left), KeyOf(u)>> \in inbox
        BY <3>1, <3>3 DEF Cause
      <4>2. KeyOf(r)' = KeyOf(r) /\ (errand')[r].at # "new" /\ KeyOf(u)' = KeyOf(u)
        BY <1>3, <3>1, <4>1
      <4>3. <<Turn(errand[u].left), KeyOf(u)>>' \in inbox'
        BY <3>1, <4>1, <4>2 DEF Turn
      <4> QED BY <4>1, <4>2, <4>3 DEF Cause
    <3> QED BY <3>2, <3>3
  <2> QED BY <2>1, <2>2
<1>7. RowsMade' /\ CausesLast'
  BY <1>4, <1>6 DEF RowsMade, CausesLast
<1> QED
  BY <1>2, <1>5, <1>7 DEF NoticeIInv

LEMMA StartKeeps ==
  ASSUME NoticeIInv, NEW s \in Errands, NEW e \in Endpoints, NEW told \in SUBSET Party,
         StartErrand(s, e, told)
  PROVE  NoticeIInv'
<1> DEFINE v == [at |-> IF told = {} THEN "over" ELSE "row", endpoint |-> e, left |-> told, missed |-> FALSE]
<1>1. errand[s].at = "new" /\ errand' = [errand EXCEPT ![s] = v] /\ UNCHANGED <<inbox, broker>>
  BY DEF StartErrand
<1>2. v \in [at : ErrandState, endpoint : Endpoints, left : SUBSET Party, missed : BOOLEAN]
  BY DEF ErrandState
<1>3. inbox' \in SUBSET (Party \X Keys)
  BY <1>1 DEF NoticeIInv, NoticeTypeOK
<1>4. /\ v.at # "new" /\ (v.at \in Telling => v.left # {}) /\ ~(v.at = "over" /\ v.left # {})
  BY DEF Telling
<1> HIDE DEF v
<1> QED
  BY <1>1, <1>2, <1>3, <1>4, ErrandMoves

\* A request that only moves on along its parties.
LEMMA StateMoves ==
  ASSUME NoticeIInv, NEW s \in Errands, NEW at \in ErrandState \ {"new"},
         errand[s].at \in Telling, at \in Telling \cup {"died"},
         errand' = [errand EXCEPT ![s].at = at], UNCHANGED <<inbox, broker>>,
         errand[s].at \in RowIsThere => at \in RowIsThere
  PROVE  NoticeIInv'
<1> DEFINE v == [errand[s] EXCEPT !.at = at]
<1>1. errand \in [Errands ->
        [at : ErrandState, endpoint : Endpoints, left : SUBSET Party, missed : BOOLEAN]]
  BY DEF NoticeIInv, NoticeTypeOK
<1>2. v \in [at : ErrandState, endpoint : Endpoints, left : SUBSET Party, missed : BOOLEAN]
  BY <1>1
<1>3. v.at = at /\ v.endpoint = errand[s].endpoint /\ v.left = errand[s].left
  BY <1>1
<1>4. errand' = [errand EXCEPT ![s] = v] /\ (errand')[s] = v
  BY <1>1
<1>5. \A p \in Party : Did(s, p) => Did(s, p)'
  <2> HIDE DEF v
  <2>1. Turn(errand[s].left)' = Turn(errand[s].left)
    BY <1>3, <1>4 DEF Turn
  <2> QED BY <1>3, <1>4, <2>1 DEF Did
<1>6. inbox' \in SUBSET (Party \X Keys)
  BY DEF NoticeIInv, NoticeTypeOK
<1>7. errand[s].left # {} /\ errand[s].at # "over" /\ at # "over"
  BY DEF NoticeIInv, SomebodyLeft, Telling
<1> HIDE DEF v
<1> QED
  BY <1>2, <1>3, <1>4, <1>5, <1>6, <1>7, ErrandMoves

\* The party at work was told.
LEMMA OnwardKeeps ==
  ASSUME NoticeIInv, NEW s \in Errands, errand[s].at \in {"push", "sync"},
         errand' = Onward(s), UNCHANGED <<inbox, broker>>
  PROVE  NoticeIInv'
<1> DEFINE left == errand[s].left \ {Turn(errand[s].left)}
           v == [errand[s] EXCEPT !.left = left, !.at = IF left = {} THEN "over" ELSE "row"]
<1>1. errand \in [Errands ->
        [at : ErrandState, endpoint : Endpoints, left : SUBSET Party, missed : BOOLEAN]]
  BY DEF NoticeIInv, NoticeTypeOK
<1>2. v \in [at : ErrandState, endpoint : Endpoints, left : SUBSET Party, missed : BOOLEAN]
  BY <1>1 DEF ErrandState
<1>3. /\ v.at = IF left = {} THEN "over" ELSE "row"
      /\ v.endpoint = errand[s].endpoint /\ v.left = left
  BY <1>1
<1>4. errand' = [errand EXCEPT ![s] = v] /\ (errand')[s] = v
  BY <1>1 DEF Onward
<1> HIDE DEF v
<1>5. \A p \in Party : Did(s, p) => Did(s, p)'
  BY <1>3, <1>4 DEF Did
<1>6. inbox' \in SUBSET (Party \X Keys)
  BY DEF NoticeIInv, NoticeTypeOK
<1>7. v.at # "new" /\ (v.at \in Telling => v.left # {}) /\ ~(v.at = "over" /\ v.left # {})
  BY <1>3 DEF Telling
<1> HIDE DEF left
<1> QED
  BY <1>2, <1>3, <1>4, <1>5, <1>6, <1>7, ErrandMoves

\* Either the row is made, or another request has made it.
LEMMA RowCommitKeeps ==
  ASSUME NoticeIInv, NEW s \in Errands, RowCommit(s)
  PROVE  NoticeIInv'
<1> DEFINE p == Turn(errand[s].left)
           k == KeyOf(s)
           lost == errand[s].at = "insert" /\ <<p, k>> \in inbox
           at == IF lost THEN "over" ELSE "push"
           v == [errand[s] EXCEPT !.at = at]
<1>1. /\ errand \in [Errands ->
           [at : ErrandState, endpoint : Endpoints, left : SUBSET Party, missed : BOOLEAN]]
      /\ errand[s].at \in {"insert", "update"} /\ errand[s].left # {}
  BY DEF RowCommit, NoticeIInv, NoticeTypeOK, SomebodyLeft, Telling
<1>2. v \in [at : ErrandState, endpoint : Endpoints, left : SUBSET Party, missed : BOOLEAN]
  BY <1>1 DEF ErrandState
<1>3. v.at = at /\ v.endpoint = errand[s].endpoint /\ v.left = errand[s].left
  BY <1>1
<1>4. /\ errand' = [errand EXCEPT ![s] = v] /\ (errand')[s] = v
      /\ inbox' = inbox \cup {<<p, k>>} /\ broker' = broker
  BY <1>1 DEF RowCommit
<1>5. p \in Party /\ k \in Keys /\ p \in errand[s].left /\ k = EventKey(v.endpoint)
  BY <1>1, <1>3, TurnIsLeft, TurnIsParty DEF KeyOf, Keys
<1> HIDE DEF v
<1>6. Turn(errand[s].left)' = Turn(errand[s].left) /\ KeyOf(s)' = KeyOf(s)
  BY <1>3, <1>4 DEF Turn, KeyOf
<1>7. \A q \in Party : Did(s, q) => Did(s, q)'
  BY <1>1, <1>3, <1>4 DEF Did, RowIsThere
<1>8. \A q \in Party : q = p => Did(s, q)'
  BY <1>3, <1>4, <1>6 DEF Did, RowIsThere
<1>9. inbox' \in SUBSET (Party \X Keys) /\ inbox \subseteq inbox'
  BY <1>4, <1>5 DEF NoticeIInv, NoticeTypeOK
<1>10. ASSUME v.at = "over"  PROVE Cause(s)'
  <2>1. lost
    BY <1>3, <1>10
  <2>2. PICK r \in Errands : KeyOf(r) = k /\ Did(r, p)
    BY <1>5, <2>1 DEF NoticeIInv, RowsMade
  <2>3. r # s
    BY <1>1, <1>5, <2>2 DEF Did, RowIsThere
  <2>4. (errand')[r] = errand[r] /\ errand[r].at # "new"
    BY <1>1, <1>4, <2>2, <2>3 DEF Did
  <2>5. KeyOf(r)' = KeyOf(s)'
    BY <1>6, <2>2, <2>4 DEF KeyOf
  <2>6. <<Turn(errand[s].left), KeyOf(s)>>' \in inbox'
    BY <1>4, <1>6
  <2> QED BY <2>3, <2>4, <2>5, <2>6 DEF Cause
<1>11. v.at # "new" /\ (v.at \in Telling => v.left # {})
  BY <1>1, <1>3
<1>12. \A q \in Party, l \in Keys : <<q, l>> \in inbox' \ inbox => l = EventKey(v.endpoint) /\ Did(s, q)'
  <2> HIDE DEF p, k
  <2> QED BY <1>4, <1>5, <1>8
<1> HIDE DEF p, k, lost, at
<1> QED
  BY <1>1, <1>2, <1>3, <1>4, <1>7, <1>9, <1>10, <1>11, <1>12, ErrandMoves

\* The request could not deliver a push.
LEMMA MissedKeeps ==
  ASSUME NoticeIInv, NEW s \in Errands, errand[s].at = "sync",
         errand' = [errand EXCEPT ![s].at = "over", ![s].missed = TRUE], UNCHANGED <<inbox, broker>>
  PROVE  NoticeIInv'
<1> DEFINE v == [errand[s] EXCEPT !.at = "over", !.missed = TRUE]
<1>1. errand \in [Errands ->
        [at : ErrandState, endpoint : Endpoints, left : SUBSET Party, missed : BOOLEAN]]
  BY DEF NoticeIInv, NoticeTypeOK
<1>2. v \in [at : ErrandState, endpoint : Endpoints, left : SUBSET Party, missed : BOOLEAN]
  BY <1>1 DEF ErrandState
<1>3. v.at = "over" /\ v.endpoint = errand[s].endpoint /\ v.left = errand[s].left /\ v.missed
  BY <1>1
<1>4. errand' = [errand EXCEPT ![s] = v] /\ (errand')[s] = v
  BY <1>1
<1> HIDE DEF v
<1>5. \A p \in Party : Did(s, p) => Did(s, p)'
  <2>1. Turn(errand[s].left)' = Turn(errand[s].left)
    BY <1>3, <1>4 DEF Turn
  <2> QED BY <1>3, <1>4, <2>1 DEF Did, RowIsThere
<1>6. inbox' \in SUBSET (Party \X Keys)
  BY DEF NoticeIInv, NoticeTypeOK
<1>7. Cause(s)'
  BY <1>3, <1>4 DEF Cause
<1>8. v.at # "new" /\ v.at \notin Telling
  BY <1>3 DEF Telling
<1> QED
  BY <1>2, <1>3, <1>4, <1>5, <1>6, <1>7, <1>8, ErrandMoves

LEMMA NoticeStep == NoticeIInv /\ [NoticeNext]_noticeVars => NoticeIInv'
<1> SUFFICES ASSUME NoticeIInv, [NoticeNext]_noticeVars PROVE NoticeIInv'
  OBVIOUS
<1>1. ASSUME NEW s \in Errands, NEW e \in Endpoints, NEW told \in SUBSET Party, StartErrand(s, e, told)
      PROVE  NoticeIInv'
  BY <1>1, StartKeeps
<1>2. ASSUME NEW s \in Errands, NEW missed \in BOOLEAN, SyncDone(s, missed)  PROVE NoticeIInv'
  <2>1. \/ errand' = [errand EXCEPT ![s].at = "over", ![s].missed = TRUE]
        \/ errand' = Onward(s)
    BY <1>2 DEF SyncDone
  <2>2. errand[s].at = "sync" /\ UNCHANGED <<inbox, broker>>
    BY <1>2 DEF SyncDone
  <2> QED BY <2>1, <2>2, MissedKeeps, OnwardKeeps
<1>3. ASSUME NEW s \in Errands, RowLoad(s)  PROVE NoticeIInv'
  <2>1. PICK at \in {"insert", "update"} : errand' = [errand EXCEPT ![s].at = at]
    <3> DEFINE there == <<Turn(errand[s].left), KeyOf(s)>> \in inbox
    <3>1. errand' = [errand EXCEPT ![s].at = IF there THEN "update" ELSE "insert"]
      BY <1>3 DEF RowLoad
    <3> HIDE DEF there
    <3>2. CASE there
      BY <3>1, <3>2
    <3>3. CASE ~there
      BY <3>1, <3>3
    <3> QED BY <3>2, <3>3
  <2>2. errand[s].at = "row" /\ UNCHANGED <<inbox, broker>>
    BY <1>3 DEF RowLoad
  <2> QED BY <2>1, <2>2, StateMoves DEF Telling, RowIsThere, ErrandState
<1>4. ASSUME NEW s \in Errands, RowCommit(s)  PROVE NoticeIInv'
  BY <1>4, RowCommitKeeps
<1>5. ASSUME NEW s \in Errands, Enqueue(s)  PROVE NoticeIInv'
  <2>1. CASE errand' = Onward(s)
    BY <1>5, <2>1, OnwardKeeps DEF Enqueue
  <2>2. CASE errand' = [errand EXCEPT ![s].at = "sync"]
    BY <1>5, <2>2, StateMoves DEF Enqueue, Telling, RowIsThere, ErrandState
  <2> QED BY <1>5, <2>1, <2>2 DEF Enqueue
<1>6. ASSUME NEW s \in Errands, ErrandDies(s)  PROVE NoticeIInv'
  <2>1. errand[s].at \in Telling
    BY <1>6 DEF ErrandDies, NoticeIInv, NoticeTypeOK, ErrandState, Telling
  <2> QED BY <1>6, <2>1, StateMoves DEF ErrandDies, RowIsThere, ErrandState
<1>7. CASE BrokerTurns
  BY <1>7 DEF BrokerTurns, NoticeIInv, NoticeTypeOK, RowsMade, Did, SomebodyLeft, CausesLast,
              Cause, KeyOf, Turn
<1>8. CASE UNCHANGED noticeVars
  BY <1>8 DEF noticeVars, NoticeIInv, NoticeTypeOK, RowsMade, Did, SomebodyLeft, CausesLast,
              Cause, KeyOf, Turn
<1> QED
  BY <1>1, <1>2, <1>3, <1>4, <1>5, <1>6, <1>7, <1>8 DEF NoticeNext

\* For any number of requests and endpoints, a party that is left untold owes it
\* to another request with the same row, or to a push that was missed
\* (safe_send_order_notifications, upsert_user_notification).
THEOREM UntoldHasCauseAlways == NoticeSpec => []UntoldHasCause
<1>1. NoticeIInv => UntoldHasCause
  BY DEF NoticeIInv, CausesLast, Cause, UntoldHasCause
<1> QED
  BY <1>1, NoticeInitial, NoticeStep, PTL DEF NoticeSpec
=============================================================================
