----------------------------- MODULE MenuProofs -----------------------------
(***************************************************************************)
(* Proofs about menu items: the audit trail of their edits (Revisions),    *)
(* the counter of the customers who favor them (Favorites) and the         *)
(* categories they are in (Catalog), and about the rating a restaurant     *)
(* caches (Ratings), for every set of fields, values, items, categories,   *)
(* reviews and customers and every number of requests.                     *)
(***************************************************************************)
EXTENDS Revisions, Catalog, Favorites, Ratings, FiniteSetTheorems, TLAPS

-----------------------------------------------------------------------------
(* Revisions *)

EditIInv == EditTypeOK /\ DOMAIN editor = Editors /\ TrailExplainsItem

LEMMA EditInitial == EditInit => EditIInv
BY InitiallyAssumption, RevisionsAssumption
   DEF EditInit, EditIInv, EditTypeOK, Item, TrailExplainsItem, Naming, Fields

\* A revision more is the last one that names its fields.
LEMMA AppendedNaming ==
  ASSUME trail \in Seq(Revision), NEW r, trail' = Append(trail, r), NEW f
  PROVE  /\ f \in DOMAIN r.after => Naming(f)' = Naming(f) \cup {Len(trail) + 1}
         /\ f \notin DOMAIN r.after => Naming(f)' = Naming(f)
         /\ trail'[Len(trail) + 1] = r
         /\ \A n \in Naming(f) : n \in 1..Len(trail) /\ trail'[n] = trail[n]
<1>1. /\ Len(trail) \in Nat /\ DOMAIN trail = 1..Len(trail)
      /\ DOMAIN trail' = 1..(Len(trail) + 1)
      /\ trail'[Len(trail) + 1] = r
      /\ \A n \in 1..Len(trail) : trail'[n] = trail[n]
  OBVIOUS
<1> QED
  BY <1>1 DEF Naming

LEMMA EditCommitKeeps ==
  ASSUME EditIInv, NEW e \in Editors, EditCommit(e)
  PROVE  EditIInv'
<1> DEFINE w == editor[e]
           written == Changed(w.was, w.incoming)
           names == Recorded(w.was, w.incoming)
           r == [before |-> [f \in names |-> w.was[f]], after |-> [f \in names |-> w.incoming[f]]]
<1>1. /\ item' = [f \in Fields |-> IF f \in written THEN w.incoming[f] ELSE item[f]]
      /\ trail' = IF names = {} THEN trail ELSE Append(trail, r)
      /\ editor' = [editor EXCEPT ![e] = NoEdit]
  BY DEF EditCommit
<1>2. names = written \cap Tracked
  BY DEF Recorded
<1>3. /\ w.was \in Item /\ w.incoming \in UNION {[n -> Values] : n \in SUBSET Fields}
      /\ trail \in Seq(Revision) /\ item \in Item /\ DOMAIN editor = Editors
  BY DEF EditIInv, EditTypeOK, EditCommit
<1>4. /\ written \subseteq Fields /\ \A f \in written : w.incoming[f] \in Values
      /\ \A f \in Fields : w.was[f] \in Values
  BY <1>3 DEF Changed, Item
<1>5. item' \in Item
  BY <1>1, <1>3, <1>4 DEF Item
<1>6. DOMAIN editor' = Editors /\ \A d \in Editors : editor'[d] = IF d = e THEN NoEdit ELSE editor[d]
  BY <1>1, <1>3
<1>7. names \in SUBSET Tracked
  BY <1>2
<1>8. r \in Revision /\ DOMAIN r.after = names /\ \A f \in names : r.after[f] = w.incoming[f]
  <2>1. /\ [f \in names |-> w.was[f]] \in [names -> Values]
        /\ [f \in names |-> w.incoming[f]] \in [names -> Values]
    BY <1>2, <1>4 DEF Fields
  <2> QED
    BY <1>7, <2>1 DEF Revision
<1> HIDE DEF r, names, written
<1>9. CASE names = {}
  <2>1. trail' = trail
    BY <1>1, <1>9
  <2>2. \A f \in Tracked : item'[f] = item[f] /\ Naming(f)' = Naming(f)
    BY <1>1, <1>2, <1>9, <2>1 DEF Naming, Fields
  <2>3. TrailExplainsItem'
    BY <2>1, <2>2 DEF EditIInv, TrailExplainsItem
  <2> QED
    BY <1>5, <1>6, <2>1, <2>3 DEF EditIInv, EditTypeOK
<1>10. CASE names # {}
  <2>1. trail' = Append(trail, r) /\ Len(trail) < MaxRevisions
    BY <1>1, <1>10 DEF EditCommit, names
  <2>2. trail' \in Seq(Revision) /\ Len(trail') <= MaxRevisions /\ Len(trail) \in Nat
    BY <1>3, <1>8, <2>1, RevisionsAssumption
  <2>3. TrailExplainsItem'
    <3> SUFFICES ASSUME NEW f \in Tracked
                 PROVE  IF Naming(f)' = {} THEN item'[f] = Initially
                        ELSE \E n \in Naming(f)' : item'[f] = trail'[n].after[f] /\ \A k \in Naming(f)' : k <= n
      BY DEF TrailExplainsItem
    <3>1. \A n \in Naming(f) : n \in 1..Len(trail) /\ trail'[n] = trail[n]
      BY <1>3, <2>1, AppendedNaming
    <3>2. CASE f \in names
      <4>1. Naming(f)' = Naming(f) \cup {Len(trail) + 1} /\ trail'[Len(trail) + 1] = r
        BY <1>3, <1>8, <2>1, <3>2, AppendedNaming
      <4>2. item'[f] = r.after[f]
        BY <1>1, <1>2, <1>8, <3>2 DEF Fields
      <4>3. \A k \in Naming(f)' : k <= Len(trail) + 1
        BY <2>2, <3>1, <4>1
      <4> QED
        BY <4>1, <4>2, <4>3
    <3>3. CASE f \notin names
      <4>1. Naming(f)' = Naming(f)
        BY <1>3, <1>8, <2>1, <3>3, AppendedNaming
      <4>2. item'[f] = item[f]
        BY <1>1, <1>2, <3>3 DEF Fields
      <4> QED
        BY <3>1, <4>1, <4>2 DEF EditIInv, TrailExplainsItem
    <3> QED
      BY <3>2, <3>3
  <2> QED
    BY <1>5, <1>6, <2>2, <2>3 DEF EditIInv, EditTypeOK
<1> QED
  BY <1>9, <1>10

LEMMA EditStep == EditIInv /\ [EditNext]_editVars => EditIInv'
<1> SUFFICES ASSUME EditIInv, [EditNext]_editVars PROVE EditIInv'
  OBVIOUS
<1>1. ASSUME NEW e \in Editors, NEW names \in SUBSET Fields, NEW incoming \in [names -> Values],
             EditLoad(e, incoming)
      PROVE  EditIInv'
  <2>1. /\ item' = item /\ trail' = trail /\ DOMAIN editor' = Editors
        /\ \A d \in Editors : editor'[d] = IF d = e THEN [was |-> item, incoming |-> incoming] ELSE editor[d]
    BY <1>1 DEF EditLoad, EditIInv
  <2> QED
    BY <2>1 DEF EditIInv, EditTypeOK, TrailExplainsItem, Naming
<1>2. ASSUME NEW e \in Editors, EditFails(e) PROVE EditIInv'
  BY <1>2 DEF EditFails, EditIInv, EditTypeOK, TrailExplainsItem, Naming
<1>3. CASE UNCHANGED editVars
  BY <1>3 DEF editVars, EditIInv, EditTypeOK, TrailExplainsItem, Naming
<1> QED
  BY <1>1, <1>2, <1>3, EditCommitKeeps DEF EditNext

\* For every number of edits that overlap, and every field: the trail explains
\* the value of each tracked field (record_menu_item_revision).
THEOREM TrailExplainsItemAlways == EditSpec => []TrailExplainsItem
<1>1. EditIInv => TrailExplainsItem
  BY DEF EditIInv
<1> QED
  BY <1>1, EditInitial, EditStep, PTL DEF EditSpec

-----------------------------------------------------------------------------
(* Favorites *)

\* A removal in flight has found a row.
RemovalsFound == \A h \in DOMAIN tap : tap[h].op = "remove" => tap[h].row # 0

FavoriteIInv == FavoriteTypeOK /\ RemovalsFound /\ HeartsCounted

FansOf(t) == {f \in Fans : row[<<f, t>>] # 0}

LEMMA HeartsAreFans ==
  ASSUME NEW t \in Hearted
  PROVE  /\ Hearts(t) = Cardinality(FansOf(t))
         /\ Hearts(t)' = Cardinality(FansOf(t)')
         /\ IsFiniteSet(FansOf(t)) /\ IsFiniteSet(FansOf(t)')
         /\ Cardinality(FansOf(t)) \in Nat
<1>1. {f \in Fans : t \in Wishlist(f).menu_item_ids} = FansOf(t)
  BY DEF Wishlist, FansOf
<1>2. {f \in Fans : t \in Wishlist(f).menu_item_ids}' = FansOf(t)'
  BY DEF Wishlist, FansOf
<1>3. IsFiniteSet(FansOf(t)) /\ IsFiniteSet(FansOf(t)')
  <2>1. FansOf(t) \subseteq Fans /\ FansOf(t)' \subseteq Fans
    BY DEF FansOf
  <2> QED
    BY <2>1, HeartedAssumption, FS_Subset
<1> QED
  BY <1>1, <1>2, <1>3, FS_CardinalityType DEF Hearts

LEMMA FavoriteInitial == FavoriteInit => FavoriteIInv
<1> SUFFICES ASSUME FavoriteInit PROVE FavoriteIInv
  OBVIOUS
<1>1. FavoriteTypeOK /\ RemovalsFound
  BY MaxHeartsAssumption DEF FavoriteInit, FavoriteTypeOK, RemovalsFound, HeartIds
<1>2. ASSUME NEW t \in Hearted PROVE favorite_count[t] = 0 /\ gone[t] = 0 /\ Hearts(t) = 0
  <2>1. FansOf(t) = {}
    BY DEF FavoriteInit, FansOf, Things
  <2> QED
    BY <2>1, HeartsAreFans, FS_EmptySet DEF FavoriteInit
<1> QED
  BY <1>1, <1>2 DEF FavoriteIInv, HeartsCounted

\* The write of one customer's row of a thing leaves the hearts of every other thing.
LEMMA RowMoves ==
  ASSUME FavoriteTypeOK, NEW f \in Fans, NEW u \in Things, NEW k \in HeartIds,
         row' = [row EXCEPT ![<<f, u>>] = k], NEW t \in Hearted
  PROVE  t # u => FansOf(t)' = FansOf(t)
<1>1. row \in [Fans \X Things -> HeartIds] /\ t \in Things
  BY DEF FavoriteTypeOK, Things
<1>2. t # u => \A g \in Fans : row'[<<g, t>>] = row[<<g, t>>]
  BY <1>1
<1> QED
  BY <1>2 DEF FansOf

LEMMA TappedKeeps ==
  ASSUME FavoriteTypeOK, RemovalsFound, NEW h \in DOMAIN tap, Tapped(h)
  PROVE  /\ DOMAIN tap' \subseteq Taps /\ \A g \in DOMAIN tap' : tap'[g] \in Tap
         /\ RemovalsFound'
BY DEF FavoriteTypeOK, RemovalsFound, Tapped

LEMMA HeartCommitKeeps ==
  ASSUME FavoriteIInv, NEW h \in DOMAIN tap, HeartCommit(h)
  PROVE  FavoriteIInv'
<1> PICK f, u : f = tap[h].fan /\ u = tap[h].thing
  OBVIOUS
<1>1. f \in Fans /\ u \in Things /\ <<f, u>> \in Fans \X Things
  BY DEF FavoriteIInv, FavoriteTypeOK, Tap
<1>2. PICK k : k = made[<<f, u>>] + 1
  OBVIOUS
<1>3. k \in HeartIds /\ k # 0
  BY <1>1, <1>2, MaxHeartsAssumption DEF FavoriteIInv, FavoriteTypeOK, HeartCommit, HeartIds
<1>4. /\ row[<<f, u>>] = 0 /\ gone' = gone /\ Tapped(h)
      /\ row' = [row EXCEPT ![<<f, u>>] = k] /\ made' = [made EXCEPT ![<<f, u>>] = k]
      /\ CounterMoves(u, 1)
  BY <1>2 DEF HeartCommit
<1>5. /\ row' \in [Fans \X Things -> HeartIds] /\ made' \in [Fans \X Things -> HeartIds]
  BY <1>3, <1>4 DEF FavoriteIInv, FavoriteTypeOK
<1>6. favorite_count' \in [Hearted -> Nat]
  BY <1>4 DEF CounterMoves, FavoriteIInv, FavoriteTypeOK
<1>7. FavoriteTypeOK' /\ RemovalsFound'
  BY <1>4, <1>5, <1>6, TappedKeeps DEF FavoriteIInv, FavoriteTypeOK
<1>a. FavoriteTypeOK /\ row' = [row EXCEPT ![<<f, u>>] = k]
  BY <1>4 DEF FavoriteIInv
<1>8. ASSUME NEW t \in Hearted
      PROVE  favorite_count'[t] <= Hearts(t)' /\ favorite_count'[t] >= Hearts(t)' - gone'[t]
  <2>1. /\ favorite_count[t] <= Hearts(t) /\ favorite_count[t] >= Hearts(t) - gone[t]
        /\ favorite_count[t] \in Nat /\ gone[t] \in Nat
    BY DEF FavoriteIInv, FavoriteTypeOK, HeartsCounted
  <2>2. CASE t # u
    <3>1. FansOf(t)' = FansOf(t)
      BY <1>1, <1>3, <1>a, <2>2, RowMoves
    <3>2. favorite_count'[t] = favorite_count[t]
      BY <1>4, <2>2 DEF CounterMoves, FavoriteIInv, FavoriteTypeOK
    <3> QED
      BY <1>4, <2>1, <3>1, <3>2, HeartsAreFans
  <2>3. CASE t = u
    <3>a. f \notin FansOf(t)
      BY <1>4, <2>3 DEF FansOf
    <3>b. \A g \in Fans : row'[<<g, t>>] = IF g = f THEN k ELSE row[<<g, t>>]
      BY <1>1, <1>a, <2>3 DEF FavoriteTypeOK, Things
    <3>c. ASSUME NEW g \in Fans PROVE row'[<<g, t>>] # 0 <=> row[<<g, t>>] # 0 \/ g = f
      BY <1>3, <3>b
    <3>1. FansOf(t)' = FansOf(t) \cup {f}
      <4>1. \A g : g \in FansOf(t)' <=> g \in FansOf(t) \cup {f}
        BY <1>1, <3>c, Zenon DEF FansOf
      <4> QED
        BY <4>1
    <3>2. Cardinality(FansOf(t)') = Cardinality(FansOf(t)) + 1
      <4>1. IsFiniteSet(FansOf(t))
        BY HeartsAreFans
      <4>2. Cardinality(FansOf(t) \cup {f}) = Cardinality(FansOf(t)) + 1
        BY <3>a, <4>1, FS_AddElement
      <4> QED
        BY <3>1, <4>2
    <3>3. favorite_count'[t] = favorite_count[t] + 1
      BY <1>4, <2>3 DEF CounterMoves, FavoriteIInv, FavoriteTypeOK
    <3> QED
      BY <1>4, <2>1, <3>2, <3>3, HeartsAreFans
  <2> QED
    BY <2>2, <2>3
<1> QED
  BY <1>7, <1>8 DEF FavoriteIInv, HeartsCounted

LEMMA UnheartCommitKeeps ==
  ASSUME FavoriteIInv, NEW h \in DOMAIN tap, UnheartCommit(h)
  PROVE  FavoriteIInv'
<1> PICK f, u, k : f = tap[h].fan /\ u = tap[h].thing /\ k = tap[h].row
  OBVIOUS
<1>1. /\ f \in Fans /\ u \in Things /\ <<f, u>> \in Fans \X Things /\ k # 0
      /\ row[<<f, u>>] \in HeartIds
  BY DEF FavoriteIInv, FavoriteTypeOK, RemovalsFound, Tap, UnheartCommit
<1>2. /\ row' = [row EXCEPT ![<<f, u>>] = IF @ = k THEN 0 ELSE @]
      /\ CounterMoves(u, IF u \in Hearted /\ favorite_count[u] > 0 THEN -1 ELSE 0)
      /\ gone' = IF u \in Hearted /\ row[<<f, u>>] # k THEN [gone EXCEPT ![u] = @ + 1] ELSE gone
      /\ Tapped(h) /\ made' = made
  BY DEF UnheartCommit
<1>3. PICK j : j = IF row[<<f, u>>] = k THEN 0 ELSE row[<<f, u>>]
  OBVIOUS
<1>4. j \in HeartIds /\ row' = [row EXCEPT ![<<f, u>>] = j]
  BY <1>1, <1>2, <1>3, MaxHeartsAssumption DEF HeartIds, FavoriteIInv, FavoriteTypeOK
<1>5. row' \in [Fans \X Things -> HeartIds]
  BY <1>4 DEF FavoriteIInv, FavoriteTypeOK
<1>6. favorite_count' \in [Hearted -> Nat] /\ gone' \in [Hearted -> Nat]
  BY <1>2 DEF CounterMoves, FavoriteIInv, FavoriteTypeOK
<1>7. FavoriteTypeOK' /\ RemovalsFound'
  BY <1>2, <1>5, <1>6, TappedKeeps DEF FavoriteIInv, FavoriteTypeOK
<1>a. FavoriteTypeOK /\ row' = [row EXCEPT ![<<f, u>>] = j]
  BY <1>4 DEF FavoriteIInv
<1>8. ASSUME NEW t \in Hearted
      PROVE  favorite_count'[t] <= Hearts(t)' /\ favorite_count'[t] >= Hearts(t)' - gone'[t]
  <2>1. /\ favorite_count[t] <= Hearts(t) /\ favorite_count[t] >= Hearts(t) - gone[t]
        /\ favorite_count[t] \in Nat /\ gone[t] \in Nat
    BY DEF FavoriteIInv, FavoriteTypeOK, HeartsCounted
  <2>2. CASE t # u
    <3>1. FansOf(t)' = FansOf(t)
      BY <1>1, <1>4, <2>2, RowMoves DEF FavoriteIInv
    <3>2. favorite_count'[t] = favorite_count[t] /\ gone'[t] = gone[t]
      BY <1>2, <2>2 DEF CounterMoves, FavoriteIInv, FavoriteTypeOK
    <3> QED
      BY <2>1, <3>1, <3>2, HeartsAreFans
  <2>3. CASE t = u
    <3>1. favorite_count'[t] = IF favorite_count[t] > 0 THEN favorite_count[t] - 1 ELSE 0
      BY <1>2, <2>1, <2>3 DEF CounterMoves, FavoriteIInv, FavoriteTypeOK
    <3>2. CASE row[<<f, u>>] = k
      <4>a. j = 0 /\ f \in FansOf(t)
        BY <1>1, <1>3, <2>3, <3>2 DEF FansOf
      <4>b. \A g \in Fans : row'[<<g, t>>] = IF g = f THEN 0 ELSE row[<<g, t>>]
        BY <1>1, <1>a, <2>3, <4>a DEF FavoriteTypeOK, Things
      <4>c. ASSUME NEW g \in Fans PROVE row'[<<g, t>>] # 0 <=> row[<<g, t>>] # 0 /\ g # f
        BY <4>b
      <4>1. FansOf(t)' = FansOf(t) \ {f}
        <5>1. \A g : g \in FansOf(t)' <=> g \in FansOf(t) \ {f}
          BY <1>1, <4>c, Zenon DEF FansOf
        <5> QED
          BY <5>1
      <4>2. Cardinality(FansOf(t)') = Cardinality(FansOf(t)) - 1 /\ Cardinality(FansOf(t)') \in Nat
        BY <4>a, <4>1, HeartsAreFans, FS_RemoveElement, FS_CardinalityType
      <4>3. gone'[t] = gone[t]
        BY <1>2, <3>2
      <4> QED
        BY <2>1, <3>1, <4>2, <4>3, HeartsAreFans
    <3>3. CASE row[<<f, u>>] # k
      <4>1. FansOf(t)' = FansOf(t)
        BY <1>2, <3>3 DEF FansOf, FavoriteIInv, FavoriteTypeOK
      <4>2. gone'[t] = gone[t] + 1
        BY <1>2, <2>3, <3>3 DEF FavoriteIInv, FavoriteTypeOK
      <4> QED
        BY <2>1, <3>1, <4>1, <4>2, HeartsAreFans
    <3> QED
      BY <3>2, <3>3
  <2> QED
    BY <2>2, <2>3
<1> QED
  BY <1>7, <1>8 DEF FavoriteIInv, HeartsCounted

LEMMA FavoriteStep == FavoriteIInv /\ [FavoriteNext]_favoriteVars => FavoriteIInv'
<1> SUFFICES ASSUME FavoriteIInv, [FavoriteNext]_favoriteVars PROVE FavoriteIInv'
  OBVIOUS
<1>1. (row' = row /\ favorite_count' = favorite_count /\ gone' = gone) => HeartsCounted'
  BY DEF FavoriteIInv, HeartsCounted, Hearts, Wishlist
<1>2. ASSUME NEW h \in Taps, NEW f \in Fans, NEW t \in Things, NEW op \in {"add", "remove"},
             FindHeart(h, f, t, op)
      PROVE  FavoriteIInv'
  <2>1. [op |-> op, fan |-> f, thing |-> t, row |-> row[<<f, t>>]] \in Tap
    BY DEF FavoriteIInv, FavoriteTypeOK, Tap
  <2>2. FavoriteTypeOK'
    BY <1>2, <2>1 DEF FindHeart, FavoriteIInv, FavoriteTypeOK
  <2>3. RemovalsFound'
    BY <1>2 DEF FindHeart, FavoriteIInv, RemovalsFound
  <2> QED
    BY <1>1, <1>2, <2>2, <2>3 DEF FindHeart, FavoriteIInv
<1>3. ASSUME NEW h \in DOMAIN tap, HeartClash(h) PROVE FavoriteIInv'
  BY <1>1, <1>3, TappedKeeps DEF HeartClash, FavoriteIInv, FavoriteTypeOK
<1>4. CASE UNCHANGED favoriteVars
  BY <1>1, <1>4 DEF favoriteVars, FavoriteIInv, FavoriteTypeOK, RemovalsFound
<1> QED
  BY <1>2, <1>3, <1>4, HeartCommitKeeps, UnheartCommitKeeps DEF FavoriteNext

\* For every number of customers and requests: the counter claims no heart that
\* is not there and misses at most those of overlapping removals.
THEOREM HeartsCountedAlways == FavoriteSpec => []HeartsCounted
<1>1. FavoriteIInv => HeartsCounted
  BY DEF FavoriteIInv
<1> QED
  BY <1>1, FavoriteInitial, FavoriteStep, PTL DEF FavoriteSpec

-----------------------------------------------------------------------------
(* Catalog *)

\* Who takes a category off a menu has found the items of that menu that are in
\* it; an item that was put there since is noted.
LeaversFound ==
  \A h \in Cooks :
    cook[h].op \in {"unlink", "delete", "drop"} =>
      InCat(cook[h].cat) \cap Own(cook[h].kitchen) \subseteq cook[h].dishes \cup strayed

MenuIInv == MenuTypeOK /\ LeaversFound /\ DishOnItsMenu

LEMMA MenuInitial == MenuInit => MenuIInv
BY NoDishAssumption DEF MenuInit, MenuIInv, MenuTypeOK, LeaversFound, DishOnItsMenu, Cook, Waiting

LEMMA CookMoves ==
  ASSUME MenuIInv, NEW h \in Cooks, NEW w \in Cook, cook' = [cook EXCEPT ![h] = w],
         UNCHANGED <<dish, strayed>>,
         w.op \in {"unlink", "delete", "drop"} =>
           InCat(w.cat) \cap Own(w.kitchen) \subseteq w.dishes \cup strayed
  PROVE  cook' \in [Cooks -> Cook] /\ LeaversFound'
<1>1. cook \in [Cooks -> Cook]
  BY DEF MenuIInv, MenuTypeOK
<1>2. cook' \in [Cooks -> Cook]
  BY <1>1
<1>3. ASSUME NEW g \in Cooks, (cook')[g].op \in {"unlink", "delete", "drop"}
      PROVE  InCat((cook')[g].cat) \cap Own((cook')[g].kitchen) \subseteq (cook')[g].dishes \cup strayed
  <2>1. CASE g = h
    BY <1>1, <1>3, <2>1
  <2>2. CASE g # h
    BY <1>1, <1>3, <2>2 DEF MenuIInv, LeaversFound
  <2> QED BY <2>1, <2>2
<1> QED
  BY <1>2, <1>3 DEF LeaversFound, InCat, Own

LEMMA WaitingIsCook == Waiting \in Cook /\ Waiting.op = "none"
BY DEF Waiting, Cook

\* A step after which fewer items have a category, and the links and notes of
\* those that keep theirs are still there.
LEMMA DishesLeave ==
  ASSUME MenuIInv, NEW h,
         cook' = cook \/ (h \in Cooks /\ cook' = [cook EXCEPT ![h] = Waiting]),
         \A i \in Dishes : (dish')[i] \in {dish[i], Uncategorised, NoDish},
         \A i \in Dishes : (dish')[i] \in Cats => (i \in strayed => i \in strayed')
  PROVE  LeaversFound'
<1>1. cook \in [Cooks -> Cook]
  BY DEF MenuIInv, MenuTypeOK
<1>2. ASSUME NEW g \in Cooks, (cook')[g].op \in {"unlink", "delete", "drop"}
      PROVE  (cook')[g] = cook[g]
  BY <1>1, <1>2, WaitingIsCook
<1>3. ASSUME NEW g \in Cooks, cook[g].op \in {"unlink", "delete", "drop"}, NEW i \in Dishes,
             (dish')[i] = cook[g].cat, KitchenOf[i] = cook[g].kitchen
      PROVE  i \in cook[g].dishes \cup strayed'
  <2>1. cook[g].cat \in Cats
    BY <1>1, <1>3 DEF Cook
  <2>2. dish[i] = cook[g].cat
    BY <1>3, <2>1, NoDishAssumption, UncategorisedAssumption
  <2>3. i \in cook[g].dishes \cup strayed
    BY <1>3, <2>2 DEF MenuIInv, LeaversFound, InCat, Own
  <2> QED BY <1>3, <2>1, <2>2, <2>3
<1>4. ASSUME NEW g \in Cooks, (cook')[g].op \in {"unlink", "delete", "drop"}, NEW i \in Dishes,
             (dish')[i] = (cook')[g].cat, KitchenOf[i] = (cook')[g].kitchen
      PROVE  i \in (cook')[g].dishes \cup strayed'
  BY <1>2, <1>3, <1>4
<1> QED
  BY <1>4 DEF LeaversFound, InCat, Own

LEMMA MenuLoadsKeep ==
  ASSUME MenuIInv, NEW h \in Cooks,
         \/ \E k \in Kitchens, c \in Cats :
              LinkLoad(h, k, c) \/ \E op \in {"unlink", "delete"} : UnlinkLoad(h, k, c, op)
         \/ \E i \in Dishes, to \in Cats \cup {Uncategorised} : DishLoad(h, i, to)
         \/ LinkCount(h)
         \/ CookFails(h)
  PROVE  MenuIInv'
<1>1. PICK w \in Cook :
        /\ cook' = [cook EXCEPT ![h] = w] /\ UNCHANGED <<known, links, dish, strayed>>
        /\ w.op \in {"unlink", "delete", "drop"} =>
             InCat(w.cat) \cap Own(w.kitchen) \subseteq w.dishes \cup strayed
  <2> DEFINE Found(w) ==
        /\ cook' = [cook EXCEPT ![h] = w] /\ UNCHANGED <<known, links, dish, strayed>>
        /\ w.op \in {"unlink", "delete", "drop"} =>
             InCat(w.cat) \cap Own(w.kitchen) \subseteq w.dishes \cup strayed
  <2>1. ASSUME NEW k \in Kitchens, NEW c \in Cats, LinkLoad(h, k, c)
        PROVE  \E w \in Cook : Found(w)
    <3> DEFINE make == c \notin known
               linked == <<k, c>> \in links
               w == [op |-> "link", kitchen |-> k, cat |-> c, make |-> make, linked |-> linked]
    <3>1. make \in BOOLEAN /\ linked \in BOOLEAN
      OBVIOUS
    <3>2. Found(w)
      BY <2>1 DEF LinkLoad, Cooking
    <3> HIDE DEF make, linked, Found
    <3>3. w \in Cook
      BY <3>1 DEF Cook
    <3> QED BY <3>2, <3>3
  <2>2. ASSUME NEW k \in Kitchens, NEW c \in Cats, NEW op \in {"unlink", "delete"},
               UnlinkLoad(h, k, c, op)
        PROVE  \E w \in Cook : Found(w)
    <3> DEFINE w == [op |-> op, kitchen |-> k, cat |-> c, dishes |-> InCat(c) \cap Own(k)]
    <3>1. w \in Cook
      BY DEF Cook, InCat, Own
    <3> QED BY <2>2, <3>1 DEF UnlinkLoad, Cooking
  <2>3. ASSUME NEW i \in Dishes, NEW to \in Cats \cup {Uncategorised}, DishLoad(h, i, to)
        PROVE  \E w \in Cook : Found(w)
    <3> DEFINE w == [op |-> "put", dish |-> i, cat |-> to, was |-> dish[i]]
    <3>1. dish[i] \in Cats \cup {Uncategorised, NoDish}
      BY DEF MenuIInv, MenuTypeOK
    <3>2. w \in Cook
      BY <3>1 DEF Cook
    <3> QED BY <2>3, <3>2 DEF DishLoad, Cooking
  <2>4. ASSUME LinkCount(h)  PROVE \E w \in Cook : Found(w)
    <3> DEFINE v == cook[h]
               b == \A j \in Kitchens \ {v.kitchen} : <<j, v.cat>> \notin links
               w == [op |-> "drop", kitchen |-> v.kitchen, cat |-> v.cat, dishes |-> v.dishes, last |-> b]
    <3>1. v \in Cook /\ v.op = "delete"
      BY <2>4 DEF LinkCount, MenuIInv, MenuTypeOK
    <3>2. v.kitchen \in Kitchens /\ v.cat \in Cats /\ v.dishes \in SUBSET Dishes
      BY <3>1 DEF Cook
    <3>3. InCat(v.cat) \cap Own(v.kitchen) \subseteq v.dishes \cup strayed
      BY <3>1 DEF MenuIInv, LeaversFound
    <3>4. cook' = [cook EXCEPT ![h] = w] /\ UNCHANGED <<known, links, dish, strayed>>
      BY <2>4 DEF LinkCount
    <3>5. b \in BOOLEAN
      OBVIOUS
    <3>6. w.kitchen = v.kitchen /\ w.cat = v.cat /\ w.dishes = v.dishes
      OBVIOUS
    <3> HIDE DEF v, b
    <3>7. w \in Cook
      BY <3>2, <3>5 DEF Cook
    <3> HIDE DEF w
    <3> QED BY <3>3, <3>4, <3>6, <3>7
  <2>5. ASSUME CookFails(h)  PROVE \E w \in Cook : Found(w)
    BY <2>5, WaitingIsCook DEF CookFails, Served
  <2> QED BY <2>1, <2>2, <2>3, <2>4, <2>5
<1>2. cook' \in [Cooks -> Cook] /\ LeaversFound'
  BY <1>1, CookMoves
<1> QED
  BY <1>1, <1>2 DEF MenuIInv, MenuTypeOK, DishOnItsMenu

LEMMA UnlinkCommitKeeps ==
  ASSUME MenuIInv, NEW h \in Cooks, UnlinkCommit(h)
  PROVE  MenuIInv'
<1> DEFINE w == cook[h]
<1>1. w \in Cook /\ w.op \in {"unlink", "drop"}
  BY DEF UnlinkCommit, MenuIInv, MenuTypeOK
<1>2. w.kitchen \in Kitchens /\ w.cat \in Cats /\ w.dishes \in SUBSET Dishes
  BY <1>1 DEF Cook
<1>3. PICK emptied \in SUBSET Dishes :
        dish' = Emptied(emptied) /\ w.dishes \subseteq emptied
        /\ \/ Dropped(w.cat) /\ InCat(w.cat) \subseteq emptied
           \/ links' = links \ {<<w.kitchen, w.cat>>} /\ known' = known
  <2>1. CASE w.op = "drop" /\ w.last
    <3>1. w.dishes \cup InCat(w.cat) \in SUBSET Dishes
      BY <1>2 DEF InCat
    <3>2. Dropped(w.cat) /\ dish' = Emptied(w.dishes \cup InCat(w.cat))
      BY <2>1 DEF UnlinkCommit
    <3> QED BY <3>1, <3>2
  <2>2. CASE ~(w.op = "drop" /\ w.last)
    <3>1. links' = links \ {<<w.kitchen, w.cat>>} /\ known' = known /\ dish' = Emptied(w.dishes)
      BY <2>2 DEF UnlinkCommit
    <3> QED BY <1>2, <3>1
  <2> QED BY <2>1, <2>2
<1>4. strayed' = {i \in strayed : (dish')[i] \notin {Uncategorised, NoDish}} /\ Served(h)
  BY DEF UnlinkCommit
<1>5. /\ cook \in [Cooks -> Cook] /\ known \subseteq Cats /\ links \subseteq Kitchens \X Cats
      /\ dish \in [Dishes -> Cats \cup {Uncategorised, NoDish}] /\ strayed \subseteq Dishes
  BY DEF MenuIInv, MenuTypeOK
<1>6. /\ dish' \in [Dishes -> Cats \cup {Uncategorised, NoDish}]
      /\ \A i \in Dishes : (dish')[i] = dish[i] \/ (dish')[i] = Uncategorised
      /\ \A i \in emptied : (dish')[i] \notin Cats
  BY <1>3, <1>5, NoDishAssumption, UncategorisedAssumption DEF Emptied
<1>7. MenuTypeOK'
  <2>1. known' \subseteq Cats /\ links' \subseteq Kitchens \X Cats
    BY <1>3, <1>5 DEF Dropped
  <2>2. cook' \in [Cooks -> Cook]
    BY <1>4, <1>5, WaitingIsCook DEF Served
  <2> QED BY <1>4, <1>5, <1>6, <2>1, <2>2 DEF MenuTypeOK
<1>8. \A i \in Dishes : (dish')[i] \in Cats => (i \in strayed => i \in strayed')
  BY <1>4, NoDishAssumption, UncategorisedAssumption
<1>9. LeaversFound'
  <2>1. \A i \in Dishes : (dish')[i] \in {dish[i], Uncategorised, NoDish}
    BY <1>6
  <2>2. cook' = [cook EXCEPT ![h] = Waiting]
    BY <1>4 DEF Served
  <2> QED BY <1>8, <2>1, <2>2, DishesLeave
<1>10. ASSUME NEW i \in Dishes, (dish')[i] \in Cats
       PROVE  <<KitchenOf[i], (dish')[i]>> \in links' \/ i \in strayed'
  <2>1. (dish')[i] = dish[i] /\ i \notin emptied /\ dish[i] \in Cats
    BY <1>6, <1>10, UncategorisedAssumption
  <2>2. CASE i \in strayed
    BY <1>8, <1>10, <2>2
  <2>3. CASE i \notin strayed
    <3>1. <<KitchenOf[i], dish[i]>> \in links
      BY <2>1, <2>3 DEF MenuIInv, DishOnItsMenu
    <3>2. CASE Dropped(w.cat) /\ InCat(w.cat) \subseteq emptied
      <4>1. dish[i] # w.cat
        BY <2>1, <3>2 DEF InCat
      <4> QED BY <2>1, <3>1, <3>2, <4>1 DEF Dropped
    <3>3. CASE links' = links \ {<<w.kitchen, w.cat>>}
      <4>1. ~(KitchenOf[i] = w.kitchen /\ dish[i] = w.cat)
        BY <1>1, <1>3, <2>1, <2>3 DEF MenuIInv, LeaversFound, InCat, Own
      <4> QED BY <2>1, <3>1, <3>3, <4>1
    <3> QED BY <1>3, <3>2, <3>3
  <2> QED BY <2>2, <2>3
<1> QED
  BY <1>7, <1>9, <1>10 DEF MenuIInv, DishOnItsMenu

LEMMA DishCommitKeeps ==
  ASSUME MenuIInv, NEW h \in Cooks, DishCommit(h)
  PROVE  MenuIInv'
<1> DEFINE w == cook[h]
           new == IF w.cat = w.was THEN dish[w.dish] ELSE w.cat
<1>1. w \in Cook /\ w.op = "put"
  BY DEF DishCommit, MenuIInv, MenuTypeOK
<1>2. PICK i \in Dishes, c \in known \cup {Uncategorised} :
        /\ dish' = [dish EXCEPT ![i] = c]
        /\ strayed' =
             IF c = Uncategorised THEN strayed \ {i}
             ELSE IF <<KitchenOf[i], c>> \notin links \/ Leaving(KitchenOf[i], c) THEN strayed \cup {i}
             ELSE strayed
  <2>1. w.dish \in Dishes
    BY <1>1 DEF Cook
  <2>2. new \in known \cup {Uncategorised}
    BY DEF DishCommit
  <2>3. /\ dish' = [dish EXCEPT ![w.dish] = new]
        /\ strayed' =
             IF new = Uncategorised THEN strayed \ {w.dish}
             ELSE IF <<KitchenOf[w.dish], new>> \notin links \/ Leaving(KitchenOf[w.dish], new)
               THEN strayed \cup {w.dish}
             ELSE strayed
    BY DEF DishCommit
  <2> HIDE DEF new, w
  <2> QED BY <2>1, <2>2, <2>3
<1>3. Served(h) /\ UNCHANGED <<known, links>>
  BY DEF DishCommit
<1>4. /\ cook \in [Cooks -> Cook] /\ known \subseteq Cats
      /\ dish \in [Dishes -> Cats \cup {Uncategorised, NoDish}] /\ strayed \subseteq Dishes
  BY DEF MenuIInv, MenuTypeOK
<1>5. (dish')[i] = c /\ \A j \in Dishes \ {i} : (dish')[j] = dish[j] /\ (j \in strayed => j \in strayed')
  BY <1>2, <1>4
<1>6. MenuTypeOK'
  <2>1. dish' \in [Dishes -> Cats \cup {Uncategorised, NoDish}] /\ strayed' \subseteq Dishes
    BY <1>2, <1>4
  <2>2. cook' \in [Cooks -> Cook]
    BY <1>3, <1>4, WaitingIsCook DEF Served
  <2> QED BY <1>3, <2>1, <2>2 DEF MenuIInv, MenuTypeOK
<1>7. ASSUME NEW g \in Cooks, (cook')[g].op \in {"unlink", "delete", "drop"}, NEW j \in Dishes,
             (dish')[j] = (cook')[g].cat, KitchenOf[j] = (cook')[g].kitchen
      PROVE  j \in (cook')[g].dishes \cup strayed'
  <2>1. (cook')[g] = cook[g]
    BY <1>3, <1>4, <1>7, WaitingIsCook DEF Served
  <2>2. cook[g].cat \in Cats
    BY <1>4, <1>7, <2>1 DEF Cook
  <2>3. CASE j = i
    <3>1. c = cook[g].cat /\ KitchenOf[i] = cook[g].kitchen
      BY <1>5, <1>7, <2>1, <2>3
    <3>2. Leaving(KitchenOf[i], c)
      BY <1>7, <2>1, <3>1 DEF Leaving
    <3> QED BY <1>2, <2>2, <2>3, <3>1, <3>2, UncategorisedAssumption
  <2>4. CASE j # i
    <3>1. dish[j] = cook[g].cat /\ KitchenOf[j] = cook[g].kitchen
      BY <1>5, <1>7, <2>1, <2>4
    <3>2. j \in cook[g].dishes \cup strayed
      BY <1>7, <2>1, <3>1 DEF MenuIInv, LeaversFound, InCat, Own
    <3> QED BY <1>5, <2>1, <2>4, <3>2
  <2> QED BY <2>3, <2>4
<1>8. ASSUME NEW j \in Dishes, (dish')[j] \in Cats
      PROVE  <<KitchenOf[j], (dish')[j]>> \in links' \/ j \in strayed'
  <2>1. CASE j = i
    BY <1>2, <1>3, <1>5, <1>8, <2>1, UncategorisedAssumption
  <2>2. CASE j # i
    BY <1>3, <1>5, <1>8, <2>2 DEF MenuIInv, DishOnItsMenu
  <2> QED BY <2>1, <2>2
<1>9. LeaversFound'
  BY <1>7 DEF LeaversFound, InCat, Own
<1> QED
  BY <1>6, <1>8, <1>9 DEF MenuIInv, DishOnItsMenu

LEMMA LinkCommitKeeps ==
  ASSUME MenuIInv, NEW h \in Cooks, LinkCommit(h)
  PROVE  MenuIInv'
<1> DEFINE w == cook[h]
<1>1. w.cat \in Cats /\ w.kitchen \in Kitchens
  BY DEF LinkCommit, MenuIInv, MenuTypeOK, Cook
<1>2. known' = known \cup {w.cat} /\ links \subseteq links' /\ links' \subseteq links \cup {<<w.kitchen, w.cat>>}
  BY DEF LinkCommit
<1>3. cook' = [cook EXCEPT ![h] = Waiting] /\ UNCHANGED <<dish, strayed>>
  BY DEF LinkCommit, Served
<1> HIDE DEF w
<1>4. cook' \in [Cooks -> Cook] /\ LeaversFound'
  BY <1>3, WaitingIsCook, CookMoves
<1> QED
  BY <1>1, <1>2, <1>3, <1>4 DEF MenuIInv, MenuTypeOK, DishOnItsMenu

LEMMA DishDeletedKeeps ==
  ASSUME MenuIInv, NEW i \in Dishes, DishDeleted(i)
  PROVE  MenuIInv'
<1>1. /\ dish' = [dish EXCEPT ![i] = NoDish] /\ strayed' = strayed \ {i}
      /\ UNCHANGED <<known, links, cook>>
  BY DEF DishDeleted
<1>2. dish \in [Dishes -> Cats \cup {Uncategorised, NoDish}] /\ strayed \subseteq Dishes
  BY DEF MenuIInv, MenuTypeOK
<1>3. /\ dish' \in [Dishes -> Cats \cup {Uncategorised, NoDish}] /\ (dish')[i] = NoDish
      /\ \A j \in Dishes \ {i} : (dish')[j] = dish[j]
  BY <1>1, <1>2
<1>4. LeaversFound'
  <2>1. \A j \in Dishes : (dish')[j] \in {dish[j], Uncategorised, NoDish}
    BY <1>3
  <2>2. \A j \in Dishes : (dish')[j] \in Cats => (j \in strayed => j \in strayed')
    BY <1>1, <1>3, NoDishAssumption
  <2> QED BY <1>1, <2>1, <2>2, DishesLeave
<1>5. DishOnItsMenu'
  BY <1>1, <1>3, NoDishAssumption DEF MenuIInv, DishOnItsMenu
<1> QED
  BY <1>1, <1>2, <1>3, <1>4, <1>5 DEF MenuIInv, MenuTypeOK

LEMMA AdminKeeps ==
  ASSUME MenuIInv, NEW c \in Cats,
         AdminDrop(c) \/ \E k \in Kitchens : AdminUnlink(k, c) \/ AdminLink(k, c)
  PROVE  MenuIInv'
<1>1. /\ cook \in [Cooks -> Cook] /\ known \subseteq Cats /\ links \subseteq Kitchens \X Cats
      /\ dish \in [Dishes -> Cats \cup {Uncategorised, NoDish}] /\ strayed \subseteq Dishes
  BY DEF MenuIInv, MenuTypeOK
<1>2. CASE AdminDrop(c)
  <2>1. /\ known' = known \ {c} /\ links' = {l \in links : l[2] # c} /\ cook' = cook
        /\ dish' = Emptied(InCat(c)) /\ strayed' = strayed \ InCat(c)
    BY <1>2 DEF AdminDrop, Dropped
  <2>2. /\ dish' \in [Dishes -> Cats \cup {Uncategorised, NoDish}]
        /\ \A i \in Dishes : (dish')[i] \in {dish[i], Uncategorised, NoDish}
        /\ \A i \in Dishes : (dish')[i] \in Cats => dish[i] # c /\ (dish')[i] = dish[i]
    BY <1>1, <2>1, NoDishAssumption, UncategorisedAssumption DEF Emptied, InCat
  <2>3. \A i \in Dishes : (dish')[i] \in Cats => (i \in strayed => i \in strayed')
    BY <2>1, <2>2 DEF InCat
  <2>4. LeaversFound'
    BY <2>1, <2>2, <2>3, DishesLeave
  <2>5. DishOnItsMenu'
    BY <2>1, <2>2, <2>3 DEF MenuIInv, DishOnItsMenu
  <2> QED BY <1>1, <2>1, <2>2, <2>4, <2>5 DEF MenuIInv, MenuTypeOK
<1>3. ASSUME NEW k \in Kitchens, AdminUnlink(k, c) \/ AdminLink(k, c)
      PROVE  MenuIInv'
  <2>1. UNCHANGED <<known, dish, cook>> /\ strayed \subseteq strayed' /\ strayed' \subseteq Dishes
    BY <1>1, <1>3 DEF AdminUnlink, AdminLink, Own, InCat
  <2>2. LeaversFound'
    BY <2>1, DishesLeave
  <2>3. links' \subseteq Kitchens \X Cats
    BY <1>1, <1>3 DEF AdminUnlink, AdminLink
  <2>4. DishOnItsMenu'
    BY <1>3, <2>1 DEF MenuIInv, DishOnItsMenu, AdminUnlink, AdminLink, InCat, Own
  <2> QED BY <1>1, <2>1, <2>2, <2>3, <2>4 DEF MenuIInv, MenuTypeOK
<1> QED
  BY <1>2, <1>3

LEMMA MenuStep == MenuIInv /\ [MenuNext]_menuVars => MenuIInv'
<1> SUFFICES ASSUME MenuIInv, [MenuNext]_menuVars PROVE MenuIInv'
  OBVIOUS
<1>1. CASE \E h \in Cooks :
             \/ \E k \in Kitchens, c \in Cats :
                  LinkLoad(h, k, c) \/ \E op \in {"unlink", "delete"} : UnlinkLoad(h, k, c, op)
             \/ \E i \in Dishes, c \in Cats \cup {Uncategorised} : DishLoad(h, i, c)
             \/ LinkCount(h) \/ CookFails(h)
  BY <1>1, MenuLoadsKeep
<1>2. CASE \E h \in Cooks : UnlinkCommit(h)
  BY <1>2, UnlinkCommitKeeps
<1>3. CASE \E h \in Cooks : DishCommit(h)
  BY <1>3, DishCommitKeeps
<1>4. CASE \E h \in Cooks : LinkCommit(h)
  BY <1>4, LinkCommitKeeps
<1>5. CASE \E i \in Dishes : DishDeleted(i)
  BY <1>5, DishDeletedKeeps
<1>6. CASE \E c \in Cats : AdminDrop(c) \/ \E k \in Kitchens : AdminUnlink(k, c) \/ AdminLink(k, c)
  BY <1>6, AdminKeeps
<1>7. CASE UNCHANGED menuVars
  BY <1>7 DEF menuVars, MenuIInv, MenuTypeOK, LeaversFound, DishOnItsMenu, InCat, Own
<1> QED
  BY <1>1, <1>2, <1>3, <1>4, <1>5, <1>6, <1>7 DEF MenuNext

\* For every set of restaurants, categories, items and requests: an item that no
\* race and no administrator strayed is in a category of its own menu
\* (delete_category, create_menu_item, update_menu_item).
THEOREM DishOnItsMenuAlways == MenuSpec => []DishOnItsMenu
<1>1. MenuIInv => DishOnItsMenu
  BY DEF MenuIInv
<1> QED
  BY <1>1, MenuInitial, MenuStep, PTL DEF MenuSpec

-----------------------------------------------------------------------------
(* Ratings *)

\* A request in flight is a record that says whether it was alone; one that was
\* holds the cached columns as they are, and what it counted still counts.
GuestExact(w) ==
  /\ "alone" \in DOMAIN w
  /\ w.alone => w.base = cached /\ (w.at = "counted" => w.fresh = Counted(FALSE))

RatingIInv ==
  /\ DOMAIN guest = Guests /\ guest = [g \in Guests |-> guest[g]]
  /\ cached = [count |-> cached.count, average |-> cached.average]
  /\ RatingRepaired
  /\ \A g \in Guests : guest[g] # AtHome => GuestExact(guest[g])

\* The same of what a step makes of a request, against the state it leaves.
LeftExact(w) ==
  /\ "alone" \in DOMAIN w
  /\ w.alone => w.base = cached' /\ (w.at = "counted" => w.fresh = Counted(FALSE)')

\* What is counted is a pair of columns, of the reviews alone.
LEMMA CountedColumns ==
  ASSUME NEW all
  PROVE  Counted(all) = [count |-> Counted(all).count, average |-> Counted(all).average]
BY DEF Counted

LEMMA CountedAgain ==
  ASSUME UNCHANGED review
  PROVE  Counted(FALSE)' = Counted(FALSE)
BY DEF Counted, Present

LEMMA Undisturbed ==
  ASSUME RatingIInv, UNCHANGED <<review, cached, guest, exact>>
  PROVE  RatingIInv'
<1>1. Counted(FALSE)' = Counted(FALSE)  BY CountedAgain
<1>2. RatingRepaired'  BY <1>1 DEF RatingIInv, RatingRepaired
<1>3. ASSUME NEW h \in Guests, guest[h] # AtHome
      PROVE  GuestExact(guest[h])'
  <2>1. GuestExact(guest[h])  BY <1>3 DEF RatingIInv
  <2> QED BY <1>1, <2>1 DEF GuestExact
<1> QED BY <1>2, <1>3 DEF RatingIInv

\* A request whose step others can see leaves nobody else alone.
LEMMA Disturbed ==
  ASSUME RatingIInv, NEW g \in Guests, NEW own, guest' = Disturb(g, own),
         own # AtHome => LeftExact(own),
         (cached = [count |-> cached.count, average |-> cached.average])',
         RatingRepaired'
  PROVE  RatingIInv'
<1>1. ASSUME NEW h \in Guests, (guest')[h] # AtHome
      PROVE  GuestExact(guest[h])'
  <2>1. CASE h = g
    <3>1. (guest')[h] = own  BY <2>1 DEF Disturb
    <3>2. LeftExact((guest')[h])  BY <1>1, <3>1
    <3> QED BY <3>2 DEF GuestExact, LeftExact
  <2>2. CASE h # g
    <3>1. (guest')[h] = IF guest[h] = AtHome THEN AtHome ELSE [guest[h] EXCEPT !.alone = FALSE]
      BY <2>2 DEF Disturb
    <3>2. "alone" \in DOMAIN guest[h]
      BY <1>1, <3>1 DEF RatingIInv, GuestExact
    <3>3. "alone" \in DOMAIN (guest')[h] /\ (guest')[h].alone = FALSE
      BY <1>1, <3>1, <3>2
    <3> QED BY <3>3 DEF GuestExact
  <2> QED BY <2>1, <2>2
<1>2. DOMAIN guest' = Guests /\ guest' = [h \in Guests |-> (guest')[h]]
  BY DEF Disturb
<1> QED BY <1>1, <1>2 DEF RatingIInv

LEMMA RatingInitial == RatingInit => RatingIInv
<1> SUFFICES ASSUME RatingInit  PROVE RatingIInv
  OBVIOUS
<1>1. {s \in Reviews : Present(s) /\ review[s].shown} = {}
  BY DEF RatingInit, Present
<1>2. Counted(FALSE) = [count |-> 0, average |-> 0]
  BY <1>1, FS_EmptySet DEF Counted, Average
<1> QED BY <1>2 DEF RatingInit, RatingIInv, RatingRepaired

\* The steps of a request that only read.
LEMMA RatingReads ==
  ASSUME RatingIInv, NEW g \in Guests,
         \/ \E op \in GuestOps, s \in Reviews, rating \in Rates \cup {NoRating} :
              ReviewLoad(g, op, s, rating)
         \/ SyncRead(g) \/ GuestDies(g)
  PROVE  RatingIInv'
<1>1. UNCHANGED <<review, cached, exact>>
  BY DEF ReviewLoad, SyncRead, GuestDies
<1>2. Counted(FALSE)' = Counted(FALSE)  BY <1>1, CountedAgain
<1>3. ASSUME NEW own, guest' = [guest EXCEPT ![g] = own], own # AtHome => GuestExact(own)
      PROVE  RatingIInv'
  <2>1. ASSUME NEW h \in Guests, (guest')[h] # AtHome
        PROVE  GuestExact(guest[h])'
    <3>1. (guest')[h] = IF h = g THEN own ELSE guest[h]
      BY <1>3 DEF RatingIInv
    <3>2. GuestExact((guest')[h])
      BY <1>3, <2>1, <3>1 DEF RatingIInv
    <3> QED BY <1>1, <1>2, <3>2 DEF GuestExact
  <2> QED BY <1>1, <1>2, <1>3, <2>1 DEF RatingIInv, RatingRepaired
<1>4. CASE GuestDies(g)
  BY <1>3, <1>4 DEF GuestDies
<1>5. ASSUME NEW op, NEW s, NEW rating, ReviewLoad(g, op, s, rating)
      PROVE  RatingIInv'
  <2> DEFINE own == [at |-> "loaded", op |-> op, id |-> s, rating |-> rating,
                     was |-> review[s], base |-> cached, alone |-> TRUE]
  <2>1. GuestExact(own)  BY DEF GuestExact
  <2>2. guest' = [guest EXCEPT ![g] = own]  BY <1>5 DEF ReviewLoad
  <2> HIDE DEF own
  <2> QED BY <1>3, <2>1, <2>2
<1>6. CASE SyncRead(g)
  <2> DEFINE w == guest[g]
             own == [at |-> "counted", base |-> w.base, fresh |-> Counted(FALSE),
                     alone |-> w.alone]
  <2>1. w.at = "written" /\ guest' = [guest EXCEPT ![g] = own]
    BY <1>6 DEF SyncRead
  <2>2. w # AtHome  BY <2>1 DEF AtHome
  <2>3. GuestExact(own)  BY <2>2 DEF GuestExact, RatingIInv
  <2> HIDE DEF own
  <2> QED BY <1>3, <2>1, <2>3
<1> QED BY <1>4, <1>5, <1>6

\* The commit of a review: whoever was alone before still holds the columns.
LEMMA ReviewCommitKeeps ==
  ASSUME RatingIInv, NEW g \in Guests, ReviewCommit(g)
  PROVE  RatingIInv'
<1> DEFINE w == guest[g]
           own == [at |-> "written", base |-> w.base, alone |-> w.alone]
<1>1. w.at = "loaded" /\ guest' = Disturb(g, own) /\ exact' = FALSE /\ UNCHANGED cached
  BY DEF ReviewCommit
<1>2. w # AtHome  BY <1>1 DEF AtHome
<1>3. LeftExact(own)
  BY <1>1, <1>2 DEF LeftExact, GuestExact, RatingIInv
<1>4. RatingRepaired' /\ (cached = [count |-> cached.count, average |-> cached.average])'
  BY <1>1 DEF RatingRepaired, RatingIInv
<1> HIDE DEF own
<1> QED BY <1>1, <1>3, <1>4, Disturbed

\* The commit of the count: alone, it writes what the reviews add up to.
LEMMA SyncCommitKeeps ==
  ASSUME RatingIInv, NEW g \in Guests, SyncCommit(g)
  PROVE  RatingIInv'
<1> DEFINE w == guest[g]
<1>1. /\ w.at = "counted" /\ guest' = Disturb(g, AtHome) /\ exact' = w.alone
      /\ UNCHANGED review
      /\ cached' = [count |-> IF w.fresh.count = w.base.count
                                THEN cached.count ELSE w.fresh.count,
                    average |-> IF w.fresh.average = w.base.average
                                  THEN cached.average ELSE w.fresh.average]
  BY DEF SyncCommit
<1>2. w # AtHome  BY <1>1 DEF AtHome
<1>3. ASSUME w.alone  PROVE cached' = Counted(FALSE)
  <2>1. w.base = cached /\ w.fresh = Counted(FALSE)
    BY <1>1, <1>2, <1>3 DEF RatingIInv, GuestExact
  <2>2. cached' = [count |-> w.fresh.count, average |-> w.fresh.average]
    BY <1>1, <2>1
  <2> QED BY <2>1, <2>2, CountedColumns
<1>4. Counted(FALSE)' = Counted(FALSE)  BY <1>1, CountedAgain
<1>5. RatingRepaired'  BY <1>1, <1>3, <1>4 DEF RatingRepaired
<1>6. (cached = [count |-> cached.count, average |-> cached.average])'  BY <1>1
<1> QED BY <1>1, <1>5, <1>6, Disturbed

LEMMA UnsyncedKeeps ==
  ASSUME RatingIInv, Unsynced
  PROVE  RatingIInv'
<1>1. ASSUME NEW h \in Guests, (guest')[h] # AtHome
      PROVE  GuestExact(guest[h])'
  <2>1. (guest')[h] = IF guest[h] = AtHome THEN AtHome ELSE [guest[h] EXCEPT !.alone = FALSE]
    BY DEF Unsynced, DisturbAll
  <2>2. "alone" \in DOMAIN guest[h]
    BY <1>1, <2>1 DEF RatingIInv, GuestExact
  <2>3. "alone" \in DOMAIN (guest')[h] /\ (guest')[h].alone = FALSE
    BY <1>1, <2>1, <2>2
  <2> QED BY <2>3 DEF GuestExact
<1>2. DOMAIN guest' = Guests /\ guest' = [h \in Guests |-> (guest')[h]]
  BY DEF Unsynced, DisturbAll
<1> QED BY <1>1, <1>2 DEF Unsynced, RatingIInv, RatingRepaired

\* A review that is written, edited or deleted while nobody else changes the
\* restaurant leaves its cached rating exact, for any number of reviews and
\* requests (sync_review_stats).
THEOREM RatingRepairedAlways == RatingSpec => []RatingRepaired
<1>1. ASSUME RatingIInv, [RatingNext]_ratingVars
      PROVE  RatingIInv'
  <2>1. ASSUME NEW s \in Sales, Deliver(s)  PROVE RatingIInv'
    <3>1. UNCHANGED <<review, cached, guest, exact>>  BY <2>1 DEF Deliver
    <3> QED BY <1>1, <3>1, Undisturbed
  <2>2. CASE UNCHANGED ratingVars
    <3>1. UNCHANGED <<review, cached, guest, exact>>  BY <2>2 DEF ratingVars
    <3> QED BY <1>1, <3>1, Undisturbed
  <2>3. CASE \E s \in Reviews :
               \/ \E rating \in Rates : PostLegacy(s, rating)
               \/ \E shown \in BOOLEAN : Moderate(s, shown)
               \/ AdminDelete(s)
    <3>1. Unsynced  BY <2>3 DEF PostLegacy, Moderate, AdminDelete
    <3> QED BY <1>1, <3>1, UnsyncedKeeps
  <2> QED
    BY <1>1, <2>1, <2>2, <2>3, RatingReads, ReviewCommitKeeps, SyncCommitKeeps DEF RatingNext
<1>2. RatingIInv => RatingRepaired
  BY DEF RatingIInv
<1> QED BY <1>1, <1>2, RatingInitial, PTL DEF RatingSpec
=============================================================================
