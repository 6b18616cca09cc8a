---------------------------- MODULE TotalsProofs ----------------------------
(***************************************************************************)
(* What adds up: sums over finite sets, and proofs with them about the     *)
(* reports of Analytics, the prices of Selections and the unread counts of *)
(* Conversations, for every set of orders, items, options and messages.    *)
(*                                                                         *)
(* The sum of the community modules is a recursive function.  That it is   *)
(* one, and what it computes, is proved by induction on finite sets: a set *)
(* of counterexamples has one that is least by inclusion (WFMin).          *)
(***************************************************************************)
EXTENDS Analytics, Selections, Conversations, FiniteSetTheorems, WellFoundedInduction, TLAPS

-----------------------------------------------------------------------------
(* Sums over finite sets *)

Sum(f, S) == SumFunctionOnSet(f, S)
Chosen(S) == CHOOSE x \in S : TRUE

Unrolls(g, f, S) == g = [T \in SUBSET S |-> IF T = {} THEN 0 ELSE f[Chosen(T)] + g[T \ {Chosen(T)}]]

LEMMA SumUnfold ==
  ASSUME NEW f, NEW S
  PROVE  Sum(f, S) = (CHOOSE g : Unrolls(g, f, S))[S]
BY DEF Sum, SumFunctionOnSet, FoldFunctionOnSet, MapThenFoldSet, Unrolls, Chosen

LEMMA SubsetInduction ==
  ASSUME NEW S, IsFiniteSet(S), NEW G,
         \A T \in SUBSET S : (\A U \in SUBSET T : U # T => U \in G) => T \in G
  PROVE  \A T \in SUBSET S : T \in G
<1> DEFINE R == StrictSubsetOrdering(S)
           Bad == (SUBSET S) \ G
<1>1. IsWellFoundedOn(R, SUBSET S)
  BY FS_StrictSubsetOrderingWellFounded, FS_FiniteSubsetsOfFinite
<1>2. ASSUME Bad # {}  PROVE FALSE
  <2>0. Bad \subseteq SUBSET S  OBVIOUS
  <2> HIDE DEF R, Bad
  <2>1. PICK T \in Bad : \A U \in Bad : <<U, T>> \notin R
    BY <1>1, <1>2, <2>0, WFMin
  <2>2. T \in SUBSET S /\ T \notin G
    BY DEF Bad
  <2>3. ASSUME NEW U \in SUBSET T, U # T  PROVE U \in G
    <3>1. <<U, T>> \in R  BY <2>2, <2>3 DEF R, StrictSubsetOrdering
    <3> QED BY <2>1, <2>2, <3>1 DEF Bad
  <2> QED BY <2>2, <2>3
<1> QED BY <1>2

\* Two unrollings agree where both are defined.
LEMMA UnrolledOnce ==
  ASSUME NEW f, NEW S, NEW T, NEW g, NEW h, Unrolls(g, f, S), Unrolls(h, f, T),
         NEW U, IsFiniteSet(U), U \subseteq S, U \subseteq T
  PROVE  g[U] = h[U]
<1> DEFINE G == {V \in SUBSET U : g[V] = h[V]}
<1>1. ASSUME NEW V \in SUBSET U, \A W \in SUBSET V : W # V => W \in G
      PROVE  V \in G
  <2>1. CASE V = {}
    <3>1. g[V] = 0  BY <2>1 DEF Unrolls
    <3>2. h[V] = 0  BY <2>1 DEF Unrolls
    <3> QED BY <3>1, <3>2
  <2>2. CASE V # {}
    <3> DEFINE W == V \ {Chosen(V)}
    <3>1. Chosen(V) \in V  BY <2>2 DEF Chosen
    <3>2. W \in G  BY <1>1, <3>1
    <3>3. g[V] = f[Chosen(V)] + g[W]  BY <2>2 DEF Unrolls
    <3>4. h[V] = f[Chosen(V)] + h[W]  BY <2>2 DEF Unrolls
    <3> QED BY <3>2, <3>3, <3>4
  <2> QED BY <2>1, <2>2
<1> HIDE DEF G
<1>2. \A V \in SUBSET U : V \in G
  BY <1>1, SubsetInduction
<1> QED BY <1>2 DEF G

LEMMA SumIs ==
  ASSUME NEW f, NEW S, IsFiniteSet(S), NEW g, Unrolls(g, f, S)
  PROVE  \A U \in SUBSET S : g[U] = Sum(f, U)
<1> SUFFICES ASSUME NEW U \in SUBSET S  PROVE g[U] = Sum(f, U)
  OBVIOUS
<1>1. Unrolls([T \in SUBSET U |-> g[T]], f, U)
  BY DEF Unrolls
<1>2. PICK h : Unrolls(h, f, U) /\ Sum(f, U) = h[U]
  BY <1>1, SumUnfold
<1>3. IsFiniteSet(U)  BY FS_Subset
<1> QED BY <1>2, <1>3, UnrolledOnce

LEMMA SumUnrolls ==
  ASSUME NEW f, NEW S, IsFiniteSet(S)
  PROVE  \E g : Unrolls(g, f, S)
<1> DEFINE G == {T \in SUBSET S : \E g : Unrolls(g, f, T)}
<1>1. ASSUME NEW T \in SUBSET S, \A U \in SUBSET T : U # T => U \in G
      PROVE  T \in G
  <2> DEFINE g == [V \in SUBSET T |-> IF V = {} THEN 0 ELSE f[Chosen(V)] + Sum(f, V \ {Chosen(V)})]
  <2>1. ASSUME NEW U \in SUBSET T, U # T
        PROVE  g[U] = Sum(f, U)
    <3>1. PICK h : Unrolls(h, f, U)  BY <1>1, <2>1
    <3>2. IsFiniteSet(U)  BY FS_Subset
    <3>3. \A V \in SUBSET U : h[V] = Sum(f, V)  BY <3>1, <3>2, SumIs
    <3>4. h[U] = IF U = {} THEN 0 ELSE f[Chosen(U)] + h[U \ {Chosen(U)}]
      BY <3>1 DEF Unrolls
    <3> QED BY <3>3, <3>4
  <2>2. ASSUME NEW V \in SUBSET T, V # {}
        PROVE  g[V \ {Chosen(V)}] = Sum(f, V \ {Chosen(V)})
    <3>1. Chosen(V) \in V  BY <2>2 DEF Chosen
    <3> HIDE DEF g
    <3> QED BY <2>1, <3>1
  <2>3. g = [V \in SUBSET T |-> IF V = {} THEN 0 ELSE f[Chosen(V)] + g[V \ {Chosen(V)}]]
    BY <2>2
  <2> HIDE DEF g
  <2> QED BY <2>3 DEF Unrolls
<1> HIDE DEF G
<1>2. \A T \in SUBSET S : T \in G
  BY <1>1, SubsetInduction
<1> QED BY <1>2 DEF G

LEMMA SumRecurs ==
  ASSUME NEW f, NEW S, IsFiniteSet(S)
  PROVE  Sum(f, S) = IF S = {} THEN 0 ELSE f[Chosen(S)] + Sum(f, S \ {Chosen(S)})
<1>1. PICK g : Unrolls(g, f, S)  BY SumUnrolls
<1>2. \A U \in SUBSET S : g[U] = Sum(f, U)  BY <1>1, SumIs
<1>3. g[S] = IF S = {} THEN 0 ELSE f[Chosen(S)] + g[S \ {Chosen(S)}]
  BY <1>1 DEF Unrolls
<1> QED BY <1>2, <1>3

LEMMA ImageFinite ==
  \A f, S : IsFiniteSet(S) => IsFiniteSet({f[x] : x \in S})
<1> SUFFICES ASSUME NEW f, NEW S, IsFiniteSet(S)  PROVE IsFiniteSet({f[x] : x \in S})
  OBVIOUS
<1> DEFINE T == {f[x] : x \in S}
           g == [x \in S |-> f[x]]
<1>1. g \in Surjection(S, T)
  BY DEF Surjection
<1> HIDE DEF g, T
<1>2. IsFiniteSet(T)  BY <1>1, FS_Surjection
<1> QED BY <1>2 DEF T

LEMMA SumEmpty == \A f : Sum(f, {}) = 0
BY SumRecurs, FS_EmptySet

\* Induction on a finite set of which one element at a time is removed.
LEMMA RemovalInduction ==
  ASSUME NEW S, IsFiniteSet(S), NEW G, {} \in G,
         \A T \in SUBSET S : T # {} => ((T \ {Chosen(T)}) \in G => T \in G)
  PROVE  S \in G
<1>1. ASSUME NEW T \in SUBSET S, \A U \in SUBSET T : U # T => U \in G
      PROVE  T \in G
  <2>1. CASE T = {}  BY <2>1
  <2>2. CASE T # {}
    <3>1. Chosen(T) \in T  BY <2>2 DEF Chosen
    <3>2. (T \ {Chosen(T)}) \in G  BY <1>1, <3>1
    <3> QED BY <2>2, <3>2
  <2> QED BY <2>1, <2>2
<1> QED BY <1>1, SubsetInduction

\* A sum of integers is one.
LEMMA SumInt ==
  ASSUME NEW f, NEW S, IsFiniteSet(S), \A x \in S : f[x] \in Int
  PROVE  Sum(f, S) \in Int
<1> DEFINE G == {T \in SUBSET S : Sum(f, T) \in Int}
<1>1. {} \in G  BY SumEmpty
<1>2. ASSUME NEW T \in SUBSET S, T # {}, (T \ {Chosen(T)}) \in G
      PROVE  T \in G
  <2>1. IsFiniteSet(T)  BY FS_Subset
  <2>2. Chosen(T) \in T  BY <1>2 DEF Chosen
  <2>3. Sum(f, T) = f[Chosen(T)] + Sum(f, T \ {Chosen(T)})
    BY <1>2, <2>1, SumRecurs
  <2> QED BY <1>2, <2>2, <2>3
<1> HIDE DEF G
<1>3. S \in G  BY <1>1, <1>2, RemovalInduction
<1> QED BY <1>3 DEF G

\* Any element may be added last.
LEMMA SumRemove ==
  ASSUME NEW f, NEW S, IsFiniteSet(S), \A x \in S : f[x] \in Int, NEW e \in S
  PROVE  Sum(f, S) = f[e] + Sum(f, S \ {e})
<1> DEFINE G == {T \in SUBSET S : \A x \in T : Sum(f, T) = f[x] + Sum(f, T \ {x})}
<1>1. ASSUME NEW T \in SUBSET S, \A U \in SUBSET T : U # T => U \in G
      PROVE  T \in G
  <2> SUFFICES ASSUME NEW x \in T  PROVE Sum(f, T) = f[x] + Sum(f, T \ {x})
    OBVIOUS
  <2> DEFINE c == Chosen(T)
             U == T \ {c}
             V == T \ {x}
             W == U \ {x}
  <2>1. c \in T  BY DEF Chosen
  <2>2. \A P \in SUBSET S : IsFiniteSet(P) /\ Sum(f, P) \in Int
    BY FS_Subset, SumInt
  <2>3. Sum(f, T) = f[c] + Sum(f, U)
    BY <2>2, SumRecurs
  <2>4. CASE x = c  BY <2>3, <2>4
  <2>5. CASE x # c
    <3>1. Sum(f, U) = f[x] + Sum(f, W)
      <4>1. U \in G  BY <1>1, <2>1
      <4> QED BY <4>1, <2>5
    <3>2. Sum(f, V) = f[c] + Sum(f, W)
      <4>1. V \in G  BY <1>1
      <4>2. Sum(f, V) = f[c] + Sum(f, V \ {c})
        BY <4>1, <2>1, <2>5
      <4>3. V \ {c} = W  OBVIOUS
      <4> QED BY <4>2, <4>3
    <3>3. f[c] \in Int /\ f[x] \in Int /\ Sum(f, W) \in Int
      BY <2>1, <2>2
    <3> HIDE DEF c, U, V, W
    <3>4. Sum(f, T) = f[x] + Sum(f, V)
      BY <2>3, <3>1, <3>2, <3>3
    <3> QED BY <3>4 DEF V
  <2> QED BY <2>4, <2>5
<1> HIDE DEF G
<1>2. \A T \in SUBSET S : T \in G
  BY <1>1, SubsetInduction
<1>3. S \in G  BY <1>2
<1> QED BY <1>3 DEF G

LEMMA SumAdd ==
  ASSUME NEW f, NEW S, IsFiniteSet(S), NEW e, e \notin S, \A x \in S \cup {e} : f[x] \in Int
  PROVE  Sum(f, S \cup {e}) = f[e] + Sum(f, S)
<1>1. IsFiniteSet(S \cup {e}) /\ (S \cup {e}) \ {e} = S  BY FS_AddElement
<1> QED BY <1>1, SumRemove

\* Sums over functions that agree, or of which one is nowhere above the other.
LEMMA SumOrder ==
  ASSUME NEW f, NEW g, NEW S, IsFiniteSet(S), \A x \in S : f[x] \in Int /\ g[x] \in Int,
         \A x \in S : f[x] <= g[x]
  PROVE  Sum(f, S) <= Sum(g, S)
<1> DEFINE G == {T \in SUBSET S : Sum(f, T) <= Sum(g, T)}
<1>1. {} \in G  BY SumEmpty
<1>2. ASSUME NEW T \in SUBSET S, T # {}, (T \ {Chosen(T)}) \in G
      PROVE  T \in G
  <2> DEFINE c == Chosen(T)  U == T \ {c}
  <2>1. IsFiniteSet(T) /\ IsFiniteSet(U)  BY FS_Subset
  <2>2. c \in T  BY <1>2 DEF Chosen
  <2>3. Sum(f, T) = f[c] + Sum(f, U) /\ Sum(g, T) = g[c] + Sum(g, U)
    BY <1>2, <2>1, SumRecurs
  <2>4. Sum(f, U) \in Int /\ Sum(g, U) \in Int  BY <2>1, SumInt
  <2>5. Sum(f, U) <= Sum(g, U)  BY <1>2
  <2>6. f[c] \in Int /\ g[c] \in Int /\ f[c] <= g[c]  BY <2>2
  <2> HIDE DEF c, U
  <2>7. Sum(f, T) <= Sum(g, T)  BY <2>3, <2>4, <2>5, <2>6
  <2> QED BY <2>7
<1> HIDE DEF G
<1>3. S \in G  BY <1>1, <1>2, RemovalInduction
<1> QED BY <1>3 DEF G

LEMMA SumAgree ==
  ASSUME NEW f, NEW g, NEW S, IsFiniteSet(S), \A x \in S : f[x] \in Int,
         \A x \in S : f[x] = g[x]
  PROVE  Sum(f, S) = Sum(g, S)
<1>1. Sum(f, S) \in Int /\ Sum(g, S) \in Int  BY SumInt
<1>2. Sum(f, S) <= Sum(g, S) /\ Sum(g, S) <= Sum(f, S)  BY SumOrder
<1> QED BY <1>1, <1>2

LEMMA SumNat ==
  ASSUME NEW f, NEW S, IsFiniteSet(S), \A x \in S : f[x] \in Nat
  PROVE  Sum(f, S) \in Nat
<1> DEFINE G == {T \in SUBSET S : Sum(f, T) \in Nat}
<1>1. {} \in G  BY SumEmpty
<1>2. ASSUME NEW T \in SUBSET S, T # {}, (T \ {Chosen(T)}) \in G
      PROVE  T \in G
  <2>1. IsFiniteSet(T)  BY FS_Subset
  <2>2. Chosen(T) \in T  BY <1>2 DEF Chosen
  <2>3. Sum(f, T) = f[Chosen(T)] + Sum(f, T \ {Chosen(T)})
    BY <1>2, <2>1, SumRecurs
  <2> QED BY <1>2, <2>2, <2>3
<1> HIDE DEF G
<1>3. S \in G  BY <1>1, <1>2, RemovalInduction
<1> QED BY <1>3 DEF G

\* A set in two parts.
LEMMA SumParts ==
  ASSUME NEW f, NEW S, NEW T, IsFiniteSet(S), IsFiniteSet(T), S \cap T = {},
         \A x \in S \cup T : f[x] \in Int
  PROVE  Sum(f, S \cup T) = Sum(f, S) + Sum(f, T)
<1> DEFINE G == {P \in SUBSET S : Sum(f, P \cup T) = Sum(f, P) + Sum(f, T)}
<1>0. Sum(f, T) \in Int  BY SumInt
<1>1. {} \in G
  <2>1. {} \cup T = T  OBVIOUS
  <2> QED BY <1>0, <2>1, SumEmpty
<1>2. ASSUME NEW P \in SUBSET S, P # {}, (P \ {Chosen(P)}) \in G
      PROVE  P \in G
  <2> DEFINE c == Chosen(P)  U == P \ {c}
  <2>1. IsFiniteSet(P) /\ IsFiniteSet(U) /\ IsFiniteSet(P \cup T)  BY FS_Subset, FS_Union
  <2>2. c \in P  BY <1>2 DEF Chosen
  <2>3. Sum(f, P) = f[c] + Sum(f, U)
    BY <1>2, <2>1, SumRecurs
  <2>4. (P \cup T) \ {c} = U \cup T  BY <2>2
  <2>5. Sum(f, P \cup T) = f[c] + Sum(f, U \cup T)
    <3>1. c \in P \cup T /\ \A x \in P \cup T : f[x] \in Int  BY <2>2
    <3> QED BY <2>1, <2>4, <3>1, SumRemove
  <2>6. Sum(f, U) \in Int /\ f[c] \in Int  BY <2>1, <2>2, SumInt
  <2>7. Sum(f, U \cup T) = Sum(f, U) + Sum(f, T)  BY <1>2
  <2> HIDE DEF c, U
  <2>8. Sum(f, P \cup T) = Sum(f, P) + Sum(f, T)
    BY <1>0, <2>3, <2>5, <2>6, <2>7
  <2> QED BY <2>8
<1> HIDE DEF G
<1>3. S \in G  BY <1>1, <1>2, RemovalInduction
<1> QED BY <1>3 DEF G

LEMMA SumSubset ==
  ASSUME NEW f, NEW S, IsFiniteSet(S), \A x \in S : f[x] \in Nat, NEW T \in SUBSET S
  PROVE  Sum(f, T) <= Sum(f, S)
<1>1. IsFiniteSet(T) /\ IsFiniteSet(S \ T) /\ T \cup (S \ T) = S  BY FS_Subset
<1>2. Sum(f, S) = Sum(f, T) + Sum(f, S \ T)
  <2>1. T \cap (S \ T) = {} /\ \A x \in T \cup (S \ T) : f[x] \in Int  OBVIOUS
  <2> QED BY <1>1, <2>1, SumParts
<1>3. Sum(f, T) \in Nat /\ Sum(f, S \ T) \in Nat  BY <1>1, SumNat
<1> QED BY <1>2, <1>3

\* The sum of a sum, and a constant sum.
LEMMA SumPlus ==
  ASSUME NEW f, NEW g, NEW h, NEW S, IsFiniteSet(S),
         \A x \in S : f[x] \in Int /\ g[x] \in Int /\ h[x] = f[x] + g[x]
  PROVE  Sum(h, S) = Sum(f, S) + Sum(g, S)
<1> DEFINE G == {P \in SUBSET S : Sum(h, P) = Sum(f, P) + Sum(g, P)}
<1>1. {} \in G  BY SumEmpty
<1>2. ASSUME NEW P \in SUBSET S, P # {}, (P \ {Chosen(P)}) \in G
      PROVE  P \in G
  <2> DEFINE c == Chosen(P)  U == P \ {c}
  <2>1. IsFiniteSet(P) /\ IsFiniteSet(U)  BY FS_Subset
  <2>2. c \in P  BY <1>2 DEF Chosen
  <2>3. Sum(f, P) = f[c] + Sum(f, U) /\ Sum(g, P) = g[c] + Sum(g, U) /\ Sum(h, P) = h[c] + Sum(h, U)
    BY <1>2, <2>1, SumRecurs
  <2>4. Sum(f, U) \in Int /\ Sum(g, U) \in Int  BY <2>1, SumInt
  <2>5. f[c] \in Int /\ g[c] \in Int /\ h[c] = f[c] + g[c]  BY <2>2
  <2>6. Sum(h, U) = Sum(f, U) + Sum(g, U)  BY <1>2
  <2> HIDE DEF c, U
  <2>7. Sum(h, P) = Sum(f, P) + Sum(g, P)  BY <2>3, <2>4, <2>5, <2>6
  <2> QED BY <2>7
<1> HIDE DEF G
<1>3. S \in G  BY <1>1, <1>2, RemovalInduction
<1> QED BY <1>3 DEF G

LEMMA SumTimes ==
  ASSUME NEW f, NEW h, NEW a \in Int, NEW S, IsFiniteSet(S),
         \A x \in S : f[x] \in Int /\ h[x] = a * f[x]
  PROVE  Sum(h, S) = a * Sum(f, S)
<1> DEFINE G == {P \in SUBSET S : Sum(h, P) = a * Sum(f, P)}
<1>1. {} \in G  BY SumEmpty
<1>2. ASSUME NEW P \in SUBSET S, P # {}, (P \ {Chosen(P)}) \in G
      PROVE  P \in G
  <2> DEFINE c == Chosen(P)  U == P \ {c}
  <2>1. IsFiniteSet(P) /\ IsFiniteSet(U)  BY FS_Subset
  <2>2. c \in P  BY <1>2 DEF Chosen
  <2>3. Sum(f, P) = f[c] + Sum(f, U) /\ Sum(h, P) = h[c] + Sum(h, U)
    BY <1>2, <2>1, SumRecurs
  <2>4. Sum(f, U) \in Int  BY <2>1, SumInt
  <2>5. f[c] \in Int /\ h[c] = a * f[c]  BY <2>2
  <2>6. Sum(h, U) = a * Sum(f, U)  BY <1>2
  <2> HIDE DEF c, U
  <2>7. Sum(h, P) = a * Sum(f, P)  BY <2>3, <2>4, <2>5, <2>6
  <2> QED BY <2>7
<1> HIDE DEF G
<1>3. S \in G  BY <1>1, <1>2, RemovalInduction
<1> QED BY <1>3 DEF G

LEMMA SumOnes ==
  ASSUME NEW f, NEW S, IsFiniteSet(S), \A x \in S : f[x] = 1
  PROVE  Sum(f, S) = Cardinality(S)
<1> DEFINE G == {P \in SUBSET S : Sum(f, P) = Cardinality(P)}
<1>1. {} \in G  BY SumEmpty, FS_EmptySet
<1>2. ASSUME NEW P \in SUBSET S, P # {}, (P \ {Chosen(P)}) \in G
      PROVE  P \in G
  <2> DEFINE c == Chosen(P)  U == P \ {c}
  <2>1. IsFiniteSet(P)  BY FS_Subset
  <2>2. c \in P  BY <1>2 DEF Chosen
  <2>3. Sum(f, P) = f[c] + Sum(f, U)  BY <1>2, <2>1, SumRecurs
  <2>4. Cardinality(U) = Cardinality(P) - 1 /\ Cardinality(P) \in Nat
    BY <2>1, <2>2, FS_RemoveElement, FS_CardinalityType
  <2>5. f[c] = 1 /\ Sum(f, U) = Cardinality(U)  BY <1>2, <2>2
  <2> HIDE DEF c, U
  <2>6. Sum(f, P) = Cardinality(P)  BY <2>3, <2>4, <2>5
  <2> QED BY <2>6
<1> HIDE DEF G
<1>3. S \in G  BY <1>1, <1>2, RemovalInduction
<1> QED BY <1>3 DEF G

\* A sum in groups: by a key of what is added up.
LEMMA SumByKey ==
  ASSUME NEW f, NEW S, IsFiniteSet(S), \A x \in S : f[x] \in Int,
         NEW K, IsFiniteSet(K), NEW key, \A x \in S : key[x] \in K,
         NEW h, \A k \in K : h[k] = Sum(f, {x \in S : key[x] = k})
  PROVE  Sum(h, K) = Sum(f, S)
<1> DEFINE Of(Q) == {x \in S : key[x] \in Q}
           G == {Q \in SUBSET K : Sum(h, Q) = Sum(f, Of(Q))}
<1>1. {} \in G
  <2>1. Of({}) = {}  OBVIOUS
  <2> QED BY <2>1, SumEmpty
<1>2. ASSUME NEW Q \in SUBSET K, Q # {}, (Q \ {Chosen(Q)}) \in G
      PROVE  Q \in G
  <2> DEFINE c == Chosen(Q)  U == Q \ {c}  E == {x \in S : key[x] = c}
  <2>1. IsFiniteSet(Q)  BY FS_Subset
  <2>2. c \in Q  BY <1>2 DEF Chosen
  <2>3. Sum(h, Q) = h[c] + Sum(h, U)  BY <1>2, <2>1, SumRecurs
  <2>4. h[c] = Sum(f, E)  BY <2>2
  <2>5. Of(Q) = Of(U) \cup E /\ Of(U) \cap E = {}  BY <2>2
  <2>6. IsFiniteSet(Of(U)) /\ IsFiniteSet(E)  BY FS_Subset
  <2>7. Sum(f, Of(Q)) = Sum(f, Of(U)) + Sum(f, E)
    <3> DEFINE V == Of(U)
    <3>1. \A x \in V \cup E : f[x] \in Int  OBVIOUS
    <3>2. Of(Q) = V \cup E /\ V \cap E = {} /\ IsFiniteSet(V) /\ IsFiniteSet(E)
      BY <2>5, <2>6
    <3> HIDE DEF V, E
    <3>3. Sum(f, V \cup E) = Sum(f, V) + Sum(f, E)
      BY <3>1, <3>2, SumParts
    <3> QED BY <3>2, <3>3 DEF V
  <2>8. Sum(f, Of(U)) \in Int /\ Sum(f, E) \in Int  BY <2>6, SumInt
  <2>9. Sum(h, U) = Sum(f, Of(U))  BY <1>2
  <2> HIDE DEF c, U, E, Of
  <2>10. Sum(h, Q) = Sum(f, Of(Q))  BY <2>3, <2>4, <2>7, <2>8, <2>9
  <2> QED BY <2>10
<1> HIDE DEF G
<1>3. K \in G  BY <1>1, <1>2, RemovalInduction
<1>4. Of(K) = S  OBVIOUS
<1> HIDE DEF Of
<1>5. Sum(h, K) = Sum(f, Of(K))  BY <1>3 DEF G
<1> QED BY <1>4, <1>5

\* A table by its rows a and its columns b, and the sums f and g of them.
IsTable(R, C, a, b, f, g) ==
  /\ IsFiniteSet(R) /\ IsFiniteSet(C)
  /\ \A x \in R, y \in C : a[x][y] \in Int /\ b[y][x] = a[x][y]
  /\ \A x \in R : f[x] = Sum(a[x], C)
  /\ \A y \in C : g[y] = Sum(b[y], R)

\* It adds up to the same by rows and by columns.
LEMMA SumSwap ==
  ASSUME NEW R, NEW C, NEW a, NEW b, NEW f, NEW g, IsTable(R, C, a, b, f, g)
  PROVE  Sum(f, R) = Sum(g, C)
<1> USE DEF IsTable
<1> DEFINE Upto(Q) == [x \in R |-> Sum(a[x], Q)]
           G == {Q \in SUBSET C : Sum(g, Q) = Sum(Upto(Q), R)}
<1>0. \A Q \in SUBSET C : IsFiniteSet(Q)  BY FS_Subset
<1>1. \A Q \in SUBSET C : \A x \in R : Upto(Q)[x] \in Int
  <2> SUFFICES ASSUME NEW Q \in SUBSET C, NEW x \in R  PROVE Sum(a[x], Q) \in Int
    OBVIOUS
  <2> QED BY <1>0, SumInt
<1>2. {} \in G
  <2>1. \A x \in R : Upto({})[x] = 0  BY SumEmpty
  <2>2. \A x \in R : Upto({})[x] = 0 * 1  BY <2>1
  <2> DEFINE one == [x \in R |-> 1]
  <2>3. Sum(Upto({}), R) = 0 * Sum(one, R)
    <3>1. \A x \in R : one[x] \in Int /\ Upto({})[x] = 0 * one[x]  BY <2>1
    <3> HIDE DEF one, Upto
    <3> QED BY <3>1, SumTimes
  <2>4. Sum(one, R) \in Int  BY SumInt
  <2> HIDE DEF one, Upto
  <2>5. Sum(g, {}) = Sum(Upto({}), R)  BY <2>3, <2>4, SumEmpty
  <2> QED BY <2>5
<1>3. ASSUME NEW Q \in SUBSET C, Q # {}, (Q \ {Chosen(Q)}) \in G
      PROVE  Q \in G
  <2> DEFINE c == Chosen(Q)  U == Q \ {c}  col == b[c]
  <2>1. c \in Q  BY <1>3 DEF Chosen
  <2>2. Sum(g, Q) = g[c] + Sum(g, U)  BY <1>0, <1>3, SumRecurs
  <2>3. g[c] = Sum(col, R)  BY <2>1
  <2>4. \A x \in R : Upto(Q)[x] = Upto(U)[x] + col[x]
    <3> SUFFICES ASSUME NEW x \in R  PROVE Sum(a[x], Q) = Sum(a[x], U) + a[x][c]
      BY <2>1
    <3>1. Sum(a[x], Q) = a[x][c] + Sum(a[x], U)  BY <1>0, <1>3, SumRecurs
    <3>2. a[x][c] \in Int  BY <2>1
    <3>3. Sum(a[x], U) \in Int  BY <1>0, SumInt
    <3> HIDE DEF c, U
    <3> QED BY <3>1, <3>2, <3>3
  <2>5. \A x \in R : Upto(U)[x] \in Int /\ col[x] \in Int  BY <1>1, <2>1
  <2>6. Sum(g, U) = Sum(Upto(U), R)  BY <1>3
  <2> HIDE DEF c, U, col, Upto
  <2>7. Sum(Upto(Q), R) = Sum(Upto(U), R) + Sum(col, R)
    BY <2>4, <2>5, SumPlus
  <2>8. Sum(Upto(U), R) \in Int /\ Sum(col, R) \in Int  BY <2>5, SumInt
  <2>9. Sum(g, Q) = Sum(Upto(Q), R)  BY <2>2, <2>3, <2>6, <2>7, <2>8
  <2> QED BY <2>9
<1> HIDE DEF G
<1>4. C \in G  BY <1>2, <1>3, RemovalInduction
<1>5. Sum(g, C) = Sum(Upto(C), R)  BY <1>4 DEF G
<1>6. \A x \in R : Upto(C)[x] = f[x]  OBVIOUS
<1>7. \A x \in R : Upto(C)[x] \in Int  BY <1>1
<1> HIDE DEF Upto
<1> QED BY <1>5, <1>6, <1>7, SumAgree

\* What is left of a whole that is shared out in proportion, each share cut off.
LEMMA SharesOfWhole ==
  ASSUME NEW C, IsFiniteSet(C), NEW p, \A y \in C : p[y] \in Nat,
         NEW M \in Nat, NEW s, Sum(p, C) > 0,
         \A y \in C : s[y] = (M * p[y]) \div Sum(p, C)
  PROVE  /\ Sum(s, C) \in Nat
         /\ Sum(s, C) <= M
         /\ M <= Sum(s, C) + Cardinality(C)
<1> DEFINE D == Sum(p, C)
           G == {Q \in SUBSET C : /\ D * Sum(s, Q) <= M * Sum(p, Q)
                                  /\ M * Sum(p, Q) <= D * (Sum(s, Q) + Cardinality(Q))}
<1>1. D \in Nat /\ D > 0  BY SumNat
<1> HIDE DEF D
<1>2. ASSUME NEW y \in C
      PROVE  /\ s[y] \in Nat /\ D * s[y] <= M * p[y]
             /\ M * p[y] <= D * (s[y] + 1)
  <2> DEFINE n == M * p[y]
  <2>1. n \in Nat  OBVIOUS
  <2>2. s[y] = n \div D  BY DEF D
  <2> HIDE DEF n
  <2>3. n \div D \in Nat /\ D * (n \div D) <= n /\ n <= D * ((n \div D) + 1)
    BY <1>1, <2>1
  <2> QED BY <2>2, <2>3 DEF n
<1>3. {} \in G  BY <1>1, SumEmpty, FS_EmptySet
<1>4. ASSUME NEW Q \in SUBSET C, Q # {}, (Q \ {Chosen(Q)}) \in G
      PROVE  Q \in G
  <2> DEFINE c == Chosen(Q)  U == Q \ {c}
  <2>1. IsFiniteSet(Q) /\ IsFiniteSet(U)  BY FS_Subset
  <2>2. c \in Q  BY <1>4 DEF Chosen
  <2>3. Sum(p, Q) = p[c] + Sum(p, U) /\ Sum(s, Q) = s[c] + Sum(s, U)
    BY <1>4, <2>1, SumRecurs
  <2>4. Cardinality(Q) = Cardinality(U) + 1 /\ Cardinality(U) \in Nat
    BY <2>1, <2>2, FS_RemoveElement, FS_CardinalityType
  <2>5. Sum(p, U) \in Nat /\ Sum(s, U) \in Nat
    <3>1. \A y \in U : p[y] \in Nat /\ s[y] \in Nat  BY <1>2
    <3> QED BY <2>1, <3>1, SumNat
  <2>6. /\ p[c] \in Nat /\ s[c] \in Nat /\ D * s[c] <= M * p[c]
        /\ M * p[c] <= D * (s[c] + 1)
    BY <1>2, <2>2
  <2>7. D * Sum(s, U) <= M * Sum(p, U) /\ M * Sum(p, U) <= D * (Sum(s, U) + Cardinality(U))
    BY <1>4
  <2> HIDE DEF c, U
  <2>8. D * Sum(s, Q) <= M * Sum(p, Q)
    BY <1>1, <2>3, <2>5, <2>6, <2>7
  <2>9. M * Sum(p, Q) <= D * (Sum(s, Q) + Cardinality(Q))
    BY <1>1, <2>3, <2>4, <2>5, <2>6, <2>7
  <2> QED BY <2>8, <2>9
<1> HIDE DEF G
<1>5. C \in G  BY <1>3, <1>4, RemovalInduction
<1>6. Sum(s, C) \in Nat /\ Cardinality(C) \in Nat
  BY <1>2, SumNat, FS_CardinalityType
<1>7. D * Sum(s, C) <= M * D /\ M * D <= D * (Sum(s, C) + Cardinality(C))
  BY <1>5 DEF G, D
<1> DEFINE S == Sum(s, C)
<1> HIDE DEF S
<1>8. S <= M  BY <1>1, <1>6, <1>7 DEF S
<1>9. M <= Sum(s, C) + Cardinality(C)  BY <1>1, <1>6, <1>7
<1> QED BY <1>6, <1>8, <1>9 DEF S

-----------------------------------------------------------------------------
(* Analytics: the calendar *)

LEMMA Largest ==
  ASSUME NEW S, IsFiniteSet(S), S \subseteq Int, S # {}
  PROVE  Max(S) \in S /\ \A y \in S : y <= Max(S)
<1> DEFINE G == {T \in SUBSET S : T = {} \/ \E m \in T : \A y \in T : m >= y}
<1>1. {} \in G  OBVIOUS
<1>2. ASSUME NEW T \in SUBSET S, T # {}, (T \ {Chosen(T)}) \in G
      PROVE  T \in G
  <2> DEFINE c == Chosen(T)  U == T \ {c}
  <2>1. c \in T  BY <1>2 DEF Chosen
  <2>2. CASE U = {}
    <3>1. \A y \in T : c >= y  BY <2>1, <2>2
    <3> QED BY <2>1, <3>1
  <2>3. CASE U # {}
    <3>1. PICK m \in U : \A y \in U : m >= y  BY <1>2, <2>3
    <3>2. CASE c >= m
      <4>1. ASSUME NEW y \in T  PROVE c >= y
        <5>1. c \in Int /\ m \in Int /\ y \in Int  BY <2>1
        <5>2. y = c \/ y \in U  OBVIOUS
        <5> HIDE DEF c, U
        <5> QED BY <3>1, <3>2, <5>1, <5>2
      <4> QED BY <2>1, <4>1
    <3>3. CASE ~(c >= m)
      <4>1. \A y \in T : m >= y  BY <2>1, <3>1, <3>3
      <4> QED BY <3>1, <4>1
    <3> QED BY <3>2, <3>3
  <2> QED BY <2>2, <2>3
<1> HIDE DEF G
<1>3. S \in G  BY <1>1, <1>2, RemovalInduction
<1>4. \E m \in S : \A y \in S : m >= y  BY <1>3 DEF G
<1>5. Max(S) \in S /\ \A y \in S : Max(S) >= y  BY <1>4 DEF Max
<1> QED BY <1>5

LEMMA Smallest ==
  ASSUME NEW S, IsFiniteSet(S), S \subseteq Int, S # {}
  PROVE  Min(S) \in S /\ \A y \in S : Min(S) <= y
<1> DEFINE G == {T \in SUBSET S : T = {} \/ \E m \in T : \A y \in T : m <= y}
<1>1. {} \in G  OBVIOUS
<1>2. ASSUME NEW T \in SUBSET S, T # {}, (T \ {Chosen(T)}) \in G
      PROVE  T \in G
  <2> DEFINE c == Chosen(T)  U == T \ {c}
  <2>1. c \in T  BY <1>2 DEF Chosen
  <2>2. CASE U = {}
    <3>1. \A y \in T : c <= y  BY <2>1, <2>2
    <3> QED BY <2>1, <3>1
  <2>3. CASE U # {}
    <3>1. PICK m \in U : \A y \in U : m <= y  BY <1>2, <2>3
    <3>2. CASE c <= m
      <4>1. ASSUME NEW y \in T  PROVE c <= y
        <5>1. c \in Int /\ m \in Int /\ y \in Int  BY <2>1
        <5>2. y = c \/ y \in U  OBVIOUS
        <5> HIDE DEF c, U
        <5> QED BY <3>1, <3>2, <5>1, <5>2
      <4> QED BY <2>1, <4>1
    <3>3. CASE ~(c <= m)
      <4>1. \A y \in T : m <= y  BY <2>1, <3>1, <3>3
      <4> QED BY <3>1, <4>1
    <3> QED BY <3>2, <3>3
  <2> QED BY <2>2, <2>3
<1> HIDE DEF G
<1>3. S \in G  BY <1>1, <1>2, RemovalInduction
<1>4. \E m \in S : \A y \in S : m <= y  BY <1>3 DEF G
<1>5. Min(S) \in S /\ \A y \in S : Min(S) <= y  BY <1>4 DEF Min
<1> QED BY <1>5

Starts(n) == {s \in MonthStarts : s <= n}

LEMMA StartsAreDays ==
  \A n : IsFiniteSet(Starts(n)) /\ Starts(n) \subseteq Int /\ (\A s : s \in Starts(n) <=> s \in MonthStarts /\ s \in Int /\ s <= n)
BY CalendarAssumption, FS_Subset DEF Starts

\* The month of a day begins with the last start that is not after it.
LEMMA FirstIsStart ==
  ASSUME NEW d \in Int, Starts(d) # {}
  PROVE  /\ FirstOfMonth(d) \in Starts(d)
         /\ \A s \in Starts(d) : s <= FirstOfMonth(d)
<1>1. IsFiniteSet(Starts(d)) /\ Starts(d) \subseteq Int
  BY CalendarAssumption, FS_Subset DEF Starts
<1> QED BY <1>1, Largest DEF FirstOfMonth, Starts

\* The starts that are past grow with the day.
LEMMA MonthsCount ==
  ASSUME NEW d \in Int, NEW e \in Int, d <= e
  PROVE  /\ Cardinality(Starts(d)) \in Nat /\ Cardinality(Starts(e)) \in Nat
         /\ Cardinality(Starts(d)) <= Cardinality(Starts(e))
         /\ Cardinality(Starts(d)) = Cardinality(Starts(e)) => Starts(d) = Starts(e)
<1>1. ASSUME NEW s \in Starts(d)  PROVE s \in Starts(e)
  BY StartsAreDays
<1>2. IsFiniteSet(Starts(d)) /\ IsFiniteSet(Starts(e))
  BY CalendarAssumption, FS_Subset DEF Starts
<1> QED BY <1>1, <1>2, FS_Subset, FS_CardinalityType

LEMMA LastMonthMeant ==
  ASSUME today \in Todays
  PROVE  LET r == LastMonth(today) IN
         /\ r[1] \in MonthStarts /\ r[2] \in Int /\ r[2] < today
         /\ \A d \in Int : d <= today =>
              (d \in r[1]..r[2] <=> Cardinality(Starts(d)) = Cardinality(Starts(today)) - 1)
<1> DEFINE F == FirstOfMonth(today)
           B == FirstOfMonth(F - 1)
<1>1. today \in Int  BY CalendarAssumption
<1>2. PICK m, n \in MonthStarts : m < n /\ n <= today  BY CalendarAssumption
<1>3. F \in MonthStarts /\ F \in Int /\ F <= today /\ \A x \in MonthStarts : x <= today => x <= F
  <2>1. Starts(today) # {}  BY <1>2 DEF Starts
  <2> QED BY <1>1, <2>1, FirstIsStart, CalendarAssumption DEF Starts
<1> HIDE DEF F
<1>4. B \in MonthStarts /\ B \in Int /\ B <= F - 1 /\ \A x \in MonthStarts : x <= F - 1 => x <= B
  <2>1. m \in Int /\ n \in Int  BY CalendarAssumption
  <2>2. m <= F - 1  BY <1>2, <1>3, <2>1
  <2>3. Starts(F - 1) # {}  BY <2>2 DEF Starts
  <2>4. F - 1 \in Int  BY <1>3
  <2>5. FirstOfMonth(F - 1) \in Starts(F - 1) /\ \A x \in Starts(F - 1) : x <= FirstOfMonth(F - 1)
    BY <2>3, <2>4, FirstIsStart
  <2> QED BY <2>5, CalendarAssumption DEF Starts
<1> HIDE DEF B
<1>5. LastMonth(today) = <<B, F - 1>>  BY DEF LastMonth, F, B
<1>6. \A s : s \in Starts(today) <=> s \in Starts(F)
  BY <1>1, <1>3, StartsAreDays
<1>7. \A s : s \in Starts(F) <=> s \in Starts(F - 1) \/ s = F
  BY <1>3, StartsAreDays
<1>8. \A s : s \in Starts(F - 1) <=> s \in Starts(B)
  BY <1>3, <1>4, StartsAreDays
<1>9. Cardinality(Starts(today)) = Cardinality(Starts(B)) + 1 /\ Cardinality(Starts(B)) \in Nat
  <2>1. IsFiniteSet(Starts(B))  BY CalendarAssumption, FS_Subset DEF Starts
  <2>2. Starts(today) = Starts(B) \cup {F}  BY <1>6, <1>7, <1>8
  <2>3. F \notin Starts(B)  BY <1>3, <1>4, StartsAreDays
  <2> QED BY <2>1, <2>2, <2>3, FS_AddElement, FS_CardinalityType
<1>10. ASSUME NEW d \in Int, d <= today
       PROVE  d \in B..(F - 1) <=> Cardinality(Starts(d)) = Cardinality(Starts(today)) - 1
  <2>1. CASE d < B
    <3>1. B \in Starts(B) /\ B \notin Starts(d)  BY <1>4, <2>1 DEF Starts
    <3>2. Cardinality(Starts(d)) # Cardinality(Starts(B))
      BY <1>4, <2>1, <3>1, MonthsCount
    <3> QED BY <1>4, <1>9, <2>1, <3>2
  <2>2. CASE B <= d /\ d <= F - 1
    <3>1. \A s : s \in Starts(d) <=> s \in Starts(B)
      BY <1>3, <1>4, <2>2, StartsAreDays
    <3>2. Starts(d) = Starts(B)  BY <3>1
    <3> QED BY <1>3, <1>4, <1>9, <2>2, <3>2
  <2>3. CASE F <= d
    <3>1. \A s : s \in Starts(d) <=> s \in Starts(today)
      BY <1>1, <1>3, <1>10, <2>3, StartsAreDays
    <3>2. Starts(d) = Starts(today)  BY <3>1
    <3> QED BY <1>3, <1>4, <1>9, <2>3, <3>2
  <2> QED BY <1>3, <1>4, <2>1, <2>2, <2>3
<1> QED BY <1>1, <1>3, <1>4, <1>5, <1>10

\* The days of a period are those its label means, none of them before the
\* calendar or in the future.
LEMMA RangeMeant ==
  ASSUME today \in Todays, NEW w, w.period \in Periods
  PROVE  /\ \A d \in Min(MonthStarts)..today : d \in Days(w) <=> Meant(w.period, d)
         /\ Days(w) \subseteq Min(MonthStarts)..today
         /\ IsFiniteSet(Days(w)) /\ Days(w) \subseteq Int
<1> DEFINE r == DateRange(w.period, today)
           L == Min(MonthStarts)
<1>1. today \in Int  BY CalendarAssumption
<1>2. L \in Int /\ L <= today - 29 /\ \A s \in MonthStarts : L <= s
  <2>1. \A s \in MonthStarts : L <= s  BY CalendarAssumption, Smallest
  <2>2. L \in MonthStarts  BY CalendarAssumption, Smallest
  <2>3. PICK s \in MonthStarts : s <= today - 29  BY CalendarAssumption
  <2> HIDE DEF L
  <2> QED BY <1>1, <2>1, <2>2, <2>3, CalendarAssumption
<1> HIDE DEF L
<1>3. /\ r[1] \in Int /\ r[2] \in Int /\ L <= r[1] /\ r[2] <= today
      /\ \A d \in L..today : d \in r[1]..r[2] <=> Meant(w.period, d)
  <2>1. CASE w.period = "today"
    BY <1>1, <1>2, <2>1 DEF DateRange, Meant
  <2>2. CASE w.period = "yesterday"
    BY <1>1, <1>2, <2>2 DEF DateRange, Meant
  <2>3. CASE w.period = "last_7_days"
    BY <1>1, <1>2, <2>3 DEF DateRange, Meant
  <2>4. CASE w.period = "last_week"
    <3> DEFINE q == today \div 7
    <3>1. r = <<today - Weekday(today) - 7, today - Weekday(today) - 1>>
      BY <2>4 DEF DateRange
    <3>2. \A d : Meant(w.period, d) <=> d \div 7 = today \div 7 - 1
      BY <2>4 DEF Meant
    <3>3. q \in Int /\ today - Weekday(today) = 7 * q /\ 7 * q <= today /\ today <= 7 * q + 6
      BY <1>1 DEF Weekday
    <3>4. r[1] = 7 * q - 7 /\ r[2] = 7 * q - 1
      BY <3>1, <3>3
    <3> HIDE DEF r, q
    <3>5. \A d \in Int : d \in 7 * q - 7..7 * q - 1 <=> d \div 7 = q - 1
      BY <3>3
    <3>6. \A d \in L..today : d \in Int  BY <1>1, <1>2
    <3> QED BY <1>1, <1>2, <3>2, <3>3, <3>4, <3>5, <3>6 DEF q
  <2>5. CASE w.period = "last_30_days"
    BY <1>1, <1>2, <2>5 DEF DateRange, Meant
  <2>6. CASE w.period = "last_month"
    <3>1. r = LastMonth(today)  BY <2>6 DEF DateRange
    <3>2. \A d : Meant(w.period, d) <=> Cardinality(Starts(d)) = Cardinality(Starts(today)) - 1
      BY <2>6 DEF Meant, Starts
    <3> HIDE DEF r
    <3>3. /\ r[1] \in MonthStarts /\ r[2] \in Int /\ r[2] < today
          /\ \A d \in Int : d <= today =>
               (d \in r[1]..r[2] <=> Cardinality(Starts(d)) = Cardinality(Starts(today)) - 1)
      BY <3>1, LastMonthMeant
    <3>4. r[1] \in Int /\ L <= r[1]  BY <1>2, <3>3, CalendarAssumption
    <3>5. \A d \in L..today : d \in Int /\ d <= today  BY <1>1, <1>2
    <3> QED BY <1>1, <3>2, <3>3, <3>4, <3>5
  <2>7. CASE w.period = "this_year"
    BY <1>1, <1>2, <2>7, CalendarAssumption DEF DateRange, Meant
  <2> QED BY <2>1, <2>2, <2>3, <2>4, <2>5, <2>6, <2>7 DEF Periods
<1>4. Days(w) = r[1]..r[2]  BY DEF Days
<1> HIDE DEF r
<1>5. IsFiniteSet(r[1]..r[2])  BY <1>3, FS_Interval
<1> QED BY <1>1, <1>2, <1>3, <1>4, <1>5 DEF L

-----------------------------------------------------------------------------
(* Analytics: the tables *)

LEMMA SumWhole == \A f : SumFunction(f) = Sum(f, DOMAIN f)
BY DEF SumFunction, Sum

\* A function of a set and one that only is longer have the same sum over it.
LEMMA SumShorter ==
  ASSUME NEW f, NEW T, NEW S \in SUBSET T, IsFiniteSet(S), f = [x \in T |-> f[x]],
         \A x \in S : f[x] \in Int
  PROVE  SumFunction([x \in S |-> f[x]]) = Sum(f, S)
<1> DEFINE g == [x \in S |-> f[x]]
<1>1. SumFunction(g) = Sum(g, DOMAIN g)  BY SumWhole
<1>2. DOMAIN g = S /\ \A x \in S : g[x] = f[x] /\ g[x] \in Int  OBVIOUS
<1> HIDE DEF g
<1>3. SumFunction(g) = Sum(f, S)  BY <1>1, <1>2, SumAgree
<1> QED BY <1>3 DEF g

LinePrices(t) == [i \in Meals |-> Price[i] * Lines[t][i]]
Shares(t) == [i \in Meals |-> Allocate(t, i)]
Hundredths == [t \in Tickets |-> 100 * Total(t)]
PointsEach == [t \in Tickets |-> Points(t)]

LEMMA TotalsAreNat ==
  ASSUME NEW t \in Tickets
  PROVE  /\ Subtotal(t) \in Nat /\ Total(t) \in Nat /\ Points(t) \in Nat
         /\ Subtotal(t) = Sum(LinePrices(t), Meals)
         /\ \A i \in Meals : LinePrices(t)[i] \in Nat /\ Allocate(t, i) \in Int
<1>1. \A i \in Meals : Price[i] \in Nat /\ Lines[t][i] \in Nat
  BY TicketsAssumption
<1>2. \A i \in Meals : LinePrices(t)[i] \in Nat
  BY <1>1 DEF LinePrices
<1>3. Subtotal(t) = Sum(LinePrices(t), Meals)
  <2>1. DOMAIN LinePrices(t) = Meals  BY DEF LinePrices
  <2> QED BY <2>1, SumWhole DEF Subtotal, LinePrices
<1>4. Subtotal(t) \in Nat  BY <1>2, <1>3, SumNat, TicketsAssumption
<1>5. Total(t) \in Nat  BY <1>4, TicketsAssumption DEF Total
<1>6. Points(t) \in Nat
  <2>1. LoyaltyRate \in Nat /\ LoyaltyRate > 0  BY CalendarAssumption
  <2> QED BY <1>5, <2>1 DEF Points
<1>7. ASSUME NEW i \in Meals  PROVE Allocate(t, i) \in Int
  <2> DEFINE n == Price[i] * Lines[t][i]
  <2>1. n \in Nat  BY <1>1
  <2>2. 100 * Price[i] * Lines[t][i] = 100 * n  BY <1>1
  <2> HIDE DEF n
  <2>3. Total(t) * (100 * n) \in Nat  BY <1>5, <2>1
  <2>4. Subtotal(t) > 0 => (Total(t) * (100 * n)) \div Subtotal(t) \in Int  BY <1>4, <2>3
  <2> QED BY <2>1, <2>2, <2>4 DEF Allocate
<1> QED BY <1>2, <1>3, <1>4, <1>5, <1>6, <1>7

LEMMA SpendIsSum ==
  ASSUME NEW S \in SUBSET Tickets
  PROVE  IsFiniteSet(S) /\ Spend(S) = Sum(Hundredths, S) /\ Spend(S) \in Int
<1> DEFINE f == [t \in Tickets |-> Total(t)]
<1>1. IsFiniteSet(S)  BY TicketsAssumption, FS_Subset
<1>2. \A t \in S : f[t] \in Int /\ Hundredths[t] \in Int /\ Hundredths[t] = 100 * f[t]
  BY TotalsAreNat DEF Hundredths
<1>3. [t \in S |-> Total(t)] = [t \in S |-> f[t]] /\ f = [t \in Tickets |-> f[t]]
  OBVIOUS
<1> HIDE DEF f
<1>4. SumFunction([t \in S |-> Total(t)]) = Sum(f, S)
  BY <1>1, <1>2, <1>3, SumShorter
<1>5. Sum(Hundredths, S) = 100 * Sum(f, S)  BY <1>1, <1>2, SumTimes
<1>6. Sum(Hundredths, S) \in Int  BY <1>1, <1>2, SumInt
<1> QED BY <1>1, <1>4, <1>5, <1>6 DEF Spend

LEMMA PointsIsSum ==
  ASSUME NEW S \in SUBSET Tickets
  PROVE  IsFiniteSet(S) /\ PointsOf(S) = Sum(PointsEach, S) /\ PointsOf(S) \in Nat
<1>1. IsFiniteSet(S)  BY TicketsAssumption, FS_Subset
<1>2. \A t \in S : PointsEach[t] \in Nat  BY TotalsAreNat DEF PointsEach
<1>3. [t \in S |-> Points(t)] = [t \in S |-> PointsEach[t]] /\ PointsEach = [t \in Tickets |-> PointsEach[t]]
  BY DEF PointsEach
<1>4. PointsOf(S) = Sum(PointsEach, S)
  BY <1>1, <1>2, <1>3, SumShorter DEF PointsOf
<1>5. Sum(PointsEach, S) \in Nat  BY <1>1, <1>2, SumNat
<1> QED BY <1>1, <1>4, <1>5

\* Spent by a key of the orders adds up to what was spent.
LEMMA SpendByKey ==
  ASSUME NEW S \in SUBSET Tickets, NEW K, IsFiniteSet(K), NEW key, \A t \in S : key[t] \in K,
         NEW h, DOMAIN h = K, \A k \in K : h[k] = Spend({t \in S : key[t] = k})
  PROVE  SumFunction(h) = Spend(S)
<1>1. IsFiniteSet(S) /\ Spend(S) = Sum(Hundredths, S)  BY SpendIsSum
<1>2. \A k \in K : h[k] = Sum(Hundredths, {t \in S : key[t] = k})
  <2> SUFFICES ASSUME NEW k \in K
               PROVE  Spend({t \in S : key[t] = k}) = Sum(Hundredths, {t \in S : key[t] = k})
    OBVIOUS
  <2>1. {t \in S : key[t] = k} \in SUBSET Tickets  OBVIOUS
  <2> QED BY <2>1, SpendIsSum
<1>3. \A t \in S : Hundredths[t] \in Int  BY TotalsAreNat DEF Hundredths
<1>4. Sum(h, K) = Sum(Hundredths, S)  BY <1>1, <1>2, <1>3, SumByKey
<1> QED BY <1>1, <1>4, SumWhole

\* What the lines of one order are allocated, short of its total by less than one
\* unit a line.
LEMMA AllocatedToOne ==
  ASSUME NEW t \in Tickets, Subtotal(t) > 0
  PROVE  /\ Sum(Shares(t), Meals) \in Int
         /\ Sum(Shares(t), Meals) <= Hundredths[t]
         /\ Hundredths[t] <= Sum(Shares(t), Meals) + Cardinality(Meals)
<1> DEFINE p == LinePrices(t)
           M == 100 * Total(t)
           s == Shares(t)
<1>1. /\ Subtotal(t) \in Nat /\ Total(t) \in Nat /\ Subtotal(t) = Sum(p, Meals)
      /\ \A i \in Meals : p[i] \in Nat
  BY TotalsAreNat
<1>2. ASSUME NEW i \in Meals
      PROVE  s[i] = (M * p[i]) \div Sum(p, Meals)
  <2>1. Price[i] \in Nat /\ Lines[t][i] \in Nat  BY TicketsAssumption
  <2>2. Total(t) * (100 * Price[i] * Lines[t][i]) = M * (Price[i] * Lines[t][i])
    BY <1>1, <2>1
  <2>3. p[i] = Price[i] * Lines[t][i]  BY DEF LinePrices
  <2>4. s[i] = (Total(t) * (100 * Price[i] * Lines[t][i])) \div Subtotal(t)
    BY DEF Shares, Allocate
  <2> HIDE DEF p, M, s
  <2> QED BY <1>1, <2>2, <2>3, <2>4
<1>3. M \in Nat /\ M = Hundredths[t]  BY <1>1 DEF Hundredths
<1>4. IsFiniteSet(Meals)  BY TicketsAssumption
<1> HIDE DEF p, M, s
<1>5. Sum(s, Meals) \in Nat /\ Sum(s, Meals) <= M /\ M <= Sum(s, Meals) + Cardinality(Meals)
  BY <1>1, <1>2, <1>3, <1>4, SharesOfWhole
<1> QED BY <1>3, <1>5 DEF s

\* A table of what the lines are allocated, by a key of the menu items.
LEMMA AllocatedByKey ==
  ASSUME NEW rows \in RowSets, NEW b, \A t \in DOMAIN rows : Subtotal(t) > 0,
         NEW K, IsFiniteSet(K), NEW key, \A i \in Meals : key[i] \in K,
         NEW h, DOMAIN h = K, \A k \in K : h[k] = SpendOn(rows, b, {i \in Meals : key[i] = k})
  PROVE  Close(SumFunction(h), Spend(In(rows, b)), rows)
<1> DEFINE R == In(rows, b)
           n == Cardinality(Meals)
           a == [t \in R |-> [k \in K |-> Sum(Shares(t), {i \in Meals : key[i] = k})]]
           columns == [k \in K |-> [t \in R |-> a[t][k]]]
           f == [t \in R |-> Sum(Shares(t), Meals)]
           one == [t \in R |-> 1]
           slack == [t \in R |-> n * one[t]]
           upper == [t \in R |-> f[t] + slack[t]]
<1>1. R \in SUBSET Tickets /\ R \subseteq DOMAIN rows /\ DOMAIN rows \in SUBSET Tickets
  BY DEF In, RowSets
<1>2. /\ IsFiniteSet(R) /\ IsFiniteSet(DOMAIN rows) /\ IsFiniteSet(Meals)
      /\ n \in Nat /\ Cardinality(R) \in Nat /\ Cardinality(DOMAIN rows) \in Nat
      /\ Cardinality(R) <= Cardinality(DOMAIN rows)
  <2>1. IsFiniteSet(DOMAIN rows) /\ IsFiniteSet(Meals)  BY <1>1, TicketsAssumption, FS_Subset
  <2> QED BY <1>1, <2>1, FS_Subset, FS_CardinalityType
<1>3. \A t \in R : \A i \in Meals : Shares(t)[i] \in Int
  BY <1>1, TotalsAreNat DEF Shares
<1>4. ASSUME NEW t \in R, NEW k \in K
      PROVE  a[t][k] \in Int
  <2>1. IsFiniteSet({i \in Meals : key[i] = k})  BY <1>2, FS_Subset
  <2>2. Sum(Shares(t), {i \in Meals : key[i] = k}) \in Int  BY <1>3, <2>1, SumInt
  <2> QED BY <2>2
<1>5. ASSUME NEW t \in R
      PROVE  f[t] = Sum(a[t], K)
  <2>1. \A k \in K : a[t][k] = Sum(Shares(t), {i \in Meals : key[i] = k})  OBVIOUS
  <2>2. f[t] = Sum(Shares(t), Meals)  OBVIOUS
  <2>3. \A i \in Meals : Shares(t)[i] \in Int  BY <1>3
  <2> HIDE DEF a, f
  <2> QED BY <1>2, <2>1, <2>2, <2>3, SumByKey
<1>6. ASSUME NEW k \in K
      PROVE  h[k] = Sum(columns[k], R)
  <2> DEFINE g == columns[k]
             E == {i \in Meals : key[i] = k}
             u == [t \in R |-> SumFunction([i \in E |-> Allocate(t, i)])]
  <2>1. h[k] = SumFunction(u)  BY DEF SpendOn
  <2>2. ASSUME NEW t \in R  PROVE u[t] = g[t]
    <3>1. [i \in E |-> Allocate(t, i)] = [i \in E |-> Shares(t)[i]]  BY DEF Shares
    <3>2. SumFunction([i \in E |-> Shares(t)[i]]) = Sum(Shares(t), E)
      <4>1. IsFiniteSet(E)  BY <1>2, FS_Subset
      <4>2. E \in SUBSET Meals /\ \A i \in E : Shares(t)[i] \in Int  BY <1>3
      <4>3. Shares(t) = [i \in Meals |-> Shares(t)[i]]  BY DEF Shares
      <4> HIDE DEF E
      <4> QED BY <4>1, <4>2, <4>3, SumShorter
    <3> QED BY <3>1, <3>2
  <2>3. u = g
    <3>1. g = [t \in R |-> g[t]] /\ u = [t \in R |-> u[t]]  OBVIOUS
    <3> HIDE DEF g, u
    <3> QED BY <2>2, <3>1
  <2>4. DOMAIN g = R  OBVIOUS
  <2> HIDE DEF g, u, R
  <2>5. h[k] = Sum(g, R)  BY <2>1, <2>3, <2>4, SumWhole
  <2> QED BY <2>5 DEF g
<1>7. Sum(f, R) = Sum(h, K)
  <2>1. \A t \in R, k \in K : a[t][k] \in Int  BY <1>4
  <2>2. \A t \in R : f[t] = Sum(a[t], K)  BY <1>5
  <2>3. \A k \in K : h[k] = Sum(columns[k], R)  BY <1>6
  <2>4. \A t \in R, k \in K : columns[k][t] = a[t][k]  OBVIOUS
  <2> HIDE DEF a, columns, f, R
  <2>5. IsTable(R, K, a, columns, f, h)
    BY <1>2, <2>1, <2>2, <2>3, <2>4 DEF IsTable
  <2> QED BY <2>5, SumSwap
<1>8. SumFunction(h) = Sum(f, R)  BY <1>7, SumWhole
<1>9. \A t \in R : f[t] \in Int /\ f[t] <= Hundredths[t] /\ Hundredths[t] <= f[t] + n
  BY <1>1, AllocatedToOne
<1>10. \A t \in R : Hundredths[t] \in Int  BY <1>1, TotalsAreNat DEF Hundredths
<1>11. Spend(R) = Sum(Hundredths, R) /\ Spend(R) \in Int  BY <1>1, SpendIsSum
<1>12. Sum(f, R) <= Spend(R) /\ Sum(f, R) \in Int
  <2> HIDE DEF f, R
  <2> QED BY <1>2, <1>9, <1>10, <1>11, SumOrder, SumInt
<1>13. Spend(R) <= Sum(f, R) + n * Cardinality(R)
  <2>1. \A t \in R : one[t] = 1 /\ slack[t] = n * one[t] /\ upper[t] = f[t] + slack[t]
    OBVIOUS
  <2>2. \A t \in R : one[t] \in Int /\ slack[t] = n /\ slack[t] \in Int /\ upper[t] \in Int
    BY <1>2, <1>9, <2>1
  <2>3. \A t \in R : Hundredths[t] <= upper[t]
    BY <1>9, <2>1, <2>2
  <2> HIDE DEF f, R, one, slack, upper, n
  <2>4. Sum(one, R) = Cardinality(R)  BY <1>2, <2>1, SumOnes
  <2>5. Sum(slack, R) = n * Sum(one, R)  BY <1>2, <2>1, <2>2, SumTimes
  <2>6. Sum(upper, R) = Sum(f, R) + Sum(slack, R)
    BY <1>2, <1>9, <2>1, <2>2, SumPlus
  <2>7. Sum(Hundredths, R) <= Sum(upper, R)
    BY <1>2, <1>10, <2>2, <2>3, SumOrder
  <2> QED BY <1>11, <2>4, <2>5, <2>6, <2>7
<1>14. n * Cardinality(R) <= n * Cardinality(DOMAIN rows)
  <2> DEFINE c == Cardinality(R)  d == Cardinality(DOMAIN rows)
  <2>1. c \in Nat /\ d \in Nat /\ c <= d /\ n \in Nat  BY <1>2
  <2> HIDE DEF c, d, n
  <2>2. n * c <= n * d  BY <2>1
  <2> QED BY <2>2 DEF c, d
<1> HIDE DEF f, n
<1>15. n * Cardinality(R) \in Int /\ n * Cardinality(DOMAIN rows) \in Int  BY <1>2
<1>16. /\ SumFunction(h) <= Spend(R)
       /\ Spend(R) - SumFunction(h) <= n * Cardinality(DOMAIN rows)
  <2> DEFINE x == n * Cardinality(R)  y == n * Cardinality(DOMAIN rows)
  <2>1. x \in Int /\ y \in Int /\ x <= y /\ Spend(R) <= Sum(f, R) + x  BY <1>13, <1>14, <1>15
  <2> HIDE DEF x, y, R
  <2>2. SumFunction(h) <= Spend(R) /\ Spend(R) - SumFunction(h) <= y
    BY <1>8, <1>11, <1>12, <2>1
  <2> QED BY <2>2 DEF y
<1> QED BY <1>16 DEF Close, n

-----------------------------------------------------------------------------
(* Analytics: the invariant *)

Delivered == {t \in Tickets : ticket[t].bucket = "delivered"}

\* What a report has read is of the days it is about; as long as no order moved,
\* its orders are those of now, then its items those of its orders, and the
\* points of the customer it loaded first are those of now, then no fewer than
\* its orders earned.
ReportFits ==
  report # NoReport =>
    /\ \A t \in DOMAIN report.orders : ticket[t] # NoTicket /\ ticket[t].day \in Days(report)
    /\ report.at = "asked" => DOMAIN report.orders = {}
    /\ report.steady =>
         /\ report.at = "orders" => report.orders = BucketsOf(Selected(report))
         /\ report.at = "done" => report.items = report.orders
         /\ ~lost => IF report.at = "asked" THEN report.lifetime = PointsOf(Delivered)
                     ELSE PointsInPeriod(report.orders) <= report.lifetime

ReportIInv ==
  /\ ReportTypeOK
  /\ ~lost => points = PointsOf(Delivered)
  /\ ReportFits

\* In every state of the invariant a report is true.
LEMMA CalendarHolds == ReportIInv => PeriodIsCalendar
<1> SUFFICES ASSUME ReportIInv, report.at # "none"
             PROVE  /\ \A d \in Min(MonthStarts)..today : d \in Days(report) <=> Meant(report.period, d)
                    /\ Days(report) \subseteq Min(MonthStarts)..today
                    /\ \A t \in DOMAIN report.orders : Meant(report.period, ticket[t].day)
  BY DEF PeriodIsCalendar
<1>1. today \in Todays /\ report.period \in Periods
  BY DEF ReportIInv, ReportTypeOK, Report
<1>2. /\ \A d \in Min(MonthStarts)..today : d \in Days(report) <=> Meant(report.period, d)
      /\ Days(report) \subseteq Min(MonthStarts)..today
  BY <1>1, RangeMeant
<1>3. ASSUME NEW t \in DOMAIN report.orders
      PROVE  Meant(report.period, ticket[t].day)
  <2>1. ticket[t].day \in Days(report)
    BY DEF ReportIInv, ReportFits, NoReport
  <2> QED BY <1>2, <2>1
<1> QED BY <1>2, <1>3

LEMMA TablesHold == ReportIInv => ReportAddsUp
<1> SUFFICES ASSUME ReportIInv, report.at = "done", NEW b \in Buckets
             PROVE  LET whole == Summary(report.orders)[b].spend IN
                    /\ SumOf(Daily(report.orders, report), b) = whole
                    /\ SumOf(ByHouse(report.orders), b) = whole
                    /\ report.steady /\ (\A t \in DOMAIN report.items : Subtotal(t) > 0) =>
                         /\ Close(SumOf(ByMeal(report.items), b), whole, report.items)
                         /\ Close(SumOf(ByCategory(report.items), b), whole, report.items)
  BY DEF ReportAddsUp
<1> DEFINE rows == report.orders
           S == In(rows, b)
<1>1. rows \in RowSets /\ report.period \in Periods /\ today \in Todays
  BY DEF ReportIInv, ReportTypeOK, Report
<1>2. S \in SUBSET Tickets /\ S \subseteq DOMAIN rows /\ DOMAIN rows \in SUBSET Tickets
  BY <1>1 DEF In, RowSets
<1>3. Summary(rows)[b].spend = Spend(S)
  BY DEF Summary
<1>4. \A t \in S : ticket[t].day \in Days(report)
  BY <1>2 DEF ReportIInv, ReportFits, NoReport
<1>5. SumOf(Daily(rows, report), b) = Spend(S)
  <2> DEFINE K == Days(report)
             day == [t \in S |-> ticket[t].day]
             h == [d \in K |-> Spend({t \in S : ticket[t].day = d})]
  <2>1. IsFiniteSet(K)  BY <1>1, RangeMeant
  <2>2. SumOf(Daily(rows, report), b) = SumFunction(h)
    <3>1. DOMAIN Daily(rows, report) = K  BY DEF Daily
    <3>2. \A d \in K : Daily(rows, report)[d][b] = h[d]  BY DEF Daily
    <3>3. [d \in K |-> Daily(rows, report)[d][b]] = h  BY <3>2
    <3> QED BY <3>1, <3>3 DEF SumOf
  <2>3. \A t \in S : day[t] \in K  BY <1>4
  <2>4. \A d \in K : h[d] = Spend({t \in S : day[t] = d})
    <3> SUFFICES ASSUME NEW d \in K
                 PROVE  Spend({t \in S : ticket[t].day = d}) = Spend({t \in S : day[t] = d})
      OBVIOUS
    <3>1. {t \in S : ticket[t].day = d} = {t \in S : day[t] = d}  OBVIOUS
    <3> QED BY <3>1
  <2>5. DOMAIN h = K  OBVIOUS
  <2> HIDE DEF K, day, h, S
  <2>6. SumFunction(h) = Spend(S)  BY <1>2, <2>1, <2>3, <2>4, <2>5, SpendByKey
  <2> QED BY <2>2, <2>6
<1>6. SumOf(ByHouse(rows), b) = Spend(S)
  <2> DEFINE K == {HouseOf[t] : t \in DOMAIN rows}
             house == [t \in S |-> HouseOf[t]]
             h == [k \in K |-> Spend({t \in S : HouseOf[t] = k})]
  <2>1. IsFiniteSet(K)
    <3>1. IsFiniteSet(DOMAIN rows)  BY <1>2, TicketsAssumption, FS_Subset
    <3> QED BY <3>1, ImageFinite
  <2>2. SumOf(ByHouse(rows), b) = SumFunction(h)
    <3>1. DOMAIN ByHouse(rows) = K  BY DEF ByHouse
    <3>2. \A k \in K : ByHouse(rows)[k][b] = h[k]  BY DEF ByHouse
    <3>3. [k \in K |-> ByHouse(rows)[k][b]] = h  BY <3>2
    <3> QED BY <3>1, <3>3 DEF SumOf
  <2>3. \A t \in S : house[t] \in K  BY <1>2
  <2>4. \A k \in K : h[k] = Spend({t \in S : house[t] = k})
    <3> SUFFICES ASSUME NEW k \in K
                 PROVE  Spend({t \in S : HouseOf[t] = k}) = Spend({t \in S : house[t] = k})
      OBVIOUS
    <3>1. {t \in S : HouseOf[t] = k} = {t \in S : house[t] = k}  OBVIOUS
    <3> QED BY <3>1
  <2>5. DOMAIN h = K  OBVIOUS
  <2> HIDE DEF K, house, h, S
  <2>6. SumFunction(h) = Spend(S)  BY <1>2, <2>1, <2>3, <2>4, <2>5, SpendByKey
  <2> QED BY <2>2, <2>6
<1>7. ASSUME report.steady, \A t \in DOMAIN report.items : Subtotal(t) > 0
      PROVE  /\ Close(SumOf(ByMeal(report.items), b), Spend(S), report.items)
             /\ Close(SumOf(ByCategory(report.items), b), Spend(S), report.items)
  <2>1. report.items = rows
    BY <1>7 DEF ReportIInv, ReportFits, NoReport
  <2>2. \A t \in DOMAIN rows : Subtotal(t) > 0  BY <1>7, <2>1
  <2>3. IsFiniteSet(Meals)  BY TicketsAssumption
  <2>4. Close(SumOf(ByMeal(rows), b), Spend(S), rows)
    <3> DEFINE self == [i \in Meals |-> i]
               h == [i \in Meals |-> SpendOn(rows, b, {i})]
    <3>1. SumOf(ByMeal(rows), b) = SumFunction(h)
      <4>1. DOMAIN ByMeal(rows) = Meals  BY DEF ByMeal
      <4>2. \A i \in Meals : ByMeal(rows)[i][b] = h[i]  BY DEF ByMeal
      <4>3. [i \in Meals |-> ByMeal(rows)[i][b]] = h  BY <4>2
      <4> QED BY <4>1, <4>3 DEF SumOf
    <3>2. ASSUME NEW k \in Meals
          PROVE  h[k] = SpendOn(rows, b, {i \in Meals : self[i] = k})
      <4>1. {i \in Meals : self[i] = k} = {k}  OBVIOUS
      <4> QED BY <4>1
    <3>3. DOMAIN h = Meals /\ \A i \in Meals : self[i] \in Meals  OBVIOUS
    <3> HIDE DEF self, h, rows
    <3>4. Close(SumFunction(h), Spend(In(rows, b)), rows)
      BY <1>1, <2>2, <2>3, <3>2, <3>3, AllocatedByKey
    <3> QED BY <3>1, <3>4
  <2>5. Close(SumOf(ByCategory(rows), b), Spend(S), rows)
    <3> DEFINE K == {CategoryOf[i] : i \in Meals}
               h == [c \in K |-> SpendOn(rows, b, {i \in Meals : CategoryOf[i] = c})]
    <3>1. SumOf(ByCategory(rows), b) = SumFunction(h)
      <4>1. DOMAIN ByCategory(rows) = K  BY DEF ByCategory
      <4>2. \A c \in K : ByCategory(rows)[c][b] = h[c]  BY DEF ByCategory
      <4>3. [c \in K |-> ByCategory(rows)[c][b]] = h  BY <4>2
      <4> QED BY <4>1, <4>3 DEF SumOf
    <3>2. \A c \in K : h[c] = SpendOn(rows, b, {i \in Meals : CategoryOf[i] = c})  OBVIOUS
    <3>3. DOMAIN h = K /\ \A i \in Meals : CategoryOf[i] \in K  OBVIOUS
    <3>4. IsFiniteSet(K)  BY <2>3, ImageFinite
    <3> HIDE DEF K, h, rows
    <3>5. Close(SumFunction(h), Spend(In(rows, b)), rows)
      BY <1>1, <2>2, <3>2, <3>3, <3>4, AllocatedByKey
    <3> QED BY <3>1, <3>5
  <2> QED BY <2>1, <2>4, <2>5
<1> QED BY <1>3, <1>5, <1>6, <1>7

LEMMA PointsHold == ReportIInv => PointsWithinLifetime
<1> SUFFICES ASSUME ReportIInv, report.at = "done", report.steady, ~lost
             PROVE  PointsInPeriod(report.orders) <= report.lifetime
  BY DEF PointsWithinLifetime
<1> QED BY DEF ReportIInv, ReportFits, NoReport

LEMMA ReportInitial == ReportInit => ReportIInv
<1> SUFFICES ASSUME ReportInit  PROVE ReportIInv
  OBVIOUS
<1>1. ticket \in [Tickets -> Ticket]
  <2>1. ticket \in [Tickets -> {NoTicket} \cup [day : {d \in OpenDays : d <= today}, bucket : Buckets]]
    BY DEF ReportInit
  <2>2. {NoTicket} \cup [day : {d \in OpenDays : d <= today}, bucket : Buckets] \subseteq Ticket
    BY CalendarAssumption DEF Ticket
  <2> QED BY <2>1, <2>2
<1>2. points = PointsOf(Delivered) /\ points \in Nat
  BY PointsIsSum DEF ReportInit, Delivered
<1>3. ReportTypeOK
  BY <1>1, <1>2 DEF ReportInit, ReportTypeOK, Report, NoReport
<1> QED BY <1>2, <1>3 DEF ReportIInv, ReportFits, ReportInit

\* The rows of now are rows.
LEMMA RowsNow ==
  ASSUME ReportTypeOK, NEW w, w.period \in Periods
  PROVE  /\ BucketsOf(Selected(w)) \in RowSets
         /\ \A t \in DOMAIN BucketsOf(Selected(w)) : ticket[t] # NoTicket /\ ticket[t].day \in Days(w)
         /\ PointsInPeriod(BucketsOf(Selected(w))) <= PointsOf(Delivered)
<1>1. Selected(w) \in SUBSET Tickets  BY DEF Selected
<1>2. \A t \in Selected(w) : ticket[t].bucket \in Buckets
  BY DEF Selected, ReportTypeOK, Ticket
<1>3. BucketsOf(Selected(w)) \in [Selected(w) -> Buckets]
  BY <1>2 DEF BucketsOf
<1>4. BucketsOf(Selected(w)) \in RowSets
  BY <1>1, <1>3 DEF RowSets
<1>5. In(BucketsOf(Selected(w)), "delivered") \in SUBSET Delivered /\ Delivered \in SUBSET Tickets
  BY <1>1 DEF In, BucketsOf, Delivered
<1>6. PointsOf(In(BucketsOf(Selected(w)), "delivered")) <= PointsOf(Delivered)
  <2> DEFINE P == In(BucketsOf(Selected(w)), "delivered")
  <2>1. P \in SUBSET Delivered /\ P \in SUBSET Tickets  BY <1>5
  <2>2. \A t \in Delivered : PointsEach[t] \in Nat
    BY <1>5, TotalsAreNat DEF PointsEach
  <2>3. IsFiniteSet(Delivered) /\ PointsOf(Delivered) = Sum(PointsEach, Delivered)
        /\ PointsOf(P) = Sum(PointsEach, P)
    BY <1>5, <2>1, PointsIsSum
  <2> HIDE DEF P
  <2>4. Sum(PointsEach, P) <= Sum(PointsEach, Delivered)  BY <2>1, <2>2, <2>3, SumSubset
  <2>5. PointsOf(P) <= PointsOf(Delivered)  BY <2>3, <2>4
  <2> QED BY <2>5 DEF P
<1>7. \A t \in Selected(w) : ticket[t] # NoTicket /\ ticket[t].day \in Days(w)
  BY DEF Selected
<1> QED BY <1>3, <1>4, <1>6, <1>7 DEF PointsInPeriod

\* The steps of a report.
LEMMA ReportReads ==
  ASSUME ReportIInv,
         \/ \E scope \in Scopes, period \in Periods : Ask(scope, period)
         \/ LoadOrders \/ LoadItems
  PROVE  ReportIInv'
<1>1. UNCHANGED <<today, ticket, points, credit, lost>>
  BY DEF Ask, LoadOrders, LoadItems
<1>2. Delivered' = Delivered /\ PointsOf(Delivered)' = PointsOf(Delivered)
  BY <1>1 DEF Delivered, PointsOf
<1>3. ASSUME report' \in Report, ReportFits'  PROVE ReportIInv'
  BY <1>1, <1>2, <1>3 DEF ReportIInv, ReportTypeOK
<1>4. ASSUME NEW scope \in Scopes, NEW period \in Periods, Ask(scope, period)
      PROVE  ReportIInv'
  <2>1. NoRows \in RowSets /\ DOMAIN NoRows = {}
    <3>1. DOMAIN NoRows = {} /\ NoRows = [t \in {} |-> NoRows[t]]
      BY DEF NoRows
    <3>2. NoRows \in [{} -> Buckets]  BY <3>1
    <3>3. {} \in SUBSET Tickets  OBVIOUS
    <3> QED BY <3>1, <3>2, <3>3 DEF RowSets
  <2>2. report' = [at |-> "asked", scope |-> scope, period |-> period, lifetime |-> points,
                   orders |-> NoRows, items |-> NoRows, steady |-> TRUE]
    BY <1>4 DEF Ask
  <2>3. points \in Nat  BY DEF ReportIInv, ReportTypeOK
  <2>4. report' \in Report  BY <1>4, <2>1, <2>2, <2>3 DEF Report
  <2>5. (~lost)' => (report.lifetime = PointsOf(Delivered))'
    BY <1>1, <1>2, <2>2 DEF ReportIInv
  <2>6. ReportFits'
    BY <2>1, <2>2, <2>5 DEF ReportFits
  <2> QED BY <1>3, <2>4, <2>6
<1>5. CASE LoadOrders
  <2> DEFINE rows == BucketsOf(Selected(report))
  <2>1. report.at = "asked" /\ report' = [report EXCEPT !.at = "orders", !.orders = rows]
    BY <1>5 DEF LoadOrders
  <2>2. report \in Report /\ report.period \in Periods /\ report # NoReport
    BY <2>1 DEF ReportIInv, ReportTypeOK, Report, NoReport
  <2>3. /\ rows \in RowSets
        /\ \A t \in DOMAIN rows : ticket[t] # NoTicket /\ ticket[t].day \in Days(report)
        /\ PointsInPeriod(rows) <= PointsOf(Delivered)
    BY <2>2, RowsNow DEF ReportIInv
  <2>4. Days(report)' = Days(report) /\ BucketsOf(Selected(report))' = rows
    BY <1>1, <2>1, <2>2 DEF Days, BucketsOf, Selected, Report
  <2>5. report.steady /\ ~lost => report.lifetime = PointsOf(Delivered)
    BY <2>1, <2>2 DEF ReportIInv, ReportFits
  <2> HIDE DEF rows
  <2>6. /\ report' \in Report /\ report'.at = "orders" /\ report'.orders = rows
        /\ report'.lifetime = report.lifetime /\ (report'.steady <=> report.steady)
    BY <2>1, <2>2, <2>3 DEF Report
  <2>7. ReportFits'
    BY <1>1, <2>3, <2>4, <2>5, <2>6 DEF ReportFits
  <2> QED BY <1>3, <2>6, <2>7
<1>6. CASE LoadItems
  <2> DEFINE rows == BucketsOf(Selected(report))
  <2>1. report.at = "orders" /\ report' = [report EXCEPT !.at = "done", !.items = rows]
    BY <1>6 DEF LoadItems
  <2>2. report \in Report /\ report.period \in Periods /\ report # NoReport
    BY <2>1 DEF ReportIInv, ReportTypeOK, Report, NoReport
  <2>3. rows \in RowSets
    BY <2>2, RowsNow DEF ReportIInv
  <2>4. Days(report)' = Days(report)
    BY <1>1, <2>1, <2>2 DEF Days, Report
  <2>5. /\ \A t \in DOMAIN report.orders : ticket[t] # NoTicket /\ ticket[t].day \in Days(report)
        /\ report.steady => report.orders = rows
        /\ report.steady /\ ~lost => PointsInPeriod(report.orders) <= report.lifetime
    BY <2>1, <2>2 DEF ReportIInv, ReportFits
  <2> HIDE DEF rows
  <2>6. /\ report' \in Report /\ report'.at = "done" /\ report'.orders = report.orders
        /\ report'.items = rows
        /\ report'.lifetime = report.lifetime /\ (report'.steady <=> report.steady)
    BY <2>1, <2>2, <2>3 DEF Report
  <2>7. ReportFits'
    BY <1>1, <2>4, <2>5, <2>6 DEF ReportFits
  <2> QED BY <1>3, <2>6, <2>7
<1> QED BY <1>4, <1>5, <1>6

\* A step that makes or moves an order disturbs the report that is being made.
LEMMA MoveKeeps ==
  ASSUME ReportIInv, Moved, UNCHANGED today,
         ticket' \in [Tickets -> Ticket], points' \in Nat, lost' \in BOOLEAN,
         credit' \in [Tickets -> Nat \cup {NoCredit}],
         \A t \in Tickets : ticket[t] # NoTicket =>
           (ticket')[t] # NoTicket /\ (ticket')[t].day = ticket[t].day,
         lost => lost', (~lost)' => (points = PointsOf(Delivered))'
  PROVE  ReportIInv'
<1>1. CASE report = NoReport
  <2>1. report' = NoReport  BY <1>1 DEF Moved, NoReport
  <2> QED BY <2>1 DEF ReportIInv, ReportTypeOK, ReportFits, Report, NoReport
<1>2. CASE report # NoReport
  <2>1. report \in Report /\ report.at \in {"asked", "orders", "done"} /\ DOMAIN report.orders \subseteq Tickets
    BY <1>2 DEF ReportIInv, ReportTypeOK, Report, NoReport, RowSets
  <2>2. /\ report' \in Report /\ report'.at = report.at /\ report'.orders = report.orders
        /\ report'.items = report.items /\ report'.lifetime = report.lifetime
        /\ report'.period = report.period
        /\ report'.steady => report.steady /\ report.at = "done"
    BY <2>1 DEF Moved, Report
  <2>3. Days(report)' = Days(report)  BY <2>2 DEF Days
  <2>4. \A t \in DOMAIN report.orders : ticket[t] # NoTicket /\ ticket[t].day \in Days(report)
    BY <1>2 DEF ReportIInv, ReportFits
  <2>5. \A t \in DOMAIN report'.orders :
          (ticket')[t] # NoTicket /\ (ticket')[t].day \in Days(report)'
    BY <2>1, <2>2, <2>3, <2>4
  <2>6. /\ report.at = "asked" => DOMAIN report.orders = {}
        /\ report.steady /\ report.at = "done" => report.items = report.orders
        /\ report.steady /\ report.at = "done" /\ ~lost =>
             PointsInPeriod(report.orders) <= report.lifetime
    BY <1>2 DEF ReportIInv, ReportFits
  <2>7. ReportFits'
    BY <2>2, <2>5, <2>6 DEF ReportFits
  <2> QED BY <2>2, <2>7 DEF ReportIInv, ReportTypeOK
<1> QED BY <1>1, <1>2

LEMMA TicketStepKeeps ==
  ASSUME ReportIInv, NEW t \in Tickets, MakeTicket(t) \/ DeliverTicket(t) \/ CancelTicket(t)
  PROVE  ReportIInv'
<1>0. ticket \in [Tickets -> Ticket] /\ today \in Nat /\ points \in Nat
      /\ credit \in [Tickets -> Nat \cup {NoCredit}]
  BY CalendarAssumption DEF ReportIInv, ReportTypeOK
<1>1. CASE MakeTicket(t) \/ CancelTicket(t)
  <2>1. UNCHANGED <<today, points, credit, lost>> /\ Moved
    BY <1>1 DEF MakeTicket, CancelTicket
  <2>2. ticket' \in [Tickets -> Ticket]
    <3>1. CASE MakeTicket(t)
      BY <1>0, <3>1 DEF MakeTicket, Ticket, Buckets
    <3>2. CASE CancelTicket(t)
      BY <1>0, <3>2 DEF CancelTicket, Ticket, NoTicket, Buckets
    <3> QED BY <1>1, <3>1, <3>2
  <2>3. \A s \in Tickets : ticket[s] # NoTicket =>
          (ticket')[s] # NoTicket /\ (ticket')[s].day = ticket[s].day
    <3>1. CASE MakeTicket(t)
      BY <1>0, <3>1 DEF MakeTicket
    <3>2. CASE CancelTicket(t)
      BY <1>0, <3>2 DEF CancelTicket, Ticket, NoTicket
    <3> QED BY <1>1, <3>1, <3>2
  <2>4. \A s \in Tickets : (ticket')[s].bucket = "delivered" <=> ticket[s].bucket = "delivered"
    <3>1. CASE MakeTicket(t)
      BY <1>0, <3>1 DEF MakeTicket, NoTicket
    <3>2. CASE CancelTicket(t)
      BY <1>0, <3>2 DEF CancelTicket, Ticket, NoTicket
    <3> QED BY <1>1, <3>1, <3>2
  <2>5. Delivered' = Delivered  BY <2>4 DEF Delivered
  <2>6. PointsOf(Delivered)' = PointsOf(Delivered)  BY <2>5 DEF PointsOf
  <2>7. (~lost)' => (points = PointsOf(Delivered))'
    BY <2>1, <2>6 DEF ReportIInv
  <2>8. points' \in Nat /\ lost' \in BOOLEAN /\ credit' \in [Tickets -> Nat \cup {NoCredit}]
        /\ (lost => lost')
    BY <1>0, <2>1 DEF ReportIInv, ReportTypeOK
  <2> QED BY <2>1, <2>2, <2>3, <2>7, <2>8, MoveKeeps
<1>2. CASE DeliverTicket(t)
  <2>1. /\ credit[t] # NoCredit /\ ticket[t].bucket = "pending" /\ UNCHANGED today /\ Moved
        /\ ticket' = [ticket EXCEPT ![t].bucket = "delivered"]
        /\ points' = credit[t] + Points(t)
        /\ lost' = (lost \/ credit[t] # points)
        /\ credit' = [credit EXCEPT ![t] = NoCredit]
    BY <1>2 DEF DeliverTicket
  <2>2. ticket' \in [Tickets -> Ticket]
    BY <1>0, <2>1 DEF Ticket, NoTicket, Buckets
  <2>3. \A s \in Tickets : ticket[s] # NoTicket =>
          (ticket')[s] # NoTicket /\ (ticket')[s].day = ticket[s].day
    BY <1>0, <2>1 DEF Ticket, NoTicket
  <2>4. Points(t) \in Nat  BY TotalsAreNat
  <2>5. Delivered' = Delivered \cup {t} /\ t \notin Delivered
    BY <1>0, <2>1 DEF Delivered, Ticket, NoTicket
  <2>6. PointsOf(Delivered') = PointsOf(Delivered) + Points(t)
    <3>1. Delivered \in SUBSET Tickets /\ Delivered \cup {t} \in SUBSET Tickets
      BY DEF Delivered
    <3>2. /\ IsFiniteSet(Delivered) /\ PointsOf(Delivered) = Sum(PointsEach, Delivered)
          /\ PointsOf(Delivered \cup {t}) = Sum(PointsEach, Delivered \cup {t})
          /\ PointsOf(Delivered) \in Nat
      BY <3>1, PointsIsSum
    <3>3. \A s \in Delivered \cup {t} : PointsEach[s] \in Int
      BY <3>1, TotalsAreNat DEF PointsEach
    <3>4. Sum(PointsEach, Delivered \cup {t}) = PointsEach[t] + Sum(PointsEach, Delivered)
      BY <2>5, <3>2, <3>3, SumAdd
    <3>5. PointsEach[t] = Points(t)  BY DEF PointsEach
    <3> QED BY <2>4, <2>5, <3>2, <3>4, <3>5
  <2>7. PointsOf(Delivered)' = PointsOf(Delivered')
    BY DEF PointsOf
  <2>8. (~lost)' => (points = PointsOf(Delivered))'
    BY <2>1, <2>6, <2>7 DEF ReportIInv
  <2>9. points' \in Nat /\ lost' \in BOOLEAN /\ credit' \in [Tickets -> Nat \cup {NoCredit}]
        /\ (lost => lost')
    BY <1>0, <2>1, <2>4 DEF ReportIInv, ReportTypeOK
  <2> QED BY <2>1, <2>2, <2>3, <2>8, <2>9, MoveKeeps
<1> QED BY <1>1, <1>2

\* A report is true to the calendar, adds up, and is within the points of the
\* account, for every set of orders, items, prices and days: what it read is of
\* its period, and sums do not depend on how they are grouped (DateRange,
\* _sum_orders, _allocate_item_spend, apply_completed_order_loyalty).
THEOREM ReportTrueAlways == ReportSpec => []ReportTrue
<1>1. ASSUME ReportIInv, [ReportNext]_reportVars
      PROVE  ReportIInv'
  <2>1. ASSUME NEW t \in Tickets, DeliverLoad(t)  PROVE ReportIInv'
    <3>1. UNCHANGED <<today, ticket, points, lost, report>> /\ credit' = [credit EXCEPT ![t] = points]
      BY <2>1 DEF DeliverLoad
    <3>2. ReportTypeOK'  BY <1>1, <3>1 DEF ReportIInv, ReportTypeOK
    <3>3. Delivered' = Delivered /\ PointsOf(Delivered)' = PointsOf(Delivered)
          /\ Days(report)' = Days(report) /\ BucketsOf(Selected(report))' = BucketsOf(Selected(report))
      BY <3>1 DEF Delivered, PointsOf, Days, BucketsOf, Selected
    <3>4. ReportFits'  BY <1>1, <3>1, <3>3 DEF ReportIInv, ReportFits
    <3> QED BY <1>1, <3>1, <3>2, <3>3, <3>4 DEF ReportIInv
  <2>2. CASE UNCHANGED reportVars
    <3>1. UNCHANGED <<today, ticket, points, credit, lost, report>>
      BY <2>2 DEF reportVars
    <3>2. ReportTypeOK'  BY <1>1, <3>1 DEF ReportIInv, ReportTypeOK
    <3>3. Delivered' = Delivered /\ PointsOf(Delivered)' = PointsOf(Delivered)
          /\ Days(report)' = Days(report) /\ BucketsOf(Selected(report))' = BucketsOf(Selected(report))
      BY <3>1 DEF Delivered, PointsOf, Days, BucketsOf, Selected
    <3>4. ReportFits'  BY <1>1, <3>1, <3>3 DEF ReportIInv, ReportFits
    <3> QED BY <1>1, <3>1, <3>2, <3>3, <3>4 DEF ReportIInv
  <2> QED BY <1>1, <2>1, <2>2, ReportReads, TicketStepKeeps DEF ReportNext
<1>2. ReportIInv => ReportTrue
  BY CalendarHolds, TablesHold, PointsHold DEF ReportTrue
<1> QED BY <1>1, <1>2, ReportInitial, PTL DEF ReportSpec

-----------------------------------------------------------------------------
(* Selections *)

\* The options of a line in a cart go on being available: nothing switches one off.
SelectionIInv ==
  /\ option \in [Options -> {"absent", "on", "off"}]
  /\ addOn \in AddOn
  /\ line # NoLine => line \in Selection /\ Range(line.mods) \subseteq On

LEMMA SelectionsSum ==
  ASSUME NEW s \in Selection
  PROVE  /\ AddsUp(s.adds) \in Nat
         /\ \A S : ModsUp(s.mods, S) \in Nat
         /\ OptionsUp(Range(s.mods)) \in Nat
         /\ Range(s.mods) \subseteq Options /\ \A n \in DOMAIN s.mods : s.mods[n] \in Range(s.mods)
<1>1. PICK m \in 0..MaxPicks : s.mods \in [1..m -> Options]
  BY DEF Selection, SeqOf
<1>2. PICK k \in 0..MaxPicks : s.adds \in [1..k -> 1..MaxPicks]
  BY DEF Selection, SeqOf
<1>3. IsFiniteSet(1..m) /\ IsFiniteSet(1..k)  BY FS_Interval
<1>4. AddsUp(s.adds) \in Nat
  <2>1. DOMAIN s.adds = 1..k /\ \A n \in 1..k : s.adds[n] \in Nat
    BY <1>2
  <2>2. SumFunction(s.adds) = Sum(s.adds, 1..k)  BY <2>1, SumWhole
  <2>3. Sum(s.adds, 1..k) \in Nat  BY <1>3, <2>1, SumNat
  <2> QED BY <2>2, <2>3 DEF AddsUp
<1>5. \A x \in Options : OptionPrice[x] \in Nat
  BY PricesAssumption
<1>6. ASSUME NEW S  PROVE ModsUp(s.mods, S) \in Nat
  <2> DEFINE f == [n \in DOMAIN s.mods |-> IF s.mods[n] \in S THEN OptionPrice[s.mods[n]] ELSE 0]
  <2>1. DOMAIN f = 1..m /\ \A n \in 1..m : f[n] \in Nat
    BY <1>1, <1>5
  <2>2. ModsUp(s.mods, S) = SumFunction(f)  BY DEF ModsUp
  <2> HIDE DEF f
  <2>3. SumFunction(f) = Sum(f, 1..m)  BY <2>1, SumWhole
  <2>4. Sum(f, 1..m) \in Nat  BY <1>3, <2>1, SumNat
  <2> QED BY <2>2, <2>3, <2>4
<1>7. Range(s.mods) \subseteq Options /\ \A n \in DOMAIN s.mods : s.mods[n] \in Range(s.mods)
  BY <1>1 DEF Range
<1>8. OptionsUp(Range(s.mods)) \in Nat
  <2>1. IsFiniteSet(Range(s.mods))  BY <1>7, PricesAssumption, FS_Subset
  <2>2. \A x \in Range(s.mods) : OptionPrice[x] \in Nat  BY <1>5, <1>7
  <2>3. Sum(OptionPrice, Range(s.mods)) \in Nat  BY <2>1, <2>2, SumNat
  <2> QED BY <2>3 DEF OptionsUp, Sum
<1> QED BY <1>4, <1>6, <1>7, <1>8

\* Options that are available cost the same whether the others are asked or not.
LEMMA AvailableCostAll ==
  ASSUME NEW s \in Selection, Range(s.mods) \subseteq On
  PROVE  ModsUp(s.mods, On) = ModsUp(s.mods, Options)
<1> DEFINE f == [n \in DOMAIN s.mods |-> IF s.mods[n] \in On THEN OptionPrice[s.mods[n]] ELSE 0]
           g == [n \in DOMAIN s.mods |-> IF s.mods[n] \in Options THEN OptionPrice[s.mods[n]] ELSE 0]
<1>1. \A n \in DOMAIN s.mods : s.mods[n] \in On /\ s.mods[n] \in Options
  BY SelectionsSum
<1>2. f = g  BY <1>1
<1>3. ModsUp(s.mods, On) = SumFunction(f) /\ ModsUp(s.mods, Options) = SumFunction(g)
  BY DEF ModsUp
<1> HIDE DEF f, g
<1> QED BY <1>2, <1>3

LEMMA OnePriceHolds == SelectionIInv => OnePrice
<1> SUFFICES ASSUME SelectionIInv  PROVE OnePrice
  OBVIOUS
<1>0. AddOnPrice \in Nat /\ DishPrice \in Nat  BY PricesAssumption
<1>1. ASSUME NEW s \in Selection, Quote(s) # Refused
      PROVE  Quote(s) = CartPrice(s)
  <2>1. /\ Range(s.mods) \subseteq On /\ (s.adds # <<>> => addOn.state = "on")
        /\ Quote(s) = DishPrice + ModsUp(s.mods, Options) + AddOnPrice * AddsUp(s.adds)
    BY <1>1 DEF Quote, AddOnsOrderable
  <2>2. ModsUp(s.mods, On) = ModsUp(s.mods, Options)  BY <2>1, AvailableCostAll
  <2>3. CASE addOn.state = "on"
    BY <2>1, <2>2, <2>3 DEF CartPrice
  <2>4. CASE addOn.state # "on"
    <3>1. DOMAIN s.adds = {}  BY <2>1, <2>4
    <3>2. AddsUp(s.adds) = 0  BY <3>1, SumWhole, SumEmpty DEF AddsUp
    <3>3. ModsUp(s.mods, Options) \in Nat  BY SelectionsSum
    <3> QED BY <1>0, <2>1, <2>2, <2>4, <3>2, <3>3 DEF CartPrice
  <2> QED BY <2>3, <2>4
<1>2. ASSUME line # NoLine
      PROVE  ItemPrice(line) - CartPrice(line) =
               (IF addOn.state = "off" THEN AddOnPrice * AddsUp(line.adds) ELSE 0)
               - (ModsUp(line.mods, Options) - OptionsUp(Range(line.mods)))
  <2> DEFINE once == OptionsUp(Range(line.mods))
             each == ModsUp(line.mods, Options)
             extra == AddOnPrice * AddsUp(line.adds)
  <2>1. line \in Selection /\ Range(line.mods) \subseteq On
    BY <1>2 DEF SelectionIInv
  <2>2. AddsUp(line.adds) \in Nat /\ each \in Nat /\ once \in Nat
    BY <2>1, SelectionsSum
  <2>3. extra \in Nat  BY <1>0, <2>2
  <2>4. Made \cap Range(line.mods) = Range(line.mods)
    BY <2>1 DEF Made, On
  <2>5. ModsUp(line.mods, On) = each  BY <2>1, AvailableCostAll
  <2>6. ItemPrice(line) = DishPrice + once + (IF addOn.state \in {"on", "off"} THEN extra ELSE 0)
    BY <2>4 DEF ItemPrice
  <2>7. CartPrice(line) = DishPrice + each + (IF addOn.state = "on" THEN extra ELSE 0)
    BY <2>5 DEF CartPrice
  <2> HIDE DEF once, each, extra
  <2>8. ItemPrice(line) - CartPrice(line) =
          (IF addOn.state = "off" THEN extra ELSE 0) - (each - once)
    <3>1. CASE addOn.state = "on"  BY <1>0, <2>2, <2>3, <2>6, <2>7, <3>1
    <3>2. CASE addOn.state = "off"  BY <1>0, <2>2, <2>3, <2>6, <2>7, <3>2
    <3>3. CASE addOn.state \notin {"on", "off"}  BY <1>0, <2>2, <2>3, <2>6, <2>7, <3>3
    <3> QED BY <3>1, <3>2, <3>3
  <2> QED BY <2>8 DEF once, each, extra
<1> QED BY <1>1, <1>2 DEF OnePrice

\* What is quoted is what the cart charges, and what the items of an order cost
\* differs from it exactly by an add-on that was switched off and by options
\* that were listed twice, for every group, price and number of picks
\* (_recalculate_cart_totals, create_order_from_cart).
THEOREM OnePriceAlways == SelectionSpec => []OnePrice
<1>1. SelectionInit => SelectionIInv
  BY PricesAssumption DEF SelectionInit, SelectionIInv, AddOn
<1>2. ASSUME SelectionIInv, [SelectionNext]_selectionVars
      PROVE  SelectionIInv'
  <2>1. option' \in [Options -> {"absent", "on", "off"}] /\ On \subseteq On'
    <3>1. CASE \E x \in Options : MakeOption(x)
      BY <1>2, <3>1 DEF SelectionIInv, MakeOption, On
    <3>2. CASE UNCHANGED option
      BY <1>2, <3>2 DEF SelectionIInv, On
    <3> QED
      BY <1>2, <3>1, <3>2 DEF SelectionNext, selectionVars, MakeGroup, MakeAddOn, UpdateAddOn,
         DeleteAddOn, ServeDish, AddLine, RemoveLine, OrderLine
  <2>2. addOn' \in AddOn
    BY <1>2 DEF SelectionIInv, SelectionNext, selectionVars, MakeGroup, MakeOption, MakeAddOn,
       UpdateAddOn, DeleteAddOn, ServeDish, AddLine, RemoveLine, OrderLine, AddOn
  <2>3. ASSUME line' # NoLine
        PROVE  line' \in Selection /\ Range((line').mods) \subseteq On'
    <3>1. CASE \E s \in Selection : AddLine(s)
      BY <2>1, <3>1 DEF AddLine
    <3>2. CASE UNCHANGED line
      BY <1>2, <2>1, <2>3, <3>2 DEF SelectionIInv
    <3> QED
      BY <1>2, <2>3, <3>1, <3>2 DEF SelectionNext, selectionVars, MakeGroup, MakeOption, MakeAddOn,
         UpdateAddOn, DeleteAddOn, ServeDish, RemoveLine, OrderLine
  <2>4. Range((line').mods) = Range(line.mods)'
    BY DEF Range
  <2> QED BY <2>1, <2>2, <2>3, <2>4 DEF SelectionIInv
<1> QED BY <1>1, <1>2, OnePriceHolds, PTL DEF SelectionSpec

-----------------------------------------------------------------------------
(* Conversations: the unread counts of the list *)

FromCustomers == {i \in DOMAIN message : message[i].unread /\ ~message[i].is_from_merchant}

LEMMA MessagesAreFinite ==
  ASSUME MessageTypeOK
  PROVE  /\ IsFiniteSet(DOMAIN message) /\ DOMAIN message \subseteq Nat \ {0}
         /\ \A i \in DOMAIN message : message[i].created_at \in Nat
<1>1. message \in Seq(MessageRow)  BY DEF MessageTypeOK
<1>2. Len(message) \in Nat /\ DOMAIN message = 1..Len(message)  BY <1>1
<1>3. IsFiniteSet(DOMAIN message)  BY <1>2, FS_Interval
<1>4. \A i \in DOMAIN message : message[i] \in MessageRow  BY <1>1, <1>2
<1> QED BY <1>2, <1>3, <1>4, LimitAssumption DEF MessageRow

\* Who wrote or was written to is in the list.
LEMMA EveryTalkListed ==
  ASSUME MessageTypeOK, NEW k \in DOMAIN message
  PROVE  \E i \in Listed : message[i].talk = message[k].talk
<1> DEFINE t == message[k].talk
           f == [i \in Messages(t) |-> message[i].created_at]
           times == {f[i] : i \in Messages(t)}
<1>1. IsFiniteSet(times)
  <2>1. IsFiniteSet(Messages(t))  BY MessagesAreFinite, FS_Subset DEF Messages
  <2> HIDE DEF f
  <2> QED BY <2>1, ImageFinite
<1>2. k \in Messages(t)  BY DEF Messages
<1>3. times \subseteq Int /\ times # {}
  BY <1>2, MessagesAreFinite DEF Messages
<1>4. Max(times) \in times /\ \A y \in times : y <= Max(times)
  <2> HIDE DEF times
  <2> QED BY <1>1, <1>3, Largest
<1>5. PICK i \in Messages(t) : f[i] = Max(times)  BY <1>4
<1>6. \A j \in Messages(t) : f[j] \in times  OBVIOUS
<1>7. \A j \in Messages(t) : f[j] <= f[i]  BY <1>4, <1>5, <1>6
<1>8. i \in DOMAIN message /\ message[i].talk = t  BY DEF Messages
<1>9. \A j \in Messages(t) : message[j].created_at <= message[i].created_at  BY <1>7
<1>10. i \in Listed  BY <1>8, <1>9 DEF Listed
<1> QED BY <1>8, <1>10

LEMMA UnreadAddsUp ==
  ASSUME MessageTypeOK
  PROVE  LET sum == SumFunction([row \in Summaries |-> row.unread_count]) IN
         sum = TotalUnread \/ (Tied /\ sum > TotalUnread)
<1> DEFINE R == Summaries
           u == [row \in R |-> row.unread_count]
           Theirs(Q) == {i \in FromCustomers : \E row \in Q : row.customer = message[i].talk}
           G == {Q \in SUBSET R : /\ Cardinality(Theirs(Q)) <= Sum(u, Q)
                                  /\ ~Tied => Cardinality(Theirs(Q)) = Sum(u, Q)}
<1>1. IsFiniteSet(R)
  <2> DEFINE f == [i \in Listed |-> [customer |-> message[i].talk, last |-> i,
                                    unread_count |-> Cardinality(Unread(message[i].talk))]]
  <2>1. IsFiniteSet(Listed)  BY MessagesAreFinite, FS_Subset DEF Listed
  <2>2. R = {f[i] : i \in Listed}  BY DEF Summaries
  <2> HIDE DEF f, R
  <2> QED BY <2>1, <2>2, ImageFinite
<1>2. IsFiniteSet(FromCustomers)  BY MessagesAreFinite, FS_Subset DEF FromCustomers
<1>3. ASSUME NEW row \in R
      PROVE  /\ u[row] = Cardinality(Theirs({row})) /\ u[row] \in Nat
             /\ row.last \in Listed /\ message[row.last].talk = row.customer
             /\ row = [customer |-> row.customer, last |-> row.last, unread_count |-> Cardinality(Unread(row.customer))]
  <2>1. PICK i \in Listed : row = [customer |-> message[i].talk, last |-> i,
                                   unread_count |-> Cardinality(Unread(message[i].talk))]
    BY DEF Summaries
  <2>2. Unread(row.customer) = Theirs({row})
    BY DEF Unread, Messages, FromCustomers
  <2>3. IsFiniteSet(Theirs({row}))  BY <1>2, FS_Subset
  <2>4. u[row] = Cardinality(Unread(row.customer))  BY <2>1
  <2> HIDE DEF u, Theirs
  <2> QED BY <2>1, <2>2, <2>3, <2>4, FS_CardinalityType
<1>31. \A row \in R : u[row] \in Nat
  <2> HIDE DEF u, R, Theirs
  <2> QED BY <1>3
<1>4. {} \in G
  <2>1. Theirs({}) = {}  OBVIOUS
  <2> QED BY <2>1, SumEmpty, FS_EmptySet
<1>5. ASSUME NEW Q \in SUBSET R, Q # {}, (Q \ {Chosen(Q)}) \in G
      PROVE  Q \in G
  <2> DEFINE c == Chosen(Q)  U == Q \ {c}  A == Theirs(U)  B == Theirs({c})  AB == A \cap B
  <2>1. IsFiniteSet(Q)  BY <1>1, FS_Subset
  <2>2. c \in Q /\ c \in R  BY <1>5 DEF Chosen
  <2>3. Sum(u, Q) = u[c] + Sum(u, U)  BY <1>5, <2>1, SumRecurs
  <2>4. u[c] = Cardinality(B)  BY <1>3, <2>2
  <2>5. Theirs(Q) = A \cup B  BY <2>2
  <2>6. IsFiniteSet(A) /\ IsFiniteSet(B) /\ IsFiniteSet(AB)  BY <1>2, FS_Subset
  <2>7. /\ Cardinality(A \cup B) = Cardinality(A) + Cardinality(B) - Cardinality(AB)
        /\ Cardinality(A) \in Nat /\ Cardinality(B) \in Nat /\ Cardinality(AB) \in Nat
    <3> HIDE DEF A, B
    <3> QED BY <2>6, FS_Union, FS_CardinalityType
  <2>8. Sum(u, U) \in Int
    <3>1. IsFiniteSet(U)  BY <2>1, FS_Subset
    <3> HIDE DEF u
    <3>2. \A row \in U : u[row] \in Int  BY <1>31
    <3> QED BY <3>1, <3>2, SumInt
  <2>9. ~Tied => AB = {}
    <3> SUFFICES ASSUME ~Tied, NEW i \in AB  PROVE FALSE
      OBVIOUS
    <3>1. PICK row \in U : row.customer = message[i].talk  OBVIOUS
    <3>2. c.customer = message[i].talk  OBVIOUS
    <3>3. row \in R /\ row # c  OBVIOUS
    <3>4. /\ row.last \in Listed /\ message[row.last].talk = row.customer
          /\ row = [customer |-> row.customer, last |-> row.last, unread_count |-> Cardinality(Unread(row.customer))]
      BY <1>3, <3>3
    <3>5. /\ c.last \in Listed /\ message[c.last].talk = c.customer
          /\ c = [customer |-> c.customer, last |-> c.last, unread_count |-> Cardinality(Unread(c.customer))]
      BY <1>3, <2>2
    <3> HIDE DEF c, R, AB, U
    <3>6. row.last # c.last  BY <3>1, <3>2, <3>3, <3>4, <3>5
    <3> QED BY <3>1, <3>2, <3>4, <3>5, <3>6 DEF Tied
  <2>10. Cardinality({}) = 0  BY FS_EmptySet
  <2>11. Cardinality(A) <= Sum(u, U) /\ (~Tied => Cardinality(A) = Sum(u, U))
    BY <1>5
  <2> HIDE DEF c, U, A, B, AB, Theirs, u
  <2>12. Cardinality(Theirs(Q)) <= Sum(u, Q)
    BY <2>3, <2>4, <2>5, <2>7, <2>8, <2>11
  <2>13. ~Tied => Cardinality(Theirs(Q)) = Sum(u, Q)
    BY <2>3, <2>4, <2>5, <2>7, <2>8, <2>9, <2>10, <2>11
  <2> QED BY <2>12, <2>13
<1> HIDE DEF G
<1>6. R \in G  BY <1>1, <1>4, <1>5, RemovalInduction
<1>7. Theirs(R) = FromCustomers
  <2> SUFFICES ASSUME NEW i \in FromCustomers  PROVE \E row \in R : row.customer = message[i].talk
    OBVIOUS
  <2>1. PICK j \in Listed : message[j].talk = message[i].talk
    BY EveryTalkListed DEF FromCustomers
  <2> DEFINE row == [customer |-> message[j].talk, last |-> j,
                     unread_count |-> Cardinality(Unread(message[j].talk))]
  <2>2. row \in R  BY DEF Summaries
  <2>3. row.customer = message[i].talk  BY <2>1
  <2> HIDE DEF row, R
  <2> QED BY <2>2, <2>3
<1>8. Cardinality(FromCustomers) <= Sum(u, R) /\ (~Tied => Cardinality(FromCustomers) = Sum(u, R))
  BY <1>6, <1>7 DEF G
<1>9. SumFunction(u) = Sum(u, R) /\ TotalUnread = Cardinality(FromCustomers)
  <2>1. DOMAIN u = R  OBVIOUS
  <2> HIDE DEF u, R
  <2> QED BY <2>1, SumWhole DEF TotalUnread, FromCustomers
<1>10. Sum(u, R) \in Int /\ Cardinality(FromCustomers) \in Nat
  <2> HIDE DEF u, R
  <2>1. \A row \in R : u[row] \in Int  BY <1>31
  <2> QED BY <1>1, <1>2, <2>1, SumInt, FS_CardinalityType
<1> HIDE DEF u
<1>11. SumFunction(u) = TotalUnread \/ (Tied /\ SumFunction(u) > TotalUnread)
  BY <1>8, <1>9, <1>10
<1> QED BY <1>11 DEF u
-----------------------------------------------------------------------------
(* Conversations: paging back through one *)

Talked(m, t) == {i \in DOMAIN m : m[i].talk = t}
Earlier(m, i, c) ==
  \/ m[i].created_at < m[c].created_at
  \/ m[i].created_at = m[c].created_at /\ i < c

\* Where a client stands: its cursor parts the messages that were there into
\* those it saw and those that are still before it.
Fits(m, v) ==
  /\ v.twice = {}
  /\ v.there \subseteq Talked(m, v.talk)
  /\ v.before = 0 => v.shown = {}
  /\ v.before # 0 =>
       /\ v.before \in Talked(m, v.talk)
       /\ \A i \in v.shown : i \in Talked(m, v.talk) /\ ~Earlier(m, i, v.before)
       /\ \A i \in v.there : Earlier(m, i, v.before) \/ i \in v.shown
  /\ ~v.has_more => v.there \subseteq v.shown

ScrollIInv == MessageTypeOK /\ \A s \in DOMAIN scroller : Fits(message, scroller[s])

LEMMA FirstIsLeast ==
  ASSUME MessageTypeOK, NEW items \in SUBSET DOMAIN message, items # {}
  PROVE  First(items) \in items /\ \A j \in items \ {First(items)} : Earlier(message, First(items), j)
<1> DEFINE Least(T, i) == i \in T /\ \A j \in T \ {i} : Earlier(message, i, j)
           G == {T \in SUBSET items : T = {} \/ \E i \in T : Least(T, i)}
<1>1. IsFiniteSet(items)  BY MessagesAreFinite, FS_Subset
<1>2. ASSUME NEW T \in SUBSET items, T # {}, (T \ {Chosen(T)}) \in G
      PROVE  T \in G
  <2> DEFINE c == Chosen(T)  U == T \ {c}
  <2>1. c \in T  BY <1>2 DEF Chosen
  <2>2. CASE U = {}
    <3>1. Least(T, c)  BY <2>1, <2>2
    <3> QED BY <2>1, <3>1
  <2>3. CASE U # {}
    <3>1. PICK i \in U : Least(U, i)  BY <1>2, <2>3
    <3> HIDE DEF c
    <3>2. /\ c \in Nat /\ i \in Nat
          /\ message[c].created_at \in Nat /\ message[i].created_at \in Nat /\ i # c
      BY <2>1, MessagesAreFinite
    <3>3. CASE Earlier(message, i, c)
      <4>1. Least(T, i)  BY <3>1, <3>3
      <4> QED BY <4>1
    <3>4. CASE ~Earlier(message, i, c)
      <4>1. Earlier(message, c, i)  BY <3>2, <3>4 DEF Earlier
      <4>2. ASSUME NEW j \in T \ {c}  PROVE Earlier(message, c, j)
        <5>1. j = i \/ Earlier(message, i, j)  BY <3>1
        <5>2. j \in Nat /\ message[j].created_at \in Nat  BY MessagesAreFinite
        <5> QED BY <3>2, <4>1, <5>1, <5>2 DEF Earlier
      <4>3. Least(T, c)  BY <2>1, <4>2
      <4> QED BY <2>1, <4>3
    <3> QED BY <3>3, <3>4
  <2> QED BY <2>2, <2>3
<1>3. {} \in G  OBVIOUS
<1> HIDE DEF G
<1>4. items \in G  BY <1>1, <1>2, <1>3, RemovalInduction
<1>5. PICK i \in items : Least(items, i)  BY <1>4 DEF G
<1> QED BY <1>5 DEF First, Earlier

Rows(v) == {i \in Talked(message, v.talk) : v.before # 0 => Earlier(message, i, v.before)}
Newer(v, i) == {j \in Rows(v) : Earlier(message, i, j)}

\* A page is the newest rows: what is not on it is before its first message,
\* and nothing is left out of the last one.
LEMMA PageIsNewest ==
  ASSUME MessageTypeOK, NEW v \in Scroller
  PROVE  LET page == Page(v.talk, v.before) IN
         /\ page.items \in SUBSET Rows(v) /\ Rows(v) \in SUBSET DOMAIN message
         /\ page.has_more \in BOOLEAN
         /\ ~page.has_more => page.items = Rows(v)
         /\ page.items # {} => \A i \in Rows(v) \ page.items : Earlier(message, i, First(page.items))
<1> DEFINE items == {i \in Rows(v) : Cardinality(Newer(v, i)) < Limit}
           more == Cardinality(Rows(v)) > Limit
<1>1. Page(v.talk, v.before) = [items |-> items, has_more |-> more]
  <2>1. {i \in Messages(v.talk) : v.before # 0 => Before(i, v.before)} = Rows(v)
    BY DEF Messages, Talked, Rows, Before, Earlier
  <2>2. \A i \in Rows(v) :
          {j \in Rows(v) : message[j].created_at > message[i].created_at
             \/ (message[j].created_at = message[i].created_at /\ j > i)} = Newer(v, i)
    <3> SUFFICES ASSUME NEW i \in Rows(v), NEW j \in Rows(v)
                 PROVE  (message[j].created_at > message[i].created_at
                          \/ (message[j].created_at = message[i].created_at /\ j > i))
                        <=> Earlier(message, i, j)
      BY DEF Newer
    <3>1. i \in DOMAIN message /\ j \in DOMAIN message  BY DEF Rows, Talked
    <3> QED BY <3>1, MessagesAreFinite DEF Earlier
  <2> QED BY <2>1, <2>2 DEF Page
<1>2. Rows(v) \in SUBSET DOMAIN message /\ IsFiniteSet(Rows(v))
  <2>1. Rows(v) \in SUBSET DOMAIN message  BY DEF Rows, Talked
  <2> QED BY <2>1, MessagesAreFinite, FS_Subset
<1>3. Cardinality(Rows(v)) \in Nat /\ Limit \in Nat
  BY <1>2, FS_CardinalityType, LimitAssumption
<1>4. \A i \in Rows(v) : /\ IsFiniteSet(Newer(v, i)) /\ Cardinality(Newer(v, i)) \in Nat
                         /\ Newer(v, i) \in SUBSET (Rows(v) \ {i})
  <2> SUFFICES ASSUME NEW i \in Rows(v)
               PROVE  /\ IsFiniteSet(Newer(v, i)) /\ Cardinality(Newer(v, i)) \in Nat
                      /\ Newer(v, i) \in SUBSET (Rows(v) \ {i})
    OBVIOUS
  <2>1. ~Earlier(message, i, i)  BY <1>2, MessagesAreFinite DEF Earlier
  <2>2. Newer(v, i) \in SUBSET (Rows(v) \ {i})  BY <2>1 DEF Newer
  <2>3. IsFiniteSet(Newer(v, i))  BY <1>2, <2>2, FS_Subset
  <2> QED BY <2>2, <2>3, FS_CardinalityType
<1>5. ASSUME ~more, NEW i \in Rows(v)  PROVE i \in items
  <2>1. /\ IsFiniteSet(Rows(v) \ {i}) /\ Cardinality(Rows(v) \ {i}) = Cardinality(Rows(v)) - 1
    BY <1>2, FS_RemoveElement
  <2>2. Cardinality(Newer(v, i)) <= Cardinality(Rows(v) \ {i})
    BY <1>4, <2>1, FS_Subset
  <2> QED BY <1>3, <1>4, <1>5, <2>1, <2>2
<1>6. ASSUME items # {}, NEW i \in Rows(v) \ items
      PROVE  Earlier(message, i, First(items))
  <2> DEFINE f == First(items)
  <2>1. f \in items
    <3>1. items \in SUBSET DOMAIN message  BY <1>2
    <3> HIDE DEF items
    <3> QED BY <1>6, <3>1, FirstIsLeast
  <2> HIDE DEF f
  <2>2. f \in Rows(v) /\ i \in Rows(v) /\ f # i  BY <2>1
  <2>3. ASSUME Earlier(message, f, i)  PROVE FALSE
    <3>1. Newer(v, i) \in SUBSET Newer(v, f)
      <4> SUFFICES ASSUME NEW j \in Newer(v, i)  PROVE j \in Newer(v, f)
        OBVIOUS
      <4>1. j \in Rows(v) /\ Earlier(message, i, j)  BY DEF Newer
      <4>2. Earlier(message, f, j)
        <5>1. f \in DOMAIN message /\ i \in DOMAIN message /\ j \in DOMAIN message
          BY <1>2, <2>2, <4>1
        <5> QED BY <2>3, <4>1, <5>1, MessagesAreFinite DEF Earlier
      <4> QED BY <4>1, <4>2 DEF Newer
    <3>2. Cardinality(Newer(v, i)) <= Cardinality(Newer(v, f))
      BY <1>4, <2>2, <3>1, FS_Subset
    <3>3. Cardinality(Newer(v, f)) < Limit /\ ~(Cardinality(Newer(v, i)) < Limit)
      BY <2>1
    <3> QED BY <1>3, <1>4, <2>2, <3>2, <3>3
  <2>4. f \in DOMAIN message /\ i \in DOMAIN message  BY <1>2, <2>2
  <2>5. Earlier(message, i, f)  BY <2>2, <2>3, <2>4, MessagesAreFinite DEF Earlier
  <2> QED BY <2>5 DEF f
<1> HIDE DEF items, more
<1>7. more \in BOOLEAN  BY DEF more
<1>8. items \in SUBSET Rows(v)  BY DEF items
<1> QED BY <1>1, <1>2, <1>5, <1>6, <1>7, <1>8
\* What a client knows once it has read its page.
Turned(v) ==
  LET page == Page(v.talk, v.before) IN
  [v EXCEPT
     !.step = "turn",
     !.before = IF page.items = {} THEN @ ELSE First(page.items),
     !.has_more = page.has_more,
     !.there = IF v.before = 0 THEN Messages(v.talk) ELSE @,
     !.shown = @ \cup page.items,
     !.twice = @ \cup (v.shown \cap page.items)]

LEMMA PageFits ==
  ASSUME MessageTypeOK, NEW v \in Scroller, Fits(message, v)
  PROVE  Turned(v) \in Scroller /\ Fits(message, Turned(v))
<1> DEFINE page == Page(v.talk, v.before)
           items == page.items
           w == Turned(v)
           there == IF v.before = 0 THEN Talked(message, v.talk) ELSE v.there
           before == IF items = {} THEN v.before ELSE First(items)
<1>1. /\ items \in SUBSET Rows(v) /\ Rows(v) \in SUBSET DOMAIN message
      /\ page.has_more \in BOOLEAN
      /\ ~page.has_more => items = Rows(v)
      /\ items # {} => \A i \in Rows(v) \ items : Earlier(message, i, First(items))
  BY PageIsNewest
<1>2. /\ w.talk = v.talk /\ w.before = before /\ w.has_more = page.has_more /\ w.there = there
      /\ w.shown = v.shown \cup items /\ w.twice = v.twice \cup (v.shown \cap items)
  BY DEF Turned, Scroller, Messages, Talked
<1>3. DOMAIN message \in SUBSET MessageIds
  <2>1. message \in Seq(MessageRow) /\ Len(message) <= MaxMessages  BY DEF MessageTypeOK
  <2>2. Len(message) \in Nat /\ DOMAIN message = 1..Len(message)  BY <2>1
  <2> QED BY <2>1, <2>2, LimitAssumption DEF MessageIds
<1>4. items # {} => /\ First(items) \in items
                    /\ \A j \in items \ {First(items)} : Earlier(message, First(items), j)
  <2>1. items \in SUBSET DOMAIN message  BY <1>1
  <2> HIDE DEF items
  <2> QED BY <2>1, FirstIsLeast
<1>5. w \in Scroller
  <2>1. First(items) \in 1..MaxMessages \/ items = {}  BY <1>1, <1>3, <1>4 DEF MessageIds
  <2>2. before \in 0..MaxMessages
    BY <2>1, LimitAssumption DEF Scroller
  <2>3. there \in SUBSET MessageIds  BY <1>3 DEF Talked, Scroller
  <2>4. items \in SUBSET MessageIds  BY <1>1, <1>3
  <2>5. w = [v EXCEPT !.step = "turn", !.before = before, !.has_more = page.has_more, !.there = there,
                      !.shown = v.shown \cup items, !.twice = v.twice \cup (v.shown \cap items)]
    BY DEF Turned, Scroller, Messages, Talked
  <2> HIDE DEF w, before, there, items, page
  <2> QED BY <1>1, <2>2, <2>3, <2>4, <2>5 DEF Scroller, page, items
<1> HIDE DEF w, page, items
<1>6. v.shown \cap items = {}
  BY <1>1 DEF Fits, Rows
<1>7. there \subseteq Talked(message, v.talk)
  BY DEF Fits
<1>8. \A i \in there : i \in Rows(v) \/ i \in v.shown
  BY DEF Fits, Rows
<1>9. ~page.has_more => there \subseteq v.shown \cup items
  BY <1>1, <1>8
<1>10. before = 0 => v.shown \cup items = {}
  <2>1. items # {} => First(items) # 0  BY <1>1, <1>4, MessagesAreFinite
  <2> QED BY <2>1 DEF Fits
<1>11. ASSUME items # {}
       PROVE  /\ First(items) \in Talked(message, v.talk)
              /\ \A i \in v.shown \cup items : i \in Talked(message, v.talk) /\ ~Earlier(message, i, First(items))
              /\ \A i \in there : Earlier(message, i, First(items)) \/ i \in v.shown \cup items
  <2> DEFINE f == First(items)
  <2>1. f \in items /\ \A j \in items \ {f} : Earlier(message, f, j)  BY <1>4, <1>11
  <2> HIDE DEF f
  <2>2. f \in DOMAIN message /\ f \in Nat /\ message[f].created_at \in Nat
    BY <1>1, <2>1, MessagesAreFinite
  <2>3. ASSUME NEW i \in items  PROVE i \in Talked(message, v.talk) /\ ~Earlier(message, i, f)
    <3>1. i = f \/ Earlier(message, f, i)  BY <2>1
    <3>2. i \in DOMAIN message /\ i \in Nat /\ message[i].created_at \in Nat
      BY <1>1, MessagesAreFinite
    <3> QED BY <1>1, <2>2, <3>1, <3>2 DEF Earlier, Rows
  <2>4. ASSUME NEW i \in v.shown  PROVE i \in Talked(message, v.talk) /\ ~Earlier(message, i, f)
    <3>1. /\ v.before # 0 /\ v.before \in Talked(message, v.talk)
          /\ i \in Talked(message, v.talk) /\ ~Earlier(message, i, v.before)
      BY DEF Fits
    <3>2. Earlier(message, f, v.before)  BY <1>1, <2>1, <3>1 DEF Rows
    <3>3. /\ i \in Nat /\ message[i].created_at \in Nat
          /\ v.before \in Nat /\ message[v.before].created_at \in Nat
      BY <3>1, MessagesAreFinite DEF Talked
    <3> QED BY <2>2, <3>1, <3>2, <3>3 DEF Earlier
  <2>5. ASSUME NEW i \in there  PROVE Earlier(message, i, f) \/ i \in v.shown \cup items
    BY <1>1, <1>8, <1>11, <2>5 DEF f
  <2>6. f \in Talked(message, v.talk)  BY <2>1, <2>3
  <2> QED BY <2>3, <2>4, <2>5, <2>6 DEF f
<1>12. ASSUME items = {}
       PROVE  Fits(message, w)
  <2>1. before = v.before /\ v.shown \cup items = v.shown  BY <1>12
  <2>2. v.before # 0 => there = v.there  OBVIOUS
  <2> HIDE DEF before, there
  <2> QED BY <1>2, <1>6, <1>7, <1>9, <1>10, <2>1, <2>2 DEF Fits
<1>13. ASSUME items # {}
       PROVE  Fits(message, w)
  <2>1. before = First(items)  BY <1>13
  <2> HIDE DEF before, there
  <2>2. v.twice = {}  BY DEF Fits
  <2> QED BY <1>2, <1>6, <1>7, <1>9, <1>10, <1>11, <1>13, <2>1, <2>2 DEF Fits
<1> QED BY <1>5, <1>12, <1>13 DEF w

\* More messages, and other marks on those there are, move nothing that a client saw.
LEMMA FitsGrows ==
  ASSUME NEW m, NEW n, NEW v, Fits(m, v), DOMAIN m \subseteq DOMAIN n,
         \A i \in DOMAIN m : n[i].talk = m[i].talk /\ n[i].created_at = m[i].created_at
  PROVE  Fits(n, v)
<1>1. Talked(m, v.talk) \subseteq Talked(n, v.talk)
  BY DEF Talked
<1>2. \A i, c \in DOMAIN m : Earlier(n, i, c) <=> Earlier(m, i, c)
  BY DEF Earlier
<1>3. ASSUME v.before # 0
      PROVE  /\ v.before \in Talked(n, v.talk)
             /\ \A i \in v.shown : i \in Talked(n, v.talk) /\ ~Earlier(n, i, v.before)
             /\ \A i \in v.there : Earlier(n, i, v.before) \/ i \in v.shown
  <2>1. /\ v.before \in Talked(m, v.talk)
        /\ \A i \in v.shown : i \in Talked(m, v.talk) /\ ~Earlier(m, i, v.before)
        /\ \A i \in v.there : Earlier(m, i, v.before) \/ i \in v.shown
        /\ v.there \subseteq Talked(m, v.talk)
    BY <1>3 DEF Fits
  <2>2. \A i \in Talked(m, v.talk) : i \in DOMAIN m  BY DEF Talked
  <2> QED BY <1>1, <1>2, <2>1, <2>2
<1> QED BY <1>1, <1>3 DEF Fits

LEMMA FitsAlike ==
  ASSUME NEW m, NEW v, NEW w, Fits(m, v), w.talk = v.talk, w.before = v.before, w.has_more = v.has_more,
         w.there = v.there, w.shown = v.shown, w.twice = v.twice
  PROVE  Fits(m, w)
BY DEF Fits

LEMMA ConversationHolds == ScrollIInv => ConversationWhole
<1> SUFFICES ASSUME ScrollIInv  PROVE ConversationWhole
  OBVIOUS
<1>1. MessageTypeOK /\ \A s \in DOMAIN scroller : Fits(message, scroller[s])  BY DEF ScrollIInv
<1>2. \A s \in DOMAIN scroller : /\ scroller[s].twice = {}
                                 /\ ~scroller[s].has_more => scroller[s].there \subseteq scroller[s].shown
  BY <1>1 DEF Fits
<1> QED BY <1>1, <1>2, UnreadAddsUp DEF ConversationWhole

\* Paging back, a client sees every message that was there when it began and
\* none twice, and the unread counts of the list add up to the total, whatever
\* the number of messages, pages, requests and clients
\* (MessageRepository.get_conversation_page, list_conversations).
THEOREM ConversationWholeAlways == MessageSpec => []ConversationWhole
<1>1. MessageInit => ScrollIInv
  BY LimitAssumption DEF MessageInit, ScrollIInv, MessageTypeOK
<1>2. ASSUME ScrollIInv, [MessageNext]_messageVars
      PROVE  ScrollIInv'
  <2>0. MessageTypeOK /\ \A s \in DOMAIN scroller : Fits(message, scroller[s])
    BY <1>2 DEF ScrollIInv
  <2>1. CASE UNCHANGED <<message, scroller>> /\ clock' \in 0..MaxClock /\ UNCHANGED writer
    BY <2>0, <2>1 DEF ScrollIInv, MessageTypeOK, Fits, Talked, Earlier
  <2>2. ASSUME NEW h \in Writers, NEW t \in Talks, NEW merchant \in BOOLEAN, SendBegin(h, t, merchant)
        PROVE  ScrollIInv'
    BY <2>0, <2>2 DEF SendBegin, ScrollIInv, MessageTypeOK, Fits, Talked, Earlier
  <2>3. ASSUME NEW h \in DOMAIN writer, SendCommit(h)
        PROVE  ScrollIInv'
    <3> DEFINE new == [talk |-> writer[h].talk, is_from_merchant |-> writer[h].is_from_merchant,
                       created_at |-> writer[h].created_at, unread |-> TRUE]
    <3>1. new \in MessageRow /\ message \in Seq(MessageRow)
      BY <2>0, <2>3 DEF MessageTypeOK, MessageRow
    <3>2. message' = Append(message, new) /\ Len(message) < MaxMessages /\ UNCHANGED <<clock, scroller>>
          /\ writer' = [g \in DOMAIN writer \ {h} |-> writer[g]]
      BY <2>3 DEF SendCommit
    <3> HIDE DEF new
    <3>3. /\ message' \in Seq(MessageRow) /\ Len(message') <= MaxMessages
          /\ DOMAIN message \subseteq DOMAIN message'
          /\ \A i \in DOMAIN message : (message')[i] = message[i]
      BY <3>1, <3>2, LimitAssumption
    <3>4. MessageTypeOK'
      BY <2>0, <3>2, <3>3 DEF MessageTypeOK
    <3>5. \A s \in DOMAIN scroller : Fits(message', scroller[s])
      BY <2>0, <3>3, FitsGrows
    <3> QED BY <3>2, <3>4, <3>5 DEF ScrollIInv
  <2>4. ASSUME NEW s \in Scrollers, NEW t \in Talks, NEW merchant \in BOOLEAN, Open(s, t, merchant)
        PROVE  ScrollIInv'
    <3> DEFINE v == [talk |-> t, merchant |-> merchant, step |-> "mark", before |-> 0, has_more |-> TRUE,
                     there |-> {}, shown |-> {}, twice |-> {}]
    <3>1. v \in Scroller /\ Fits(message, v)
      BY LimitAssumption DEF Scroller, Fits
    <3>2. /\ DOMAIN scroller' = DOMAIN scroller \cup {s} /\ (scroller')[s] = v
          /\ \A g \in DOMAIN scroller \ {s} : (scroller')[g] = scroller[g]
          /\ UNCHANGED <<message, clock, writer>>
      BY <2>4 DEF Open
    <3> HIDE DEF v
    <3>3. \A g \in DOMAIN scroller' : (scroller')[g] \in Scroller /\ Fits(message, (scroller')[g])
      BY <2>0, <3>1, <3>2 DEF MessageTypeOK
    <3>4. MessageTypeOK'
      BY <2>0, <3>2, <3>3 DEF MessageTypeOK
    <3> QED BY <3>2, <3>3, <3>4 DEF ScrollIInv
  <2>5. ASSUME NEW s \in DOMAIN scroller, Mark(s)
        PROVE  ScrollIInv'
    <3> DEFINE v == scroller[s]  w == [v EXCEPT !.step = "page"]
    <3>1. v \in Scroller /\ Fits(message, v)  BY <2>0 DEF MessageTypeOK
    <3>2. message \in Seq(MessageRow) /\ Len(message) <= MaxMessages /\ UNCHANGED <<clock, writer>>
      BY <2>0, <2>5 DEF MessageTypeOK, Mark
    <3>3. Len(message) \in Nat /\ DOMAIN message = 1..Len(message)
          /\ \A i \in DOMAIN message : message[i] \in MessageRow
      BY <3>2
    <3>4. /\ DOMAIN message' = DOMAIN message
          /\ \A i \in DOMAIN message : (message')[i] = message[i] \/ (message')[i] = [message[i] EXCEPT !.unread = FALSE]
      BY <2>5 DEF Mark
    <3>5. \A i \in DOMAIN message : /\ (message')[i] \in MessageRow /\ (message')[i].talk = message[i].talk
                                    /\ (message')[i].created_at = message[i].created_at
      BY <3>3, <3>4 DEF MessageRow
    <3>6. message' \in Seq(MessageRow) /\ Len(message') = Len(message)
      <4>1. message' = [i \in 1..Len(message) |-> (message')[i]]
        BY <2>5, <3>3 DEF Mark
      <4> QED BY <3>3, <3>5, <4>1
    <3>7. w \in Scroller /\ Fits(message, w)
      <4>1. /\ w \in Scroller /\ w.talk = v.talk /\ w.before = v.before /\ w.has_more = v.has_more
            /\ w.there = v.there /\ w.shown = v.shown /\ w.twice = v.twice
        BY <3>1 DEF Scroller
      <4> HIDE DEF v, w
      <4> QED BY <3>1, <4>1, FitsAlike
    <3>8. scroller' = [scroller EXCEPT ![s] = w]  BY <2>5 DEF Mark
    <3> HIDE DEF v, w
    <3>9. DOMAIN scroller' = DOMAIN scroller
          /\ \A g \in DOMAIN scroller : (scroller')[g] \in Scroller /\ Fits(message, (scroller')[g])
      BY <2>0, <3>7, <3>8 DEF MessageTypeOK
    <3>10. \A g \in DOMAIN scroller : Fits(message', (scroller')[g])
      BY <3>4, <3>5, <3>9, FitsGrows
    <3>11. MessageTypeOK'
      BY <2>0, <3>2, <3>6, <3>9 DEF MessageTypeOK
    <3> QED BY <3>9, <3>10, <3>11 DEF ScrollIInv
  <2>6. ASSUME NEW s \in DOMAIN scroller, ReadPage(s)
        PROVE  ScrollIInv'
    <3>1. Turned(scroller[s]) \in Scroller /\ Fits(message, Turned(scroller[s]))
      BY <2>0, PageFits DEF MessageTypeOK
    <3>2. scroller' = [scroller EXCEPT ![s] = Turned(scroller[s])] /\ UNCHANGED <<message, clock, writer>>
      BY <2>6 DEF ReadPage, Turned
    <3>3. DOMAIN scroller' = DOMAIN scroller
          /\ \A g \in DOMAIN scroller : (scroller')[g] \in Scroller /\ Fits(message, (scroller')[g])
      BY <2>0, <3>1, <3>2 DEF MessageTypeOK
    <3>4. MessageTypeOK'
      BY <2>0, <3>2, <3>3 DEF MessageTypeOK
    <3> QED BY <3>2, <3>3, <3>4 DEF ScrollIInv
  <2>7. ASSUME NEW s \in DOMAIN scroller, TurnPage(s)
        PROVE  ScrollIInv'
    <3> DEFINE w == [scroller[s] EXCEPT !.step = "mark"]
    <3>1. w \in Scroller /\ Fits(message, w)
      <4> DEFINE v == scroller[s]
      <4>1. v \in Scroller /\ Fits(message, v)  BY <2>0 DEF MessageTypeOK
      <4>2. /\ w \in Scroller /\ w.talk = v.talk /\ w.before = v.before /\ w.has_more = v.has_more
            /\ w.there = v.there /\ w.shown = v.shown /\ w.twice = v.twice
        BY <4>1 DEF Scroller
      <4> HIDE DEF v, w
      <4> QED BY <4>1, <4>2, FitsAlike
    <3>2. UNCHANGED <<message, clock, writer>>  BY <2>7 DEF TurnPage
    <3>3. \/ scroller' = [scroller EXCEPT ![s] = w]
          \/ scroller' = [g \in DOMAIN scroller \ {s} |-> scroller[g]]
      BY <2>7 DEF TurnPage
    <3> HIDE DEF w
    <3>4. DOMAIN scroller' \subseteq DOMAIN scroller
          /\ \A g \in DOMAIN scroller' : (scroller')[g] \in Scroller /\ Fits(message, (scroller')[g])
      BY <2>0, <3>1, <3>3 DEF MessageTypeOK
    <3>5. MessageTypeOK'
      BY <2>0, <3>2, <3>4 DEF MessageTypeOK
    <3> QED BY <3>2, <3>4, <3>5 DEF ScrollIInv
  <2>8. Tick \/ UNCHANGED messageVars => UNCHANGED <<message, scroller>> /\ clock' \in 0..MaxClock /\ UNCHANGED writer
    BY <2>0, LimitAssumption DEF Tick, messageVars, MessageTypeOK
  <2> QED
    BY <1>2, <2>1, <2>2, <2>3, <2>4, <2>5, <2>6, <2>7, <2>8 DEF MessageNext
<1> QED BY <1>1, <1>2, ConversationHolds, PTL DEF MessageSpec
=============================================================================
