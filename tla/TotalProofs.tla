---------------------------- MODULE TotalProofs ----------------------------
(***************************************************************************)
(* Lemmas about sums of finitely many integers.  A sum is a fold, which    *)
(* takes the elements of a set one by one in an order that CHOOSE fixes;   *)
(* what is proved here is that it does not depend on that order, and how   *)
(* it changes when the function does.  Besides, the least number of a set, *)
(* which the proofs about functions that recur over numbers rest on.       *)
(***************************************************************************)
EXTENDS Totals, FiniteSetTheorems, TLAPS

\* A set of numbers that is not empty has a least one.
LEMMA LeastOf ==
    ASSUME NEW T \in SUBSET Nat, T # {}
    PROVE  \E n \in T : \A m \in T : ~(m < n)
<1> DEFINE less == {ss \in Nat \X Nat : ss[1] < ss[2]}
<1>1. IsWellFoundedOn(less, Nat)
  BY NatLessThanWellFounded DEF OpToRel
<1>2. \A n, m \in Nat : m < n => <<m, n>> \in less
  OBVIOUS
<1> HIDE DEF less
<1>3. PICK n \in T : \A m \in T : <<m, n>> \notin less
  BY <1>1, WFMin
<1>. QED
  BY <1>2, <1>3

(***************************************************************************)
(* Induction over the subsets of a finite set.                             *)
(***************************************************************************)

\* A set of subsets that has every subset whose proper subsets it has, has them all.
LEMMA StrongSubsetInduction ==
    ASSUME NEW S, IsFiniteSet(S), NEW Good,
           \A T \in SUBSET S : (\A U \in SUBSET T : U # T => U \in Good) => T \in Good
    PROVE  \A T \in SUBSET S : T \in Good
<1> DEFINE bad == {T \in SUBSET S : T \notin Good}
<1> SUFFICES ASSUME bad # {} PROVE FALSE
  OBVIOUS
<1>1. IsWellFoundedOn(StrictSubsetOrdering(S), SUBSET S)
  <2>1. FiniteSubsetsOf(S) = SUBSET S
    BY FS_FiniteSubsetsOfFinite
  <2>2. IsWellFoundedOn(StrictSubsetOrdering(S), FiniteSubsetsOf(S))
    BY FS_StrictSubsetOrderingWellFounded
  <2>. QED
    BY <2>1, <2>2
<1>2. PICK T \in bad : \A U \in bad : <<U, T>> \notin StrictSubsetOrdering(S)
  <2>1. bad \subseteq SUBSET S
    OBVIOUS
  <2> HIDE DEF bad
  <2>. QED
    BY <1>1, <2>1, WFMin
<1>3. \A U \in SUBSET T : U # T => U \in Good
  BY <1>2 DEF StrictSubsetOrdering
<1>. QED
  BY <1>2, <1>3

\* A set of subsets that has the empty set, and with a set every set that has one
\* element more, has them all.
LEMMA SubsetInduction ==
    ASSUME NEW S, IsFiniteSet(S), NEW Good, {} \in Good,
           \A T \in SUBSET S : \A x \in S \ T : T \in Good => T \cup {x} \in Good
    PROVE  S \in Good
<1>1. ASSUME NEW T \in SUBSET S, \A U \in SUBSET T : U # T => U \in Good
      PROVE  T \in Good
  <2>1. CASE T = {}
    BY <2>1
  <2>2. ASSUME NEW x \in T PROVE T \in Good
    <3>1. T \ {x} \in Good /\ T = (T \ {x}) \cup {x}
      BY <1>1
    <3>. QED
      BY <3>1
  <2>. QED
    BY <2>1, <2>2
<1>. QED
  BY <1>1, StrongSubsetInduction

(***************************************************************************)
(* The recursion of the fold.                                              *)
(***************************************************************************)

First(T) == CHOOSE x \in T : TRUE

\* g has the sums of f over the subsets of S.
SumsOver(f, S, g) ==
    g = [T \in SUBSET S |-> IF T = {} THEN 0 ELSE f[First(T)] + g[T \ {First(T)}]]

LEMMA TotalIsFold ==
    ASSUME NEW f
    PROVE  Total(f) = (CHOOSE g : SumsOver(f, DOMAIN f, g))[DOMAIN f]
BY DEF Total, MapThenSumSet, MapThenFoldSet, SumsOver, First

LEMMA SumsStep ==
    ASSUME NEW f, NEW S, NEW g, SumsOver(f, S, g)
    PROVE  /\ g[{}] = 0
           /\ \A T \in SUBSET S : T # {} =>
                 First(T) \in T /\ g[T] = f[First(T)] + g[T \ {First(T)}]
<1>1. \A T \in SUBSET S : g[T] = IF T = {} THEN 0 ELSE f[First(T)] + g[T \ {First(T)}]
  BY DEF SumsOver
<1>2. \A T : T # {} => First(T) \in T
  BY DEF First
<1>. QED
  BY <1>1, <1>2

\* The sums are the same wherever they are computed.
LEMMA SumsUnique ==
    ASSUME NEW f, NEW h, NEW A, NEW B, NEW g, NEW k, SumsOver(f, A, g), SumsOver(h, B, k),
           NEW W \in SUBSET A, W \in SUBSET B, IsFiniteSet(W),
           \A x \in W : f[x] = h[x]
    PROVE  \A T \in SUBSET W : g[T] = k[T]
<1> DEFINE Good == {T \in SUBSET W : g[T] = k[T]}
<1>1. ASSUME NEW T \in SUBSET W, \A U \in SUBSET T : U # T => U \in Good
      PROVE  T \in Good
  <2>1. CASE T = {}
    BY <2>1, SumsStep
  <2>2. CASE T # {}
    <3>1. /\ First(T) \in T
          /\ g[T] = f[First(T)] + g[T \ {First(T)}]
          /\ k[T] = h[First(T)] + k[T \ {First(T)}]
      BY <2>2, SumsStep
    <3>2. T \ {First(T)} \in Good
      BY <1>1, <3>1
    <3>. QED
      BY <3>1, <3>2
  <2>. QED
    BY <2>1, <2>2
<1> HIDE DEF Good
<1>2. \A T \in SUBSET W : T \in Good
  BY <1>1, StrongSubsetInduction
<1>. QED
  BY <1>2 DEF Good

\* The sums exist.
LEMMA SumsExist ==
    ASSUME NEW f, NEW S, IsFiniteSet(S)
    PROVE  \E g : SumsOver(f, S, g)
<1> DEFINE sums(T) == CHOOSE g : SumsOver(f, T, g)
           Good == {T \in SUBSET S : SumsOver(f, T, sums(T))}
<1>1. ASSUME NEW T \in SUBSET S, \A U \in SUBSET T : U # T => U \in Good
      PROVE  T \in Good
  <2>. DEFINE value(U) == IF U = {} THEN 0
                          ELSE f[First(U)] + sums(U \ {First(U)})[U \ {First(U)}]
              g == [U \in SUBSET T |-> value(U)]
  <2>1. ASSUME NEW V \in SUBSET T, V # T
        PROVE  g[V] = sums(V)[V]
    <3>1. SumsOver(f, V, sums(V))
      BY <1>1, <2>1
    <3>2. CASE V = {}
      BY <3>1, <3>2, SumsStep
    <3>3. CASE V # {}
      <4>. DEFINE W == V \ {First(V)}
      <4>1. First(V) \in V /\ sums(V)[V] = f[First(V)] + sums(V)[W]
        <5>. DEFINE k == sums(V)
        <5>1. SumsOver(f, V, k)
          BY <3>1
        <5>. HIDE DEF k
        <5>2. First(V) \in V /\ k[V] = f[First(V)] + k[V \ {First(V)}]
          BY <5>1, <3>3, SumsStep
        <5>. QED
          BY <5>2 DEF k
      <4>2. W \in SUBSET T /\ W # T /\ W \in SUBSET V
        BY <4>1
      <4>3. SumsOver(f, W, sums(W))
        BY <1>1, <4>2
      <4>4. IsFiniteSet(W)
        BY <4>2, FS_Subset
      <4>5. sums(V)[W] = sums(W)[W]
        <5>. HIDE DEF sums, W
        <5>. QED
          BY <3>1, <4>2, <4>3, <4>4, SumsUnique
      <4>6. g[V] = f[First(V)] + sums(W)[W]
        BY <3>3
      <4>. QED
        BY <4>1, <4>5, <4>6
    <3>. QED
      BY <3>2, <3>3
  <2>2. ASSUME NEW U \in SUBSET T
        PROVE  value(U) = IF U = {} THEN 0 ELSE f[First(U)] + g[U \ {First(U)}]
    <3>1. CASE U = {}
      BY <3>1
    <3>2. CASE U # {}
      <4>1. First(U) \in U
        BY <3>2 DEF First
      <4>2. g[U \ {First(U)}] = sums(U \ {First(U)})[U \ {First(U)}]
        <5>. HIDE DEF g, sums
        <5>. QED
          BY <2>1, <4>1
      <4>. QED
        BY <3>2, <4>2
    <3>. QED
      BY <3>1, <3>2
  <2>3. SumsOver(f, T, g)
    <3>1. g = [U \in SUBSET T |-> IF U = {} THEN 0 ELSE f[First(U)] + g[U \ {First(U)}]]
      <4>. HIDE DEF sums
      <4>. QED
        BY <2>2
    <3>. QED
      BY <3>1 DEF SumsOver
  <2>. QED
    <3>. HIDE DEF g
    <3>. QED
      BY <2>3
<1> HIDE DEF Good
<1>2. \A T \in SUBSET S : T \in Good
  BY <1>1, StrongSubsetInduction
<1>. QED
  BY <1>2 DEF Good

\* A function on a part of its domain.
LEMMA Restricted ==
    ASSUME NEW f, NEW T
    PROVE  /\ DOMAIN Restrict(f, T) = T
           /\ \A x \in T : Restrict(f, T)[x] = f[x]
           /\ \A U \in SUBSET T : Restrict(Restrict(f, T), U) = Restrict(f, U)
           /\ f = [x \in T |-> f[x]] => Restrict(f, T) = f
           /\ \A S, V : f \in [S -> V] /\ T \subseteq S => Restrict(f, T) \in [T -> V]
           /\ \A g : (\A x \in T : f[x] = g[x]) => Restrict(f, T) = Restrict(g, T)
BY DEF Restrict

\* The sum over a part of the domain, as one recursion has it.
LEMMA TotalsOfParts ==
    ASSUME NEW S, IsFiniteSet(S), NEW f, DOMAIN f = S
    PROVE  \E g : /\ SumsOver(f, S, g)
                  /\ \A T \in SUBSET S : Total(Restrict(f, T)) = g[T]
                  /\ Total(f) = g[S]
<1>1. PICK g : SumsOver(f, S, g)
  BY SumsExist
<1>2. ASSUME NEW T \in SUBSET S, NEW h, DOMAIN h = T, \A x \in T : h[x] = f[x]
      PROVE  Total(h) = g[T]
  <2>. DEFINE k == CHOOSE k : SumsOver(h, T, k)
  <2>1. IsFiniteSet(T)
    BY FS_Subset
  <2>2. SumsOver(h, T, k)
    BY <2>1, SumsExist
  <2>3. Total(h) = k[T]
    BY <1>2, TotalIsFold
  <2>. HIDE DEF k
  <2>4. k[T] = g[T]
    BY <1>1, <1>2, <2>1, <2>2, SumsUnique
  <2>. QED
    BY <2>3, <2>4
<1>3. Total(f) = g[S]
  BY <1>2
<1>4. ASSUME NEW T \in SUBSET S
      PROVE  Total(Restrict(f, T)) = g[T]
  BY <1>2, Restricted
<1>. QED
  BY <1>1, <1>3, <1>4

(***************************************************************************)
(* What a sum is, whatever the order.                                      *)
(***************************************************************************)

LEMMA TotalEmpty == ASSUME NEW f, DOMAIN f = {} PROVE Total(f) = 0
<1>1. PICK g : SumsOver(f, {}, g) /\ Total(f) = g[{}]
  BY TotalsOfParts, FS_EmptySet
<1>. QED
  BY <1>1, SumsStep

\* One element can be taken out first.
LEMMA TotalRemove ==
    ASSUME NEW S, IsFiniteSet(S), NEW f \in [S -> Int], NEW x \in S
    PROVE  /\ Total(f) \in Int
           /\ Total(Restrict(f, S \ {x})) \in Int
           /\ Total(f) = f[x] + Total(Restrict(f, S \ {x}))
<1>1. PICK g : /\ SumsOver(f, S, g)
               /\ \A T \in SUBSET S : Total(Restrict(f, T)) = g[T]
               /\ Total(f) = g[S]
  BY TotalsOfParts
<1>2. /\ g[{}] = 0
      /\ \A T \in SUBSET S : T # {} =>
            First(T) \in T /\ g[T] = f[First(T)] + g[T \ {First(T)}]
  <2>1. SumsOver(f, S, g)
    BY <1>1
  <2>2. g[{}] = 0
    BY <2>1, SumsStep
  <2>3. ASSUME NEW T \in SUBSET S, T # {}
        PROVE  First(T) \in T /\ g[T] = f[First(T)] + g[T \ {First(T)}]
    BY <2>1, <2>3, SumsStep
  <2>. QED
    BY <2>2, <2>3
<1>3. \A T \in SUBSET S : g[T] \in Int
  <2>. DEFINE Good == {T \in SUBSET S : g[T] \in Int}
  <2>1. ASSUME NEW T \in SUBSET S, \A U \in SUBSET T : U # T => U \in Good
        PROVE  T \in Good
    <3>1. CASE T = {}
      BY <1>2, <3>1
    <3>2. CASE T # {}
      <4>1. First(T) \in T /\ g[T] = f[First(T)] + g[T \ {First(T)}]
        BY <1>2, <3>2
      <4>2. g[T \ {First(T)}] \in Int
        BY <2>1, <4>1
      <4>3. f[First(T)] \in Int
        BY <4>1
      <4>. QED
        BY <4>1, <4>2, <4>3
    <3>. QED
      BY <3>1, <3>2
  <2>. HIDE DEF Good
  <2>2. \A T \in SUBSET S : T \in Good
    BY <2>1, StrongSubsetInduction
  <2>. QED
    BY <2>2 DEF Good
<1>4. \A T \in SUBSET S : \A y \in T : g[T] = f[y] + g[T \ {y}]
  <2>. DEFINE Good == {T \in SUBSET S : \A y \in T : g[T] = f[y] + g[T \ {y}]}
  <2>1. ASSUME NEW T \in SUBSET S, \A U \in SUBSET T : U # T => U \in Good
        PROVE  T \in Good
    <3> SUFFICES ASSUME NEW y \in T PROVE g[T] = f[y] + g[T \ {y}]
      OBVIOUS
    <3>. DEFINE z == First(T)
    <3>1. z \in T /\ g[T] = f[z] + g[T \ {z}]
      BY <1>2
    <3>. HIDE DEF z
    <3>2. CASE y = z
      BY <3>1, <3>2
    <3>3. CASE y # z
      <4>1. T \ {z} \in Good /\ T \ {y} \in Good
        BY <2>1, <3>1
      <4>2. /\ g[T \ {z}] = f[y] + g[(T \ {z}) \ {y}]
            /\ g[T \ {y}] = f[z] + g[(T \ {y}) \ {z}]
        BY <3>1, <3>3, <4>1
      <4>3. (T \ {z}) \ {y} = (T \ {y}) \ {z} /\ (T \ {y}) \ {z} \in SUBSET S
        OBVIOUS
      <4>4. g[(T \ {y}) \ {z}] \in Int /\ f[y] \in Int /\ f[z] \in Int
        BY <1>3, <3>1, <4>3
      <4>. DEFINE a == g[(T \ {y}) \ {z}]
      <4>5. g[T] = f[z] + (f[y] + a) /\ g[T \ {y}] = f[z] + a
        BY <3>1, <4>2, <4>3
      <4>6. a \in Int
        BY <4>4
      <4>. HIDE DEF a
      <4>. QED
        BY <4>4, <4>5, <4>6
    <3>. QED
      BY <3>2, <3>3
  <2>. HIDE DEF Good
  <2>2. \A T \in SUBSET S : T \in Good
    BY <2>1, StrongSubsetInduction
  <2>. QED
    BY <2>2 DEF Good
<1>5. S \in SUBSET S /\ S \ {x} \in SUBSET S
  OBVIOUS
<1>. QED
  BY <1>1, <1>3, <1>4, <1>5

LEMMA TotalInt ==
    ASSUME NEW S, IsFiniteSet(S), NEW f \in [S -> Int]
    PROVE  Total(f) \in Int
<1>1. CASE S = {}
  BY <1>1, TotalEmpty
<1>2. CASE S # {}
  BY <1>2, TotalRemove
<1>. QED
  BY <1>1, <1>2

\* One element more.
LEMMA TotalOneMore ==
    ASSUME NEW S, IsFiniteSet(S), NEW x, x \notin S, NEW f \in [S \cup {x} -> Int]
    PROVE  Total(f) = f[x] + Total(Restrict(f, S))
<1>1. IsFiniteSet(S \cup {x})
  BY FS_AddElement
<1>2. (S \cup {x}) \ {x} = S
  OBVIOUS
<1>. QED
  BY <1>1, <1>2, TotalRemove

\* The parts of a sum, one by one.
LEMMA TotalOfMore ==
    ASSUME NEW S, IsFiniteSet(S), NEW f \in [S -> Int], NEW T \in SUBSET S, NEW x \in S \ T
    PROVE  /\ Total(Restrict(f, T)) \in Int
           /\ Total(Restrict(f, T \cup {x})) = f[x] + Total(Restrict(f, T))
<1>. DEFINE more == Restrict(f, T \cup {x})
<1>1. IsFiniteSet(T)
  BY FS_Subset
<1>2. /\ Restrict(f, T) \in [T -> Int]
      /\ more \in [T \cup {x} -> Int] /\ more[x] = f[x]
      /\ Restrict(more, T) = Restrict(f, T)
  BY Restricted
<1>. HIDE DEF more
<1>3. Total(more) = more[x] + Total(Restrict(more, T))
  BY <1>1, <1>2, TotalOneMore
<1>4. Total(Restrict(f, T)) \in Int
  BY <1>1, <1>2, TotalInt
<1>. QED
  BY <1>2, <1>3, <1>4 DEF more

\* A sum changes by what its only element that changes does.
LEMMA TotalChange ==
    ASSUME NEW S, IsFiniteSet(S), NEW f \in [S -> Int], NEW g \in [S -> Int], NEW x \in S,
           \A y \in S \ {x} : g[y] = f[y]
    PROVE  Total(g) = Total(f) + g[x] - f[x]
<1>1. Restrict(g, S \ {x}) = Restrict(f, S \ {x})
  BY Restricted
<1>. DEFINE rest == Total(Restrict(f, S \ {x}))
<1>2. Total(f) = f[x] + rest /\ rest \in Int
  BY TotalRemove
<1>3. Total(g) = g[x] + rest
  BY <1>1, TotalRemove
<1>. HIDE DEF rest
<1>. QED
  BY <1>2, <1>3

\* Sums are compared element by element.
LEMMA TotalMonotone ==
    ASSUME NEW S, IsFiniteSet(S), NEW f \in [S -> Int], NEW g \in [S -> Int],
           \A x \in S : f[x] <= g[x]
    PROVE  Total(f) <= Total(g)
<1>. DEFINE F(T) == Total(Restrict(f, T))
            G(T) == Total(Restrict(g, T))
            Good == {T \in SUBSET S : F(T) <= G(T)}
<1>1. {} \in Good
  <2>1. DOMAIN Restrict(f, {}) = {} /\ DOMAIN Restrict(g, {}) = {}
    BY Restricted
  <2>2. Total(Restrict(f, {})) = 0
    BY <2>1, TotalEmpty
  <2>3. Total(Restrict(g, {})) = 0
    BY <2>1, TotalEmpty
  <2>. QED
    BY <2>2, <2>3
<1>2. ASSUME NEW T \in SUBSET S, NEW x \in S \ T, T \in Good
      PROVE  T \cup {x} \in Good
  <2>1. F(T) \in Int /\ F(T \cup {x}) = f[x] + F(T)
    <3>1. Total(Restrict(f, T)) \in Int
      BY TotalOfMore
    <3>2. Total(Restrict(f, T \cup {x})) = f[x] + Total(Restrict(f, T))
      BY TotalOfMore
    <3>. QED
      BY <3>1, <3>2
  <2>2. G(T) \in Int /\ G(T \cup {x}) = g[x] + G(T)
    <3>1. Total(Restrict(g, T)) \in Int
      BY TotalOfMore
    <3>2. Total(Restrict(g, T \cup {x})) = g[x] + Total(Restrict(g, T))
      BY TotalOfMore
    <3>. QED
      BY <3>1, <3>2
  <2>. HIDE DEF F, G
  <2>. QED
    BY <1>2, <2>1, <2>2
<1>3. S \in Good
  <2>. HIDE DEF Good
  <2>. QED
    BY <1>1, <1>2, SubsetInduction
<1>4. Restrict(f, S) = f /\ Restrict(g, S) = g
  BY Restricted
<1>. QED
  BY <1>3, <1>4

\* Sums are added element by element.
LEMMA TotalPlus ==
    ASSUME NEW S, IsFiniteSet(S), NEW f \in [S -> Int], NEW g \in [S -> Int],
           NEW h \in [S -> Int], \A x \in S : h[x] = f[x] + g[x]
    PROVE  Total(h) = Total(f) + Total(g)
<1>. DEFINE F(T) == Total(Restrict(f, T))
            G(T) == Total(Restrict(g, T))
            H(T) == Total(Restrict(h, T))
            Good == {T \in SUBSET S : H(T) = F(T) + G(T)}
<1>1. {} \in Good
  <2>1. DOMAIN Restrict(f, {}) = {} /\ DOMAIN Restrict(g, {}) = {} /\ DOMAIN Restrict(h, {}) = {}
    BY Restricted
  <2>2. F({}) = 0
    BY <2>1, TotalEmpty
  <2>3. G({}) = 0
    BY <2>1, TotalEmpty
  <2>4. H({}) = 0
    BY <2>1, TotalEmpty
  <2>. HIDE DEF F, G, H
  <2>. QED
    BY <2>2, <2>3, <2>4
<1>2. ASSUME NEW T \in SUBSET S, NEW x \in S \ T, T \in Good
      PROVE  T \cup {x} \in Good
  <2>1. F(T) \in Int /\ F(T \cup {x}) = f[x] + F(T)
    <3>1. F(T) \in Int
      BY TotalOfMore
    <3>2. F(T \cup {x}) = f[x] + F(T)
      BY TotalOfMore
    <3>. QED
      BY <3>1, <3>2
  <2>2. G(T) \in Int /\ G(T \cup {x}) = g[x] + G(T)
    <3>1. G(T) \in Int
      BY TotalOfMore
    <3>2. G(T \cup {x}) = g[x] + G(T)
      BY TotalOfMore
    <3>. QED
      BY <3>1, <3>2
  <2>3. H(T \cup {x}) = h[x] + H(T)
    BY TotalOfMore
  <2>. HIDE DEF F, G, H
  <2>4. f[x] \in Int /\ g[x] \in Int /\ h[x] = f[x] + g[x] /\ H(T) = F(T) + G(T)
    BY <1>2
  <2>5. H(T \cup {x}) = F(T \cup {x}) + G(T \cup {x})
    BY <2>1, <2>2, <2>3, <2>4
  <2>. QED
    BY <2>5
<1>3. S \in Good
  <2>. HIDE DEF Good
  <2>. QED
    BY <1>1, <1>2, SubsetInduction
<1>4. Restrict(f, S) = f /\ Restrict(g, S) = g /\ Restrict(h, S) = h
  BY Restricted
<1>. QED
  BY <1>3, <1>4

LEMMA TotalZero ==
    ASSUME NEW S, IsFiniteSet(S), NEW f \in [S -> Int], \A x \in S : f[x] = 0
    PROVE  Total(f) = 0
<1>1. Total(f) = Total(f) + Total(f)
  BY TotalPlus
<1>2. Total(f) \in Int
  BY TotalInt
<1>. QED
  BY <1>1, <1>2

\* A sum of naturals is one, and is at least each of them.
LEMMA TotalNat ==
    ASSUME NEW S, IsFiniteSet(S), NEW f \in [S -> Nat]
    PROVE  Total(f) \in Nat /\ \A x \in S : f[x] <= Total(f)
<1>. DEFINE zero == [x \in S |-> 0]
<1>0. f \in [S -> Int] /\ zero \in [S -> Int] /\ \A x \in S : zero[x] = 0 /\ zero[x] <= f[x]
  OBVIOUS
<1>1. Total(f) \in Nat
  <2>1. Total(f) \in Int
    BY <1>0, TotalInt
  <2>. HIDE DEF zero
  <2>2. Total(zero) = 0
    BY <1>0, TotalZero
  <2>3. Total(zero) <= Total(f)
    BY <1>0, TotalMonotone
  <2>. QED
    BY <2>1, <2>2, <2>3
<1>2. ASSUME NEW x \in S
      PROVE  f[x] <= Total(f)
  <2>. DEFINE only == [zero EXCEPT ![x] = f[x]]
  <2>1. /\ only \in [S -> Int] /\ only[x] = f[x] /\ \A y \in S \ {x} : only[y] = zero[y]
        /\ \A y \in S : only[y] <= f[y]
    BY <1>0
  <2>. HIDE DEF zero, only
  <2>2. Total(zero) = 0
    BY <1>0, TotalZero
  <2>3. Total(only) = Total(zero) + only[x] - zero[x]
    BY <1>0, <2>1, TotalChange
  <2>4. Total(only) <= Total(f)
    BY <1>0, <2>1, TotalMonotone
  <2>. QED
    BY <1>0, <1>1, <2>1, <2>2, <2>3, <2>4
<1>. QED
  BY <1>1, <1>2

\* A sum is that of a part and that of the rest.
LEMMA TotalSplit ==
    ASSUME NEW S, IsFiniteSet(S), NEW f \in [S -> Int], NEW T \in SUBSET S
    PROVE  Total(f) = Total(Restrict(f, T)) + Total(Restrict(f, S \ T))
<1>. DEFINE F(U) == Total(Restrict(f, U))
            Good == {U \in SUBSET (S \ T) : F(T \cup U) = F(T) + F(U)}
<1>1. F({}) = 0 /\ F(T) \in Int
  <2>1. DOMAIN Restrict(f, {}) = {}
    BY Restricted
  <2>2. F({}) = 0
    BY <2>1, TotalEmpty
  <2>3. IsFiniteSet(T) /\ Restrict(f, T) \in [T -> Int]
    BY FS_Subset DEF Restrict
  <2>4. F(T) \in Int
    BY <2>3, TotalInt
  <2>. QED
    BY <2>2, <2>4
<1>2. {} \in Good
  <2>1. T \cup {} = T
    OBVIOUS
  <2>. HIDE DEF F
  <2>. QED
    BY <1>1, <2>1
<1>3. ASSUME NEW U \in SUBSET (S \ T), NEW x \in (S \ T) \ U, U \in Good
      PROVE  U \cup {x} \in Good
  <2>1. F(U) \in Int
    BY TotalOfMore
  <2>2. F(U \cup {x}) = f[x] + F(U)
    BY TotalOfMore
  <2>3. T \cup U \in SUBSET S /\ x \in S \ (T \cup U) /\ (T \cup U) \cup {x} = T \cup (U \cup {x})
    OBVIOUS
  <2>4. F((T \cup U) \cup {x}) = f[x] + F(T \cup U)
    BY <2>3, TotalOfMore
  <2>5. f[x] \in Int
    OBVIOUS
  <2>. HIDE DEF F
  <2>6. F(T \cup (U \cup {x})) = f[x] + F(T \cup U) /\ F(T \cup U) = F(T) + F(U)
    BY <1>3, <2>3, <2>4
  <2>7. F(T \cup (U \cup {x})) = F(T) + F(U \cup {x})
    BY <1>1, <2>1, <2>2, <2>5, <2>6
  <2>. QED
    BY <2>7
<1>4. S \ T \in Good
  <2>1. IsFiniteSet(S \ T)
    BY FS_Subset
  <2>. HIDE DEF Good
  <2>. QED
    BY <1>2, <1>3, <2>1, SubsetInduction
<1>5. T \cup (S \ T) = S /\ Restrict(f, S) = f
  BY DEF Restrict
<1>. QED
  BY <1>4, <1>5

\* What is zero outside a set sums to what is in the set.
LEMMA TotalOfPart ==
    ASSUME NEW S, IsFiniteSet(S), NEW T \in SUBSET S, NEW f \in [S -> Int],
           \A x \in S \ T : f[x] = 0
    PROVE  Total(f) = Total(Restrict(f, T))
<1>1. IsFiniteSet(S \ T) /\ IsFiniteSet(T)
  BY FS_Subset
<1>2. /\ Restrict(f, S \ T) \in [S \ T -> Int]
      /\ \A x \in S \ T : Restrict(f, S \ T)[x] = 0
  BY DEF Restrict
<1>3. Total(Restrict(f, S \ T)) = 0
  BY <1>1, <1>2, TotalZero
<1>4. Restrict(f, T) \in [T -> Int]
  BY DEF Restrict
<1>5. Total(Restrict(f, T)) \in Int
  BY <1>1, <1>4, TotalInt
<1>. QED
  BY <1>3, <1>5, TotalSplit

\* One value is replaced.
LEMMA TotalExcept ==
    ASSUME NEW S, IsFiniteSet(S), NEW f \in [S -> Int], NEW x \in S, NEW n \in Int
    PROVE  Total([f EXCEPT ![x] = n]) = Total(f) + n - f[x]
<1>. DEFINE g == [f EXCEPT ![x] = n]
<1>1. g \in [S -> Int] /\ g[x] = n /\ \A y \in S \ {x} : g[y] = f[y]
  OBVIOUS
<1>. HIDE DEF g
<1>2. Total(g) = Total(f) + g[x] - f[x]
  BY <1>1, TotalChange
<1>. QED
  BY <1>1, <1>2 DEF g

\* A sum is that of the same values under other names; what has no name counts nothing.
LEMMA TotalRenamed ==
    ASSUME NEW S, IsFiniteSet(S), NEW T, IsFiniteSet(T),
           NEW f \in [S -> Int], NEW g \in [T -> Int], NEW name \in [S -> T],
           \A x \in S : \A y \in S : name[x] = name[y] => x = y,
           \A x \in S : g[name[x]] = f[x],
           \A y \in T : (\A x \in S : name[x] # y) => g[y] = 0
    PROVE  Total(g) = Total(f)
<1>. DEFINE Names(U) == {name[x] : x \in U}
            F(U) == Total(Restrict(f, U))
            G(U) == Total(Restrict(g, Names(U)))
            Good == {U \in SUBSET S : G(U) = F(U)}
<1>1. {} \in Good
  <2>1. Names({}) = {} /\ DOMAIN Restrict(f, {}) = {} /\ DOMAIN Restrict(g, {}) = {}
    BY Restricted
  <2>2. F({}) = 0 /\ G({}) = 0
    BY <2>1, TotalEmpty
  <2>. HIDE DEF F, G
  <2>. QED
    BY <2>2
<1>2. ASSUME NEW U \in SUBSET S, NEW x \in S \ U, U \in Good
      PROVE  U \cup {x} \in Good
  <2>1. /\ Names(U) \in SUBSET T /\ name[x] \in T \ Names(U)
        /\ Names(U \cup {x}) = Names(U) \cup {name[x]}
    OBVIOUS
  <2>2. F(U \cup {x}) = f[x] + F(U)
    BY TotalOfMore
  <2>3. G(U \cup {x}) = g[name[x]] + G(U)
    <3>. HIDE DEF Names
    <3>. QED
      BY <2>1, TotalOfMore
  <2>. HIDE DEF F, G
  <2>. QED
    BY <1>2, <2>2, <2>3
<1>3. S \in Good
  <2>. HIDE DEF Good
  <2>. QED
    BY <1>1, <1>2, SubsetInduction
<1>4. Restrict(f, S) = f
  BY Restricted
<1>5. Names(S) \in SUBSET T /\ \A y \in T \ Names(S) : g[y] = 0
  OBVIOUS
<1>6. Total(g) = G(S)
  <2>. HIDE DEF Names
  <2>. QED
    BY <1>5, TotalOfPart
<1>. QED
  BY <1>3, <1>4, <1>6

\* The sum of one value.
LEMMA TotalOne ==
    ASSUME NEW x, NEW f \in [{x} -> Int]
    PROVE  Total(f) = f[x]
<1>1. IsFiniteSet({}) /\ x \notin {} /\ {} \cup {x} = {x}
  BY FS_EmptySet
<1>2. Total(f) = f[x] + Total(Restrict(f, {}))
  BY <1>1, TotalOneMore
<1>3. DOMAIN Restrict(f, {}) = {}
  BY Restricted
<1>4. Total(Restrict(f, {})) = 0
  BY <1>3, TotalEmpty
<1>. QED
  BY <1>2, <1>4

\* A sequence of values gets one more.
LEMMA TotalAppended ==
    ASSUME NEW n \in Nat, NEW f \in [1..n -> Int], NEW g \in [1..(n + 1) -> Int],
           f = Restrict(g, 1..n)
    PROVE  Total(g) = Total(f) + g[n + 1] /\ Total(f) \in Int
<1>. DEFINE S == 1..n
            x == n + 1
<1>1. IsFiniteSet(S)
  BY FS_Interval
<1>2. x \notin S /\ 1..(n + 1) = S \cup {x}
  OBVIOUS
<1>3. f \in [S -> Int] /\ g \in [S \cup {x} -> Int] /\ Restrict(g, S) = f
  BY <1>2
<1>. HIDE DEF S, x
<1>4. Total(g) = g[x] + Total(Restrict(g, S))
  BY <1>1, <1>2, <1>3, TotalOneMore
<1>5. Total(f) \in Int
  BY <1>1, <1>3, TotalInt
<1>. QED
  BY <1>3, <1>4, <1>5 DEF x, S

\* The sum over a group, when one value changes or its element enters or leaves.
LEMMA TotalOfGroup ==
    ASSUME NEW S, IsFiniteSet(S), NEW f \in [S -> Int], NEW x \in S,
           NEW g \in [S -> Int], g = [f EXCEPT ![x] = g[x]],
           NEW T \in SUBSET S, NEW U \in SUBSET S, U \ {x} = T \ {x}
    PROVE  /\ Total(Restrict(f, T)) \in Int
           /\ Total(Restrict(g, U))
                = Total(Restrict(f, T)) + (IF x \in U THEN g[x] ELSE 0)
                                        - (IF x \in T THEN f[x] ELSE 0)
<1>. DEFINE F == [y \in S |-> IF y \in T THEN f[y] ELSE 0]
            G == [y \in S |-> IF y \in U THEN g[y] ELSE 0]
<1>1. F \in [S -> Int] /\ G \in [S -> Int]
  OBVIOUS
<1>2. G = [F EXCEPT ![x] = G[x]]
  OBVIOUS
<1>3. Restrict(F, T) = Restrict(f, T) /\ \A y \in S \ T : F[y] = 0
  BY DEF Restrict
<1>4. Restrict(G, U) = Restrict(g, U) /\ \A y \in S \ U : G[y] = 0
  BY DEF Restrict
<1>5. /\ F[x] = IF x \in T THEN f[x] ELSE 0
      /\ G[x] = IF x \in U THEN g[x] ELSE 0
  OBVIOUS
<1>6. F[x] \in Int /\ G[x] \in Int
  OBVIOUS
<1>. HIDE DEF F, G
<1>7. Total(F) = Total(Restrict(F, T)) /\ Total(F) \in Int
  <2>1. Total(F) = Total(Restrict(F, T))
    BY <1>1, <1>3, TotalOfPart
  <2>. QED
    BY <1>1, <2>1, TotalInt
<1>8. Total(G) = Total(Restrict(G, U))
  BY <1>1, <1>4, TotalOfPart
<1>9. Total(G) = Total(F) + G[x] - F[x]
  <2>1. \A y \in S \ {x} : G[y] = F[y]
    BY <1>1, <1>2
  <2>. QED
    BY <1>1, <2>1, TotalChange
<1>. QED
  BY <1>3, <1>4, <1>5, <1>6, <1>7, <1>8, <1>9

\* What is listed at a price, a natural number.
LEMMA WorthNat ==
    ASSUME NEW S, IsFiniteSet(S), NEW w \in [S -> Nat], NEW q \in [S -> Nat]
    PROVE  Total([x \in S |-> w[x] * q[x]]) \in Nat
<1>1. \A x \in S : w[x] * q[x] \in Nat
  OBVIOUS
<1>2. [x \in S |-> w[x] * q[x]] \in [S -> Nat]
  BY <1>1
<1>. QED
  BY <1>2, TotalNat

\* Two lists come to what each comes to.
LEMMA WorthPlus ==
    ASSUME NEW S, IsFiniteSet(S), NEW w \in [S -> Nat],
           NEW q \in [S -> Nat], NEW r \in [S -> Nat]
    PROVE  Total([x \in S |-> w[x] * (q[x] + r[x])])
              = Total([x \in S |-> w[x] * q[x]]) + Total([x \in S |-> w[x] * r[x]])
<1>. DEFINE f == [x \in S |-> w[x] * q[x]]
            g == [x \in S |-> w[x] * r[x]]
<1>1. f \in [S -> Int] /\ g \in [S -> Int]
  <2>1. \A x \in S : w[x] * q[x] \in Int /\ w[x] * r[x] \in Int
    OBVIOUS
  <2>. QED
    BY <2>1
<1>2. [x \in S |-> w[x] * (q[x] + r[x])] = [x \in S |-> f[x] + g[x]]
  <2>1. \A x \in S : w[x] * (q[x] + r[x]) = f[x] + g[x]
    OBVIOUS
  <2>. QED
    BY <2>1
<1>. HIDE DEF f, g
<1>3. Total([x \in S |-> f[x] + g[x]]) = Total(f) + Total(g)
  BY <1>1, TotalPlus
<1>. QED
  BY <1>2, <1>3 DEF f, g

\* Nothing listed comes to nothing.
LEMMA WorthZero ==
    ASSUME NEW S, IsFiniteSet(S), NEW w \in [S -> Nat], NEW q \in [S -> Nat],
           \A x \in S : q[x] = 0
    PROVE  Total([x \in S |-> w[x] * q[x]]) = 0
<1>. DEFINE f == [x \in S |-> w[x] * q[x]]
<1>1. f \in [S -> Int] /\ \A x \in S : f[x] = 0
  OBVIOUS
<1>. HIDE DEF f
<1>2. Total(f) = 0
  BY <1>1, TotalZero
<1>. QED
  BY <1>2 DEF f

\* A count in each column of I, and what the rows of D come to.
Counts(I) == [I -> Nat]

Columns(I, D, L) == [i \in I |-> Total([d \in D |-> L[d][i]])]

LEMMA ColumnsNat ==
    ASSUME NEW Row, IsFiniteSet(Row), NEW I, NEW L \in [Row -> Counts(I)], NEW D \in SUBSET Row
    PROVE  Columns(I, D, L) \in Counts(I)
<1>1. IsFiniteSet(D)
  BY FS_Subset
<1>2. ASSUME NEW i \in I
      PROVE  Total([d \in D |-> L[d][i]]) \in Nat
  <2>. DEFINE f == [d \in D |-> L[d][i]]
  <2>1. f \in [D -> Nat]
    BY DEF Counts
  <2>. HIDE DEF f
  <2>2. Total(f) \in Nat
    BY <1>1, <2>1, TotalNat
  <2>. QED
    BY <2>2 DEF f
<1>. QED
  BY <1>2 DEF Columns, Counts

\* Rows of zeros.
LEMMA ColumnsZero ==
    ASSUME NEW D, IsFiniteSet(D), NEW I, NEW L, \A d \in D : \A i \in I : L[d][i] = 0
    PROVE  Columns(I, D, L) = [i \in I |-> 0]
<1>1. ASSUME NEW i \in I
      PROVE  Total([d \in D |-> L[d][i]]) = 0
  <2>. DEFINE f == [d \in D |-> L[d][i]]
  <2>1. f \in [D -> Int] /\ \A d \in D : f[d] = 0
    OBVIOUS
  <2>. HIDE DEF f
  <2>2. Total(f) = 0
    BY <2>1, TotalZero
  <2>. QED
    BY <2>2 DEF f
<1>. QED
  BY <1>1 DEF Columns

\* A row of zeros is written, or enters or leaves the group.
LEMMA ColumnsMore ==
    ASSUME NEW Row, IsFiniteSet(Row), NEW I, NEW L \in [Row -> Counts(I)], NEW d \in Row,
           L[d] = [i \in I |-> 0],
           NEW M \in [Row -> Counts(I)], M = [L EXCEPT ![d] = M[d]],
           NEW D \in SUBSET Row, NEW E \in SUBSET Row, E \ {d} = D \ {d}
    PROVE  /\ d \in E => Columns(I, E, M) = [i \in I |-> Columns(I, D, L)[i] + M[d][i]]
           /\ d \notin E => Columns(I, E, M) = Columns(I, D, L)
<1>1. ASSUME NEW i \in I
      PROVE  Columns(I, E, M)[i] = IF d \in E THEN Columns(I, D, L)[i] + M[d][i]
                                   ELSE Columns(I, D, L)[i]
  <2>. DEFINE f == [x \in Row |-> L[x][i]]
              g == [x \in Row |-> M[x][i]]
  <2>1. /\ f \in [Row -> Int] /\ g \in [Row -> Int] /\ g = [f EXCEPT ![d] = g[d]]
        /\ g[d] = M[d][i] /\ M[d][i] \in Int /\ f[d] = 0
    <3>1. /\ \A x \in Row : L[x][i] \in Int /\ M[x][i] \in Int
          /\ \A x \in Row : x # d => M[x] = L[x]
      BY DEF Counts
    <3>2. L[d][i] = 0
      OBVIOUS
    <3>. QED
      BY <3>1, <3>2
  <2>2. [x \in E |-> M[x][i]] = Restrict(g, E)
    BY DEF Restrict
  <2>3. [x \in D |-> L[x][i]] = Restrict(f, D)
    BY DEF Restrict
  <2>4. /\ Columns(I, E, M)[i] = Total(Restrict(g, E))
        /\ Columns(I, D, L)[i] = Total(Restrict(f, D))
    BY <2>2, <2>3 DEF Columns
  <2>. HIDE DEF f, g
  <2>5. /\ Total(Restrict(f, D)) \in Int
        /\ Total(Restrict(g, E)) = Total(Restrict(f, D)) + (IF d \in E THEN g[d] ELSE 0)
                                                         - (IF d \in D THEN f[d] ELSE 0)
    BY <2>1, TotalOfGroup
  <2>. QED
    BY <2>1, <2>4, <2>5
<1>2. /\ Columns(I, E, M) = [i \in I |-> Columns(I, E, M)[i]]
      /\ Columns(I, D, L) = [i \in I |-> Columns(I, D, L)[i]]
  BY DEF Columns
<1>3. CASE d \in E
  BY <1>1, <1>2, <1>3
<1>4. CASE d \notin E
  BY <1>1, <1>2, <1>4
<1>. QED
  BY <1>3, <1>4


=============================================================================
