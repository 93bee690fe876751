--------------------------- MODULE StoredData_proofs ---------------------------
(***************************************************************************)
(* What is written in row-major order is read where it was: the lemmas     *)
(* about StoredData's operators the proofs about RoundTrip rest on, for    *)
(* every size and every value.  Induction over data is by sets: a set that *)
(* holds 0 and the successor of each of its elements is Nat, and one of    *)
(* subsets that holds {} and is closed under adding an element holds all.  *)
(***************************************************************************)
EXTENDS StoredData, FiniteSetTheorems, SequenceTheorems, NaturalsInduction, TLAPS

-----------------------------------------------------------------------------
(* Induction, and the values of folds.                                     *)

\* Induction over the naturals, stated of a set.
LEMMA NatSetInduction ==
  ASSUME NEW S \in SUBSET Nat, 0 \in S, \A n \in S : n + 1 \in S
  PROVE  S = Nat
<1> SUFFICES ASSUME Nat \ S # {} PROVE FALSE
  OBVIOUS
<1> DEFINE R == OpToRel(<, Nat)
<1>1. \A a, b \in Nat : a < b => <<a, b>> \in R
  BY DEF OpToRel
<1>2. IsWellFoundedOn(R, Nat)
  BY NatLessThanWellFounded
<1> HIDE DEF R
<1>3. PICK x \in Nat \ S : \A y \in Nat \ S : ~(<<y, x>> \in R)
  <2>1. Nat \ S \subseteq Nat
    OBVIOUS
  <2>2. QED
    BY <1>2, <2>1, WFMin
<1>4. x - 1 \in Nat /\ x - 1 < x /\ x = (x - 1) + 1
  OBVIOUS
<1>5. x - 1 \in S
  BY <1>1, <1>3, <1>4
<1>6. QED
  BY <1>4, <1>5

\* Induction over a finite set, stated of a set of its subsets.
LEMMA FiniteSetInduction ==
  ASSUME NEW D, IsFiniteSet(D), NEW P \in SUBSET (SUBSET D), {} \in P,
         \A s \in P : \A x \in D \ s : s \cup {x} \in P
  PROVE  D \in P
<1> DEFINE R == StrictSubsetOrdering(D)
           T == (SUBSET D) \ P
<1>1. IsWellFoundedOn(R, SUBSET D)
  BY FS_StrictSubsetOrderingWellFounded, FS_FiniteSubsetsOfFinite
<1>2. SUFFICES ASSUME T # {} PROVE FALSE
  OBVIOUS
<1>3. \A s, t \in SUBSET D : s \subseteq t /\ s # t => <<s, t>> \in R
  BY DEF StrictSubsetOrdering
<1> HIDE DEF R
<1>4. PICK t \in T : \A s \in T : ~(<<s, t>> \in R)
  <2>1. T \subseteq SUBSET D
    OBVIOUS
  <2> HIDE DEF T
  <2>2. QED
    BY <1>1, <1>2, <2>1, WFMin
<1>5. PICK x \in t : TRUE
  BY <1>4
<1>6. t \ {x} \in P
  BY <1>3, <1>4, <1>5
<1>7. (t \ {x}) \cup {x} = t /\ x \in D \ (t \ {x})
  BY <1>4, <1>5
<1>8. QED
  BY <1>4, <1>6, <1>7


\* Of some subsets of a finite set one is minimal.
LEMMA MinimalSubset ==
  ASSUME NEW D, IsFiniteSet(D), NEW T \in SUBSET (SUBSET D), T # {}
  PROVE  \E t \in T : \A s \in T : s \subseteq t => s = t
<1> DEFINE R == StrictSubsetOrdering(D)
<1>1. IsWellFoundedOn(R, SUBSET D)
  BY FS_StrictSubsetOrderingWellFounded, FS_FiniteSubsetsOfFinite
<1>2. \A s, t \in SUBSET D : s \subseteq t /\ s # t => <<s, t>> \in R
  BY DEF StrictSubsetOrdering
<1> HIDE DEF R
<1>3. PICK t \in T : \A s \in T : ~(<<s, t>> \in R)
  BY <1>1, WFMin
<1>4. QED
  BY <1>2, <1>3

\* pick takes one of the elements of a subset of D.
Picks(pick, D) == \A s \in SUBSET D : s # {} => pick[s] \in s

\* g folds the values of f over the subsets of D, in the order pick gives.
IsFold(g, D, base, o, f, pick) ==
  g = [s \in SUBSET D |-> IF s = {} THEN base ELSE o[f[pick[s]]][g[s \ {pick[s]}]]]

\* It does so in every order.
AnyOrder(g, D, base, o, f) ==
  /\ g[{}] = base
  /\ \A s \in SUBSET D : \A x \in s : g[s] = o[f[x]][g[s \ {x}]]

\* A fold over the subsets of a finite set, whatever element is picked first,
\* is a function there is.
LEMMA FoldExists ==
  ASSUME NEW D, IsFiniteSet(D), NEW V, NEW base \in V, NEW o \in [V -> [V -> V]],
         NEW f \in [D -> V], NEW pick, Picks(pick, D)
  PROVE  \E g : IsFold(g, D, base, o, f, pick)
<1> USE DEF Picks, IsFold
<1> DEFINE rest == [s \in SUBSET D |-> s \ {pick[s]}]
           size == [s \in SUBSET D |-> Cardinality(s)]
           next(g) == [s \in SUBSET D |-> IF s = {} THEN base ELSE o[f[pick[s]]][g[rest[s]]]]
           upTo(n, g) == \A s \in SUBSET D : size[s] <= n => g[s] = next(g)[s]
           N == {n \in Nat : \E g \in [SUBSET D -> V] : upTo(n, g)}
<1>1. /\ size \in [SUBSET D -> Nat] /\ size[{}] = 0
      /\ \A s \in SUBSET D : size[s] = 0 => s = {}
      /\ \A s \in SUBSET D : size[s] <= size[D]
  <2>1. \A s \in SUBSET D : Cardinality(s) \in Nat /\ Cardinality(s) <= Cardinality(D)
                            /\ (Cardinality(s) = 0 <=> s = {})
    BY FS_Subset, FS_CardinalityType, FS_EmptySet
  <2>2. QED
    BY <2>1
<1>2. \A s \in SUBSET D : s # {} => rest[s] \in SUBSET D /\ size[rest[s]] = size[s] - 1
  <2>1. ASSUME NEW s \in SUBSET D, s # {}
        PROVE  s \ {pick[s]} \in SUBSET D /\ Cardinality(s \ {pick[s]}) = Cardinality(s) - 1
    BY <2>1, FS_Subset, FS_RemoveElement
  <2>2. QED
    BY <2>1
<1>3. \A g \in [SUBSET D -> V] : next(g) \in [SUBSET D -> V]
  <2>1. ASSUME NEW g \in [SUBSET D -> V], NEW s \in SUBSET D, s # {}
        PROVE  o[f[pick[s]]][g[rest[s]]] \in V
    BY <1>2, <2>1
  <2>2. QED
    BY <2>1
<1> HIDE DEF rest, size
<1>4. 0 \in N
  <2> DEFINE g == [s \in SUBSET D |-> base]
  <2>1. g \in [SUBSET D -> V] /\ \A s \in SUBSET D : g[s] = base
    OBVIOUS
  <2> HIDE DEF g
  <2>2. ASSUME NEW s \in SUBSET D, size[s] <= 0 PROVE g[s] = next(g)[s]
    <3>1. size[s] \in Nat
      BY <1>1
    <3>2. s = {}
      BY <1>1, <2>2, <3>1
    <3>3. QED
      BY <2>1, <3>2
  <2>3. QED
    BY <2>1, <2>2
<1>5. ASSUME NEW n \in N PROVE n + 1 \in N
  <2>1. n \in Nat
    OBVIOUS
  <2>2. PICK g \in [SUBSET D -> V] : upTo(n, g)
    OBVIOUS
  <2>3. next(g) \in [SUBSET D -> V]
    BY <1>3
  <2>4. ASSUME NEW s \in SUBSET D, size[s] <= n + 1
        PROVE  next(g)[s] = next(next(g))[s]
    <3>1. CASE s = {}
      BY <3>1
    <3>2. CASE s # {}
      <4>1. rest[s] \in SUBSET D /\ size[rest[s]] = size[s] - 1 /\ size[s] \in Nat
        BY <1>1, <1>2, <3>2
      <4>2. size[rest[s]] <= n
        BY <2>1, <2>4, <4>1
      <4>3. g[rest[s]] = next(g)[rest[s]]
        BY <2>2, <4>1, <4>2
      <4>4. QED
        BY <3>2, <4>3
    <3>3. QED
      BY <3>1, <3>2
  <2> DEFINE h == next(g)
  <2>5. upTo(n + 1, h)
    BY <2>4
  <2>6. h \in [SUBSET D -> V]
    BY <2>3
  <2>7. n + 1 \in Nat
    BY <2>1
  <2> HIDE DEF h, upTo
  <2>8. QED
    BY <2>5, <2>6, <2>7
<1>6. size[D] \in N
  <2>1. N \in SUBSET Nat
    OBVIOUS
  <2> HIDE DEF N
  <2>2. N = Nat
    BY <1>4, <1>5, <2>1, NatSetInduction
  <2>3. D \in SUBSET D
    OBVIOUS
  <2>4. QED
    BY <1>1, <2>2, <2>3
<1>7. PICK g \in [SUBSET D -> V] : upTo(size[D], g)
  BY <1>6
<1>8. \A s \in SUBSET D : g[s] = next(g)[s]
  BY <1>1, <1>7
<1>9. g = [s \in SUBSET D |-> IF s = {} THEN base ELSE o[f[pick[s]]][g[s \ {pick[s]}]]]
  BY <1>8 DEF rest
<1>10. QED
  BY <1>9

\* If its operation is left-commutative, elements may be taken in any order.
LEMMA FoldAnyOrder ==
  ASSUME NEW D, IsFiniteSet(D), NEW V, NEW base \in V, NEW o \in [V -> [V -> V]],
         \A a, b, c \in V : o[a][o[b][c]] = o[b][o[a][c]],
         NEW f \in [D -> V], NEW pick, Picks(pick, D), NEW g, IsFold(g, D, base, o, f, pick)
  PROVE  g \in [SUBSET D -> V] /\ AnyOrder(g, D, base, o, f)
<1> USE DEF Picks, IsFold, AnyOrder
<1>0. \A T \in SUBSET (SUBSET D) : T # {} => \E t \in T : \A s \in T : s \subseteq t => s = t
  BY MinimalSubset
<1>a. \A a, b, c \in V : o[a][o[b][c]] = o[b][o[a][c]]
  OBVIOUS
<1>1. /\ g[{}] = base
      /\ \A s \in SUBSET D : s # {} => g[s] = o[f[pick[s]]][g[s \ {pick[s]}]]
  OBVIOUS
<1>2. \A s \in SUBSET D : g[s] \in V
  <2> DEFINE T == {s \in SUBSET D : g[s] \notin V}
  <2>1. SUFFICES ASSUME T # {} PROVE FALSE
    OBVIOUS
  <2>2. T \in SUBSET (SUBSET D)
    OBVIOUS
  <2>3. PICK t \in T : \A s \in T : s \subseteq t => s = t
    <3> HIDE DEF T
    <3>1. QED
      BY <1>0, <2>1, <2>2
  <2>4. t \in SUBSET D /\ g[t] \notin V /\ t # {}
    BY <1>1, <2>3
  <2> DEFINE x == pick[t]
  <2>5. x \in t /\ x \in D
    BY <2>4
  <2>6. g[t \ {x}] \in V
    <3>1. t \ {x} \in SUBSET D /\ t \ {x} \subseteq t /\ t \ {x} # t
      BY <2>4, <2>5
    <3>2. QED
      BY <2>3, <3>1
  <2>7. g[t] = o[f[x]][g[t \ {x}]] /\ f[x] \in V
    BY <1>1, <2>4, <2>5
  <2>8. o[f[x]] \in [V -> V]
    BY <2>7
  <2>9. QED
    BY <2>4, <2>6, <2>7, <2>8
<1>3. \A s \in SUBSET D : \A x \in s : g[s] = o[f[x]][g[s \ {x}]]
  <2> DEFINE Q(s) == \A x \in s : g[s] = o[f[x]][g[s \ {x}]]
             T == {s \in SUBSET D : ~Q(s)}
  <2>1. SUFFICES ASSUME T # {} PROVE FALSE
    OBVIOUS
  <2>2. T \in SUBSET (SUBSET D)
    OBVIOUS
  <2>3. PICK t \in T : \A s \in T : s \subseteq t => s = t
    <3> HIDE DEF T
    <3>1. QED
      BY <1>0, <2>1, <2>2
  <2>4. t \in SUBSET D /\ ~Q(t)
    BY <2>3
  <2>5. PICK x \in t : g[t] # o[f[x]][g[t \ {x}]]
    BY <2>4
  <2> DEFINE y == pick[t]
  <2>6. y \in t /\ g[t] = o[f[y]][g[t \ {y}]] /\ y # x
    BY <1>1, <2>4, <2>5
  <2> HIDE DEF y
  <2>7. Q(t \ {x}) /\ Q(t \ {y})
    <3>1. /\ t \ {x} \in SUBSET D /\ t \ {x} \subseteq t /\ t \ {x} # t
          /\ t \ {y} \in SUBSET D /\ t \ {y} \subseteq t /\ t \ {y} # t
      BY <2>4, <2>5, <2>6
    <3>2. t \ {x} \notin T /\ t \ {y} \notin T
      BY <2>3, <3>1
    <3>3. QED
      BY <3>1, <3>2
  <2> DEFINE r == (t \ {x}) \ {y}
  <2>8. r = (t \ {y}) \ {x} /\ r \in SUBSET D
    BY <2>4
  <2>9. g[t \ {x}] = o[f[y]][g[r]]
    BY <2>6, <2>7
  <2>10. g[t \ {y}] = o[f[x]][g[(t \ {y}) \ {x}]]
    BY <2>5, <2>6, <2>7
  <2>11. f[x] \in V /\ f[y] \in V /\ g[r] \in V
    BY <1>2, <2>4, <2>5, <2>6, <2>8
  <2> HIDE DEF r, Q, T
  <2>12. o[f[y]][o[f[x]][g[r]]] = o[f[x]][o[f[y]][g[r]]]
    <3>1. \A c \in V : o[f[y]][o[f[x]][c]] = o[f[x]][o[f[y]][c]]
      BY <1>a, <2>11, Zenon
    <3>2. QED
      BY <2>11, <3>1, Zenon
  <2>13. QED
    BY <2>5, <2>6, <2>8, <2>9, <2>10, <2>12
<1>4. g \in [SUBSET D -> V]
  BY <1>2
<1>5. QED
  BY <1>1, <1>3, <1>4

Picked(S) == [s \in SUBSET S |-> CHOOSE x \in s : TRUE]

\* Two functions that agree on a set whenever they agree on it without an
\* element agree everywhere.
Alike(g, h, D, pick) ==
  /\ g[{}] = h[{}]
  /\ \A s \in SUBSET D : s # {} => (g[s \ {pick[s]}] = h[s \ {pick[s]}] => g[s] = h[s])

\* Two folds that take the elements in the same order have the same values.
LEMMA SameFold ==
  ASSUME NEW D, IsFiniteSet(D), NEW g, NEW h, NEW pick, Picks(pick, D), Alike(g, h, D, pick)
  PROVE  g[D] = h[D]
<1> USE DEF Picks, Alike
<1> DEFINE P == {s \in SUBSET D : g[s] # h[s]}
<1>1. SUFFICES ASSUME P # {} PROVE FALSE
  OBVIOUS
<1>2. P \in SUBSET (SUBSET D)
  OBVIOUS
<1>3. PICK t \in P : \A s \in P : s \subseteq t => s = t
  <2> HIDE DEF P
  <2>1. QED
    BY <1>1, <1>2, MinimalSubset
<1>4. t \in SUBSET D /\ g[t] # h[t] /\ t # {}
  BY <1>3
<1>5. /\ t \ {pick[t]} \in SUBSET D /\ t \ {pick[t]} \subseteq t /\ t \ {pick[t]} # t
      /\ (g[t \ {pick[t]}] = h[t \ {pick[t]}] => g[t] = h[t])
  BY <1>4
<1>6. QED
  BY <1>3, <1>4, <1>5

\* The products of the values of f over the subsets of D.
Products(g, D, f) ==
  /\ g \in [SUBSET D -> Nat] /\ g[{}] = 1
  /\ \A s \in SUBSET D : \A x \in s : g[s] = f[x] * g[s \ {x}]

\* Count multiplies, whatever order the sizes are taken in.
LEMMA CountFold ==
  ASSUME NEW D, IsFiniteSet(D), NEW f \in [D -> Nat]
  PROVE  \E g : Products(g, D, f) /\ g[D] = Count(f)
<1> DEFINE o == [a \in Nat |-> [b \in Nat |-> a * b]]
           pick == Picked(D)
           F(g) == [s \in SUBSET D |-> IF s = {} THEN 1 ELSE o[f[pick[s]]][g[s \ {pick[s]}]]]
           G(g) == [s \in SUBSET D |-> IF s = {} THEN 1
                                       ELSE f[CHOOSE x \in s : TRUE] * g[s \ {CHOOSE x \in s : TRUE}]]
           h == CHOOSE g : g = G(g)
<1>1. o \in [Nat -> [Nat -> Nat]] /\ \A a, b \in Nat : o[a][b] = a * b
  OBVIOUS
<1>2. \A a, b, c \in Nat : o[a][o[b][c]] = o[b][o[a][c]]
  OBVIOUS
<1>3. Count(f) = h[D]
  BY DEF Count, FoldFunction, FoldFunctionOnSet, MapThenFoldSet
<1>4. Picks(pick, D) /\ \A s \in SUBSET D : pick[s] = CHOOSE x \in s : TRUE
  BY DEF Picked, Picks
<1> HIDE DEF o, pick, h, G
<1>5. \E g : IsFold(g, D, 1, o, f, pick)
  BY <1>1, <1>4, FoldExists
<1>6. PICK g : IsFold(g, D, 1, o, f, pick)
  BY <1>5
<1>7. g \in [SUBSET D -> Nat] /\ AnyOrder(g, D, 1, o, f)
  BY <1>1, <1>2, <1>4, <1>6, FoldAnyOrder
<1>8. g[{}] = 1 /\ \A s \in SUBSET D : \A x \in s : g[s] = f[x] * g[s \ {x}]
  BY <1>1, <1>7 DEF AnyOrder
<1>9. g = G(g)
  <2>1. ASSUME NEW s \in SUBSET D, s # {}
        PROVE  g[s] = f[CHOOSE x \in s : TRUE] * g[s \ {CHOOSE x \in s : TRUE}]
    <3>1. pick[s] \in s /\ pick[s] = CHOOSE x \in s : TRUE
      BY <1>4, <2>1 DEF Picks
    <3>2. g[s] = f[pick[s]] * g[s \ {pick[s]}]
      BY <1>8, <3>1
    <3>3. QED
      BY <3>1, <3>2
  <2>2. QED
    BY <1>7, <1>8, <2>1 DEF G
<1>10. h = G(h)
  BY <1>9 DEF h
<1>11. Alike(g, h, D, pick)
  <2>1. h[{}] = 1
    BY <1>10 DEF G
  <2>2. \A s \in SUBSET D : s # {} => h[s] = f[pick[s]] * h[s \ {pick[s]}]
    BY <1>4, <1>10 DEF G
  <2>3. \A s \in SUBSET D : s # {} => g[s] = f[pick[s]] * g[s \ {pick[s]}]
    BY <1>4, <1>8 DEF Picks
  <2>4. QED
    BY <1>8, <2>1, <2>2, <2>3 DEF Alike
<1>12. g[D] = h[D]
  BY <1>4, <1>11, SameFold
<1>13. Products(g, D, f)
  BY <1>7, <1>8 DEF Products
<1>14. QED
  BY <1>3, <1>12, <1>13

\* The sums of the values of f over the subsets of D.
Sums(g, D, f) ==
  /\ g \in [SUBSET D -> Nat] /\ g[{}] = 0
  /\ \A s \in SUBSET D : \A x \in s : g[s] = f[x] + g[s \ {x}]

\* So do sums add.
LEMMA SumFold ==
  ASSUME NEW D, IsFiniteSet(D), NEW f \in [D -> Nat]
  PROVE  \E g : Sums(g, D, f) /\ g[D] = SumFunction(f)
<1> DEFINE o == [a \in Nat |-> [b \in Nat |-> a + b]]
           pick == Picked(D)
           F(g) == [s \in SUBSET D |-> IF s = {} THEN 0 ELSE o[f[pick[s]]][g[s \ {pick[s]}]]]
           G(g) == [s \in SUBSET D |-> IF s = {} THEN 0
                                       ELSE f[CHOOSE x \in s : TRUE] + g[s \ {CHOOSE x \in s : TRUE}]]
           h == CHOOSE g : g = G(g)
<1>1. o \in [Nat -> [Nat -> Nat]] /\ \A a, b \in Nat : o[a][b] = a + b
  OBVIOUS
<1>2. \A a, b, c \in Nat : o[a][o[b][c]] = o[b][o[a][c]]
  OBVIOUS
<1>3. SumFunction(f) = h[D]
  BY DEF SumFunction, SumFunctionOnSet, FoldFunctionOnSet, MapThenFoldSet
<1>4. Picks(pick, D) /\ \A s \in SUBSET D : pick[s] = CHOOSE x \in s : TRUE
  BY DEF Picked, Picks
<1> HIDE DEF o, pick, h, G
<1>5. \E g : IsFold(g, D, 0, o, f, pick)
  BY <1>1, <1>4, FoldExists
<1>6. PICK g : IsFold(g, D, 0, o, f, pick)
  BY <1>5
<1>7. g \in [SUBSET D -> Nat] /\ AnyOrder(g, D, 0, o, f)
  BY <1>1, <1>2, <1>4, <1>6, FoldAnyOrder
<1>8. g[{}] = 0 /\ \A s \in SUBSET D : \A x \in s : g[s] = f[x] + g[s \ {x}]
  BY <1>1, <1>7 DEF AnyOrder
<1>9. g = G(g)
  <2>1. ASSUME NEW s \in SUBSET D, s # {}
        PROVE  g[s] = f[CHOOSE x \in s : TRUE] + g[s \ {CHOOSE x \in s : TRUE}]
    <3>1. pick[s] \in s /\ pick[s] = CHOOSE x \in s : TRUE
      BY <1>4, <2>1 DEF Picks
    <3>2. g[s] = f[pick[s]] + g[s \ {pick[s]}]
      BY <1>8, <3>1
    <3>3. QED
      BY <3>1, <3>2
  <2>2. QED
    BY <1>7, <1>8, <2>1 DEF G
<1>10. h = G(h)
  BY <1>9 DEF h
<1>11. Alike(g, h, D, pick)
  <2>1. h[{}] = 0
    BY <1>10 DEF G
  <2>2. \A s \in SUBSET D : s # {} => h[s] = f[pick[s]] + h[s \ {pick[s]}]
    BY <1>4, <1>10 DEF G
  <2>3. \A s \in SUBSET D : s # {} => g[s] = f[pick[s]] + g[s \ {pick[s]}]
    BY <1>4, <1>8 DEF Picks
  <2>4. QED
    BY <1>8, <2>1, <2>2, <2>3 DEF Alike
<1>12. g[D] = h[D]
  BY <1>4, <1>11, SameFold
<1>13. Sums(g, D, f)
  BY <1>7, <1>8 DEF Sums
<1>14. QED
  BY <1>3, <1>12, <1>13

\* The number of values of the four sizes, and of shapes with few axes.
LEMMA CountSizes ==
  ASSUME NEW f \in [Sizes -> Nat]
  PROVE  Count(f) = f["M"] * f["R"] * f["E"] * f["N"]
<1>1. IsFiniteSet(Sizes)
  <2>1. Sizes = {"M", "R"} \cup {"E", "N"} /\ {"M", "R"} = {"M"} \cup {"R"} /\ {"E", "N"} = {"E"} \cup {"N"}
    BY DEF Sizes
  <2>2. IsFiniteSet({"M"} \cup {"R"}) /\ IsFiniteSet({"E"} \cup {"N"})
    BY FS_Singleton, FS_Union
  <2>3. QED
    BY <2>1, <2>2, FS_Union
<1>2. PICK g : Products(g, Sizes, f) /\ g[Sizes] = Count(f)
  BY <1>1, CountFold
<1>3. g[{"N"}] = f["N"] * g[{}]
  <2>1. {"N"} \in SUBSET Sizes /\ "N" \in {"N"} /\ {"N"} \ {"N"} = {}
    BY DEF Sizes
  <2>2. QED
    BY <1>2, <2>1 DEF Products
<1>4. g[{"E", "N"}] = f["E"] * g[{"N"}]
  <2>1. {"E", "N"} \in SUBSET Sizes /\ "E" \in {"E", "N"} /\ {"E", "N"} \ {"E"} = {"N"}
    BY DEF Sizes
  <2>2. QED
    BY <1>2, <2>1 DEF Products
<1>5. g[{"R", "E", "N"}] = f["R"] * g[{"E", "N"}]
  <2>1. /\ {"R", "E", "N"} \in SUBSET Sizes /\ "R" \in {"R", "E", "N"}
        /\ {"R", "E", "N"} \ {"R"} = {"E", "N"}
    BY DEF Sizes
  <2>2. QED
    BY <1>2, <2>1 DEF Products
<1>6. g[Sizes] = f["M"] * g[{"R", "E", "N"}]
  <2>1. Sizes \in SUBSET Sizes /\ "M" \in Sizes
    BY DEF Sizes
  <2>2. Sizes \ {"M"} = {"R", "E", "N"}
    BY DEF Sizes
  <2>3. g[Sizes] = f["M"] * g[Sizes \ {"M"}]
    BY <1>2, <2>1 DEF Products
  <2>4. QED
    BY <2>2, <2>3
<1>7. f["M"] \in Nat /\ f["R"] \in Nat /\ f["E"] \in Nat /\ f["N"] \in Nat
  BY DEF Sizes
<1>8. Count(f) = f["M"] * (f["R"] * (f["E"] * (f["N"] * 1)))
  BY <1>2, <1>3, <1>4, <1>5, <1>6 DEF Products
<1>9. QED
  BY <1>7, <1>8

\* The sizes of a sequence are multiplied one after the other.
LEMMA CountPrefix ==
  ASSUME NEW s \in Seq(Nat)
  PROVE  \E g \in [0..Len(s) -> Nat] :
           /\ g[0] = 1 /\ g[Len(s)] = Count(s)
           /\ \A k \in 1..Len(s) : g[k] = s[k] * g[k - 1]
<1> DEFINE D == 1..Len(s)
<1>1. IsFiniteSet(D) /\ s \in [D -> Nat] /\ Len(s) \in Nat
  BY FS_Interval
<1>2. PICK h : Products(h, D, s) /\ h[D] = Count(s)
  <2> HIDE DEF D
  <2>1. QED
    BY <1>1, CountFold
<1> DEFINE g == [k \in 0..Len(s) |-> h[1..k]]
<1>3. g \in [0..Len(s) -> Nat]
  <2>1. ASSUME NEW k \in 0..Len(s) PROVE h[1..k] \in Nat
    <3>1. 1..k \in SUBSET D
      BY <1>1
    <3>2. QED
      BY <1>2, <3>1 DEF Products
  <2>2. QED
    BY <2>1
<1>4. g[0] = 1
  <2>1. 1..0 = {}
    OBVIOUS
  <2>2. QED
    BY <1>1, <1>2, <2>1 DEF Products
<1>5. g[Len(s)] = Count(s)
  BY <1>1, <1>2
<1>6. ASSUME NEW k \in 1..Len(s) PROVE g[k] = s[k] * g[k - 1]
  <2>1. 1..k \in SUBSET D /\ k \in 1..k /\ (1..k) \ {k} = 1..(k - 1) /\ k - 1 \in 0..Len(s)
    BY <1>1
  <2>2. h[1..k] = s[k] * h[1..(k - 1)]
    BY <1>2, <2>1 DEF Products
  <2>3. QED
    BY <1>1, <2>1, <2>2
<1>7. QED
  BY <1>3, <1>4, <1>5, <1>6

Counts(s, n) == Count(s) = n

\* Count of shapes of one to four axes.
LEMMA CountShort ==
  ASSUME NEW a \in Nat, NEW b \in Nat, NEW c \in Nat, NEW d \in Nat
  PROVE  /\ Counts(<<a>>, a)
         /\ Counts(<<a, b>>, a * b)
         /\ Counts(<<a, b, c>>, a * b * c)
         /\ Counts(<<a, b, c, d>>, a * b * c * d)
<1>1. Count(<<a>>) = a
  <2> DEFINE s == <<a>>
  <2>1. s \in Seq(Nat) /\ Len(s) = 1 /\ s[1] = a
    OBVIOUS
  <2> HIDE DEF s
  <2>2. PICK g \in [0..Len(s) -> Nat] :
          g[0] = 1 /\ g[Len(s)] = Count(s) /\ \A k \in 1..Len(s) : g[k] = s[k] * g[k - 1]
    BY <2>1, CountPrefix
  <2>3. g[1] = a * g[0]
    BY <2>1, <2>2
  <2>4. QED
    BY <2>1, <2>2, <2>3 DEF s
<1>2. Count(<<a, b>>) = a * b
  <2> DEFINE s == <<a, b>>
  <2>1. s \in Seq(Nat) /\ Len(s) = 2 /\ s[1] = a /\ s[2] = b
    OBVIOUS
  <2> HIDE DEF s
  <2>2. PICK g \in [0..Len(s) -> Nat] :
          g[0] = 1 /\ g[Len(s)] = Count(s) /\ \A k \in 1..Len(s) : g[k] = s[k] * g[k - 1]
    BY <2>1, CountPrefix
  <2>3. g[1] = a * g[0] /\ g[2] = b * g[1]
    BY <2>1, <2>2
  <2>4. Count(s) = b * (a * 1)
    BY <2>1, <2>2, <2>3
  <2>5. QED
    BY <2>4 DEF s
<1>3. Count(<<a, b, c>>) = a * b * c
  <2> DEFINE s == <<a, b, c>>
  <2>1. s \in Seq(Nat) /\ Len(s) = 3 /\ s[1] = a /\ s[2] = b /\ s[3] = c
    OBVIOUS
  <2> HIDE DEF s
  <2>2. PICK g \in [0..Len(s) -> Nat] :
          g[0] = 1 /\ g[Len(s)] = Count(s) /\ \A k \in 1..Len(s) : g[k] = s[k] * g[k - 1]
    BY <2>1, CountPrefix
  <2>3. g[1] = a * g[0] /\ g[2] = b * g[1] /\ g[3] = c * g[2]
    BY <2>1, <2>2
  <2>4. Count(s) = c * (b * (a * 1))
    BY <2>1, <2>2, <2>3
  <2>5. QED
    BY <2>4 DEF s
<1>4. Count(<<a, b, c, d>>) = a * b * c * d
  <2> DEFINE s == <<a, b, c, d>>
  <2>1. s \in Seq(Nat) /\ Len(s) = 4 /\ s[1] = a /\ s[2] = b /\ s[3] = c /\ s[4] = d
    OBVIOUS
  <2> HIDE DEF s
  <2>2. PICK g \in [0..Len(s) -> Nat] :
          g[0] = 1 /\ g[Len(s)] = Count(s) /\ \A k \in 1..Len(s) : g[k] = s[k] * g[k - 1]
    BY <2>1, CountPrefix
  <2>3. g[1] = a * g[0] /\ g[2] = b * g[1] /\ g[3] = c * g[2] /\ g[4] = d * g[3]
    BY <2>1, <2>2
  <2>4. Count(s) = d * (c * (b * (a * 1)))
    BY <2>1, <2>2, <2>3
  <2>5. QED
    BY <2>4 DEF s
<1>5. QED
  BY <1>1, <1>2, <1>3, <1>4 DEF Counts

\* A scalar has one value, and so has one axis of length one.
LEMMA CountOne ==
  Count(<<>>) = 1 /\ Count(<<1>>) = 1
<1>1. Count(<<>>) = 1
  <2> DEFINE s == <<>>
  <2>1. s \in Seq(Nat) /\ Len(s) = 0
    OBVIOUS
  <2> HIDE DEF s
  <2>2. PICK g \in [0..Len(s) -> Nat] :
          g[0] = 1 /\ g[Len(s)] = Count(s) /\ \A k \in 1..Len(s) : g[k] = s[k] * g[k - 1]
    BY <2>1, CountPrefix
  <2>3. QED
    BY <2>1, <2>2 DEF s
<1>2. Count(<<1>>) = 1
  BY CountShort DEF Counts
<1>3. QED
  BY <1>1, <1>2

\* A product is a natural number.
LEMMA CountType ==
  ASSUME NEW s \in Seq(Nat)
  PROVE  Count(s) \in Nat
<1>1. PICK g \in [0..Len(s) -> Nat] : g[Len(s)] = Count(s)
  BY CountPrefix
<1>2. QED
  BY <1>1

-----------------------------------------------------------------------------
(* Sums.                                                                   *)

\* A sum of natural numbers is one.
LEMMA SumType ==
  ASSUME NEW D, IsFiniteSet(D), NEW f \in [D -> Nat]
  PROVE  SumFunction(f) \in Nat
<1>1. PICK g : Sums(g, D, f) /\ g[D] = SumFunction(f)
  BY SumFold
<1>2. QED
  BY <1>1 DEF Sums

\* Sums grow with what is summed, and add up.
LEMMA SumPlus ==
  ASSUME NEW D, IsFiniteSet(D), NEW f \in [D -> Nat], NEW h \in [D -> Nat]
  PROVE  SumFunction([x \in D |-> f[x] + h[x]]) = SumFunction(f) + SumFunction(h)
<1> DEFINE p == [x \in D |-> f[x] + h[x]]
<1>1. p \in [D -> Nat] /\ \A x \in D : p[x] = f[x] + h[x]
  OBVIOUS
<1> HIDE DEF p
<1>2. PICK a : Sums(a, D, f) /\ a[D] = SumFunction(f)
  BY SumFold
<1>3. PICK b : Sums(b, D, h) /\ b[D] = SumFunction(h)
  BY SumFold
<1>4. PICK c : Sums(c, D, p) /\ c[D] = SumFunction(p)
  BY <1>1, SumFold
<1> DEFINE P == {s \in SUBSET D : c[s] = a[s] + b[s]}
<1>5. P \in SUBSET (SUBSET D) /\ {} \in P
  BY <1>2, <1>3, <1>4 DEF Sums
<1>6. ASSUME NEW s \in P, NEW x \in D \ s PROVE s \cup {x} \in P
  <2> DEFINE t == s \cup {x}
  <2>1. t \in SUBSET D /\ x \in t /\ t \ {x} = s /\ s \in SUBSET D
    OBVIOUS
  <2> HIDE DEF t
  <2>2. a[t] = f[x] + a[s] /\ b[t] = h[x] + b[s] /\ c[t] = p[x] + c[s]
    BY <1>2, <1>3, <1>4, <2>1 DEF Sums
  <2>3. a[s] \in Nat /\ b[s] \in Nat /\ f[x] \in Nat /\ h[x] \in Nat
    BY <1>2, <1>3, <2>1 DEF Sums
  <2>4. c[t] = a[t] + b[t]
    BY <1>1, <2>2, <2>3
  <2>5. QED
    BY <2>1, <2>4 DEF t
<1>7. D \in P
  <2> HIDE DEF P
  <2>1. QED
    BY <1>5, <1>6, FiniteSetInduction
<1>8. QED
  BY <1>2, <1>3, <1>4, <1>7 DEF p

\* Sums grow with their terms.
LEMMA SumBelow ==
  ASSUME NEW D, IsFiniteSet(D), NEW f \in [D -> Nat], NEW h \in [D -> Nat],
         \A x \in D : f[x] <= h[x]
  PROVE  SumFunction(f) <= SumFunction(h)
<1> DEFINE r == [x \in D |-> h[x] - f[x]]
<1>1. r \in [D -> Nat]
  OBVIOUS
<1>2. h = [x \in D |-> f[x] + r[x]]
  <2>1. \A x \in D : h[x] = f[x] + r[x]
    OBVIOUS
  <2>2. QED
    BY <2>1
<1> HIDE DEF r
<1>3. SumFunction(h) = SumFunction(f) + SumFunction(r)
  BY <1>1, <1>2, SumPlus
<1>4. QED
  BY <1>1, <1>3, SumType

\* Zeroes add nothing.
LEMMA SumPart ==
  ASSUME NEW D, IsFiniteSet(D), NEW S \in SUBSET D, NEW f \in [D -> Nat],
         \A x \in D \ S : f[x] = 0
  PROVE  SumFunction(f) = SumFunction([x \in S |-> f[x]])
<1> DEFINE r == [x \in S |-> f[x]]
<1>1. r \in [S -> Nat] /\ \A x \in S : r[x] = f[x]
  OBVIOUS
<1> HIDE DEF r
<1>2. IsFiniteSet(S)
  BY FS_Subset
<1>3. PICK a : Sums(a, D, f) /\ a[D] = SumFunction(f)
  BY SumFold
<1>4. PICK b : Sums(b, S, r) /\ b[S] = SumFunction(r)
  BY <1>1, <1>2, SumFold
<1> DEFINE P == {s \in SUBSET D : a[s] = b[s \cap S]}
<1>5. P \in SUBSET (SUBSET D) /\ {} \in P
  <2>1. {} \cap S = {}
    OBVIOUS
  <2>2. QED
    BY <1>3, <1>4, <2>1 DEF Sums
<1>6. ASSUME NEW s \in P, NEW x \in D \ s PROVE s \cup {x} \in P
  <2> DEFINE t == s \cup {x}
  <2>1. t \in SUBSET D /\ x \in t /\ t \ {x} = s /\ s \in SUBSET D /\ a[s] = b[s \cap S]
    OBVIOUS
  <2>2. CASE x \in S
    <3>1. /\ t \cap S \in SUBSET S /\ x \in t \cap S
          /\ (t \cap S) \ {x} = s \cap S
      BY <2>2
    <3> HIDE DEF t
    <3>2. b[t \cap S] = r[x] + b[s \cap S]
      BY <1>4, <3>1 DEF Sums
    <3>3. a[t] = f[x] + a[s]
      BY <1>3, <2>1 DEF Sums
    <3>4. QED
      BY <1>1, <2>1, <2>2, <3>2, <3>3 DEF t
  <2>3. CASE x \notin S
    <3>1. t \cap S = s \cap S
      BY <2>3
    <3> HIDE DEF t
    <3>2. a[t] = f[x] + a[s]
      BY <1>3, <2>1 DEF Sums
    <3>3. f[x] = 0 /\ a[s] \in Nat
      BY <1>3, <2>1, <2>3 DEF Sums
    <3>4. a[t] = a[s]
      BY <3>2, <3>3
    <3>5. QED
      BY <2>1, <3>1, <3>4 DEF t
  <2>4. QED
    BY <2>2, <2>3
<1>7. D \in P
  <2> HIDE DEF P
  <2>1. QED
    BY <1>5, <1>6, FiniteSetInduction
<1>8. D \cap S = S
  OBVIOUS
<1>9. QED
  BY <1>3, <1>4, <1>7, <1>8 DEF r

\* The sum over a part is at most the whole.
LEMMA SumSubset ==
  ASSUME NEW D, IsFiniteSet(D), NEW S \in SUBSET D, NEW f \in [D -> Nat]
  PROVE  SumFunction([x \in S |-> f[x]]) <= SumFunction(f)
<1> DEFINE h == [x \in D |-> IF x \in S THEN f[x] ELSE 0]
<1>1. /\ h \in [D -> Nat] /\ \A x \in D : h[x] <= f[x]
      /\ \A x \in D \ S : h[x] = 0
  OBVIOUS
<1>2. [x \in S |-> h[x]] = [x \in S |-> f[x]]
  OBVIOUS
<1> HIDE DEF h
<1>3. SumFunction(h) <= SumFunction(f)
  BY <1>1, SumBelow
<1>4. SumFunction(h) = SumFunction([x \in S |-> h[x]])
  BY <1>1, SumPart
<1>5. QED
  BY <1>2, <1>3, <1>4

-----------------------------------------------------------------------------
(* Values in row-major order and how they are turned.                      *)

\* Quotient and remainder.
LEMMA Division ==
  ASSUME NEW x \in Nat, NEW b \in Nat \ {0}
  PROVE  /\ x \div b \in Nat /\ x % b \in Nat /\ x % b < b
         /\ x = b * (x \div b) + (x % b)
BY SMT

\* Products of natural numbers grow with a factor.
LEMMA ProductGrows ==
  ASSUME NEW b \in Nat, NEW p \in Int, NEW q \in Int, p <= q
  PROVE  b * p <= b * q
BY SMT

\* The only quotient and remainder of a sum of a multiple and a smaller rest.
LEMMA DivisionUnique ==
  ASSUME NEW b \in Nat \ {0}, NEW q \in Nat, NEW r \in Nat, r < b
  PROVE  /\ b * q + r \in Nat
         /\ (b * q + r) \div b = q /\ (b * q + r) % b = r
<1> DEFINE x == b * q + r
           d == x \div b
<1>1. x \in Nat
  OBVIOUS
<1>2. d \in Nat /\ x % b \in Nat /\ x % b < b /\ x = b * d + (x % b)
  <2> HIDE DEF x
  <2>1. QED
    BY <1>1, Division
<1> HIDE DEF d
<1>3. ~(d + 1 <= q)
  <2>1. SUFFICES ASSUME d + 1 <= q PROVE FALSE
    OBVIOUS
  <2>2. b * (d + 1) <= b * q /\ b * (d + 1) = b * d + b
    BY <1>2, <2>1, ProductGrows
  <2>3. b * d \in Nat /\ b * q \in Nat
    BY <1>2
  <2>4. QED
    BY <1>2, <2>2, <2>3
<1>4. ~(q + 1 <= d)
  <2>1. SUFFICES ASSUME q + 1 <= d PROVE FALSE
    OBVIOUS
  <2>2. b * (q + 1) <= b * d /\ b * (q + 1) = b * q + b
    BY <1>2, <2>1, ProductGrows
  <2>3. b * d \in Nat /\ b * q \in Nat
    BY <1>2
  <2>4. QED
    BY <1>2, <2>2, <2>3
<1>5. d = q
  BY <1>2, <1>3, <1>4
<1>6. x % b = r
  BY <1>2, <1>5
<1>7. QED
  BY <1>1, <1>5, <1>6 DEF d

\* A product of positive numbers is one.
LEMMA ProductPositive ==
  ASSUME NEW a \in Nat \ {0}, NEW b \in Nat \ {0}
  PROVE  a * b \in Nat \ {0}
BY SMT

\* The offset of element [o][j][i] of rows of b times a.
Place(o, j, i, a, b) == o * (a * b) + j * a + i

\* Every offset is that of one element.
LEMMA Coordinates ==
  ASSUME NEW a \in Nat \ {0}, NEW b \in Nat \ {0}, NEW x \in Nat
  PROVE  LET o == x \div (a * b)
             j == (x % (a * b)) \div a
             i == x % a
         IN  /\ o \in Nat /\ j \in 0..b - 1 /\ i \in 0..a - 1
             /\ x = Place(o, j, i, a, b)
<1> DEFINE ab == a * b
           o == x \div ab
           y == x % ab
           j == y \div a
<1>1. ab \in Nat \ {0}
  BY ProductPositive
<1>2. o \in Nat /\ y \in Nat /\ y < ab /\ x = ab * o + y
  <2> HIDE DEF ab
  <2>1. QED
    BY <1>1, Division
<1>3. j \in Nat /\ y % a \in Nat /\ y % a < a /\ y = a * j + (y % a)
  <2> HIDE DEF y
  <2>1. QED
    BY <1>2, Division
<1> HIDE DEF o, y, j
<1>4. j < b
  <2>1. SUFFICES ASSUME b <= j PROVE FALSE
    BY <1>3
  <2>2. a * b <= a * j
    BY <1>3, <2>1, ProductGrows
  <2>3. a * b \in Nat /\ a * j \in Nat
    BY <1>3
  <2>4. QED
    BY <1>2, <1>3, <2>2, <2>3 DEF ab
<1>5. x = a * (b * o + j) + (y % a)
  <2>1. (a * b) * o = a * (b * o) /\ a * (b * o + j) = a * (b * o) + a * j
    BY <1>2, <1>3
  <2>2. QED
    BY <1>2, <1>3, <2>1 DEF ab
<1>6. x % a = y % a
  <2> DEFINE q == b * o + j
             r == y % a
  <2>1. q \in Nat /\ r \in Nat /\ r < a
    BY <1>2, <1>3
  <2> HIDE DEF q, r
  <2>2. (a * q + r) % a = r
    BY <2>1, DivisionUnique
  <2>3. QED
    BY <1>5, <2>2 DEF q, r
<1>7. x = o * (a * b) + j * a + (x % a)
  <2>1. (a * b) * o = o * (a * b) /\ a * j = j * a
    BY <1>2, <1>3
  <2>2. QED
    BY <1>2, <1>3, <1>6, <2>1 DEF ab
<1>8. x % a \in 0..a - 1
  BY <1>3, <1>6
<1>9. x = Place(o, j, x % a, a, b)
  BY <1>7 DEF Place
<1>10. QED
  BY <1>2, <1>3, <1>4, <1>8, <1>9 DEF o, y, j, ab

\* The offset of an element gives its coordinates back.
LEMMA CoordinatesUnique ==
  ASSUME NEW a \in Nat \ {0}, NEW b \in Nat \ {0},
         NEW o \in Nat, NEW j \in 0..b - 1, NEW i \in 0..a - 1
  PROVE  LET x == Place(o, j, i, a, b)
         IN  /\ x \in Nat
             /\ x \div (a * b) = o
             /\ (x % (a * b)) \div a = j
             /\ x % a = i
<1> DEFINE ab == a * b
           x == Place(o, j, i, a, b)
<1>0. x = o * (a * b) + j * a + i
  BY DEF Place
<1> HIDE DEF x
<1>1. ab \in Nat \ {0}
  BY ProductPositive
<1>2. a * j + i \in Nat /\ a * j + i < ab
  <2>1. a * (j + 1) <= a * b
    BY ProductGrows
  <2>2. a * (j + 1) = a * j + a /\ a * j \in Nat /\ a * b \in Nat
    OBVIOUS
  <2>3. QED
    BY <2>1, <2>2
<1>3. x = ab * o + (a * j + i)
  <2>1. o * (a * b) = (a * b) * o /\ j * a = a * j
    OBVIOUS
  <2>2. o * (a * b) \in Nat /\ j * a \in Nat
    OBVIOUS
  <2>3. QED
    BY <1>0, <2>1, <2>2
<1>4. x = a * (b * o + j) + i
  <2>1. o * (a * b) = a * (b * o) /\ j * a = a * j /\ a * (b * o + j) = a * (b * o) + a * j
    OBVIOUS
  <2>2. o * (a * b) \in Nat /\ j * a \in Nat
    OBVIOUS
  <2>3. QED
    BY <1>0, <2>1, <2>2
<1>5. x \in Nat /\ x \div ab = o /\ x % ab = a * j + i
  <2> DEFINE r == a * j + i
  <2>1. r \in Nat /\ r < ab /\ x = ab * o + r
    BY <1>2, <1>3
  <2> HIDE DEF r, ab, x
  <2>2. QED
    BY <1>1, <2>1, DivisionUnique DEF r
<1>6. (a * j + i) \div a = j
  BY DivisionUnique
<1>7. x % a = i
  <2> DEFINE q == b * o + j
  <2>1. q \in Nat /\ x = a * q + i
    BY <1>4
  <2> HIDE DEF q, x
  <2>2. QED
    BY <2>1, DivisionUnique
<1>8. QED
  BY <1>5, <1>6, <1>7 DEF x

\* An element of n rows of b times a is within them.
LEMMA CoordinatesWithin ==
  ASSUME NEW a \in Nat \ {0}, NEW b \in Nat \ {0}, NEW n \in Nat,
         NEW o \in 0..n - 1, NEW j \in 0..b - 1, NEW i \in 0..a - 1
  PROVE  Place(o, j, i, a, b) \in 0..n * (a * b) - 1
<1> DEFINE ab == a * b
<1>1. ab \in Nat
  OBVIOUS
<1>2. j * a + i \in Nat /\ j * a + i < ab
  <2>1. a * (j + 1) <= a * b
    BY ProductGrows
  <2>2. a * (j + 1) = a * j + a /\ a * j \in Nat /\ a * b \in Nat /\ j * a = a * j
    OBVIOUS
  <2>3. QED
    BY <2>1, <2>2
<1> HIDE DEF ab
<1>3. ab * (o + 1) <= ab * n
  BY <1>1, ProductGrows
<1>4. ab * (o + 1) = o * ab + ab /\ ab * n = n * ab /\ o * ab \in Nat
  BY <1>1
<1>5. j * a \in Nat
  OBVIOUS
<1>6. QED
  BY <1>1, <1>2, <1>3, <1>4, <1>5 DEF ab, Place

\* n rows of b times a values.
Grid(flat, V, n, a, b) == flat \in Seq(V) /\ Len(flat) = n * (a * b)

\* Swapping the last axes moves every element, and swapping them again moves
\* it back.
LEMMA SwapAt ==
  ASSUME NEW V, NEW a \in Nat \ {0}, NEW b \in Nat \ {0}, NEW n \in Nat,
         NEW flat, Grid(flat, V, n, a, b),
         NEW o \in 0..n - 1, NEW j \in 0..b - 1, NEW i \in 0..a - 1
  PROVE  SwapLastAxes(flat, a, b)[Place(o, j, i, a, b) + 1]
           = flat[Place(o, i, j, b, a) + 1]
<1> DEFINE x == Place(o, j, i, a, b)
<1>1. x \in 0..n * (a * b) - 1
  BY CoordinatesWithin
<1>2. x \div (a * b) = o /\ (x % (a * b)) \div a = j /\ x % a = i
  BY CoordinatesUnique
<1> HIDE DEF x
<1>3. x + 1 \in DOMAIN flat /\ (x + 1) - 1 = x
  BY <1>1 DEF Grid
<1>4. SwapLastAxes(flat, a, b)[x + 1] = flat[o * a * b + i * b + j + 1]
  BY <1>2, <1>3 DEF SwapLastAxes
<1>5. o * a * b + i * b + j = Place(o, i, j, b, a)
  <2>1. o * a * b = o * (b * a)
    OBVIOUS
  <2>2. QED
    BY <2>1 DEF Place
<1>6. QED
  BY <1>4, <1>5 DEF x

\* Values with their last axes swapped fill the swapped rows.
LEMMA SwapType ==
  ASSUME NEW V, NEW a \in Nat \ {0}, NEW b \in Nat \ {0}, NEW n \in Nat,
         NEW flat, Grid(flat, V, n, a, b)
  PROVE  Grid(SwapLastAxes(flat, a, b), V, n, b, a)
<1> DEFINE g == SwapLastAxes(flat, a, b)
           L == Len(flat)
<1>0. flat \in Seq(V) /\ L = n * (a * b)
  BY DEF Grid
<1>1. g = [k \in 1..L |-> g[k]]
  BY <1>0 DEF SwapLastAxes
<1>2. ASSUME NEW k \in 1..L PROVE g[k] \in V
  <2> DEFINE x == k - 1
             o == x \div (a * b)
             j == (x % (a * b)) \div a
             i == x % a
  <2>1. x \in Nat /\ L \in Nat
    BY <1>0
  <2>2. o \in Nat /\ j \in 0..b - 1 /\ i \in 0..a - 1 /\ x = Place(o, j, i, a, b)
    <3> HIDE DEF x
    <3>1. QED
      BY <2>1, Coordinates
  <2> HIDE DEF o, j, i
  <2>3. o < n
    <3>1. SUFFICES ASSUME n <= o PROVE FALSE
      BY <2>2
    <3>2. a * b \in Nat /\ j * a \in Nat
      BY <2>2
    <3>3. (a * b) * n <= (a * b) * o
      BY <2>2, <3>1, <3>2, ProductGrows
    <3>4. (a * b) * n = n * (a * b) /\ (a * b) * o = o * (a * b) /\ o * (a * b) \in Nat
      BY <2>2
    <3>5. n * (a * b) \in Nat
      OBVIOUS
    <3>6. QED
      BY <1>0, <2>2, <3>2, <3>3, <3>4, <3>5 DEF Place
  <2>4. o \in 0..n - 1
    BY <2>2, <2>3
  <2>5. g[k] = flat[Place(o, i, j, b, a) + 1]
    <3>1. k = Place(o, j, i, a, b) + 1
      BY <2>2
    <3> HIDE DEF x
    <3>2. SwapLastAxes(flat, a, b)[Place(o, j, i, a, b) + 1]
            = flat[Place(o, i, j, b, a) + 1]
      <4> HIDE DEF g, L
      <4>1. QED
        BY <2>2, <2>4, SwapAt
    <3>3. QED
      BY <3>1, <3>2
  <2>6. Place(o, i, j, b, a) \in 0..n * (b * a) - 1
    BY <2>2, <2>4, CoordinatesWithin
  <2>7. a * b = b * a
    OBVIOUS
  <2>8. Place(o, i, j, b, a) + 1 \in 1..L
    BY <1>0, <2>1, <2>6, <2>7
  <2> HIDE DEF g
  <2>9. QED
    BY <1>0, <2>5, <2>8
<1> HIDE DEF g
<1>3. L \in Nat /\ a * b = b * a
  BY <1>0
<1>4. g \in [1..L -> V]
  BY <1>1, <1>2
<1>5. QED
  <2>1. g \in Seq(V) /\ Len(g) = L
    BY <1>3, <1>4
  <2>2. QED
    BY <1>0, <1>3, <2>1 DEF g, Grid

\* Swapping there and back is the identity: what Save transposes Open restores.
LEMMA SwapBack ==
  ASSUME NEW V, NEW a \in Nat \ {0}, NEW b \in Nat \ {0}, NEW n \in Nat,
         NEW flat, Grid(flat, V, n, a, b)
  PROVE  SwapLastAxes(SwapLastAxes(flat, a, b), b, a) = flat
<1> DEFINE g == SwapLastAxes(flat, a, b)
           h == SwapLastAxes(g, b, a)
           L == Len(flat)
<1>1. Grid(g, V, n, b, a)
  BY SwapType
<1>2. a * b = b * a
  OBVIOUS
<1> HIDE DEF g
<1>3. Grid(h, V, n, a, b)
  BY <1>1, SwapType
<1> HIDE DEF h
<1>4. /\ flat \in Seq(V) /\ L = n * (a * b)
      /\ h \in Seq(V) /\ Len(h) = L
  BY <1>3 DEF Grid
<1>5. ASSUME NEW k \in 1..L PROVE h[k] = flat[k]
  <2> DEFINE x == k - 1
             o == x \div (b * a)
             j == (x % (b * a)) \div b
             i == x % b
  <2>1. x \in Nat /\ L \in Nat
    BY <1>4
  <2>2. o \in Nat /\ j \in 0..a - 1 /\ i \in 0..b - 1 /\ x = Place(o, j, i, b, a)
    <3> HIDE DEF x
    <3>1. QED
      BY <2>1, Coordinates
  <2> HIDE DEF o, j, i
  <2>3. o < n
    <3>1. SUFFICES ASSUME n <= o PROVE FALSE
      BY <2>2
    <3>2. a * b \in Nat /\ j * b \in Nat
      BY <2>2
    <3>3. (a * b) * n <= (a * b) * o
      BY <2>2, <3>1, <3>2, ProductGrows
    <3>4. (a * b) * n = n * (a * b) /\ (a * b) * o = o * (a * b) /\ o * (a * b) \in Nat
      BY <2>2
    <3>5. QED
      BY <1>2, <1>4, <2>2, <3>2, <3>3, <3>4 DEF Place
  <2>4. o \in 0..n - 1
    BY <2>2, <2>3
  <2>5. k = Place(o, j, i, b, a) + 1
    BY <2>2
  <2> HIDE DEF x
  <2>6. h[k] = g[Place(o, i, j, a, b) + 1]
    <3>1. SwapLastAxes(g, b, a)[Place(o, j, i, b, a) + 1] = g[Place(o, i, j, a, b) + 1]
      <4>1. o \in 0..n - 1 /\ j \in 0..a - 1 /\ i \in 0..b - 1
        BY <2>2, <2>4
      <4>2. \A oo \in 0..n - 1, jj \in 0..a - 1, ii \in 0..b - 1 :
              SwapLastAxes(g, b, a)[Place(oo, jj, ii, b, a) + 1] = g[Place(oo, ii, jj, a, b) + 1]
        BY <1>1, SwapAt
      <4>3. QED
        BY <4>1, <4>2
    <3>2. QED
      BY <2>5, <3>1 DEF h
  <2>7. g[Place(o, i, j, a, b) + 1] = flat[Place(o, j, i, b, a) + 1]
    <3>1. SwapLastAxes(flat, a, b)[Place(o, i, j, a, b) + 1] = flat[Place(o, j, i, b, a) + 1]
      <4>1. i \in 0..b - 1 /\ j \in 0..a - 1 /\ o \in 0..n - 1
        BY <2>2, <2>4
      <4>2. \A oo \in 0..n - 1, ii \in 0..b - 1, jj \in 0..a - 1 :
              SwapLastAxes(flat, a, b)[Place(oo, ii, jj, a, b) + 1] = flat[Place(oo, jj, ii, b, a) + 1]
        BY SwapAt
      <4>3. QED
        BY <4>1, <4>2
    <3>2. QED
      BY <3>1 DEF g
  <2>8. QED
    BY <1>2, <2>5, <2>6, <2>7
<1>6. QED
  BY <1>4, <1>5, SeqEqual DEF g, h

\* Vectors are written one after the other and read again.
LEMMA FlatType ==
  ASSUME NEW V, NEW vs \in Seq([1..3 -> V])
  PROVE  Flat(vs) \in Seq(V) /\ Len(Flat(vs)) = 3 * Len(vs)
<1> DEFINE L == 3 * Len(vs)
<1>1. L \in Nat /\ Len(vs) \in Nat
  OBVIOUS
<1>2. ASSUME NEW k \in 1..L PROVE Flat(vs)[k] \in V
  <2> DEFINE x == k - 1
             q == x \div 3
             r == x % 3
  <2>1. x \in Nat /\ q \in Nat /\ r \in 0..2 /\ x = 3 * q + r
    <3>1. x \in Nat
      OBVIOUS
    <3> HIDE DEF x
    <3>2. QED
      BY <3>1
  <2>2. Flat(vs)[k] = vs[q + 1][r + 1]
    BY DEF Flat
  <2> HIDE DEF q, r
  <2>3. q + 1 \in 1..Len(vs) /\ r + 1 \in 1..3
    BY <1>1, <2>1
  <2>4. QED
    BY <2>2, <2>3
<1>3. Flat(vs) = [k \in 1..L |-> Flat(vs)[k]]
  BY DEF Flat
<1>4. Flat(vs) \in [1..L -> V]
  BY <1>2, <1>3
<1>5. QED
  BY <1>1, <1>4

\* Rows of three come out of three values each.
LEMMA VectorsType ==
  ASSUME NEW V, NEW data \in Seq(V)
  PROVE  Vectors(data) \in Seq([1..3 -> V]) /\ Len(Vectors(data)) = Len(data) \div 3
<1> DEFINE n == Len(data) \div 3
<1>1. n \in Nat /\ 3 * n <= Len(data) /\ Len(data) \in Nat
  OBVIOUS
<1>2. ASSUME NEW i \in 1..n, NEW c \in 1..3 PROVE data[3 * (i - 1) + c] \in V
  <2>1. 3 * (i - 1) + c \in 1..Len(data)
    BY <1>1
  <2>2. QED
    BY <2>1
<1>3. Vectors(data) \in [1..n -> [1..3 -> V]]
  BY <1>2 DEF Vectors
<1> HIDE DEF n
<1>4. QED
  BY <1>1, <1>3 DEF n

\* Vectors written one after the other are read as they were.
LEMMA VectorsFlat ==
  ASSUME NEW V, NEW vs \in Seq([1..3 -> V])
  PROVE  Vectors(Flat(vs)) = vs
<1> DEFINE n == Len(vs)
<1>1. n \in Nat /\ Flat(vs) \in Seq(V) /\ Len(Flat(vs)) = 3 * n /\ (3 * n) \div 3 = n
  <2>1. n \in Nat
    OBVIOUS
  <2>2. Flat(vs) \in Seq(V) /\ Len(Flat(vs)) = 3 * n
    BY FlatType
  <2> HIDE DEF n
  <2>3. QED
    BY <2>1, <2>2
<1>2. ASSUME NEW i \in 1..n PROVE Vectors(Flat(vs))[i] = vs[i]
  <2>1. Vectors(Flat(vs))[i] = [c \in 1..3 |-> Flat(vs)[3 * (i - 1) + c]]
    BY <1>1 DEF Vectors
  <2>2. ASSUME NEW c \in 1..3 PROVE Flat(vs)[3 * (i - 1) + c] = vs[i][c]
    <3> DEFINE k == 3 * (i - 1) + c
    <3>1. k \in 1..3 * n /\ (k - 1) \div 3 = i - 1 /\ (k - 1) % 3 = c - 1
      <4>1. k \in 1..3 * n /\ k - 1 = 3 * (i - 1) + (c - 1) /\ i - 1 \in Nat /\ c - 1 \in 0..2
        BY <1>1
      <4> HIDE DEF k
      <4>2. QED
        BY <4>1
    <3>2. Flat(vs)[k] = vs[(k - 1) \div 3 + 1][((k - 1) % 3) + 1]
      BY <3>1 DEF Flat
    <3> HIDE DEF k
    <3>3. Flat(vs)[k] = vs[(i - 1) + 1][(c - 1) + 1] /\ (i - 1) + 1 = i /\ (c - 1) + 1 = c
      BY <1>1, <3>1, <3>2
    <3>4. QED
      BY <3>3 DEF k
  <2>3. vs[i] = [c \in 1..3 |-> vs[i][c]]
    OBVIOUS
  <2>4. QED
    BY <2>1, <2>2, <2>3
<1>3. Vectors(Flat(vs)) \in Seq([1..3 -> V]) /\ Len(Vectors(Flat(vs))) = n
  BY <1>1, VectorsType
<1> HIDE DEF n
<1>4. QED
  BY <1>1, <1>2, <1>3, SeqEqual DEF n

\* Positions for each measurement: m times n of them.
PerM(perM, V, m, n) ==
  /\ perM \in Seq(Seq([1..3 -> V])) /\ Len(perM) = m
  /\ \A i \in 1..m : Len(perM[i]) = n

\* x is the offset of component j of position o for measurement i.
AtPerM(x, o, j, i, m) ==
  /\ x \in Nat /\ x = (o * 3 + j) * m + i
  /\ x % m = i /\ x \div (3 * m) = o /\ (x \div m) % 3 = j

Below(x, n) == x \in 0..n - 1

\* The coordinates of an element of a variable [rows, C, M].
LEMMA PerMPlaces ==
  ASSUME NEW m \in Nat \ {0}
  PROVE  \A o \in Nat, j \in 0..2, i \in 0..m - 1 : AtPerM(Place(o, j, i, m, 3), o, j, i, m)
<1> SUFFICES ASSUME NEW o \in Nat, NEW j \in 0..2, NEW i \in 0..m - 1
             PROVE  AtPerM(Place(o, j, i, m, 3), o, j, i, m)
  OBVIOUS
<1> DEFINE x == Place(o, j, i, m, 3)
           q == 3 * o + j
<1>1. x \in Nat /\ x % m = i /\ x \div (m * 3) = o
  <2> DEFINE b == 3
  <2>1. b \in Nat \ {0} /\ j \in 0..b - 1
    OBVIOUS
  <2> HIDE DEF b
  <2>2. LET y == Place(o, j, i, m, b)
        IN  y \in Nat /\ y % m = i /\ y \div (m * b) = o
    BY <2>1, CoordinatesUnique
  <2>3. QED
    BY <2>2 DEF b
<1>2. m * 3 = 3 * m
  OBVIOUS
<1>3. q \in Nat /\ q % 3 = j
  OBVIOUS
<1>4. x = m * q + i
  BY DEF Place
<1>5. (m * q + i) \div m = q
  <2> HIDE DEF q
  <2>1. i \in Nat /\ i < m
    OBVIOUS
  <2>2. QED
    BY <1>3, <2>1, DivisionUnique
<1>6. x = (o * 3 + j) * m + i
  BY <1>4
<1>7. QED
  BY <1>1, <1>2, <1>3, <1>4, <1>5, <1>6 DEF AtPerM

\* Every element of n rows is within the variable.
LEMMA PerMWithin ==
  ASSUME NEW m \in Nat \ {0}, NEW n \in Nat
  PROVE  \A o \in 0..n - 1, j \in 0..2, i \in 0..m - 1 : Below(Place(o, j, i, m, 3), n * (m * 3))
<1> SUFFICES ASSUME NEW o \in 0..n - 1, NEW j \in 0..2, NEW i \in 0..m - 1
             PROVE  Below(Place(o, j, i, m, 3), n * (m * 3))
  OBVIOUS
<1>1. \A a, b \in Nat \ {0} : \A nn \in Nat :
        \A oo \in 0..nn - 1, jj \in 0..b - 1, ii \in 0..a - 1 :
          Below(Place(oo, jj, ii, a, b), nn * (a * b))
  BY CoordinatesWithin DEF Below
<1>2. 3 \in Nat \ {0} /\ j \in 0..3 - 1
  OBVIOUS
<1>3. QED
  BY <1>1, <1>2

\* Every offset within the variable is that of one element.
LEMMA PerMCoordinates ==
  ASSUME NEW m \in Nat \ {0}
  PROVE  \A x \in Nat : \E o \in Nat, j \in 0..2, i \in 0..m - 1 : x = Place(o, j, i, m, 3)
<1> SUFFICES ASSUME NEW x \in Nat
             PROVE  \E o \in Nat, j \in 0..2, i \in 0..m - 1 : x = Place(o, j, i, m, 3)
  OBVIOUS
<1> DEFINE b == 3
           o == x \div (m * b)
           j == (x % (m * b)) \div m
           i == x % m
<1>1. b \in Nat \ {0}
  OBVIOUS
<1>2. o \in Nat /\ j \in 0..b - 1 /\ i \in 0..m - 1 /\ x = Place(o, j, i, m, b)
  <2> HIDE DEF b
  <2>1. QED
    BY <1>1, Coordinates
<1> HIDE DEF o, j, i
<1>3. QED
  BY <1>2

\* Element x of data is component j of position o for measurement i.
Held(data, x, perM, o, j, i) == data[x + 1] = perM[i + 1][o + 1][j + 1]

\* Where FlatPerM puts component j of position o for measurement i.
LEMMA FlatPerMAt ==
  ASSUME NEW V, NEW m \in Nat \ {0}, NEW n \in Nat, NEW perM, PerM(perM, V, m, n)
  PROVE  \A o \in 0..n - 1, j \in 0..2, i \in 0..m - 1 :
           Held(FlatPerM(perM), Place(o, j, i, m, 3), perM, o, j, i)
<1> SUFFICES ASSUME NEW o \in 0..n - 1, NEW j \in 0..2, NEW i \in 0..m - 1
             PROVE  Held(FlatPerM(perM), Place(o, j, i, m, 3), perM, o, j, i)
  OBVIOUS
<1> DEFINE x == Place(o, j, i, m, 3)
<1>1. x % m = i /\ x \div (3 * m) = o /\ (x \div m) % 3 = j
  <2>1. o \in Nat
    OBVIOUS
  <2>2. AtPerM(x, o, j, i, m)
    BY <2>1, PerMPlaces
  <2> HIDE DEF x
  <2>3. QED
    BY <2>2 DEF AtPerM
<1>2. x \in 0..n * (m * 3) - 1
  BY PerMWithin DEF Below
<1>3. n * (m * 3) = n * 3 * m
  OBVIOUS
<1>4. Len(perM) = m /\ Len(perM[1]) = n
  BY DEF PerM
<1> HIDE DEF x
<1>5. x + 1 \in 1..n * 3 * m /\ (x + 1) - 1 = x
  BY <1>2, <1>3
<1>6. FlatPerM(perM)[x + 1] = perM[(x % m) + 1][x \div (3 * m) + 1][((x \div m) % 3) + 1]
  BY <1>4, <1>5 DEF FlatPerM
<1>7. QED
  BY <1>1, <1>2, <1>3, <1>6 DEF x, Held

\* FlatPerM fills a variable [n, C, m].
LEMMA FlatPerMType ==
  ASSUME NEW V, NEW m \in Nat \ {0}, NEW n \in Nat, NEW perM, PerM(perM, V, m, n)
  PROVE  FlatPerM(perM) \in Seq(V) /\ Len(FlatPerM(perM)) = n * 3 * m
<1> DEFINE L == n * 3 * m
           g == FlatPerM(perM)
<1>1. Len(perM) = m /\ Len(perM[1]) = n
  BY DEF PerM
<1>2. L \in Nat /\ L = n * (m * 3)
  OBVIOUS
<1>3. g = [k \in 1..L |-> g[k]]
  BY <1>1 DEF FlatPerM
<1>4. ASSUME NEW k \in 1..L PROVE g[k] \in V
  <2> DEFINE x == k - 1
  <2>1. x \in Nat
    BY <1>2
  <2>2. PICK o \in Nat, j \in 0..2, i \in 0..m - 1 : x = Place(o, j, i, m, 3)
    BY <2>1, PerMCoordinates
  <2>3. o \in 0..n - 1
    <3>1. SUFFICES ASSUME n <= o PROVE FALSE
      BY <2>2
    <3>2. m * 3 \in Nat /\ j * m \in Nat
      BY <2>2
    <3>3. (m * 3) * n <= (m * 3) * o
      BY <2>2, <3>1, <3>2, ProductGrows
    <3>4. (m * 3) * n = n * (m * 3) /\ (m * 3) * o = o * (m * 3) /\ o * (m * 3) \in Nat
      BY <2>2
    <3>5. x < L
      BY <1>2
    <3>6. QED
      BY <1>2, <2>2, <3>2, <3>3, <3>4, <3>5 DEF Place
  <2>4. Held(FlatPerM(perM), Place(o, j, i, m, 3), perM, o, j, i)
    BY <2>2, <2>3, FlatPerMAt
  <2>5. k = Place(o, j, i, m, 3) + 1
    BY <1>2, <2>2
  <2>6. perM[i + 1] \in Seq([1..3 -> V]) /\ Len(perM[i + 1]) = n
    BY <2>2 DEF PerM
  <2>7. perM[i + 1][o + 1] \in [1..3 -> V]
    BY <2>3, <2>6, SMTT(30)
  <2>8. QED
    BY <2>2, <2>4, <2>5, <2>7 DEF Held
<1> HIDE DEF g, L
<1>5. g \in [1..L -> V]
  BY <1>3, <1>4
<1>6. QED
  BY <1>2, <1>5 DEF g, L

\* VectorsPerM finds m times the same number of vectors.
LEMMA VectorsPerMType ==
  ASSUME NEW V, NEW m \in Nat \ {0}, NEW data \in Seq(V)
  PROVE  PerM(VectorsPerM(data, m), V, m, Len(data) \div (3 * m))
<1> DEFINE n == Len(data) \div (3 * m)
<1>1. n \in Nat /\ (3 * m) * n <= Len(data) /\ Len(data) \in Nat
  <2>1. 3 * m \in Nat \ {0} /\ Len(data) \in Nat
    OBVIOUS
  <2>2. n \in Nat /\ Len(data) % (3 * m) \in Nat /\ Len(data) = (3 * m) * n + (Len(data) % (3 * m))
    BY <2>1, Division
  <2> HIDE DEF n
  <2>3. (3 * m) * n \in Nat
    BY <2>2
  <2>4. QED
    BY <2>1, <2>2, <2>3
<1>2. ASSUME NEW i \in 1..m, NEW j \in 1..n, NEW c \in 1..3
      PROVE  data[((j - 1) * 3 + c - 1) * m + i] \in V
  <2> DEFINE o == j - 1
             k == c - 1
             h == i - 1
             x == Place(o, k, h, m, 3)
  <2>1. o \in 0..n - 1 /\ k \in 0..2 /\ h \in 0..m - 1 /\ o \in Nat
    BY <1>1
  <2> HIDE DEF n, o, k, h
  <2>2. Below(x, n * (m * 3))
    BY <1>1, <2>1, PerMWithin
  <2>3. AtPerM(x, o, k, h, m)
    BY <2>1, PerMPlaces
  <2>31. x \in 0..n * (m * 3) - 1 /\ x = (o * 3 + k) * m + h
    BY <2>2, <2>3 DEF Below, AtPerM
  <2>4. n * (m * 3) = (3 * m) * n
    BY <1>1
  <2> HIDE DEF x, n
  <2>5. x + 1 \in 1..Len(data)
    BY <1>1, <2>31, <2>4
  <2>6. ((j - 1) * 3 + c - 1) * m + i = x + 1
    <3>1. (j - 1) * 3 + c - 1 = o * 3 + k
      BY DEF o, k
    <3>2. (o * 3 + k) * m \in Int /\ i = h + 1
      BY <2>1 DEF h
    <3>3. QED
      BY <2>1, <2>31, <3>1, <3>2
  <2>7. QED
    BY <2>5, <2>6
<1> HIDE DEF n
<1>3. VectorsPerM(data, m) \in [1..m -> [1..n -> [1..3 -> V]]]
  BY <1>2 DEF VectorsPerM, n
<1>4. [1..n -> [1..3 -> V]] \subseteq Seq([1..3 -> V])
  BY <1>1
<1>5. VectorsPerM(data, m) \in [1..m -> Seq([1..3 -> V])]
  BY <1>3, <1>4
<1>6. \A i \in 1..m : Len(VectorsPerM(data, m)[i]) = n
  BY <1>1, <1>3
<1>7. QED
  BY <1>5, <1>6 DEF PerM, n

\* Positions for each measurement are read as they were written.
LEMMA PerMBack ==
  ASSUME NEW V, NEW m \in Nat \ {0}, NEW n \in Nat, NEW perM, PerM(perM, V, m, n)
  PROVE  VectorsPerM(FlatPerM(perM), m) = perM
<1> DEFINE data == FlatPerM(perM)
           back == VectorsPerM(data, m)
<1>1. data \in Seq(V) /\ Len(data) = n * 3 * m
  BY FlatPerMType
<1>2. Len(data) \div (3 * m) = n
  <2>1. 3 * m \in Nat \ {0} /\ 0 \in Nat /\ 0 < 3 * m /\ n * 3 * m = (3 * m) * n + 0
    OBVIOUS
  <2>2. ((3 * m) * n + 0) \div (3 * m) = n
    BY <2>1, DivisionUnique
  <2>3. QED
    BY <1>1, <2>1, <2>2
<1> HIDE DEF data
<1>3. PerM(back, V, m, n)
  BY <1>1, <1>2, VectorsPerMType
<1>4. ASSUME NEW i \in 1..m, NEW j \in 1..n, NEW c \in 1..3
      PROVE  back[i][j][c] = perM[i][j][c]
  <2> DEFINE o == j - 1
             k == c - 1
             h == i - 1
             x == Place(o, k, h, m, 3)
  <2>1. o \in 0..n - 1 /\ k \in 0..2 /\ h \in 0..m - 1 /\ o \in Nat
    OBVIOUS
  <2>6. h + 1 = i /\ o + 1 = j /\ k + 1 = c
    OBVIOUS
  <2>5. back[i][j][c] = data[((j - 1) * 3 + c - 1) * m + i]
    BY <1>2 DEF VectorsPerM
  <2>4. (j - 1) * 3 + c - 1 = o * 3 + k
    OBVIOUS
  <2> HIDE DEF o, k, h
  <2>2. Held(data, x, perM, o, k, h)
    BY <2>1, FlatPerMAt DEF data
  <2>3. AtPerM(x, o, k, h, m)
    BY <2>1, PerMPlaces
  <2>7. ((j - 1) * 3 + c - 1) * m + i = x + 1
    <3>1. (o * 3 + k) * m \in Int
      BY <2>1
    <3>2. QED
      BY <2>1, <2>3, <2>4, <2>6, <3>1 DEF AtPerM
  <2> HIDE DEF x, back
  <2>8. QED
    BY <2>2, <2>5, <2>6, <2>7 DEF Held
<1> HIDE DEF back
<1>5. ASSUME NEW i \in 1..m PROVE back[i] = perM[i]
  <2>1. /\ back[i] \in Seq([1..3 -> V]) /\ Len(back[i]) = n
        /\ perM[i] \in Seq([1..3 -> V]) /\ Len(perM[i]) = n
    BY <1>3 DEF PerM
  <2>2. ASSUME NEW j \in 1..n PROVE back[i][j] = perM[i][j]
    <3>1. back[i][j] \in [1..3 -> V] /\ perM[i][j] \in [1..3 -> V]
      BY <2>1
    <3>2. QED
      BY <1>4, <3>1
  <2>3. QED
    BY <2>1, <2>2, SeqEqual
<1>6. /\ back \in Seq(Seq([1..3 -> V])) /\ Len(back) = m
      /\ perM \in Seq(Seq([1..3 -> V])) /\ Len(perM) = m
  BY <1>3 DEF PerM
<1>7. back = perM
  BY <1>5, <1>6, SeqEqual
<1>8. QED
  BY <1>7 DEF back, data

-----------------------------------------------------------------------------
(* Short layouts, axis by axis.                                            *)

\* The shapes of layouts of one to four axes.
LEMMA ShapeShort ==
  ASSUME NEW size
  PROVE  /\ \A a : Shape(size, <<a>>) = <<AxisSize(size, a)>>
         /\ \A a, b : Shape(size, <<a, b>>) = <<AxisSize(size, a), AxisSize(size, b)>>
         /\ \A a, b, c : Shape(size, <<a, b, c>>)
                           = <<AxisSize(size, a), AxisSize(size, b), AxisSize(size, c)>>
         /\ \A a, b, c, d : Shape(size, <<a, b, c, d>>)
                = <<AxisSize(size, a), AxisSize(size, b), AxisSize(size, c), AxisSize(size, d)>>
BY DEF Shape

\* The axes of layouts of one and two.
LEMMA ContainsShort ==
  ASSUME NEW e
  PROVE  /\ \A a : Contains(<<a>>, e) <=> a = e
         /\ \A a, b : Contains(<<a, b>>, e) <=> a = e \/ b = e
BY DEF Contains

\* The sizes of a File, and of an axis.
Sized(size) == size \in [Sizes -> Nat \ {0}]

\* The size of every kind of axis.
LEMMA AxisSizes ==
  ASSUME NEW size, Sized(size)
  PROVE  /\ AxisSize(size, "M") = size["M"] /\ AxisSize(size, "R") = size["R"]
         /\ AxisSize(size, "E") = size["E"] /\ AxisSize(size, "N") = size["N"]
         /\ AxisSize(size, "C") = 3 /\ AxisSize(size, "I") = 1
         /\ size["M"] \in Nat \ {0} /\ size["R"] \in Nat \ {0}
         /\ size["E"] \in Nat \ {0} /\ size["N"] \in Nat \ {0}
BY DEF Sized, AxisSize, Sizes

\* The number of values of the layouts Save writes.
LEMMA LayoutCounts ==
  ASSUME NEW size, Sized(size)
  PROVE  LET M == size["M"]  R == size["R"]  E == size["E"]  N == size["N"]
         IN  /\ Count(Shape(size, <<"I">>)) = 1
             /\ Count(Shape(size, <<"M">>)) = M
             /\ Count(Shape(size, <<"R">>)) = R
             /\ Count(Shape(size, <<"I", "R">>)) = R
             /\ Count(Shape(size, <<"M", "R">>)) = M * R
             /\ Count(Shape(size, <<"I", "C">>)) = 3
             /\ Count(Shape(size, <<"M", "C">>)) = M * 3
             /\ Count(Shape(size, MRN)) = M * R * N
             /\ Count(Shape(size, MREN)) = (M * R) * (E * N)
             /\ Count(Shape(size, MRNE)) = (M * R) * (N * E)
<1> DEFINE M == size["M"]
           R == size["R"]
           E == size["E"]
           N == size["N"]
<1>1. /\ AxisSize(size, "M") = M /\ AxisSize(size, "R") = R
      /\ AxisSize(size, "E") = E /\ AxisSize(size, "N") = N
      /\ AxisSize(size, "C") = 3 /\ AxisSize(size, "I") = 1
      /\ M \in Nat /\ R \in Nat /\ E \in Nat /\ N \in Nat
  BY AxisSizes
<1> HIDE DEF M, R, E, N
<1>2. \A a, b, c, d \in Nat : 
         /\ Counts(<<a>>, a) /\ Counts(<<a, b>>, a * b)
         /\ Counts(<<a, b, c>>, a * b * c) /\ Counts(<<a, b, c, d>>, a * b * c * d)
  BY CountShort
<1>3. /\ Counts(<<1>>, 1) /\ Counts(<<M>>, M) /\ Counts(<<R>>, R)
      /\ Counts(<<1, R>>, 1 * R) /\ Counts(<<M, R>>, M * R)
      /\ Counts(<<1, 3>>, 1 * 3) /\ Counts(<<M, 3>>, M * 3)
      /\ Counts(<<M, R, N>>, M * R * N)
      /\ Counts(<<M, R, E, N>>, M * R * E * N) /\ Counts(<<M, R, N, E>>, M * R * N * E)
  BY <1>1, <1>2
<1>4. /\ Shape(size, <<"I">>) = <<1>> /\ Shape(size, <<"M">>) = <<M>>
      /\ Shape(size, <<"R">>) = <<R>>
      /\ Shape(size, <<"I", "R">>) = <<1, R>> /\ Shape(size, <<"M", "R">>) = <<M, R>>
      /\ Shape(size, <<"I", "C">>) = <<1, 3>> /\ Shape(size, <<"M", "C">>) = <<M, 3>>
      /\ Shape(size, MRN) = <<M, R, N>>
      /\ Shape(size, MREN) = <<M, R, E, N>> /\ Shape(size, MRNE) = <<M, R, N, E>>
  BY <1>1, ShapeShort DEF MRN, MREN, MRNE
<1>5. 1 * R = R /\ 1 * 3 = 3
  BY <1>1
<1>6. M * R * E * N = (M * R) * (E * N) /\ M * R * N * E = (M * R) * (N * E)
  BY <1>1
<1>7. QED
  BY <1>3, <1>4, <1>5, <1>6 DEF M, R, E, N, Counts

\* The same for positions: n of them, x of them for a dimension.
LEMMA PositionCounts ==
  ASSUME NEW size, Sized(size), NEW x
  PROVE  LET n == AxisSize(size, x)  M == size["M"]
         IN  /\ n \in Nat \ {0}
             /\ Count(Shape(size, <<x, "C">>)) = n * 3
             /\ Count(Shape(size, <<x, "C", "I">>)) = n * 3
             /\ Count(Shape(size, <<x, "C", "M">>)) = n * 3 * M
<1> DEFINE n == AxisSize(size, x)
           M == size["M"]
<1>1. n \in Nat \ {0}
  BY DEF AxisSize, Sized
<1>2. AxisSize(size, "M") = M /\ AxisSize(size, "C") = 3 /\ AxisSize(size, "I") = 1 /\ M \in Nat
  BY AxisSizes
<1> HIDE DEF n, M
<1>3. \A a, b, c, d \in Nat : Counts(<<a, b>>, a * b) /\ Counts(<<a, b, c>>, a * b * c)
  BY CountShort
<1>4. Counts(<<n, 3>>, n * 3) /\ Counts(<<n, 3, 1>>, n * 3 * 1) /\ Counts(<<n, 3, M>>, n * 3 * M)
  BY <1>1, <1>2, <1>3
<1>5. /\ Shape(size, <<x, "C">>) = <<n, 3>> /\ Shape(size, <<x, "C", "I">>) = <<n, 3, 1>>
      /\ Shape(size, <<x, "C", "M">>) = <<n, 3, M>>
  BY <1>2, ShapeShort DEF n
<1>6. n * 3 * 1 = n * 3
  BY <1>1
<1>7. QED
  BY <1>1, <1>4, <1>5, <1>6 DEF n, M, Counts

-----------------------------------------------------------------------------
(* Layouts.                                                                *)

\* A set of naturals that is not empty has a least element.
LEMMA LeastNumber ==
  ASSUME NEW S \in SUBSET Nat, S # {}
  PROVE  \E least \in S : \A y \in S : least =< y
<1> DEFINE T == {n \in Nat : \A y \in S : n =< y}
<1>1. SUFFICES ASSUME \A least \in S : ~(\A y \in S : least =< y) PROVE FALSE
  OBVIOUS
<1>2. 0 \in T
  OBVIOUS
<1>3. ASSUME NEW n \in T PROVE n + 1 \in T
  <2>1. n \notin S
    BY <1>1
  <2>2. QED
    BY <2>1
<1>4. T = Nat
  <2> HIDE DEF T
  <2>1. T \in SUBSET Nat
    BY DEF T
  <2>2. QED
    BY <1>2, <1>3, <2>1, NatSetInduction
<1>5. PICK y \in S : TRUE
  OBVIOUS
<1>6. y + 1 \in T
  <2>1. y + 1 \in Nat
    OBVIOUS
  <2> HIDE DEF T
  <2>2. QED
    BY <1>4, <2>1
<1>7. QED
  BY <1>5, <1>6

\* A layout names the scale of every axis, of which there is at least one.
Labels == Sizes \cup {"C", "I"}
IsLayout(l) == l \in Seq(Labels) /\ Len(l) \in 1..4

\* A layout is not the absence of one.
LEMMA LayoutNotEmpty ==
  ASSUME NEW l, IsLayout(l)
  PROVE  l # NoLayout
<1>1. l \in Seq(Labels) /\ Len(l) # 0
  BY DEF IsLayout
<1>2. QED
  BY <1>1, EmptySeq DEF NoLayout

\* The labels of an axis each are found again.
LEMMA LabelsKept ==
  ASSUME NEW var, IsLayout(var.labels)
  PROVE  DimensionLabels(var) = var.labels
<1> DEFINE l == var.labels
           labelled == {i \in DOMAIN l : l[i] # Unlabelled}
<1>0. Unlabelled \notin Labels
  BY DEF Labels, Sizes, Unlabelled
<1>1. l \in Seq(Labels) /\ Len(l) \in 1..4
  BY DEF IsLayout
<1>2. labelled = 1..Len(l) /\ labelled # {}
  <2> HIDE DEF l
  <2>1. \A i \in 1..Len(l) : l[i] \in Labels
    BY <1>1
  <2>2. QED
    BY <1>0, <1>1, <2>1
<1>3. Max(labelled) = Len(l)
  <2>1. Len(l) \in labelled /\ \A y \in labelled : Len(l) >= y
    BY <1>1, <1>2
  <2>2. \A x \in labelled : (\A y \in labelled : x >= y) => x = Len(l)
    BY <1>1, <1>2
  <2> HIDE DEF labelled
  <2>3. QED
    BY <2>1, <2>2 DEF Max
<1>4. SubSeq(l, 1, Len(l)) = l
  BY <1>1, SubSeqFull
<1>5. ~Contains(l, Unlabelled)
  BY <1>0, <1>1 DEF Contains
<1>6. QED
  BY <1>2, <1>3, <1>4, <1>5 DEF DimensionLabels

\* The layouts Open looks for, as sets: the data, the sampling rate, the delay.
LEMMA LayoutsAre ==
  ASSUME NEW type
  PROVE  /\ Range(Layouts(type, "Data")) = IF type = "TFE" THEN {MRNE, MREN} ELSE {MRN}
         /\ Range(Layouts(type, "Data.SamplingRate")) = {<<"I">>, <<"M">>}
         /\ Range(Layouts(type, "Data.Delay"))
              = {<<"I", "R">>, <<"M", "R">>, <<"I">>, <<"M">>, <<"R">>}
<1>1. Range(Layouts(type, "Data")) = IF type = "TFE" THEN {MRNE, MREN} ELSE {MRN}
  <2>1. \A a, b : Range(<<a, b>>) = {a, b} /\ Range(<<a>>) = {a}
    BY DEF Range
  <2>2. Layouts(type, "Data") = IF type = "TFE" THEN <<MRNE, MREN>> ELSE <<MRN>>
    BY DEF Layouts, AudioLayouts
  <2>3. CASE type = "TFE"
    BY <2>1, <2>2, <2>3
  <2>4. CASE type # "TFE"
    BY <2>1, <2>2, <2>4
  <2>5. QED
    BY <2>3, <2>4
<1>2. Range(Layouts(type, "Data.SamplingRate")) = {<<"I">>, <<"M">>}
  <2>1. Layouts(type, "Data.SamplingRate") = <<<<"I">>, <<"M">>>>
    BY DEF Layouts
  <2>2. \A a, b : Range(<<a, b>>) = {a, b}
    BY DEF Range
  <2>3. QED
    BY <2>1, <2>2
<1>3. Range(Layouts(type, "Data.Delay"))
        = {<<"I", "R">>, <<"M", "R">>, <<"I">>, <<"M">>, <<"R">>}
  <2>1. Layouts(type, "Data.Delay") = <<<<"I", "R">>, <<"M", "R">>, <<"I">>, <<"M">>, <<"R">>>>
    BY DEF Layouts
  <2>2. \A a, b, c, d, e : Range(<<a, b, c, d, e>>) = {a, b, c, d, e}
    BY DEF Range
  <2>3. QED
    BY <2>1, <2>2
<1>4. QED
  BY <1>1, <1>2, <1>3

\* The layouts of positions and orientations.
LEMMA PositionLayoutsAre ==
  ASSUME NEW type, NEW v \in Positions \cup Orientations
  PROVE  Range(Layouts(type, v))
           = IF v \in Orientations \/ ObjectDim(v) = "M" THEN {<<"I", "C">>, <<"M", "C">>}
             ELSE {<<ObjectDim(v), "C">>, <<"I", "C">>, <<ObjectDim(v), "C", "I">>,
                   <<"I", "C", "I">>, <<ObjectDim(v), "C", "M">>, <<"I", "C", "M">>}
<1> DEFINE x == ObjectDim(v)
<1>1. v \notin {"Data", "Data.SamplingRate", "Data.Delay"}
  BY DEF Positions, Orientations
<1>2. Layouts(type, v) = IF v \in Orientations \/ x = "M" THEN <<<<"I", "C">>, <<"M", "C">>>>
      ELSE <<<<x, "C">>, <<"I", "C">>, <<x, "C", "I">>, <<"I", "C", "I">>,
             <<x, "C", "M">>, <<"I", "C", "M">>>>
  BY <1>1 DEF Layouts, PositionLayouts
<1>3. \A a, b : Range(<<a, b>>) = {a, b}
  BY DEF Range
<1>4. \A a, b, c, d, e, f : Range(<<a, b, c, d, e, f>>) = {a, b, c, d, e, f}
  BY DEF Range
<1> HIDE DEF x
<1>5. CASE v \in Orientations \/ x = "M"
  BY <1>2, <1>3, <1>5 DEF x
<1>6. CASE ~(v \in Orientations \/ x = "M")
  BY <1>2, <1>4, <1>6 DEF x
<1>7. QED
  BY <1>5, <1>6

Variables == {"Data", "Data.SamplingRate", "Data.Delay"} \cup Positions \cup Orientations

\* What Open looks for are layouts.
LEMMA LayoutsWell ==
  ASSUME NEW type, NEW v \in Variables
  PROVE  /\ Layouts(type, v) \in Seq(Range(Layouts(type, v)))
         /\ \A l \in Range(Layouts(type, v)) : IsLayout(l)
<1> DEFINE x == ObjectDim(v)
<1>3. {"M", "R", "E", "N", "C", "I"} \subseteq Labels
  BY DEF Labels, Sizes
<1>1. x \in Labels
  BY <1>3 DEF ObjectDim
<1>2. \A a, b, c, d \in Labels :
        IsLayout(<<a>>) /\ IsLayout(<<a, b>>) /\ IsLayout(<<a, b, c>>) /\ IsLayout(<<a, b, c, d>>)
  BY DEF IsLayout
<1>7. \A T : \A a, b, c, d, e, f \in T :
        /\ <<a>> \in Seq(T) /\ <<a, b>> \in Seq(T)
        /\ <<a, b, c, d, e>> \in Seq(T) /\ <<a, b, c, d, e, f>> \in Seq(T)
  OBVIOUS
<1> HIDE DEF x
<1>4. CASE v \in {"Data", "Data.SamplingRate", "Data.Delay"}
  <2>1. IsLayout(MRN) /\ IsLayout(MRNE) /\ IsLayout(MREN)
    BY <1>2, <1>3 DEF MRN, MRNE, MREN
  <2>2. /\ IsLayout(<<"I">>) /\ IsLayout(<<"M">>) /\ IsLayout(<<"R">>)
        /\ IsLayout(<<"I", "R">>) /\ IsLayout(<<"M", "R">>)
    BY <1>2, <1>3
  <2>3. \A l \in Range(Layouts(type, v)) : IsLayout(l)
    BY <1>4, <2>1, <2>2, LayoutsAre
  <2>4. CASE v = "Data"
    BY <1>7, <2>3, <2>4, LayoutsAre DEF Layouts, AudioLayouts
  <2>5. CASE v = "Data.SamplingRate"
    <3>1. Layouts(type, v) = <<<<"I">>, <<"M">>>>
      BY <2>5 DEF Layouts
    <3>2. <<"I">> \in Range(Layouts(type, v)) /\ <<"M">> \in Range(Layouts(type, v))
      BY <2>5, LayoutsAre
    <3>3. Layouts(type, v) \in Seq(Range(Layouts(type, v)))
      BY <1>7, <3>1, <3>2
    <3>4. QED
      BY <2>3, <3>3
  <2>6. CASE v = "Data.Delay"
    <3>1. Layouts(type, v) = <<<<"I", "R">>, <<"M", "R">>, <<"I">>, <<"M">>, <<"R">>>>
      BY <2>6 DEF Layouts
    <3>2. /\ <<"I", "R">> \in Range(Layouts(type, v)) /\ <<"M", "R">> \in Range(Layouts(type, v))
          /\ <<"I">> \in Range(Layouts(type, v)) /\ <<"M">> \in Range(Layouts(type, v))
          /\ <<"R">> \in Range(Layouts(type, v))
      BY <2>6, LayoutsAre
    <3>3. Layouts(type, v) \in Seq(Range(Layouts(type, v)))
      BY <1>7, <3>1, <3>2
    <3>4. QED
      BY <2>3, <3>3
  <2>7. QED
    BY <1>4, <2>4, <2>5, <2>6
<1>5. CASE v \in Positions \cup Orientations
  <2>1. /\ IsLayout(<<"I", "C">>) /\ IsLayout(<<"M", "C">>) /\ IsLayout(<<x, "C">>)
        /\ IsLayout(<<"I", "C", "I">>) /\ IsLayout(<<x, "C", "I">>)
        /\ IsLayout(<<"I", "C", "M">>) /\ IsLayout(<<x, "C", "M">>)
    BY <1>1, <1>2, <1>3
  <2>2. \A l \in Range(Layouts(type, v)) : IsLayout(l)
    <3>1. CASE v \in Orientations \/ x = "M"
      BY <1>5, <2>1, <3>1, PositionLayoutsAre DEF x
    <3>2. CASE ~(v \in Orientations \/ x = "M")
      BY <1>5, <2>1, <3>2, PositionLayoutsAre DEF x
    <3>3. QED
      BY <3>1, <3>2
  <2>3. Layouts(type, v) \in Seq(Range(Layouts(type, v)))
    <3>1. v \notin {"Data", "Data.SamplingRate", "Data.Delay"}
      BY <1>5 DEF Positions, Orientations
    <3>2. Layouts(type, v) = IF v \in Orientations \/ x = "M" THEN <<<<"I", "C">>, <<"M", "C">>>>
          ELSE <<<<x, "C">>, <<"I", "C">>, <<x, "C", "I">>, <<"I", "C", "I">>,
                 <<x, "C", "M">>, <<"I", "C", "M">>>>
      BY <3>1 DEF Layouts, PositionLayouts, x
    <3>3. CASE v \in Orientations \/ x = "M"
      <4>1. <<"I", "C">> \in Range(Layouts(type, v)) /\ <<"M", "C">> \in Range(Layouts(type, v))
        BY <1>5, <3>3, PositionLayoutsAre DEF x
      <4>2. QED
        BY <1>7, <3>2, <3>3, <4>1
    <3>4. CASE ~(v \in Orientations \/ x = "M")
      <4>1. /\ <<x, "C">> \in Range(Layouts(type, v)) /\ <<"I", "C">> \in Range(Layouts(type, v))
            /\ <<x, "C", "I">> \in Range(Layouts(type, v))
            /\ <<"I", "C", "I">> \in Range(Layouts(type, v))
            /\ <<x, "C", "M">> \in Range(Layouts(type, v))
            /\ <<"I", "C", "M">> \in Range(Layouts(type, v))
        BY <1>5, <3>4, PositionLayoutsAre DEF x
      <4>2. QED
        BY <1>7, <3>2, <3>4, <4>1
    <3>5. QED
      BY <3>3, <3>4
  <2>4. QED
    BY <2>2, <2>3
<1>6. QED
  BY <1>4, <1>5 DEF Variables

\* The layout Open finds is one it looks for and fits, or it is the flat delay.
LEMMA Resolved ==
  ASSUME NEW size, NEW type, NEW v \in Variables, NEW var,
         ResolveLayout(size, type, v, var) # NoLayout
  PROVE  LET l == ResolveLayout(size, type, v, var)
         IN  \/ l \in Range(Layouts(type, v)) /\ LayoutFits(size, var, l)
             \/ /\ v = "Data.Delay" /\ l = <<"M", "R">>
                /\ DimensionLabels(var) = NoLayout /\ var.shape = <<size["M"] * size["R"]>>
<1> DEFINE layouts == Layouts(type, v)
           I == {i \in 1..Len(layouts) : LayoutFits(size, var, layouts[i])}
           i == SelectInSeq(layouts, LAMBDA l : LayoutFits(size, var, l))
<1>1. layouts \in Seq(Range(layouts))
  BY LayoutsWell
<1>2. i = IF I # {} THEN Min(I) ELSE 0
  BY DEF SelectInSeq
<1>3. ResolveLayout(size, type, v, var)
        = IF i # 0 THEN layouts[i]
          ELSE IF /\ v = "Data.Delay"
                  /\ DimensionLabels(var) = NoLayout /\ var.shape = <<size["M"] * size["R"]>>
               THEN <<"M", "R">> ELSE NoLayout
  BY DEF ResolveLayout
<1>4. i # 0 => i \in I
  <2>1. SUFFICES ASSUME I # {} PROVE Min(I) \in I
    BY <1>2
  <2>2. I \in SUBSET Nat
    BY <1>1
  <2> HIDE DEF I
  <2>3. \E least \in I : \A y \in I : least =< y
    BY <2>1, <2>2, LeastNumber
  <2>4. QED
    BY <2>3 DEF Min
<1>5. CASE i # 0
  <2>1. i \in 1..Len(layouts) /\ LayoutFits(size, var, layouts[i])
    BY <1>4, <1>5
  <2> HIDE DEF i, layouts
  <2>2. layouts[i] \in Range(layouts)
    BY <1>1, <2>1
  <2>3. QED
    BY <1>3, <1>5, <2>1, <2>2 DEF layouts
<1>6. CASE i = 0
  <2> HIDE DEF i
  <2>1. QED
    BY <1>3, <1>6
<1>7. QED
  BY <1>5, <1>6

\* Open finds the layout of a variable Save wrote.
LEMMA ResolvedOwn ==
  ASSUME NEW size, NEW type, NEW v \in Variables, NEW var,
         var.labels \in Range(Layouts(type, v)), var.shape = Shape(size, var.labels)
  PROVE  ResolveLayout(size, type, v, var) = var.labels
<1> DEFINE layouts == Layouts(type, v)
           I == {i \in 1..Len(layouts) : LayoutFits(size, var, layouts[i])}
           i == SelectInSeq(layouts, LAMBDA l : LayoutFits(size, var, l))
<1>1. IsLayout(var.labels) /\ layouts \in Seq(Range(layouts))
  BY LayoutsWell
<1>2. DimensionLabels(var) = var.labels
  BY <1>1, LabelsKept
<1>3. var.labels # NoLayout /\ var.shape # <<>>
  <2>1. var.labels \in Seq(Labels) /\ Len(var.labels) \in 1..4
    BY <1>1 DEF IsLayout
  <2>2. DOMAIN var.shape = 1..Len(var.labels)
    BY <2>1 DEF Shape
  <2>3. 1 \in DOMAIN var.shape /\ 1 \in DOMAIN var.labels
    BY <2>1, <2>2
  <2>4. QED
    BY <2>3 DEF NoLayout
<1>4. \A l : LayoutFits(size, var, l) <=> l = var.labels
  BY <1>2, <1>3 DEF LayoutFits
<1>5. i = IF I # {} THEN Min(I) ELSE 0
  BY DEF SelectInSeq
<1>6. I # {} /\ I \in SUBSET (Nat \ {0}) /\ \A k \in I : layouts[k] = var.labels
  <2>1. PICK k \in DOMAIN layouts : layouts[k] = var.labels
    BY DEF Range
  <2> HIDE DEF layouts
  <2>2. k \in 1..Len(layouts)
    BY <1>1
  <2>3. QED
    BY <1>1, <1>4, <2>1, <2>2
<1> HIDE DEF I
<1>7. Min(I) \in I
  <2>1. \E least \in I : \A y \in I : least =< y
    BY <1>6, LeastNumber
  <2>2. QED
    BY <2>1 DEF Min
<1>8. i # 0 /\ layouts[i] = var.labels
  BY <1>5, <1>6, <1>7
<1>9. ResolveLayout(size, type, v, var) = IF i # 0 THEN layouts[i]
          ELSE IF /\ v = "Data.Delay"
                  /\ DimensionLabels(var) = NoLayout /\ var.shape = <<size["M"] * size["R"]>>
               THEN <<"M", "R">> ELSE NoLayout
  BY DEF ResolveLayout
<1> HIDE DEF i, layouts
<1>10. QED
  BY <1>8, <1>9

\* Axes without labels may be those of any layout.
LEMMA NoLabels ==
  ASSUME NEW var, var.labels = NoLayout
  PROVE  DimensionLabels(var) = NoLayout
<1> DEFINE labelled == {i \in DOMAIN var.labels : var.labels[i] # Unlabelled}
<1>1. DOMAIN var.labels = {} /\ labelled = {} /\ var.labels = <<>>
  BY DEF NoLayout
<1>2. SubSeq(var.labels, 1, 0) = <<>>
  BY <1>1
<1>3. ~Contains(<<>>, Unlabelled)
  BY DEF Contains
<1>4. QED
  BY <1>1, <1>2, <1>3 DEF DimensionLabels, NoLayout

\* Open finds a layout when one that it looks for fits.
LEMMA ResolvedWhenFit ==
  ASSUME NEW size, NEW type, NEW v \in Variables, NEW var,
         NEW l \in Range(Layouts(type, v)), LayoutFits(size, var, l)
  PROVE  ResolveLayout(size, type, v, var) # NoLayout
<1> DEFINE layouts == Layouts(type, v)
           I == {i \in 1..Len(layouts) : LayoutFits(size, var, layouts[i])}
           i == SelectInSeq(layouts, LAMBDA x : LayoutFits(size, var, x))
<1>1. layouts \in Seq(Range(layouts)) /\ \A x \in Range(layouts) : x # NoLayout
  BY LayoutsWell, LayoutNotEmpty
<1>2. i = IF I # {} THEN Min(I) ELSE 0
  BY DEF SelectInSeq
<1>3. I # {} /\ I \in SUBSET (Nat \ {0})
  <2>1. PICK k \in DOMAIN layouts : layouts[k] = l
    BY DEF Range
  <2> HIDE DEF layouts
  <2>2. QED
    BY <1>1, <2>1
<1>4. Min(I) \in I
  <2> HIDE DEF I
  <2>1. \E least \in I : \A y \in I : least =< y
    BY <1>3, LeastNumber
  <2>2. QED
    BY <2>1 DEF Min
<1>5. i # 0 /\ i \in 1..Len(layouts)
  BY <1>2, <1>3, <1>4
<1>6. ResolveLayout(size, type, v, var) = IF i # 0 THEN layouts[i]
          ELSE IF /\ v = "Data.Delay"
                  /\ DimensionLabels(var) = NoLayout /\ var.shape = <<size["M"] * size["R"]>>
               THEN <<"M", "R">> ELSE NoLayout
  BY DEF ResolveLayout
<1> HIDE DEF i, layouts
<1>7. layouts[i] \in Range(layouts)
  BY <1>1, <1>5
<1>8. QED
  BY <1>1, <1>5, <1>6, <1>7
=============================================================================
