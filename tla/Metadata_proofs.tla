--------------------------- MODULE Metadata_proofs ---------------------------
(***************************************************************************)
(* Proofs about Metadata, for any files of other programs, any Files, any  *)
(* versions and programs, and any number of edits and of generations.      *)
(***************************************************************************)
EXTENDS Metadata, FiniteSetTheorems, SequenceTheorems, NaturalsInduction, TLAPS

-----------------------------------------------------------------------------
(* Lists.                                                                  *)

\* A list is a function of 1..n.
LEMMA ListIs ==
  ASSUME NEW s, SequenceOK(s)
  PROVE  /\ Len(s) \in Nat /\ DOMAIN s = 1..Len(s)
         /\ s = [i \in 1..Len(s) |-> s[i]]
  BY DEF SequenceOK

LEMMA IsList ==
  ASSUME NEW n \in Nat, NEW s, s = [i \in 1..n |-> s[i]]
  PROVE  SequenceOK(s) /\ Len(s) = n /\ DOMAIN s = 1..n
<1>1. DOMAIN s = 1..n
  OBVIOUS
<1>2. \A i \in 1..n : s[i] \in ToSet(s)
  BY <1>1 DEF ToSet
<1>3. s \in [1..n -> ToSet(s)]
  BY <1>2
<1>4. s \in Seq(ToSet(s)) /\ Len(s) = n
  BY <1>3
<1>5. QED
  BY <1>1, <1>4 DEF SequenceOK

\* Two lists, one after the other.
LEMMA Joined ==
  ASSUME NEW a, NEW b, SequenceOK(a), SequenceOK(b)
  PROVE  /\ SequenceOK(a \o b) /\ Len(a \o b) = Len(a) + Len(b)
         /\ \A i \in 1..Len(a) : (a \o b)[i] = a[i]
         /\ \A i \in 1..Len(b) : (a \o b)[Len(a) + i] = b[i]
         /\ ToSet(a \o b) = ToSet(a) \cup ToSet(b)
<1> DEFINE n == Len(a)
           m == Len(b)
           c == a \o b
           S == ToSet(a) \cup ToSet(b)
<1>1. n \in Nat /\ m \in Nat /\ DOMAIN a = 1..n /\ DOMAIN b = 1..m
  BY ListIs
<1>2. a \in Seq(S) /\ b \in Seq(S)
  <2>1. a \in Seq(ToSet(a)) /\ b \in Seq(ToSet(b))
    BY DEF SequenceOK
  <2>2. ToSet(a) \subseteq S /\ ToSet(b) \subseteq S
    OBVIOUS
  <2>3. QED
    BY <2>1, <2>2, SeqMonotonic
<1>3. /\ c \in Seq(S) /\ Len(c) = n + m
      /\ \A i \in 1..n : c[i] = a[i]
      /\ \A i \in 1..m : c[n + i] = b[i]
  <2> HIDE DEF S
  <2>1. QED
    BY <1>1, <1>2
<1>4. c = [i \in 1..(n + m) |-> c[i]] /\ DOMAIN c = 1..(n + m)
  <2> HIDE DEF c, S, n, m
  <2>1. DOMAIN c = 1..(n + m) /\ c = [i \in DOMAIN c |-> c[i]]
    BY <1>3
  <2>2. QED
    BY <2>1
<1> HIDE DEF c
<1>5. SequenceOK(c)
  BY <1>1, <1>4, IsList
<1>6. ToSet(c) \subseteq S
  BY <1>3, <1>4 DEF ToSet
<1>7. ToSet(a) \subseteq ToSet(c)
  <2>1. ASSUME NEW i \in 1..n PROVE a[i] \in ToSet(c)
    <3>1. i \in 1..(n + m) /\ c[i] = a[i]
      BY <1>1, <1>3
    <3>2. QED
      BY <1>4, <3>1 DEF ToSet
  <2>2. QED
    BY <1>1, <2>1 DEF ToSet
<1>8. ToSet(b) \subseteq ToSet(c)
  <2>1. ASSUME NEW i \in 1..m PROVE b[i] \in ToSet(c)
    <3>1. n + i \in 1..(n + m)
      BY <1>1
    <3>2. c[n + i] = b[i]
      BY <1>3
    <3>3. QED
      BY <1>4, <3>1, <3>2 DEF ToSet
  <2>2. QED
    BY <1>1, <2>1 DEF ToSet
<1>9. QED
  BY <1>3, <1>5, <1>6, <1>7, <1>8 DEF c

\* Names are those of the elements.
LEMMA NamesAre ==
  ASSUME NEW list
  PROVE  Names(list) = {a.name : a \in ToSet(list)}
  BY DEF Names, ToSet

LEMMA NamesJoined ==
  ASSUME NEW a, NEW b, SequenceOK(a), SequenceOK(b)
  PROVE  Names(a \o b) = Names(a) \cup Names(b)
<1>1. ToSet(a \o b) = ToSet(a) \cup ToSet(b)
  BY Joined
<1>2. QED
  BY <1>1, NamesAre

\* Lists of distinct names that do not meet.
LEMMA DistinctJoined ==
  ASSUME NEW a, NEW b, SequenceOK(a), SequenceOK(b), Distinct(a), Distinct(b),
         Names(a) \cap Names(b) = {}
  PROVE  Distinct(a \o b)
<1> DEFINE n == Len(a)
           m == Len(b)
           c == a \o b
<1>1. /\ n \in Nat /\ m \in Nat /\ DOMAIN a = 1..n /\ DOMAIN b = 1..m
      /\ DOMAIN c = 1..Len(c) /\ Len(c) = n + m
      /\ \A i \in 1..n : c[i] = a[i]
      /\ \A i \in 1..m : c[n + i] = b[i]
  BY Joined, ListIs
<1>2. /\ \A i, j \in 1..n : a[i].name = a[j].name => i = j
      /\ \A i, j \in 1..m : b[i].name = b[j].name => i = j
  BY <1>1 DEF Distinct
<1>3. \A i \in 1..n, j \in 1..m : a[i].name # b[j].name
  BY <1>1 DEF Names
<1> HIDE DEF c, n, m
<1>4. ASSUME NEW i \in DOMAIN c
      PROVE  \/ i \in 1..n /\ c[i] = a[i]
             \/ \E k \in 1..m : i = n + k /\ c[i] = b[k]
  <2>1. CASE i <= n
    BY <1>1, <2>1
  <2>2. CASE i > n
    <3>1. i - n \in 1..m /\ i = n + (i - n)
      BY <1>1, <2>2
    <3>2. QED
      BY <1>1, <3>1
  <2>3. QED
    BY <1>1, <2>1, <2>2
<1>5. ASSUME NEW i \in DOMAIN c, NEW j \in DOMAIN c, c[i].name = c[j].name
      PROVE  i = j
  <2>1. CASE i \in 1..n /\ c[i] = a[i]
    BY <1>2, <1>3, <1>4, <1>5, <2>1
  <2>2. CASE \E k \in 1..m : i = n + k /\ c[i] = b[k]
    <3>1. PICK k \in 1..m : i = n + k /\ c[i] = b[k]
      BY <2>2
    <3>2. ~(j \in 1..n /\ c[j] = a[j])
      BY <1>3, <1>5, <3>1
    <3>3. PICK l \in 1..m : j = n + l /\ c[j] = b[l]
      BY <1>4, <3>2
    <3>4. QED
      BY <1>2, <1>5, <3>1, <3>3
  <2>3. QED
    BY <1>4, <2>1, <2>2
<1>6. QED
  BY <1>5 DEF Distinct, c

\* Lists without repetition that do not meet.
NoRepeats(list) == \A i, j \in DOMAIN list : list[i] = list[j] => i = j

LEMMA NoRepeatsJoined ==
  ASSUME NEW a, NEW b, SequenceOK(a), SequenceOK(b), NoRepeats(a), NoRepeats(b),
         ToSet(a) \cap ToSet(b) = {}
  PROVE  NoRepeats(a \o b)
<1> DEFINE n == Len(a)
           m == Len(b)
           c == a \o b
<1>1. /\ n \in Nat /\ m \in Nat /\ DOMAIN a = 1..n /\ DOMAIN b = 1..m
      /\ DOMAIN c = 1..Len(c) /\ Len(c) = n + m
      /\ \A i \in 1..n : c[i] = a[i]
      /\ \A i \in 1..m : c[n + i] = b[i]
  BY Joined, ListIs
<1>2. /\ \A i, j \in 1..n : a[i] = a[j] => i = j
      /\ \A i, j \in 1..m : b[i] = b[j] => i = j
  BY <1>1 DEF NoRepeats
<1>3. \A i \in 1..n, j \in 1..m : a[i] # b[j]
  BY <1>1 DEF ToSet
<1> HIDE DEF c, n, m
<1>4. ASSUME NEW i \in DOMAIN c
      PROVE  \/ i \in 1..n /\ c[i] = a[i]
             \/ \E k \in 1..m : i = n + k /\ c[i] = b[k]
  <2>1. CASE i <= n
    BY <1>1, <2>1
  <2>2. CASE i > n
    <3>1. i - n \in 1..m /\ i = n + (i - n)
      BY <1>1, <2>2
    <3>2. QED
      BY <1>1, <3>1
  <2>3. QED
    BY <1>1, <2>1, <2>2
<1>5. ASSUME NEW i \in DOMAIN c, NEW j \in DOMAIN c, c[i] = c[j]
      PROVE  i = j
  <2>1. CASE i \in 1..n /\ c[i] = a[i]
    BY <1>2, <1>3, <1>4, <1>5, <2>1
  <2>2. CASE \E k \in 1..m : i = n + k /\ c[i] = b[k]
    <3>1. PICK k \in 1..m : i = n + k /\ c[i] = b[k]
      BY <2>2
    <3>2. ~(j \in 1..n /\ c[j] = a[j])
      BY <1>3, <1>5, <3>1
    <3>3. PICK l \in 1..m : j = n + l /\ c[j] = b[l]
      BY <1>4, <3>2
    <3>4. QED
      BY <1>2, <1>5, <3>1, <3>3
  <2>3. QED
    BY <1>4, <2>1, <2>2
<1>6. QED
  BY <1>5 DEF NoRepeats, c

\* One more element.
LEMMA Appended ==
  ASSUME NEW a, SequenceOK(a), NEW x
  PROVE  /\ Append(a, x) = a \o <<x>> /\ SequenceOK(Append(a, x))
         /\ ToSet(Append(a, x)) = ToSet(a) \cup {x}
         /\ Distinct(a) /\ x.name \notin Names(a) => Distinct(Append(a, x))
<1>1. Append(a, x) = a \o <<x>>
  <2>1. Len(a) \in Nat /\ a = [i \in 1..Len(a) |-> a[i]]
    BY ListIs
  <2>2. QED
    BY <2>1 DEF SequenceOK
<1>2. SequenceOK(<<x>>) /\ ToSet(<<x>>) = {x} /\ Names(<<x>>) = {x.name} /\ Distinct(<<x>>)
  BY DEF SequenceOK, ToSet, Names, Distinct
<1>3. QED
  BY <1>1, <1>2, Joined, DistinctJoined

LEMMA AppendedIs ==
  ASSUME NEW a, SequenceOK(a), NEW x
  PROVE  LET n == Len(a)
             b == Append(a, x)
         IN  /\ n \in Nat /\ Len(b) = n + 1 /\ DOMAIN b = 1..(n + 1)
             /\ b = [i \in 1..(n + 1) |-> b[i]]
             /\ b[n + 1] = x
             /\ \A i \in 1..n : b[i] = a[i]
<1> DEFINE n == Len(a)
           b == Append(a, x)
           S == ToSet(a) \cup {x}
<1>1. a \in Seq(S) /\ x \in S
  <2>1. a \in Seq(ToSet(a)) /\ ToSet(a) \subseteq S
    BY DEF SequenceOK
  <2>2. QED
    BY <2>1, SeqMonotonic
<1> HIDE DEF S
<1>2. /\ b \in Seq(S) /\ n \in Nat /\ Len(b) = n + 1 /\ b[n + 1] = x
      /\ \A i \in 1..n : b[i] = a[i]
  BY <1>1
<1> HIDE DEF b, n
<1>3. DOMAIN b = 1..(n + 1) /\ b = [i \in 1..(n + 1) |-> b[i]]
  BY <1>2
<1>4. QED
  BY <1>2, <1>3 DEF b, n

LEMMA EmptyList ==
  SequenceOK(<<>>) /\ ToSet(<<>>) = {} /\ Names(<<>>) = {} /\ Distinct(<<>>) /\ Len(<<>>) = 0
  BY DEF SequenceOK, ToSet, Names, Distinct

\* A list of as many elements, and of the same names.
LEMMA Mapped ==
  ASSUME NEW list, SequenceOK(list), NEW g, g = [i \in DOMAIN list |-> g[i]]
  PROVE  /\ SequenceOK(g) /\ DOMAIN g = DOMAIN list
         /\ (\A i \in DOMAIN list : g[i].name = list[i].name)
            => Names(g) = Names(list) /\ (Distinct(list) => Distinct(g))
<1>1. Len(list) \in Nat /\ DOMAIN list = 1..Len(list)
  BY ListIs
<1>2. g = [i \in 1..Len(list) |-> g[i]]
  BY <1>1, Zenon
<1>3. SequenceOK(g) /\ DOMAIN g = DOMAIN list
  BY <1>1, <1>2, IsList
<1>4. QED
  BY <1>3 DEF Names, Distinct

LEMMA OneOf ==
  ASSUME NEW x
  PROVE  SequenceOK(<<x>>) /\ ToSet(<<x>>) = {x} /\ Names(<<x>>) = {x.name} /\ Distinct(<<x>>)
  BY DEF SequenceOK, ToSet, Names, Distinct

LEMMA TwoOf ==
  ASSUME NEW x, NEW y, x.name # y.name
  PROVE  /\ SequenceOK(<<x, y>>) /\ ToSet(<<x, y>>) = {x, y}
         /\ Names(<<x, y>>) = {x.name, y.name} /\ Distinct(<<x, y>>)
<1>1. <<x, y>> = Append(<<x>>, y)
  OBVIOUS
<1>2. SequenceOK(<<x>>) /\ ToSet(<<x>>) = {x} /\ Names(<<x>>) = {x.name} /\ Distinct(<<x>>)
  BY OneOf
<1>3. y.name \notin Names(<<x>>)
  BY <1>2
<1>4. /\ SequenceOK(Append(<<x>>, y)) /\ ToSet(Append(<<x>>, y)) = {x} \cup {y}
      /\ Distinct(Append(<<x>>, y))
  BY <1>2, <1>3, Appended
<1>5. ToSet(<<x, y>>) = {x, y}
  BY <1>1, <1>4
<1>6. QED
  BY <1>1, <1>4, <1>5, NamesAre

-----------------------------------------------------------------------------
(* What is chosen from a list.                                             *)

\* Induction over the naturals, stated of a set.
LEMMA NatSetInduction ==
  ASSUME NEW S \in SUBSET Nat, 0 \in S, \A n \in S : n + 1 \in S
  PROVE  S = Nat
<1> SUFFICES ASSUME Nat \ S # {} PROVE FALSE
  OBVIOUS
<1> DEFINE R == OpToRel(<, Nat)
<1>1. \A a, b \in Nat : a < b => <<a, b>> \in R
  BY DEF OpToRel
<1>2. IsWellFoundedOn(R, Nat)
  BY NatLessThanWellFounded
<1> HIDE DEF R
<1>3. PICK x \in Nat \ S : \A y \in Nat \ S : ~(<<y, x>> \in R)
  <2>1. Nat \ S \subseteq Nat
    OBVIOUS
  <2>2. QED
    BY <1>2, <2>1, WFMin
<1>4. x - 1 \in Nat /\ x - 1 < x /\ x = (x - 1) + 1
  OBVIOUS
<1>5. x - 1 \in S
  BY <1>1, <1>3, <1>4
<1>6. QED
  BY <1>4, <1>5

\* g[n] is what is chosen from the first n elements of list.
Choice(g, list, places, m) ==
  g = [n \in 0..m |->
         IF n = 0 THEN <<>>
         ELSE IF n \in places THEN Append(g[n - 1], list[n]) ELSE g[n - 1]]

LEMMA ChoiceSteps ==
  ASSUME NEW m \in Nat, NEW list, NEW places, NEW g, Choice(g, list, places, m)
  PROVE  /\ DOMAIN g = 0..m /\ g[0] = <<>>
         /\ \A n \in 0..(m - 1) :
              g[n + 1] = IF n + 1 \in places THEN Append(g[n], list[n + 1]) ELSE g[n]
<1>1. DOMAIN g = 0..m
  BY DEF Choice
<1>2. \A n \in 0..m :
        g[n] = IF n = 0 THEN <<>>
               ELSE IF n \in places THEN Append(g[n - 1], list[n]) ELSE g[n - 1]
  BY DEF Choice
<1>3. g[0] = <<>>
  <2>1. 0 \in 0..m
    OBVIOUS
  <2>2. QED
    BY <1>2, <2>1
<1>4. ASSUME NEW n \in 0..(m - 1)
      PROVE  g[n + 1] = IF n + 1 \in places THEN Append(g[n], list[n + 1]) ELSE g[n]
  <2>1. n + 1 \in 0..m /\ n + 1 # 0 /\ (n + 1) - 1 = n
    OBVIOUS
  <2>2. QED
    BY <1>2, <2>1
<1>5. QED
  BY <1>1, <1>3, <1>4

LEMMA ChoiceFrom ==
  ASSUME NEW m \in Nat, NEW list, NEW places, NEW g,
         DOMAIN g = 0..m, g = [n \in 0..m |-> g[n]], g[0] = <<>>,
         \A n \in 0..(m - 1) :
           g[n + 1] = IF n + 1 \in places THEN Append(g[n], list[n + 1]) ELSE g[n]
  PROVE  Choice(g, list, places, m)
<1>1. ASSUME NEW n \in 0..m
      PROVE  g[n] = IF n = 0 THEN <<>>
                    ELSE IF n \in places THEN Append(g[n - 1], list[n]) ELSE g[n - 1]
  <2>1. CASE n = 0
    BY <2>1
  <2>2. CASE n # 0
    <3>1. n - 1 \in 0..(m - 1) /\ (n - 1) + 1 = n
      BY <2>2
    <3>2. QED
      BY <2>2, <3>1
  <2>3. QED
    BY <2>1, <2>2
<1>2. QED
  BY <1>1 DEF Choice

LEMMA ChoiceExists ==
  ASSUME NEW list, NEW places
  PROVE  \A m \in Nat : \E g : Choice(g, list, places, m)
<1> DEFINE S == {m \in Nat : \E g : Choice(g, list, places, m)}
<1>1. 0 \in S
  <2> DEFINE g == [n \in 0..0 |-> <<>>]
  <2>1. Choice(g, list, places, 0)
    BY ChoiceFrom
  <2>2. QED
    BY <2>1
<1>2. ASSUME NEW m \in S PROVE m + 1 \in S
  <2>1. m \in Nat /\ m + 1 \in Nat
    OBVIOUS
  <2>2. PICK g : Choice(g, list, places, m)
    OBVIOUS
  <2>3. /\ DOMAIN g = 0..m /\ g[0] = <<>>
        /\ \A n \in 0..(m - 1) :
             g[n + 1] = IF n + 1 \in places THEN Append(g[n], list[n + 1]) ELSE g[n]
    BY <2>1, <2>2, ChoiceSteps
  <2> DEFINE last == IF m + 1 \in places THEN Append(g[m], list[m + 1]) ELSE g[m]
             h == [n \in 0..(m + 1) |-> IF n = m + 1 THEN last ELSE g[n]]
  <2>4. DOMAIN h = 0..(m + 1) /\ h[m + 1] = last /\ \A n \in 0..m : h[n] = g[n]
    <3> HIDE DEF last
    <3>1. QED
      BY <2>1
  <2>5. h = [n \in 0..(m + 1) |-> h[n]]
    <3> HIDE DEF last
    <3>1. QED
      BY <2>1
  <2> HIDE DEF h
  <2>6. h[0] = <<>>
    BY <2>1, <2>3, <2>4
  <2>7. ASSUME NEW n \in 0..((m + 1) - 1)
        PROVE  h[n + 1] = IF n + 1 \in places THEN Append(h[n], list[n + 1]) ELSE h[n]
    <3>1. CASE n = m
      <4>1. h[n] = g[n] /\ h[n + 1] = last
        BY <2>1, <2>4, <3>1
      <4>2. QED
        BY <3>1, <4>1
    <3>2. CASE n # m
      <4>1. n \in 0..(m - 1) /\ n \in 0..m /\ n + 1 \in 0..m
        BY <2>1, <3>2
      <4>2. h[n] = g[n] /\ h[n + 1] = g[n + 1]
        BY <2>4, <4>1
      <4>3. QED
        BY <2>3, <4>1, <4>2
    <3>3. QED
      BY <3>1, <3>2
  <2>8. Choice(h, list, places, m + 1)
    BY <2>1, <2>4, <2>5, <2>6, <2>7, ChoiceFrom
  <2>9. QED
    BY <2>1, <2>8
<1> HIDE DEF S
<1>3. S = Nat
  <2>1. S \in SUBSET Nat
    BY DEF S
  <2>2. QED
    BY <1>1, <1>2, <2>1, NatSetInduction
<1>4. QED
  BY <1>3 DEF S

LEMMA ChosenIs ==
  ASSUME NEW list, NEW places, Len(list) \in Nat
  PROVE  \E g : Choice(g, list, places, Len(list)) /\ Chosen(list, places) = g[Len(list)]
<1> DEFINE g == CHOOSE h : Choice(h, list, places, Len(list))
<1>1. \E h : Choice(h, list, places, Len(list))
  BY ChoiceExists
<1>2. Choice(g, list, places, Len(list))
  BY <1>1, Zenon
<1>3. Chosen(list, places) = g[Len(list)]
  BY DEF Chosen, Choice
<1>4. QED
  BY <1>2, <1>3

\* What has been chosen of the first n.
LEMMA ChosenSoFar ==
  ASSUME NEW list, SequenceOK(list), NEW places, NEW g, Choice(g, list, places, Len(list))
  PROVE  \A n \in 0..Len(list) :
           /\ SequenceOK(g[n])
           /\ \A x : x \in ToSet(g[n]) <=> \E p \in places : p \in 1..n /\ list[p] = x
           /\ Distinct(list) => Distinct(g[n])
<1> DEFINE m == Len(list)
           P(n) == /\ SequenceOK(g[n])
                   /\ \A x : x \in ToSet(g[n]) <=> \E p \in places : p \in 1..n /\ list[p] = x
                   /\ Distinct(list) => Distinct(g[n])
           S == {n \in Nat : n <= m => P(n)}
<1>1. m \in Nat /\ DOMAIN list = 1..m
  BY ListIs
<1>2. /\ g[0] = <<>>
      /\ \A n \in 0..(m - 1) :
           g[n + 1] = IF n + 1 \in places THEN Append(g[n], list[n + 1]) ELSE g[n]
  BY <1>1, ChoiceSteps
<1>3. 0 \in S
  <2>1. \A p : p \notin 1..0
    OBVIOUS
  <2>2. P(0)
    BY <1>2, <2>1, EmptyList
  <2>3. QED
    BY <2>2
<1>4. ASSUME NEW n \in S PROVE n + 1 \in S
  <2>0. n \in Nat /\ n + 1 \in Nat
    OBVIOUS
  <2>1. SUFFICES ASSUME n + 1 <= m PROVE P(n + 1)
    BY <2>0
  <2>2. n \in 0..(m - 1) /\ n + 1 \in 1..m
    BY <1>1, <2>0, <2>1
  <2>3. P(n)
    BY <2>0, <2>2
  <2>4. \A p : p \in 1..(n + 1) <=> p \in 1..n \/ p = n + 1
    BY <2>0
  <2>5. CASE n + 1 \in places
    <3> DEFINE x == list[n + 1]
    <3>1. g[n + 1] = Append(g[n], x)
      BY <1>2, <2>2, <2>5
    <3>2. /\ SequenceOK(g[n + 1]) /\ ToSet(g[n + 1]) = ToSet(g[n]) \cup {x}
          /\ Distinct(g[n]) /\ x.name \notin Names(g[n]) => Distinct(g[n + 1])
      <4>1. SequenceOK(g[n])
        BY <2>3
      <4>2. /\ SequenceOK(Append(g[n], x))
            /\ ToSet(Append(g[n], x)) = ToSet(g[n]) \cup {x}
            /\ Distinct(g[n]) /\ x.name \notin Names(g[n]) => Distinct(Append(g[n], x))
        <5> HIDE DEF x
        <5>1. QED
          BY <4>1, Appended
      <4>3. QED
        BY <3>1, <4>2, Zenon
    <3>3. ASSUME Distinct(list) PROVE x.name \notin Names(g[n])
      <4>1. SUFFICES ASSUME x.name \in Names(g[n]) PROVE FALSE
        OBVIOUS
      <4>2. PICK a \in ToSet(g[n]) : a.name = x.name
        BY <4>1, NamesAre
      <4>3. PICK p \in places : p \in 1..n /\ list[p] = a
        BY <2>3
      <4>4. p \in DOMAIN list /\ n + 1 \in DOMAIN list /\ p # n + 1
        BY <1>1, <2>0, <2>2, <4>3
      <4>5. QED
        BY <3>3, <4>2, <4>3, <4>4 DEF Distinct
    <3>4. \A y : y \in ToSet(g[n + 1]) <=> \E p \in places : p \in 1..(n + 1) /\ list[p] = y
      BY <2>3, <2>4, <2>5, <3>2
    <3>5. QED
      BY <2>3, <3>2, <3>3, <3>4
  <2>6. CASE n + 1 \notin places
    <3>1. g[n + 1] = g[n]
      BY <1>2, <2>2, <2>6
    <3>2. QED
      BY <2>3, <2>4, <2>6, <3>1
  <2>7. QED
    BY <2>5, <2>6
<1> HIDE DEF S
<1>5. S = Nat
  <2>1. S \in SUBSET Nat
    BY DEF S
  <2>2. QED
    BY <1>3, <1>4, <2>1, NatSetInduction
<1>6. QED
  BY <1>1, <1>5 DEF S

\* What is chosen is the elements at these places, and none is chosen twice.
LEMMA Picked ==
  ASSUME NEW list, SequenceOK(list), NEW places, places \subseteq DOMAIN list
  PROVE  /\ SequenceOK(Chosen(list, places))
         /\ ToSet(Chosen(list, places)) = {list[p] : p \in places}
         /\ Distinct(list) => Distinct(Chosen(list, places))
<1>1. Len(list) \in Nat /\ DOMAIN list = 1..Len(list) /\ Len(list) \in 0..Len(list)
  BY ListIs
<1>2. PICK g : Choice(g, list, places, Len(list)) /\ Chosen(list, places) = g[Len(list)]
  BY <1>1, ChosenIs
<1>3. /\ SequenceOK(g[Len(list)])
      /\ \A x : x \in ToSet(g[Len(list)]) <=> \E p \in places : p \in 1..Len(list) /\ list[p] = x
      /\ Distinct(list) => Distinct(g[Len(list)])
  BY <1>1, <1>2, ChosenSoFar
<1>4. \A x : x \in ToSet(Chosen(list, places)) <=> x \in {list[p] : p \in places}
  BY <1>1, <1>2, <1>3
<1>5. QED
  BY <1>2, <1>3, <1>4

-----------------------------------------------------------------------------
(* What Save adds.                                                         *)

\* Names a File has a field for, or that netCDF keeps to itself.
NotOurs == GlobalFields \cup NetCDF

\* The lists there are in the rules.
GlobalLists ==
  { <<>>, <<"DatabaseName">>, <<"DatabaseName", "ListenerShortName">>,
    <<"DatabaseName", "SourceType", "SourceManufacturer">>, <<"RoomDescription", "DatabaseName">>,
    <<"DatabaseName", "ListenerShortName", "ReceiverDescription", "EmitterDescription">> }
VariableLists == { <<>>, SourceOrientation("+x"), SourceOrientation("-x") }

LEMMA RulesAre ==
  ASSUME NEW c
  PROVE  RulesFor(c).globals \in GlobalLists /\ RulesFor(c).variables \in VariableLists
  BY DEF RulesFor, NoRules, SimpleFreeField, GlobalLists, VariableLists

\* Mandatory attributes are none of go-sofa's own, and none is listed twice.
LEMMA GlobalListsFit ==
  ASSUME NEW l \in GlobalLists
  PROVE  /\ \E n \in Nat : DOMAIN l = 1..n
         /\ \A i, j \in DOMAIN l : l[i] = l[j] => i = j
         /\ \A i \in DOMAIN l : l[i] \notin NotOurs
<1>1. CASE l = <<>>
  BY <1>1
<1>2. CASE l = <<"DatabaseName">>
  BY <1>2 DEF NotOurs, GlobalFields, NetCDF
<1>3. CASE l = <<"DatabaseName", "ListenerShortName">>
  BY <1>3 DEF NotOurs, GlobalFields, NetCDF
<1>4. CASE l = <<"DatabaseName", "SourceType", "SourceManufacturer">>
  BY <1>4 DEF NotOurs, GlobalFields, NetCDF
<1>5. CASE l = <<"RoomDescription", "DatabaseName">>
  BY <1>5 DEF NotOurs, GlobalFields, NetCDF
<1>6. CASE l = <<"DatabaseName", "ListenerShortName", "ReceiverDescription", "EmitterDescription">>
  BY <1>6 DEF NotOurs, GlobalFields, NetCDF
<1>7. QED
  BY <1>1, <1>2, <1>3, <1>4, <1>5, <1>6 DEF GlobalLists

\* Nor is one added that is there already.
LEMMA MissingGlobalsFit ==
  ASSUME NEW f
  PROVE  /\ SequenceOK(MissingGlobals(f)) /\ Distinct(MissingGlobals(f))
         /\ Names(MissingGlobals(f)) \cap (NotOurs \cup Names(f.attributes)) = {}
         /\ \A a \in ToSet(MissingGlobals(f)) : a = Attribute(a.name, <<>>)
<1> DEFINE l == RulesFor(f.convention).globals
           all == [i \in DOMAIN l |-> Attribute(l[i], <<>>)]
           absent == {i \in DOMAIN all : all[i].name \notin Names(f.attributes)}
<1>1. MissingGlobals(f) = Chosen(all, absent)
  BY DEF MissingGlobals, Filtered
<1>2. /\ \E n \in Nat : DOMAIN l = 1..n
      /\ \A i, j \in DOMAIN l : l[i] = l[j] => i = j
      /\ \A i \in DOMAIN l : l[i] \notin NotOurs
  BY RulesAre, GlobalListsFit
<1> HIDE DEF l
<1>3. PICK n \in Nat : DOMAIN l = 1..n
  BY <1>2
<1>4. DOMAIN all = 1..n /\ all = [i \in 1..n |-> all[i]]
      /\ \A i \in 1..n : all[i] = Attribute(l[i], <<>>) /\ all[i].name = l[i]
  BY <1>3 DEF Attribute
<1> HIDE DEF all
<1>5. SequenceOK(all) /\ Distinct(all) /\ absent \subseteq DOMAIN all
  BY <1>2, <1>3, <1>4, IsList DEF Distinct
<1>6. /\ SequenceOK(MissingGlobals(f)) /\ Distinct(MissingGlobals(f))
      /\ ToSet(MissingGlobals(f)) = {all[p] : p \in absent}
  BY <1>1, <1>5, Picked
<1>7. ASSUME NEW a \in ToSet(MissingGlobals(f))
      PROVE  a = Attribute(a.name, <<>>) /\ a.name \notin NotOurs \cup Names(f.attributes)
  <2>1. PICK p \in absent : a = all[p]
    BY <1>6
  <2>2. QED
    BY <1>2, <1>3, <1>4, <2>1
<1>8. QED
  BY <1>6, <1>7, NamesAre

\* A default variable.
DefaultOK(v) ==
  /\ v.name \in {"SourceView", "SourceUp"} /\ v.dims = <<"I", "C">> /\ v.shape = <<1, 3>>
  /\ SequenceOK(v.attrs) /\ Distinct(v.attrs) /\ Names(v.attrs) \subseteq {"Type", "Units"}
  /\ v.form = "numeric"
  /\ v = Variable(v.name, v.dims, v.shape, v.form, v.data, v.attrs)

LEMMA DefaultsFit ==
  ASSUME NEW view
  PROVE  /\ SequenceOK(SourceOrientation(view)) /\ Distinct(SourceOrientation(view))
         /\ \A v \in ToSet(SourceOrientation(view)) : DefaultOK(v)
<1> DEFINE s == SourceOrientation(view)
<1>1. s = <<s[1], s[2]>> /\ DOMAIN s = 1..2
  BY DEF SourceOrientation
<1>2. s[1].name = "SourceView" /\ s[2].name = "SourceUp"
  BY DEF SourceOrientation, Variable
<1>3. DefaultOK(s[1])
  <2> DEFINE attrs == << Attribute("Type", <<"cartesian">>), Attribute("Units", <<"metre">>) >>
  <2>1. SequenceOK(attrs) /\ Distinct(attrs) /\ Names(attrs) \subseteq {"Type", "Units"}
    BY TwoOf DEF Attribute
  <2> HIDE DEF attrs
  <2>2. s[1] = Variable("SourceView", <<"I", "C">>, <<1, 3>>, "numeric", <<view>>, attrs)
    BY DEF SourceOrientation, attrs
  <2>3. QED
    BY <2>1, <2>2 DEF DefaultOK, Variable
<1>4. DefaultOK(s[2])
  <2>1. s[2] = Variable("SourceUp", <<"I", "C">>, <<1, 3>>, "numeric", <<"+z">>, <<>>)
    BY DEF SourceOrientation
  <2>2. QED
    BY <2>1, EmptyList DEF DefaultOK, Variable
<1> HIDE DEF s
<1>5. SequenceOK(s) /\ Distinct(s)
  BY <1>1, <1>2, TwoOf
<1>6. \A v \in ToSet(s) : DefaultOK(v)
  BY <1>1, <1>3, <1>4 DEF ToSet
<1>7. QED
  BY <1>5, <1>6 DEF s

\* What is missing is none of the File's own.
LEMMA MissingVariablesFit ==
  ASSUME NEW f
  PROVE  /\ SequenceOK(MissingVariables(f)) /\ Distinct(MissingVariables(f))
         /\ Names(MissingVariables(f)) \cap Names(f.variables) = {}
         /\ Names(MissingVariables(f)) \subseteq {"SourceView", "SourceUp"}
         /\ \A v \in ToSet(MissingVariables(f)) : DefaultOK(v)
<1> DEFINE l == RulesFor(f.convention).variables
           absent == {i \in DOMAIN l : l[i].name \notin Names(f.variables)}
<1>1. MissingVariables(f) = Chosen(l, absent)
  BY DEF MissingVariables, Filtered
<1>2. SequenceOK(l) /\ Distinct(l) /\ \A v \in ToSet(l) : DefaultOK(v)
  BY RulesAre, DefaultsFit, EmptyList DEF VariableLists
<1> HIDE DEF l
<1>3. /\ SequenceOK(MissingVariables(f)) /\ Distinct(MissingVariables(f))
      /\ ToSet(MissingVariables(f)) = {l[p] : p \in absent}
  BY <1>1, <1>2, Picked
<1>4. ASSUME NEW v \in ToSet(MissingVariables(f))
      PROVE  DefaultOK(v) /\ v.name \notin Names(f.variables)
  BY <1>2, <1>3 DEF ToSet
<1>5. QED
  BY <1>3, <1>4, NamesAre DEF DefaultOK

-----------------------------------------------------------------------------
(* What is found by its name.                                              *)

LEMMA ValueIn ==
  ASSUME NEW list, Distinct(list), NEW a \in ToSet(list)
  PROVE  ValueOf(list, a.name) = a.value
<1>1. PICK k \in DOMAIN list : list[k] = a
  BY DEF ToSet
<1>2. a.name \in Names(list)
  BY <1>1 DEF Names
<1> DEFINE i == CHOOSE i \in DOMAIN list : list[i].name = a.name
<1>3. i \in DOMAIN list /\ list[i].name = a.name
  BY <1>1
<1>4. i = k
  BY <1>1, <1>3 DEF Distinct
<1>5. ValueOf(list, a.name) = list[i].value
  BY <1>2 DEF ValueOf
<1>6. QED
  BY <1>1, <1>4, <1>5

LEMMA NoValue ==
  ASSUME NEW list, NEW name, name \notin Names(list)
  PROVE  ValueOf(list, name) = <<>>
  BY DEF ValueOf

LEMMA DatasetIn ==
  ASSUME NEW d, Distinct(d.datasets), NEW v \in ToSet(d.datasets)
  PROVE  HasDataset(d, v.name) /\ DatasetOf(d, v.name) = v
<1>1. PICK k \in DOMAIN d.datasets : d.datasets[k] = v
  BY DEF ToSet
<1>2. HasDataset(d, v.name)
  BY <1>1 DEF HasDataset, Names
<1> DEFINE i == CHOOSE i \in DOMAIN d.datasets : d.datasets[i].name = v.name
<1>3. i \in DOMAIN d.datasets /\ d.datasets[i].name = v.name
  BY <1>1
<1>4. i = k
  BY <1>1, <1>3 DEF Distinct
<1>5. QED
  BY <1>1, <1>2, <1>4 DEF DatasetOf

LEMMA HadDataset ==
  ASSUME NEW d, NEW name, HasDataset(d, name)
  PROVE  DatasetOf(d, name) \in ToSet(d.datasets) /\ DatasetOf(d, name).name = name
<1>1. \E i \in DOMAIN d.datasets : d.datasets[i].name = name
  BY DEF HasDataset, Names
<1>2. QED
  BY <1>1 DEF DatasetOf, ToSet

-----------------------------------------------------------------------------
(* The root attributes Save writes.                                        *)

\* Those that are always there.
FixedRoot(f, version, now) ==
  << Attribute("Conventions", <<"SOFA">>),
     Attribute("Version", <<f.version>>),
     Attribute("SOFAConventions", <<f.convention>>),
     Attribute("SOFAConventionsVersion", <<f.conventionVersion>>),
     Attribute("DataType", <<f.dataType>>),
     Attribute("DateCreated", IF f.created = <<>> THEN now ELSE f.created),
     Attribute("DateModified", now),
     Attribute("APIName", <<"go-sofa">>),
     Attribute("APIVersion", <<version>>),
     Attribute("RoomType", SavedRoomType(f)) >>

Optional(name, value) == IF value = <<>> THEN <<>> ELSE << Attribute(name, value) >>

FixedNames ==
  {"Conventions", "Version", "SOFAConventions", "SOFAConventionsVersion", "DataType",
   "DateCreated", "DateModified", "APIName", "APIVersion", "RoomType"}

LEMMA FixedRootIs ==
  ASSUME NEW f, NEW version, NEW now
  PROVE  /\ SequenceOK(FixedRoot(f, version, now)) /\ Distinct(FixedRoot(f, version, now))
         /\ Names(FixedRoot(f, version, now)) = FixedNames
         /\ ToSet(FixedRoot(f, version, now)) =
              { Attribute("Conventions", <<"SOFA">>),
                Attribute("Version", <<f.version>>),
                Attribute("SOFAConventions", <<f.convention>>),
                Attribute("SOFAConventionsVersion", <<f.conventionVersion>>),
                Attribute("DataType", <<f.dataType>>),
                Attribute("DateCreated", IF f.created = <<>> THEN now ELSE f.created),
                Attribute("DateModified", now),
                Attribute("APIName", <<"go-sofa">>),
                Attribute("APIVersion", <<version>>),
                Attribute("RoomType", SavedRoomType(f)) }
<1> DEFINE s == FixedRoot(f, version, now)
<1>1. /\ s = [i \in 1..10 |-> s[i]]
      /\ s[1] = Attribute("Conventions", <<"SOFA">>)
      /\ s[2] = Attribute("Version", <<f.version>>)
      /\ s[3] = Attribute("SOFAConventions", <<f.convention>>)
      /\ s[4] = Attribute("SOFAConventionsVersion", <<f.conventionVersion>>)
      /\ s[5] = Attribute("DataType", <<f.dataType>>)
      /\ s[6] = Attribute("DateCreated", IF f.created = <<>> THEN now ELSE f.created)
      /\ s[7] = Attribute("DateModified", now)
      /\ s[8] = Attribute("APIName", <<"go-sofa">>)
      /\ s[9] = Attribute("APIVersion", <<version>>)
      /\ s[10] = Attribute("RoomType", SavedRoomType(f))
  BY DEF FixedRoot
<1> HIDE DEF s
<1>2. SequenceOK(s) /\ DOMAIN s = 1..10
  BY <1>1, IsList
<1>3. \A i \in 1..10 : i = 1 \/ i = 2 \/ i = 3 \/ i = 4 \/ i = 5 \/ i = 6 \/ i = 7 \/ i = 8
                        \/ i = 9 \/ i = 10
  OBVIOUS
<1>4. ToSet(s) = {s[1], s[2], s[3], s[4], s[5], s[6], s[7], s[8], s[9], s[10]}
  BY <1>2, <1>3 DEF ToSet
<1>5. /\ s[1].name = "Conventions" /\ s[2].name = "Version" /\ s[3].name = "SOFAConventions"
      /\ s[4].name = "SOFAConventionsVersion" /\ s[5].name = "DataType"
      /\ s[6].name = "DateCreated" /\ s[7].name = "DateModified" /\ s[8].name = "APIName"
      /\ s[9].name = "APIVersion" /\ s[10].name = "RoomType"
  BY <1>1 DEF Attribute
<1>6. Distinct(s)
  BY <1>2, <1>3, <1>5 DEF Distinct
<1>7. Names(s) = FixedNames
  BY <1>4, <1>5, NamesAre DEF FixedNames
<1>8. ToSet(s) =
              { Attribute("Conventions", <<"SOFA">>),
                Attribute("Version", <<f.version>>),
                Attribute("SOFAConventions", <<f.convention>>),
                Attribute("SOFAConventionsVersion", <<f.conventionVersion>>),
                Attribute("DataType", <<f.dataType>>),
                Attribute("DateCreated", IF f.created = <<>> THEN now ELSE f.created),
                Attribute("DateModified", now),
                Attribute("APIName", <<"go-sofa">>),
                Attribute("APIVersion", <<version>>),
                Attribute("RoomType", SavedRoomType(f)) }
  BY <1>1, <1>4, Zenon
<1>9. QED
  BY <1>2, <1>6, <1>7, <1>8 DEF s

LEMMA OptionalIs ==
  ASSUME NEW name, NEW value
  PROVE  /\ SequenceOK(Optional(name, value)) /\ Distinct(Optional(name, value))
         /\ Names(Optional(name, value)) \subseteq {name}
         /\ \A a \in ToSet(Optional(name, value)) : a = Attribute(name, value)
         /\ value # <<>> => Attribute(name, value) \in ToSet(Optional(name, value))
         /\ value = <<>> => Names(Optional(name, value)) = {}
<1>1. CASE value = <<>>
  BY <1>1, EmptyList DEF Optional
<1>2. CASE value # <<>>
  <2>1. Optional(name, value) = << Attribute(name, value) >>
    BY <1>2 DEF Optional
  <2>2. Attribute(name, value).name = name
    BY DEF Attribute
  <2>3. QED
    BY <1>2, <2>1, <2>2, OneOf
<1>3. QED
  BY <1>1, <1>2

\* The texts go-sofa has fields for.
TextNames == ToSet(Texts)

LEMMA TextsAre ==
  /\ DOMAIN Texts = 1..9 /\ \A i, j \in DOMAIN Texts : Texts[i] = Texts[j] => i = j
  /\ TextNames = {"Title", "AuthorContact", "Organization", "License", "ApplicationName",
                  "ApplicationVersion", "Comment", "References", "Origin"}
<1>1. DOMAIN Texts = 1..9
  BY DEF Texts
<1>2. \A i \in 1..9 : i = 1 \/ i = 2 \/ i = 3 \/ i = 4 \/ i = 5 \/ i = 6 \/ i = 7 \/ i = 8 \/ i = 9
  OBVIOUS
<1>3. /\ Texts[1] = "Title" /\ Texts[2] = "AuthorContact" /\ Texts[3] = "Organization"
      /\ Texts[4] = "License" /\ Texts[5] = "ApplicationName" /\ Texts[6] = "ApplicationVersion"
      /\ Texts[7] = "Comment" /\ Texts[8] = "References" /\ Texts[9] = "Origin"
  BY DEF Texts
<1>4. ToSet(Texts) = {Texts[1], Texts[2], Texts[3], Texts[4], Texts[5], Texts[6], Texts[7],
                      Texts[8], Texts[9]}
  BY <1>1, <1>2 DEF ToSet
<1>5. ToSet(Texts) = {"Title", "AuthorContact", "Organization", "License", "ApplicationName",
                      "ApplicationVersion", "Comment", "References", "Origin"}
  BY <1>3, <1>4, Zenon
<1>6. \A i, j \in 1..9 : Texts[i] = Texts[j] => i = j
  BY <1>2, <1>3
<1>7. QED
  BY <1>1, <1>5, <1>6 DEF TextNames

\* No other attribute has the name of a text.
LEMMA TextNamesNew ==
  /\ FixedNames \subseteq NotOurs /\ TextNames \subseteq NotOurs /\ TextNames \cap FixedNames = {}
  /\ "History" \in NotOurs \ (FixedNames \cup TextNames)
  /\ "RoomVolume" \in NotOurs \ (FixedNames \cup TextNames)
  /\ "RoomTemperature" \in NotOurs \ (FixedNames \cup TextNames)
  /\ "_NCProperties" \in NotOurs \ (FixedNames \cup TextNames)
  /\ GlobalFields = FixedNames \cup TextNames \cup {"History", "RoomVolume", "RoomTemperature"}
  BY TextsAre DEF FixedNames, NotOurs, GlobalFields, NetCDF

TextWritten(f, n) == n \in AlwaysWritten \/ SavedText(f, n) # <<>>

\* Each of them is written once, unless it is empty.
LEMMA SavedTextsAre ==
  ASSUME NEW f
  PROVE  /\ SequenceOK(SavedTexts(f)) /\ Distinct(SavedTexts(f))
         /\ Names(SavedTexts(f)) \subseteq TextNames
         /\ ToSet(SavedTexts(f)) =
              {Attribute(n, SavedText(f, n)) : n \in {m \in TextNames : TextWritten(f, m)}}
<1> DEFINE all == [i \in DOMAIN Texts |-> Attribute(Texts[i], SavedText(f, Texts[i]))]
           places == {i \in DOMAIN all : all[i].name \in AlwaysWritten \/ all[i].value # <<>>}
<1>1. SavedTexts(f) = Chosen(all, places)
  BY DEF SavedTexts, Filtered
<1>2. /\ DOMAIN Texts = 1..9 /\ TextNames = {Texts[i] : i \in 1..9}
      /\ \A i, j \in 1..9 : Texts[i] = Texts[j] => i = j
  BY TextsAre DEF TextNames, ToSet
<1>3. /\ DOMAIN all = 1..9 /\ all = [i \in 1..9 |-> all[i]]
      /\ \A i \in 1..9 : /\ all[i] = Attribute(Texts[i], SavedText(f, Texts[i]))
                         /\ all[i].name = Texts[i] /\ all[i].value = SavedText(f, Texts[i])
  BY <1>2 DEF Attribute
<1> HIDE DEF all
<1>4. SequenceOK(all) /\ Distinct(all) /\ places \subseteq DOMAIN all
  <2>1. SequenceOK(all)
    BY <1>3, IsList
  <2>2. Distinct(all)
    BY <1>2, <1>3 DEF Distinct
  <2>3. QED
    BY <2>1, <2>2
<1>5. /\ SequenceOK(SavedTexts(f)) /\ Distinct(SavedTexts(f))
      /\ ToSet(SavedTexts(f)) = {all[p] : p \in places}
  BY <1>1, <1>4, Picked
<1>6. \A i \in 1..9 : i \in places <=> TextWritten(f, Texts[i])
  BY <1>3 DEF TextWritten
<1>7. \A p \in places : p \in 1..9
  BY <1>3
<1> HIDE DEF places
<1>8. \A i \in 1..9 : Texts[i] \in TextNames
  BY <1>2
<1>9. \A n \in TextNames : \E i \in 1..9 : Texts[i] = n
  BY <1>2
<1>10. ASSUME NEW a
       PROVE  (\E p \in places : a = all[p])
              <=> \E n \in TextNames : TextWritten(f, n) /\ a = Attribute(n, SavedText(f, n))
  <2>1. ASSUME NEW p \in places, a = all[p]
        PROVE  \E n \in TextNames : TextWritten(f, n) /\ a = Attribute(n, SavedText(f, n))
    BY <1>3, <1>6, <1>7, <1>8, <2>1
  <2>2. ASSUME NEW n \in TextNames, TextWritten(f, n), a = Attribute(n, SavedText(f, n))
        PROVE  \E p \in places : a = all[p]
    BY <1>3, <1>6, <1>9, <2>2
  <2>3. QED
    BY <2>1, <2>2
<1>11. {all[p] : p \in places} =
         {Attribute(n, SavedText(f, n)) : n \in {m \in TextNames : TextWritten(f, m)}}
  BY <1>10, Zenon
<1>12. Names(SavedTexts(f)) \subseteq TextNames
  BY <1>3, <1>5, <1>7, <1>8, NamesAre
<1>13. QED
  BY <1>5, <1>11, <1>12

\* The root in its parts.
LEMMA SavedRootIs ==
  ASSUME NEW f, NEW version, NEW now
  PROVE  SavedRoot(f, version, now) =
           ((((FixedRoot(f, version, now) \o SavedTexts(f))
              \o Optional("History", SavedHistory(f, version)))
             \o f.attributes) \o MissingGlobals(f)) \o << Attribute("_NCProperties", <<version>>) >>
  BY DEF SavedRoot, FixedRoot, Optional

\* No root attribute is written twice.
LEMMA SavedRootFits ==
  ASSUME NEW f, NEW version, NEW now,
         SequenceOK(f.attributes), AttributesFit(f.attributes, GlobalFields \cup NetCDF)
  PROVE  /\ SequenceOK(SavedRoot(f, version, now)) /\ Distinct(SavedRoot(f, version, now))
         /\ ToSet(SavedRoot(f, version, now)) =
              ToSet(FixedRoot(f, version, now)) \cup ToSet(SavedTexts(f))
              \cup ToSet(Optional("History", SavedHistory(f, version)))
              \cup ToSet(f.attributes) \cup ToSet(MissingGlobals(f))
              \cup {Attribute("_NCProperties", <<version>>)}
<1> DEFINE a == FixedRoot(f, version, now)
           b == SavedTexts(f)
           c == Optional("History", SavedHistory(f, version))
           d == f.attributes
           e == MissingGlobals(f)
           g == << Attribute("_NCProperties", <<version>>) >>
<1>1. /\ SequenceOK(a) /\ SequenceOK(b) /\ SequenceOK(c) /\ SequenceOK(d) /\ SequenceOK(e)
      /\ Distinct(a) /\ Distinct(b) /\ Distinct(c) /\ Distinct(d) /\ Distinct(e)
  BY FixedRootIs, SavedTextsAre, OptionalIs, MissingGlobalsFit DEF AttributesFit
<1>2. /\ Names(a) = FixedNames /\ Names(b) \subseteq TextNames /\ Names(c) \subseteq {"History"}
      /\ Names(d) \cap NotOurs = {} /\ Names(e) \cap (NotOurs \cup Names(d)) = {}
  <2>1. Names(a) = FixedNames
    BY FixedRootIs
  <2>2. Names(b) \subseteq TextNames /\ Names(c) \subseteq {"History"}
    BY SavedTextsAre, OptionalIs
  <2>3. Names(d) \cap NotOurs = {}
    BY DEF AttributesFit, NotOurs
  <2>4. Names(e) \cap (NotOurs \cup Names(d)) = {}
    BY MissingGlobalsFit
  <2> HIDE DEF a, b, c, d, e
  <2>5. QED
    BY <2>1, <2>2, <2>3, <2>4
<1>3. SequenceOK(g) /\ Distinct(g) /\ ToSet(g) = {Attribute("_NCProperties", <<version>>)}
      /\ Names(g) = {"_NCProperties"}
  BY OneOf DEF Attribute
<1>4. SavedRoot(f, version, now) = ((((a \o b) \o c) \o d) \o e) \o g
  BY SavedRootIs
<1> HIDE DEF a, b, c, d, e, g
<1>5. /\ FixedNames \subseteq NotOurs /\ TextNames \subseteq NotOurs \ FixedNames
      /\ "History" \in NotOurs \ (FixedNames \cup TextNames)
      /\ "_NCProperties" \in NotOurs \ (FixedNames \cup TextNames \cup {"History"})
  BY TextNamesNew
<1>6. /\ SequenceOK(a \o b) /\ Names(a \o b) \subseteq FixedNames \cup TextNames
      /\ ToSet(a \o b) = ToSet(a) \cup ToSet(b) /\ Distinct(a \o b)
  <2>1. Names(a) \cap Names(b) = {}
    BY <1>2, <1>5
  <2>2. Names(a \o b) = Names(a) \cup Names(b)
    BY <1>1, NamesJoined
  <2>3. QED
    BY <1>1, <1>2, <2>1, <2>2, Joined, DistinctJoined
<1> DEFINE ab == a \o b
<1> HIDE DEF ab
<1>7. /\ SequenceOK(ab \o c) /\ Names(ab \o c) \subseteq FixedNames \cup TextNames \cup {"History"}
      /\ ToSet(ab \o c) = ToSet(ab) \cup ToSet(c) /\ Distinct(ab \o c)
  <2>1. SequenceOK(ab) /\ Distinct(ab) /\ Names(ab) \subseteq FixedNames \cup TextNames
    BY <1>6 DEF ab
  <2>2. Names(ab) \cap Names(c) = {}
    BY <1>2, <1>5, <2>1
  <2>3. Names(ab \o c) = Names(ab) \cup Names(c)
    BY <1>1, <2>1, NamesJoined
  <2>4. QED
    BY <1>1, <1>2, <2>1, <2>2, <2>3, Joined, DistinctJoined
<1> DEFINE abc == ab \o c
<1> HIDE DEF abc
<1>8. /\ SequenceOK(abc \o d)
      /\ Names(abc \o d) \subseteq FixedNames \cup TextNames \cup {"History"} \cup Names(d)
      /\ ToSet(abc \o d) = ToSet(abc) \cup ToSet(d) /\ Distinct(abc \o d)
  <2>1. SequenceOK(abc) /\ Distinct(abc) /\ Names(abc) \subseteq FixedNames \cup TextNames \cup {"History"}
    BY <1>7 DEF abc
  <2>2. Names(abc) \cap Names(d) = {}
    BY <1>2, <1>5, <2>1
  <2>3. Names(abc \o d) = Names(abc) \cup Names(d)
    BY <1>1, <2>1, NamesJoined
  <2>4. QED
    BY <1>1, <1>2, <2>1, <2>2, <2>3, Joined, DistinctJoined
<1> DEFINE abcd == abc \o d
<1> HIDE DEF abcd
<1>9. /\ SequenceOK(abcd \o e)
      /\ Names(abcd \o e) \subseteq FixedNames \cup TextNames \cup {"History"} \cup Names(d) \cup Names(e)
      /\ ToSet(abcd \o e) = ToSet(abcd) \cup ToSet(e) /\ Distinct(abcd \o e)
  <2>1. /\ SequenceOK(abcd) /\ Distinct(abcd)
        /\ Names(abcd) \subseteq FixedNames \cup TextNames \cup {"History"} \cup Names(d)
    BY <1>8 DEF abcd
  <2>2. Names(abcd) \cap Names(e) = {}
    BY <1>2, <1>5, <2>1
  <2>3. Names(abcd \o e) = Names(abcd) \cup Names(e)
    BY <1>1, <2>1, NamesJoined
  <2>4. QED
    BY <1>1, <1>2, <2>1, <2>2, <2>3, Joined, DistinctJoined
<1> DEFINE abcde == abcd \o e
<1> HIDE DEF abcde
<1>10. /\ SequenceOK(abcde \o g) /\ ToSet(abcde \o g) = ToSet(abcde) \cup ToSet(g)
       /\ Distinct(abcde \o g)
  <2>1. /\ SequenceOK(abcde) /\ Distinct(abcde)
        /\ Names(abcde) \subseteq FixedNames \cup TextNames \cup {"History"} \cup Names(d) \cup Names(e)
    BY <1>9 DEF abcde
  <2>2. Names(abcde) \cap Names(g) = {}
    BY <1>2, <1>3, <1>5, <2>1
  <2>3. QED
    BY <1>3, <2>1, <2>2, Joined, DistinctJoined
<1>11. SavedRoot(f, version, now) = abcde \o g
  BY <1>4 DEF ab, abc, abcd, abcde
<1>12. ToSet(abcde \o g) = ToSet(a) \cup ToSet(b) \cup ToSet(c) \cup ToSet(d) \cup ToSet(e) \cup ToSet(g)
  BY <1>6, <1>7, <1>8, <1>9, <1>10 DEF ab, abc, abcd, abcde
<1>13. QED
  BY <1>3, <1>10, <1>11, <1>12 DEF a, b, c, d, e

\* What is read of it.
ReadBack(r, f, version, now) ==
  /\ ValueOf(r, "Conventions") = <<"SOFA">>
  /\ ValueOf(r, "Version") = <<f.version>>
  /\ ValueOf(r, "SOFAConventions") = <<f.convention>>
  /\ ValueOf(r, "SOFAConventionsVersion") = <<f.conventionVersion>>
  /\ ValueOf(r, "DataType") = <<f.dataType>>
  /\ ValueOf(r, "DateCreated") = (IF f.created = <<>> THEN now ELSE f.created)
  /\ ValueOf(r, "APIName") = <<"go-sofa">>
  /\ ValueOf(r, "APIVersion") = <<version>>
  /\ ValueOf(r, "RoomType") = SavedRoomType(f)
  /\ \A n \in TextNames : ValueOf(r, n) = SavedText(f, n)
  /\ ValueOf(r, "History") = SavedHistory(f, version)
  /\ ValueOf(r, "RoomVolume") = <<>> /\ "RoomTemperature" \notin Names(r)

LEMMA SavedValues ==
  ASSUME NEW f, NEW version, NEW now,
         SequenceOK(f.attributes), AttributesFit(f.attributes, GlobalFields \cup NetCDF)
  PROVE  ReadBack(SavedRoot(f, version, now), f, version, now)
<1> DEFINE r == SavedRoot(f, version, now)
           fixed == FixedRoot(f, version, now)
           texts == SavedTexts(f)
           history == Optional("History", SavedHistory(f, version))
<1>1. /\ SequenceOK(r) /\ Distinct(r)
      /\ ToSet(r) = ToSet(fixed) \cup ToSet(texts) \cup ToSet(history)
                    \cup ToSet(f.attributes) \cup ToSet(MissingGlobals(f))
                    \cup {Attribute("_NCProperties", <<version>>)}
  BY SavedRootFits
<1> HIDE DEF r
<1>2. ASSUME NEW name, NEW value, Attribute(name, value) \in ToSet(r)
      PROVE  ValueOf(r, name) = value
  <2>1. Attribute(name, value).name = name /\ Attribute(name, value).value = value
    BY DEF Attribute
  <2>2. QED
    BY <1>1, <1>2, <2>1, ValueIn
<1>3. \A a \in ToSet(fixed) : a \in ToSet(r)
  BY <1>1
<1>4. /\ Attribute("Conventions", <<"SOFA">>) \in ToSet(r)
      /\ Attribute("Version", <<f.version>>) \in ToSet(r)
      /\ Attribute("SOFAConventions", <<f.convention>>) \in ToSet(r)
      /\ Attribute("SOFAConventionsVersion", <<f.conventionVersion>>) \in ToSet(r)
      /\ Attribute("DataType", <<f.dataType>>) \in ToSet(r)
      /\ Attribute("DateCreated", IF f.created = <<>> THEN now ELSE f.created) \in ToSet(r)
      /\ Attribute("APIName", <<"go-sofa">>) \in ToSet(r)
      /\ Attribute("APIVersion", <<version>>) \in ToSet(r)
      /\ Attribute("RoomType", SavedRoomType(f)) \in ToSet(r)
  <2>1. ToSet(fixed) =
              { Attribute("Conventions", <<"SOFA">>),
                Attribute("Version", <<f.version>>),
                Attribute("SOFAConventions", <<f.convention>>),
                Attribute("SOFAConventionsVersion", <<f.conventionVersion>>),
                Attribute("DataType", <<f.dataType>>),
                Attribute("DateCreated", IF f.created = <<>> THEN now ELSE f.created),
                Attribute("DateModified", now),
                Attribute("APIName", <<"go-sofa">>),
                Attribute("APIVersion", <<version>>),
                Attribute("RoomType", SavedRoomType(f)) }
    BY FixedRootIs
  <2> HIDE DEF fixed
  <2>2. QED
    BY <1>3, <2>1
<1>5. /\ \A a \in ToSet(f.attributes) : a.name \notin NotOurs
      /\ \A a \in ToSet(MissingGlobals(f)) : a.name \notin NotOurs
  <2>1. Names(f.attributes) \cap NotOurs = {} /\ Names(MissingGlobals(f)) \cap NotOurs = {}
    BY MissingGlobalsFit DEF AttributesFit, NotOurs
  <2>2. QED
    BY <2>1, NamesAre
<1>6. \A a \in ToSet(fixed) : a.name \in FixedNames
  <2>1. Names(fixed) = FixedNames
    BY FixedRootIs
  <2> HIDE DEF fixed
  <2>2. QED
    BY <2>1, NamesAre
<1>7. Attribute("_NCProperties", <<version>>).name = "_NCProperties"
  BY DEF Attribute
<1>8. /\ \A a \in ToSet(texts) : \E n \in TextNames : a.name = n /\ a = Attribute(n, SavedText(f, n))
      /\ \A n \in TextNames : SavedText(f, n) # <<>> => Attribute(n, SavedText(f, n)) \in ToSet(texts)
      /\ \A a \in ToSet(history) : a.name = "History" /\ a = Attribute("History", SavedHistory(f, version))
  <2>1. /\ ToSet(texts) = {Attribute(n, SavedText(f, n)) : n \in {m \in TextNames : TextWritten(f, m)}}
        /\ \A a \in ToSet(history) : a = Attribute("History", SavedHistory(f, version))
    BY SavedTextsAre, OptionalIs
  <2>2. \A n, v : Attribute(n, v).name = n
    BY DEF Attribute
  <2> HIDE DEF texts, history
  <2>3. QED
    BY <2>1, <2>2 DEF TextWritten
<1>9. /\ TextNames \subseteq NotOurs \ FixedNames
      /\ {"History", "RoomVolume", "RoomTemperature"} \subseteq NotOurs \ (FixedNames \cup TextNames)
      /\ "_NCProperties" \notin TextNames
  BY TextNamesNew
<1>10. ASSUME NEW n \in TextNames PROVE ValueOf(r, n) = SavedText(f, n)
  <2>0. n # "History" /\ n # "_NCProperties" /\ n \in NotOurs \ FixedNames
    BY <1>9
  <2>1. CASE Attribute(n, SavedText(f, n)) \in ToSet(texts)
    BY <1>1, <1>2, <2>1
  <2>2. CASE Attribute(n, SavedText(f, n)) \notin ToSet(texts)
    <3>1. \A a \in ToSet(texts) : a.name # n
      BY <1>8, <2>2
    <3> HIDE DEF texts, history, fixed
    <3>2. \A a \in ToSet(r) : a.name # n
      BY <1>1, <1>5, <1>6, <1>7, <1>8, <2>0, <3>1
    <3>3. ValueOf(r, n) = <<>>
      BY <3>2, NamesAre, NoValue
    <3>4. QED
      BY <1>8, <2>2, <3>3
  <2>3. QED
    BY <2>1, <2>2
<1>11. ValueOf(r, "History") = SavedHistory(f, version)
  <2>1. CASE SavedHistory(f, version) = <<>>
    <3>1. ToSet(history) = {}
      BY <2>1, EmptyList DEF Optional
    <3>2. \A a \in ToSet(r) : a.name # "History"
      BY <1>1, <1>5, <1>6, <1>7, <1>8, <1>9, <3>1
    <3>3. QED
      BY <2>1, <3>2, NamesAre, NoValue
  <2>2. CASE SavedHistory(f, version) # <<>>
    BY <1>1, <1>2, <2>2, OptionalIs
  <2>3. QED
    BY <2>1, <2>2
<1>12. ValueOf(r, "RoomVolume") = <<>> /\ "RoomTemperature" \notin Names(r)
  <2>1. \A a \in ToSet(r) : a.name # "RoomVolume" /\ a.name # "RoomTemperature"
    BY <1>1, <1>5, <1>6, <1>7, <1>8, <1>9
  <2>2. QED
    BY <2>1, NamesAre, NoValue
<1>13. QED
  BY <1>2, <1>4, <1>10, <1>11, <1>12 DEF r, ReadBack

-----------------------------------------------------------------------------
(* The attributes of what Save writes.                                     *)

\* What Save sets itself is among what validateExtras takes for written.
LEMMA WrittenOrMissingIs ==
  ASSUME NEW f
  PROVE  /\ DOMAIN WrittenOrMissing(f) = DOMAIN WrittenVariables(f) \cup Names(MissingVariables(f))
         /\ \A name \in DOMAIN WrittenVariables(f) :
              WrittenVariables(f)[name] \subseteq WrittenOrMissing(f)[name]
         /\ \A v \in ToSet(MissingVariables(f)) : Names(v.attrs) \subseteq WrittenOrMissing(f)[v.name]
<1> DEFINE missing == MissingVariables(f)
           written == WrittenVariables(f)
           w == WrittenOrMissing(f)
           part(name) == UNION {Names(v.attrs) : v \in {m \in ToSet(missing) : m.name = name}}
<1>1. w = [name \in DOMAIN written \cup Names(missing) |->
             (IF name \in DOMAIN written THEN written[name] ELSE {}) \cup part(name)]
  BY DEF WrittenOrMissing
<1> HIDE DEF missing, written, w
<1>2. \A v \in ToSet(missing) : v.name \in Names(missing) /\ Names(v.attrs) \subseteq part(v.name)
  BY NamesAre
<1> HIDE DEF part
<1>3. DOMAIN w = DOMAIN written \cup Names(missing)
  BY <1>1
<1>4. \A name \in DOMAIN written : written[name] \subseteq w[name]
  BY <1>1
<1>5. \A v \in ToSet(missing) : Names(v.attrs) \subseteq w[v.name]
  BY <1>1, <1>2
<1>6. QED
  BY <1>3, <1>4, <1>5 DEF missing, written, w

\* What a caller may add to the attributes of a variable Save writes.
LEMMA GivenFits ==
  ASSUME NEW f, FileOK(f), ExtrasFit(f), NEW name
  PROVE  /\ SequenceOK(Given(f, name)) /\ Distinct(Given(f, name))
         /\ Names(Given(f, name)) \cap Plumbing = {}
         /\ \A i \in DOMAIN Given(f, name) : Given(f, name)[i].value # Odd
         /\ name \in DOMAIN WrittenVariables(f) => Names(Given(f, name)) \cap WrittenVariables(f)[name] = {}
         /\ \A v \in ToSet(MissingVariables(f)) :
              v.name = name => Names(Given(f, name)) \cap Names(v.attrs) = {}
         /\ name \notin DOMAIN WrittenVariables(f) \cup Names(MissingVariables(f)) => Given(f, name) = <<>>
<1> DEFINE written == WrittenOrMissing(f)
           given == Given(f, name)
<1>1. CASE name \notin DOMAIN f.variableAttributes
  <2>1. given = <<>>
    BY <1>1 DEF Given
  <2>2. DOMAIN given = {}
    BY <2>1
  <2> HIDE DEF given
  <2>3. QED
    BY <2>1, <2>2, EmptyList DEF given
<1>2. CASE name \in DOMAIN f.variableAttributes
  <2>1. given = f.variableAttributes[name]
    BY <1>2 DEF Given
  <2>2. name \in DOMAIN written /\ AttributesFit(given, Plumbing \cup written[name])
    BY <1>2, <2>1 DEF ExtrasFit
  <2>3. SequenceOK(given)
    BY <1>2, <2>1 DEF FileOK
  <2> HIDE DEF given, written
  <2>4. /\ Distinct(given) /\ Names(given) \cap Plumbing = {} /\ Names(given) \cap written[name] = {}
        /\ \A i \in DOMAIN given : given[i].value # Odd
    BY <2>2 DEF AttributesFit
  <2>5. /\ DOMAIN written = DOMAIN WrittenVariables(f) \cup Names(MissingVariables(f))
        /\ \A n \in DOMAIN WrittenVariables(f) : WrittenVariables(f)[n] \subseteq written[n]
        /\ \A v \in ToSet(MissingVariables(f)) : Names(v.attrs) \subseteq written[v.name]
    BY WrittenOrMissingIs DEF written
  <2>6. QED
    BY <2>2, <2>3, <2>4, <2>5 DEF given
<1>3. QED
  BY <1>1, <1>2

LEMMA MandatoryFits ==
  ASSUME NEW f, NEW name, NEW attrs, SequenceOK(attrs)
  PROVE  /\ SequenceOK(WithMandatory(f, name, attrs))
         /\ Distinct(attrs) => Distinct(WithMandatory(f, name, attrs))
         /\ Names(attrs) \subseteq Names(WithMandatory(f, name, attrs))
         /\ Names(WithMandatory(f, name, attrs)) \subseteq Names(attrs) \cup {"Reference"}
         /\ ToSet(attrs) \subseteq ToSet(WithMandatory(f, name, attrs))
<1> DEFINE x == Attribute("Reference", <<>>)
           more == Append(attrs, x)
<1>1. x.name = "Reference"
  BY DEF Attribute
<1>2. /\ SequenceOK(more) /\ ToSet(more) = ToSet(attrs) \cup {x}
      /\ Distinct(attrs) /\ x.name \notin Names(attrs) => Distinct(more)
  <2> HIDE DEF x
  <2>1. QED
    BY Appended
<1>3. WithMandatory(f, name, attrs) = attrs \/
        ("Reference" \notin Names(attrs) /\ WithMandatory(f, name, attrs) = more)
  BY DEF WithMandatory
<1> HIDE DEF x, more
<1>4. Names(more) = Names(attrs) \cup {"Reference"}
  BY <1>1, <1>2, NamesAre
<1>5. QED
  BY <1>1, <1>2, <1>3, <1>4

\* What comes with the variables Save writes by name.
LEMMA SavedAttributesFit ==
  ASSUME NEW f, FileOK(f), ExtrasFit(f), NEW name
  PROVE  /\ SequenceOK(SavedAttributes(f, name)) /\ Distinct(SavedAttributes(f, name))
         /\ Names(SavedAttributes(f, name)) \cap Plumbing = {}
         /\ name \in DOMAIN WrittenVariables(f) =>
              Names(SavedAttributes(f, name)) \cap (WrittenVariables(f)[name] \ {"Reference"}) = {}
<1> DEFINE given == Given(f, name)
           saved == SavedAttributes(f, name)
<1>1. /\ SequenceOK(given) /\ Distinct(given) /\ Names(given) \cap Plumbing = {}
      /\ name \in DOMAIN WrittenVariables(f) => Names(given) \cap WrittenVariables(f)[name] = {}
  BY GivenFits
<1>2. saved = given \/ saved = WithMandatory(f, name, given)
  BY DEF SavedAttributes
<1> HIDE DEF given, saved
<1>3. SequenceOK(saved) /\ Distinct(saved) /\ Names(saved) \subseteq Names(given) \cup {"Reference"}
  BY <1>1, <1>2, MandatoryFits
<1>4. "Reference" \notin Plumbing
  BY DEF Plumbing
<1>5. QED
  BY <1>1, <1>3, <1>4 DEF saved

-----------------------------------------------------------------------------
(* The extra variables Save writes.                                        *)

\* A variable of the File's, or a default, with the attributes it gets.
Completed(f, v, attrs) == [v EXCEPT !.attrs = WithMandatory(f, v.name, attrs)]
OwnSaved(f, v) == Completed(f, v, v.attrs)
DefaultSaved(f, v) == Completed(f, v, v.attrs \o Given(f, v.name))

IsVariable(v) == v = Variable(v.name, v.dims, v.shape, v.form, v.data, v.attrs)

LEMMA CompletedIs ==
  ASSUME NEW f, NEW v, IsVariable(v), NEW attrs
  PROVE  /\ IsVariable(Completed(f, v, attrs))
         /\ Completed(f, v, attrs) =
              Variable(v.name, v.dims, v.shape, v.form, v.data, WithMandatory(f, v.name, attrs))
<1> DEFINE w == WithMandatory(f, v.name, attrs)
<1>1. Completed(f, v, attrs) = [v EXCEPT !.attrs = w]
  BY DEF Completed
<1> HIDE DEF w
<1>2. v = [name |-> v.name, dims |-> v.dims, shape |-> v.shape, form |-> v.form, data |-> v.data,
           attrs |-> v.attrs]
  BY DEF IsVariable, Variable
<1>3. [v EXCEPT !.attrs = w] =
        [name |-> v.name, dims |-> v.dims, shape |-> v.shape, form |-> v.form, data |-> v.data,
         attrs |-> w]
  BY <1>2
<1>4. QED
  BY <1>1, <1>3 DEF IsVariable, Variable, w

\* The File's own variables, then the defaults.
LEMMA SavedVariablesAre ==
  ASSUME NEW f, FileOK(f), ExtrasFit(f)
  PROVE  /\ SequenceOK(SavedVariables(f)) /\ Distinct(SavedVariables(f))
         /\ Names(SavedVariables(f)) = Names(f.variables) \cup Names(MissingVariables(f))
         /\ ToSet(SavedVariables(f)) = {OwnSaved(f, v) : v \in ToSet(f.variables)}
                                       \cup {DefaultSaved(f, v) : v \in ToSet(MissingVariables(f))}
<1> DEFINE own == f.variables
           missing == MissingVariables(f)
           a == [i \in DOMAIN own |-> OwnSaved(f, own[i])]
           b == [i \in DOMAIN missing |-> DefaultSaved(f, missing[i])]
<1>1. SavedVariables(f) = a \o b
  BY DEF SavedVariables, OwnSaved, DefaultSaved, Completed
<1>2. /\ SequenceOK(own) /\ Distinct(own) /\ \A v \in ToSet(own) : IsVariable(v)
  BY DEF FileOK, ExtrasFit, IsVariable
<1>3. /\ SequenceOK(missing) /\ Distinct(missing) /\ \A v \in ToSet(missing) : IsVariable(v)
      /\ Names(missing) \cap Names(own) = {}
  BY MissingVariablesFit DEF DefaultOK, IsVariable
<1>4. /\ a = [i \in DOMAIN own |-> a[i]] /\ \A i \in DOMAIN own : a[i] = OwnSaved(f, own[i])
      /\ b = [i \in DOMAIN missing |-> b[i]] /\ \A i \in DOMAIN missing : b[i] = DefaultSaved(f, missing[i])
  OBVIOUS
<1> HIDE DEF own, missing, a, b
<1>5. \A i \in DOMAIN own : own[i] \in ToSet(own)
  BY DEF ToSet
<1>6. \A i \in DOMAIN missing : missing[i] \in ToSet(missing)
  BY DEF ToSet
<1>7. \A i \in DOMAIN own : a[i].name = own[i].name
  <2>1. TAKE i \in DOMAIN own
  <2>2. IsVariable(own[i])
    BY <1>2, <1>5
  <2>3. a[i].name = own[i].name
    BY <1>4, <2>2, CompletedIs DEF OwnSaved, Variable
  <2>4. QED
    BY <2>3
<1>8. \A i \in DOMAIN missing : b[i].name = missing[i].name
  <2>1. TAKE i \in DOMAIN missing
  <2>2. IsVariable(missing[i])
    BY <1>3, <1>6
  <2>3. b[i].name = missing[i].name
    BY <1>4, <2>2, CompletedIs DEF DefaultSaved, Variable
  <2>4. QED
    BY <2>3
<1>9. /\ SequenceOK(a) /\ Distinct(a) /\ Names(a) = Names(own) /\ DOMAIN a = DOMAIN own
  BY <1>2, <1>4, <1>7, Mapped
<1>10. /\ SequenceOK(b) /\ Distinct(b) /\ Names(b) = Names(missing) /\ DOMAIN b = DOMAIN missing
  BY <1>3, <1>4, <1>8, Mapped
<1>11. /\ ToSet(a) = {OwnSaved(f, v) : v \in ToSet(own)}
       /\ ToSet(b) = {DefaultSaved(f, v) : v \in ToSet(missing)}
  BY <1>4, <1>9, <1>10 DEF ToSet
<1>12. Distinct(a \o b)
  BY <1>3, <1>9, <1>10, DistinctJoined
<1>13. SequenceOK(a \o b) /\ ToSet(a \o b) = ToSet(a) \cup ToSet(b) /\ Names(a \o b) = Names(a) \cup Names(b)
  BY <1>9, <1>10, Joined, NamesJoined
<1>14. QED
  BY <1>1, <1>9, <1>10, <1>11, <1>12, <1>13 DEF own, missing

\* None has an attribute twice, and none has an attribute of netCDF's own.
LEMMA SavedVariablesFit ==
  ASSUME NEW f, FileOK(f), ExtrasFit(f), NEW v \in ToSet(SavedVariables(f))
  PROVE  /\ IsVariable(v) /\ SequenceOK(v.dims) /\ SequenceOK(v.shape) /\ v.shape # <<>>
         /\ SequenceOK(v.attrs) /\ Distinct(v.attrs) /\ Names(v.attrs) \cap Plumbing = {}
<1>0. "Reference" \notin Plumbing /\ "Type" \notin Plumbing /\ "Units" \notin Plumbing
  BY DEF Plumbing
<1>1. ASSUME NEW w \in ToSet(f.variables), v = OwnSaved(f, w)
      PROVE  /\ IsVariable(v) /\ SequenceOK(v.dims) /\ SequenceOK(v.shape) /\ v.shape # <<>>
             /\ SequenceOK(v.attrs) /\ Distinct(v.attrs) /\ Names(v.attrs) \cap Plumbing = {}
  <2>1. IsVariable(w) /\ SequenceOK(w.dims) /\ SequenceOK(w.shape) /\ SequenceOK(w.attrs)
    BY DEF FileOK, VariableOK, IsVariable
  <2>2. w.shape # <<>> /\ Distinct(w.attrs) /\ Names(w.attrs) \cap Plumbing = {}
    BY DEF ExtrasFit, AttributesFit
  <2> DEFINE attrs == WithMandatory(f, w.name, w.attrs)
  <2>3. SequenceOK(attrs) /\ Distinct(attrs) /\ Names(attrs) \subseteq Names(w.attrs) \cup {"Reference"}
    BY <2>1, <2>2, MandatoryFits
  <2>4. IsVariable(v) /\ v = Variable(w.name, w.dims, w.shape, w.form, w.data, attrs)
    BY <1>1, <2>1, CompletedIs DEF OwnSaved
  <2> HIDE DEF attrs
  <2>5. v.dims = w.dims /\ v.shape = w.shape /\ v.attrs = attrs
    BY <2>4 DEF Variable
  <2>6. QED
    BY <1>0, <2>1, <2>2, <2>3, <2>4, <2>5
<1>2. ASSUME NEW w \in ToSet(MissingVariables(f)), v = DefaultSaved(f, w)
      PROVE  /\ IsVariable(v) /\ SequenceOK(v.dims) /\ SequenceOK(v.shape) /\ v.shape # <<>>
             /\ SequenceOK(v.attrs) /\ Distinct(v.attrs) /\ Names(v.attrs) \cap Plumbing = {}
  <2>1. /\ IsVariable(w) /\ w.dims = <<"I", "C">> /\ w.shape = <<1, 3>>
        /\ SequenceOK(w.attrs) /\ Distinct(w.attrs) /\ Names(w.attrs) \subseteq {"Type", "Units"}
    BY MissingVariablesFit DEF DefaultOK, IsVariable
  <2>2. SequenceOK(<<"I", "C">>) /\ SequenceOK(<<1, 3>>) /\ <<1, 3>> # <<>>
    BY DEF SequenceOK, ToSet
  <2> DEFINE given == Given(f, w.name)
             attrs == WithMandatory(f, w.name, w.attrs \o given)
  <2>3. /\ SequenceOK(given) /\ Distinct(given) /\ Names(given) \cap Plumbing = {}
        /\ Names(given) \cap Names(w.attrs) = {}
    BY GivenFits
  <2> HIDE DEF given
  <2>4. /\ SequenceOK(w.attrs \o given) /\ Distinct(w.attrs \o given)
        /\ Names(w.attrs \o given) = Names(w.attrs) \cup Names(given)
    BY <2>1, <2>3, Joined, DistinctJoined, NamesJoined
  <2>5. /\ SequenceOK(attrs) /\ Distinct(attrs)
        /\ Names(attrs) \subseteq Names(w.attrs \o given) \cup {"Reference"}
    BY <2>4, MandatoryFits
  <2>6. IsVariable(v) /\ v = Variable(w.name, w.dims, w.shape, w.form, w.data, attrs)
    BY <1>2, <2>1, CompletedIs DEF DefaultSaved, given
  <2> HIDE DEF attrs
  <2>7. v.dims = w.dims /\ v.shape = w.shape /\ v.attrs = attrs
    BY <2>6 DEF Variable
  <2>8. QED
    BY <1>0, <2>1, <2>2, <2>3, <2>4, <2>5, <2>6, <2>7
<1>3. QED
  BY <1>1, <1>2, SavedVariablesAre

-----------------------------------------------------------------------------
(* The datasets Save writes.                                               *)

\* An extra variable as it is written.
LEMMA AttachedIs ==
  ASSUME NEW v, IsVariable(v)
  PROVE  LET a == Attached(v)
         IN  /\ a = Dataset(a, FALSE)
             /\ a.name = v.name /\ a.scale = FALSE /\ a.dims = v.dims /\ a.shape = v.shape
             /\ a.form = v.form /\ a.data = v.data
             /\ a.attrs = IF v.dims = <<>> THEN v.attrs
                          ELSE Append(v.attrs, Attribute("DIMENSION_LIST", v.dims))
<1> DEFINE more == Append(v.attrs, Attribute("DIMENSION_LIST", v.dims))
           attrs == IF v.dims = <<>> THEN v.attrs ELSE more
           w == [v EXCEPT !.attrs = attrs]
<1>1. Attached(v) = Dataset(w, FALSE)
  BY DEF Attached
<1>2. v = [name |-> v.name, dims |-> v.dims, shape |-> v.shape, form |-> v.form, data |-> v.data,
           attrs |-> v.attrs]
  BY DEF IsVariable, Variable
<1> HIDE DEF attrs
<1>3. w = [name |-> v.name, dims |-> v.dims, shape |-> v.shape, form |-> v.form, data |-> v.data,
           attrs |-> attrs]
  BY <1>2
<1> HIDE DEF w
<1>4. Attached(v) = [scale |-> FALSE, name |-> v.name, dims |-> v.dims, shape |-> v.shape,
                     form |-> v.form, data |-> v.data, attrs |-> attrs]
  BY <1>1, <1>3 DEF Dataset
<1>5. QED
  BY <1>4 DEF Dataset, attrs

\* What a dataset Save writes has to be.
DatasetFits(v) ==
  /\ SequenceOK(v.dims) /\ SequenceOK(v.shape) /\ SequenceOK(v.attrs) /\ Distinct(v.attrs)

LEMMA AttachedFits ==
  ASSUME NEW f, FileOK(f), ExtrasFit(f), NEW v \in ToSet(SavedVariables(f))
  PROVE  DatasetFits(Attached(v))
<1> DEFINE x == Attribute("DIMENSION_LIST", v.dims)
           a == Attached(v)
<1>1. /\ IsVariable(v) /\ SequenceOK(v.dims) /\ SequenceOK(v.shape)
      /\ SequenceOK(v.attrs) /\ Distinct(v.attrs) /\ Names(v.attrs) \cap Plumbing = {}
  BY SavedVariablesFit
<1>2. a.dims = v.dims /\ a.shape = v.shape
      /\ a.attrs = IF v.dims = <<>> THEN v.attrs ELSE Append(v.attrs, x)
  BY <1>1, AttachedIs
<1>3. x.name = "DIMENSION_LIST" /\ "DIMENSION_LIST" \in Plumbing
  BY DEF Attribute, Plumbing
<1> HIDE DEF x, a
<1>4. SequenceOK(Append(v.attrs, x)) /\ Distinct(Append(v.attrs, x))
  BY <1>1, <1>3, Appended
<1>5. QED
  BY <1>1, <1>2, <1>4 DEF DatasetFits, a

\* What Save sets on what it writes.
LEMMA WrittenIs ==
  ASSUME NEW f
  PROVE  LET placed == Positions \cup {"ListenerView", "ListenerUp"}
             audio == IF IsTF(f) THEN {"Data.Real", "Data.Imag"}
                      ELSE {IF f.dataType = "SOS" THEN "Data.SOS" ELSE "Data.IR",
                            "Data.SamplingRate", "Data.Delay"}
             room == IF f.roomVolume = "0" THEN {} ELSE {"RoomVolume"}
             w == WrittenVariables(f)
         IN  /\ DOMAIN w = placed \cup audio \cup room \cup ToSet(Dimensions)
             /\ \A name \in placed : w[name] = {"Type", "Units"}
             /\ \A name \in DOMAIN w \cap {"RoomVolume", "Data.SamplingRate"} : w[name] = {"Units"}
             /\ IsTF(f) => w["N"] = {"LongName", "Units"}
             /\ \A name \in DOMAIN w : "Reference" \notin w[name]
<1> DEFINE placed == Positions \cup {"ListenerView", "ListenerUp"}
           audio == IF IsTF(f) THEN {"Data.Real", "Data.Imag"}
                    ELSE {IF f.dataType = "SOS" THEN "Data.SOS" ELSE "Data.IR",
                          "Data.SamplingRate", "Data.Delay"}
           room == IF f.roomVolume = "0" THEN {} ELSE {"RoomVolume"}
           w == WrittenVariables(f)
           D == placed \cup audio \cup room \cup ToSet(Dimensions)
           of(name) == CASE name \in placed -> {"Type", "Units"}
                         [] name \in {"RoomVolume", "Data.SamplingRate"} -> {"Units"}
                         [] name = "N" /\ IsTF(f) -> {"LongName", "Units"}
                         [] OTHER -> {}
<1>1. w = [name \in D |-> of(name)]
  BY DEF WrittenVariables
<1>2. "N" \in ToSet(Dimensions)
  <2>1. Dimensions[4] = "N" /\ 4 \in DOMAIN Dimensions
    BY DEF Dimensions
  <2>2. QED
    BY <2>1 DEF ToSet
<1>3. /\ placed \cap {"RoomVolume", "Data.SamplingRate"} = {}
      /\ "N" \notin placed \cup {"RoomVolume", "Data.SamplingRate"}
  BY DEF Positions
<1> HIDE DEF w, audio, room, placed
<1>4. DOMAIN w = D /\ \A name \in D : w[name] = of(name)
  BY <1>1
<1>6. ASSUME NEW name \in DOMAIN w PROVE "Reference" \notin w[name]
  <2>1. of(name) \in {{"Type", "Units"}, {"Units"}, {"LongName", "Units"}, {}}
    BY <1>3
  <2> HIDE DEF of
  <2>2. w[name] = of(name)
    BY <1>4
  <2>3. QED
    BY <2>1, <2>2
<1>7. ASSUME NEW name \in placed PROVE w[name] = {"Type", "Units"}
  <2>1. of(name) = {"Type", "Units"}
    BY <1>3
  <2> HIDE DEF of
  <2>2. w[name] = of(name)
    BY <1>4
  <2>3. QED
    BY <2>1, <2>2
<1>8. ASSUME NEW name \in DOMAIN w \cap {"RoomVolume", "Data.SamplingRate"} PROVE w[name] = {"Units"}
  <2>1. of(name) = {"Units"}
    BY <1>3
  <2> HIDE DEF of
  <2>2. w[name] = of(name)
    BY <1>4
  <2>3. QED
    BY <2>1, <2>2
<1>9. ASSUME IsTF(f) PROVE w["N"] = {"LongName", "Units"}
  <2>1. of("N") = {"LongName", "Units"}
    BY <1>3, <1>9
  <2> HIDE DEF of
  <2>2. w["N"] = of("N")
    BY <1>2, <1>4
  <2>3. QED
    BY <2>1, <2>2
<1>10. QED
  BY <1>4, <1>6, <1>7, <1>8, <1>9 DEF w, audio, room, placed

\* A dimension scale.
Frequencies(f, d) == d = "N" /\ IsTF(f)

\* The attributes Save sets itself.
ScaleOwn(f, d) ==
  << Attribute("CLASS", <<"DIMENSION_SCALE">>) >>
  \o (IF Frequencies(f, d)
      THEN << Attribute("LongName", <<"frequency">>), Attribute("Units", <<"hertz">>) >>
      ELSE <<>>)

LEMMA ScaleFits ==
  ASSUME NEW f, FileOK(f), ExtrasFit(f), NEW d
  PROVE  LET s == ScaleOf(f, d)
         IN  /\ s = Dataset(s, TRUE) /\ s.scale = TRUE /\ s.name = d /\ s.dims = <<>>
             /\ s.shape = <<SizeOf(f, d)>>
             /\ s.form = (IF Frequencies(f, d) THEN "numeric" ELSE "none")
             /\ s.data = (IF Frequencies(f, d) THEN <<"given">> ELSE <<>>)
             /\ ToSet(s.attrs) = ToSet(ScaleOwn(f, d)) \cup ToSet(SavedAttributes(f, d))
             /\ DatasetFits(s)
<1> DEFINE frequencies == Frequencies(f, d)
           class == << Attribute("CLASS", <<"DIMENSION_SCALE">>) >>
           units == << Attribute("LongName", <<"frequency">>), Attribute("Units", <<"hertz">>) >>
           own == IF frequencies THEN units ELSE <<>>
           more == SavedAttributes(f, d)
           attrs == class \o own \o more
           s == ScaleOf(f, d)
           form == IF frequencies THEN "numeric" ELSE "none"
           data == IF frequencies THEN <<"given">> ELSE <<>>
<1>1. s = Dataset(Variable(d, <<>>, <<SizeOf(f, d)>>, form, data, attrs), TRUE)
  BY DEF ScaleOf, Frequencies
<1>0. ScaleOwn(f, d) = class \o own
  BY DEF ScaleOwn
<1>2. SequenceOK(class) /\ Distinct(class) /\ Names(class) = {"CLASS"}
  BY OneOf DEF Attribute
<1>3. SequenceOK(units) /\ Distinct(units) /\ Names(units) = {"LongName", "Units"}
  BY TwoOf DEF Attribute
<1>4. /\ SequenceOK(own) /\ Distinct(own)
      /\ Names(own) = IF frequencies THEN {"LongName", "Units"} ELSE {}
  <2> HIDE DEF units
  <2>1. QED
    BY <1>3, EmptyList
<1>5. SequenceOK(more) /\ Distinct(more) /\ Names(more) \cap Plumbing = {}
  BY SavedAttributesFit
<1>6. frequencies => Names(more) \cap {"LongName", "Units"} = {}
  <2>1. SUFFICES ASSUME frequencies PROVE Names(more) \cap {"LongName", "Units"} = {}
    OBVIOUS
  <2>2. d \in DOMAIN WrittenVariables(f) /\ WrittenVariables(f)[d] = {"LongName", "Units"}
    <3>1. "N" \in ToSet(Dimensions)
      <4>1. Dimensions[4] = "N" /\ 4 \in DOMAIN Dimensions
        BY DEF Dimensions
      <4>2. QED
        BY <4>1 DEF ToSet
    <3>2. ToSet(Dimensions) \subseteq DOMAIN WrittenVariables(f)
      BY WrittenIs
    <3>3. WrittenVariables(f)["N"] = {"LongName", "Units"}
      BY <2>1, WrittenIs DEF Frequencies
    <3>4. QED
      BY <2>1, <3>1, <3>2, <3>3 DEF Frequencies
  <2>3. Names(more) \cap (WrittenVariables(f)[d] \ {"Reference"}) = {}
    BY <2>2, SavedAttributesFit
  <2> HIDE DEF more
  <2>4. QED
    BY <2>2, <2>3
<1>7. "CLASS" \in Plumbing
  BY DEF Plumbing
<1> HIDE DEF class, own, more, frequencies, form, data
<1>8. /\ SequenceOK(class \o own) /\ Distinct(class \o own)
      /\ Names(class \o own) = Names(class) \cup Names(own)
  <2>1. Names(class) \cap Names(own) = {}
    BY <1>2, <1>4
  <2>2. QED
    BY <1>2, <1>4, <2>1, Joined, DistinctJoined, NamesJoined
<1>9. Names(class \o own) \cap Names(more) = {}
  BY <1>2, <1>4, <1>5, <1>6, <1>7, <1>8
<1>10. /\ SequenceOK(attrs) /\ Distinct(attrs)
       /\ ToSet(attrs) = ToSet(class \o own) \cup ToSet(more)
  BY <1>5, <1>8, <1>9, Joined, DistinctJoined, NamesJoined
<1> HIDE DEF attrs, s
<1>11. /\ s.scale = TRUE /\ s.name = d /\ s.dims = <<>> /\ s.shape = <<SizeOf(f, d)>>
       /\ s.form = form /\ s.data = data /\ s.attrs = attrs
  BY <1>1 DEF Dataset, Variable
<1>12. s = Dataset(s, TRUE)
  BY <1>1, <1>11 DEF Dataset, Variable
<1>13. SequenceOK(s.dims) /\ SequenceOK(s.shape)
  <2>1. SequenceOK(<<>>) /\ SequenceOK(<<SizeOf(f, d)>>)
    BY EmptyList, OneOf
  <2>2. QED
    BY <1>11, <2>1
<1>14. DatasetFits(s)
  BY <1>10, <1>11, <1>13 DEF DatasetFits
<1>15. ToSet(s.attrs) = ToSet(ScaleOwn(f, d)) \cup ToSet(SavedAttributes(f, d))
  BY <1>0, <1>10, <1>11 DEF more
<1>16. QED
  BY <1>11, <1>12, <1>14, <1>15 DEF s, form, data, frequencies

\* A variable written by name.
OwnedAs(f, s, name, data, own) ==
  /\ s = Dataset(s, FALSE) /\ s.scale = FALSE /\ s.name = name
  /\ s.dims = <<>> /\ s.shape = <<>> /\ s.form = "numeric" /\ s.data = data
  /\ s.attrs = own \o SavedAttributes(f, name)
  /\ ToSet(s.attrs) = ToSet(own) \cup ToSet(SavedAttributes(f, name))
  /\ DatasetFits(s)

LEMMA OwnedFits ==
  ASSUME NEW f, FileOK(f), ExtrasFit(f), NEW name \in DOMAIN WrittenVariables(f), NEW data, NEW own,
         SequenceOK(own), Distinct(own), Names(own) \subseteq WrittenVariables(f)[name]
  PROVE  OwnedAs(f, Owned(f, name, data, own), name, data, own)
<1> DEFINE more == SavedAttributes(f, name)
           attrs == own \o more
           s == Owned(f, name, data, own)
<1>1. s = Dataset(Variable(name, <<>>, <<>>, "numeric", data, attrs), FALSE)
  BY DEF Owned
<1>2. /\ SequenceOK(more) /\ Distinct(more)
      /\ Names(more) \cap (WrittenVariables(f)[name] \ {"Reference"}) = {}
  BY SavedAttributesFit
<1>3. "Reference" \notin WrittenVariables(f)[name]
  BY WrittenIs
<1> HIDE DEF more
<1>4. SequenceOK(attrs) /\ Distinct(attrs) /\ ToSet(attrs) = ToSet(own) \cup ToSet(more)
  <2>1. Names(own) \cap Names(more) = {}
    BY <1>2, <1>3
  <2>2. QED
    BY <1>2, <2>1, Joined, DistinctJoined
<1> DEFINE all == attrs
<1>5. all = attrs
  OBVIOUS
<1> HIDE DEF all, s
<1>6. /\ s.scale = FALSE /\ s.name = name /\ s.dims = <<>> /\ s.shape = <<>>
      /\ s.form = "numeric" /\ s.data = data /\ s.attrs = all /\ s = Dataset(s, FALSE)
  BY <1>1, <1>5 DEF Dataset, Variable
<1>7. DatasetFits(s)
  BY <1>4, <1>5, <1>6, EmptyList DEF DatasetFits
<1>8. QED
  BY <1>4, <1>5, <1>6, <1>7 DEF s, more, OwnedAs

\* What they are: in parts.
Or(value, default) == IF value = <<>> THEN <<default>> ELSE value
UnitsOf(u) == << Attribute("Units", <<u>>) >>
Cartesian(f, name) == Owned(f, name, <<"given">>, TypeUnits(<<"cartesian">>))
EmitterOf(f) == Owned(f, "EmitterPosition", Or(f.emitters, "[0 0 0]"), TypeUnits(SavedEmitterType(f)))
UpOf(f) == Owned(f, "ListenerUp", Or(f.up, "+z"), <<>>)
ViewOf(f) == Owned(f, "ListenerView", Or(f.view, "+x"), TypeUnits(<<"cartesian">>))
RoomOf(f) == Owned(f, "RoomVolume", <<f.roomVolume>>, UnitsOf("cubic metre"))
SamplesName(f) == IF f.dataType = "SOS" THEN "Data.SOS" ELSE "Data.IR"

PlacedList(f) ==
  << Cartesian(f, "ListenerPosition"), Cartesian(f, "ReceiverPosition"),
     Cartesian(f, "SourcePosition"), EmitterOf(f), UpOf(f), ViewOf(f) >>
RoomList(f) == IF f.roomVolume = "0" THEN <<>> ELSE << RoomOf(f) >>
AudioList(f) ==
  IF IsTF(f)
  THEN << Owned(f, "Data.Real", <<"given">>, <<>>), Owned(f, "Data.Imag", <<"given">>, <<>>) >>
  ELSE << Owned(f, SamplesName(f), <<"given">>, <<>>),
          Owned(f, "Data.SamplingRate", <<"given">>, UnitsOf("hertz")),
          Owned(f, "Data.Delay", <<"given">>, <<>>) >>

LEMMA OwnedVariablesAre ==
  ASSUME NEW f
  PROVE  OwnedVariables(f) = (PlacedList(f) \o RoomList(f)) \o AudioList(f)
  BY DEF OwnedVariables, PlacedList, RoomList, AudioList, Cartesian, EmitterOf, UpOf, ViewOf,
         RoomOf, SamplesName, Or, UnitsOf

\* What is not Save's own of its attributes is the caller's, or mandatory.
Labelled(f, s) ==
  /\ ToSet(SavedAttributes(f, s.name)) \subseteq ToSet(s.attrs)
  /\ \A a \in ToSet(s.attrs) :
       \/ a \in ToSet(SavedAttributes(f, s.name))
       \/ a.name \in WrittenVariables(f)[s.name] \cup Plumbing

\* A dataset of Save's own: no scale, no dimensions, and the name of none.
OwnFits(f, s) ==
  /\ s.name \in DOMAIN WrittenVariables(f) \ ToSet(Dimensions)
  /\ s = Dataset(s, FALSE) /\ s.scale = FALSE /\ s.dims = <<>> /\ s.shape = <<>> /\ s.form = "numeric"
  /\ DatasetFits(s) /\ Labelled(f, s)

LEMMA DimensionsAre == ToSet(Dimensions) = {"M", "R", "E", "N", "C", "I"}
<1>1. DOMAIN Dimensions = {1, 2, 3, 4, 5, 6}
  BY DEF Dimensions
<1>2. /\ Dimensions[1] = "M" /\ Dimensions[2] = "R" /\ Dimensions[3] = "E"
      /\ Dimensions[4] = "N" /\ Dimensions[5] = "C" /\ Dimensions[6] = "I"
  BY DEF Dimensions
<1>3. QED
  BY <1>1, <1>2 DEF ToSet

LEMMA TypeUnitsAre ==
  ASSUME NEW type
  PROVE  /\ SequenceOK(TypeUnits(type)) /\ Distinct(TypeUnits(type))
         /\ Names(TypeUnits(type)) = {"Type", "Units"}
         /\ Attribute("Type", type) \in ToSet(TypeUnits(type))
         /\ \A a \in ToSet(TypeUnits(type)) : a.value # Odd \/ (a.name = "Type" /\ a.value = type)
<1> DEFINE x == Attribute("Type", type)
           y == Attribute("Units", IF type = <<"cartesian">> THEN <<"metre">> ELSE <<"degree, degree, metre">>)
<1>1. TypeUnits(type) = <<x, y>>
  BY DEF TypeUnits
<1>2. x.name = "Type" /\ y.name = "Units" /\ x.value = type /\ y.value # Odd
  BY DEF Attribute, Odd
<1> HIDE DEF y
<1>3. SequenceOK(<<x, y>>) /\ ToSet(<<x, y>>) = {x, y} /\ Names(<<x, y>>) = {"Type", "Units"}
      /\ Distinct(<<x, y>>)
  <2> HIDE DEF x
  <2>1. QED
    BY <1>2, TwoOf
<1>4. QED
  BY <1>1, <1>2, <1>3

LEMMA UnitsAre ==
  ASSUME NEW u
  PROVE  /\ SequenceOK(UnitsOf(u)) /\ Distinct(UnitsOf(u)) /\ Names(UnitsOf(u)) = {"Units"}
  BY OneOf DEF UnitsOf, Attribute

LEMMA OwnedByName ==
  ASSUME NEW f, FileOK(f), ExtrasFit(f), NEW name \in DOMAIN WrittenVariables(f) \ ToSet(Dimensions),
         NEW data, NEW own, SequenceOK(own), Distinct(own), Names(own) \subseteq WrittenVariables(f)[name]
  PROVE  OwnFits(f, Owned(f, name, data, own)) /\ Owned(f, name, data, own).name = name
<1> DEFINE s == Owned(f, name, data, own)
<1>1. /\ s = Dataset(s, FALSE) /\ s.scale = FALSE /\ s.name = name
      /\ s.dims = <<>> /\ s.shape = <<>> /\ s.form = "numeric" /\ DatasetFits(s)
      /\ ToSet(s.attrs) = ToSet(own) \cup ToSet(SavedAttributes(f, name))
  <2>1. name \in DOMAIN WrittenVariables(f)
    OBVIOUS
  <2>2. OwnedAs(f, s, name, data, own)
    BY <2>1, OwnedFits
  <2>3. QED
    BY <2>2 DEF OwnedAs
<1> HIDE DEF s
<1>2. \A a \in ToSet(own) : a.name \in WrittenVariables(f)[name]
  BY NamesAre
<1>3. Labelled(f, s)
  BY <1>1, <1>2 DEF Labelled
<1>4. QED
  BY <1>1, <1>3 DEF OwnFits, s

PlacedNames ==
  {"ListenerPosition", "ReceiverPosition", "SourcePosition", "EmitterPosition", "ListenerUp", "ListenerView"}

LEMMA PlacedFits ==
  ASSUME NEW f, FileOK(f), ExtrasFit(f)
  PROVE  /\ SequenceOK(PlacedList(f)) /\ Distinct(PlacedList(f))
         /\ Names(PlacedList(f)) = PlacedNames
         /\ ToSet(PlacedList(f)) =
              { Cartesian(f, "ListenerPosition"), Cartesian(f, "ReceiverPosition"),
                Cartesian(f, "SourcePosition"), EmitterOf(f), UpOf(f), ViewOf(f) }
         /\ \A s \in ToSet(PlacedList(f)) : OwnFits(f, s)
<1> DEFINE w == WrittenVariables(f)
<1>1. ASSUME NEW name \in PlacedNames
      PROVE  name \in DOMAIN w \ ToSet(Dimensions) /\ w[name] = {"Type", "Units"}
  <2>1. name \in Positions \cup {"ListenerView", "ListenerUp"}
    BY DEF PlacedNames, Positions
  <2>2. name \in DOMAIN w /\ w[name] = {"Type", "Units"}
    <3>1. Positions \cup {"ListenerView", "ListenerUp"} \subseteq DOMAIN w
      BY WrittenIs
    <3>2. \A n \in Positions \cup {"ListenerView", "ListenerUp"} : w[n] = {"Type", "Units"}
      BY WrittenIs
    <3>3. w[name] = {"Type", "Units"}
      BY <2>1, <3>2
    <3>4. QED
      BY <2>1, <3>1, <3>3
  <2>3. name \notin ToSet(Dimensions)
    BY DimensionsAre DEF PlacedNames
  <2>4. QED
    BY <2>2, <2>3
<1> HIDE DEF w
<1>2. ASSUME NEW name \in PlacedNames, NEW data, NEW type
      PROVE  /\ OwnFits(f, Owned(f, name, data, TypeUnits(type)))
             /\ Owned(f, name, data, TypeUnits(type)).name = name
  <2>1. SequenceOK(TypeUnits(type)) /\ Distinct(TypeUnits(type)) /\ Names(TypeUnits(type)) = {"Type", "Units"}
    BY TypeUnitsAre
  <2>2. name \in DOMAIN w \ ToSet(Dimensions) /\ Names(TypeUnits(type)) \subseteq w[name]
    BY <1>1, <2>1
  <2>3. QED
    BY <2>1, <2>2, OwnedByName DEF w
<1>3. ASSUME NEW name \in PlacedNames, NEW data
      PROVE  OwnFits(f, Owned(f, name, data, <<>>)) /\ Owned(f, name, data, <<>>).name = name
  <2>1. name \in DOMAIN w \ ToSet(Dimensions)
    BY <1>1
  <2>2. QED
    BY <2>1, EmptyList, OwnedByName DEF w
<1> DEFINE a == Cartesian(f, "ListenerPosition")
           b == Cartesian(f, "ReceiverPosition")
           c == Cartesian(f, "SourcePosition")
           d == EmitterOf(f)
           e == UpOf(f)
           g == ViewOf(f)
           s == PlacedList(f)
<1>4. /\ OwnFits(f, a) /\ a.name = "ListenerPosition"
      /\ OwnFits(f, b) /\ b.name = "ReceiverPosition"
      /\ OwnFits(f, c) /\ c.name = "SourcePosition"
      /\ OwnFits(f, d) /\ d.name = "EmitterPosition"
      /\ OwnFits(f, e) /\ e.name = "ListenerUp"
      /\ OwnFits(f, g) /\ g.name = "ListenerView"
  BY <1>2, <1>3 DEF PlacedNames, Cartesian, EmitterOf, UpOf, ViewOf
<1>5. /\ s = [i \in 1..6 |-> s[i]]
      /\ s[1] = a /\ s[2] = b /\ s[3] = c /\ s[4] = d /\ s[5] = e /\ s[6] = g
  BY DEF PlacedList
<1> HIDE DEF a, b, c, d, e, g, s
<1>6. SequenceOK(s) /\ DOMAIN s = 1..6
  BY <1>5, IsList
<1>7. \A i \in 1..6 : i = 1 \/ i = 2 \/ i = 3 \/ i = 4 \/ i = 5 \/ i = 6
  OBVIOUS
<1>8. ToSet(s) = {a, b, c, d, e, g}
  BY <1>5, <1>6, <1>7 DEF ToSet
<1>9. Distinct(s)
  BY <1>4, <1>5, <1>6, <1>7 DEF Distinct
<1>10. Names(s) = PlacedNames
  BY <1>4, <1>8, NamesAre DEF PlacedNames
<1>11. \A x \in ToSet(s) : OwnFits(f, x)
  BY <1>4, <1>8
<1>12. QED
  BY <1>6, <1>8, <1>9, <1>10, <1>11 DEF a, b, c, d, e, g, s

LEMMA RoomFits ==
  ASSUME NEW f, FileOK(f), ExtrasFit(f)
  PROVE  /\ SequenceOK(RoomList(f)) /\ Distinct(RoomList(f))
         /\ Names(RoomList(f)) = IF f.roomVolume = "0" THEN {} ELSE {"RoomVolume"}
         /\ ToSet(RoomList(f)) = IF f.roomVolume = "0" THEN {} ELSE {RoomOf(f)}
         /\ \A s \in ToSet(RoomList(f)) : OwnFits(f, s)
<1>1. CASE f.roomVolume = "0"
  BY <1>1, EmptyList DEF RoomList
<1>2. CASE f.roomVolume # "0"
  <2> DEFINE w == WrittenVariables(f)
  <2>1. "RoomVolume" \in DOMAIN w
    BY <1>2, WrittenIs
  <2>2. w["RoomVolume"] = {"Units"}
    <3>1. \A name \in DOMAIN w \cap {"RoomVolume", "Data.SamplingRate"} : w[name] = {"Units"}
      BY WrittenIs
    <3> HIDE DEF w
    <3>2. QED
      BY <2>1, <3>1
  <2>3. "RoomVolume" \notin ToSet(Dimensions)
    BY DimensionsAre
  <2>4. /\ SequenceOK(UnitsOf("cubic metre")) /\ Distinct(UnitsOf("cubic metre"))
        /\ Names(UnitsOf("cubic metre")) = {"Units"}
    BY UnitsAre
  <2>5. OwnFits(f, RoomOf(f)) /\ RoomOf(f).name = "RoomVolume"
    BY <2>1, <2>2, <2>3, <2>4, OwnedByName DEF RoomOf
  <2>6. RoomList(f) = <<RoomOf(f)>>
    BY <1>2 DEF RoomList
  <2>7. QED
    BY <1>2, <2>5, <2>6, OneOf
<1>3. QED
  BY <1>1, <1>2

AudioNames(f) ==
  IF IsTF(f) THEN {"Data.Real", "Data.Imag"} ELSE {SamplesName(f), "Data.SamplingRate", "Data.Delay"}

LEMMA AudioFits ==
  ASSUME NEW f, FileOK(f), ExtrasFit(f)
  PROVE  /\ SequenceOK(AudioList(f)) /\ Distinct(AudioList(f))
         /\ Names(AudioList(f)) = AudioNames(f)
         /\ \A s \in ToSet(AudioList(f)) : OwnFits(f, s)
<1> DEFINE w == WrittenVariables(f)
<1>1. AudioNames(f) \subseteq DOMAIN w
  <2>1. (IF IsTF(f) THEN {"Data.Real", "Data.Imag"}
         ELSE {IF f.dataType = "SOS" THEN "Data.SOS" ELSE "Data.IR", "Data.SamplingRate", "Data.Delay"})
          \subseteq DOMAIN w
    BY WrittenIs
  <2>2. QED
    BY <2>1 DEF AudioNames, SamplesName
<1>2. AudioNames(f) \cap ToSet(Dimensions) = {}
  BY DimensionsAre DEF AudioNames, SamplesName
<1>3. ASSUME NEW name \in AudioNames(f), NEW data
      PROVE  OwnFits(f, Owned(f, name, data, <<>>)) /\ Owned(f, name, data, <<>>).name = name
  <2>1. name \in DOMAIN w \ ToSet(Dimensions)
    BY <1>1, <1>2
  <2>2. QED
    BY <2>1, EmptyList, OwnedByName
<1>4. CASE IsTF(f)
  <2> DEFINE a == Owned(f, "Data.Real", <<"given">>, <<>>)
             b == Owned(f, "Data.Imag", <<"given">>, <<>>)
  <2>1. OwnFits(f, a) /\ a.name = "Data.Real" /\ OwnFits(f, b) /\ b.name = "Data.Imag"
    BY <1>3, <1>4 DEF AudioNames
  <2>2. AudioList(f) = <<a, b>>
    BY <1>4 DEF AudioList
  <2> HIDE DEF a, b
  <2>3. QED
    BY <1>4, <2>1, <2>2, TwoOf DEF AudioNames
<1>5. CASE ~IsTF(f)
  <2> DEFINE a == Owned(f, SamplesName(f), <<"given">>, <<>>)
             b == Owned(f, "Data.SamplingRate", <<"given">>, UnitsOf("hertz"))
             c == Owned(f, "Data.Delay", <<"given">>, <<>>)
  <2>1. OwnFits(f, a) /\ a.name = SamplesName(f) /\ OwnFits(f, c) /\ c.name = "Data.Delay"
    BY <1>3, <1>5 DEF AudioNames
  <2>2. OwnFits(f, b) /\ b.name = "Data.SamplingRate"
    <3>1. "Data.SamplingRate" \in DOMAIN w \ ToSet(Dimensions)
      BY <1>1, <1>2, <1>5 DEF AudioNames
    <3>2. w["Data.SamplingRate"] = {"Units"}
      <4>1. \A name \in DOMAIN w \cap {"RoomVolume", "Data.SamplingRate"} : w[name] = {"Units"}
        BY WrittenIs
      <4> HIDE DEF w
      <4>2. QED
        BY <3>1, <4>1
    <3>3. /\ SequenceOK(UnitsOf("hertz")) /\ Distinct(UnitsOf("hertz")) /\ Names(UnitsOf("hertz")) = {"Units"}
      BY UnitsAre
    <3>4. QED
      BY <3>1, <3>2, <3>3, OwnedByName
  <2>3. AudioList(f) = Append(<<a, b>>, c)
    BY <1>5 DEF AudioList
  <2>4. SamplesName(f) \notin {"Data.SamplingRate", "Data.Delay"}
    BY DEF SamplesName
  <2> HIDE DEF a, b, c
  <2>5. /\ SequenceOK(<<a, b>>) /\ Distinct(<<a, b>>) /\ ToSet(<<a, b>>) = {a, b}
        /\ Names(<<a, b>>) = {a.name, b.name}
    BY <2>1, <2>2, <2>4, TwoOf
  <2>6. /\ SequenceOK(AudioList(f)) /\ Distinct(AudioList(f)) /\ ToSet(AudioList(f)) = {a, b, c}
    <3>1. c.name \notin Names(<<a, b>>)
      BY <2>1, <2>2, <2>4, <2>5
    <3> DEFINE ab == <<a, b>>
    <3>2. SequenceOK(ab) /\ Distinct(ab) /\ ToSet(ab) = {a, b} /\ c.name \notin Names(ab)
      BY <2>5, <3>1
    <3>3. AudioList(f) = Append(ab, c)
      BY <2>3
    <3> HIDE DEF ab
    <3>4. SequenceOK(Append(ab, c)) /\ Distinct(Append(ab, c)) /\ ToSet(Append(ab, c)) = ToSet(ab) \cup {c}
      BY <3>2, Appended
    <3>5. QED
      BY <3>2, <3>3, <3>4
  <2>7. Names(AudioList(f)) = AudioNames(f)
    BY <1>5, <2>1, <2>2, <2>6, NamesAre DEF AudioNames
  <2>8. QED
    BY <2>1, <2>2, <2>6, <2>7
<1>6. QED
  BY <1>4, <1>5

\* What Save writes by name.
LEMMA OwnedVariablesFit ==
  ASSUME NEW f, FileOK(f), ExtrasFit(f)
  PROVE  /\ SequenceOK(OwnedVariables(f)) /\ Distinct(OwnedVariables(f))
         /\ ToSet(OwnedVariables(f)) = ToSet(PlacedList(f)) \cup ToSet(RoomList(f)) \cup ToSet(AudioList(f))
         /\ Names(OwnedVariables(f)) = DOMAIN WrittenVariables(f) \ ToSet(Dimensions)
         /\ \A s \in ToSet(OwnedVariables(f)) : OwnFits(f, s)
<1> DEFINE a == PlacedList(f)
           b == RoomList(f)
           c == AudioList(f)
<1>1. /\ SequenceOK(a) /\ Distinct(a) /\ Names(a) = PlacedNames
      /\ \A s \in ToSet(a) : OwnFits(f, s)
  BY PlacedFits
<1>2. /\ SequenceOK(b) /\ Distinct(b) /\ Names(b) = IF f.roomVolume = "0" THEN {} ELSE {"RoomVolume"}
      /\ \A s \in ToSet(b) : OwnFits(f, s)
  BY RoomFits
<1>3. /\ SequenceOK(c) /\ Distinct(c) /\ Names(c) = AudioNames(f)
      /\ \A s \in ToSet(c) : OwnFits(f, s)
  BY AudioFits
<1> HIDE DEF a, b, c
<1>4. /\ AudioNames(f) \subseteq {"Data.Real", "Data.Imag", "Data.SOS", "Data.IR", "Data.SamplingRate", "Data.Delay"}
  BY DEF AudioNames, SamplesName
<1>5. PlacedNames \cap AudioNames(f) = {} /\ "RoomVolume" \notin PlacedNames \cup AudioNames(f)
  BY <1>4 DEF PlacedNames
<1>6. /\ SequenceOK(a \o b) /\ Distinct(a \o b) /\ Names(a \o b) = Names(a) \cup Names(b)
      /\ ToSet(a \o b) = ToSet(a) \cup ToSet(b)
  <2>1. Names(a) \cap Names(b) = {}
    BY <1>1, <1>2, <1>5
  <2>2. QED
    BY <1>1, <1>2, <2>1, Joined, DistinctJoined, NamesJoined
<1> DEFINE ab == a \o b
<1>7. SequenceOK(ab) /\ Distinct(ab) /\ Names(ab) = Names(a) \cup Names(b) /\ ToSet(ab) = ToSet(a) \cup ToSet(b)
  BY <1>6
<1> HIDE DEF ab
<1>8. /\ SequenceOK(ab \o c) /\ Distinct(ab \o c) /\ Names(ab \o c) = Names(ab) \cup Names(c)
      /\ ToSet(ab \o c) = ToSet(ab) \cup ToSet(c)
  <2>1. Names(ab) \cap Names(c) = {}
    BY <1>1, <1>2, <1>3, <1>5, <1>7
  <2>2. QED
    BY <1>3, <1>7, <2>1, Joined, DistinctJoined, NamesJoined
<1>9. OwnedVariables(f) = ab \o c
  BY OwnedVariablesAre DEF a, b, c, ab
<1>10. Names(ab \o c) = DOMAIN WrittenVariables(f) \ ToSet(Dimensions)
  <2>1. DOMAIN WrittenVariables(f) = PlacedNames \cup AudioNames(f) \cup Names(b) \cup ToSet(Dimensions)
    <3>1. DOMAIN WrittenVariables(f) =
            Positions \cup {"ListenerView", "ListenerUp"}
            \cup (IF IsTF(f) THEN {"Data.Real", "Data.Imag"}
                  ELSE {IF f.dataType = "SOS" THEN "Data.SOS" ELSE "Data.IR", "Data.SamplingRate", "Data.Delay"})
            \cup (IF f.roomVolume = "0" THEN {} ELSE {"RoomVolume"}) \cup ToSet(Dimensions)
      BY WrittenIs
    <3>2. Positions \cup {"ListenerView", "ListenerUp"} = PlacedNames
      BY DEF Positions, PlacedNames
    <3>3. QED
      BY <1>2, <3>1, <3>2 DEF AudioNames, SamplesName
  <2>2. (PlacedNames \cup AudioNames(f) \cup Names(b)) \cap ToSet(Dimensions) = {}
    BY <1>2, <1>4, DimensionsAre DEF PlacedNames
  <2>3. QED
    BY <1>1, <1>3, <1>7, <1>8, <2>1, <2>2
<1>11. QED
  BY <1>1, <1>2, <1>3, <1>7, <1>8, <1>9, <1>10 DEF a, b, c

-----------------------------------------------------------------------------
(* The dimension scales Save writes.                                       *)

LEMMA FiniteList ==
  ASSUME NEW s, SequenceOK(s)
  PROVE  IsFiniteSet(ToSet(s))
<1>1. Len(s) \in Nat /\ DOMAIN s = 1..Len(s) /\ s \in [1..Len(s) -> ToSet(s)]
  BY ListIs DEF SequenceOK
<1>2. s \in Surjection(1..Len(s), ToSet(s))
  BY <1>1 DEF Surjection, ToSet
<1>3. IsFiniteSet(1..Len(s))
  BY <1>1, FS_Interval
<1>4. QED
  BY <1>2, <1>3, FS_Surjection

\* The dimensions that are not SOFA's.
Further(f) == {axis[1] : axis \in Axes(SavedVariables(f))} \ ToSet(Dimensions)

LEMMA FurtherFinite ==
  ASSUME NEW f, FileOK(f), ExtrasFit(f)
  PROVE  IsFiniteSet(Further(f))
<1> DEFINE extra == SavedVariables(f)
           axes(v) == {<<v.dims[i], v.shape[i]>> : i \in DOMAIN v.dims}
           sets == [k \in DOMAIN extra |-> axes(extra[k])]
<1>1. SequenceOK(extra) /\ \A v \in ToSet(extra) : SequenceOK(v.dims)
  BY SavedVariablesAre, SavedVariablesFit
<1>2. ASSUME NEW v \in ToSet(extra) PROVE IsFiniteSet(axes(v))
  <2> DEFINE l == [i \in DOMAIN v.dims |-> <<v.dims[i], v.shape[i]>>]
  <2>1. SequenceOK(v.dims)
    BY <1>1
  <2>2. SequenceOK(l)
    <3>1. l = [i \in DOMAIN v.dims |-> l[i]]
      OBVIOUS
    <3> HIDE DEF l
    <3>2. QED
      BY <2>1, <3>1, Mapped
  <2>3. ToSet(l) = axes(v)
    BY DEF ToSet
  <2>4. QED
    BY <2>2, <2>3, FiniteList
<1>3. SequenceOK(sets) /\ DOMAIN sets = DOMAIN extra
  <2>1. sets = [k \in DOMAIN extra |-> sets[k]]
    OBVIOUS
  <2> HIDE DEF sets, extra
  <2>2. QED
    BY <1>1, <2>1, Mapped
<1>4. ToSet(sets) = {axes(v) : v \in ToSet(extra)}
  BY DEF ToSet
<1>5. IsFiniteSet(ToSet(sets))
  BY <1>3, FiniteList
<1>6. \A T \in ToSet(sets) : IsFiniteSet(T)
  BY <1>2, <1>4
<1>7. UNION ToSet(sets) = Axes(extra)
  BY <1>4 DEF Axes
<1>8. IsFiniteSet(Axes(extra))
  <2> HIDE DEF sets, extra
  <2>1. IsFiniteSet(UNION ToSet(sets))
    BY <1>5, <1>6, FS_UNION
  <2>2. QED
    BY <1>7, <2>1
<1> DEFINE all == Axes(extra)
           first == [axis \in all |-> axis[1]]
           names == {axis[1] : axis \in all}
<1>9. first \in Surjection(all, names)
  <2> HIDE DEF all
  <2>1. QED
    BY DEF Surjection
<1>10. IsFiniteSet(names)
  BY <1>8, <1>9, FS_Surjection
<1>11. Further(f) \in SUBSET names
  BY DEF Further
<1>12. QED
  BY <1>10, <1>11, FS_Subset

\* A finite set in some order.
LEMMA InSomeOrder ==
  ASSUME NEW S, IsFiniteSet(S)
  PROVE  SequenceOK(SetToSeq(S)) /\ ToSet(SetToSeq(S)) = S /\ NoRepeats(SetToSeq(S))
<1> DEFINE len == Cardinality(S)
           l == SetToSeq(S)
<1>1. len \in Nat /\ ExistsBijection(1..len, S)
  BY FS_CardinalityType
<1>2. \E f \in [1..len -> S] : IsInjective(f)
  BY <1>1 DEF ExistsBijection, Bijection, Injection
<1>3. l \in [1..len -> S] /\ IsInjective(l)
  BY <1>2 DEF SetToSeq
<1>4. IsFiniteSet(1..len) /\ Cardinality(1..len) = len
  BY <1>1, FS_Interval
<1> HIDE DEF l
<1>5. l \in Injection(1..len, S)
  BY <1>3 DEF Injection
<1>6. l \in Surjection(1..len, S)
  BY <1>4, <1>5, FS_Injection
<1>7. ToSet(l) = S
  BY <1>3, <1>6 DEF Surjection, ToSet
<1>8. SequenceOK(l)
  <2>1. l = [i \in 1..len |-> l[i]]
    BY <1>3
  <2>2. QED
    BY <1>1, <2>1, IsList
<1>9. NoRepeats(l)
  BY <1>3 DEF IsInjective, NoRepeats
<1>10. QED
  BY <1>7, <1>8, <1>9 DEF l

LEMMA SavedDimensionsAre ==
  ASSUME NEW f, FileOK(f), ExtrasFit(f)
  PROVE  /\ SequenceOK(SavedDimensions(f)) /\ NoRepeats(SavedDimensions(f))
         /\ ToSet(SavedDimensions(f)) = ToSet(Dimensions) \cup Further(f)
<1> DEFINE l == SetToSeq(Further(f))
<1>1. SequenceOK(l) /\ ToSet(l) = Further(f) /\ NoRepeats(l)
  BY FurtherFinite, InSomeOrder
<1>2. SavedDimensions(f) = Dimensions \o l
  BY DEF SavedDimensions, Further
<1>3. SequenceOK(Dimensions) /\ NoRepeats(Dimensions)
  <2>1. Dimensions = [i \in 1..6 |-> Dimensions[i]]
    BY DEF Dimensions
  <2>2. SequenceOK(Dimensions)
    BY <2>1, IsList
  <2>3. NoRepeats(Dimensions)
    BY DEF NoRepeats, Dimensions
  <2>4. QED
    BY <2>2, <2>3
<1>4. ToSet(Dimensions) \cap Further(f) = {}
  BY DEF Further
<1> HIDE DEF l
<1>5. SequenceOK(Dimensions \o l) /\ NoRepeats(Dimensions \o l)
      /\ ToSet(Dimensions \o l) = ToSet(Dimensions) \cup ToSet(l)
  BY <1>1, <1>3, <1>4, Joined, NoRepeatsJoined
<1>6. QED
  BY <1>1, <1>2, <1>5

\* The axes that have names: those of the File's variables, and the defaults'.
LEMMA AxesAre ==
  ASSUME NEW f, FileOK(f), ExtrasFit(f), NEW axis \in Axes(SavedVariables(f))
  PROVE  axis \in Axes(f.variables) \/ axis = <<"I", 1>> \/ axis = <<"C", 3>>
<1>1. PICK v \in ToSet(SavedVariables(f)) : axis \in {<<v.dims[i], v.shape[i]>> : i \in DOMAIN v.dims}
  BY DEF Axes
<1>2. PICK i \in DOMAIN v.dims : axis = <<v.dims[i], v.shape[i]>>
  BY <1>1
<1>3. ASSUME NEW w \in ToSet(f.variables), v = OwnSaved(f, w)
      PROVE  axis \in Axes(f.variables)
  <2>1. IsVariable(w)
    BY DEF FileOK, IsVariable
  <2>2. v.dims = w.dims /\ v.shape = w.shape
    BY <1>3, <2>1, CompletedIs DEF OwnSaved, Variable
  <2>3. axis \in {<<w.dims[k], w.shape[k]>> : k \in DOMAIN w.dims}
    BY <1>2, <2>2
  <2>4. QED
    BY <2>3 DEF Axes
<1>4. ASSUME NEW w \in ToSet(MissingVariables(f)), v = DefaultSaved(f, w)
      PROVE  axis = <<"I", 1>> \/ axis = <<"C", 3>>
  <2>1. IsVariable(w) /\ w.dims = <<"I", "C">> /\ w.shape = <<1, 3>>
    BY MissingVariablesFit DEF DefaultOK, IsVariable
  <2>2. v.dims = w.dims /\ v.shape = w.shape
    BY <1>4, <2>1, CompletedIs DEF DefaultSaved, Variable
  <2>3. i = 1 \/ i = 2
    BY <1>2, <2>1, <2>2
  <2>4. QED
    BY <1>2, <2>1, <2>2, <2>3
<1>5. QED
  BY <1>3, <1>4, SavedVariablesAre

\* The scale of an axis has its size.
LEMMA SizesAgree ==
  ASSUME NEW f, FileOK(f), ExtrasFit(f), NEW axis \in Axes(SavedVariables(f))
  PROVE  SizeOf(f, axis[1]) = axis[2]
<1>1. /\ DOMAIN Sizes(f) = {"M", "R", "E", "N", "C", "I"}
      /\ Sizes(f)["C"] = 3 /\ Sizes(f)["I"] = 1
  BY DEF Sizes
<1>2. /\ \A a, b \in Axes(f.variables) : a[1] = b[1] => a[2] = b[2]
      /\ \A a \in Axes(f.variables) : a[1] \in DOMAIN Sizes(f) => a[2] = Sizes(f)[a[1]]
  BY DEF ExtrasFit
<1>3. CASE axis[1] \in DOMAIN Sizes(f)
  <2>1. SizeOf(f, axis[1]) = Sizes(f)[axis[1]]
    BY <1>3 DEF SizeOf
  <2>2. CASE axis \in Axes(f.variables)
    BY <1>2, <1>3, <2>1, <2>2
  <2>3. CASE axis = <<"I", 1>>
    BY <1>1, <2>1, <2>3
  <2>4. CASE axis = <<"C", 3>>
    BY <1>1, <2>1, <2>4
  <2>5. QED
    BY <2>2, <2>3, <2>4, AxesAre
<1>4. CASE axis[1] \notin DOMAIN Sizes(f)
  <2>1. \A a \in Axes(SavedVariables(f)) : a[1] = axis[1] => a \in Axes(f.variables)
    <3>1. TAKE a \in Axes(SavedVariables(f))
    <3>2. HAVE a[1] = axis[1]
    <3>3. a # <<"I", 1>> /\ a # <<"C", 3>>
      BY <1>1, <1>4, <3>2
    <3>4. QED
      BY <3>3, AxesAre
  <2> DEFINE a == CHOOSE a \in Axes(SavedVariables(f)) : a[1] = axis[1]
  <2>2. SizeOf(f, axis[1]) = a[2]
    BY <1>4 DEF SizeOf
  <2>3. a \in Axes(SavedVariables(f)) /\ a[1] = axis[1]
    OBVIOUS
  <2> HIDE DEF a
  <2>4. a \in Axes(f.variables) /\ axis \in Axes(f.variables)
    BY <2>1, <2>3
  <2>5. QED
    BY <1>2, <2>2, <2>3, <2>4
<1>5. QED
  BY <1>3, <1>4

\* The further dimensions have names of their own.
LEMMA FurtherNew ==
  ASSUME NEW f, FileOK(f), ExtrasFit(f), NEW d \in Further(f)
  PROVE  d \notin Names(f.variables) \cup DOMAIN WrittenVariables(f) \cup Names(MissingVariables(f))
<1>1. PICK axis \in Axes(SavedVariables(f)) : d = axis[1]
  BY DEF Further
<1>2. d \notin ToSet(Dimensions)
  BY DEF Further
<1>3. DOMAIN Sizes(f) = ToSet(Dimensions)
  BY DimensionsAre DEF Sizes
<1>4. axis \in Axes(f.variables)
  <2>1. axis # <<"I", 1>> /\ axis # <<"C", 3>>
    BY <1>1, <1>2, DimensionsAre
  <2>2. QED
    BY <2>1, AxesAre
<1>5. axis[1] \notin Names(f.variables) \cup DOMAIN WrittenOrMissing(f)
  BY <1>1, <1>2, <1>3, <1>4 DEF ExtrasFit
<1>6. QED
  BY <1>1, <1>5, WrittenOrMissingIs

Scales(f) == [i \in DOMAIN SavedDimensions(f) |-> ScaleOf(f, SavedDimensions(f)[i])]

LEMMA ScalesFit ==
  ASSUME NEW f, FileOK(f), ExtrasFit(f)
  PROVE  /\ SequenceOK(Scales(f)) /\ Distinct(Scales(f))
         /\ Names(Scales(f)) = ToSet(SavedDimensions(f))
         /\ ToSet(Scales(f)) = {ScaleOf(f, d) : d \in ToSet(SavedDimensions(f))}
<1> DEFINE dims == SavedDimensions(f)
           s == Scales(f)
<1>1. SequenceOK(dims) /\ NoRepeats(dims)
  BY SavedDimensionsAre
<1>2. s = [i \in DOMAIN dims |-> ScaleOf(f, dims[i])]
  BY DEF Scales
<1>3. \A d : ScaleOf(f, d).name = d
  BY ScaleFits
<1> HIDE DEF s, dims
<1>4. s = [i \in DOMAIN dims |-> s[i]] /\ \A i \in DOMAIN dims : s[i] = ScaleOf(f, dims[i])
  BY <1>2
<1>5. SequenceOK(s) /\ DOMAIN s = DOMAIN dims
  BY <1>1, <1>4, Mapped
<1>6. \A i \in DOMAIN s : s[i].name = dims[i]
  BY <1>3, <1>4, <1>5
<1>7. Distinct(s) /\ Names(s) = ToSet(dims)
  BY <1>1, <1>5, <1>6 DEF Distinct, NoRepeats, Names, ToSet
<1>8. ToSet(s) = {ScaleOf(f, d) : d \in ToSet(dims)}
  BY <1>4, <1>5 DEF ToSet
<1>9. QED
  BY <1>5, <1>7, <1>8 DEF s, dims

ExtraSets(f) == [i \in DOMAIN SavedVariables(f) |-> Attached(SavedVariables(f)[i])]

LEMMA ExtrasAre ==
  ASSUME NEW f, FileOK(f), ExtrasFit(f)
  PROVE  /\ SequenceOK(ExtraSets(f)) /\ Distinct(ExtraSets(f))
         /\ Names(ExtraSets(f)) = Names(f.variables) \cup Names(MissingVariables(f))
         /\ ToSet(ExtraSets(f)) = {Attached(v) : v \in ToSet(SavedVariables(f))}
<1> DEFINE extra == SavedVariables(f)
           s == ExtraSets(f)
<1>1. /\ SequenceOK(extra) /\ Distinct(extra)
      /\ Names(extra) = Names(f.variables) \cup Names(MissingVariables(f))
  BY SavedVariablesAre
<1>2. s = [i \in DOMAIN extra |-> Attached(extra[i])]
  BY DEF ExtraSets
<1>3. ASSUME NEW v \in ToSet(extra) PROVE Attached(v).name = v.name
  BY SavedVariablesFit, AttachedIs
<1> HIDE DEF s, extra
<1>4. s = [i \in DOMAIN extra |-> s[i]] /\ \A i \in DOMAIN extra : s[i] = Attached(extra[i])
  BY <1>2
<1>5. \A i \in DOMAIN extra : s[i].name = extra[i].name
  BY <1>3, <1>4 DEF ToSet
<1>6. SequenceOK(s) /\ Distinct(s) /\ Names(s) = Names(extra) /\ DOMAIN s = DOMAIN extra
  BY <1>1, <1>4, <1>5, Mapped
<1>7. ToSet(s) = {Attached(v) : v \in ToSet(extra)}
  BY <1>4, <1>6 DEF ToSet
<1>8. QED
  BY <1>1, <1>6, <1>7 DEF s, extra

\* No dataset is written twice.
LEMMA SavedDatasetsFit ==
  ASSUME NEW f, FileOK(f), ExtrasFit(f)
  PROVE  /\ SequenceOK(SavedDatasets(f)) /\ Distinct(SavedDatasets(f))
         /\ ToSet(SavedDatasets(f)) = {ScaleOf(f, d) : d \in ToSet(SavedDimensions(f))}
                                       \cup ToSet(OwnedVariables(f))
                                       \cup {Attached(v) : v \in ToSet(SavedVariables(f))}
<1> DEFINE a == Scales(f)
           b == OwnedVariables(f)
           c == ExtraSets(f)
           own == DOMAIN WrittenVariables(f)
           D == ToSet(Dimensions)
           extra == Names(f.variables) \cup Names(MissingVariables(f))
<1>1. /\ SequenceOK(a) /\ Distinct(a) /\ Names(a) = D \cup Further(f)
      /\ ToSet(a) = {ScaleOf(f, d) : d \in ToSet(SavedDimensions(f))}
  BY ScalesFit, SavedDimensionsAre
<1>2. SequenceOK(b) /\ Distinct(b) /\ Names(b) = own \ D
  BY OwnedVariablesFit
<1>3. /\ SequenceOK(c) /\ Distinct(c) /\ Names(c) = extra
      /\ ToSet(c) = {Attached(v) : v \in ToSet(SavedVariables(f))}
  BY ExtrasAre
<1>4. D \subseteq own
  BY WrittenIs
<1>5. \A d \in Further(f) : d \notin own \cup extra
  BY FurtherNew
<1>6. own \cap extra = {}
  <2>1. own \cap Names(f.variables) = {}
    <3>1. \A v \in ToSet(f.variables) : v.name \notin DOMAIN WrittenOrMissing(f)
      BY DEF ExtrasFit
    <3>2. QED
      BY <3>1, WrittenOrMissingIs, NamesAre
  <2>2. own \cap Names(MissingVariables(f)) = {}
    <3>1. Names(MissingVariables(f)) \subseteq {"SourceView", "SourceUp"}
      BY MissingVariablesFit
    <3>2. Names(OwnedVariables(f)) = ((PlacedNames \cup AudioNames(f)) \cup Names(RoomList(f)))
      <4>1. OwnedVariables(f) = (PlacedList(f) \o RoomList(f)) \o AudioList(f)
        BY OwnedVariablesAre
      <4>2. SequenceOK(PlacedList(f)) /\ SequenceOK(RoomList(f)) /\ SequenceOK(AudioList(f))
        BY PlacedFits, RoomFits, AudioFits
      <4>3. SequenceOK(PlacedList(f) \o RoomList(f))
        BY <4>2, Joined
      <4>4. Names(OwnedVariables(f)) = (Names(PlacedList(f)) \cup Names(RoomList(f))) \cup Names(AudioList(f))
        BY <4>1, <4>2, <4>3, NamesJoined
      <4>5. QED
        BY <4>4, PlacedFits, AudioFits
    <3>3. Names(RoomList(f)) \subseteq {"RoomVolume"}
      BY RoomFits
    <3>4. own \subseteq PlacedNames \cup AudioNames(f) \cup {"RoomVolume"} \cup D
      BY <1>2, <3>2, <3>3
    <3>5. QED
      BY <3>1, <3>4, DimensionsAre DEF PlacedNames, AudioNames, SamplesName
  <2>3. QED
    BY <2>1, <2>2
<1>7. SavedDatasets(f) = (a \o b) \o c
  BY DEF SavedDatasets, Scales, ExtraSets
<1> HIDE DEF a, b, c, own, D, extra
<1>8. /\ SequenceOK(a \o b) /\ Distinct(a \o b) /\ Names(a \o b) = Names(a) \cup Names(b)
      /\ ToSet(a \o b) = ToSet(a) \cup ToSet(b)
  <2>1. Names(a) \cap Names(b) = {}
    BY <1>1, <1>2, <1>5
  <2>2. QED
    BY <1>1, <1>2, <2>1, Joined, DistinctJoined, NamesJoined
<1> DEFINE ab == a \o b
<1>9. SequenceOK(ab) /\ Distinct(ab) /\ Names(ab) = Names(a) \cup Names(b) /\ ToSet(ab) = ToSet(a) \cup ToSet(b)
  BY <1>8
<1>10. SavedDatasets(f) = ab \o c
  BY <1>7
<1> HIDE DEF ab
<1>11. SequenceOK(ab \o c) /\ Distinct(ab \o c) /\ ToSet(ab \o c) = ToSet(ab) \cup ToSet(c)
  <2>1. Names(ab) \cap Names(c) = {}
    BY <1>1, <1>2, <1>3, <1>4, <1>5, <1>6, <1>9
  <2>2. QED
    BY <1>3, <1>9, <2>1, Joined, DistinctJoined
<1>12. QED
  BY <1>1, <1>3, <1>9, <1>10, <1>11 DEF b

-----------------------------------------------------------------------------
(* What Save writes can be read.                                           *)

\* WrittenOnce, of one file.
Once(d) ==
  /\ Distinct(d.root) /\ Distinct(d.datasets)
  /\ \A v \in ToSet(d.datasets) :
       /\ Distinct(v.attrs)
       /\ \A i \in DOMAIN v.dims :
            \E scale \in ToSet(d.datasets) :
              scale.scale /\ scale.name = v.dims[i] /\ scale.shape = <<v.shape[i]>>

LEMMA SaveOfIs ==
  ASSUME NEW f, NEW version, NEW now
  PROVE  /\ DOMAIN SaveOf(f, version, now) = {"root", "datasets"}
         /\ SaveOf(f, version, now).root = SavedRoot(f, version, now)
         /\ SaveOf(f, version, now).datasets = SavedDatasets(f)
  BY DEF SaveOf

LEMMA SavedDatasetFits ==
  ASSUME NEW f, FileOK(f), ExtrasFit(f), NEW v \in ToSet(SavedDatasets(f))
  PROVE  /\ DatasetFits(v)
         /\ v.dims = <<>> \/ \E w \in ToSet(SavedVariables(f)) : v = Attached(w) /\ v.dims = w.dims /\ v.shape = w.shape
<1>1. CASE \E d \in ToSet(SavedDimensions(f)) : v = ScaleOf(f, d)
  <2>1. PICK d \in ToSet(SavedDimensions(f)) : v = ScaleOf(f, d)
    BY <1>1
  <2>2. DatasetFits(ScaleOf(f, d)) /\ ScaleOf(f, d).dims = <<>>
    BY ScaleFits
  <2>3. QED
    BY <2>1, <2>2
<1>2. CASE v \in ToSet(OwnedVariables(f))
  BY <1>2, OwnedVariablesFit DEF OwnFits
<1>3. CASE \E w \in ToSet(SavedVariables(f)) : v = Attached(w)
  <2>1. PICK w \in ToSet(SavedVariables(f)) : v = Attached(w)
    BY <1>3
  <2>2. v.dims = w.dims /\ v.shape = w.shape
    BY <2>1, SavedVariablesFit, AttachedIs
  <2>3. DatasetFits(v)
    BY <2>1, AttachedFits
  <2>4. QED
    BY <2>1, <2>2, <2>3
<1>4. QED
  BY <1>1, <1>2, <1>3, SavedDatasetsFit

LEMMA SavedOnce ==
  ASSUME NEW f, FileOK(f), ExtrasFit(f), NEW version, NEW now
  PROVE  Once(SaveOf(f, version, now))
<1> DEFINE d == SaveOf(f, version, now)
<1>1. d.root = SavedRoot(f, version, now) /\ d.datasets = SavedDatasets(f)
  BY SaveOfIs
<1> HIDE DEF d
<1>2. Distinct(d.root)
  <2>1. SequenceOK(f.attributes) /\ AttributesFit(f.attributes, GlobalFields \cup NetCDF)
    BY DEF FileOK, ExtrasFit
  <2>2. QED
    BY <1>1, <2>1, SavedRootFits
<1>3. Distinct(d.datasets)
  BY <1>1, SavedDatasetsFit
<1>4. ASSUME NEW v \in ToSet(d.datasets) PROVE Distinct(v.attrs)
  BY <1>1, SavedDatasetFits DEF DatasetFits
<1>5. ASSUME NEW v \in ToSet(d.datasets), NEW i \in DOMAIN v.dims
      PROVE  \E scale \in ToSet(d.datasets) :
               scale.scale /\ scale.name = v.dims[i] /\ scale.shape = <<v.shape[i]>>
  <2>1. v.dims # <<>>
    BY <1>5
  <2>2. PICK w \in ToSet(SavedVariables(f)) : v.dims = w.dims /\ v.shape = w.shape
    BY <1>1, <2>1, SavedDatasetFits
  <2> DEFINE axis == <<w.dims[i], w.shape[i]>>
             s == ScaleOf(f, axis[1])
  <2>3. axis \in Axes(SavedVariables(f))
    <3>1. axis \in {<<w.dims[k], w.shape[k]>> : k \in DOMAIN w.dims}
      BY <2>2
    <3> HIDE DEF axis
    <3>2. QED
      BY <3>1 DEF Axes
  <2>4. axis[1] = v.dims[i] /\ axis[2] = v.shape[i]
    BY <2>2
  <2> HIDE DEF axis
  <2>5. axis[1] \in ToSet(SavedDimensions(f))
    <3>1. axis[1] \in ToSet(Dimensions) \cup Further(f)
      BY <2>3 DEF Further
    <3>2. QED
      BY <3>1, SavedDimensionsAre
  <2>6. s \in ToSet(d.datasets)
    BY <1>1, <2>5, SavedDatasetsFit
  <2>7. s.scale = TRUE /\ s.name = axis[1] /\ s.shape = <<SizeOf(f, axis[1])>>
    BY ScaleFits
  <2>8. SizeOf(f, axis[1]) = axis[2]
    BY <2>3, SizesAgree
  <2> HIDE DEF s
  <2>9. QED
    BY <2>4, <2>6, <2>7, <2>8
<1>6. QED
  BY <1>2, <1>3, <1>4, <1>5 DEF Once, d

\* The sizes are found again.
LEMMA SavedSizes ==
  ASSUME NEW f, FileOK(f), ExtrasFit(f), NEW version, NEW now, NEW size \in {"M", "R", "E"}
  PROVE  /\ HasDataset(SaveOf(f, version, now), size)
         /\ DatasetOf(SaveOf(f, version, now), size).shape = <<f[size]>>
<1> DEFINE d == SaveOf(f, version, now)
           s == ScaleOf(f, size)
<1>1. d.datasets = SavedDatasets(f)
  BY SaveOfIs
<1> HIDE DEF d
<1>2. size \in ToSet(SavedDimensions(f))
  BY SavedDimensionsAre, DimensionsAre
<1>3. s \in ToSet(d.datasets) /\ Distinct(d.datasets)
  BY <1>1, <1>2, SavedDatasetsFit
<1>4. s.name = size /\ s.shape = <<SizeOf(f, size)>>
  BY ScaleFits
<1>5. SizeOf(f, size) = f[size]
  BY DEF SizeOf, Sizes
<1> HIDE DEF s
<1>6. HasDataset(d, s.name) /\ DatasetOf(d, s.name) = s
  BY <1>3, DatasetIn
<1>7. QED
  BY <1>4, <1>5, <1>6 DEF d

LEMMA SavedHistoryIs ==
  ASSUME NEW f, NEW version, SequenceOK(f.history)
  PROVE  SequenceOK(SavedHistory(f, version))
<1>1. SequenceOK(Append(f.history, Resaved(version, f.api)))
  BY Appended
<1>2. QED
  BY <1>1 DEF SavedHistory

LEMMA SavedOK ==
  ASSUME NEW f, FileOK(f), ExtrasFit(f), NEW version, NEW now
  PROVE  DiskOK(SaveOf(f, version, now))
<1> DEFINE d == SaveOf(f, version, now)
<1>1. /\ DOMAIN d = {"root", "datasets"} /\ d.root = SavedRoot(f, version, now)
      /\ d.datasets = SavedDatasets(f)
  BY SaveOfIs
<1> HIDE DEF d
<1>2. SequenceOK(f.attributes) /\ AttributesFit(f.attributes, GlobalFields \cup NetCDF)
  BY DEF FileOK, ExtrasFit
<1>3. SequenceOK(d.root) /\ Distinct(d.root)
  <2>1. SequenceOK(SavedRoot(f, version, now)) /\ Distinct(SavedRoot(f, version, now))
    BY <1>2, SavedRootFits
  <2>2. QED
    BY <1>1, <2>1
<1>4. ValueOf(d.root, "DataType") = <<f.dataType>> /\ ValueOf(d.root, "History") = SavedHistory(f, version)
  <2>1. ReadBack(SavedRoot(f, version, now), f, version, now)
    BY <1>2, SavedValues
  <2>2. QED
    BY <1>1, <2>1 DEF ReadBack
<1>5. ValueOf(d.root, "DataType")[1] \in Types /\ SequenceOK(ValueOf(d.root, "History"))
  BY <1>4, SavedHistoryIs DEF FileOK
<1>6. SequenceOK(d.datasets) /\ Distinct(d.datasets)
  BY <1>1, SavedDatasetsFit
<1>7. \A v \in ToSet(d.datasets) : VariableOK(v)
  BY <1>1, SavedDatasetFits DEF DatasetFits, VariableOK
<1>8. ASSUME NEW size \in {"M", "R", "E"}
      PROVE  HasDataset(d, size) /\ DatasetOf(d, size).shape[1] \in Nat
  <2>1. HasDataset(d, size) /\ DatasetOf(d, size).shape = <<f[size]>>
    BY SavedSizes DEF d
  <2>2. f[size] \in Nat
    BY DEF FileOK
  <2>3. QED
    BY <2>1, <2>2
<1>9. QED
  BY <1>1, <1>3, <1>5, <1>6, <1>7, <1>8 DEF DiskOK, d

-----------------------------------------------------------------------------
(* What Open reads is a File.                                              *)

\* ReadExtras, in its parts.
Known(d, f) == {v \in ToSet(d.datasets) : v.name \in DOMAIN WrittenVariables(f)}
ScalesOf(d, f) == {v \in ToSet(d.datasets) \ Known(d, f) : v.scale}
Readable(d, f) ==
  Filtered(d.datasets, LAMBDA v : v \notin Known(d, f) \cup ScalesOf(d, f)
                                   /\ v.form \in {"numeric", "chars"})
Unreadable(d, f) ==
  ToSet(d.datasets) \ (Known(d, f) \cup ScalesOf(d, f) \cup ToSet(Readable(d, f)))
OwnedOf(f, v) == IF v.name \in DOMAIN WrittenVariables(f) THEN WrittenVariables(f)[v.name] ELSE {}
Attributed(d, f) == {v \in Known(d, f) : KeptAttributes(v, OwnedOf(f, v)) # <<>>}
ReadVariables(d, f) == [i \in DOMAIN Readable(d, f) |-> ReadVariable(Readable(d, f)[i])]
ReadAttributes(d, f) ==
  [name \in {v.name : v \in Attributed(d, f)} |->
     KeptAttributes(DatasetOf(d, name), WrittenVariables(f)[name])]
Dropped(d, f) ==
  OddOnes("", d.root, GlobalFields \cup NetCDF)
  \cup {<<v.name, "">> : v \in Unreadable(d, f)
                           \cup {s \in ScalesOf(d, f) : KeptAttributes(s, {}) # <<>>}}
  \cup UNION {OddOnes(v.name, v.attrs, Plumbing \cup OwnedOf(f, v)) :
                v \in ToSet(d.datasets) \ Unreadable(d, f)}

LEMMA ReadExtrasIs ==
  ASSUME NEW d, NEW f
  PROVE  ReadExtras(d, f) =
           [f EXCEPT !.attributes = KeptGlobals(d), !.variables = ReadVariables(d, f),
                     !.variableAttributes = ReadAttributes(d, f), !.dropped = Dropped(d, f)]
  BY Zenon DEF ReadExtras, Known, ScalesOf, Readable, Unreadable, OwnedOf, Attributed, ReadVariables,
         ReadAttributes, Dropped

\* What is not of the extras.
Opened(d) ==
  LET text(name) == ValueOf(d.root, name)
      size(name) == DatasetOf(d, name).shape[1]
      data(name) == IF HasDataset(d, name) THEN DatasetOf(d, name).data ELSE <<>>
  IN    [convention |-> text("SOFAConventions")[1],
         conventionVersion |-> text("SOFAConventionsVersion")[1],
         version |-> text("Version")[1],
         dataType |-> text("DataType")[1],
         M |-> size("M"), R |-> size("R"), E |-> size("E"),
         view |-> data("ListenerView"), up |-> data("ListenerUp"),
         emitters |-> data("EmitterPosition"),
         emitterType |-> IF HasDataset(d, "EmitterPosition")
                         THEN ValueOf(DatasetOf(d, "EmitterPosition").attrs, "Type") ELSE <<>>,
         roomType |-> text("RoomType"),
         roomVolume |-> RoomVolumeOf(d),
         texts |-> [name \in ToSet(Texts) |-> text(name)],
         api |-> Api(text("APIName"), text("APIVersion")),
         history |-> text("History"),
         created |-> text("DateCreated"),
         attributes |-> <<>>, variables |-> <<>>, variableAttributes |-> <<>>, dropped |-> {}]

LEMMA OpenOfIs ==
  ASSUME NEW d
  PROVE  OpenOf(d) = ReadExtras(d, Opened(d))
  BY Zenon DEF OpenOf, Opened

DataOf(d, name) == IF HasDataset(d, name) THEN DatasetOf(d, name).data ELSE <<>>

TextsOf(d) == [n \in ToSet(Texts) |-> ValueOf(d.root, n)]

\* A File as Open reads it, field by field.
OpenedAs(g, d) ==
  LET f == Opened(d)
  IN  /\ g.convention = ValueOf(d.root, "SOFAConventions")[1]
      /\ g.conventionVersion = ValueOf(d.root, "SOFAConventionsVersion")[1]
      /\ g.version = ValueOf(d.root, "Version")[1]
      /\ g.dataType = ValueOf(d.root, "DataType")[1]
      /\ g.M = DatasetOf(d, "M").shape[1] /\ g.R = DatasetOf(d, "R").shape[1]
      /\ g.E = DatasetOf(d, "E").shape[1]
      /\ g.emitterType = IF HasDataset(d, "EmitterPosition")
                         THEN ValueOf(DatasetOf(d, "EmitterPosition").attrs, "Type") ELSE <<>>
      /\ g.emitters = DataOf(d, "EmitterPosition") /\ g.view = DataOf(d, "ListenerView")
      /\ g.up = DataOf(d, "ListenerUp")
      /\ g.roomType = ValueOf(d.root, "RoomType") /\ g.roomVolume = RoomVolumeOf(d)
      /\ g.texts = TextsOf(d) /\ g.created = ValueOf(d.root, "DateCreated")
      /\ g.api = Api(ValueOf(d.root, "APIName"), ValueOf(d.root, "APIVersion"))
      /\ g.history = ValueOf(d.root, "History")
      /\ g.attributes = KeptGlobals(d) /\ g.variables = ReadVariables(d, f)
      /\ g.variableAttributes = ReadAttributes(d, f) /\ g.dropped = Dropped(d, f)

LEMMA OpenOfAs ==
  ASSUME NEW d
  PROVE  /\ OpenedAs(OpenOf(d), d)
         /\ DOMAIN OpenOf(d) =
              {"convention", "conventionVersion", "version", "dataType", "M", "R", "E", "view",
               "up", "emitters", "emitterType", "roomType", "roomVolume", "texts", "api",
               "history", "created", "attributes", "variables", "variableAttributes", "dropped"}
<1> DEFINE f == Opened(d)
           a == KeptGlobals(d)
           v == ReadVariables(d, f)
           va == ReadAttributes(d, f)
           dr == Dropped(d, f)
           g == OpenOf(d)
<1>1. g = [f EXCEPT !.attributes = a, !.variables = v, !.variableAttributes = va, !.dropped = dr]
  BY OpenOfIs, ReadExtrasIs
<1> HIDE DEF a, v, va, dr, g
<1>2. DOMAIN f = {"convention", "conventionVersion", "version", "dataType", "M", "R", "E", "view",
               "up", "emitters", "emitterType", "roomType", "roomVolume", "texts", "api",
               "history", "created", "attributes", "variables", "variableAttributes", "dropped"}
  BY DEF Opened
<1>3. /\ f.convention = ValueOf(d.root, "SOFAConventions")[1]
      /\ f.conventionVersion = ValueOf(d.root, "SOFAConventionsVersion")[1]
      /\ f.version = ValueOf(d.root, "Version")[1]
      /\ f.dataType = ValueOf(d.root, "DataType")[1]
      /\ f.M = DatasetOf(d, "M").shape[1] /\ f.R = DatasetOf(d, "R").shape[1]
      /\ f.E = DatasetOf(d, "E").shape[1]
      /\ f.emitterType = IF HasDataset(d, "EmitterPosition")
                         THEN ValueOf(DatasetOf(d, "EmitterPosition").attrs, "Type") ELSE <<>>
      /\ f.emitters = DataOf(d, "EmitterPosition") /\ f.view = DataOf(d, "ListenerView")
      /\ f.up = DataOf(d, "ListenerUp")
      /\ f.roomType = ValueOf(d.root, "RoomType") /\ f.roomVolume = RoomVolumeOf(d)
      /\ f.texts = TextsOf(d) /\ f.created = ValueOf(d.root, "DateCreated")
      /\ f.api = Api(ValueOf(d.root, "APIName"), ValueOf(d.root, "APIVersion"))
      /\ f.history = ValueOf(d.root, "History")
  BY DEF Opened, DataOf, TextsOf
<1> HIDE DEF f
<1>4. DOMAIN g = DOMAIN f
  BY <1>1, Zenon
<1>5. /\ g.attributes = a /\ g.variables = v /\ g.variableAttributes = va /\ g.dropped = dr
  BY <1>1, <1>2
<1>6. /\ g.convention = f.convention /\ g.conventionVersion = f.conventionVersion
      /\ g.version = f.version /\ g.dataType = f.dataType /\ g.M = f.M /\ g.R = f.R /\ g.E = f.E
      /\ g.emitterType = f.emitterType /\ g.roomType = f.roomType /\ g.roomVolume = f.roomVolume
      /\ g.api = f.api /\ g.history = f.history /\ g.emitters = f.emitters /\ g.view = f.view
      /\ g.up = f.up /\ g.texts = f.texts /\ g.created = f.created
  BY <1>1, <1>2
<1>7. OpenedAs(g, d)
  BY <1>3, <1>5, <1>6 DEF OpenedAs, f, a, v, va, dr
<1>8. QED
  BY <1>2, <1>4, <1>7 DEF g

LEMMA KeptIs ==
  ASSUME NEW v, SequenceOK(v.attrs), NEW owned
  PROVE  /\ SequenceOK(KeptAttributes(v, owned))
         /\ ToSet(KeptAttributes(v, owned)) =
              {a \in ToSet(v.attrs) : a.name \notin Plumbing \cup owned /\ a.value # Odd}
         /\ Distinct(v.attrs) => Distinct(KeptAttributes(v, owned))
<1> DEFINE l == v.attrs
           places == {i \in DOMAIN l : l[i].name \notin Plumbing \cup owned /\ l[i].value # Odd}
<1>1. KeptAttributes(v, owned) = Chosen(l, places)
  BY DEF KeptAttributes, Filtered
<1>2. ToSet(l) = {l[i] : i \in DOMAIN l}
  BY DEF ToSet
<1> HIDE DEF l
<1>3. /\ SequenceOK(Chosen(l, places)) /\ ToSet(Chosen(l, places)) = {l[p] : p \in places}
      /\ Distinct(l) => Distinct(Chosen(l, places))
  BY Picked DEF l
<1>4. {l[p] : p \in places} =
        {a \in ToSet(l) : a.name \notin Plumbing \cup owned /\ a.value # Odd}
  BY <1>2
<1>5. QED
  BY <1>1, <1>3, <1>4 DEF l

LEMMA KeptGlobalsAre ==
  ASSUME NEW d, SequenceOK(d.root)
  PROVE  /\ SequenceOK(KeptGlobals(d))
         /\ ToSet(KeptGlobals(d)) =
              {a \in ToSet(d.root) : a.name \notin GlobalFields \cup NetCDF /\ a.value # Odd}
         /\ Distinct(d.root) => Distinct(KeptGlobals(d))
<1> DEFINE l == d.root
           places == {i \in DOMAIN l : l[i].name \notin GlobalFields \cup NetCDF /\ l[i].value # Odd}
<1>1. KeptGlobals(d) = Chosen(l, places)
  BY DEF KeptGlobals, Filtered
<1>2. ToSet(l) = {l[i] : i \in DOMAIN l}
  BY DEF ToSet
<1> HIDE DEF l
<1>3. /\ SequenceOK(Chosen(l, places)) /\ ToSet(Chosen(l, places)) = {l[p] : p \in places}
      /\ Distinct(l) => Distinct(Chosen(l, places))
  BY Picked DEF l
<1>4. {l[p] : p \in places} =
        {a \in ToSet(l) : a.name \notin GlobalFields \cup NetCDF /\ a.value # Odd}
  BY <1>2
<1>5. QED
  BY <1>1, <1>3, <1>4 DEF l

LEMMA ReadableAre ==
  ASSUME NEW d, NEW f, SequenceOK(d.datasets)
  PROVE  /\ SequenceOK(Readable(d, f))
         /\ ToSet(Readable(d, f)) =
              {v \in ToSet(d.datasets) : /\ v \notin Known(d, f) \cup ScalesOf(d, f)
                                         /\ v.form \in {"numeric", "chars"}}
         /\ Distinct(d.datasets) => Distinct(Readable(d, f))
<1> DEFINE l == d.datasets
           out == Known(d, f) \cup ScalesOf(d, f)
           places == {i \in DOMAIN l : l[i] \notin out /\ l[i].form \in {"numeric", "chars"}}
<1>1. Readable(d, f) = Chosen(l, places)
  BY DEF Readable, Filtered
<1>2. ToSet(l) = {l[i] : i \in DOMAIN l}
  BY DEF ToSet
<1> HIDE DEF l, out
<1>3. /\ SequenceOK(Chosen(l, places)) /\ ToSet(Chosen(l, places)) = {l[p] : p \in places}
      /\ Distinct(l) => Distinct(Chosen(l, places))
  BY Picked DEF l
<1>4. {l[p] : p \in places} = {v \in ToSet(l) : v \notin out /\ v.form \in {"numeric", "chars"}}
  BY <1>2
<1>5. QED
  BY <1>1, <1>3, <1>4 DEF l, out
LEMMA ReadVariableOK ==
  ASSUME NEW v, VariableOK(v)
  PROVE  LET r == ReadVariable(v)
         IN  r = Variable(r.name, r.dims, r.shape, r.form, r.data, r.attrs) /\ VariableOK(r)
<1> DEFINE r == ReadVariable(v)
           dims == IF Len(v.dims) = Len(v.shape) THEN v.dims ELSE <<>>
           attrs == KeptAttributes(v, {})
<1>1. r = Variable(v.name, dims, v.shape, v.form, v.data, attrs)
  BY DEF ReadVariable
<1>2. SequenceOK(dims) /\ SequenceOK(v.shape) /\ SequenceOK(attrs)
  BY EmptyList, KeptIs DEF VariableOK
<1> HIDE DEF dims, attrs, r
<1>3. r.name = v.name /\ r.dims = dims /\ r.shape = v.shape /\ r.form = v.form /\ r.data = v.data
      /\ r.attrs = attrs
  BY <1>1 DEF Variable
<1>4. r = Variable(r.name, r.dims, r.shape, r.form, r.data, r.attrs)
  BY <1>1, <1>3, Zenon
<1>5. VariableOK(r)
  BY <1>2, <1>3 DEF VariableOK
<1>6. QED
  BY <1>4, <1>5 DEF r

\* Whatever can be in a file, Open reads a File.
LEMMA OpenedOK ==
  ASSUME NEW d, DiskOK(d)
  PROVE  FileOK(OpenOf(d))
<1> DEFINE g == OpenOf(d)
           f == Opened(d)
<1>1. OpenedAs(g, d)
  BY OpenOfAs
<1>2. DOMAIN g = {"convention", "conventionVersion", "version", "dataType", "M", "R", "E", "view",
                  "up", "emitters", "emitterType", "roomType", "roomVolume", "texts", "api",
                  "history", "created", "attributes", "variables", "variableAttributes", "dropped"}
  BY OpenOfAs
<1> HIDE DEF g
<1>3. /\ SequenceOK(d.root) /\ SequenceOK(d.datasets) /\ Distinct(d.datasets)
      /\ \A v \in ToSet(d.datasets) : VariableOK(v)
  BY DEF DiskOK
<1>4. /\ g.dataType \in Types /\ {g.M, g.R, g.E} \subseteq Nat /\ SequenceOK(g.history)
      /\ DOMAIN g.texts = ToSet(Texts)
  BY <1>1 DEF DiskOK, OpenedAs, TextsOf
<1>5. SequenceOK(g.attributes)
  BY <1>1, <1>3, KeptGlobalsAre DEF OpenedAs
<1>6. /\ SequenceOK(Readable(d, f))
      /\ \A v \in ToSet(Readable(d, f)) : v \in ToSet(d.datasets) /\ v.form \in {"numeric", "chars"}
  <2>1. SequenceOK(Readable(d, f))
    BY <1>3, ReadableAre
  <2>2. ToSet(Readable(d, f)) =
              {v \in ToSet(d.datasets) : /\ v \notin Known(d, f) \cup ScalesOf(d, f)
                                         /\ v.form \in {"numeric", "chars"}}
    BY <1>3, ReadableAre
  <2> HIDE DEF f
  <2>3. QED
    BY <2>1, <2>2
<1>7. g.variables = ReadVariables(d, f) /\ g.variableAttributes = ReadAttributes(d, f)
      /\ g.dropped = Dropped(d, f)
  BY <1>1 DEF OpenedAs
<1> HIDE DEF f
<1>8. /\ SequenceOK(g.variables)
      /\ \A v \in ToSet(g.variables) : \E w \in ToSet(Readable(d, f)) : v = ReadVariable(w)
  <2> DEFINE l == Readable(d, f)
             vs == ReadVariables(d, f)
  <2>1. vs = [i \in DOMAIN l |-> ReadVariable(l[i])]
    BY DEF ReadVariables
  <2> HIDE DEF l, vs
  <2>2. vs = [i \in DOMAIN l |-> vs[i]] /\ DOMAIN vs = DOMAIN l
        /\ \A i \in DOMAIN l : vs[i] = ReadVariable(l[i])
    BY <2>1
  <2>3. SequenceOK(l)
    BY <1>6 DEF l
  <2>4. SequenceOK(vs)
    BY <2>2, <2>3, Mapped
  <2>5. ASSUME NEW v \in ToSet(vs) PROVE \E w \in ToSet(l) : v = ReadVariable(w)
    <3>1. PICK i \in DOMAIN l : v = vs[i]
      BY <2>2 DEF ToSet
    <3>2. l[i] \in ToSet(l) /\ v = ReadVariable(l[i])
      BY <2>2, <3>1 DEF ToSet
    <3>3. QED
      BY <3>2
  <2>6. QED
    BY <1>7, <2>4, <2>5 DEF l, vs
<1>9. ASSUME NEW v \in ToSet(g.variables)
      PROVE  /\ v = Variable(v.name, v.dims, v.shape, v.form, v.data, v.attrs)
             /\ VariableOK(v) /\ v.form \in {"numeric", "chars"}
  <2>1. PICK w \in ToSet(Readable(d, f)) : v = ReadVariable(w)
    BY <1>8
  <2>2. VariableOK(w) /\ w.form \in {"numeric", "chars"}
    BY <1>3, <1>6
  <2>3. v.form = w.form
    BY <2>1 DEF ReadVariable, Variable
  <2>4. QED
    BY <2>1, <2>2, <2>3, ReadVariableOK
<1>10. ASSUME NEW name \in DOMAIN g.variableAttributes
       PROVE  SequenceOK(g.variableAttributes[name]) /\ g.variableAttributes[name] # <<>>
  <2>1. PICK v \in Attributed(d, f) : v.name = name
    BY <1>7 DEF ReadAttributes
  <2>2. g.variableAttributes[name] = KeptAttributes(DatasetOf(d, name), WrittenVariables(f)[name])
    BY <1>7, <2>1 DEF ReadAttributes
  <2>3. v \in ToSet(d.datasets) /\ v.name \in DOMAIN WrittenVariables(f)
        /\ KeptAttributes(v, OwnedOf(f, v)) # <<>>
    BY <2>1 DEF Attributed, Known
  <2>4. DatasetOf(d, name) = v /\ OwnedOf(f, v) = WrittenVariables(f)[name]
    BY <1>3, <2>1, <2>3, DatasetIn DEF OwnedOf
  <2>5. SequenceOK(KeptAttributes(v, OwnedOf(f, v)))
    BY <1>3, <2>3, KeptIs DEF VariableOK
  <2>6. QED
    BY <2>2, <2>3, <2>4, <2>5
<1>11. ASSUME NEW what \in g.dropped PROVE Len(what) = 2
  <2>1. \/ what \in OddOnes("", d.root, GlobalFields \cup NetCDF)
        \/ \E v : what = <<v.name, "">>
        \/ \E v : what \in OddOnes(v.name, v.attrs, Plumbing \cup OwnedOf(f, v))
    BY <1>7 DEF Dropped
  <2>2. \E x, y : what = <<x, y>>
    BY <2>1 DEF OddOnes
  <2>3. QED
    BY <2>2
<1>12. QED
  BY <1>2, <1>4, <1>5, <1>8, <1>9, <1>10, <1>11 DEF FileOK, g

-----------------------------------------------------------------------------
(* What Save wrote, opened again.                                          *)

\* The fields.
Reread(g, f, version, now) ==
  /\ g.convention = f.convention /\ g.conventionVersion = f.conventionVersion
  /\ g.version = f.version /\ g.dataType = f.dataType /\ g.M = f.M /\ g.R = f.R /\ g.E = f.E
  /\ g.view = Or(f.view, "+x") /\ g.up = Or(f.up, "+z") /\ g.emitters = Or(f.emitters, "[0 0 0]")
  /\ g.emitterType = SavedEmitterType(f)
  /\ g.roomType = SavedRoomType(f) /\ g.roomVolume = f.roomVolume
  /\ \A n \in TextNames : g.texts[n] = SavedText(f, n)
  /\ g.api = GoSofa(version) /\ g.history = SavedHistory(f, version)
  /\ g.created = (IF f.created = <<>> THEN now ELSE f.created)

\* What Save writes by name is found by it.
LEMMA OwnedFound ==
  ASSUME NEW f, FileOK(f), ExtrasFit(f), NEW version, NEW now,
         NEW s \in ToSet(OwnedVariables(f))
  PROVE  /\ HasDataset(SaveOf(f, version, now), s.name)
         /\ DatasetOf(SaveOf(f, version, now), s.name) = s
<1> DEFINE d == SaveOf(f, version, now)
<1>1. d.datasets = SavedDatasets(f)
  BY SaveOfIs
<1> HIDE DEF d
<1>2. Distinct(d.datasets) /\ s \in ToSet(d.datasets)
  BY <1>1, SavedDatasetsFit
<1>3. QED
  BY <1>2, DatasetIn DEF d

LEMMA PlacedFound ==
  ASSUME NEW f, FileOK(f), ExtrasFit(f), NEW version, NEW now
  PROVE  LET d == SaveOf(f, version, now)
         IN  /\ HasDataset(d, "EmitterPosition") /\ DatasetOf(d, "EmitterPosition") = EmitterOf(f)
             /\ HasDataset(d, "ListenerUp") /\ DatasetOf(d, "ListenerUp") = UpOf(f)
             /\ HasDataset(d, "ListenerView") /\ DatasetOf(d, "ListenerView") = ViewOf(f)
<1> DEFINE d == SaveOf(f, version, now)
<1>1. EmitterOf(f) \in ToSet(OwnedVariables(f)) /\ UpOf(f) \in ToSet(OwnedVariables(f))
      /\ ViewOf(f) \in ToSet(OwnedVariables(f))
  <2>1. {EmitterOf(f), UpOf(f), ViewOf(f)} \subseteq ToSet(PlacedList(f))
    BY PlacedFits
  <2>2. QED
    BY <2>1, OwnedVariablesFit
<1>2. /\ EmitterOf(f).name = "EmitterPosition" /\ UpOf(f).name = "ListenerUp"
      /\ ViewOf(f).name = "ListenerView"
  BY DEF EmitterOf, UpOf, ViewOf, Owned, Dataset, Variable
<1> HIDE DEF d
<1>3. ASSUME NEW s \in ToSet(OwnedVariables(f))
      PROVE  HasDataset(d, s.name) /\ DatasetOf(d, s.name) = s
  BY OwnedFound DEF d
<1>4. QED
  BY <1>1, <1>2, <1>3 DEF d

LEMMA EmitterTypeFound ==
  ASSUME NEW f, FileOK(f), ExtrasFit(f)
  PROVE  ValueOf(EmitterOf(f).attrs, "Type") = SavedEmitterType(f)
<1> DEFINE type == SavedEmitterType(f)
           own == TypeUnits(type)
           data == Or(f.emitters, "[0 0 0]")
           s == EmitterOf(f)
           a == Attribute("Type", type)
<1>1. SequenceOK(own) /\ Distinct(own) /\ Names(own) = {"Type", "Units"} /\ a \in ToSet(own)
  BY TypeUnitsAre
<1>2. "EmitterPosition" \in DOMAIN WrittenVariables(f)
      /\ WrittenVariables(f)["EmitterPosition"] = {"Type", "Units"}
  <2>1. "EmitterPosition" \in Positions
    BY DEF Positions
  <2>2. \A n \in Positions \cup {"ListenerView", "ListenerUp"} : WrittenVariables(f)[n] = {"Type", "Units"}
    BY WrittenIs
  <2>3. Positions \subseteq DOMAIN WrittenVariables(f)
    BY WrittenIs
  <2>4. WrittenVariables(f)["EmitterPosition"] = {"Type", "Units"}
    BY <2>1, <2>2
  <2>5. QED
    BY <2>1, <2>3, <2>4
<1> HIDE DEF own, data, type
<1>3. OwnedAs(f, Owned(f, "EmitterPosition", data, own), "EmitterPosition", data, own)
  BY <1>1, <1>2, OwnedFits
<1>4. s = Owned(f, "EmitterPosition", data, own)
  BY DEF EmitterOf, data, own, type
<1> HIDE DEF s
<1>5. a \in ToSet(s.attrs) /\ Distinct(s.attrs)
  BY <1>1, <1>3, <1>4 DEF OwnedAs, DatasetFits
<1>6. ValueOf(s.attrs, a.name) = a.value
  <2> HIDE DEF a
  <2>1. QED
    BY <1>5, ValueIn
<1>7. a.name = "Type" /\ a.value = type
  BY DEF Attribute
<1>8. QED
  BY <1>6, <1>7 DEF s, type

\* A dataset named RoomVolume that is not the room's volume has a shape.
LEMMA RoomVolumeFound ==
  ASSUME NEW f, FileOK(f), ExtrasFit(f), NEW version, NEW now,
         ~TakenForField(SaveOf(f, version, now))
  PROVE  RoomVolumeOf(SaveOf(f, version, now)) = f.roomVolume
<1> DEFINE d == SaveOf(f, version, now)
           s == RoomOf(f)
<1>1. ValueOf(d.root, "RoomVolume") = <<>>
  <2>1. SequenceOK(f.attributes) /\ AttributesFit(f.attributes, GlobalFields \cup NetCDF)
    BY DEF FileOK, ExtrasFit
  <2>2. ReadBack(SavedRoot(f, version, now), f, version, now)
    BY <2>1, SavedValues
  <2>3. d.root = SavedRoot(f, version, now)
    BY SaveOfIs
  <2>4. QED
    BY <2>2, <2>3 DEF ReadBack
<1>2. CASE f.roomVolume # "0"
  <2>1. s.name = "RoomVolume" /\ s.data = <<f.roomVolume>> /\ s.form = "numeric"
    BY DEF RoomOf, Owned, Dataset, Variable
  <2>2. s \in ToSet(OwnedVariables(f))
    <3>1. s \in ToSet(RoomList(f))
      BY <1>2, RoomFits
    <3>2. QED
      BY <3>1, OwnedVariablesFit
  <2> HIDE DEF s
  <2>3. HasDataset(d, s.name) /\ DatasetOf(d, s.name) = s
    BY <2>2, OwnedFound
  <2> HIDE DEF d
  <2>4. HasDataset(d, "RoomVolume") /\ DatasetOf(d, "RoomVolume") = s
    BY <2>1, <2>3
  <2>5. RoomVolumeOf(d) = s.data[1]
    BY <2>1, <2>4 DEF RoomVolumeOf, HasNumbers
  <2>6. QED
    BY <2>1, <2>5 DEF d
<1>3. CASE f.roomVolume = "0"
  <2>1. CASE ~HasDataset(d, "RoomVolume")
    <3> HIDE DEF d
    <3>1. RoomVolumeOf(d) = "0"
      BY <1>1, <2>1 DEF RoomVolumeOf
    <3>2. QED
      BY <1>3, <3>1 DEF d
  <2>2. CASE HasDataset(d, "RoomVolume")
    <3> DEFINE v == DatasetOf(d, "RoomVolume")
    <3>1. v \in ToSet(SavedDatasets(f)) /\ v.name = "RoomVolume"
      <4>1. d.datasets = SavedDatasets(f)
        BY SaveOfIs
      <4> HIDE DEF d
      <4>2. QED
        BY <2>2, <4>1, HadDataset
    <3> HIDE DEF v
    <3>2. v.shape # <<>>
      <4>1. CASE \E n \in ToSet(SavedDimensions(f)) : v = ScaleOf(f, n)
        <5>1. PICK n \in ToSet(SavedDimensions(f)) : v = ScaleOf(f, n)
          BY <4>1
        <5>2. v.shape = <<SizeOf(f, n)>>
          BY <5>1, ScaleFits
        <5>3. QED
          BY <5>2
      <4>2. CASE v \in ToSet(OwnedVariables(f))
        <5>1. OwnFits(f, v)
          BY <4>2, OwnedVariablesFit
        <5>2. "RoomVolume" \in DOMAIN WrittenVariables(f) \ ToSet(Dimensions)
          BY <3>1, <5>1 DEF OwnFits
        <5>3. DOMAIN WrittenVariables(f) =
                Positions \cup {"ListenerView", "ListenerUp"}
                \cup (IF IsTF(f) THEN {"Data.Real", "Data.Imag"}
                      ELSE {IF f.dataType = "SOS" THEN "Data.SOS" ELSE "Data.IR", "Data.SamplingRate", "Data.Delay"})
                \cup (IF f.roomVolume = "0" THEN {} ELSE {"RoomVolume"}) \cup ToSet(Dimensions)
          BY WrittenIs
        <5>4. QED
          BY <1>3, <5>2, <5>3 DEF Positions
      <4>3. CASE \E w \in ToSet(SavedVariables(f)) : v = Attached(w)
        <5>1. PICK w \in ToSet(SavedVariables(f)) : v = Attached(w)
          BY <4>3
        <5>2. IsVariable(w) /\ w.shape # <<>>
          BY SavedVariablesFit
        <5>3. v.shape = w.shape
          BY <5>1, <5>2, AttachedIs
        <5>4. QED
          BY <5>2, <5>3
      <4>4. QED
        BY <3>1, <4>1, <4>2, <4>3, SavedDatasetsFit
    <3>3. RoomVolumeOf(d) = "0"
      BY <2>2, <3>2 DEF TakenForField, v
    <3>4. QED
      BY <1>3, <3>3
  <2>3. QED
    BY <2>1, <2>2
<1>4. QED
  BY <1>2, <1>3

LEMMA Reopened ==
  ASSUME NEW f, FileOK(f), ExtrasFit(f), NEW version, NEW now,
         ~TakenForField(SaveOf(f, version, now))
  PROVE  Reread(OpenOf(SaveOf(f, version, now)), f, version, now)
<1> DEFINE d == SaveOf(f, version, now)
           g == OpenOf(d)
<1>1. OpenedAs(g, d)
  BY OpenOfAs
<1>2. ReadBack(d.root, f, version, now)
  <2>1. SequenceOK(f.attributes) /\ AttributesFit(f.attributes, GlobalFields \cup NetCDF)
    BY DEF FileOK, ExtrasFit
  <2>2. ReadBack(SavedRoot(f, version, now), f, version, now)
    BY <2>1, SavedValues
  <2>3. d.root = SavedRoot(f, version, now)
    BY SaveOfIs
  <2>4. QED
    BY <2>2, <2>3
<1>3. /\ HasDataset(d, "EmitterPosition") /\ DatasetOf(d, "EmitterPosition") = EmitterOf(f)
      /\ HasDataset(d, "ListenerUp") /\ DatasetOf(d, "ListenerUp") = UpOf(f)
      /\ HasDataset(d, "ListenerView") /\ DatasetOf(d, "ListenerView") = ViewOf(f)
  BY PlacedFound
<1>4. /\ EmitterOf(f).data = Or(f.emitters, "[0 0 0]") /\ UpOf(f).data = Or(f.up, "+z")
      /\ ViewOf(f).data = Or(f.view, "+x")
  BY DEF EmitterOf, UpOf, ViewOf, Owned, Dataset, Variable
<1>5. ValueOf(EmitterOf(f).attrs, "Type") = SavedEmitterType(f)
  BY EmitterTypeFound
<1>6. RoomVolumeOf(d) = f.roomVolume
  BY RoomVolumeFound
<1>7. \A size \in {"M", "R", "E"} : DatasetOf(d, size).shape = <<f[size]>>
  BY SavedSizes
<1> HIDE DEF d, g
<1>8. g.M = f.M /\ g.R = f.R /\ g.E = f.E
  BY <1>1, <1>7 DEF OpenedAs
<1>9. /\ g.view = Or(f.view, "+x") /\ g.up = Or(f.up, "+z") /\ g.emitters = Or(f.emitters, "[0 0 0]")
      /\ g.emitterType = SavedEmitterType(f)
  BY <1>1, <1>3, <1>4, <1>5 DEF OpenedAs, DataOf
<1>10. /\ g.convention = f.convention /\ g.conventionVersion = f.conventionVersion
       /\ g.version = f.version /\ g.dataType = f.dataType
  BY <1>1, <1>2 DEF OpenedAs, ReadBack
<1>11. /\ g.roomType = SavedRoomType(f) /\ g.history = SavedHistory(f, version)
       /\ g.created = (IF f.created = <<>> THEN now ELSE f.created)
  BY <1>1, <1>2 DEF OpenedAs, ReadBack
<1>12. g.api = GoSofa(version) /\ g.roomVolume = f.roomVolume
  BY <1>1, <1>2, <1>6 DEF OpenedAs, ReadBack, GoSofa
<1>13. \A n \in TextNames : g.texts[n] = SavedText(f, n)
  BY <1>1, <1>2 DEF OpenedAs, ReadBack, TextsOf, TextNames
<1>14. QED
  BY <1>8, <1>9, <1>10, <1>11, <1>12, <1>13 DEF Reread, d, g

\* Its meaning.
LEMMA SavedRoomTypeIs ==
  ASSUME NEW f
  PROVE  SavedRoomType(f) # <<>>
  BY DEF SavedRoomType

\* The warnings, of what they look at.
WarningsOf(convention, conventionVersion, version, dataType, r, roomVolume, emitterType, roomType) ==
  LET rules == RulesFor(convention)
      warn(kind, when) == IF when THEN {kind} ELSE {}
      old == version = "1.0"
  IN  warn("2.x convention", old /\ convention = "FreeFieldHRTF")
      \cup warn("2.x DataType", old /\ dataType = "TF-E")
      \cup warn("2.x Type", old /\ emitterType = <<"spherical harmonics">>)
      \cup warn("version", rules.versions # {} /\ conventionVersion \notin rules.versions)
      \cup warn("receivers", rules.r \notin {0, r})
      \cup warn("free field", rules.freeFieldOnly /\ roomType # <<"free field">>)
      \cup (IF convention # "SingleRoomSRIR" THEN {}
            ELSE warn("volume", roomVolume = "0") \cup warn("order", ~IsSquare(r)))

LEMMA SameWarnings ==
  ASSUME NEW f, NEW g, g.convention = f.convention, g.conventionVersion = f.conventionVersion,
         g.version = f.version, g.dataType = f.dataType, g.R = f.R, g.roomVolume = f.roomVolume,
         SavedEmitterType(g) = SavedEmitterType(f), SavedRoomType(g) = SavedRoomType(f)
  PROVE  ConventionWarnings(g) = ConventionWarnings(f)
<1>1. \A h : ConventionWarnings(h) =
               WarningsOf(h.convention, h.conventionVersion, h.version, h.dataType, h.R, h.roomVolume,
                          SavedEmitterType(h), SavedRoomType(h))
  BY DEF ConventionWarnings, WarningsOf
<1>2. QED
  BY <1>1, Zenon

Encoded(dataType, declared, e) == dataType = "TF-E" /\ declared /\ IsSquare(e)

LEMMA SavedMeaning ==
  ASSUME NEW f, FileOK(f), Valid(f), f.emitters # <<>>, ~TakenForField(Saved(f))
  PROVE  Meaning(OpenOf(Saved(f))) = Meaning(f)
<1> DEFINE version == CHOOSE v \in Versions : TRUE
           now == Time(0)
           g == OpenOf(Saved(f))
<1>1. Saved(f) = SaveOf(f, version, now)
  BY DEF Saved
<1>2. ExtrasFit(f) /\ SavedEmitterType(f) # <<>>
  BY DEF Valid
<1> HIDE DEF version, now
<1>3. Reread(g, f, version, now)
  BY <1>1, <1>2, Reopened
<1> HIDE DEF g
<1>4. f.emitterType = SavedEmitterType(f) /\ g.emitterType = f.emitterType /\ f.emitterType # <<>>
  BY <1>2, <1>3 DEF Reread, SavedEmitterType
<1>5. SavedEmitterType(g) = SavedEmitterType(f)
  <2>1. g.emitters = Or(f.emitters, "[0 0 0]")
    BY <1>3 DEF Reread
  <2>2. g.emitters # <<>>
    BY <2>1 DEF Or
  <2>3. QED
    BY <1>4, <2>2 DEF SavedEmitterType
<1>6. SavedRoomType(g) = SavedRoomType(f)
  <2>1. g.roomType = SavedRoomType(f)
    BY <1>3 DEF Reread
  <2>2. g.roomType # <<>>
    BY <2>1, SavedRoomTypeIs
  <2>3. QED
    BY <2>1, <2>2 DEF SavedRoomType
<1>7. IsSHEncoded(g) = IsSHEncoded(f)
  <2>1. \A h : IsSHEncoded(h) = Encoded(h.dataType, DeclaresSH(h), h.E)
    BY DEF IsSHEncoded, Encoded
  <2>2. DeclaresSH(g) = DeclaresSH(f)
    <3>1. \A h : h.emitterType # <<>> => DeclaresSH(h) = (h.emitterType = <<"spherical harmonics">>)
      BY DEF DeclaresSH
    <3>2. QED
      BY <1>4, <3>1, Zenon
  <2>3. g.dataType = f.dataType /\ g.E = f.E
    BY <1>3 DEF Reread
  <2>4. QED
    BY <2>1, <2>2, <2>3, Zenon
<1>8. ConventionWarnings(g) = ConventionWarnings(f)
  BY <1>3, <1>5, <1>6, SameWarnings DEF Reread
<1>9. QED
  BY <1>6, <1>7, <1>8, Zenon DEF Meaning, g

-----------------------------------------------------------------------------
(* What Save wrote is all kept.                                            *)

LEMMA NoneIs ==
  ASSUME NEW s, SequenceOK(s), ToSet(s) = {}
  PROVE  s = <<>>
  BY DEF SequenceOK

\* writtenVariables, of what it looks at.
WrittenBy(dataType, roomVolume) ==
  LET placed == Positions \cup {"ListenerView", "ListenerUp"}
      audio == IF dataType \in {"TF", "TF-E"} THEN {"Data.Real", "Data.Imag"}
               ELSE {IF dataType = "SOS" THEN "Data.SOS" ELSE "Data.IR",
                     "Data.SamplingRate", "Data.Delay"}
      room == IF roomVolume = "0" THEN {} ELSE {"RoomVolume"}
  IN  [name \in placed \cup audio \cup room \cup ToSet(Dimensions) |->
         CASE name \in placed -> {"Type", "Units"}
           [] name \in {"RoomVolume", "Data.SamplingRate"} -> {"Units"}
           [] name = "N" /\ dataType \in {"TF", "TF-E"} -> {"LongName", "Units"}
           [] OTHER -> {}]

LEMMA SameWritten ==
  ASSUME NEW f, NEW g, g.dataType = f.dataType, g.roomVolume = f.roomVolume
  PROVE  WrittenVariables(g) = WrittenVariables(f)
<1>1. \A h : WrittenVariables(h) = WrittenBy(h.dataType, h.roomVolume)
  BY DEF WrittenVariables, WrittenBy, IsTF
<1>2. QED
  BY <1>1, Zenon

LEMMA OpenedFields ==
  ASSUME NEW d
  PROVE  /\ Opened(d).dataType = OpenOf(d).dataType
         /\ Opened(d).roomVolume = OpenOf(d).roomVolume
<1>1. Opened(d).dataType = ValueOf(d.root, "DataType")[1] /\ Opened(d).roomVolume = RoomVolumeOf(d)
  BY DEF Opened
<1>2. QED
  BY <1>1, OpenOfAs DEF OpenedAs

\* The variables that must have a Reference are there.
LEMMA RuleReferences ==
  ASSUME NEW c, NEW name \in RulesFor(c).references
  PROVE  name = "SourcePosition" \/ name \in Names(RulesFor(c).variables)
<1>1. CASE c = "FreeFieldDirectivityTF"
  <2>1. RulesFor(c).references = {"SourcePosition", "SourceView", "SourceUp"}
        /\ RulesFor(c).variables = SourceOrientation("+x")
    BY <1>1 DEF RulesFor, NoRules, SimpleFreeField
  <2> DEFINE s == SourceOrientation("+x")
  <2>2. DOMAIN s = 1..2 /\ s[1].name = "SourceView" /\ s[2].name = "SourceUp"
    BY DEF SourceOrientation, Variable
  <2>3. "SourceView" \in Names(s) /\ "SourceUp" \in Names(s)
    <3> HIDE DEF s
    <3>1. 1 \in DOMAIN s /\ 2 \in DOMAIN s
      BY <2>2
    <3>2. QED
      BY <2>2, <3>1 DEF Names
  <2> HIDE DEF s
  <2>4. QED
    BY <2>1, <2>3 DEF s
<1>2. CASE c # "FreeFieldDirectivityTF"
  <2>1. RulesFor(c).references = {}
    BY <1>2 DEF RulesFor, NoRules, SimpleFreeField
  <2>2. QED
    BY <2>1
<1>3. QED
  BY <1>1, <1>2

\* So are all that are mandatory, in what Save writes.
LEMMA MandatoryThere ==
  ASSUME NEW f, NEW name \in Names(RulesFor(f.convention).variables)
  PROVE  name \in Names(f.variables) \cup Names(MissingVariables(f))
<1> DEFINE l == RulesFor(f.convention).variables
           absent == {i \in DOMAIN l : l[i].name \notin Names(f.variables)}
<1>1. MissingVariables(f) = Chosen(l, absent)
  BY DEF MissingVariables, Filtered
<1>2. SequenceOK(l)
  BY RulesAre, DefaultsFit, EmptyList DEF VariableLists
<1> HIDE DEF l
<1>3. PICK i \in DOMAIN l : l[i].name = name
  BY DEF Names, l
<1>4. ToSet(MissingVariables(f)) = {l[p] : p \in absent}
  BY <1>1, <1>2, Picked
<1>5. CASE name \notin Names(f.variables)
  <2>1. l[i] \in ToSet(MissingVariables(f))
    BY <1>3, <1>4, <1>5
  <2>2. QED
    BY <1>3, <2>1, NamesAre
<1>6. QED
  BY <1>5

LEMMA GlobalsThere ==
  ASSUME NEW f, NEW i \in DOMAIN RulesFor(f.convention).globals
  PROVE  RulesFor(f.convention).globals[i] \in Names(f.attributes) \cup Names(MissingGlobals(f))
<1> DEFINE l == RulesFor(f.convention).globals
           all == [k \in DOMAIN l |-> Attribute(l[k], <<>>)]
           absent == {k \in DOMAIN all : all[k].name \notin Names(f.attributes)}
<1>1. MissingGlobals(f) = Chosen(all, absent)
  BY DEF MissingGlobals, Filtered
<1>2. \E n \in Nat : DOMAIN l = 1..n
  BY RulesAre, GlobalListsFit
<1> HIDE DEF l
<1>3. PICK n \in Nat : DOMAIN l = 1..n
  BY <1>2
<1>4. DOMAIN all = 1..n /\ all = [k \in 1..n |-> all[k]] /\ \A k \in 1..n : all[k].name = l[k]
  BY <1>3 DEF Attribute
<1> HIDE DEF all
<1>5. SequenceOK(all) /\ absent \subseteq DOMAIN all
  BY <1>4, IsList
<1>6. ToSet(MissingGlobals(f)) = {all[p] : p \in absent}
  BY <1>1, <1>5, Picked
<1>7. i \in 1..n
  BY <1>3 DEF l
<1>8. CASE l[i] \notin Names(f.attributes)
  <2>1. all[i] \in ToSet(MissingGlobals(f)) /\ all[i].name = l[i]
    BY <1>4, <1>6, <1>7, <1>8
  <2>2. QED
    BY <2>1, NamesAre DEF l
<1>9. QED
  BY <1>8 DEF l

\* What comes with what Save writes by name is none of Save's own.
LEMMA SavedAttributesKept ==
  ASSUME NEW f, FileOK(f), ExtrasFit(f), NEW name, NEW a \in ToSet(SavedAttributes(f, name))
  PROVE  /\ a.value # Odd /\ a.name \notin Plumbing
         /\ name \in DOMAIN WrittenVariables(f) => a.name \notin WrittenVariables(f)[name]
<1> DEFINE given == Given(f, name)
           saved == SavedAttributes(f, name)
           x == Attribute("Reference", <<>>)
<1>1. SequenceOK(given) /\ \A i \in DOMAIN given : given[i].value # Odd
  BY GivenFits
<1>2. \A b \in ToSet(given) : b.value # Odd
  BY <1>1 DEF ToSet
<1>3. saved = given \/ saved = Append(given, x)
  BY DEF SavedAttributes, WithMandatory
<1>4. x.value # Odd
  BY DEF Attribute, Odd
<1>5. /\ Names(saved) \cap Plumbing = {}
      /\ name \in DOMAIN WrittenVariables(f) =>
           Names(saved) \cap (WrittenVariables(f)[name] \ {"Reference"}) = {}
  BY SavedAttributesFit
<1>6. name \in DOMAIN WrittenVariables(f) => "Reference" \notin WrittenVariables(f)[name]
  BY WrittenIs
<1> HIDE DEF given, x
<1>7. ToSet(Append(given, x)) = ToSet(given) \cup {x}
  BY <1>1, Appended
<1>11. a \in ToSet(saved)
  OBVIOUS
<1> HIDE DEF saved
<1>12. a \in ToSet(given) \/ a = x
  BY <1>3, <1>7, <1>11
<1>8. a.value # Odd
  BY <1>2, <1>4, <1>12
<1>9. a.name \in Names(saved)
  BY <1>11, NamesAre
<1>10. QED
  BY <1>5, <1>6, <1>8, <1>9 DEF saved

LEMMA MissingValues ==
  ASSUME NEW f, NEW w \in ToSet(MissingVariables(f)), NEW a \in ToSet(w.attrs)
  PROVE  a.value # Odd
<1> DEFINE l == RulesFor(f.convention).variables
           absent == {i \in DOMAIN l : l[i].name \notin Names(f.variables)}
<1>1. MissingVariables(f) = Chosen(l, absent)
  BY DEF MissingVariables, Filtered
<1>2. l \in VariableLists
  BY RulesAre
<1> HIDE DEF l
<1>3. SequenceOK(l)
  BY <1>2, DefaultsFit, EmptyList DEF VariableLists
<1>4. PICK i \in DOMAIN l : w = l[i]
  BY <1>1, <1>3, Picked
<1>5. CASE l = <<>>
  BY <1>4, <1>5
<1>6. ASSUME NEW view, l = SourceOrientation(view) PROVE a.value # Odd
  <2> DEFINE s == SourceOrientation(view)
  <2>1. /\ DOMAIN s = 1..2
        /\ s[1].attrs = << Attribute("Type", <<"cartesian">>), Attribute("Units", <<"metre">>) >>
        /\ s[2].attrs = <<>>
    BY DEF SourceOrientation, Variable
  <2> HIDE DEF s
  <2>2. w = s[1] \/ w = s[2]
    BY <1>4, <1>6, <2>1 DEF s
  <2>3. a \in {Attribute("Type", <<"cartesian">>), Attribute("Units", <<"metre">>)}
    BY <2>1, <2>2 DEF ToSet
  <2>4. QED
    BY <2>3 DEF Attribute, Odd
<1>7. QED
  BY <1>2, <1>5, <1>6 DEF VariableLists

LEMMA NotWritten ==
  ASSUME NEW f
  PROVE  {"SourceView", "SourceUp"} \cap DOMAIN WrittenVariables(f) = {}
<1>1. DOMAIN WrittenVariables(f) =
        Positions \cup {"ListenerView", "ListenerUp"}
        \cup (IF IsTF(f) THEN {"Data.Real", "Data.Imag"}
              ELSE {IF f.dataType = "SOS" THEN "Data.SOS" ELSE "Data.IR", "Data.SamplingRate", "Data.Delay"})
        \cup (IF f.roomVolume = "0" THEN {} ELSE {"RoomVolume"}) \cup ToSet(Dimensions)
  BY WrittenIs
<1>2. QED
  BY <1>1, DimensionsAre DEF Positions

\* An extra variable of a file.
SameVariable(w, v) ==
  /\ w.name = v.name /\ w.dims = v.dims /\ w.shape = v.shape /\ w.form = v.form /\ w.data = v.data
  /\ ToSet(w.attrs) = ToSet(v.attrs) /\ SequenceOK(w.attrs) /\ Distinct(w.attrs)

LEMMA SavedVariableKept ==
  ASSUME NEW f, FileOK(f), ExtrasFit(f), NEW v \in ToSet(SavedVariables(f))
  PROVE  /\ v.name \notin DOMAIN WrittenVariables(f) /\ v.form \in {"numeric", "chars"}
         /\ (v.dims = <<>> \/ Len(v.dims) = Len(v.shape))
         /\ \A a \in ToSet(v.attrs) : a.value # Odd
         /\ (v.name \in RulesFor(f.convention).references => "Reference" \in Names(v.attrs))
<1> DEFINE x == Attribute("Reference", <<>>)
           refs == RulesFor(f.convention).references
<1>0. x.value # Odd /\ x.name = "Reference"
  BY DEF Attribute, Odd
<1>1. ASSUME NEW name, NEW attrs, SequenceOK(attrs), \A a \in ToSet(attrs) : a.value # Odd
      PROVE  /\ \A a \in ToSet(WithMandatory(f, name, attrs)) : a.value # Odd
             /\ (name \in refs => "Reference" \in Names(WithMandatory(f, name, attrs)))
  <2> DEFINE more == Append(attrs, x)
  <2>1. ToSet(more) = ToSet(attrs) \cup {x}
    <3> HIDE DEF x
    <3>1. QED
      BY <1>1, Appended
  <2>2. WithMandatory(f, name, attrs) =
          IF name \in refs /\ "Reference" \notin Names(attrs) THEN more ELSE attrs
    BY DEF WithMandatory
  <2> HIDE DEF more, x, refs
  <2>3. "Reference" \in Names(more)
    BY <1>0, <2>1, NamesAre
  <2>4. QED
    BY <1>0, <1>1, <2>1, <2>2, <2>3
<1>2. DOMAIN WrittenVariables(f) \subseteq DOMAIN WrittenOrMissing(f)
  BY WrittenOrMissingIs
<1> HIDE DEF refs
<1>3. ASSUME NEW w \in ToSet(f.variables), v = OwnSaved(f, w)
      PROVE  /\ v.name \notin DOMAIN WrittenVariables(f) /\ v.form \in {"numeric", "chars"}
             /\ (v.dims = <<>> \/ Len(v.dims) = Len(v.shape))
             /\ \A a \in ToSet(v.attrs) : a.value # Odd
             /\ (v.name \in refs => "Reference" \in Names(v.attrs))
  <2>1. IsVariable(w) /\ w.form \in {"numeric", "chars"} /\ SequenceOK(w.attrs)
    BY DEF FileOK, IsVariable, VariableOK
  <2>2. /\ w.name \notin DOMAIN WrittenOrMissing(f) /\ (w.dims = <<>> \/ Len(w.dims) = Len(w.shape))
        /\ \A i \in DOMAIN w.attrs : w.attrs[i].value # Odd
    BY DEF ExtrasFit, AttributesFit
  <2>3. \A a \in ToSet(w.attrs) : a.value # Odd
    BY <2>2 DEF ToSet
  <2> DEFINE attrs == WithMandatory(f, w.name, w.attrs)
  <2>4. v = Variable(w.name, w.dims, w.shape, w.form, w.data, attrs)
    BY <1>3, <2>1, CompletedIs DEF OwnSaved
  <2>5. (\A a \in ToSet(attrs) : a.value # Odd) /\ (w.name \in refs => "Reference" \in Names(attrs))
    BY <1>1, <2>1, <2>3
  <2> HIDE DEF attrs
  <2>6. v.name = w.name /\ v.dims = w.dims /\ v.shape = w.shape /\ v.form = w.form /\ v.attrs = attrs
    BY <2>4 DEF Variable
  <2>7. QED
    BY <1>2, <2>1, <2>2, <2>5, <2>6
<1>4. ASSUME NEW w \in ToSet(MissingVariables(f)), v = DefaultSaved(f, w)
      PROVE  /\ v.name \notin DOMAIN WrittenVariables(f) /\ v.form \in {"numeric", "chars"}
             /\ (v.dims = <<>> \/ Len(v.dims) = Len(v.shape))
             /\ \A a \in ToSet(v.attrs) : a.value # Odd
             /\ (v.name \in refs => "Reference" \in Names(v.attrs))
  <2>1. /\ IsVariable(w) /\ w.dims = <<"I", "C">> /\ w.shape = <<1, 3>> /\ w.form = "numeric"
        /\ w.name \in {"SourceView", "SourceUp"}
        /\ SequenceOK(w.attrs)
    BY MissingVariablesFit DEF DefaultOK, IsVariable
  <2>2. \A a \in ToSet(w.attrs) : a.value # Odd
    BY MissingValues
  <2> DEFINE given == Given(f, w.name)
             attrs == WithMandatory(f, w.name, w.attrs \o given)
  <2>3. SequenceOK(given) /\ \A i \in DOMAIN given : given[i].value # Odd
    BY GivenFits
  <2>4. v = Variable(w.name, w.dims, w.shape, w.form, w.data, attrs)
    BY <1>4, <2>1, CompletedIs DEF DefaultSaved
  <2> HIDE DEF given
  <2>5. SequenceOK(w.attrs \o given) /\ \A a \in ToSet(w.attrs \o given) : a.value # Odd
    <3>1. \A a \in ToSet(given) : a.value # Odd
      BY <2>3 DEF ToSet
    <3>2. SequenceOK(w.attrs \o given) /\ ToSet(w.attrs \o given) = ToSet(w.attrs) \cup ToSet(given)
      BY <2>1, <2>3, Joined
    <3>3. QED
      BY <2>2, <3>1, <3>2
  <2>6. (\A a \in ToSet(attrs) : a.value # Odd) /\ (w.name \in refs => "Reference" \in Names(attrs))
    BY <1>1, <2>5
  <2> HIDE DEF attrs
  <2>7. v.name = w.name /\ v.dims = w.dims /\ v.shape = w.shape /\ v.form = w.form /\ v.attrs = attrs
    BY <2>4 DEF Variable
  <2>8. w.name \notin DOMAIN WrittenVariables(f)
    BY <2>1, NotWritten
  <2>9. Len(<<"I", "C">>) = Len(<<1, 3>>)
    OBVIOUS
  <2>10. QED
    BY <2>1, <2>6, <2>7, <2>8, <2>9
<1>5. QED
  BY <1>3, <1>4, SavedVariablesAre DEF refs

\* The scales of SOFA's dimensions: what is not Save's own is the caller's.
LEMMA ScaleLabelled ==
  ASSUME NEW f, FileOK(f), ExtrasFit(f), NEW n \in ToSet(Dimensions)
  PROVE  Labelled(f, ScaleOf(f, n)) /\ n \in DOMAIN WrittenVariables(f)
<1> DEFINE s == ScaleOf(f, n)
           own == ScaleOwn(f, n)
<1>1. /\ s.name = n
      /\ ToSet(s.attrs) = ToSet(own) \cup ToSet(SavedAttributes(f, n))
  BY ScaleFits
<1>2. n \in DOMAIN WrittenVariables(f) /\ (IsTF(f) => WrittenVariables(f)["N"] = {"LongName", "Units"})
  BY WrittenIs
<1>3. ASSUME NEW a \in ToSet(own) PROVE a.name \in WrittenVariables(f)[n] \cup Plumbing
  <2> DEFINE c == Attribute("CLASS", <<"DIMENSION_SCALE">>)
             l == Attribute("LongName", <<"frequency">>)
             u == Attribute("Units", <<"hertz">>)
  <2>1. c.name = "CLASS" /\ l.name = "LongName" /\ u.name = "Units" /\ "CLASS" \in Plumbing
    BY DEF Attribute, Plumbing
  <2>2. own = <<c>> \o (IF Frequencies(f, n) THEN <<l, u>> ELSE <<>>)
    BY DEF ScaleOwn
  <2> HIDE DEF own, c, l, u
  <2>3. CASE Frequencies(f, n)
    <3>1. ToSet(own) = ToSet(<<c>>) \cup ToSet(<<l, u>>)
      BY <2>1, <2>2, <2>3, OneOf, TwoOf, Joined
    <3>2. a \in {c, l, u}
      BY <2>1, <3>1, OneOf, TwoOf
    <3>3. QED
      BY <1>2, <2>1, <2>3, <3>2 DEF Frequencies
  <2>4. CASE ~Frequencies(f, n)
    <3>1. own = <<c>>
      BY <2>2, <2>4
    <3>2. a = c
      BY <3>1 DEF ToSet
    <3>3. QED
      BY <2>1, <3>2
  <2>5. QED
    BY <2>3, <2>4
<1> HIDE DEF s, own
<1>4. QED
  BY <1>1, <1>2, <1>3 DEF Labelled, s

\* Those of further dimensions have nothing but their class.
LEMMA FurtherBare ==
  ASSUME NEW f, FileOK(f), ExtrasFit(f), NEW n \in Further(f)
  PROVE  /\ ToSet(ScaleOf(f, n).attrs) = {Attribute("CLASS", <<"DIMENSION_SCALE">>)}
         /\ n \notin DOMAIN WrittenVariables(f) /\ SavedAttributes(f, n) = <<>>
<1>1. n \notin Names(f.variables) \cup DOMAIN WrittenVariables(f) \cup Names(MissingVariables(f))
  BY FurtherNew
<1>2. Given(f, n) = <<>>
  BY <1>1, GivenFits
<1>3. n \notin RulesFor(f.convention).references
  <2>1. SUFFICES ASSUME n \in RulesFor(f.convention).references PROVE FALSE
    OBVIOUS
  <2>2. "SourcePosition" \in DOMAIN WrittenVariables(f)
    <3>1. Positions \subseteq DOMAIN WrittenVariables(f)
      BY WrittenIs
    <3>2. QED
      BY <3>1 DEF Positions
  <2>3. n \in Names(RulesFor(f.convention).variables)
    BY <1>1, <2>1, <2>2, RuleReferences
  <2>4. QED
    BY <1>1, <2>3, MandatoryThere
<1>4. SavedAttributes(f, n) = <<>>
  BY <1>2, <1>3 DEF SavedAttributes, WithMandatory
<1>5. ~Frequencies(f, n)
  <2>1. "N" \in DOMAIN WrittenVariables(f)
    BY WrittenIs, DimensionsAre
  <2>2. QED
    BY <1>1, <2>1 DEF Frequencies
<1> DEFINE c == Attribute("CLASS", <<"DIMENSION_SCALE">>)
<1>6. ScaleOwn(f, n) = <<c>>
  BY <1>5 DEF ScaleOwn
<1>7. ToSet(ScaleOf(f, n).attrs) = ToSet(ScaleOwn(f, n)) \cup ToSet(SavedAttributes(f, n))
  BY ScaleFits
<1> HIDE DEF c
<1>8. ToSet(ScaleOwn(f, n)) = {c}
  BY <1>6, OneOf
<1>9. QED
  BY <1>1, <1>4, <1>7, <1>8, EmptyList DEF c

\* What Save writes is of three kinds: by name, scales, and variables.
ByName(f, v) == v.name \in DOMAIN WrittenVariables(f) /\ Labelled(f, v)
BareScale(f, v) ==
  /\ v.name \notin DOMAIN WrittenVariables(f) /\ v.scale
  /\ ToSet(v.attrs) = {Attribute("CLASS", <<"DIMENSION_SCALE">>)}
ExtraSet(f, v) ==
  /\ v.name \notin DOMAIN WrittenVariables(f) /\ ~v.scale /\ v.form \in {"numeric", "chars"}
  /\ \E w \in ToSet(SavedVariables(f)) : v = Attached(w)

LEMMA SavedKinds ==
  ASSUME NEW f, FileOK(f), ExtrasFit(f), NEW v \in ToSet(SavedDatasets(f))
  PROVE  ByName(f, v) \/ BareScale(f, v) \/ ExtraSet(f, v)
<1>1. \/ \E n \in ToSet(SavedDimensions(f)) : v = ScaleOf(f, n)
      \/ v \in ToSet(OwnedVariables(f))
      \/ \E w \in ToSet(SavedVariables(f)) : v = Attached(w)
  BY SavedDatasetsFit
<1>2. ASSUME NEW n \in ToSet(SavedDimensions(f)), v = ScaleOf(f, n)
      PROVE  ByName(f, v) \/ BareScale(f, v)
  <2>1. v.name = n /\ v.scale
    BY <1>2, ScaleFits
  <2>2. n \in ToSet(Dimensions) \/ n \in Further(f)
    BY SavedDimensionsAre
  <2>3. CASE n \in ToSet(Dimensions)
    BY <1>2, <2>1, <2>3, ScaleLabelled DEF ByName
  <2>4. CASE n \in Further(f)
    BY <1>2, <2>1, <2>4, FurtherBare DEF BareScale
  <2>5. QED
    BY <2>2, <2>3, <2>4
<1>3. ASSUME v \in ToSet(OwnedVariables(f)) PROVE ByName(f, v)
  BY <1>3, OwnedVariablesFit DEF OwnFits, ByName
<1>4. ASSUME NEW w \in ToSet(SavedVariables(f)), v = Attached(w) PROVE ExtraSet(f, v)
  <2>1. IsVariable(w)
    BY SavedVariablesFit
  <2>2. w.name \notin DOMAIN WrittenVariables(f) /\ w.form \in {"numeric", "chars"}
    BY SavedVariableKept
  <2>3. v.name = w.name /\ v.scale = FALSE /\ v.form = w.form
    BY <1>4, <2>1, AttachedIs
  <2>4. QED
    BY <1>4, <2>2, <2>3 DEF ExtraSet
<1>5. QED
  BY <1>1, <1>2, <1>3, <1>4

\* What Save sets itself is not kept among the extras, the rest is.
LEMMA LabelledKept ==
  ASSUME NEW f, FileOK(f), ExtrasFit(f), NEW v, SequenceOK(v.attrs), Distinct(v.attrs), ByName(f, v)
  PROVE  LET kept == KeptAttributes(v, WrittenVariables(f)[v.name])
         IN  /\ SequenceOK(kept) /\ Distinct(kept)
             /\ ToSet(kept) = ToSet(SavedAttributes(f, v.name))
             /\ OddOnes(v.name, v.attrs, Plumbing \cup WrittenVariables(f)[v.name]) = {}
<1> DEFINE owned == WrittenVariables(f)[v.name]
           kept == KeptAttributes(v, owned)
           saved == SavedAttributes(f, v.name)
<1>1. /\ SequenceOK(kept) /\ Distinct(kept)
      /\ ToSet(kept) = {a \in ToSet(v.attrs) : a.name \notin Plumbing \cup owned /\ a.value # Odd}
  BY KeptIs
<1>2. /\ ToSet(saved) \subseteq ToSet(v.attrs)
      /\ \A a \in ToSet(v.attrs) : a \in ToSet(saved) \/ a.name \in owned \cup Plumbing
      /\ v.name \in DOMAIN WrittenVariables(f)
  BY DEF ByName, Labelled
<1>3. ASSUME NEW a \in ToSet(saved)
      PROVE  a.value # Odd /\ a.name \notin Plumbing \cup owned
  BY <1>2, SavedAttributesKept
<1> HIDE DEF owned, kept, saved
<1>4. ToSet(kept) = ToSet(saved)
  BY <1>1, <1>2, <1>3
<1>5. \A a \in ToSet(v.attrs) : ~(a.name \notin Plumbing \cup owned /\ a.value = Odd)
  BY <1>2, <1>3
<1>6. OddOnes(v.name, v.attrs, Plumbing \cup owned) = {}
  BY <1>5 DEF OddOnes
<1>7. QED
  BY <1>1, <1>4, <1>6 DEF owned, kept, saved

LEMMA BareKept ==
  ASSUME NEW f, NEW v, SequenceOK(v.attrs), BareScale(f, v)
  PROVE  KeptAttributes(v, {}) = <<>> /\ OddOnes(v.name, v.attrs, Plumbing) = {}
<1>1. \A a \in ToSet(v.attrs) : a.name \in Plumbing
  BY DEF BareScale, Attribute, Plumbing
<1>2. /\ SequenceOK(KeptAttributes(v, {}))
      /\ ToSet(KeptAttributes(v, {})) =
           {a \in ToSet(v.attrs) : a.name \notin Plumbing \cup {} /\ a.value # Odd}
  BY KeptIs
<1>3. ToSet(KeptAttributes(v, {})) = {}
  BY <1>1, <1>2
<1>4. QED
  BY <1>1, <1>2, <1>3, NoneIs DEF OddOnes

\* A variable is read as it was.
LEMMA ExtraKept ==
  ASSUME NEW f, FileOK(f), ExtrasFit(f), NEW w \in ToSet(SavedVariables(f))
  PROVE  /\ SameVariable(ReadVariable(Attached(w)), w)
         /\ OddOnes(w.name, Attached(w).attrs, Plumbing) = {}
<1> DEFINE v == Attached(w)
           r == ReadVariable(v)
           kept == KeptAttributes(v, {})
           list == Attribute("DIMENSION_LIST", w.dims)
<1>1. /\ IsVariable(w) /\ SequenceOK(w.attrs) /\ Distinct(w.attrs) /\ Names(w.attrs) \cap Plumbing = {}
  BY SavedVariablesFit
<1>2. /\ w.dims = <<>> \/ Len(w.dims) = Len(w.shape)
      /\ \A a \in ToSet(w.attrs) : a.value # Odd
  BY SavedVariableKept
<1>3. /\ v.name = w.name /\ v.dims = w.dims /\ v.shape = w.shape /\ v.form = w.form /\ v.data = w.data
      /\ v.attrs = IF w.dims = <<>> THEN w.attrs ELSE Append(w.attrs, list)
  BY <1>1, AttachedIs
<1>4. SequenceOK(v.attrs) /\ Distinct(v.attrs)
  BY AttachedFits DEF DatasetFits
<1>5. list.name \in Plumbing
  BY DEF Attribute, Plumbing
<1>6. r = Variable(v.name, IF Len(v.dims) = Len(v.shape) THEN v.dims ELSE <<>>, v.shape, v.form,
                   v.data, kept)
  BY DEF ReadVariable
<1> HIDE DEF list
<1>7. ToSet(v.attrs) = ToSet(w.attrs) \/ ToSet(v.attrs) = ToSet(w.attrs) \cup {list}
  <2>1. ToSet(Append(w.attrs, list)) = ToSet(w.attrs) \cup {list}
    BY <1>1, Appended
  <2> HIDE DEF v
  <2>2. QED
    BY <1>3, <2>1
<1>8. /\ SequenceOK(kept) /\ Distinct(kept)
      /\ ToSet(kept) = {a \in ToSet(v.attrs) : a.name \notin Plumbing \cup {} /\ a.value # Odd}
  BY <1>4, KeptIs
<1> HIDE DEF v, r, kept
<1>9. \A a \in ToSet(w.attrs) : a.name \notin Plumbing
  BY <1>1, NamesAre
<1>10. ToSet(kept) = ToSet(w.attrs)
  BY <1>2, <1>5, <1>7, <1>8, <1>9
<1>11. IF Len(v.dims) = Len(v.shape) THEN r.dims = w.dims ELSE r.dims = <<>>
  BY <1>3, <1>6 DEF Variable
<1>12. r.dims = w.dims
  BY <1>2, <1>3, <1>11
<1>13. r.name = w.name /\ r.shape = w.shape /\ r.form = w.form /\ r.data = w.data /\ r.attrs = kept
  BY <1>3, <1>6 DEF Variable
<1>14. OddOnes(w.name, v.attrs, Plumbing) = {}
  BY <1>2, <1>5, <1>7 DEF OddOnes
<1>15. QED
  BY <1>8, <1>10, <1>12, <1>13, <1>14 DEF SameVariable, r, v

\* The root attributes go-sofa does not interpret, and none is dropped.
LEMMA GlobalsReread ==
  ASSUME NEW f, FileOK(f), ExtrasFit(f), NEW version, NEW now
  PROVE  LET d == SaveOf(f, version, now)
         IN  /\ SequenceOK(KeptGlobals(d)) /\ Distinct(KeptGlobals(d))
             /\ ToSet(KeptGlobals(d)) = ToSet(f.attributes) \cup ToSet(MissingGlobals(f))
             /\ OddOnes("", d.root, NotOurs) = {}
<1> DEFINE d == SaveOf(f, version, now)
           fixed == FixedRoot(f, version, now)
           texts == SavedTexts(f)
           history == Optional("History", SavedHistory(f, version))
           nc == Attribute("_NCProperties", <<version>>)
           own == f.attributes
           missing == MissingGlobals(f)
<1>1. SequenceOK(own) /\ AttributesFit(own, GlobalFields \cup NetCDF)
  BY DEF FileOK, ExtrasFit
<1>2. d.root = SavedRoot(f, version, now)
  BY SaveOfIs
<1>3. /\ SequenceOK(d.root) /\ Distinct(d.root)
      /\ ToSet(d.root) = ToSet(fixed) \cup ToSet(texts) \cup ToSet(history)
                         \cup ToSet(own) \cup ToSet(missing) \cup {nc}
  BY <1>1, <1>2, SavedRootFits
<1>4. /\ \A a \in ToSet(fixed) : a.name \in FixedNames
      /\ \A a \in ToSet(texts) : a.name \in TextNames
      /\ \A a \in ToSet(history) : a.name \in {"History"}
  <2>1. Names(fixed) = FixedNames
    BY FixedRootIs
  <2>2. Names(texts) \subseteq TextNames
    BY SavedTextsAre
  <2>3. Names(history) \subseteq {"History"}
    BY OptionalIs
  <2> HIDE DEF fixed, texts, history
  <2>4. QED
    BY <2>1, <2>2, <2>3, NamesAre
<1>5. /\ FixedNames \subseteq NotOurs /\ TextNames \cup {"History"} \subseteq NotOurs /\ nc.name \in NotOurs
  BY TextNamesNew DEF Attribute
<1>6. \A a \in ToSet(own) : a.name \notin NotOurs /\ a.value # Odd
  <2>1. Names(own) \cap NotOurs = {} /\ \A i \in DOMAIN own : own[i].value # Odd
    BY <1>1 DEF AttributesFit, NotOurs
  <2> HIDE DEF own
  <2>2. QED
    BY <2>1, NamesAre DEF ToSet
<1>7. \A a \in ToSet(missing) : a.name \notin NotOurs /\ a.value # Odd
  <2>1. /\ Names(missing) \cap (NotOurs \cup Names(own)) = {}
        /\ \A a \in ToSet(missing) : a = Attribute(a.name, <<>>)
    BY MissingGlobalsFit
  <2> HIDE DEF own, missing
  <2>2. \A a \in ToSet(missing) : a.value = <<>>
    BY <2>1 DEF Attribute
  <2>3. QED
    BY <2>1, <2>2, NamesAre DEF Odd
<1>8. /\ SequenceOK(KeptGlobals(d)) /\ Distinct(KeptGlobals(d))
      /\ ToSet(KeptGlobals(d)) = {a \in ToSet(d.root) : a.name \notin NotOurs /\ a.value # Odd}
  BY <1>3, KeptGlobalsAre DEF NotOurs
<1> HIDE DEF d, fixed, texts, history, own, missing, nc
<1>9. ToSet(KeptGlobals(d)) = ToSet(own) \cup ToSet(missing)
  BY <1>3, <1>4, <1>5, <1>6, <1>7, <1>8
<1>10. OddOnes("", d.root, NotOurs) = {}
  BY <1>3, <1>4, <1>5, <1>6, <1>7 DEF OddOnes
<1>11. QED
  BY <1>8, <1>9, <1>10 DEF d, own, missing

\* The attributes of what Save writes by name.
LEMMA AttributesReread ==
  ASSUME NEW f, FileOK(f), ExtrasFit(f), NEW version, NEW now,
         NEW o, WrittenVariables(o) = WrittenVariables(f),
         NEW name, NEW g, g.variableAttributes = ReadAttributes(SaveOf(f, version, now), o)
  PROVE  /\ name \in DOMAIN g.variableAttributes => name \in DOMAIN WrittenVariables(f)
         /\ SequenceOK(Given(g, name)) /\ Distinct(Given(g, name))
         /\ name \in DOMAIN WrittenVariables(f) => ToSet(Given(g, name)) = ToSet(SavedAttributes(f, name))
         /\ name \notin DOMAIN WrittenVariables(f) => Given(g, name) = <<>>
<1> DEFINE d == SaveOf(f, version, now)
           w == WrittenVariables(f)
<1>1. d.datasets = SavedDatasets(f)
  BY SaveOfIs
<1>2. /\ Distinct(d.datasets)
      /\ \A v \in ToSet(d.datasets) : SequenceOK(v.attrs) /\ Distinct(v.attrs)
  BY <1>1, SavedDatasetsFit, SavedDatasetFits DEF DatasetFits
<1>3. g.variableAttributes = [n \in {v.name : v \in Attributed(d, o)} |-> KeptAttributes(DatasetOf(d, n), w[n])]
  BY DEF ReadAttributes
<1>4. Attributed(d, o) = {v \in ToSet(d.datasets) : v.name \in DOMAIN w /\ KeptAttributes(v, w[v.name]) # <<>>}
  BY DEF Attributed, Known, OwnedOf
<1> HIDE DEF d
<1>5. DOMAIN g.variableAttributes = {v.name : v \in Attributed(d, o)}
  BY <1>3
<1>6. name \in DOMAIN g.variableAttributes => name \in DOMAIN w
  BY <1>4, <1>5
<1>7. CASE name \notin DOMAIN w
  BY <1>6, <1>7, EmptyList DEF Given
<1>8. CASE name \in DOMAIN w
  <2>1. PICK v \in ToSet(d.datasets) : v.name = name
    <3>1. CASE name \in ToSet(Dimensions)
      <4>1. ScaleOf(f, name) \in ToSet(SavedDatasets(f))
        BY <3>1, SavedDimensionsAre, SavedDatasetsFit
      <4>2. ScaleOf(f, name).name = name
        BY ScaleFits
      <4>3. QED
        BY <1>1, <4>1, <4>2
    <3>2. CASE name \notin ToSet(Dimensions)
      <4>1. name \in Names(OwnedVariables(f))
        BY <1>8, <3>2, OwnedVariablesFit
      <4>2. PICK s \in ToSet(OwnedVariables(f)) : s.name = name
        BY <4>1, NamesAre
      <4>3. QED
        BY <1>1, <4>2, SavedDatasetsFit
    <3>3. QED
      BY <3>1, <3>2
  <2> DEFINE kept == KeptAttributes(v, w[v.name])
  <2>2. ByName(f, v)
    BY <1>1, <1>8, <2>1, SavedKinds DEF BareScale, ExtraSet
  <2>3. SequenceOK(kept) /\ Distinct(kept) /\ ToSet(kept) = ToSet(SavedAttributes(f, v.name))
    BY <1>2, <2>2, LabelledKept
  <2>4. DatasetOf(d, name) = v
    BY <1>2, <2>1, DatasetIn
  <2>5. Given(g, name) = kept
    <3>1. CASE name \in DOMAIN g.variableAttributes
      <4>1. g.variableAttributes[name] = KeptAttributes(DatasetOf(d, name), w[name])
        BY <1>3, <1>5, <3>1
      <4>2. QED
        BY <2>1, <2>4, <3>1, <4>1 DEF Given
    <3>2. CASE name \notin DOMAIN g.variableAttributes
      <4>1. Given(g, name) = <<>>
        BY <3>2 DEF Given
      <4>2. v \notin Attributed(d, o)
        BY <1>5, <2>1, <3>2
      <4>3. kept = <<>>
        BY <1>4, <1>8, <2>1, <4>2
      <4>4. QED
        BY <4>1, <4>3
    <3>3. QED
      BY <3>1, <3>2
  <2>6. QED
    BY <1>6, <1>8, <2>1, <2>3, <2>5
<1>9. QED
  BY <1>7, <1>8

\* The extra variables.
SameVariables(list, others) ==
  /\ SequenceOK(list) /\ Distinct(list)
  /\ \A r \in ToSet(list) : \E v \in ToSet(others) : SameVariable(r, v)
  /\ \A v \in ToSet(others) : \E r \in ToSet(list) : SameVariable(r, v)

LEMMA VariablesReread ==
  ASSUME NEW f, FileOK(f), ExtrasFit(f), NEW version, NEW now,
         NEW o, WrittenVariables(o) = WrittenVariables(f)
  PROVE  /\ SameVariables(ReadVariables(SaveOf(f, version, now), o), SavedVariables(f))
         /\ Unreadable(SaveOf(f, version, now), o) = {}
<1> DEFINE d == SaveOf(f, version, now)
           w == WrittenVariables(f)
           l == Readable(d, o)
           vs == ReadVariables(d, o)
           extra == SavedVariables(f)
<1>1. d.datasets = SavedDatasets(f)
  BY SaveOfIs
<1>2. SequenceOK(d.datasets) /\ Distinct(d.datasets)
  BY <1>1, SavedDatasetsFit
<1>3. /\ SequenceOK(l) /\ Distinct(l)
      /\ ToSet(l) = {v \in ToSet(d.datasets) : /\ v \notin Known(d, o) \cup ScalesOf(d, o)
                                               /\ v.form \in {"numeric", "chars"}}
  BY <1>2, ReadableAre
<1>4. Known(d, o) = {v \in ToSet(d.datasets) : v.name \in DOMAIN w}
      /\ ScalesOf(d, o) = {v \in ToSet(d.datasets) \ Known(d, o) : v.scale}
  BY DEF Known, ScalesOf
<1>5. vs = [i \in DOMAIN l |-> ReadVariable(l[i])]
  BY DEF ReadVariables
<1>6. Unreadable(d, o) = ToSet(d.datasets) \ (Known(d, o) \cup ScalesOf(d, o) \cup ToSet(l))
  BY DEF Unreadable
<1> HIDE DEF d, l, vs
<1>7. \A v \in ToSet(d.datasets) : ByName(f, v) \/ BareScale(f, v) \/ ExtraSet(f, v)
  BY <1>1, SavedKinds
<1>8. ToSet(l) = {v \in ToSet(d.datasets) : ExtraSet(f, v)}
  BY <1>3, <1>4, <1>7 DEF ByName, BareScale, ExtraSet
<1>9. Unreadable(d, o) = {}
  BY <1>4, <1>6, <1>7, <1>8 DEF ByName, BareScale
<1>10. /\ vs = [i \in DOMAIN l |-> vs[i]] /\ DOMAIN vs = DOMAIN l
       /\ \A i \in DOMAIN l : vs[i] = ReadVariable(l[i])
  BY <1>5
<1>11. \A i \in DOMAIN l : vs[i].name = l[i].name
  <2>1. \A v : ReadVariable(v).name = v.name
    BY DEF ReadVariable, Variable
  <2>2. QED
    BY <1>10, <2>1
<1>12. SequenceOK(vs) /\ Distinct(vs)
  BY <1>3, <1>10, <1>11, Mapped
<1>13. ASSUME NEW r \in ToSet(vs) PROVE \E v \in ToSet(extra) : SameVariable(r, v)
  <2>1. PICK i \in DOMAIN l : r = ReadVariable(l[i])
    BY <1>10 DEF ToSet
  <2>2. ExtraSet(f, l[i])
    BY <1>8 DEF ToSet
  <2>3. PICK v \in ToSet(extra) : l[i] = Attached(v)
    BY <2>2 DEF ExtraSet
  <2>4. SameVariable(r, v)
    BY <2>1, <2>3, ExtraKept
  <2>5. QED
    BY <2>4
<1>14. ASSUME NEW v \in ToSet(extra) PROVE \E r \in ToSet(vs) : SameVariable(r, v)
  <2>1. Attached(v) \in ToSet(d.datasets)
    BY <1>1, SavedDatasetsFit
  <2>2. Attached(v).name = v.name /\ Attached(v).scale = FALSE
    BY SavedVariablesFit, AttachedIs
  <2>3. v.name \notin DOMAIN w
    BY SavedVariableKept
  <2>4. Attached(v) \in ToSet(l)
    BY <1>7, <1>8, <2>1, <2>2, <2>3 DEF ByName, BareScale
  <2>5. PICK i \in DOMAIN l : l[i] = Attached(v)
    BY <2>4 DEF ToSet
  <2>6. vs[i] = ReadVariable(Attached(v)) /\ vs[i] \in ToSet(vs)
    BY <1>10, <2>5 DEF ToSet
  <2>7. SameVariable(vs[i], v)
    BY <2>6, ExtraKept
  <2>8. QED
    BY <2>6, <2>7
<1>15. QED
  BY <1>9, <1>12, <1>13, <1>14 DEF SameVariables, d, vs

\* Nothing is dropped.
LEMMA NothingDropped ==
  ASSUME NEW f, FileOK(f), ExtrasFit(f), NEW version, NEW now,
         NEW o, WrittenVariables(o) = WrittenVariables(f)
  PROVE  Dropped(SaveOf(f, version, now), o) = {}
<1> DEFINE d == SaveOf(f, version, now)
<1>1. d.datasets = SavedDatasets(f)
  BY SaveOfIs
<1>2. OddOnes("", d.root, GlobalFields \cup NetCDF) = {}
  BY GlobalsReread DEF NotOurs
<1>3. Unreadable(d, o) = {}
  BY VariablesReread
<1> HIDE DEF d
<1>4. ASSUME NEW v \in ToSet(d.datasets)
      PROVE  /\ ByName(f, v) \/ BareScale(f, v) \/ ExtraSet(f, v)
             /\ SequenceOK(v.attrs) /\ Distinct(v.attrs)
  BY <1>1, SavedKinds, SavedDatasetFits DEF DatasetFits
<1>5. ASSUME NEW v \in ScalesOf(d, o) PROVE KeptAttributes(v, {}) = <<>>
  <2>1. v \in ToSet(d.datasets) /\ v.name \notin DOMAIN WrittenVariables(f) /\ v.scale
    BY DEF ScalesOf, Known
  <2>2. BareScale(f, v)
    BY <1>4, <2>1 DEF ByName, ExtraSet
  <2>3. QED
    BY <1>4, <2>1, <2>2, BareKept
<1>6. ASSUME NEW v \in ToSet(d.datasets)
      PROVE  OddOnes(v.name, v.attrs, Plumbing \cup OwnedOf(o, v)) = {}
  <2>1. CASE ByName(f, v)
    <3>1. OwnedOf(o, v) = WrittenVariables(f)[v.name]
      BY <2>1 DEF OwnedOf, ByName
    <3>2. QED
      BY <1>4, <2>1, <3>1, LabelledKept
  <2>2. CASE BareScale(f, v)
    <3>1. OwnedOf(o, v) = {}
      BY <2>2 DEF OwnedOf, BareScale
    <3>2. OddOnes(v.name, v.attrs, Plumbing) = {}
      BY <1>4, <2>2, BareKept
    <3>3. QED
      BY <3>1, <3>2
  <2>3. CASE ExtraSet(f, v)
    <3>1. OwnedOf(o, v) = {}
      BY <2>3 DEF OwnedOf, ExtraSet
    <3>2. PICK w \in ToSet(SavedVariables(f)) : v = Attached(w)
      BY <2>3 DEF ExtraSet
    <3>3. v.name = w.name
      BY <3>2, SavedVariablesFit, AttachedIs
    <3>4. OddOnes(v.name, v.attrs, Plumbing) = {}
      BY <3>2, <3>3, ExtraKept
    <3>5. QED
      BY <3>1, <3>4
  <2>4. QED
    BY <1>4, <2>1, <2>2, <2>3
<1>7. {v \in ScalesOf(d, o) : KeptAttributes(v, {}) # <<>>} = {}
  BY <1>5
<1>8. UNION {OddOnes(v.name, v.attrs, Plumbing \cup OwnedOf(o, v)) : v \in ToSet(d.datasets) \ Unreadable(d, o)} = {}
  BY <1>6
<1>9. Dropped(d, o) = {}
  BY <1>2, <1>3, <1>7, <1>8 DEF Dropped
<1>10. QED
  BY <1>9 DEF d

\* All of it: a File g read of what Save wrote of f.
Reopening(g, f, version, now) ==
  /\ FileOK(f) /\ Valid(f) /\ FileOK(g) /\ Reread(g, f, version, now)
  /\ Distinct(g.attributes) /\ ToSet(g.attributes) = ToSet(f.attributes) \cup ToSet(MissingGlobals(f))
  /\ SameVariables(g.variables, SavedVariables(f))
  /\ DOMAIN g.variableAttributes \subseteq DOMAIN WrittenVariables(f)
  /\ \A name \in DOMAIN WrittenVariables(f) :
       /\ SequenceOK(Given(g, name)) /\ Distinct(Given(g, name))
       /\ ToSet(Given(g, name)) = ToSet(SavedAttributes(f, name))
  /\ g.dropped = {}

LEMMA SavedReopened ==
  ASSUME NEW f, FileOK(f), Valid(f), NEW version, NEW now, ~TakenForField(SaveOf(f, version, now))
  PROVE  Reopening(OpenOf(SaveOf(f, version, now)), f, version, now)
<1> DEFINE d == SaveOf(f, version, now)
           g == OpenOf(d)
           o == Opened(d)
<1>1. ExtrasFit(f)
  BY DEF Valid
<1>2. FileOK(g)
  BY <1>1, SavedOK, OpenedOK
<1>3. Reread(g, f, version, now)
  BY <1>1, Reopened
<1>4. WrittenVariables(o) = WrittenVariables(f)
  <2>1. o.dataType = g.dataType /\ o.roomVolume = g.roomVolume
    BY OpenedFields
  <2> HIDE DEF o, g
  <2>2. o.dataType = f.dataType /\ o.roomVolume = f.roomVolume
    BY <1>3, <2>1 DEF Reread
  <2>3. QED
    BY <2>2, SameWritten
<1>5. OpenedAs(g, d)
  BY OpenOfAs
<1>6. /\ g.attributes = KeptGlobals(d) /\ g.variables = ReadVariables(d, o)
      /\ g.variableAttributes = ReadAttributes(d, o) /\ g.dropped = Dropped(d, o)
  BY <1>5 DEF OpenedAs
<1> HIDE DEF o, g
<1>7. Distinct(g.attributes) /\ ToSet(g.attributes) = ToSet(f.attributes) \cup ToSet(MissingGlobals(f))
  BY <1>1, <1>6, GlobalsReread
<1>8. SameVariables(g.variables, SavedVariables(f))
  BY <1>1, <1>4, <1>6, VariablesReread
<1>9. ASSUME NEW name
      PROVE  /\ name \in DOMAIN g.variableAttributes => name \in DOMAIN WrittenVariables(f)
             /\ name \in DOMAIN WrittenVariables(f) =>
                  /\ SequenceOK(Given(g, name)) /\ Distinct(Given(g, name))
                  /\ ToSet(Given(g, name)) = ToSet(SavedAttributes(f, name))
  BY <1>1, <1>4, <1>6, AttributesReread
<1>10. g.dropped = {}
  BY <1>1, <1>4, <1>6, NothingDropped
<1>11. QED
  BY <1>2, <1>3, <1>7, <1>8, <1>9, <1>10 DEF Reopening, g, d

\* Nothing mandatory is missing any more.
LEMMA NothingMissing ==
  ASSUME NEW f, NEW g, NEW version, NEW now, Reopening(g, f, version, now)
  PROVE  /\ Names(g.variables) = Names(f.variables) \cup Names(MissingVariables(f))
         /\ Names(g.attributes) = Names(f.attributes) \cup Names(MissingGlobals(f))
         /\ MissingVariables(g) = <<>> /\ MissingGlobals(g) = <<>>
<1>1. FileOK(f) /\ ExtrasFit(f) /\ g.convention = f.convention
  BY DEF Reopening, Valid, Reread
<1>2. Names(g.variables) = Names(f.variables) \cup Names(MissingVariables(f))
  <2>1. SameVariables(g.variables, SavedVariables(f))
    BY DEF Reopening
  <2>2. Names(g.variables) = Names(SavedVariables(f))
    <3> DEFINE a == g.variables
               b == SavedVariables(f)
    <3>1. /\ \A r \in ToSet(a) : \E v \in ToSet(b) : r.name = v.name
          /\ \A v \in ToSet(b) : \E r \in ToSet(a) : r.name = v.name
      BY <2>1 DEF SameVariables, SameVariable
    <3>2. Names(a) = {r.name : r \in ToSet(a)} /\ Names(b) = {v.name : v \in ToSet(b)}
      BY NamesAre
    <3> HIDE DEF a, b
    <3>3. Names(a) = Names(b)
      BY <3>1, <3>2
    <3>4. QED
      BY <3>3 DEF a, b
  <2>3. QED
    BY <1>1, <2>2, SavedVariablesAre
<1>3. Names(g.attributes) = Names(f.attributes) \cup Names(MissingGlobals(f))
  BY NamesAre DEF Reopening
<1>4. MissingVariables(g) = <<>>
  <2> DEFINE l == RulesFor(g.convention).variables
             absent == {i \in DOMAIN l : l[i].name \notin Names(g.variables)}
  <2>1. MissingVariables(g) = Chosen(l, absent)
    BY DEF MissingVariables, Filtered
  <2>2. SequenceOK(l)
    BY RulesAre, DefaultsFit, EmptyList DEF VariableLists
  <2>3. ASSUME NEW i \in DOMAIN l PROVE l[i].name \in Names(g.variables)
    <3>1. l[i].name \in Names(RulesFor(f.convention).variables)
      BY <1>1 DEF Names
    <3>2. QED
      BY <1>2, <3>1, MandatoryThere
  <2> HIDE DEF l
  <2>4. absent = {}
    BY <2>3
  <2> HIDE DEF absent
  <2>5. SequenceOK(MissingVariables(g)) /\ ToSet(MissingVariables(g)) = {}
    BY <2>1, <2>2, <2>4, Picked
  <2>6. QED
    BY <2>5, NoneIs
<1>5. MissingGlobals(g) = <<>>
  <2> DEFINE l == RulesFor(g.convention).globals
             all == [k \in DOMAIN l |-> Attribute(l[k], <<>>)]
             absent == {k \in DOMAIN all : all[k].name \notin Names(g.attributes)}
  <2>1. MissingGlobals(g) = Chosen(all, absent)
    BY DEF MissingGlobals, Filtered
  <2>2. \E n \in Nat : DOMAIN l = 1..n
    BY RulesAre, GlobalListsFit
  <2>3. ASSUME NEW i \in DOMAIN l PROVE l[i] \in Names(g.attributes)
    <3>1. i \in DOMAIN RulesFor(f.convention).globals /\ l[i] = RulesFor(f.convention).globals[i]
      BY <1>1
    <3>2. QED
      BY <1>3, <3>1, GlobalsThere
  <2> HIDE DEF l
  <2>4. PICK n \in Nat : DOMAIN l = 1..n
    BY <2>2
  <2>5. DOMAIN all = 1..n /\ all = [k \in 1..n |-> all[k]] /\ \A k \in 1..n : all[k].name = l[k]
    BY <2>4 DEF Attribute
  <2> HIDE DEF all
  <2>6. SequenceOK(all)
    BY <2>5, IsList
  <2>7. absent = {}
    BY <2>3, <2>4, <2>5
  <2> HIDE DEF absent
  <2>8. SequenceOK(MissingGlobals(g)) /\ ToSet(MissingGlobals(g)) = {}
    BY <2>1, <2>6, <2>7, Picked
  <2>9. QED
    BY <2>8, NoneIs
<1>6. QED
  BY <1>2, <1>3, <1>4, <1>5

\* What Save writes by name, and what it sets on it, is as before.
LEMMA WrittenAgain ==
  ASSUME NEW f, NEW g, NEW version, NEW now, Reopening(g, f, version, now)
  PROVE  /\ WrittenVariables(g) = WrittenVariables(f)
         /\ DOMAIN WrittenOrMissing(g) = DOMAIN WrittenVariables(f)
         /\ \A name \in DOMAIN WrittenVariables(f) :
              WrittenOrMissing(g)[name] = WrittenVariables(f)[name]
<1>1. WrittenVariables(g) = WrittenVariables(f)
  BY SameWritten DEF Reopening, Reread
<1>2. MissingVariables(g) = <<>>
  BY NothingMissing
<1> DEFINE w == WrittenVariables(f)
<1>3. WrittenOrMissing(g) =
        [name \in DOMAIN w \cup Names(<<>>) |->
           (IF name \in DOMAIN w THEN w[name] ELSE {})
           \cup UNION {Names(v.attrs) : v \in {m \in ToSet(<<>>) : m.name = name}}]
  BY <1>1, <1>2 DEF WrittenOrMissing
<1> HIDE DEF w
<1>4. ToSet(<<>>) = {} /\ Names(<<>>) = {}
  BY EmptyList
<1>5. QED
  BY <1>1, <1>3, <1>4 DEF w

\* What Save writes by name has a mandatory Reference.
LEMMA ReferenceSaved ==
  ASSUME NEW f, FileOK(f), ExtrasFit(f), NEW name \in DOMAIN WrittenVariables(f),
         name \in RulesFor(f.convention).references
  PROVE  "Reference" \in Names(SavedAttributes(f, name))
<1> DEFINE own == f.variables
           missing == MissingVariables(f)
           given == Given(f, name)
           x == Attribute("Reference", <<>>)
<1>1. name \notin Names(own)
  <2>1. \A v \in ToSet(own) : v.name \notin DOMAIN WrittenOrMissing(f)
    BY DEF ExtrasFit
  <2>2. name \in DOMAIN WrittenOrMissing(f)
    BY WrittenOrMissingIs
  <2> HIDE DEF own
  <2>3. QED
    BY <2>1, <2>2, NamesAre
<1>2. name \notin Names(missing)
  BY NotWritten, MissingVariablesFit
<1>3. SequenceOK(own) /\ SequenceOK(missing)
  BY MissingVariablesFit DEF FileOK
<1>4. name \notin Names(own \o missing)
  <2> HIDE DEF own, missing
  <2>1. QED
    BY <1>1, <1>2, <1>3, NamesJoined
<1>5. SavedAttributes(f, name) = WithMandatory(f, name, given)
  BY <1>4 DEF SavedAttributes
<1>6. WithMandatory(f, name, given) = IF "Reference" \notin Names(given) THEN Append(given, x) ELSE given
  BY DEF WithMandatory
<1>7. SequenceOK(given)
  BY GivenFits
<1>8. x.name = "Reference"
  BY DEF Attribute
<1> HIDE DEF given, x
<1>9. "Reference" \in Names(Append(given, x))
  <2>1. ToSet(Append(given, x)) = ToSet(given) \cup {x}
    BY <1>7, Appended
  <2>2. QED
    BY <1>8, <2>1, NamesAre
<1>10. QED
  BY <1>5, <1>6, <1>9

LEMMA AttributesAgain ==
  ASSUME NEW f, NEW g, NEW version, NEW now, Reopening(g, f, version, now),
         NEW name \in DOMAIN WrittenVariables(f)
  PROVE  /\ SavedAttributes(g, name) = Given(g, name)
         /\ ToSet(SavedAttributes(g, name)) = ToSet(SavedAttributes(f, name))
<1> DEFINE given == Given(g, name)
<1>1. FileOK(f) /\ ExtrasFit(f) /\ g.convention = f.convention
      /\ SequenceOK(given) /\ ToSet(given) = ToSet(SavedAttributes(f, name))
  BY DEF Reopening, Valid, Reread
<1>2. SavedAttributes(g, name) = given \/ SavedAttributes(g, name) = WithMandatory(g, name, given)
  BY DEF SavedAttributes
<1> HIDE DEF given
<1>3. name \in RulesFor(f.convention).references => "Reference" \in Names(given)
  BY <1>1, ReferenceSaved, NamesAre
<1>4. WithMandatory(g, name, given) = given
  BY <1>1, <1>3 DEF WithMandatory
<1>5. QED
  BY <1>1, <1>2, <1>4 DEF given

\* The axes of the variables are the same.
AxesOf(v) == {<<v.dims[i], v.shape[i]>> : i \in DOMAIN v.dims}

LEMMA SameAxes ==
  ASSUME NEW list, NEW others, SameVariables(list, others)
  PROVE  Axes(list) = Axes(others)
<1>1. \A l : Axes(l) = UNION {AxesOf(v) : v \in ToSet(l)}
  BY DEF Axes, AxesOf
<1>2. \A r, v : SameVariable(r, v) => AxesOf(r) = AxesOf(v)
  BY DEF SameVariable, AxesOf
<1>3. /\ \A r \in ToSet(list) : \E v \in ToSet(others) : AxesOf(r) = AxesOf(v)
      /\ \A v \in ToSet(others) : \E r \in ToSet(list) : AxesOf(r) = AxesOf(v)
  BY <1>2 DEF SameVariables
<1>4. UNION {AxesOf(v) : v \in ToSet(list)} = UNION {AxesOf(v) : v \in ToSet(others)}
  BY <1>3
<1>5. QED
  BY <1>1, <1>4

\* What Open has read, validateExtras accepts.
LEMMA RereadVariableFits ==
  ASSUME NEW f, FileOK(f), ExtrasFit(f), NEW v \in ToSet(SavedVariables(f)), NEW r, SameVariable(r, v)
  PROVE  /\ r.name \notin DOMAIN WrittenVariables(f)
         /\ r.shape # <<>> /\ (r.dims = <<>> \/ Len(r.dims) = Len(r.shape))
         /\ AttributesFit(r.attrs, Plumbing)
         /\ r.name \in RulesFor(f.convention).references => "Reference" \in Names(r.attrs)
<1>1. /\ r.name = v.name /\ r.dims = v.dims /\ r.shape = v.shape
      /\ ToSet(r.attrs) = ToSet(v.attrs) /\ SequenceOK(r.attrs) /\ Distinct(r.attrs)
  BY DEF SameVariable
<1>2. /\ v.name \notin DOMAIN WrittenVariables(f)
      /\ (v.dims = <<>> \/ Len(v.dims) = Len(v.shape))
      /\ \A a \in ToSet(v.attrs) : a.value # Odd
      /\ (v.name \in RulesFor(f.convention).references => "Reference" \in Names(v.attrs))
  BY SavedVariableKept
<1>3. v.shape # <<>> /\ Names(v.attrs) \cap Plumbing = {}
  BY SavedVariablesFit
<1>4. Names(r.attrs) = Names(v.attrs)
  BY <1>1, NamesAre
<1>5. \A i \in DOMAIN r.attrs : r.attrs[i].value # Odd
  BY <1>1, <1>2 DEF ToSet
<1>6. AttributesFit(r.attrs, Plumbing)
  BY <1>1, <1>3, <1>4, <1>5 DEF AttributesFit
<1>7. QED
  BY <1>1, <1>2, <1>3, <1>4, <1>6

LEMMA GlobalsFitAgain ==
  ASSUME NEW f, NEW g, NEW version, NEW now, Reopening(g, f, version, now)
  PROVE  AttributesFit(g.attributes, GlobalFields \cup NetCDF)
<1> DEFINE own == f.attributes
           missing == MissingGlobals(f)
<1>1. /\ Distinct(g.attributes) /\ ToSet(g.attributes) = ToSet(own) \cup ToSet(missing)
      /\ AttributesFit(own, NotOurs)
  BY DEF Reopening, Valid, ExtrasFit, NotOurs
<1>2. /\ Names(missing) \cap (NotOurs \cup Names(own)) = {}
      /\ \A a \in ToSet(missing) : a = Attribute(a.name, <<>>)
  BY MissingGlobalsFit
<1>3. Names(g.attributes) = Names(own) \cup Names(missing)
  BY NothingMissing
<1> HIDE DEF own, missing
<1>4. \A a \in ToSet(own) : a.value # Odd
  BY <1>1 DEF AttributesFit, ToSet
<1>5. \A a \in ToSet(missing) : a.value # Odd
  BY <1>2 DEF Attribute, Odd
<1>6. \A i \in DOMAIN g.attributes : g.attributes[i] \in ToSet(g.attributes)
  BY DEF ToSet
<1>7. \A i \in DOMAIN g.attributes : g.attributes[i].value # Odd
  BY <1>1, <1>4, <1>5, <1>6
<1>8. Names(g.attributes) \cap NotOurs = {}
  BY <1>1, <1>2, <1>3 DEF AttributesFit
<1>9. QED
  BY <1>1, <1>7, <1>8 DEF AttributesFit, NotOurs

LEMMA GivenFitsAgain ==
  ASSUME NEW f, NEW g, NEW version, NEW now, Reopening(g, f, version, now),
         NEW name \in DOMAIN g.variableAttributes
  PROVE  /\ name \in DOMAIN WrittenOrMissing(g)
         /\ AttributesFit(g.variableAttributes[name], Plumbing \cup WrittenOrMissing(g)[name])
<1> DEFINE given == g.variableAttributes[name]
           w == WrittenVariables(f)
<1>1. FileOK(f) /\ ExtrasFit(f) /\ name \in DOMAIN w
  BY DEF Reopening, Valid
<1>2. given = Given(g, name)
  BY DEF Given
<1>3. Distinct(given) /\ ToSet(given) = ToSet(SavedAttributes(f, name))
  BY <1>1, <1>2 DEF Reopening
<1>4. DOMAIN WrittenOrMissing(g) = DOMAIN w /\ WrittenOrMissing(g)[name] = w[name]
  BY <1>1, WrittenAgain
<1>5. \A a \in ToSet(given) : a.value # Odd /\ a.name \notin Plumbing \cup w[name]
  BY <1>1, <1>3, SavedAttributesKept
<1> HIDE DEF given
<1>6. Names(given) \cap (Plumbing \cup w[name]) = {}
  BY <1>5, NamesAre
<1>7. \A i \in DOMAIN given : given[i].value # Odd
  BY <1>5 DEF ToSet
<1>8. QED
  BY <1>1, <1>3, <1>4, <1>6, <1>7 DEF AttributesFit, given

LEMMA ExtrasFitAgain ==
  ASSUME NEW f, NEW g, NEW version, NEW now, Reopening(g, f, version, now)
  PROVE  ExtrasFit(g) /\ Axes(g.variables) = Axes(SavedVariables(f)) /\ Sizes(g) = Sizes(f)
<1> DEFINE written == WrittenOrMissing(g)
           axes == Axes(g.variables)
<1>1. FileOK(f) /\ ExtrasFit(f) /\ SameVariables(g.variables, SavedVariables(f))
  BY DEF Reopening, Valid
<1>2. DOMAIN written = DOMAIN WrittenVariables(f)
  BY WrittenAgain
<1>3. Sizes(g) = Sizes(f)
  BY DEF Reopening, Reread, Sizes
<1>4. axes = Axes(SavedVariables(f))
  BY <1>1, SameAxes
<1>5. ASSUME NEW v \in ToSet(g.variables)
      PROVE  /\ v.name \notin DOMAIN written
             /\ v.shape # <<>> /\ (v.dims = <<>> \/ Len(v.dims) = Len(v.shape))
             /\ AttributesFit(v.attrs, Plumbing)
  <2>1. PICK w \in ToSet(SavedVariables(f)) : SameVariable(v, w)
    BY <1>1 DEF SameVariables
  <2>2. QED
    BY <1>1, <1>2, <2>1, RereadVariableFits
<1>6. ASSUME NEW a \in axes PROVE a[2] = SizeOf(f, a[1])
  BY <1>1, <1>4, SizesAgree
<1>7. ASSUME NEW a \in axes
      PROVE  IF a[1] \in DOMAIN Sizes(g) THEN a[2] = Sizes(g)[a[1]]
             ELSE a[1] \notin Names(g.variables) \cup DOMAIN written
  <2>1. CASE a[1] \in DOMAIN Sizes(f)
    BY <1>3, <1>6, <2>1 DEF SizeOf
  <2>2. CASE a[1] \notin DOMAIN Sizes(f)
    <3>1. DOMAIN Sizes(f) = ToSet(Dimensions)
      BY DimensionsAre DEF Sizes
    <3>2. a[1] \in Further(f)
      BY <1>4, <2>2, <3>1 DEF Further
    <3>3. a[1] \notin Names(f.variables) \cup DOMAIN WrittenVariables(f) \cup Names(MissingVariables(f))
      BY <1>1, <3>2, FurtherNew
    <3>4. Names(g.variables) = Names(f.variables) \cup Names(MissingVariables(f))
      BY NothingMissing
    <3>5. QED
      BY <1>2, <1>3, <2>2, <3>3, <3>4
  <2>3. QED
    BY <2>1, <2>2
<1>8. \A a, b \in axes : a[1] = b[1] => a[2] = b[2]
  BY <1>6
<1>9. Distinct(g.variables)
  BY <1>1 DEF SameVariables
<1>10. AttributesFit(g.attributes, GlobalFields \cup NetCDF)
  BY GlobalsFitAgain
<1>11. \A name \in DOMAIN g.variableAttributes :
         /\ name \in DOMAIN written
         /\ AttributesFit(g.variableAttributes[name], Plumbing \cup written[name])
  BY GivenFitsAgain
<1> HIDE DEF written, axes
<1>12. ExtrasFit(g)
  BY <1>5, <1>7, <1>8, <1>9, <1>10, <1>11 DEF ExtrasFit, written, axes
<1>13. QED
  BY <1>3, <1>4, <1>12 DEF axes

LEMMA OrGiven ==
  ASSUME NEW value, NEW default
  PROVE  Or(value, default) # <<>>
<1>1. <<default>> # <<>>
  OBVIOUS
<1>2. QED
  BY <1>1 DEF Or

LEMMA SameEmitterAndRoom ==
  ASSUME NEW f, NEW g, NEW version, NEW now, Reopening(g, f, version, now)
  PROVE  SavedEmitterType(g) = SavedEmitterType(f) /\ SavedRoomType(g) = SavedRoomType(f)
<1>1. Reread(g, f, version, now)
  BY DEF Reopening
<1>2. g.emitters # <<>> /\ g.emitterType = SavedEmitterType(f)
  BY <1>1, OrGiven DEF Reread
<1>3. g.roomType = SavedRoomType(f) /\ g.roomType # <<>>
  BY <1>1, SavedRoomTypeIs DEF Reread
<1>4. SavedEmitterType(g) = g.emitterType
  BY <1>2 DEF SavedEmitterType
<1>5. SavedRoomType(g) = g.roomType
  BY <1>3 DEF SavedRoomType
<1>6. QED
  BY <1>2, <1>3, <1>4, <1>5

LEMMA ValidAgain ==
  ASSUME NEW f, NEW g, NEW version, NEW now, Reopening(g, f, version, now)
  PROVE  Valid(g)
<1>1. Valid(f) /\ Reread(g, f, version, now)
  BY DEF Reopening
<1>2. ExtrasFit(g)
  BY ExtrasFitAgain
<1>3. SavedEmitterType(g) = SavedEmitterType(f)
  BY SameEmitterAndRoom
<1>4. ConventionMet(f) /\ SavedEmitterType(f) # <<>> /\ f.M > 0 /\ f.R > 0 /\ f.E > 0
      /\ f.dataType \in {"FIR", "TF", "TF-E", "SOS"}
  BY <1>1 DEF Valid
<1>5. ConventionMet(g)
  <2>1. g.convention = f.convention /\ g.dataType = f.dataType /\ g.E = f.E
        /\ g.view # <<>> /\ g.up # <<>>
    BY <1>1, OrGiven DEF Reread
  <2>2. QED
    BY <1>4, <2>1 DEF ConventionMet
<1>6. QED
  BY <1>1, <1>2, <1>3, <1>4, <1>5 DEF Valid, Reread

\* What the next Save writes of the extra variables: no more attributes.
LEMMA VariablesAgain ==
  ASSUME NEW f, NEW g, NEW version, NEW now, Reopening(g, f, version, now)
  PROVE  ToSet(SavedVariables(g)) = ToSet(g.variables)
<1>1. FileOK(f) /\ ExtrasFit(f) /\ FileOK(g) /\ g.convention = f.convention
      /\ SameVariables(g.variables, SavedVariables(f))
  BY DEF Reopening, Valid, Reread
<1>2. ExtrasFit(g) /\ MissingVariables(g) = <<>>
  BY ExtrasFitAgain, NothingMissing
<1>3. ToSet(SavedVariables(g)) = {OwnSaved(g, r) : r \in ToSet(g.variables)}
                                 \cup {DefaultSaved(g, v) : v \in ToSet(MissingVariables(g))}
  BY <1>1, <1>2, SavedVariablesAre
<1>4. {DefaultSaved(g, v) : v \in ToSet(MissingVariables(g))} = {}
  BY <1>2, EmptyList
<1>5. ASSUME NEW r \in ToSet(g.variables) PROVE OwnSaved(g, r) = r
  <2>1. IsVariable(r)
    BY <1>1 DEF FileOK, IsVariable
  <2>2. PICK v \in ToSet(SavedVariables(f)) : SameVariable(r, v)
    BY <1>1 DEF SameVariables
  <2>3. r.name \in RulesFor(f.convention).references => "Reference" \in Names(r.attrs)
    BY <1>1, <2>2, RereadVariableFits
  <2>4. WithMandatory(g, r.name, r.attrs) = r.attrs
    BY <1>1, <2>3 DEF WithMandatory
  <2>5. OwnSaved(g, r) = Variable(r.name, r.dims, r.shape, r.form, r.data, WithMandatory(g, r.name, r.attrs))
    BY <2>1, CompletedIs DEF OwnSaved
  <2>6. QED
    BY <2>1, <2>4, <2>5 DEF IsVariable
<1>6. QED
  BY <1>3, <1>4, <1>5

\* Two datasets that differ at most in the order of their attributes.
Alike(u, v) ==
  /\ u = Dataset(u, u.scale) /\ v = Dataset(v, v.scale)
  /\ u.scale = v.scale /\ u.name = v.name /\ u.dims = v.dims /\ u.shape = v.shape
  /\ u.form = v.form /\ u.data = v.data /\ ToSet(u.attrs) = ToSet(v.attrs)

Stripped(v) == [v EXCEPT !.attrs = ToSet(@)]

LEMMA AlikeStripped ==
  ASSUME NEW u, NEW v, Alike(u, v)
  PROVE  Stripped(u) = Stripped(v)
<1>1. ASSUME NEW w, w = Dataset(w, w.scale)
      PROVE  Stripped(w) = [scale |-> w.scale, name |-> w.name, dims |-> w.dims, shape |-> w.shape,
                            form |-> w.form, data |-> w.data, attrs |-> ToSet(w.attrs)]
  BY <1>1 DEF Stripped, Dataset
<1>2. QED
  BY <1>1 DEF Alike

\* The next Save's further dimensions and their sizes.
LEMMA DimensionsAgain ==
  ASSUME NEW f, NEW g, NEW version, NEW now, Reopening(g, f, version, now)
  PROVE  /\ Further(g) = Further(f)
         /\ \A n : SizeOf(g, n) = SizeOf(f, n)
<1>1. Axes(g.variables) = Axes(SavedVariables(f)) /\ Sizes(g) = Sizes(f)
  BY ExtrasFitAgain
<1>2. Axes(SavedVariables(g)) = Axes(g.variables)
  BY VariablesAgain DEF Axes
<1>3. QED
  BY <1>1, <1>2 DEF Further, SizeOf

ScaleAs(f, s, n) ==
  /\ s = Dataset(s, TRUE) /\ s.scale = TRUE /\ s.name = n /\ s.dims = <<>>
  /\ s.shape = <<SizeOf(f, n)>>
  /\ s.form = (IF Frequencies(f, n) THEN "numeric" ELSE "none")
  /\ s.data = (IF Frequencies(f, n) THEN <<"given">> ELSE <<>>)
  /\ ToSet(s.attrs) = ToSet(ScaleOwn(f, n)) \cup ToSet(SavedAttributes(f, n))

LEMMA ScaleIs ==
  ASSUME NEW f, FileOK(f), ExtrasFit(f), NEW d
  PROVE  ScaleAs(f, ScaleOf(f, d), d)
<1> DEFINE s == ScaleOf(f, d)
<1>1. s.scale = TRUE /\ s.name = d /\ s.dims = <<>> /\ s.shape = <<SizeOf(f, d)>>
  BY DEF ScaleOf, Dataset, Variable
<1>5. s = Dataset(s, TRUE)
  BY DEF ScaleOf, Dataset, Variable
<1>2. s.form = (IF Frequencies(f, d) THEN "numeric" ELSE "none")
  BY ScaleFits
<1>3. s.data = (IF Frequencies(f, d) THEN <<"given">> ELSE <<>>)
  BY ScaleFits
<1>4. ToSet(s.attrs) = ToSet(ScaleOwn(f, d)) \cup ToSet(SavedAttributes(f, d))
  BY ScaleFits
<1>6. QED
  BY <1>1, <1>2, <1>3, <1>4, <1>5 DEF ScaleAs

LEMMA ScaleAgain ==
  ASSUME NEW f, NEW g, NEW version, NEW now, Reopening(g, f, version, now),
         NEW n \in ToSet(SavedDimensions(f))
  PROVE  Alike(ScaleOf(g, n), ScaleOf(f, n))
<1> DEFINE s == ScaleOf(f, n)
           t == ScaleOf(g, n)
<1>1. FileOK(f) /\ ExtrasFit(f) /\ FileOK(g) /\ g.dataType = f.dataType
  BY DEF Reopening, Valid, Reread
<1>2. ExtrasFit(g)
  BY ExtrasFitAgain
<1>3. n \in ToSet(Dimensions) \/ n \in Further(f)
  BY <1>1, SavedDimensionsAre
<1>4. ToSet(SavedAttributes(g, n)) = ToSet(SavedAttributes(f, n))
  <2>1. CASE n \in ToSet(Dimensions)
    BY <1>1, <2>1, ScaleLabelled, AttributesAgain
  <2>2. CASE n \in Further(f)
    <3>1. n \in Further(g)
      BY <2>2, DimensionsAgain
    <3>2. SavedAttributes(g, n) = <<>> /\ SavedAttributes(f, n) = <<>>
      BY <1>1, <1>2, <2>2, <3>1, FurtherBare
    <3>3. QED
      BY <3>2
  <2>3. QED
    BY <1>3, <2>1, <2>2
<1>5. SizeOf(g, n) = SizeOf(f, n)
  BY DimensionsAgain
<1>6. Frequencies(g, n) <=> Frequencies(f, n)
  BY <1>1 DEF Frequencies, IsTF
<1>7. ScaleOwn(g, n) = ScaleOwn(f, n)
  BY <1>6 DEF ScaleOwn
<1>8. ScaleAs(f, s, n)
  BY <1>1, ScaleIs
<1>9. ScaleAs(g, t, n)
  BY <1>1, <1>2, ScaleIs
<1> HIDE DEF s, t
<1>10. Alike(t, s)
  BY <1>4, <1>5, <1>6, <1>7, <1>8, <1>9 DEF Alike, ScaleAs
<1>11. QED
  BY <1>10 DEF s, t

\* The next Save's variables by name.
LEMMA OwnedAgain ==
  ASSUME NEW f, NEW g, NEW version, NEW now, Reopening(g, f, version, now),
         NEW name \in DOMAIN WrittenVariables(f), NEW data, NEW own,
         SequenceOK(own), Distinct(own), Names(own) \subseteq WrittenVariables(f)[name]
  PROVE  Alike(Owned(g, name, data, own), Owned(f, name, data, own))
<1> DEFINE s == Owned(f, name, data, own)
           t == Owned(g, name, data, own)
<1>1. FileOK(f) /\ ExtrasFit(f) /\ FileOK(g)
  BY DEF Reopening, Valid
<1>2. ExtrasFit(g) /\ WrittenVariables(g) = WrittenVariables(f)
  BY ExtrasFitAgain, WrittenAgain
<1>3. OwnedAs(f, s, name, data, own)
  BY <1>1, OwnedFits
<1>4. OwnedAs(g, t, name, data, own)
  BY <1>1, <1>2, OwnedFits
<1>5. ToSet(SavedAttributes(g, name)) = ToSet(SavedAttributes(f, name))
  BY AttributesAgain
<1> HIDE DEF s, t
<1>6. Alike(t, s)
  BY <1>3, <1>4, <1>5 DEF OwnedAs, Alike
<1>7. QED
  BY <1>6 DEF s, t

LEMMA ExtraAgain ==
  ASSUME NEW r, NEW v, IsVariable(r), IsVariable(v), SequenceOK(v.attrs), SameVariable(r, v)
  PROVE  Alike(Attached(r), Attached(v))
<1> DEFINE s == Attached(v)
           t == Attached(r)
           list == Attribute("DIMENSION_LIST", v.dims)
<1>1. /\ r.name = v.name /\ r.dims = v.dims /\ r.shape = v.shape /\ r.form = v.form /\ r.data = v.data
      /\ ToSet(r.attrs) = ToSet(v.attrs) /\ SequenceOK(r.attrs)
  BY DEF SameVariable
<1>2. /\ s = Dataset(s, FALSE) /\ s.scale = FALSE /\ s.name = v.name /\ s.dims = v.dims
      /\ s.shape = v.shape /\ s.form = v.form /\ s.data = v.data
      /\ s.attrs = IF v.dims = <<>> THEN v.attrs ELSE Append(v.attrs, list)
  BY AttachedIs
<1>3. /\ t = Dataset(t, FALSE) /\ t.scale = FALSE /\ t.name = r.name /\ t.dims = r.dims
      /\ t.shape = r.shape /\ t.form = r.form /\ t.data = r.data
      /\ t.attrs = IF r.dims = <<>> THEN r.attrs ELSE Append(r.attrs, list)
  BY <1>1, AttachedIs
<1> HIDE DEF list
<1>4. /\ ToSet(Append(v.attrs, list)) = ToSet(v.attrs) \cup {list}
      /\ ToSet(Append(r.attrs, list)) = ToSet(r.attrs) \cup {list}
  BY <1>1, Appended
<1> HIDE DEF s, t
<1>5. ToSet(t.attrs) = ToSet(s.attrs)
  BY <1>1, <1>2, <1>3, <1>4
<1>6. Alike(t, s)
  BY <1>1, <1>2, <1>3, <1>5 DEF Alike
<1>7. QED
  BY <1>6 DEF s, t

\* Sets of such datasets.
Match(S, T) ==
  /\ \A s \in S : \E t \in T : Alike(t, s)
  /\ \A t \in T : \E s \in S : Alike(t, s)

LEMMA MatchJoined ==
  ASSUME NEW A, NEW B, NEW C, NEW D, Match(A, B), Match(C, D)
  PROVE  Match(A \cup C, B \cup D)
  BY DEF Match

LEMMA MatchStripped ==
  ASSUME NEW S, NEW T, Match(S, T)
  PROVE  {Stripped(s) : s \in S} = {Stripped(t) : t \in T}
<1>1. \A s \in S : \E t \in T : Stripped(t) = Stripped(s)
  BY AlikeStripped DEF Match
<1>2. \A t \in T : \E s \in S : Stripped(t) = Stripped(s)
  BY AlikeStripped DEF Match
<1>3. QED
  BY <1>1, <1>2

LEMMA PlacedAgain ==
  ASSUME NEW f, NEW g, NEW version, NEW now, Reopening(g, f, version, now)
  PROVE  Match(ToSet(PlacedList(f)), ToSet(PlacedList(g)))
<1> DEFINE w == WrittenVariables(f)
<1>1. FileOK(f) /\ ExtrasFit(f) /\ FileOK(g) /\ ExtrasFit(g) /\ Reread(g, f, version, now)
  BY ExtrasFitAgain DEF Reopening, Valid
<1>2. PlacedNames \subseteq DOMAIN w /\ \A name \in PlacedNames : w[name] = {"Type", "Units"}
  <2>1. PlacedNames = Positions \cup {"ListenerView", "ListenerUp"}
    BY DEF PlacedNames, Positions
  <2>2. QED
    BY <2>1, WrittenIs
<1>3. ASSUME NEW name \in PlacedNames, NEW data, NEW type
      PROVE  Alike(Owned(g, name, data, TypeUnits(type)), Owned(f, name, data, TypeUnits(type)))
  <2> DEFINE own == TypeUnits(type)
  <2>1. SequenceOK(own) /\ Distinct(own) /\ Names(own) = {"Type", "Units"}
    BY TypeUnitsAre
  <2>2. name \in DOMAIN w /\ w[name] = {"Type", "Units"}
    BY <1>2
  <2> HIDE DEF own
  <2>3. Alike(Owned(g, name, data, own), Owned(f, name, data, own))
    BY <2>1, <2>2, OwnedAgain
  <2>4. QED
    BY <2>3 DEF own
<1>4. \A value, default : Or(Or(value, default), default) = Or(value, default)
  <2>1. \A value, default : Or(value, default) # <<>>
    BY OrGiven
  <2>2. QED
    BY <2>1 DEF Or
<1>5. SavedEmitterType(g) = SavedEmitterType(f)
  BY SameEmitterAndRoom
<1>6. /\ Or(g.emitters, "[0 0 0]") = Or(f.emitters, "[0 0 0]") /\ Or(g.up, "+z") = Or(f.up, "+z")
      /\ Or(g.view, "+x") = Or(f.view, "+x")
  BY <1>1, <1>4 DEF Reread
<1>7. ASSUME NEW name \in Positions PROVE Alike(Cartesian(g, name), Cartesian(f, name))
  BY <1>3 DEF Cartesian, PlacedNames, Positions
<1>8. Alike(EmitterOf(g), EmitterOf(f))
  BY <1>3, <1>5, <1>6 DEF EmitterOf, PlacedNames
<1>9. Alike(ViewOf(g), ViewOf(f))
  BY <1>3, <1>6 DEF ViewOf, PlacedNames
<1>10. Alike(UpOf(g), UpOf(f))
  <2> DEFINE data == Or(f.up, "+z")
  <2>1. "ListenerUp" \in DOMAIN w
    BY <1>2 DEF PlacedNames
  <2>2. SequenceOK(<<>>) /\ Distinct(<<>>) /\ Names(<<>>) \subseteq w["ListenerUp"]
    BY EmptyList
  <2> HIDE DEF data
  <2>3. Alike(Owned(g, "ListenerUp", data, <<>>), Owned(f, "ListenerUp", data, <<>>))
    BY <2>1, <2>2, OwnedAgain
  <2>4. QED
    BY <1>6, <2>3 DEF UpOf, data
<1>11. /\ ToSet(PlacedList(f)) =
              { Cartesian(f, "ListenerPosition"), Cartesian(f, "ReceiverPosition"),
                Cartesian(f, "SourcePosition"), EmitterOf(f), UpOf(f), ViewOf(f) }
       /\ ToSet(PlacedList(g)) =
              { Cartesian(g, "ListenerPosition"), Cartesian(g, "ReceiverPosition"),
                Cartesian(g, "SourcePosition"), EmitterOf(g), UpOf(g), ViewOf(g) }
  BY <1>1, PlacedFits
<1>12. /\ Alike(Cartesian(g, "ListenerPosition"), Cartesian(f, "ListenerPosition"))
       /\ Alike(Cartesian(g, "ReceiverPosition"), Cartesian(f, "ReceiverPosition"))
       /\ Alike(Cartesian(g, "SourcePosition"), Cartesian(f, "SourcePosition"))
  BY <1>7 DEF Positions
<1>13. QED
  BY <1>8, <1>9, <1>10, <1>11, <1>12 DEF Match

LEMMA RoomAgain ==
  ASSUME NEW f, NEW g, NEW version, NEW now, Reopening(g, f, version, now)
  PROVE  Match(ToSet(RoomList(f)), ToSet(RoomList(g)))
<1> DEFINE w == WrittenVariables(f)
           data == <<f.roomVolume>>
           own == UnitsOf("cubic metre")
<1>1. FileOK(f) /\ ExtrasFit(f) /\ FileOK(g) /\ ExtrasFit(g) /\ g.roomVolume = f.roomVolume
  BY ExtrasFitAgain DEF Reopening, Valid, Reread
<1>2. /\ ToSet(RoomList(f)) = IF f.roomVolume = "0" THEN {} ELSE {RoomOf(f)}
      /\ ToSet(RoomList(g)) = IF f.roomVolume = "0" THEN {} ELSE {RoomOf(g)}
  BY <1>1, RoomFits
<1>3. CASE f.roomVolume = "0"
  BY <1>2, <1>3 DEF Match
<1>4. CASE f.roomVolume # "0"
  <2>1. /\ DOMAIN w = Positions \cup {"ListenerView", "ListenerUp"}
             \cup (IF IsTF(f) THEN {"Data.Real", "Data.Imag"}
                   ELSE {IF f.dataType = "SOS" THEN "Data.SOS" ELSE "Data.IR", "Data.SamplingRate", "Data.Delay"})
             \cup (IF f.roomVolume = "0" THEN {} ELSE {"RoomVolume"}) \cup ToSet(Dimensions)
        /\ \A name \in DOMAIN w \cap {"RoomVolume", "Data.SamplingRate"} : w[name] = {"Units"}
    BY WrittenIs
  <2>2. "RoomVolume" \in DOMAIN w /\ w["RoomVolume"] = {"Units"}
    BY <1>4, <2>1
  <2>3. SequenceOK(own) /\ Distinct(own) /\ Names(own) = {"Units"}
    BY UnitsAre
  <2>4. RoomOf(f) = Owned(f, "RoomVolume", data, own) /\ RoomOf(g) = Owned(g, "RoomVolume", data, own)
    BY <1>1 DEF RoomOf
  <2> HIDE DEF data, own
  <2>5. Alike(RoomOf(g), RoomOf(f))
    BY <2>2, <2>3, <2>4, OwnedAgain
  <2>6. QED
    BY <1>2, <1>4, <2>5 DEF Match
<1>5. QED
  BY <1>3, <1>4

\* The audio's variables, as a set.
LEMMA AudioIs ==
  ASSUME NEW f
  PROVE  ToSet(AudioList(f)) =
           IF IsTF(f)
           THEN { Owned(f, "Data.Real", <<"given">>, <<>>), Owned(f, "Data.Imag", <<"given">>, <<>>) }
           ELSE { Owned(f, SamplesName(f), <<"given">>, <<>>),
                  Owned(f, "Data.SamplingRate", <<"given">>, UnitsOf("hertz")),
                  Owned(f, "Data.Delay", <<"given">>, <<>>) }
<1>1. ASSUME NEW x, NEW y PROVE ToSet(<<x, y>>) = {x, y}
  BY DEF ToSet
<1>2. ASSUME NEW x, NEW y, NEW z PROVE ToSet(<<x, y, z>>) = {x, y, z}
  BY DEF ToSet
<1>3. QED
  BY <1>1, <1>2, Zenon DEF AudioList

LEMMA AudioAgain ==
  ASSUME NEW f, NEW g, NEW version, NEW now, Reopening(g, f, version, now)
  PROVE  Match(ToSet(AudioList(f)), ToSet(AudioList(g)))
<1> DEFINE w == WrittenVariables(f)
           units == UnitsOf("hertz")
           data == <<"given">>
           samples == SamplesName(f)
<1>1. g.dataType = f.dataType
  BY DEF Reopening, Reread
<1>2. SamplesName(g) = samples /\ (IsTF(g) <=> IsTF(f))
  BY <1>1 DEF SamplesName, IsTF
<1>3. /\ DOMAIN w = Positions \cup {"ListenerView", "ListenerUp"}
             \cup (IF IsTF(f) THEN {"Data.Real", "Data.Imag"}
                   ELSE {IF f.dataType = "SOS" THEN "Data.SOS" ELSE "Data.IR", "Data.SamplingRate", "Data.Delay"})
             \cup (IF f.roomVolume = "0" THEN {} ELSE {"RoomVolume"}) \cup ToSet(Dimensions)
      /\ \A name \in DOMAIN w \cap {"RoomVolume", "Data.SamplingRate"} : w[name] = {"Units"}
  BY WrittenIs
<1>4. SequenceOK(units) /\ Distinct(units) /\ Names(units) = {"Units"}
  BY UnitsAre
<1>5. IF IsTF(f) THEN {"Data.Real", "Data.Imag"} \subseteq DOMAIN w
      ELSE {samples, "Data.SamplingRate", "Data.Delay"} \subseteq DOMAIN w
  BY <1>3 DEF SamplesName
<1> HIDE DEF units, data, samples
<1>6. ASSUME NEW name \in DOMAIN w
      PROVE  Alike(Owned(g, name, data, <<>>), Owned(f, name, data, <<>>))
  BY EmptyList, OwnedAgain
<1>7. CASE IsTF(f)
  <2>1. ToSet(AudioList(f)) = {Owned(f, "Data.Real", data, <<>>), Owned(f, "Data.Imag", data, <<>>)}
        /\ ToSet(AudioList(g)) = {Owned(g, "Data.Real", data, <<>>), Owned(g, "Data.Imag", data, <<>>)}
    BY <1>2, <1>7, AudioIs, Zenon DEF data
  <2>2. Alike(Owned(g, "Data.Real", data, <<>>), Owned(f, "Data.Real", data, <<>>))
        /\ Alike(Owned(g, "Data.Imag", data, <<>>), Owned(f, "Data.Imag", data, <<>>))
    BY <1>5, <1>6, <1>7
  <2>3. QED
    BY <2>1, <2>2 DEF Match
<1>8. CASE ~IsTF(f)
  <2>1. /\ ToSet(AudioList(f)) = {Owned(f, samples, data, <<>>), Owned(f, "Data.SamplingRate", data, units),
                                  Owned(f, "Data.Delay", data, <<>>)}
        /\ ToSet(AudioList(g)) = {Owned(g, samples, data, <<>>), Owned(g, "Data.SamplingRate", data, units),
                                  Owned(g, "Data.Delay", data, <<>>)}
    <3>1. SamplesName(f) = samples
      BY DEF samples
    <3>2. QED
      BY <1>2, <1>8, <3>1, AudioIs, Zenon DEF data, units
  <2>2. Alike(Owned(g, samples, data, <<>>), Owned(f, samples, data, <<>>))
        /\ Alike(Owned(g, "Data.Delay", data, <<>>), Owned(f, "Data.Delay", data, <<>>))
    BY <1>5, <1>6, <1>8
  <2>3. "Data.SamplingRate" \in DOMAIN w /\ w["Data.SamplingRate"] = {"Units"}
    BY <1>3, <1>5, <1>8
  <2>4. Alike(Owned(g, "Data.SamplingRate", data, units), Owned(f, "Data.SamplingRate", data, units))
    BY <1>4, <2>3, OwnedAgain
  <2>5. QED
    BY <2>1, <2>2, <2>4 DEF Match
<1>9. QED
  BY <1>7, <1>8

LEMMA DatasetsAgain ==
  ASSUME NEW f, NEW g, NEW version, NEW now, Reopening(g, f, version, now)
  PROVE  Match(ToSet(SavedDatasets(f)), ToSet(SavedDatasets(g)))
<1> DEFINE scales(h) == {ScaleOf(h, n) : n \in ToSet(SavedDimensions(h))}
           extras(h) == {Attached(v) : v \in ToSet(SavedVariables(h))}
           placed(h) == ToSet(PlacedList(h))
           room(h) == ToSet(RoomList(h))
           audio(h) == ToSet(AudioList(h))
<1>1. FileOK(f) /\ ExtrasFit(f) /\ FileOK(g) /\ ExtrasFit(g)
      /\ SameVariables(g.variables, SavedVariables(f))
  BY ExtrasFitAgain DEF Reopening, Valid
<1>2. ASSUME NEW h, FileOK(h), ExtrasFit(h)
      PROVE  ToSet(SavedDatasets(h)) = ((scales(h) \cup ((placed(h) \cup room(h)) \cup audio(h))) \cup extras(h))
  BY <1>2, SavedDatasetsFit, OwnedVariablesFit
<1>3. Match(scales(f), scales(g))
  <2>1. ToSet(SavedDimensions(g)) = ToSet(SavedDimensions(f))
    BY <1>1, SavedDimensionsAre, DimensionsAgain
  <2>2. \A n \in ToSet(SavedDimensions(f)) : Alike(ScaleOf(g, n), ScaleOf(f, n))
    BY ScaleAgain
  <2>3. QED
    BY <2>1, <2>2 DEF Match
<1>4. Match(extras(f), extras(g))
  <2>1. ToSet(SavedVariables(g)) = ToSet(g.variables)
    BY VariablesAgain
  <2>2. ASSUME NEW v \in ToSet(SavedVariables(f)), NEW r \in ToSet(g.variables), SameVariable(r, v)
        PROVE  Alike(Attached(r), Attached(v))
    <3>1. IsVariable(v) /\ SequenceOK(v.attrs)
      BY <1>1, SavedVariablesFit
    <3>2. IsVariable(r)
      BY <1>1 DEF FileOK, IsVariable
    <3>3. QED
      BY <2>2, <3>1, <3>2, ExtraAgain
  <2>3. /\ \A v \in ToSet(SavedVariables(f)) : \E r \in ToSet(g.variables) : Alike(Attached(r), Attached(v))
        /\ \A r \in ToSet(g.variables) : \E v \in ToSet(SavedVariables(f)) : Alike(Attached(r), Attached(v))
    BY <1>1, <2>2 DEF SameVariables
  <2>4. QED
    BY <2>1, <2>3 DEF Match
<1>5. Match(placed(f), placed(g)) /\ Match(room(f), room(g)) /\ Match(audio(f), audio(g))
  BY PlacedAgain, RoomAgain, AudioAgain
<1> HIDE DEF scales, extras, placed, room, audio
<1>6. Match((placed(f) \cup room(f)) \cup audio(f), (placed(g) \cup room(g)) \cup audio(g))
  BY <1>5, MatchJoined
<1> DEFINE named(h) == (placed(h) \cup room(h)) \cup audio(h)
<1>7. Match(scales(f) \cup named(f), scales(g) \cup named(g))
  BY <1>3, <1>6, MatchJoined
<1>8. ToSet(SavedDatasets(f)) = (scales(f) \cup named(f)) \cup extras(f)
      /\ ToSet(SavedDatasets(g)) = (scales(g) \cup named(g)) \cup extras(g)
  BY <1>1, <1>2
<1> HIDE DEF named
<1>9. Match((scales(f) \cup named(f)) \cup extras(f), (scales(g) \cup named(g)) \cup extras(g))
  BY <1>4, <1>7, MatchJoined
<1>10. QED
  BY <1>8, <1>9

\* The root attributes of the next Save, short of DateModified.
LEMMA RootAgain ==
  ASSUME NEW f, NEW g, NEW version, NEW now, now # <<>>, NEW later, Reopening(g, f, version, now)
  PROVE  {a \in ToSet(SavedRoot(g, version, later)) : a.name # "DateModified"}
           = {a \in ToSet(SavedRoot(f, version, now)) : a.name # "DateModified"}
<1> DEFINE created == IF f.created = <<>> THEN now ELSE f.created
           same == { Attribute("Conventions", <<"SOFA">>),
                     Attribute("Version", <<f.version>>),
                     Attribute("SOFAConventions", <<f.convention>>),
                     Attribute("SOFAConventionsVersion", <<f.conventionVersion>>),
                     Attribute("DataType", <<f.dataType>>),
                     Attribute("DateCreated", created),
                     Attribute("APIName", <<"go-sofa">>),
                     Attribute("APIVersion", <<version>>),
                     Attribute("RoomType", SavedRoomType(f)) }
           extra == ToSet(f.attributes) \cup ToSet(MissingGlobals(f))
           texts == ToSet(SavedTexts(f))
           history == ToSet(Optional("History", SavedHistory(f, version)))
           nc == {Attribute("_NCProperties", <<version>>)}
           others == texts \cup history \cup extra \cup nc
<1>1. FileOK(f) /\ ExtrasFit(f) /\ FileOK(g) /\ ExtrasFit(g) /\ Reread(g, f, version, now)
  BY ExtrasFitAgain DEF Reopening, Valid
<1>2. /\ SequenceOK(f.attributes) /\ AttributesFit(f.attributes, GlobalFields \cup NetCDF)
      /\ SequenceOK(g.attributes) /\ AttributesFit(g.attributes, GlobalFields \cup NetCDF)
  BY <1>1 DEF FileOK, ExtrasFit
<1>3. ToSet(FixedRoot(f, version, now)) = same \cup {Attribute("DateModified", now)}
  BY FixedRootIs
<1>4. ToSet(FixedRoot(g, version, later)) = same \cup {Attribute("DateModified", later)}
  <2>1. (IF g.created = <<>> THEN later ELSE g.created) = created
    BY <1>1 DEF Reread
  <2>2. SavedRoomType(g) = SavedRoomType(f)
    BY SameEmitterAndRoom
  <2>3. g.version = f.version /\ g.convention = f.convention
        /\ g.conventionVersion = f.conventionVersion /\ g.dataType = f.dataType
    BY <1>1 DEF Reread
  <2>4. ToSet(FixedRoot(g, version, later)) =
              { Attribute("Conventions", <<"SOFA">>),
                Attribute("Version", <<g.version>>),
                Attribute("SOFAConventions", <<g.convention>>),
                Attribute("SOFAConventionsVersion", <<g.conventionVersion>>),
                Attribute("DataType", <<g.dataType>>),
                Attribute("DateCreated", IF g.created = <<>> THEN later ELSE g.created),
                Attribute("DateModified", later),
                Attribute("APIName", <<"go-sofa">>),
                Attribute("APIVersion", <<version>>),
                Attribute("RoomType", SavedRoomType(g)) }
    BY FixedRootIs
  <2> HIDE DEF created
  <2>5. QED
    BY <2>1, <2>2, <2>3, <2>4
<1>5. SavedHistory(g, version) = SavedHistory(f, version) /\ ToSet(SavedTexts(g)) = texts
  <2>1. \A n \in TextNames : g.texts[n] = SavedText(f, n)
    BY <1>1 DEF Reread
  <2>2. \A n \in TextNames : SavedText(g, n) = SavedText(f, n)
    BY <2>1 DEF SavedText
  <2>3. \A h : ToSet(SavedTexts(h)) =
              {Attribute(n, SavedText(h, n)) :
                 n \in {m \in TextNames : m \in AlwaysWritten \/ SavedText(h, m) # <<>>}}
    BY SavedTextsAre DEF TextWritten
  <2>4. ToSet(SavedTexts(g)) = texts
    BY <2>2, <2>3
  <2>5. QED
    BY <1>1, <2>4 DEF Reread, SavedHistory
<1>6. ToSet(g.attributes) \cup ToSet(MissingGlobals(g)) = extra
  <2>1. ToSet(MissingGlobals(g)) = {}
    BY NothingMissing, EmptyList
  <2>2. QED
    BY <2>1 DEF Reopening
<1>7. ToSet(SavedRoot(f, version, now)) = ToSet(FixedRoot(f, version, now)) \cup others
  <2>1. ToSet(SavedRoot(f, version, now)) =
              ToSet(FixedRoot(f, version, now)) \cup texts \cup history
              \cup ToSet(f.attributes) \cup ToSet(MissingGlobals(f)) \cup nc
    BY <1>2, SavedRootFits
  <2> HIDE DEF texts, history, nc
  <2>2. QED
    BY <2>1
<1>8. ToSet(SavedRoot(g, version, later)) = ToSet(FixedRoot(g, version, later)) \cup others
  <2>1. ToSet(SavedRoot(g, version, later)) =
              ToSet(FixedRoot(g, version, later)) \cup ToSet(SavedTexts(g))
              \cup ToSet(Optional("History", SavedHistory(g, version)))
              \cup ToSet(g.attributes) \cup ToSet(MissingGlobals(g)) \cup nc
    BY <1>2, SavedRootFits
  <2>2. ToSet(SavedTexts(g)) = texts
        /\ ToSet(Optional("History", SavedHistory(g, version))) = history
    BY <1>5
  <2> HIDE DEF texts, history, nc, extra
  <2>3. QED
    BY <1>6, <2>1, <2>2
<1>9. Attribute("DateModified", now).name = "DateModified"
      /\ Attribute("DateModified", later).name = "DateModified"
  BY DEF Attribute
<1> HIDE DEF same, others
<1>10. QED
  BY <1>3, <1>4, <1>7, <1>8, <1>9

\* The file's content is what it was.
LEMMA ContentAgain ==
  ASSUME NEW f, NEW g, NEW version, NEW now, now # <<>>, NEW later, Reopening(g, f, version, now)
  PROVE  Content(SaveOf(g, version, later)) = Content(SaveOf(f, version, now))
<1>1. \A d : Content(d) = << {a \in ToSet(d.root) : a.name # "DateModified"},
                             {Stripped(v) : v \in ToSet(d.datasets)} >>
  BY DEF Content, Stripped
<1>2. /\ SaveOf(g, version, later).root = SavedRoot(g, version, later)
      /\ SaveOf(g, version, later).datasets = SavedDatasets(g)
      /\ SaveOf(f, version, now).root = SavedRoot(f, version, now)
      /\ SaveOf(f, version, now).datasets = SavedDatasets(f)
  BY SaveOfIs
<1>3. {Stripped(v) : v \in ToSet(SavedDatasets(f))} = {Stripped(v) : v \in ToSet(SavedDatasets(g))}
  BY DatasetsAgain, MatchStripped
<1>4. {a \in ToSet(SavedRoot(g, version, later)) : a.name # "DateModified"}
           = {a \in ToSet(SavedRoot(f, version, now)) : a.name # "DateModified"}
  BY RootAgain
<1>5. QED
  BY <1>1, <1>2, <1>3, <1>4

\* Whatever go-sofa wrote, it wrote of a valid File.
OwnWork ==
  Own => \E f, v, k : /\ FileOK(f) /\ Valid(f)
                      /\ disk = SaveOf(f, v, Time(k)) /\ Last(writers) = GoSofa(v)

LEMMA OwnWorkKept == OwnWork => ResaveIsFixedPoint
<1> SUFFICES ASSUME OwnWork, Own, ~TakenForField(disk)
             PROVE  LET f == OpenOf(disk)
                        again == SaveOf(f, Last(writers)[2][1], Time(0))
                    IN  Valid(f) /\ f.dropped = {} /\ Content(again) = Content(disk)
  BY DEF ResaveIsFixedPoint
<1>1. PICK f, v, k : /\ FileOK(f) /\ Valid(f)
                     /\ disk = SaveOf(f, v, Time(k)) /\ Last(writers) = GoSofa(v)
  BY DEF OwnWork
<1> DEFINE g == OpenOf(disk)
           now == Time(k)
           later == Time(0)
<1>2. Reopening(g, f, v, now)
  BY <1>1, SavedReopened
<1>3. now # <<>>
  BY DEF Time
<1>4. Last(writers)[2][1] = v
  BY <1>1 DEF GoSofa, Api
<1> HIDE DEF g, now, later
<1>5. Valid(g)
  BY <1>2, ValidAgain
<1>6. g.dropped = {}
  BY <1>2 DEF Reopening
<1>7. Content(SaveOf(g, v, later)) = Content(SaveOf(f, v, now))
  BY <1>2, <1>3, ContentAgain
<1>8. QED
  BY <1>1, <1>4, <1>5, <1>6, <1>7 DEF g, now, later

-----------------------------------------------------------------------------
(* The lines due in the History.                                           *)

\* One more element to choose from.
LEMMA ChosenAppended ==
  ASSUME NEW list, SequenceOK(list), NEW x, NEW places, places \subseteq DOMAIN list,
         NEW more, more \subseteq DOMAIN Append(list, x), more \ {Len(list) + 1} = places
  PROVE  Chosen(Append(list, x), more) =
           IF Len(list) + 1 \in more THEN Append(Chosen(list, places), x) ELSE Chosen(list, places)
<1> DEFINE n == Len(list)
           longer == Append(list, x)
<1>1. n \in Nat /\ DOMAIN list = 1..n
  BY ListIs
<1>2. Len(longer) = n + 1 /\ longer[n + 1] = x /\ \A i \in 1..n : longer[i] = list[i]
  BY <1>1 DEF SequenceOK
<1>3. PICK g : Choice(g, list, places, n) /\ Chosen(list, places) = g[n]
  BY <1>1, ChosenIs
<1>4. PICK h : Choice(h, longer, more, n + 1) /\ Chosen(longer, more) = h[n + 1]
  <2>1. Len(longer) \in Nat
    BY <1>1, <1>2
  <2> HIDE DEF longer
  <2>2. QED
    BY <1>2, <2>1, ChosenIs
<1> HIDE DEF longer, n
<1>5. /\ g[0] = <<>>
      /\ \A k \in 0..(n - 1) :
           g[k + 1] = IF k + 1 \in places THEN Append(g[k], list[k + 1]) ELSE g[k]
  BY <1>1, <1>3, ChoiceSteps
<1>6. /\ h[0] = <<>>
      /\ \A k \in 0..((n + 1) - 1) :
           h[k + 1] = IF k + 1 \in more THEN Append(h[k], longer[k + 1]) ELSE h[k]
  <2>1. n + 1 \in Nat
    BY <1>1
  <2>2. QED
    BY <1>4, <2>1, ChoiceSteps
<1> DEFINE S == {k \in Nat : k <= n => h[k] = g[k]}
<1>7. 0 \in S
  BY <1>5, <1>6
<1>8. ASSUME NEW k \in S PROVE k + 1 \in S
  <2>1. SUFFICES ASSUME k + 1 <= n PROVE h[k + 1] = g[k + 1]
    OBVIOUS
  <2>2. k \in 0..(n - 1) /\ k \in 0..((n + 1) - 1) /\ k + 1 \in 1..n /\ k + 1 # n + 1
    BY <1>1, <2>1
  <2>3. h[k] = g[k]
    BY <1>1, <2>1
  <2>4. k + 1 \in more <=> k + 1 \in places
    BY <2>2 DEF n
  <2>5. QED
    BY <1>2, <1>5, <1>6, <2>2, <2>3, <2>4
<1> HIDE DEF S
<1>9. S = Nat
  <2>1. S \in SUBSET Nat
    BY DEF S
  <2>2. QED
    BY <1>7, <1>8, <2>1, NatSetInduction
<1>10. h[n] = g[n]
  BY <1>1, <1>9 DEF S
<1>11. h[n + 1] = IF n + 1 \in more THEN Append(g[n], x) ELSE g[n]
  BY <1>1, <1>2, <1>6, <1>10
<1>12. QED
  BY <1>3, <1>4, <1>11 DEF n, longer

\* Due, in its parts.
Pairs(s) == [i \in DOMAIN s \ {Len(s)} |-> <<s[i], s[i + 1]>>]
Handover(h) == h[2][1] = <<"go-sofa">> /\ h[1][1] # <<>> /\ h[1] # h[2]
Handovers(s) == Chosen(Pairs(s), {i \in DOMAIN Pairs(s) : Handover(Pairs(s)[i])})
Line(h) == Resaved(h[2][2][1], h[1])

LEMMA DueIs ==
  ASSUME NEW s
  PROVE  Due(s) = [i \in DOMAIN Handovers(s) |-> Line(Handovers(s)[i])]
  BY DEF Due, Filtered, Pairs, Handover, Handovers, Line

LEMMA PairsAre ==
  ASSUME NEW s, SequenceOK(s)
  PROVE  /\ SequenceOK(Pairs(s)) /\ SequenceOK(Handovers(s))
         /\ Len(s) <= 1 => Pairs(s) = <<>>
         /\ Len(s) > 0 => Len(Pairs(s)) = Len(s) - 1
<1> DEFINE p == Pairs(s)
           n == Len(s)
<1>1. n \in Nat /\ DOMAIN s = 1..n
  BY ListIs
<1>2. DOMAIN p = 1..n \ {n} /\ p = [i \in 1..n \ {n} |-> p[i]]
  BY <1>1 DEF Pairs
<1> HIDE DEF p, n
<1>3. CASE n = 0
  <2>1. 1..n \ {n} = {} /\ 1..0 = {}
    BY <1>3
  <2>2. p = [i \in 1..0 |-> p[i]] /\ p = <<>>
    BY <1>2, <2>1
  <2>3. SequenceOK(p)
    BY <2>2, IsList
  <2>4. SequenceOK(Chosen(p, {i \in DOMAIN p : Handover(p[i])}))
    BY <2>3, Picked
  <2>5. QED
    BY <1>3, <2>2, <2>3, <2>4 DEF Handovers, p, n
<1>4. CASE n # 0
  <2>1. 1..n \ {n} = 1..(n - 1) /\ n - 1 \in Nat
    BY <1>1, <1>4
  <2>2. p = [i \in 1..(n - 1) |-> p[i]]
    BY <1>2, <2>1, Zenon
  <2>3. SequenceOK(p) /\ Len(p) = n - 1
    BY <2>1, <2>2, IsList
  <2>4. SequenceOK(Chosen(p, {i \in DOMAIN p : Handover(p[i])}))
    BY <2>3, Picked
  <2>5. n <= 1 => p = <<>>
    <3>1. SUFFICES ASSUME n <= 1 PROVE p = <<>>
      OBVIOUS
    <3>2. Len(p) = 0
      BY <1>1, <1>4, <2>3, <3>1
    <3>3. QED
      BY <2>3, <3>2 DEF SequenceOK
  <2>6. QED
    BY <2>3, <2>4, <2>5 DEF Handovers, p, n
<1>5. QED
  BY <1>3, <1>4

LEMMA DueFits ==
  ASSUME NEW s, SequenceOK(s)
  PROVE  SequenceOK(Due(s)) /\ (Len(s) <= 1 => Due(s) = <<>>)
<1> DEFINE h == Handovers(s)
           due == Due(s)
<1>1. due = [i \in DOMAIN h |-> Line(h[i])] /\ SequenceOK(h)
  BY DueIs, PairsAre
<1>2. Len(s) <= 1 => h = Chosen(<<>>, {})
  <2>1. SUFFICES ASSUME Len(s) <= 1 PROVE h = Chosen(<<>>, {})
    OBVIOUS
  <2>2. Pairs(s) = <<>>
    BY <2>1, PairsAre
  <2>3. {i \in DOMAIN Pairs(s) : Handover(Pairs(s)[i])} = {}
    BY <2>2
  <2>4. QED
    BY <2>2, <2>3 DEF Handovers
<1>3. Chosen(<<>>, {}) = <<>>
  <2>1. SequenceOK(Chosen(<<>>, {})) /\ ToSet(Chosen(<<>>, {})) = {}
    BY EmptyList, Picked
  <2>2. QED
    BY <2>1 DEF SequenceOK
<1> HIDE DEF h, due
<1>4. due = [i \in DOMAIN h |-> due[i]]
  BY <1>1
<1>5. SequenceOK(due) /\ DOMAIN due = DOMAIN h
  BY <1>1, <1>4, Mapped
<1>6. h = <<>> => due = <<>>
  BY <1>1
<1>7. QED
  BY <1>2, <1>3, <1>5, <1>6 DEF due

\* One more generation.
LEMMA PairsAppended ==
  ASSUME NEW s, SequenceOK(s), s # <<>>, NEW x
  PROVE  Pairs(Append(s, x)) = Append(Pairs(s), <<Last(s), x>>)
<1> DEFINE n == Len(s)
           t == Append(s, x)
           p == Pairs(s)
           q == Pairs(t)
           r == Append(p, <<Last(s), x>>)
<1>1. n \in Nat /\ DOMAIN s = 1..n /\ n # 0
  <2>1. n \in Nat /\ DOMAIN s = 1..n
    BY ListIs
  <2>2. n # 0
    BY DEF SequenceOK
  <2>3. QED
    BY <2>1, <2>2
<1>2. /\ Len(t) = n + 1 /\ t[n + 1] = x /\ \A i \in 1..n : t[i] = s[i]
      /\ DOMAIN t = 1..(n + 1)
  BY <1>1 DEF SequenceOK
<1>3. SequenceOK(p) /\ Len(p) = n - 1 /\ DOMAIN p = 1..(n - 1)
  <2>1. n > 0
    BY <1>1
  <2>2. SequenceOK(p) /\ Len(p) = n - 1
    BY <2>1, PairsAre
  <2>3. DOMAIN p = 1..Len(p)
    BY <2>2, ListIs
  <2>4. QED
    BY <2>2, <2>3
<1>4. \A i \in 1..(n - 1) : p[i] = <<s[i], s[i + 1]>>
  <2>1. ASSUME NEW i \in 1..(n - 1) PROVE i \in DOMAIN s \ {n}
    <3> HIDE DEF n
    <3>1. i \in 1..n /\ i # n
      BY <1>1
    <3>2. QED
      BY <1>1, <3>1
  <2>2. QED
    BY <2>1 DEF Pairs
<1>5. q = [i \in 1..n |-> <<t[i], t[i + 1]>>]
  <2>1. DOMAIN t \ {Len(t)} = 1..n
    BY <1>1, <1>2
  <2> HIDE DEF t, n
  <2>2. QED
    BY <2>1, Zenon DEF Pairs
<1>6. /\ DOMAIN r = 1..n /\ r[n] = <<Last(s), x>> /\ \A i \in 1..(n - 1) : r[i] = p[i]
      /\ r = [i \in 1..n |-> r[i]]
  <2> DEFINE y == <<Last(s), x>>
  <2> HIDE DEF y, p, n
  <2>1. SequenceOK(p) /\ Len(p) = n - 1 /\ (n - 1) + 1 = n
    BY <1>1, <1>3
  <2> DEFINE b == Append(p, y)
  <2>2. /\ DOMAIN b = 1..(Len(p) + 1) /\ b = [i \in 1..(Len(p) + 1) |-> b[i]]
        /\ b[Len(p) + 1] = y /\ \A i \in 1..Len(p) : b[i] = p[i]
    BY <2>1, AppendedIs
  <2> HIDE DEF b
  <2>3. /\ DOMAIN b = 1..n /\ b = [i \in 1..n |-> b[i]]
        /\ b[n] = y /\ \A i \in 1..(n - 1) : b[i] = p[i]
    BY <2>1, <2>2
  <2>4. QED
    BY <2>3 DEF b, y
<1> HIDE DEF r, q, t, p, n
<1>7. ASSUME NEW i \in 1..n PROVE <<t[i], t[i + 1]>> = r[i]
  <2>1. CASE i = n
    <3>1. Last(s) = s[n]
      BY DEF Last, n
    <3>2. QED
      BY <1>1, <1>2, <1>6, <2>1, <3>1
  <2>2. CASE i # n
    <3>1. i \in 1..(n - 1) /\ i + 1 \in 1..n
      BY <1>1, <2>2
    <3>2. QED
      BY <1>2, <1>4, <1>6, <3>1
  <2>3. QED
    BY <2>1, <2>2
<1>8. q = r
  BY <1>5, <1>6, <1>7
<1>9. QED
  BY <1>8 DEF q, r, t, p

LEMMA DueAppended ==
  ASSUME NEW s, SequenceOK(s), s # <<>>, NEW x
  PROVE  Due(Append(s, x)) =
           IF Handover(<<Last(s), x>>) THEN Append(Due(s), Line(<<Last(s), x>>)) ELSE Due(s)
<1> DEFINE t == Append(s, x)
           p == Pairs(s)
           y == <<Last(s), x>>
           places == {i \in DOMAIN p : Handover(p[i])}
           more == {i \in DOMAIN Append(p, y) : Handover(Append(p, y)[i])}
           h == Handovers(s)
<1>1. Pairs(t) = Append(p, y)
  BY PairsAppended
<1>2. SequenceOK(p) /\ SequenceOK(h)
  BY PairsAre
<1>3. h = Chosen(p, places) /\ Handovers(t) = Chosen(Append(p, y), more)
  BY <1>1 DEF Handovers
<1> HIDE DEF p, y, h, t
<1>4. /\ DOMAIN p = 1..Len(p) /\ Len(p) \in Nat
      /\ DOMAIN Append(p, y) = 1..(Len(p) + 1) /\ Append(p, y)[Len(p) + 1] = y
      /\ \A i \in 1..Len(p) : Append(p, y)[i] = p[i]
  <2>1. p \in Seq(ToSet(p))
    BY <1>2 DEF SequenceOK
  <2>2. QED
    BY <2>1
<1>5. /\ places \subseteq DOMAIN p /\ more \subseteq DOMAIN Append(p, y)
      /\ more \ {Len(p) + 1} = places /\ (Len(p) + 1 \in more <=> Handover(y))
  <2>1. \A i : i \in 1..(Len(p) + 1) /\ i # Len(p) + 1 <=> i \in 1..Len(p)
    BY <1>4
  <2>2. Len(p) + 1 \in 1..(Len(p) + 1)
    BY <1>4
  <2>3. QED
    BY <1>4, <2>1, <2>2
<1> HIDE DEF places, more
<1>6. Handovers(t) = IF Len(p) + 1 \in more THEN Append(h, y) ELSE h
  BY <1>2, <1>3, <1>5, ChosenAppended
<1>7. /\ Due(s) = [i \in DOMAIN h |-> Line(h[i])]
      /\ Due(t) = [i \in DOMAIN Handovers(t) |-> Line(Handovers(t)[i])]
  BY DueIs DEF h
<1>8. CASE ~Handover(y)
  <2>1. Handovers(t) = h
    BY <1>5, <1>6, <1>8
  <2>2. QED
    BY <1>7, <1>8, <2>1 DEF t, y
<1>9. CASE Handover(y)
  <2> DEFINE k == Append(h, y)
             n == Len(h)
             a == Due(s)
             b == Append(a, Line(y))
             c == Due(t)
  <2>1. Handovers(t) = k
    BY <1>5, <1>6, <1>9
  <2>2. h \in Seq(ToSet(h)) /\ n \in Nat /\ DOMAIN h = 1..n
    BY <1>2, ListIs DEF SequenceOK
  <2>3. DOMAIN k = 1..(n + 1) /\ k[n + 1] = y /\ \A i \in 1..n : k[i] = h[i]
    BY <2>2
  <2>4. a \in Seq(ToSet(a)) /\ Len(a) = n /\ \A i \in 1..n : a[i] = Line(h[i])
    <3>1. SequenceOK(a)
      BY DueFits
    <3>2. DOMAIN a = 1..n /\ \A i \in 1..n : a[i] = Line(h[i])
      BY <1>7, <2>2
    <3>3. Len(a) \in Nat /\ DOMAIN a = 1..Len(a)
      BY <3>1, ListIs
    <3> HIDE DEF a, n
    <3>4. Len(a) = n
      BY <2>2, <3>2, <3>3
    <3>5. QED
      BY <3>1, <3>2, <3>4 DEF SequenceOK
  <2>5. c = [i \in DOMAIN k |-> Line(k[i])]
    BY <1>7, <2>1
  <2> HIDE DEF k, n, a, c
  <2>6. /\ b = [i \in 1..(n + 1) |-> b[i]] /\ b[n + 1] = Line(y)
        /\ \A i \in 1..n : b[i] = a[i]
    <3>1. SequenceOK(a)
      BY DueFits DEF a
    <3>2. /\ b = [i \in 1..(Len(a) + 1) |-> b[i]] /\ b[Len(a) + 1] = Line(y)
          /\ \A i \in 1..Len(a) : b[i] = a[i]
      BY <3>1, AppendedIs
    <3>3. QED
      BY <2>4, <3>2
  <2> HIDE DEF b
  <2>7. ASSUME NEW i \in 1..(n + 1) PROVE Line(k[i]) = b[i]
    <3>1. i \in 1..n \/ i = n + 1
      BY <2>2
    <3>2. QED
      BY <2>3, <2>4, <2>6, <3>1
  <2>8. c = b
    BY <2>3, <2>5, <2>6, <2>7
  <2>9. QED
    BY <1>9, <2>8 DEF a, b, c, t, y
<1>10. QED
  BY <1>8, <1>9

LEMMA JoinedAppended ==
  ASSUME NEW a, NEW b, SequenceOK(a), SequenceOK(b), NEW x
  PROVE  a \o Append(b, x) = Append(a \o b, x)
<1> DEFINE S == ToSet(a) \cup ToSet(b) \cup {x}
<1>1. a \in Seq(S) /\ b \in Seq(S) /\ x \in S
  <2>1. a \in Seq(ToSet(a)) /\ b \in Seq(ToSet(b))
    BY DEF SequenceOK
  <2>2. ToSet(a) \subseteq S /\ ToSet(b) \subseteq S
    OBVIOUS
  <2>3. QED
    BY <2>1, <2>2, SeqMonotonic
<1> HIDE DEF S
<1>2. QED
  BY <1>1

-----------------------------------------------------------------------------
(* The edits leave a File.                                                 *)

FileFields ==
  {"convention", "conventionVersion", "version", "dataType", "M", "R", "E", "view",
   "up", "emitters", "emitterType", "roomType", "roomVolume", "texts", "api",
   "history", "created", "attributes", "variables", "variableAttributes", "dropped"}

\* An edit that leaves the lists alone.
LEMMA FieldsEdited ==
  ASSUME NEW f, FileOK(f), NEW g, DOMAIN g = DOMAIN f,
         g.dataType \in Types, {g.M, g.R, g.E} \subseteq Nat,
         g.texts = f.texts, g.history = f.history, g.attributes = f.attributes, g.variables = f.variables,
         g.variableAttributes = f.variableAttributes, g.dropped = f.dropped
  PROVE  FileOK(g)
  BY DEF FileOK

LEMMA ConventionEdited ==
  ASSUME NEW f, FileOK(f), NEW c \in {"SingleRoomSRIR", "FreeFieldDirectivityTF", "FreeFieldHRTF"},
         NEW g, g = [f EXCEPT !.convention = c, !.dataType = RulesFor(c).dataType]
  PROVE  FileOK(g) /\ g.history = f.history /\ g.api = f.api
<1> DEFINE t == RulesFor(c).dataType
<1>1. t \in Types
  <2>1. CASE c = "SingleRoomSRIR"
    BY <2>1 DEF RulesFor, NoRules, SimpleFreeField, Types
  <2>2. CASE c = "FreeFieldDirectivityTF"
    BY <2>2 DEF RulesFor, NoRules, SimpleFreeField, Types
  <2>3. CASE c = "FreeFieldHRTF"
    BY <2>3 DEF RulesFor, NoRules, SimpleFreeField, Types
  <2>4. QED
    BY <2>1, <2>2, <2>3
<1>2. g = [f EXCEPT !.convention = c, !.dataType = t]
  OBVIOUS
<1> HIDE DEF t
<1>3. DOMAIN f = FileFields /\ {f.M, f.R, f.E} \subseteq Nat
  BY DEF FileOK, FileFields
<1>4. /\ DOMAIN g = DOMAIN f /\ g.dataType = t /\ g.M = f.M /\ g.R = f.R /\ g.E = f.E
      /\ g.texts = f.texts /\ g.history = f.history /\ g.api = f.api /\ g.attributes = f.attributes
      /\ g.variables = f.variables /\ g.variableAttributes = f.variableAttributes
      /\ g.dropped = f.dropped
  BY <1>2, <1>3 DEF FileFields
<1>5. QED
  BY <1>1, <1>3, <1>4, FieldsEdited

LEMMA RoomEdited ==
  ASSUME NEW f, FileOK(f), NEW g, NEW v,
         g = [f EXCEPT !.roomVolume = v] \/ g = [f EXCEPT !.roomType = v]
  PROVE  FileOK(g) /\ g.history = f.history /\ g.api = f.api
<1>1. DOMAIN f = FileFields /\ {f.M, f.R, f.E} \subseteq Nat /\ f.dataType \in Types
  BY DEF FileOK, FileFields
<1>2. /\ DOMAIN g = DOMAIN f /\ g.dataType = f.dataType /\ g.M = f.M /\ g.R = f.R /\ g.E = f.E
      /\ g.texts = f.texts /\ g.history = f.history /\ g.api = f.api /\ g.attributes = f.attributes
      /\ g.variables = f.variables /\ g.variableAttributes = f.variableAttributes
      /\ g.dropped = f.dropped
  BY <1>1 DEF FileFields
<1>3. QED
  BY <1>1, <1>2, FieldsEdited

LEMMA Resized ==
  ASSUME NEW f, FileOK(f), NEW m \in Nat, NEW g, g = [f EXCEPT !.M = m]
  PROVE  FileOK(g) /\ g.history = f.history /\ g.api = f.api
<1>1. DOMAIN f = FileFields /\ {f.M, f.R, f.E} \subseteq Nat /\ f.dataType \in Types
  BY DEF FileOK, FileFields
<1>2. /\ DOMAIN g = DOMAIN f /\ g.dataType = f.dataType /\ g.M = m /\ g.R = f.R /\ g.E = f.E
      /\ g.texts = f.texts /\ g.history = f.history /\ g.api = f.api /\ g.attributes = f.attributes
      /\ g.variables = f.variables /\ g.variableAttributes = f.variableAttributes
      /\ g.dropped = f.dropped
  BY <1>1 DEF FileFields
<1>3. QED
  BY <1>1, <1>2, FieldsEdited

LEMMA EmittersEdited ==
  ASSUME NEW f, FileOK(f), NEW g,
         \E some, type : g = [f EXCEPT !.emitters = some, !.emitterType = type]
  PROVE  FileOK(g) /\ g.history = f.history /\ g.api = f.api
<1>0. PICK some, type : g = [f EXCEPT !.emitters = some, !.emitterType = type]
  OBVIOUS
<1>1. DOMAIN f = FileFields /\ {f.M, f.R, f.E} \subseteq Nat /\ f.dataType \in Types
  BY DEF FileOK, FileFields
<1>2. /\ DOMAIN g = DOMAIN f /\ g.dataType = f.dataType /\ g.M = f.M /\ g.R = f.R /\ g.E = f.E
      /\ g.texts = f.texts /\ g.history = f.history /\ g.api = f.api /\ g.attributes = f.attributes
      /\ g.variables = f.variables /\ g.variableAttributes = f.variableAttributes
      /\ g.dropped = f.dropped
  BY <1>0, <1>1 DEF FileFields
<1>3. QED
  BY <1>1, <1>2, FieldsEdited

\* A list without its i-th element.
LEMMA Removed ==
  ASSUME NEW list, SequenceOK(list), NEW k \in DOMAIN list
  PROVE  SequenceOK(RemoveAt(list, k)) /\ ToSet(RemoveAt(list, k)) \subseteq ToSet(list)
<1> DEFINE n == Len(list)
           S == ToSet(list)
           a == SubSeq(list, 1, k - 1)
           b == SubSeq(list, k + 1, n)
<1>1. n \in Nat /\ DOMAIN list = 1..n /\ list \in Seq(S) /\ k \in 1..n
  BY ListIs DEF SequenceOK
<1>2. a \in Seq(S) /\ b \in Seq(S)
  <2> HIDE DEF S, n
  <2>1. QED
    BY <1>1
<1>3. a \o b \in Seq(S)
  <2> HIDE DEF a, b, S
  <2>1. QED
    BY <1>2
<1>4. RemoveAt(list, k) = a \o b
  BY DEF RemoveAt
<1> DEFINE r == RemoveAt(list, k)
<1> HIDE DEF r, S
<1>5. r \in Seq(S)
  BY <1>3, <1>4 DEF r
<1>6. ToSet(r) \subseteq S
  BY <1>5 DEF ToSet
<1>7. r = [i \in 1..Len(r) |-> r[i]] /\ Len(r) \in Nat
  BY <1>5
<1>8. QED
  BY <1>6, <1>7, IsList DEF r, S

LEMMA VariableRemoved ==
  ASSUME NEW f, FileOK(f), NEW i \in DOMAIN f.variables, NEW g,
         g = [f EXCEPT !.variables = RemoveAt(@, i)]
  PROVE  FileOK(g) /\ g.history = f.history /\ g.api = f.api
<1> DEFINE l == RemoveAt(f.variables, i)
<1>1. SequenceOK(l) /\ ToSet(l) \subseteq ToSet(f.variables)
  BY Removed DEF FileOK
<1>2. g = [f EXCEPT !.variables = l]
  OBVIOUS
<1> HIDE DEF l
<1>3. DOMAIN f = FileFields
  BY DEF FileOK, FileFields
<1>4. /\ DOMAIN g = DOMAIN f /\ g.dataType = f.dataType /\ g.M = f.M /\ g.R = f.R /\ g.E = f.E
      /\ g.texts = f.texts /\ g.history = f.history /\ g.api = f.api /\ g.attributes = f.attributes
      /\ g.variables = l /\ g.variableAttributes = f.variableAttributes /\ g.dropped = f.dropped
  BY <1>2, <1>3 DEF FileFields
<1>5. QED
  BY <1>1, <1>4 DEF FileOK

LEMMA AttributeAdded ==
  ASSUME NEW f, FileOK(f), NEW a, NEW g, g = [f EXCEPT !.attributes = Append(@, a)]
  PROVE  FileOK(g) /\ g.history = f.history /\ g.api = f.api
<1> DEFINE l == Append(f.attributes, a)
<1>1. SequenceOK(l)
  BY Appended DEF FileOK
<1>2. g = [f EXCEPT !.attributes = l]
  OBVIOUS
<1> HIDE DEF l
<1>3. DOMAIN f = FileFields
  BY DEF FileOK, FileFields
<1>4. /\ DOMAIN g = DOMAIN f /\ g.dataType = f.dataType /\ g.M = f.M /\ g.R = f.R /\ g.E = f.E
      /\ g.texts = f.texts /\ g.history = f.history /\ g.api = f.api /\ g.attributes = l
      /\ g.variables = f.variables /\ g.variableAttributes = f.variableAttributes
      /\ g.dropped = f.dropped
  BY <1>2, <1>3 DEF FileFields
<1>5. QED
  BY <1>1, <1>4 DEF FileOK

LEMMA VariableAdded ==
  ASSUME NEW f, FileOK(f), NEW v,
         v = Variable(v.name, v.dims, v.shape, v.form, v.data, v.attrs), VariableOK(v),
         v.form \in {"numeric", "chars"},
         NEW g, g = [f EXCEPT !.variables = Append(@, v)]
  PROVE  FileOK(g) /\ g.history = f.history /\ g.api = f.api
<1> DEFINE l == Append(f.variables, v)
<1>1. SequenceOK(l) /\ ToSet(l) = ToSet(f.variables) \cup {v}
  BY Appended DEF FileOK
<1>2. g = [f EXCEPT !.variables = l]
  OBVIOUS
<1> HIDE DEF l
<1>3. DOMAIN f = FileFields
  BY DEF FileOK, FileFields
<1>4. /\ DOMAIN g = DOMAIN f /\ g.dataType = f.dataType /\ g.M = f.M /\ g.R = f.R /\ g.E = f.E
      /\ g.texts = f.texts /\ g.history = f.history /\ g.api = f.api /\ g.attributes = f.attributes
      /\ g.variables = l /\ g.variableAttributes = f.variableAttributes /\ g.dropped = f.dropped
  BY <1>2, <1>3 DEF FileFields
<1>5. ASSUME NEW w \in ToSet(g.variables)
      PROVE  /\ w = Variable(w.name, w.dims, w.shape, w.form, w.data, w.attrs)
             /\ VariableOK(w) /\ w.form \in {"numeric", "chars"}
  <2>1. w \in ToSet(f.variables) \/ w = v
    BY <1>1, <1>4
  <2>2. QED
    BY <2>1 DEF FileOK
<1>6. QED
  BY <1>1, <1>4, <1>5 DEF FileOK

WithAttribute(f, of, a) ==
  [f EXCEPT !.variableAttributes =
     [name \in DOMAIN @ \cup {of} |-> IF name = of THEN Append(Given(f, of), a) ELSE @[name]]]

LEMMA VariableAttributeAdded ==
  ASSUME NEW f, FileOK(f), NEW g, \E of, a : g = WithAttribute(f, of, a)
  PROVE  FileOK(g) /\ g.history = f.history /\ g.api = f.api
<1>0. PICK of, a : g = WithAttribute(f, of, a)
  OBVIOUS
<1> DEFINE more == Append(Given(f, of), a)
           old == f.variableAttributes
           new == [name \in DOMAIN old \cup {of} |-> IF name = of THEN more ELSE old[name]]
<1>1. SequenceOK(more) /\ more # <<>>
  <2>1. SequenceOK(Given(f, of))
    BY EmptyList DEF FileOK, Given
  <2> DEFINE given == Given(f, of)
  <2> HIDE DEF given
  <2>2. SequenceOK(Append(given, a)) /\ Len(Append(given, a)) = Len(given) + 1 /\ Len(given) \in Nat
    BY <2>1, Appended, AppendedIs DEF given
  <2> DEFINE longer == Append(given, a)
  <2> HIDE DEF longer
  <2>3. Len(longer) # 0
    BY <2>2 DEF longer
  <2>4. longer # <<>>
    BY <2>3, EmptyList
  <2>5. QED
    BY <2>2, <2>4 DEF longer, given
<1>2. g = [f EXCEPT !.variableAttributes = new]
  BY <1>0, Zenon DEF WithAttribute
<1>3. DOMAIN f = FileFields
  BY DEF FileOK, FileFields
<1> HIDE DEF more
<1>4. \A name \in DOMAIN new : SequenceOK(new[name]) /\ new[name] # <<>>
  BY <1>1 DEF FileOK
<1> HIDE DEF new
<1>5. /\ DOMAIN g = DOMAIN f /\ g.dataType = f.dataType /\ g.M = f.M /\ g.R = f.R /\ g.E = f.E
      /\ g.texts = f.texts /\ g.history = f.history /\ g.api = f.api /\ g.attributes = f.attributes
      /\ g.variables = f.variables /\ g.variableAttributes = new /\ g.dropped = f.dropped
  BY <1>2, <1>3 DEF FileFields
<1>6. QED
  BY <1>4, <1>5 DEF FileOK

-----------------------------------------------------------------------------
(* Another program's save leaves a file.                                   *)

SameButApi(e, d) ==
  /\ e.datasets = d.datasets
  /\ Names(e.root) \subseteq Names(d.root) \cup {"APIName", "APIVersion"}
  /\ \A n : n \notin {"APIName", "APIVersion"} => ValueOf(e.root, n) = ValueOf(d.root, n)

LEMMA OtherSaved ==
  ASSUME NEW d, DiskOK(d), NEW program, NEW e,
         e = [d EXCEPT !.root =
                Filtered(@, LAMBDA a : a.name \notin {"APIName", "APIVersion"})
                  \o << Attribute("APIName", <<program>>), Attribute("APIVersion", <<"1">>) >>]
  PROVE  /\ DiskOK(e)
         /\ ValueOf(e.root, "APIName") = <<program>> /\ ValueOf(e.root, "APIVersion") = <<"1">>
         /\ ValueOf(e.root, "History") = ValueOf(d.root, "History")
         /\ SameButApi(e, d)
<1> DEFINE l == d.root
           places == {i \in DOMAIN l : l[i].name \notin {"APIName", "APIVersion"}}
           kept == Chosen(l, places)
           one == Attribute("APIName", <<program>>)
           two == Attribute("APIVersion", <<"1">>)
           api == <<one, two>>
           r == kept \o api
<1>1. e = [d EXCEPT !.root = r]
  BY DEF Filtered
<1>2. SequenceOK(l) /\ Distinct(l) /\ DOMAIN d = {"root", "datasets"}
  BY DEF DiskOK
<1>3. e.root = r /\ e.datasets = d.datasets /\ DOMAIN e = {"root", "datasets"}
  <2> HIDE DEF r
  <2>1. QED
    BY <1>1, <1>2
<1>4. /\ SequenceOK(kept) /\ ToSet(kept) = {l[p] : p \in places} /\ Distinct(kept)
  <2> HIDE DEF l
  <2>1. QED
    BY <1>2, Picked
<1>5. /\ one.name = "APIName" /\ one.value = <<program>>
      /\ two.name = "APIVersion" /\ two.value = <<"1">>
  BY DEF Attribute
<1> HIDE DEF one, two
<1>6. /\ SequenceOK(api) /\ ToSet(api) = {one, two}
      /\ Names(api) = {"APIName", "APIVersion"} /\ Distinct(api)
  BY <1>5, TwoOf
<1> HIDE DEF api, kept, l
<1>7. \A a : a \in ToSet(kept) <=> a \in ToSet(l) /\ a.name \notin {"APIName", "APIVersion"}
  BY <1>4 DEF ToSet
<1>8. Names(kept) \cap Names(api) = {}
  BY <1>6, <1>7, NamesAre
<1>9. SequenceOK(r) /\ Distinct(r) /\ ToSet(r) = ToSet(kept) \cup {one, two}
  BY <1>4, <1>6, <1>8, Joined, DistinctJoined
<1> HIDE DEF r
<1>10. ValueOf(r, "APIName") = <<program>> /\ ValueOf(r, "APIVersion") = <<"1">>
  <2>1. one \in ToSet(r) /\ two \in ToSet(r)
    BY <1>9
  <2>2. ValueOf(r, one.name) = one.value /\ ValueOf(r, two.name) = two.value
    BY <1>9, <2>1, ValueIn
  <2>3. QED
    BY <1>5, <2>2
<1>11. ASSUME NEW name, name \notin {"APIName", "APIVersion"}
       PROVE  ValueOf(r, name) = ValueOf(l, name)
  <2>1. CASE name \in Names(l)
    <3>1. PICK a \in ToSet(l) : a.name = name
      BY <2>1, NamesAre
    <3>2. a \in ToSet(r)
      BY <1>7, <1>9, <1>11, <3>1
    <3>3. ValueOf(r, a.name) = a.value /\ ValueOf(l, a.name) = a.value
      BY <1>2, <1>9, <3>2, ValueIn DEF l
    <3>4. QED
      BY <3>1, <3>3
  <2>2. CASE name \notin Names(l)
    <3>1. name \notin Names(r)
      <4>1. SUFFICES ASSUME name \in Names(r) PROVE FALSE
        OBVIOUS
      <4>2. PICK a \in ToSet(r) : a.name = name
        BY <4>1, NamesAre
      <4>3. a \in ToSet(kept)
        BY <1>5, <1>9, <1>11, <4>2
      <4>4. a \in ToSet(l)
        BY <1>7, <4>3
      <4>5. QED
        BY <2>2, <4>2, <4>4, NamesAre
    <3>2. QED
      BY <2>2, <3>1, NoValue
  <2>3. QED
    BY <2>1, <2>2
<1>12. ValueOf(e.root, "History") = ValueOf(l, "History")
       /\ ValueOf(e.root, "DataType") = ValueOf(l, "DataType")
  BY <1>3, <1>11
<1>13. /\ \A n : HasDataset(e, n) <=> HasDataset(d, n)
       /\ \A n : DatasetOf(e, n) = DatasetOf(d, n)
  BY <1>3 DEF HasDataset, DatasetOf
<1>14. DiskOK(e)
  <2>1. SequenceOK(e.root) /\ Distinct(e.root)
    BY <1>3, <1>9
  <2>2. ValueOf(e.root, "DataType")[1] \in Types /\ SequenceOK(ValueOf(e.root, "History"))
    BY <1>12 DEF DiskOK, l
  <2>3. QED
    BY <1>3, <1>13, <2>1, <2>2 DEF DiskOK
<1>15. Names(r) \subseteq Names(l) \cup {"APIName", "APIVersion"}
  BY <1>5, <1>7, <1>9, NamesAre
<1>16. SameButApi(e, d)
  BY <1>3, <1>11, <1>15 DEF l, SameButApi
<1>17. QED
  BY <1>3, <1>10, <1>12, <1>14, <1>16 DEF l

-----------------------------------------------------------------------------
(* The inductive invariant.                                                *)

LEMMA WrittenOnceIs == WrittenOnce <=> (Own => Once(disk))
  BY DEF WrittenOnce, Once

LEMMA LastIs ==
  ASSUME NEW s, SequenceOK(s), NEW x
  PROVE  /\ Last(Append(s, x)) = x /\ Len(Append(s, x)) = Len(s) + 1 /\ Append(s, x) # <<>>
         /\ SequenceOK(Append(s, x))
<1> DEFINE b == Append(s, x)
           n == Len(s)
<1>1. n \in Nat /\ Len(b) = n + 1 /\ b[n + 1] = x /\ SequenceOK(b)
  BY Appended, AppendedIs
<1> HIDE DEF b, n
<1>2. Last(b) = x
  BY <1>1 DEF Last
<1>3. b # <<>>
  <2>1. Len(b) # 0
    BY <1>1
  <2>2. QED
    BY <2>1, EmptyList
<1>4. QED
  BY <1>1, <1>2, <1>3 DEF b, n

LEMMA SingleIs ==
  ASSUME NEW x
  PROVE  /\ SequenceOK(<<x>>) /\ Last(<<x>>) = x /\ Len(<<x>>) = 1 /\ <<x>> # <<>>
         /\ Due(<<x>>) = <<>>
<1>1. <<x>> = Append(<<>>, x)
  OBVIOUS
<1>2. SequenceOK(<<>>) /\ Len(<<>>) = 0
  BY EmptyList
<1>3. SequenceOK(<<x>>) /\ Last(<<x>>) = x /\ Len(<<x>>) = 1 /\ <<x>> # <<>>
  BY <1>1, <1>2, LastIs
<1>4. SequenceOK(<<x>>) /\ Len(<<x>>) <= 1
  BY <1>3
<1>5. Due(<<x>>) = <<>>
  BY <1>4, DueFits
<1>6. QED
  BY <1>3, <1>5

LEMMA NothingDue == Due(<<>>) = <<>>
<1>1. SequenceOK(<<>>) /\ Len(<<>>) <= 1
  BY EmptyList
<1>2. QED
  BY <1>1, DueFits

LEMMA NothingAdded ==
  ASSUME NEW s, SequenceOK(s)
  PROVE  s \o <<>> = s
  BY DEF SequenceOK

LEMMA PairOf ==
  ASSUME NEW x, NEW y
  PROVE  SequenceOK(<<x, y>>)
<1> DEFINE s == <<x, y>>
<1>1. s = [i \in 1..2 |-> s[i]]
  OBVIOUS
<1> HIDE DEF s
<1>2. SequenceOK(s)
  BY <1>1, IsList
<1>3. QED
  BY <1>2 DEF s

LEMMA InitInv == Init => Inv
<1> SUFFICES ASSUME Init PROVE Inv
  OBVIOUS
<1>1. MaxEdits \in Nat /\ MaxWriters \in Nat
  BY LifeBounded
<1>2. edits \in 0..MaxEdits
  BY <1>1 DEF Init
<1>3. CASE /\ disk \in OtherFiles
           /\ file = None
           /\ writers = << Api(ValueOf(disk.root, "APIName"), ValueOf(disk.root, "APIVersion")) >>
           /\ source = <<>>
           /\ before = ValueOf(disk.root, "History")
  <2> DEFINE api == Api(ValueOf(disk.root, "APIName"), ValueOf(disk.root, "APIVersion"))
  <2>1. DiskOK(disk) /\ ValueOf(disk.root, "APIName") # <<"go-sofa">>
    BY <1>3, OtherFilesGiven
  <2>2. writers = <<api>> /\ api[1] # <<"go-sofa">>
    BY <1>3, <2>1 DEF Api
  <2> HIDE DEF api
  <2>3. SequenceOK(writers) /\ Last(writers) = api /\ Len(writers) = 1 /\ writers # <<>>
    BY <2>2, SingleIs
  <2>4. SequenceOK(source) /\ Len(source) = 0
    BY <1>3, EmptyList
  <2>5. SequenceOK(before)
    BY <1>3, <2>1 DEF DiskOK
  <2>6. Followed
    BY <1>1, <1>3, <2>3, <2>4, <2>5 DEF Followed, api
  <2>7. WrittenOnce
    BY <2>2, <2>3 DEF WrittenOnce, Own
  <2>8. HistoryNamesEveryApi
    <3>1. Due(writers) = <<>>
      BY <2>2, SingleIs
    <3>2. before \o <<>> = before
      BY <2>5, NothingAdded
    <3>3. QED
      BY <1>3, <3>1, <3>2 DEF HistoryNamesEveryApi
  <2>9. QED
    BY <1>2, <1>3, <2>1, <2>6, <2>7, <2>8 DEF Inv
<1>4. CASE /\ file \in NewFiles
           /\ disk = None
           /\ writers = <<>>
           /\ source = (IF file.api[1] = <<>> THEN <<>> ELSE <<file.api>>)
           /\ before = file.history
  <2>1. FileOK(file)
    BY <1>4, NewFilesGiven
  <2>2. SequenceOK(writers) /\ Len(writers) = 0
    BY <1>4, EmptyList
  <2>3. /\ SequenceOK(source) /\ Len(source) <= 1
        /\ IF source = <<>> THEN file.api[1] = <<>> ELSE file.api = Last(source)
    <3>1. CASE file.api[1] = <<>>
      BY <1>4, <3>1, EmptyList
    <3>2. CASE file.api[1] # <<>>
      <4>1. source = <<file.api>>
        BY <1>4, <3>2
      <4>2. QED
        BY <4>1, SingleIs
    <3>3. QED
      BY <3>1, <3>2
  <2>4. SequenceOK(before) /\ file.history = before \o Due(source)
    <3>1. SequenceOK(before)
      BY <1>4, <2>1 DEF FileOK
    <3>2. Due(source) = <<>>
      BY <2>3, DueFits
    <3>3. before \o <<>> = before
      BY <3>1, NothingAdded
    <3>4. QED
      BY <1>4, <3>1, <3>2, <3>3
  <2>5. Followed
    <3>1. Len(writers) <= MaxWriters + 1
      BY <1>1, <2>2
    <3>2. QED
      BY <1>4, <2>2, <2>3, <2>4, <3>1, Zenon DEF Followed
  <2>6. WrittenOnce /\ HistoryNamesEveryApi
    BY <1>4 DEF WrittenOnce, HistoryNamesEveryApi, Own
  <2>7. QED
    BY <1>2, <1>4, <2>1, <2>5, <2>6 DEF Inv
<1>5. QED
  BY <1>3, <1>4 DEF Init

LEMMA OpenStep ==
  ASSUME Inv, Open
  PROVE  Inv'
<1>1. /\ disk # None /\ file' = OpenOf(disk) /\ source' = writers
      /\ disk' = disk /\ edits' = edits /\ writers' = writers /\ before' = before
  BY DEF Open
<1>2. /\ DiskOK(disk) /\ Followed /\ edits \in 0..MaxEdits /\ WrittenOnce /\ HistoryNamesEveryApi
  BY <1>1 DEF Inv
<1>3. FileOK(OpenOf(disk))
  BY <1>2, OpenedOK
<1>4. OpenedAs(OpenOf(disk), disk)
  BY OpenOfAs
<1>5. file'.history = ValueOf(disk.root, "History")
      /\ file'.api = Api(ValueOf(disk.root, "APIName"), ValueOf(disk.root, "APIVersion"))
  BY <1>1, <1>4 DEF OpenedAs
<1>6. Followed'
  <2>1. Len(writers) \in Nat
    BY <1>2, ListIs DEF Followed
  <2>2. ValueOf(disk.root, "History") = before \o Due(writers)
    BY <1>1, <1>2 DEF HistoryNamesEveryApi
  <2>3. QED
    BY <1>1, <1>2, <1>5, <2>1, <2>2 DEF Followed
<1>7. WrittenOnce' /\ HistoryNamesEveryApi'
  BY <1>1, <1>2 DEF WrittenOnce, HistoryNamesEveryApi, Own
<1>8. QED
  BY <1>1, <1>2, <1>3, <1>6, <1>7 DEF Inv

\* The line resaveHistory adds is the one due.
LEMMA LineAdded ==
  ASSUME NEW f, NEW version, NEW s, SequenceOK(s), NEW b, SequenceOK(b), f.history = b \o Due(s),
         IF s = <<>> THEN f.api[1] = <<>> ELSE f.api = Last(s)
  PROVE  SavedHistory(f, version) = b \o Due(Append(s, GoSofa(version)))
<1> DEFINE x == GoSofa(version)
<1>1. CASE s = <<>>
  <2>1. SavedHistory(f, version) = b \o Due(s)
    BY <1>1 DEF SavedHistory
  <2>2. Append(s, x) = <<x>>
    <3> HIDE DEF x
    <3>1. QED
      BY <1>1
  <2>3. Due(s) = <<>> /\ Due(Append(s, x)) = <<>>
    BY <1>1, <2>2, SingleIs, NothingDue
  <2>4. QED
    BY <2>1, <2>3
<1>2. CASE s # <<>>
  <2> DEFINE y == <<Last(s), x>>
  <2>1. Due(Append(s, x)) = IF Handover(y) THEN Append(Due(s), Line(y)) ELSE Due(s)
    BY <1>2, DueAppended
  <2>2. y[1] = f.api /\ y[2] = x
    BY <1>2
  <2>3. x[1] = <<"go-sofa">> /\ x[2] = <<version>> /\ x[2][1] = version
    BY DEF GoSofa, Api
  <2> HIDE DEF y
  <2>4. Handover(y) <=> f.api[1] # <<>> /\ f.api # x
    BY <2>2, <2>3 DEF Handover
  <2>5. Line(y) = Resaved(version, f.api)
    BY <2>2, <2>3, Zenon DEF Line
  <2>6. SequenceOK(Due(s))
    BY DueFits
  <2>7. CASE Handover(y)
    <3>1. SavedHistory(f, version) = Append(f.history, Resaved(version, f.api))
      BY <2>4, <2>7 DEF SavedHistory
    <3>2. b \o Append(Due(s), Line(y)) = Append(b \o Due(s), Line(y))
      BY <2>6, JoinedAppended
    <3>3. QED
      BY <2>1, <2>5, <2>7, <3>1, <3>2
  <2>8. CASE ~Handover(y)
    <3>1. SavedHistory(f, version) = f.history
      BY <2>4, <2>8 DEF SavedHistory
    <3>2. QED
      BY <2>1, <2>8, <3>1
  <2>9. QED
    BY <2>7, <2>8
<1>3. QED
  BY <1>1, <1>2

LEMMA SaveStep ==
  ASSUME Inv, NEW version \in Versions, Save(version)
  PROVE  Inv'
<1> DEFINE now == Time(Len(writers) + 1)
           d == SaveOf(file, version, now)
<1>1. /\ file # None /\ Valid(file) /\ Len(writers) < MaxWriters
      /\ disk' = d /\ writers' = Append(source, GoSofa(version))
      /\ file' = file /\ edits' = edits /\ source' = source /\ before' = before
  BY DEF Save
<1>2. FileOK(file) /\ ExtrasFit(file) /\ Followed /\ edits \in 0..MaxEdits
  BY <1>1 DEF Inv, Valid
<1> HIDE DEF now
<1>3. DiskOK(d) /\ Once(d)
  BY <1>2, SavedOK, SavedOnce
<1>4. ReadBack(d.root, file, version, now)
  <2>1. SequenceOK(file.attributes) /\ AttributesFit(file.attributes, GlobalFields \cup NetCDF)
    BY <1>2 DEF FileOK, ExtrasFit
  <2>2. ReadBack(SavedRoot(file, version, now), file, version, now)
    BY <2>1, SavedValues
  <2>3. d.root = SavedRoot(file, version, now)
    BY SaveOfIs
  <2>4. QED
    BY <2>2, <2>3
<1>5. /\ ValueOf(d.root, "History") = SavedHistory(file, version)
      /\ Api(ValueOf(d.root, "APIName"), ValueOf(d.root, "APIVersion")) = GoSofa(version)
  BY <1>4 DEF ReadBack, GoSofa
<1> HIDE DEF d
<1>6. /\ SequenceOK(writers) /\ SequenceOK(source) /\ SequenceOK(before)
      /\ Len(source) <= Len(writers) \/ (disk = None /\ Len(source) <= 1)
      /\ file.history = before \o Due(source)
      /\ IF source = <<>> THEN file.api[1] = <<>> ELSE file.api = Last(source)
  BY <1>1, <1>2 DEF Followed
<1>7. /\ Last(writers') = GoSofa(version) /\ Len(writers') = Len(source) + 1 /\ writers' # <<>>
      /\ SequenceOK(writers')
  BY <1>1, <1>6, LastIs
<1>8. Followed'
  <2>1. Len(writers) \in Nat /\ Len(source) \in Nat /\ MaxWriters \in Nat
    BY <1>6, ListIs, LifeBounded
  <2>2. Len(writers') <= MaxWriters + 1 /\ Len(source) <= Len(writers')
    BY <1>1, <1>6, <1>7, <2>1
  <2>3. QED
    BY <1>1, <1>5, <1>6, <1>7, <2>2 DEF Followed
<1>9. WrittenOnce'
  BY <1>1, <1>3 DEF WrittenOnce, Once
<1>10. HistoryNamesEveryApi'
  <2>1. SavedHistory(file, version) = before \o Due(Append(source, GoSofa(version)))
    BY <1>6, LineAdded
  <2>2. QED
    BY <1>1, <1>5, <2>1 DEF HistoryNamesEveryApi
<1>11. QED
  BY <1>1, <1>2, <1>3, <1>8, <1>9, <1>10 DEF Inv

LEMMA OtherSavesStep ==
  ASSUME Inv, NEW program \in Others, OtherSaves(program)
  PROVE  Inv'
<1> DEFINE api == Api(<<program>>, <<"1">>)
<1>1. /\ disk # None /\ Len(writers) < MaxWriters
      /\ disk' = [disk EXCEPT !.root =
                Filtered(@, LAMBDA a : a.name \notin {"APIName", "APIVersion"})
                  \o << Attribute("APIName", <<program>>), Attribute("APIVersion", <<"1">>) >>]
      /\ writers' = Append(writers, api)
      /\ file' = file /\ edits' = edits /\ source' = source /\ before' = before
  BY DEF OtherSaves
<1>2. DiskOK(disk) /\ Followed /\ HistoryNamesEveryApi /\ edits \in 0..MaxEdits
      /\ (file # None => FileOK(file))
  BY <1>1 DEF Inv
<1>3. /\ DiskOK(disk') /\ ValueOf(disk'.root, "APIName") = <<program>>
      /\ ValueOf(disk'.root, "APIVersion") = <<"1">>
      /\ ValueOf(disk'.root, "History") = ValueOf(disk.root, "History")
  BY <1>1, <1>2, OtherSaved
<1>4. program # "go-sofa"
  BY NamesGiven
<1>5. api[1] = <<program>> /\ <<program>> # <<"go-sofa">>
  BY <1>4 DEF Api
<1>6. api = Api(ValueOf(disk'.root, "APIName"), ValueOf(disk'.root, "APIVersion"))
  BY <1>3
<1> HIDE DEF api
<1>7. /\ SequenceOK(writers) /\ SequenceOK(source) /\ writers # <<>>
      /\ Len(source) <= Len(writers) \/ Len(source) <= 1
  BY <1>1, <1>2 DEF Followed
<1>8. /\ Last(writers') = api /\ Len(writers') = Len(writers) + 1 /\ writers' # <<>>
      /\ SequenceOK(writers')
  BY <1>1, <1>2, LastIs DEF Followed
<1>9. Followed'
  <2>1. Len(writers) \in Nat /\ Len(source) \in Nat /\ MaxWriters \in Nat
    BY <1>2, ListIs, LifeBounded DEF Followed
  <2>2. Len(writers') <= MaxWriters + 1 /\ Len(source') <= Len(writers')
    BY <1>1, <1>2, <1>8, <2>1 DEF Followed
  <2>3. QED
    BY <1>1, <1>2, <1>6, <1>8, <2>2 DEF Followed
<1>10. WrittenOnce'
  BY <1>5, <1>8 DEF WrittenOnce, Own
<1>11. HistoryNamesEveryApi'
  <2>1. Due(Append(writers, api)) = Due(writers)
    <3>1. SequenceOK(writers) /\ writers # <<>>
      BY <1>1, <1>2 DEF Followed
    <3>2. ~Handover(<<Last(writers), api>>)
      BY <1>5 DEF Handover
    <3>3. QED
      BY <3>1, <3>2, DueAppended
  <2>2. QED
    BY <1>1, <1>2, <1>3, <2>1 DEF HistoryNamesEveryApi
<1>12. QED
  BY <1>1, <1>2, <1>3, <1>9, <1>10, <1>11 DEF Inv

\* An edit touches nothing but the File.
LEMMA EditStep ==
  ASSUME Inv, NEW kind, Edit(kind), FileOK(file'),
         file'.history = file.history, file'.api = file.api
  PROVE  Inv'
<1>1. /\ file # None /\ edits < MaxEdits /\ edits' = edits + 1
      /\ disk' = disk /\ writers' = writers /\ source' = source /\ before' = before
  BY DEF Edit
<1>2. edits' \in 0..MaxEdits
  BY <1>1, LifeBounded DEF Inv
<1>3. Followed'
  BY <1>1 DEF Inv, Followed
<1>4. WrittenOnce' /\ HistoryNamesEveryApi'
  BY <1>1 DEF Inv, WrittenOnce, HistoryNamesEveryApi, Own
<1>5. QED
  BY <1>1, <1>2, <1>3, <1>4 DEF Inv

LEMMA StepInv == Inv /\ [Next]_vars => Inv'
<1> SUFFICES ASSUME Inv, [Next]_vars PROVE Inv'
  OBVIOUS
<1>1. CASE Open
  BY <1>1, OpenStep
<1>2. ASSUME NEW v \in Versions, Save(v) PROVE Inv'
  BY <1>2, SaveStep
<1>3. ASSUME NEW p \in Others, OtherSaves(p) PROVE Inv'
  BY <1>3, OtherSavesStep
<1> DEFINE Kept == FileOK(file') /\ file'.history = file.history /\ file'.api = file.api
<1>4. ASSUME NEW kind, Edit(kind) PROVE FileOK(file)
  BY <1>4 DEF Edit, Inv
<1>5. CASE EditConvention
  <2>1. Edit("convention")
    BY <1>5 DEF EditConvention
  <2>2. PICK c \in {"SingleRoomSRIR", "FreeFieldDirectivityTF", "FreeFieldHRTF"} :
          file' = [file EXCEPT !.convention = c, !.dataType = RulesFor(c).dataType]
    BY <1>5 DEF EditConvention
  <2>3. FileOK(file)
    BY <1>4, <2>1
  <2>4. Kept
    BY <2>2, <2>3, ConventionEdited
  <2>5. QED
    BY <2>1, <2>4, EditStep
<1>6. CASE EditRoom
  <2>1. Edit("room")
    BY <1>6 DEF EditRoom
  <2>2. \E v : file' = [file EXCEPT !.roomVolume = v] \/ file' = [file EXCEPT !.roomType = v]
    BY <1>6 DEF EditRoom
  <2>3. Kept
    BY <1>4, <2>1, <2>2, RoomEdited
  <2>4. QED
    BY <2>1, <2>3, EditStep
<1>7. CASE Resize
  <2>1. Edit("resize") /\ \E m \in Nat : file' = [file EXCEPT !.M = m]
    BY <1>7 DEF Resize
  <2>2. Kept
    BY <1>4, <2>1, Resized
  <2>3. QED
    BY <2>1, <2>2, EditStep
<1>8. CASE EditEmitters
  <2>1. /\ Edit("emitters")
        /\ \E some, type : file' = [file EXCEPT !.emitters = some, !.emitterType = type]
    BY <1>8 DEF EditEmitters
  <2>2. FileOK(file)
    BY <1>4, <2>1
  <2>3. \E some, type : file' = [file EXCEPT !.emitters = some, !.emitterType = type]
    BY <2>1
  <2>4. Kept
    BY <2>2, <2>3, EmittersEdited
  <2>5. QED
    BY <2>1, <2>4, EditStep
<1>9. CASE RemoveVariable
  <2>1. /\ Edit("remove")
        /\ \E i \in DOMAIN file.variables : file' = [file EXCEPT !.variables = RemoveAt(@, i)]
    BY <1>9 DEF RemoveVariable
  <2>2. Kept
    BY <1>4, <2>1, VariableRemoved
  <2>3. QED
    BY <2>1, <2>2, EditStep
<1>10. CASE AddAttribute
  <2>1. Edit("attribute") /\ \E a : file' = [file EXCEPT !.attributes = Append(@, a)]
    BY <1>10 DEF AddAttribute
  <2>2. Kept
    BY <1>4, <2>1, AttributeAdded
  <2>3. QED
    BY <2>1, <2>2, EditStep
<1>11. CASE AddVariable
  <2>1. Edit("variable")
    BY <1>11 DEF AddVariable
  <2>2. PICK name \in {"SourceView", "RoomVolume", "S", "Temperature"} :
          LET dims == IF name = "Temperature" THEN <<"SourceUp">> ELSE <<"M", "S">>
              v == Variable(name, dims, IF Len(dims) = 1 THEN <<2>> ELSE <<file.M, 2>>,
                            "numeric", <<"added">>, <<>>)
          IN  file' = [file EXCEPT !.variables = Append(@, v)]
    BY <1>11 DEF AddVariable
  <2> DEFINE dims == IF name = "Temperature" THEN <<"SourceUp">> ELSE <<"M", "S">>
             shape == IF Len(dims) = 1 THEN <<2>> ELSE <<file.M, 2>>
             v == Variable(name, dims, shape, "numeric", <<"added">>, <<>>)
  <2>3. file' = [file EXCEPT !.variables = Append(@, v)]
    BY <2>2
  <2>4. SequenceOK(dims) /\ SequenceOK(shape) /\ SequenceOK(<<>>)
    <3>1. /\ dims = <<"SourceUp">> \/ dims = <<"M", "S">>
          /\ shape = <<2>> \/ shape = <<file.M, 2>>
      OBVIOUS
    <3> HIDE DEF dims, shape
    <3>2. QED
      BY <3>1, EmptyList, OneOf, PairOf
  <2> HIDE DEF dims, shape
  <2>5. /\ v = Variable(v.name, v.dims, v.shape, v.form, v.data, v.attrs) /\ VariableOK(v)
        /\ v.form \in {"numeric", "chars"}
    BY <2>4 DEF Variable, VariableOK
  <2> HIDE DEF v
  <2>6. Kept
    BY <1>4, <2>1, <2>3, <2>5, VariableAdded
  <2>7. QED
    BY <2>1, <2>6, EditStep
<1>12. CASE AddVariableAttribute
  <2>1. Edit("variable attribute")
    BY <1>12 DEF AddVariableAttribute
  <2>2. PICK at \in { <<"SourceView", "Units">>, <<"SourceView", "Reference">>, <<"N", "Units">>,
                      <<"SourcePosition", "Reference">>, <<"ListenerUp", "Type">>,
                      <<"RoomVolume", "Reference">>, <<"M", "CLASS">> } :
          LET more == Append(Given(file, at[1]), Attribute(at[2], <<"added">>))
          IN  file' = [file EXCEPT !.variableAttributes =
                        [name \in DOMAIN @ \cup {at[1]} |-> IF name = at[1] THEN more ELSE @[name]]]
    BY <1>12, Zenon DEF AddVariableAttribute
  <2> DEFINE of == at[1]
             a == Attribute(at[2], <<"added">>)
  <2>3. file' = WithAttribute(file, of, a)
    BY <2>2, Zenon DEF WithAttribute
  <2>4. FileOK(file)
    BY <1>4, <2>1
  <2> HIDE DEF of, a
  <2>5. Kept
    BY <2>3, <2>4, VariableAttributeAdded
  <2>6. QED
    BY <2>1, <2>5, EditStep
<1>13. CASE UNCHANGED vars
  BY <1>13 DEF vars, Inv, Followed, WrittenOnce, HistoryNamesEveryApi, Own
<1>14. QED
  BY <1>1, <1>2, <1>3, <1>5, <1>6, <1>7, <1>8, <1>9, <1>10, <1>11, <1>12, <1>13 DEF Next

\* Inv holds of every behaviour.
THEOREM MetadataInvariant == Spec => []Inv
<1>1. Init => Inv
  BY InitInv
<1>2. Inv /\ [Next]_vars => Inv'
  BY StepInv
<1>3. QED
  BY <1>1, <1>2, PTL DEF Spec

LEMMA InvTypeOK == Inv => TypeOK
<1> SUFFICES ASSUME Inv PROVE TypeOK
  OBVIOUS
<1>1. file # None =>
       /\ file.dataType \in Types /\ {file.M, file.R, file.E} \subseteq Nat
       /\ \A what \in file.dropped : Len(what) = 2
       /\ \A name \in DOMAIN file.variableAttributes : file.variableAttributes[name] # <<>>
  BY DEF Inv, FileOK
<1>2. disk # None => DOMAIN disk = {"root", "datasets"} /\ writers # <<>>
  BY DEF Inv, DiskOK, Followed
<1>3. edits \in 0..MaxEdits /\ Len(writers) <= MaxWriters + 1
  BY DEF Inv, Followed
<1>4. QED
  BY <1>1, <1>2, <1>3 DEF TypeOK

\* What Open reads and what the edits leave is a File, however often it is
\* opened, edited and saved: the type invariant.
THEOREM MetadataTypeOK == Spec => []TypeOK
<1>1. Inv => TypeOK
  BY InvTypeOK
<1>2. QED
  BY <1>1, MetadataInvariant, PTL

\* No root attribute, dataset or attribute of one is written twice, and the
\* dimensions of every variable are scales of the size it needs, whatever
\* the caller did to the File that Save accepted.
THEOREM NothingWrittenTwice == Spec => []WrittenOnce
<1>1. Inv => WrittenOnce
  BY DEF Inv
<1>2. QED
  BY <1>1, MetadataInvariant, PTL

\* The History is the one there was to begin with and a line for each change
\* of hands to go-sofa, over any number of generations.
THEOREM HistoryIsComplete == Spec => []HistoryNamesEveryApi
<1>1. Inv => HistoryNamesEveryApi
  BY DEF Inv
<1>2. QED
  BY <1>1, MetadataInvariant, PTL

\* A File says once saved and opened again what it said before, as long as
\* it has emitters: the RoomType, the warnings and the detection of
\* spherical harmonics look at what Save would write.
THEOREM MeaningIsKept == Spec => []MeaningKept
<1>1. Inv => MeaningKept
  BY SavedMeaning DEF Inv, MeaningKept
<1>2. QED
  BY <1>1, MetadataInvariant, PTL

LEMMA OwnWorkInit == Init => OwnWork
<1> SUFFICES ASSUME Init, Own PROVE FALSE
  BY DEF OwnWork
<1> DEFINE api == Api(ValueOf(disk.root, "APIName"), ValueOf(disk.root, "APIVersion"))
<1>1. disk \in OtherFiles /\ writers = <<api>>
  BY DEF Init, Own
<1>2. api[1] # <<"go-sofa">>
  BY <1>1, OtherFilesGiven DEF Api
<1> HIDE DEF api
<1>3. Last(writers) = api
  BY <1>1, SingleIs
<1>4. QED
  BY <1>2, <1>3 DEF Own

LEMMA OwnWorkStep == Inv /\ OwnWork /\ [Next]_vars => OwnWork'
<1> SUFFICES ASSUME Inv, OwnWork, [Next]_vars PROVE OwnWork'
  OBVIOUS
<1>1. CASE disk' = disk /\ writers' = writers
  BY <1>1 DEF OwnWork, Own
<1>2. ASSUME NEW v \in Versions, Save(v) PROVE OwnWork'
  <2>1. /\ FileOK(file) /\ Valid(file) /\ SequenceOK(source)
        /\ disk' = SaveOf(file, v, Time(Len(writers) + 1)) /\ writers' = Append(source, GoSofa(v))
    BY <1>2 DEF Save, Inv, Followed
  <2>2. Last(writers') = GoSofa(v)
    BY <2>1, LastIs
  <2>3. QED
    BY <2>1, <2>2 DEF OwnWork
<1>3. ASSUME NEW p \in Others, OtherSaves(p) PROVE OwnWork'
  <2> DEFINE api == Api(<<p>>, <<"1">>)
  <2>1. SequenceOK(writers) /\ writers' = Append(writers, api)
    BY <1>3 DEF OtherSaves, Inv, Followed
  <2>2. p # "go-sofa"
    BY NamesGiven
  <2>3. api[1] # <<"go-sofa">>
    BY <2>2 DEF Api
  <2> HIDE DEF api
  <2>4. Last(writers') = api
    BY <2>1, LastIs
  <2>5. QED
    BY <2>3, <2>4 DEF OwnWork, Own
<1>4. \/ disk' = disk /\ writers' = writers
      \/ \E v \in Versions : Save(v)
      \/ \E p \in Others : OtherSaves(p)
  BY DEF Next, vars, Open, EditConvention, EditRoom, Resize, EditEmitters, RemoveVariable,
         AddAttribute, AddVariable, AddVariableAttribute, Edit
<1>5. QED
  BY <1>1, <1>2, <1>3, <1>4

\* What Save accepted and wrote, Open reads with nothing dropped and Save
\* accepts and writes again: the file stays as it is, whatever the File held,
\* unless a Variable of the caller's is taken for RoomVolume.
THEOREM ResaveChangesNothing == Spec => []ResaveIsFixedPoint
<1>1. Init => OwnWork
  BY OwnWorkInit
<1>2. Inv /\ OwnWork /\ [Next]_vars => OwnWork'
  BY OwnWorkStep
<1>3. OwnWork => ResaveIsFixedPoint
  BY OwnWorkKept
<1>4. QED
  BY <1>1, <1>2, <1>3, MetadataInvariant, PTL DEF Spec
-----------------------------------------------------------------------------
(* What Save writes is as other programs' files are said to be.            *)

\* What Open interprets is among what Save writes itself.
LEMMA InterpretedIs ==
  ASSUME NEW f, f.dataType \in Types
  PROVE  /\ Interpreted(f.dataType) =
              {"ListenerPosition", "ReceiverPosition", "SourcePosition"} \cup AudioNames(f)
              \cup (IF IsTF(f) THEN {"N"} ELSE {})
         /\ Interpreted(f.dataType) \subseteq DOMAIN WrittenVariables(f)
         /\ \A d \in ToSet(Dimensions) : d \in Interpreted(f.dataType) <=> Frequencies(f, d)
         /\ {"EmitterPosition", "ListenerView", "ListenerUp"} \subseteq
              DOMAIN WrittenVariables(f) \ (ToSet(Dimensions) \cup Interpreted(f.dataType))
<1>1. Interpreted(f.dataType) =
        {"ListenerPosition", "ReceiverPosition", "SourcePosition"} \cup AudioNames(f)
        \cup (IF IsTF(f) THEN {"N"} ELSE {})
  BY DEF Interpreted, Positions, AudioNames, IsTF, SamplesName, Types
<1>2. DOMAIN WrittenVariables(f) =
        {"ListenerPosition", "ReceiverPosition", "SourcePosition", "EmitterPosition",
         "ListenerView", "ListenerUp"}
        \cup AudioNames(f) \cup (IF f.roomVolume = "0" THEN {} ELSE {"RoomVolume"})
        \cup {"M", "R", "E", "N", "C", "I"}
  BY WrittenIs, DimensionsAre DEF AudioNames, SamplesName, Positions
<1>3. AudioNames(f) \subseteq
        {"Data.Real", "Data.Imag", "Data.SOS", "Data.IR", "Data.SamplingRate", "Data.Delay"}
  BY DEF AudioNames, SamplesName
<1>4. Interpreted(f.dataType) \subseteq DOMAIN WrittenVariables(f)
  BY <1>1, <1>2
<1>5. \A d \in ToSet(Dimensions) : d \in Interpreted(f.dataType) <=> Frequencies(f, d)
  BY <1>1, <1>3, DimensionsAre DEF Frequencies
<1>6. {"EmitterPosition", "ListenerView", "ListenerUp"} \subseteq
        DOMAIN WrittenVariables(f) \ (ToSet(Dimensions) \cup Interpreted(f.dataType))
  BY <1>1, <1>2, <1>3, DimensionsAre
<1>7. QED
  BY <1>1, <1>4, <1>5, <1>6

\* The data of what Save writes by name.
LEMMA OwnedData ==
  ASSUME NEW f, FileOK(f), ExtrasFit(f), NEW s \in ToSet(OwnedVariables(f))
  PROVE  /\ s.name \in Interpreted(f.dataType) => s.data = <<"given">>
         /\ s.name = "EmitterPosition" => s.data = Or(f.emitters, "[0 0 0]")
         /\ s.name = "ListenerUp" => s.data = Or(f.up, "+z")
         /\ s.name = "ListenerView" => s.data = Or(f.view, "+x")
         /\ s.name = "RoomVolume" => s.data = <<f.roomVolume>>
<1> DEFINE given == <<"given">>
<1>1. \A name, data, own : /\ Owned(f, name, data, own).name = name
                           /\ Owned(f, name, data, own).data = data
  BY DEF Owned, Dataset, Variable
<1>2. \/ s \in ToSet(PlacedList(f)) \/ s \in ToSet(RoomList(f)) \/ s \in ToSet(AudioList(f))
  BY OwnedVariablesFit
<1>3. f.dataType \in Types
  BY DEF FileOK
<1>4. {"EmitterPosition", "ListenerView", "ListenerUp"} \cap Interpreted(f.dataType) = {}
  BY <1>3, InterpretedIs
<1>5. CASE s \in ToSet(PlacedList(f))
  <2>1. \/ s = Cartesian(f, "ListenerPosition") \/ s = Cartesian(f, "ReceiverPosition")
        \/ s = Cartesian(f, "SourcePosition") \/ s = EmitterOf(f) \/ s = UpOf(f) \/ s = ViewOf(f)
    BY <1>5, PlacedFits
  <2>2. CASE \/ s = Cartesian(f, "ListenerPosition") \/ s = Cartesian(f, "ReceiverPosition")
             \/ s = Cartesian(f, "SourcePosition")
    <3>1. \A name : /\ Cartesian(f, name).name = name
                    /\ Cartesian(f, name).data = given
      BY <1>1, Zenon DEF Cartesian
    <3>2. s.data = given /\ s.name \in {"ListenerPosition", "ReceiverPosition", "SourcePosition"}
      BY <2>2, <3>1
    <3>3. QED
      BY <3>2
  <2>3. CASE s = EmitterOf(f)
    <3>1. s.name = "EmitterPosition" /\ s.data = Or(f.emitters, "[0 0 0]")
      BY <1>1, <2>3, Zenon DEF EmitterOf
    <3>2. QED
      BY <1>4, <3>1
  <2>4. CASE s = UpOf(f)
    <3>1. s.name = "ListenerUp" /\ s.data = Or(f.up, "+z")
      BY <1>1, <2>4, Zenon DEF UpOf
    <3>2. QED
      BY <1>4, <3>1
  <2>5. CASE s = ViewOf(f)
    <3>1. s.name = "ListenerView" /\ s.data = Or(f.view, "+x")
      BY <1>1, <2>5, Zenon DEF ViewOf
    <3>2. QED
      BY <1>4, <3>1
  <2>6. QED
    BY <2>1, <2>2, <2>3, <2>4, <2>5
<1>6. CASE s \in ToSet(RoomList(f))
  <2>1. s = RoomOf(f)
    <3>1. ToSet(RoomList(f)) \subseteq {RoomOf(f)}
      BY RoomFits
    <3>2. QED
      BY <1>6, <3>1
  <2>2. s.name = "RoomVolume" /\ s.data = <<f.roomVolume>>
    BY <1>1, <2>1 DEF RoomOf
  <2>3. "RoomVolume" \notin Interpreted(f.dataType)
    BY <1>3, InterpretedIs DEF AudioNames, SamplesName
  <2>4. QED
    BY <2>2, <2>3
<1>7. CASE s \in ToSet(AudioList(f))
  <2>1. s.data = given /\ s.name \in AudioNames(f)
    <3>1. CASE IsTF(f)
      <4>1. s = Owned(f, "Data.Real", given, <<>>) \/ s = Owned(f, "Data.Imag", given, <<>>)
        BY <1>7, <3>1, AudioIs
      <4>2. QED
        BY <1>1, <3>1, <4>1 DEF AudioNames
    <3>2. CASE ~IsTF(f)
      <4>1. \/ s = Owned(f, SamplesName(f), given, <<>>)
            \/ s = Owned(f, "Data.SamplingRate", given, UnitsOf("hertz"))
            \/ s = Owned(f, "Data.Delay", given, <<>>)
        BY <1>7, <3>2, AudioIs
      <4>2. QED
        BY <1>1, <3>2, <4>1 DEF AudioNames
    <3>3. QED
      BY <3>1, <3>2
  <2>2. s.name \notin {"EmitterPosition", "ListenerUp", "ListenerView", "RoomVolume"}
    BY <2>1 DEF AudioNames, SamplesName
  <2>3. QED
    BY <2>1, <2>2
<1>8. QED
  BY <1>2, <1>5, <1>6, <1>7

\* Labels are of all axes or of none.
LEMMA SavedLabels ==
  ASSUME NEW f, FileOK(f), ExtrasFit(f), NEW v \in ToSet(SavedVariables(f))
  PROVE  Len(v.dims) <= Len(v.shape) /\ v.name \notin DOMAIN WrittenVariables(f)
<1>1. \/ \E w \in ToSet(f.variables) : v = OwnSaved(f, w)
      \/ \E w \in ToSet(MissingVariables(f)) : v = DefaultSaved(f, w)
  BY SavedVariablesAre
<1>2. CASE \E w \in ToSet(f.variables) : v = OwnSaved(f, w)
  <2>1. PICK w \in ToSet(f.variables) : v = OwnSaved(f, w)
    BY <1>2
  <2>2. IsVariable(w) /\ VariableOK(w)
    BY DEF FileOK, IsVariable
  <2>3. v.name = w.name /\ v.dims = w.dims /\ v.shape = w.shape
    BY <2>1, <2>2, CompletedIs DEF OwnSaved, Variable
  <2>4. /\ w.name \notin DOMAIN WrittenOrMissing(f)
        /\ w.dims = <<>> \/ Len(w.dims) = Len(w.shape)
    BY DEF ExtrasFit
  <2>5. DOMAIN WrittenVariables(f) \subseteq DOMAIN WrittenOrMissing(f)
    BY WrittenOrMissingIs
  <2>6. Len(w.dims) \in Nat /\ Len(w.shape) \in Nat
    BY <2>2, ListIs DEF VariableOK
  <2>7. QED
    BY <2>3, <2>4, <2>5, <2>6, EmptyList
<1>3. CASE \E w \in ToSet(MissingVariables(f)) : v = DefaultSaved(f, w)
  <2>1. PICK w \in ToSet(MissingVariables(f)) : v = DefaultSaved(f, w)
    BY <1>3
  <2>2. DefaultOK(w)
    BY MissingVariablesFit
  <2>3. IsVariable(w)
    BY <2>2 DEF DefaultOK, IsVariable
  <2>4. v.name = w.name /\ v.dims = w.dims /\ v.shape = w.shape
    BY <2>1, <2>3, CompletedIs DEF DefaultSaved, Variable
  <2>5. w.dims = <<"I", "C">> /\ w.shape = <<1, 3>> /\ w.name \in {"SourceView", "SourceUp"}
    BY <2>2 DEF DefaultOK
  <2>6. Len(<<"I", "C">>) = 2 /\ Len(<<1, 3>>) = 2
    OBVIOUS
  <2>7. QED
    BY <2>4, <2>5, <2>6, NotWritten
<1>4. QED
  BY <1>1, <1>2, <1>3

LEMMA SavedDescribed ==
  ASSUME NEW f, FileOK(f), ExtrasFit(f), NEW version, NEW now
  PROVE  Described(SaveOf(f, version, now))
<1> DEFINE d == SaveOf(f, version, now)
<1>1. ReadBack(d.root, f, version, now)
  <2>1. SequenceOK(f.attributes) /\ AttributesFit(f.attributes, GlobalFields \cup NetCDF)
    BY DEF FileOK, ExtrasFit
  <2>2. ReadBack(SavedRoot(f, version, now), f, version, now)
    BY <2>1, SavedValues
  <2>3. d.root = SavedRoot(f, version, now)
    BY SaveOfIs
  <2>4. QED
    BY <2>2, <2>3
<1>2. d.datasets = SavedDatasets(f)
  BY SaveOfIs
<1> HIDE DEF d
<1>3. /\ ValueOf(d.root, "Conventions") = <<"SOFA">> /\ "RoomTemperature" \notin Names(d.root)
      /\ ValueOf(d.root, "Version") = << ValueOf(d.root, "Version")[1] >>
      /\ ValueOf(d.root, "SOFAConventions") = << ValueOf(d.root, "SOFAConventions")[1] >>
      /\ ValueOf(d.root, "SOFAConventionsVersion") = << ValueOf(d.root, "SOFAConventionsVersion")[1] >>
      /\ ValueOf(d.root, "DataType") = << ValueOf(d.root, "DataType")[1] >>
      /\ ValueOf(d.root, "DataType")[1] = f.dataType
  BY <1>1 DEF ReadBack
<1>4. f.dataType \in Types
  BY DEF FileOK
<1>5. ASSUME NEW v \in ToSet(SavedDatasets(f))
      PROVE  /\ Len(v.dims) <= Len(v.shape)
             /\ v.name \in Interpreted(f.dataType) => v.data = <<"given">>
             /\ v.name \in {"EmitterPosition", "ListenerView", "ListenerUp"} => v.data # <<>>
  <2>1. \/ \E n \in ToSet(SavedDimensions(f)) : v = ScaleOf(f, n)
        \/ v \in ToSet(OwnedVariables(f))
        \/ \E w \in ToSet(SavedVariables(f)) : v = Attached(w)
    BY SavedDatasetsFit
  <2>2. CASE \E n \in ToSet(SavedDimensions(f)) : v = ScaleOf(f, n)
    <3>1. PICK n \in ToSet(SavedDimensions(f)) : v = ScaleOf(f, n)
      BY <2>2
    <3>2. /\ v.name = n /\ v.dims = <<>> /\ v.shape = <<SizeOf(f, n)>>
          /\ Frequencies(f, n) => v.data = <<"given">>
      BY <3>1, ScaleFits
    <3>3. n \in ToSet(Dimensions) \/ n \notin DOMAIN WrittenVariables(f)
      BY SavedDimensionsAre, FurtherNew
    <3>4. /\ n \in Interpreted(f.dataType) => Frequencies(f, n)
          /\ n \notin {"EmitterPosition", "ListenerView", "ListenerUp"}
      BY <1>4, <3>3, InterpretedIs
    <3>5. Len(v.dims) = 0 /\ Len(v.shape) = 1
      BY <3>2
    <3>6. QED
      BY <3>2, <3>4, <3>5
  <2>3. CASE v \in ToSet(OwnedVariables(f))
    <3>1. v.dims = <<>> /\ v.shape = <<>>
      BY <2>3, OwnedVariablesFit DEF OwnFits
    <3>2. Len(v.dims) <= Len(v.shape)
      BY <3>1, EmptyList
    <3>3. \A value, default : Or(value, default) # <<>>
      BY DEF Or
    <3>4. /\ v.name \in Interpreted(f.dataType) => v.data = <<"given">>
          /\ v.name = "EmitterPosition" => v.data = Or(f.emitters, "[0 0 0]")
          /\ v.name = "ListenerUp" => v.data = Or(f.up, "+z")
          /\ v.name = "ListenerView" => v.data = Or(f.view, "+x")
      BY <2>3, OwnedData
    <3>5. v.name \in {"EmitterPosition", "ListenerView", "ListenerUp"} => v.data # <<>>
      BY <3>3, <3>4
    <3>6. QED
      BY <3>2, <3>4, <3>5, Zenon
  <2>4. CASE \E w \in ToSet(SavedVariables(f)) : v = Attached(w)
    <3>1. PICK w \in ToSet(SavedVariables(f)) : v = Attached(w)
      BY <2>4
    <3>2. IsVariable(w) /\ Len(w.dims) <= Len(w.shape) /\ w.name \notin DOMAIN WrittenVariables(f)
      BY SavedVariablesFit, SavedLabels
    <3>3. v.name = w.name /\ v.dims = w.dims /\ v.shape = w.shape
      BY <3>1, <3>2, AttachedIs
    <3>4. QED
      BY <1>4, <3>2, <3>3, InterpretedIs
  <2>5. QED
    BY <2>1, <2>2, <2>3, <2>4
<1>6. QED
  BY <1>2, <1>3, <1>5 DEF Described, d

LEMMA DescribedInit == Init => DiskDescribed
  BY OtherFilesGiven DEF Init, DiskDescribed

LEMMA DescribedStep == Inv /\ DiskDescribed /\ [Next]_vars => DiskDescribed'
<1> SUFFICES ASSUME Inv, DiskDescribed, [Next]_vars PROVE DiskDescribed'
  OBVIOUS
<1>1. CASE disk' = disk
  BY <1>1 DEF DiskDescribed
<1>2. ASSUME NEW v \in Versions, Save(v) PROVE DiskDescribed'
  <2>1. /\ FileOK(file) /\ ExtrasFit(file)
        /\ disk' = SaveOf(file, v, Time(Len(writers) + 1))
    BY <1>2 DEF Save, Inv, Valid
  <2>2. QED
    BY <2>1, SavedDescribed DEF DiskDescribed
<1>3. ASSUME NEW p \in Others, OtherSaves(p) PROVE DiskDescribed'
  <2>1. /\ DiskOK(disk) /\ Described(disk)
        /\ disk' = [disk EXCEPT !.root =
                Filtered(@, LAMBDA a : a.name \notin {"APIName", "APIVersion"})
                  \o << Attribute("APIName", <<p>>), Attribute("APIVersion", <<"1">>) >>]
    BY <1>3 DEF OtherSaves, Inv, DiskDescribed
  <2>2. /\ disk'.datasets = disk.datasets
        /\ Names(disk'.root) \subseteq Names(disk.root) \cup {"APIName", "APIVersion"}
        /\ \A n : n \notin {"APIName", "APIVersion"} => ValueOf(disk'.root, n) = ValueOf(disk.root, n)
    <3>1. SameButApi(disk', disk)
      BY <2>1, OtherSaved
    <3>2. QED
      BY <3>1 DEF SameButApi
  <2>3. /\ ValueOf(disk'.root, "Conventions") = ValueOf(disk.root, "Conventions")
        /\ \A n \in {"Version", "SOFAConventions", "SOFAConventionsVersion", "DataType"} :
             ValueOf(disk'.root, n) = ValueOf(disk.root, n)
        /\ "RoomTemperature" \notin Names(disk'.root)
    BY <2>1, <2>2 DEF Described
  <2>4. Described(disk')
    BY <2>1, <2>2, <2>3 DEF Described
  <2>5. QED
    BY <2>4 DEF DiskDescribed
<1>4. \/ disk' = disk
      \/ \E v \in Versions : Save(v)
      \/ \E p \in Others : OtherSaves(p)
  BY DEF Next, vars, Open, EditConvention, EditRoom, Resize, EditEmitters, RemoveVariable,
         AddAttribute, AddVariable, AddVariableAttribute, Edit
<1>5. QED
  BY <1>1, <1>2, <1>3, <1>4
-----------------------------------------------------------------------------
(* What another Save keeps.                                                *)

\* Nothing of the item is lost, or one can know.
Explained(d, f, s, item) ==
  item \in Items(s, f) \/ Reported(f, item) \/ Rewritten(f, item) \/ Overlooked(d, f, item)

\* The file a File was opened from, and what is saved of it.
Resaving(d, f, s) ==
  /\ DiskOK(d) /\ Described(d) /\ f = OpenOf(d) /\ FileOK(f) /\ ExtrasFit(f)
  /\ \E version, now : s = SaveOf(f, version, now)

\* What is in a file is an item of it.
LEMMA ItemIn ==
  ASSUME NEW d, NEW f
  PROVE  /\ \A a \in ToSet(d.root) :
              a.name \notin NetCDF => Item("", a.name, a.value) \in Items(d, f)
         /\ \A v \in ToSet(d.datasets) :
              /\ Item(v.name, "data", v.data) \in Items(d, f)
              /\ v.name \notin DOMAIN WrittenVariables(f) => Item(v.name, "dims", v.dims) \in Items(d, f)
              /\ \A a \in ToSet(v.attrs) :
                   a.name \notin Plumbing => Item(v.name, a.name, a.value) \in Items(d, f)
<1> DEFINE sets == ToSet(d.datasets)
           attrs(v) == {Item(v.name, a.name, a.value) : a \in {b \in ToSet(v.attrs) : b.name \notin Plumbing}}
           A == {Item("", a.name, a.value) : a \in {b \in ToSet(d.root) : b.name \notin NetCDF}}
           B == {Item(v.name, "data", v.data) : v \in sets}
           C == {Item(v.name, "dims", v.dims) :
                   v \in {w \in sets : w.name \notin DOMAIN WrittenVariables(f)}}
           D == UNION {attrs(v) : v \in sets}
<1>1. Items(d, f) = A \cup B \cup C \cup D
  BY DEF Items
<1>2. \A a \in ToSet(d.root) : a.name \notin NetCDF => Item("", a.name, a.value) \in A
  OBVIOUS
<1>3. \A v \in sets : Item(v.name, "data", v.data) \in B
  OBVIOUS
<1>4. \A v \in sets : v.name \notin DOMAIN WrittenVariables(f) => Item(v.name, "dims", v.dims) \in C
  OBVIOUS
<1>5. \A v \in sets : \A a \in ToSet(v.attrs) :
        a.name \notin Plumbing => Item(v.name, a.name, a.value) \in D
  <2>1. \A v \in sets : \A a \in ToSet(v.attrs) :
          a.name \notin Plumbing => Item(v.name, a.name, a.value) \in attrs(v)
    OBVIOUS
  <2> HIDE DEF attrs
  <2>2. QED
    BY <2>1
<1> HIDE DEF A, B, C, D
<1>6. QED
  BY <1>1, <1>2, <1>3, <1>4, <1>5

\* The four kinds of what a file says (Items).
OfRoot(d, item) ==
  \E a \in ToSet(d.root) : a.name \notin NetCDF /\ item = Item("", a.name, a.value)
OfData(d, item) == \E v \in ToSet(d.datasets) : item = Item(v.name, "data", v.data)
OfLabels(d, f, item) ==
  \E v \in ToSet(d.datasets) : /\ v.name \notin DOMAIN WrittenVariables(f)
                               /\ item = Item(v.name, "dims", v.dims)
OfAttributes(d, item) ==
  \E v \in ToSet(d.datasets) : \E a \in ToSet(v.attrs) :
    a.name \notin Plumbing /\ item = Item(v.name, a.name, a.value)

LEMMA ItemOf ==
  ASSUME NEW d, NEW f, NEW item \in Items(d, f)
  PROVE  OfRoot(d, item) \/ OfData(d, item) \/ OfLabels(d, f, item) \/ OfAttributes(d, item)
  BY DEF Items, OfRoot, OfData, OfLabels, OfAttributes

\* What a root attribute becomes.
LEMMA RootExplained ==
  ASSUME NEW d, NEW f, NEW s, Resaving(d, f, s), NEW a \in ToSet(d.root), a.name \notin NetCDF
  PROVE  Explained(d, f, s, Item("", a.name, a.value))
<1> DEFINE item == Item("", a.name, a.value)
           n == a.name
<1>1. PICK version, now : s = SaveOf(f, version, now)
  BY DEF Resaving
<1>2. /\ DiskOK(d) /\ Described(d) /\ FileOK(f) /\ ExtrasFit(f) /\ OpenedAs(f, d)
  BY OpenOfAs DEF Resaving
<1>3. /\ SequenceOK(d.root) /\ Distinct(d.root) /\ SequenceOK(f.attributes)
      /\ AttributesFit(f.attributes, GlobalFields \cup NetCDF)
  BY <1>2 DEF DiskOK, FileOK, ExtrasFit
<1>4. /\ s.root = SavedRoot(f, version, now)
      /\ ToSet(SavedRoot(f, version, now)) =
              ToSet(FixedRoot(f, version, now)) \cup ToSet(SavedTexts(f))
              \cup ToSet(Optional("History", SavedHistory(f, version)))
              \cup ToSet(f.attributes) \cup ToSet(MissingGlobals(f))
              \cup {Attribute("_NCProperties", <<version>>)}
  BY <1>1, <1>3, SavedRootFits, SaveOfIs
<1>5. ASSUME NEW b \in ToSet(s.root), b.name = n, b.value = a.value
      PROVE  Explained(d, f, s, item)
  BY <1>5, ItemIn DEF Explained
<1>6. ValueOf(d.root, n) = a.value
  BY <1>3, ValueIn
<1>7. \A name, value : Attribute(name, value).name = name /\ Attribute(name, value).value = value
  BY DEF Attribute
<1>8. item.of = "" /\ item.what = n /\ item.value = a.value
  BY DEF Item
<1> SUFFICES Explained(d, f, s, item)
  OBVIOUS
<1> HIDE DEF item
<1>9. CASE n \notin GlobalFields
  <2>1. CASE a.value = Odd
    <3>1. <<"", n>> \in OddOnes("", d.root, GlobalFields \cup NetCDF)
      BY <1>9, <2>1 DEF OddOnes
    <3>2. f.dropped = Dropped(d, Opened(d))
      BY <1>2 DEF OpenedAs
    <3>3. <<"", n>> \in f.dropped
      BY <3>1, <3>2 DEF Dropped
    <3>4. QED
      BY <1>8, <3>3 DEF Explained, Reported
  <2>2. CASE a.value # Odd
    <3>1. a \in ToSet(KeptGlobals(d))
      BY <1>3, <1>9, <2>2, KeptGlobalsAre
    <3>2. a \in ToSet(f.attributes)
      BY <1>2, <3>1 DEF OpenedAs
    <3>3. a \in ToSet(s.root)
      BY <1>4, <3>2
    <3>4. QED
      BY <1>5, <3>3
  <2>3. QED
    BY <2>1, <2>2
<1>10. CASE n \in GlobalFields /\ a.value = <<>>
  BY <1>8, <1>10 DEF Explained, Overlooked
<1>11. CASE n \in {"DateModified", "APIName", "APIVersion", "History", "RoomVolume"}
  BY <1>8, <1>11 DEF Explained, Rewritten
<1>12. n # "RoomTemperature"
  BY <1>2, NamesAre DEF Described
<1>13. CASE n \in TextNames /\ a.value # <<>>
  <2>1. f.texts[n] = a.value
    BY <1>2, <1>6, <1>13 DEF OpenedAs, TextsOf, TextNames
  <2>2. SavedText(f, n) = a.value
    BY <1>13, <2>1 DEF SavedText
  <2>3. TextWritten(f, n)
    BY <1>13, <2>2 DEF TextWritten
  <2>4. Attribute(n, SavedText(f, n)) \in ToSet(SavedTexts(f))
    BY <1>13, <2>3, SavedTextsAre
  <2>5. Attribute(n, a.value) \in ToSet(s.root)
    BY <1>4, <2>2, <2>4
  <2>6. QED
    BY <1>5, <1>7, <2>5
<1>14. CASE n \in FixedNames \ {"DateModified", "APIName", "APIVersion"} /\ a.value # <<>>
  <2>1. /\ f.convention = ValueOf(d.root, "SOFAConventions")[1]
        /\ f.conventionVersion = ValueOf(d.root, "SOFAConventionsVersion")[1]
        /\ f.version = ValueOf(d.root, "Version")[1]
        /\ f.dataType = ValueOf(d.root, "DataType")[1]
        /\ f.roomType = ValueOf(d.root, "RoomType") /\ f.created = ValueOf(d.root, "DateCreated")
    BY <1>2 DEF OpenedAs
  <2>2. /\ ValueOf(d.root, "Conventions") = <<"SOFA">>
        /\ \A name \in {"Version", "SOFAConventions", "SOFAConventionsVersion", "DataType"} :
             ValueOf(d.root, name) = << ValueOf(d.root, name)[1] >>
    BY <1>2 DEF Described
  <2>3. /\ Attribute("Conventions", <<"SOFA">>) \in ToSet(s.root)
        /\ Attribute("Version", <<f.version>>) \in ToSet(s.root)
        /\ Attribute("SOFAConventions", <<f.convention>>) \in ToSet(s.root)
        /\ Attribute("SOFAConventionsVersion", <<f.conventionVersion>>) \in ToSet(s.root)
        /\ Attribute("DataType", <<f.dataType>>) \in ToSet(s.root)
        /\ Attribute("DateCreated", IF f.created = <<>> THEN now ELSE f.created) \in ToSet(s.root)
        /\ Attribute("RoomType", SavedRoomType(f)) \in ToSet(s.root)
    <3>1. ToSet(FixedRoot(f, version, now)) =
              { Attribute("Conventions", <<"SOFA">>),
                Attribute("Version", <<f.version>>),
                Attribute("SOFAConventions", <<f.convention>>),
                Attribute("SOFAConventionsVersion", <<f.conventionVersion>>),
                Attribute("DataType", <<f.dataType>>),
                Attribute("DateCreated", IF f.created = <<>> THEN now ELSE f.created),
                Attribute("DateModified", now),
                Attribute("APIName", <<"go-sofa">>),
                Attribute("APIVersion", <<version>>),
                Attribute("RoomType", SavedRoomType(f)) }
      BY FixedRootIs
    <3>2. \A b : b \in ToSet(FixedRoot(f, version, now)) => b \in ToSet(s.root)
      BY <1>4
    <3>3. QED
      BY <3>1, <3>2
  <2>4. Attribute(n, a.value) \in ToSet(s.root)
    <3>1. CASE n = "Conventions"
      BY <1>6, <2>2, <2>3, <3>1, Zenon
    <3>2. CASE n = "Version"
      BY <1>6, <2>1, <2>2, <2>3, <3>2
    <3>3. CASE n = "SOFAConventions"
      BY <1>6, <2>1, <2>2, <2>3, <3>3
    <3>4. CASE n = "SOFAConventionsVersion"
      BY <1>6, <2>1, <2>2, <2>3, <3>4
    <3>5. CASE n = "DataType"
      BY <1>6, <2>1, <2>2, <2>3, <3>5
    <3>6. CASE n = "DateCreated"
      BY <1>6, <1>14, <2>1, <2>3, <3>6
    <3>7. CASE n = "RoomType"
      <4>1. SavedRoomType(f) = f.roomType
        BY <1>6, <1>14, <2>1, <3>7 DEF SavedRoomType
      <4>2. QED
        BY <1>6, <2>1, <2>3, <3>7, <4>1
    <3>8. QED
      BY <1>14, <3>1, <3>2, <3>3, <3>4, <3>5, <3>6, <3>7 DEF FixedNames
  <2>5. QED
    BY <1>5, <1>7, <2>4
<1>15. n \in GlobalFields =>
         \/ n \in {"DateModified", "APIName", "APIVersion", "History", "RoomVolume"}
         \/ n = "RoomTemperature" \/ n \in TextNames
         \/ n \in FixedNames \ {"DateModified", "APIName", "APIVersion"}
  BY TextNamesNew
<1>16. QED
  BY <1>9, <1>10, <1>11, <1>12, <1>13, <1>14, <1>15

\* What is listed in Dropped.
LEMMA DroppedAre ==
  ASSUME NEW d, NEW f, NEW s, Resaving(d, f, s), NEW v \in ToSet(d.datasets)
  PROVE  /\ (v.name \notin DOMAIN WrittenVariables(f) /\ ~v.scale /\ v.form \notin {"numeric", "chars"})
              => <<v.name, "">> \in f.dropped
         /\ (v.name \notin DOMAIN WrittenVariables(f) /\ v.scale /\ KeptAttributes(v, {}) # <<>>)
              => <<v.name, "">> \in f.dropped
         /\ \A a \in ToSet(v.attrs) :
              a.value = Odd /\ a.name \notin Plumbing \cup OwnedOf(f, v)
              => <<v.name, a.name>> \in f.dropped \/ <<v.name, "">> \in f.dropped
<1> DEFINE o == Opened(d)
           w == WrittenVariables(f)
           lost == {u \in ScalesOf(d, o) : KeptAttributes(u, {}) # <<>>}
           odd(u) == OddOnes(u.name, u.attrs, Plumbing \cup OwnedOf(o, u))
           none == Unreadable(d, o)
           kept == ToSet(d.datasets) \ none
<1>1. DiskOK(d) /\ f = OpenOf(d) /\ SequenceOK(d.datasets)
  BY DEF Resaving, DiskOK
<1>2. WrittenVariables(o) = w
  BY <1>1, OpenedFields, SameWritten
<1>3. f.dropped = Dropped(d, o)
  BY <1>1, OpenOfAs DEF OpenedAs
<1>4. f.dropped = OddOnes("", d.root, GlobalFields \cup NetCDF)
                  \cup {<<u.name, "">> : u \in none \cup lost} \cup UNION {odd(u) : u \in kept}
  BY <1>3 DEF Dropped
<1>5. ToSet(Readable(d, o)) \subseteq {u \in ToSet(d.datasets) : u.form \in {"numeric", "chars"}}
  BY <1>1, ReadableAre
<1>6. Known(d, o) = {u \in ToSet(d.datasets) : u.name \in DOMAIN w}
  BY <1>2 DEF Known
<1>7. ScalesOf(d, o) = {u \in ToSet(d.datasets) \ Known(d, o) : u.scale}
  BY DEF ScalesOf
<1>8. none = ToSet(d.datasets) \ (Known(d, o) \cup ScalesOf(d, o) \cup ToSet(Readable(d, o)))
  BY DEF Unreadable
<1>9. OwnedOf(o, v) = OwnedOf(f, v)
  BY <1>2 DEF OwnedOf
<1>10. \A u \in none \cup lost : <<u.name, "">> \in f.dropped
  <2> HIDE DEF none, lost, odd, kept
  <2>1. QED
    BY <1>4
<1> HIDE DEF o, w, none
<1>11. ASSUME v.name \notin DOMAIN w, ~v.scale, v.form \notin {"numeric", "chars"}
       PROVE  <<v.name, "">> \in f.dropped
  <2>1. v \in none
    BY <1>5, <1>6, <1>7, <1>8, <1>11
  <2>2. QED
    BY <1>10, <2>1
<1>12. ASSUME v.name \notin DOMAIN w, v.scale, KeptAttributes(v, {}) # <<>>
       PROVE  <<v.name, "">> \in f.dropped
  <2>1. v \in lost
    BY <1>6, <1>7, <1>12
  <2>2. QED
    BY <1>10, <2>1
<1>13. ASSUME NEW a \in ToSet(v.attrs), a.value = Odd, a.name \notin Plumbing \cup OwnedOf(f, v)
       PROVE  <<v.name, a.name>> \in f.dropped \/ <<v.name, "">> \in f.dropped
  <2>1. CASE v \in none
    BY <1>10, <2>1
  <2>2. CASE v \notin none
    <3>1. <<v.name, a.name>> \in odd(v)
      BY <1>9, <1>13 DEF OddOnes
    <3>2. v \in kept
      BY <2>2
    <3> HIDE DEF odd, kept, lost
    <3>3. QED
      BY <1>4, <3>1, <3>2
  <2>3. QED
    BY <2>1, <2>2
<1>14. QED
  BY <1>11, <1>12, <1>13 DEF w

\* A variable that go-sofa does not interpret and can read is saved again.
LEMMA OtherKept ==
  ASSUME NEW d, NEW f, NEW s, Resaving(d, f, s), NEW v \in ToSet(d.datasets),
         v.name \notin DOMAIN WrittenVariables(f), ~v.scale, v.form \in {"numeric", "chars"}
  PROVE  \E w \in ToSet(s.datasets) :
           /\ w.name = v.name /\ w.data = v.data
           /\ Len(v.dims) = Len(v.shape) => w.dims = v.dims
           /\ ToSet(KeptAttributes(v, {})) \subseteq ToSet(w.attrs)
<1> DEFINE o == Opened(d)
           r == ReadVariable(v)
           u == OwnSaved(f, r)
           w == Attached(u)
<1>1. PICK version, now : s = SaveOf(f, version, now)
  BY DEF Resaving
<1>2. /\ DiskOK(d) /\ FileOK(f) /\ ExtrasFit(f) /\ f = OpenOf(d) /\ OpenedAs(f, d)
      /\ SequenceOK(d.datasets) /\ VariableOK(v)
  BY OpenOfAs DEF Resaving, DiskOK
<1>3. v \notin Known(d, o) \cup ScalesOf(d, o)
  <2>1. WrittenVariables(o) = WrittenVariables(f)
    BY <1>2, OpenedFields, SameWritten
  <2>2. QED
    BY <2>1 DEF Known, ScalesOf
<1>4. v \in ToSet(Readable(d, o))
  BY <1>2, <1>3, ReadableAre
<1>5. f.variables = ReadVariables(d, o)
  BY <1>2 DEF OpenedAs
<1> HIDE DEF o
<1>6. r \in ToSet(f.variables)
  <2> DEFINE l == Readable(d, o)
  <2>1. ReadVariables(d, o) = [i \in DOMAIN l |-> ReadVariable(l[i])]
    BY DEF ReadVariables
  <2>2. PICK i \in DOMAIN l : l[i] = v
    BY <1>4 DEF ToSet
  <2> HIDE DEF l, r
  <2>3. f.variables[i] = ReadVariable(l[i]) /\ i \in DOMAIN f.variables
    BY <1>5, <2>1
  <2>4. f.variables[i] = r
    BY <2>2, <2>3 DEF r
  <2>5. QED
    BY <2>3, <2>4 DEF ToSet
<1>7. IsVariable(r) /\ VariableOK(r)
  BY <1>2, ReadVariableOK DEF IsVariable
<1>8. /\ r.name = v.name /\ r.data = v.data /\ r.attrs = KeptAttributes(v, {})
      /\ Len(v.dims) = Len(v.shape) => r.dims = v.dims
  BY DEF ReadVariable, Variable
<1> HIDE DEF r
<1>9. u \in ToSet(SavedVariables(f))
  BY <1>2, <1>6, SavedVariablesAre
<1>10. /\ IsVariable(u)
       /\ u = Variable(r.name, r.dims, r.shape, r.form, r.data, WithMandatory(f, r.name, r.attrs))
  BY <1>7, CompletedIs DEF OwnSaved
<1>11. /\ u.name = r.name /\ u.data = r.data /\ u.dims = r.dims
       /\ u.attrs = WithMandatory(f, r.name, r.attrs)
  BY <1>10 DEF Variable
<1>12. ToSet(r.attrs) \subseteq ToSet(u.attrs) /\ SequenceOK(u.attrs)
  BY <1>7, <1>11, MandatoryFits DEF VariableOK
<1> HIDE DEF u
<1>13. /\ w.name = u.name /\ w.data = u.data /\ w.dims = u.dims
       /\ w.attrs = IF u.dims = <<>> THEN u.attrs
                    ELSE Append(u.attrs, Attribute("DIMENSION_LIST", u.dims))
  BY <1>10, AttachedIs
<1>14. w \in ToSet(s.datasets)
  <2>1. w \in {Attached(x) : x \in ToSet(SavedVariables(f))}
    BY <1>9
  <2> HIDE DEF w
  <2>2. w \in ToSet(SavedDatasets(f))
    BY <1>2, <2>1, SavedDatasetsFit
  <2>3. QED
    BY <1>1, <2>2, SaveOfIs
<1> HIDE DEF w
<1>15. ToSet(u.attrs) \subseteq ToSet(w.attrs)
  <2>1. CASE u.dims = <<>>
    BY <1>13, <2>1
  <2>2. CASE u.dims # <<>>
    <3>1. w.attrs = Append(u.attrs, Attribute("DIMENSION_LIST", u.dims))
      BY <1>13, <2>2
    <3>2. ToSet(w.attrs) = ToSet(u.attrs) \cup {Attribute("DIMENSION_LIST", u.dims)}
      BY <1>12, <3>1, Appended
    <3>3. QED
      BY <3>2
  <2>3. QED
    BY <2>1, <2>2
<1>16. QED
  BY <1>8, <1>11, <1>12, <1>13, <1>14, <1>15

\* What becomes of the data of a dataset.
LEMMA DataExplained ==
  ASSUME NEW d, NEW f, NEW s, Resaving(d, f, s), NEW v \in ToSet(d.datasets)
  PROVE  Explained(d, f, s, Item(v.name, "data", v.data))
<1> DEFINE item == Item(v.name, "data", v.data)
           n == v.name
<1>1. PICK version, now : s = SaveOf(f, version, now)
  BY DEF Resaving
<1>2. /\ DiskOK(d) /\ Described(d) /\ FileOK(f) /\ ExtrasFit(f) /\ OpenedAs(f, d)
  BY OpenOfAs DEF Resaving
<1>3. /\ SequenceOK(d.datasets) /\ Distinct(d.datasets) /\ HasDataset(d, n) /\ DatasetOf(d, n) = v
      /\ f.dataType \in Types /\ f.dataType = ValueOf(d.root, "DataType")[1]
  BY <1>2, DatasetIn DEF DiskOK, FileOK, OpenedAs
<1>4. s.datasets = SavedDatasets(f)
  BY <1>1, SaveOfIs
<1>5. ASSUME NEW w \in ToSet(SavedDatasets(f)), w.name = n, w.data = v.data
      PROVE  Explained(d, f, s, item)
  BY <1>4, <1>5, ItemIn DEF Explained
<1>6. item.of = n /\ item.what = "data" /\ item.value = v.data
  BY DEF Item
<1> SUFFICES Explained(d, f, s, item)
  OBVIOUS
<1> HIDE DEF item
<1>7. /\ n \in Interpreted(f.dataType) => v.data = <<"given">>
      /\ n \in {"EmitterPosition", "ListenerView", "ListenerUp"} => v.data # <<>>
  BY <1>2, <1>3 DEF Described
<1>8. CASE n \in ToSet(Dimensions)
  <2>1. CASE Frequencies(f, n)
    <3>1. ScaleOf(f, n).data = <<"given">> /\ ScaleOf(f, n).name = n
      BY <1>2, <2>1, ScaleFits
    <3>2. ScaleOf(f, n) \in ToSet(SavedDatasets(f))
      BY <1>2, <1>8, SavedDatasetsFit, SavedDimensionsAre
    <3>3. v.data = <<"given">>
      BY <1>3, <1>7, <1>8, <2>1, InterpretedIs
    <3>4. QED
      BY <1>5, <3>1, <3>2, <3>3
  <2>2. CASE ~Frequencies(f, n)
    BY <1>6, <1>8, <2>2 DEF Explained, Overlooked, Frequencies
  <2>3. QED
    BY <2>1, <2>2
<1>9. CASE n \in DOMAIN WrittenVariables(f) \ ToSet(Dimensions)
  <2>1. PICK w \in ToSet(OwnedVariables(f)) : w.name = n
    <3>1. n \in Names(OwnedVariables(f))
      BY <1>2, <1>9, OwnedVariablesFit
    <3>2. QED
      BY <3>1, NamesAre
  <2>2. w \in ToSet(SavedDatasets(f))
    BY <1>2, <2>1, SavedDatasetsFit
  <2>3. /\ n \in Interpreted(f.dataType) => w.data = <<"given">>
        /\ n = "EmitterPosition" => w.data = Or(f.emitters, "[0 0 0]")
        /\ n = "ListenerUp" => w.data = Or(f.up, "+z")
        /\ n = "ListenerView" => w.data = Or(f.view, "+x")
        /\ n = "RoomVolume" => w.data = <<f.roomVolume>>
    BY <1>2, <2>1, OwnedData
  <2>4. CASE n \in Interpreted(f.dataType)
    BY <1>5, <1>7, <2>1, <2>2, <2>3, <2>4
  <2>5. CASE n \in {"EmitterPosition", "ListenerView", "ListenerUp"}
    <3>1. /\ n = "EmitterPosition" => f.emitters = v.data
          /\ n = "ListenerUp" => f.up = v.data
          /\ n = "ListenerView" => f.view = v.data
      BY <1>2, <1>3 DEF OpenedAs, DataOf
    <3>2. \A value, default : value # <<>> => Or(value, default) = value
      BY DEF Or
    <3>3. w.data = v.data
      BY <1>7, <2>3, <2>5, <3>1, <3>2
    <3>4. QED
      BY <1>5, <2>1, <2>2, <3>3
  <2>6. CASE n = "RoomVolume" /\ HasNumbers(v) /\ v.data = << v.data[1] >>
    <3>1. f.roomVolume = v.data[1]
      BY <1>2, <1>3, <2>6 DEF OpenedAs, RoomVolumeOf
    <3>2. QED
      BY <1>5, <2>1, <2>2, <2>3, <2>6, <3>1
  <2>7. CASE n = "RoomVolume" /\ ~(HasNumbers(v) /\ v.data = << v.data[1] >>)
    BY <1>6, <2>7 DEF Explained, Overlooked
  <2>8. n \in Interpreted(f.dataType) \cup {"EmitterPosition", "ListenerView", "ListenerUp", "RoomVolume"}
    <3>1. DOMAIN WrittenVariables(f) =
            {"ListenerPosition", "ReceiverPosition", "SourcePosition", "EmitterPosition",
             "ListenerView", "ListenerUp"}
            \cup AudioNames(f) \cup (IF f.roomVolume = "0" THEN {} ELSE {"RoomVolume"})
            \cup ToSet(Dimensions)
      BY WrittenIs DEF AudioNames, SamplesName, Positions
    <3>2. /\ {"ListenerPosition", "ReceiverPosition", "SourcePosition"} \subseteq Interpreted(f.dataType)
          /\ AudioNames(f) \subseteq Interpreted(f.dataType)
      BY <1>3, InterpretedIs
    <3>3. QED
      BY <1>9, <3>1, <3>2
  <2>9. QED
    BY <2>4, <2>5, <2>6, <2>7, <2>8
<1>10. CASE n \notin DOMAIN WrittenVariables(f) /\ v.scale
  <2>1. n # "N"
    <3>1. ToSet(Dimensions) \subseteq DOMAIN WrittenVariables(f)
      BY WrittenIs
    <3>2. QED
      BY <1>10, <3>1, DimensionsAre
  <2>2. QED
    BY <1>6, <1>10, <2>1 DEF Explained, Overlooked
<1>11. CASE n \notin DOMAIN WrittenVariables(f) /\ ~v.scale
  <2>1. CASE v.form \in {"numeric", "chars"}
    <3>1. \E w \in ToSet(s.datasets) : w.name = n /\ w.data = v.data
      BY <1>11, <2>1, OtherKept
    <3>2. QED
      BY <1>4, <1>5, <3>1
  <2>2. CASE v.form \notin {"numeric", "chars"}
    <3>1. <<n, "">> \in f.dropped
      BY <1>11, <2>2, DroppedAre
    <3>2. QED
      BY <1>6, <3>1 DEF Explained, Reported
  <2>3. QED
    BY <2>1, <2>2
<1>12. QED
  BY <1>8, <1>9, <1>10, <1>11

\* What becomes of its labels.
LEMMA LabelsExplained ==
  ASSUME NEW d, NEW f, NEW s, Resaving(d, f, s), NEW v \in ToSet(d.datasets),
         v.name \notin DOMAIN WrittenVariables(f)
  PROVE  Explained(d, f, s, Item(v.name, "dims", v.dims))
<1> DEFINE item == Item(v.name, "dims", v.dims)
<1>1. /\ item.of = v.name /\ item.what = "dims"
      /\ \A w \in ToSet(s.datasets) :
           w.name = v.name /\ w.dims = v.dims => item \in Items(s, f)
  BY ItemIn DEF Item
<1> SUFFICES Explained(d, f, s, item)
  OBVIOUS
<1> HIDE DEF item
<1>2. Len(v.dims) <= Len(v.shape) /\ Len(v.dims) \in Nat /\ Len(v.shape) \in Nat
  <2>1. VariableOK(v) /\ Len(v.dims) <= Len(v.shape)
    BY DEF Resaving, DiskOK, Described
  <2>2. QED
    BY <2>1, ListIs DEF VariableOK
<1>3. CASE v.scale \/ Len(v.dims) < Len(v.shape)
  BY <1>1, <1>3 DEF Explained, Overlooked
<1>4. CASE ~v.scale /\ Len(v.dims) = Len(v.shape) /\ v.form \in {"numeric", "chars"}
  <2>1. \E w \in ToSet(s.datasets) : w.name = v.name /\ w.dims = v.dims
    BY <1>4, OtherKept
  <2>2. QED
    BY <1>1, <2>1 DEF Explained
<1>5. CASE ~v.scale /\ v.form \notin {"numeric", "chars"}
  <2>1. <<v.name, "">> \in f.dropped
    BY <1>5, DroppedAre
  <2>2. QED
    BY <1>1, <2>1 DEF Explained, Reported
<1>6. QED
  BY <1>2, <1>3, <1>4, <1>5

\* What becomes of its attributes.
LEMMA AttributeExplained ==
  ASSUME NEW d, NEW f, NEW s, Resaving(d, f, s), NEW v \in ToSet(d.datasets),
         NEW a \in ToSet(v.attrs), a.name \notin Plumbing
  PROVE  Explained(d, f, s, Item(v.name, a.name, a.value))
<1> DEFINE item == Item(v.name, a.name, a.value)
           n == v.name
           w == WrittenVariables(f)
<1>1. PICK version, now : s = SaveOf(f, version, now)
  BY DEF Resaving
<1>2. /\ DiskOK(d) /\ FileOK(f) /\ ExtrasFit(f) /\ f = OpenOf(d) /\ OpenedAs(f, d)
      /\ SequenceOK(v.attrs) /\ Distinct(d.datasets) /\ s.datasets = SavedDatasets(f)
  BY <1>1, OpenOfAs, SaveOfIs DEF Resaving, DiskOK, VariableOK
<1>3. ASSUME NEW u \in ToSet(s.datasets), u.name = n, a \in ToSet(u.attrs)
      PROVE  Explained(d, f, s, item)
  BY <1>3, ItemIn DEF Explained
<1>4. item.of = n /\ item.what = a.name
  BY DEF Item
<1> SUFFICES Explained(d, f, s, item)
  OBVIOUS
<1> HIDE DEF item
<1>5. ASSUME <<n, a.name>> \in f.dropped \/ <<n, "">> \in f.dropped
      PROVE  Explained(d, f, s, item)
  BY <1>4, <1>5 DEF Explained, Reported
<1>6. CASE n \in DOMAIN w /\ a.name \in w[n]
  BY <1>4, <1>6 DEF Explained, Rewritten
<1>7. CASE a.value = Odd /\ a.name \notin OwnedOf(f, v)
  BY <1>5, <1>7, DroppedAre
<1>8. CASE n \in DOMAIN w /\ a.name \notin w[n] /\ a.value # Odd
  <2>1. a \in ToSet(KeptAttributes(v, w[n]))
    BY <1>2, <1>8, KeptIs
  <2>2. a \in ToSet(Given(f, n))
    <3> DEFINE o == Opened(d)
    <3>1. WrittenVariables(o) = w /\ f.variableAttributes = ReadAttributes(d, o)
      BY <1>2, OpenedFields, SameWritten DEF OpenedAs
    <3> HIDE DEF o
    <3>2. DatasetOf(d, n) = v
      BY <1>2, DatasetIn
    <3>3. KeptAttributes(v, w[n]) # <<>>
      BY <2>1, EmptyList
    <3>4. v \in Attributed(d, o)
      BY <1>8, <3>1, <3>3 DEF Attributed, Known, OwnedOf
    <3>5. /\ n \in DOMAIN f.variableAttributes
          /\ f.variableAttributes[n] = KeptAttributes(DatasetOf(d, n), w[n])
      BY <3>1, <3>4 DEF ReadAttributes
    <3>6. Given(f, n) = KeptAttributes(v, w[n])
      BY <3>2, <3>5 DEF Given
    <3>7. QED
      BY <2>1, <3>6
  <2>3. a \in ToSet(SavedAttributes(f, n))
    <3>1. SequenceOK(Given(f, n))
      BY <1>2, GivenFits
    <3>2. ToSet(Given(f, n)) \subseteq ToSet(WithMandatory(f, n, Given(f, n)))
      BY <3>1, MandatoryFits
    <3>3. QED
      BY <2>2, <3>2 DEF SavedAttributes
  <2>4. CASE n \in ToSet(Dimensions)
    <3>1. ScaleOf(f, n) \in ToSet(s.datasets)
      BY <1>2, <2>4, SavedDatasetsFit, SavedDimensionsAre
    <3>2. ScaleOf(f, n).name = n /\ a \in ToSet(ScaleOf(f, n).attrs)
      <4>1. /\ ScaleOf(f, n).name = n
            /\ ToSet(ScaleOf(f, n).attrs) = ToSet(ScaleOwn(f, n)) \cup ToSet(SavedAttributes(f, n))
        BY <1>2, ScaleFits
      <4>2. QED
        BY <2>3, <4>1
    <3>3. QED
      BY <1>3, <3>1, <3>2
  <2>5. CASE n \notin ToSet(Dimensions)
    <3>1. PICK u \in ToSet(OwnedVariables(f)) : u.name = n
      <4>1. n \in Names(OwnedVariables(f))
        BY <1>2, <1>8, <2>5, OwnedVariablesFit
      <4>2. QED
        BY <4>1, NamesAre
    <3>2. Labelled(f, u) /\ u \in ToSet(s.datasets)
      BY <1>2, <3>1, OwnedVariablesFit, SavedDatasetsFit DEF OwnFits
    <3>3. a \in ToSet(u.attrs)
      BY <2>3, <3>1, <3>2 DEF Labelled
    <3>4. QED
      BY <1>3, <3>1, <3>2, <3>3
  <2>6. QED
    BY <2>4, <2>5
<1>9. CASE n \notin DOMAIN w /\ a.value # Odd
  <2>1. a \in ToSet(KeptAttributes(v, {}))
    BY <1>2, <1>9, KeptIs
  <2>2. CASE v.scale
    <3>1. KeptAttributes(v, {}) # <<>>
      BY <2>1, EmptyList
    <3>2. QED
      BY <1>5, <1>9, <2>2, <3>1, DroppedAre
  <2>3. CASE ~v.scale /\ v.form \in {"numeric", "chars"}
    <3>1. \E u \in ToSet(s.datasets) : u.name = n /\ ToSet(KeptAttributes(v, {})) \subseteq ToSet(u.attrs)
      BY <1>9, <2>3, OtherKept
    <3>2. QED
      BY <1>3, <2>1, <3>1
  <2>4. CASE ~v.scale /\ v.form \notin {"numeric", "chars"}
    BY <1>5, <1>9, <2>4, DroppedAre
  <2>5. QED
    BY <2>2, <2>3, <2>4
<1>10. QED
  BY <1>6, <1>7, <1>8, <1>9 DEF OwnedOf

LEMMA OnlyKnown == Inv /\ DiskDescribed => OnlyKnownLosses
<1> SUFFICES ASSUME Inv, DiskDescribed, Resavable(disk), NEW item \in Lost(disk, OpenOf(disk))
             PROVE  LET f == OpenOf(disk)
                    IN  Reported(f, item) \/ Rewritten(f, item) \/ Overlooked(disk, f, item)
  BY DEF OnlyKnownLosses
<1> DEFINE f == OpenOf(disk)
           s == Saved(f)
<1>1. Resaving(disk, f, s)
  <2>1. DiskOK(disk) /\ Described(disk) /\ ExtrasFit(f)
    BY DEF Resavable, Inv, DiskDescribed, Valid
  <2>2. FileOK(f)
    BY <2>1, OpenedOK
  <2>3. \E version, now : s = SaveOf(f, version, now)
    BY DEF Saved
  <2>4. QED
    BY <2>1, <2>2, <2>3 DEF Resaving
<1>2. item \in Items(disk, f) /\ item \notin Items(s, f)
  BY DEF Lost
<1> HIDE DEF f, s
<1>3. Explained(disk, f, s, item)
  <2>1. CASE OfRoot(disk, item)
    BY <1>1, <2>1, RootExplained DEF OfRoot
  <2>2. CASE OfData(disk, item)
    BY <1>1, <2>2, DataExplained DEF OfData
  <2>3. CASE OfLabels(disk, f, item)
    BY <1>1, <2>3, LabelsExplained DEF OfLabels
  <2>4. CASE OfAttributes(disk, item)
    BY <1>1, <2>4, AttributeExplained DEF OfAttributes
  <2>5. QED
    BY <1>2, <2>1, <2>2, <2>3, <2>4, ItemOf
<1>4. QED
  BY <1>2, <1>3 DEF Explained, f

\* Opening any file and saving it again loses no more than what Dropped lists,
\* what Save writes itself and what Overlooked names: whatever other programs
\* write, and after any edits and any saves (read, readExtras and writeHDF5).
THEOREM LossesAreKnown == Spec => []OnlyKnownLosses
<1>1. Init => DiskDescribed
  BY DescribedInit
<1>2. Inv /\ DiskDescribed /\ [Next]_vars => DiskDescribed'
  BY DescribedStep
<1>3. Inv /\ DiskDescribed => OnlyKnownLosses
  BY OnlyKnown
<1>4. QED
  BY <1>1, <1>2, <1>3, MetadataInvariant, PTL DEF Spec
=============================================================================
