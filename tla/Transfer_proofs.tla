--------------------------- MODULE Transfer_proofs ---------------------------
(***************************************************************************)
(* Proofs about Transfer: what is sent, for any number of senders, of      *)
(* writes and of calls, whatever the writer accepts; what is read, for any *)
(* stored file and any limits; and that what was sent is read again.       *)
(***************************************************************************)
EXTENDS Transfer, StoredData_proofs

-----------------------------------------------------------------------------
(* WriteTo.                                                                *)

\* Before the first call nothing is committed.
LEMMA SendInit == InitSend => SendInv
  BY FilesGiven, WritesGiven
     DEF InitSend, SendInv, SendTypeOK, Committed, Places

\* No step of a call hands over what is not committed.
LEMMA SendStep == SendInv /\ [SendNext]_sendVars => SendInv'
<1> SUFFICES ASSUME SendInv, [SendNext]_sendVars PROVE SendInv'
  OBVIOUS
<1>. USE FilesGiven, PiecesGiven, WritesGiven
     DEF SendInv, SendTypeOK, Committed, Places, Goto, Return, sink
<1>1. ASSUME NEW s \in Senders, Begin(s) PROVE SendInv'
  BY <1>1 DEF Begin, Fresh
<1>2. ASSUME NEW s \in Senders, Create(s) PROVE SendInv'
  <2>1. /\ pc[s] = "create" /\ UNCHANGED <<file, written, err, committed, n, handed>>
        /\ \/ pc' = [pc EXCEPT ![s] = "encode"] /\ result' = result
           \/ pc' = [pc EXCEPT ![s] = "idle"] /\ result' = [result EXCEPT ![s] = "error"]
    BY <1>2 DEF Create
  <2>2. SendTypeOK'
    BY <2>1
  <2>3. Committed'
    BY <2>1
  <2>4. QED
    BY <2>2, <2>3
<1>3. ASSUME NEW s \in Senders, Encode(s) PROVE SendInv'
  <2>1. /\ pc[s] = "encode" /\ written[s] < Writes
        /\ UNCHANGED <<file, committed, n, result, handed>>
        /\ \/ written' = [written EXCEPT ![s] = @ + 1] /\ pc' = pc /\ err' = err
           \/ written' = written /\ pc' = [pc EXCEPT ![s] = "close"] /\ err' = [err EXCEPT ![s] = TRUE]
    BY <1>3 DEF Encode
  <2>2. ~committed[s]
    BY <2>1
  <2>3. SendTypeOK'
    <3>1. err' \in [Senders -> BOOLEAN]
      BY <2>1, Zenon
    <3>2. written' \in [Senders -> 0..Writes]
      BY <2>1
    <3>3. pc' \in [Senders -> Places]
      BY <2>1
    <3>4. QED
      BY <2>1, <3>1, <3>2, <3>3, Zenon
  <2>4. Committed'
    BY <2>1, <2>2
  <2>5. QED
    BY <2>3, <2>4
<1>4. ASSUME NEW s \in Senders, Commit(s) PROVE SendInv'
  <2>1. /\ pc[s] = "encode" /\ written[s] = Writes
        /\ committed' = [committed EXCEPT ![s] = TRUE]
        /\ pc' = [pc EXCEPT ![s] = "close"]
        /\ UNCHANGED <<file, written, err, n, result, handed>>
    BY <1>4 DEF Commit
  <2>2. ~err[s]
    BY <2>1
  <2>3. SendTypeOK'
    BY <2>1, Zenon
  <2>4. Committed'
    BY <2>1, <2>2
  <2>5. QED
    BY <2>3, <2>4
<1>5. ASSUME NEW s \in Senders, CloseFails(s) PROVE SendInv'
  BY <1>5 DEF CloseFails, Closed, AfterClose
<1>6. ASSUME NEW s \in Senders, Discard(s) PROVE SendInv'
  BY <1>6 DEF Discard, Closed, AfterClose
<1>7. ASSUME NEW s \in Senders, HandOver(s) PROVE SendInv'
  <2>1. PICK k \in {j \in Pieces : j < file[s].bytes} \cup {file[s].bytes}, failed \in BOOLEAN :
          /\ k < file[s].bytes => failed
          /\ n' = [n EXCEPT ![s] = @ + Accepted(s, k)]
          /\ handed' = [handed EXCEPT ![s] = k]
          /\ Closed(s, failed)
    BY <1>7 DEF HandOver
  <2>2. k \in Nat /\ file[s].bytes \in Nat
    OBVIOUS
  <2>3. pc[s] = "close" /\ committed[s] /\ n[s] = 0
    BY <1>7 DEF HandOver
  <2>4. UNCHANGED <<file, written, err, committed, calls>>
    BY <1>7 DEF HandOver
  <2>5. result' = [result EXCEPT ![s] = IF err[s] \/ failed THEN "error" ELSE "ok"]
        /\ pc' = [pc EXCEPT ![s] = "idle"]
    BY <2>1 DEF Closed, AfterClose
  <2>6. n' = [n EXCEPT ![s] = k]
    BY <2>1, <2>2, <2>3 DEF Accepted
  <2>7. SendTypeOK'
    BY <2>1, <2>2, <2>4, <2>5, <2>6
  <2>8. Committed'
    BY <2>1, <2>2, <2>3, <2>4, <2>5, <2>6
  <2>9. QED
    BY <2>7, <2>8
<1>8. CASE UNCHANGED sendVars
  BY <1>8 DEF sendVars
<1>9. QED
  BY <1>1, <1>2, <1>3, <1>4, <1>5, <1>6, <1>7, <1>8 DEF SendNext, Send

\* The senders alone keep their invariant.
THEOREM SendInvariant == SpecSend => []SendInv
  BY SendInit, SendStep, PTL DEF SpecSend

\* A file that was not encoded to its end leaves the writer untouched.
THEOREM CommitsFirst == SpecSend => []NothingBeforeCommit
<1>1. SendInv => NothingBeforeCommit
  BY DEF SendInv, Committed, NothingBeforeCommit
<1>2. QED
  BY <1>1, SendInvariant, PTL

\* The error and the count WriteTo returns say what the writer has got.
THEOREM Honest == SpecSend => []HonestReturn
<1>1. SendInv => HonestReturn
  BY DEF SendInv, Committed, HonestReturn
<1>2. QED
  BY <1>1, SendInvariant, PTL

-----------------------------------------------------------------------------
(* What read does, in order.                                               *)

\* l lists the elements of S, each once.
Lists(l, S) ==
  /\ l \in Seq(S)
  /\ \A x \in S : \E i \in 1..Len(l) : l[i] = x
  /\ \A i, j \in 1..Len(l) : l[i] = l[j] => i = j

\* A concatenation, element by element.
LEMMA Concatenated ==
  ASSUME NEW S, NEW T, NEW s \in Seq(S), NEW t \in Seq(T)
  PROVE  /\ s \o t \in Seq(S \cup T) /\ Len(s \o t) = Len(s) + Len(t)
         /\ \A i \in 1..Len(s) : (s \o t)[i] = s[i]
         /\ \A i \in 1..Len(t) : (s \o t)[Len(s) + i] = t[i]
<1>1. s \in Seq(S \cup T) /\ t \in Seq(S \cup T)
  <2>1. S \subseteq S \cup T /\ T \subseteq S \cup T
    OBVIOUS
  <2>2. QED
    BY <2>1, SeqMonotonic
<1>2. QED
  BY <1>1

\* Lists of other elements may be put together.
LEMMA ListsTogether ==
  ASSUME NEW S, NEW T, \A x \in S : x \notin T, NEW s, NEW t, Lists(s, S), Lists(t, T)
  PROVE  Lists(s \o t, S \cup T)
<1> DEFINE a == Len(s)
           b == Len(t)
           c == s \o t
<1>1. /\ s \in Seq(S) /\ \A x \in S : \E i \in 1..a : s[i] = x
      /\ \A i, j \in 1..a : s[i] = s[j] => i = j
  BY DEF Lists
<1>2. /\ t \in Seq(T) /\ \A x \in T : \E i \in 1..b : t[i] = x
      /\ \A i, j \in 1..b : t[i] = t[j] => i = j
  BY DEF Lists
<1>3. /\ c \in Seq(S \cup T) /\ Len(c) = a + b
      /\ \A i \in 1..a : c[i] = s[i]
      /\ \A i \in 1..b : c[a + i] = t[i]
  BY <1>1, <1>2, Concatenated
<1>4. /\ a \in Nat /\ b \in Nat
      /\ \A i \in 1..a : s[i] \in S
      /\ \A i \in 1..b : t[i] \in T
  BY <1>1, <1>2
<1> HIDE DEF a, b, c
<1>5. \A x \in S \cup T : \E i \in 1..Len(c) : c[i] = x
  <2>1. ASSUME NEW x \in S PROVE \E i \in 1..Len(c) : c[i] = x
    <3>1. PICK i \in 1..a : s[i] = x
      BY <1>1
    <3>2. i \in 1..Len(c) /\ c[i] = x
      BY <1>3, <1>4, <3>1
    <3>3. QED
      BY <3>2
  <2>2. ASSUME NEW x \in T PROVE \E i \in 1..Len(c) : c[i] = x
    <3>1. PICK i \in 1..b : t[i] = x
      BY <1>2
    <3>2. a + i \in 1..Len(c) /\ c[a + i] = x
      BY <1>3, <1>4, <3>1
    <3>3. QED
      BY <3>2
  <2>3. QED
    BY <2>1, <2>2
<1>6. ASSUME NEW i \in 1..Len(c)
      PROVE  \/ i \in 1..a /\ c[i] = s[i] /\ c[i] \in S
             \/ i - a \in 1..b /\ c[i] = t[i - a] /\ c[i] \in T
  <2>1. CASE i <= a
    BY <1>3, <1>4, <2>1
  <2>2. CASE i > a
    <3>1. i - a \in 1..b /\ a + (i - a) = i
      BY <1>3, <1>4, <2>2
    <3>2. c[i] = t[i - a]
      BY <1>3, <3>1
    <3>3. QED
      BY <1>4, <3>1, <3>2
  <2>3. QED
    BY <1>4, <2>1, <2>2
<1>7. \A i, j \in 1..Len(c) : c[i] = c[j] => i = j
  <2>1. TAKE i, j \in 1..Len(c)
  <2>2. HAVE c[i] = c[j]
  <2>3. CASE c[i] \in S
    <3>1. i \in 1..a /\ c[i] = s[i] /\ j \in 1..a /\ c[j] = s[j]
      BY <1>6, <2>2, <2>3
    <3>2. QED
      BY <1>1, <2>2, <3>1
  <2>4. CASE c[i] \in T
    <3>1. i - a \in 1..b /\ c[i] = t[i - a] /\ j - a \in 1..b /\ c[j] = t[j - a]
      BY <1>6, <2>2, <2>4
    <3>2. i - a = j - a
      BY <1>2, <2>2, <3>1
    <3>3. i \in Int /\ j \in Int /\ a \in Int
      BY <1>4, <1>3
    <3>4. QED
      BY <3>2, <3>3
  <2>5. QED
    BY <1>6, <2>3, <2>4
<1>8. QED
  BY <1>3, <1>5, <1>7 DEF Lists, c

\* A finite set may be listed in any order.
LEMMA AnyList ==
  ASSUME NEW S, IsFiniteSet(S)
  PROVE  Lists(SetToSeq(S), S)
<1> DEFINE len == Cardinality(S)
           l == SetToSeq(S)
<1>1. len \in Nat /\ ExistsBijection(1..len, S)
  BY FS_CardinalityType
<1>2. \E f \in [1..len -> S] : IsInjective(f)
  BY <1>1 DEF ExistsBijection, Bijection, Injection
<1>3. l \in [1..len -> S] /\ IsInjective(l)
  BY <1>2 DEF SetToSeq
<1>4. IsFiniteSet(1..len) /\ Cardinality(1..len) = len
  BY <1>1, FS_Interval
<1> HIDE DEF l
<1>5. l \in Injection(1..len, S)
  BY <1>3 DEF Injection
<1>6. l \in Surjection(1..len, S)
  BY <1>4, <1>5, FS_Injection
<1>7. \A x \in S : \E i \in 1..len : l[i] = x
  BY <1>6 DEF Surjection
<1>8. l \in Seq(S) /\ Len(l) = len
  BY <1>1, <1>3
<1>9. \A i, j \in 1..len : l[i] = l[j] => i = j
  BY <1>3 DEF IsInjective
<1>10. QED
  BY <1>7, <1>8, <1>9 DEF Lists, l

\* The steps of one kind.
Steps(what, names) == {[do |-> what, var |-> v] : v \in names}

\* What kind of step and whose they are.
LEMMA StepsAre ==
  ASSUME NEW what, NEW names, NEW x \in Steps(what, names)
  PROVE  x.do = what /\ x.var \in names
BY DEF Steps

\* Each lists one step for each variable.
LEMMA EachLists ==
  ASSUME NEW what, NEW names, NEW V, Lists(names, V)
  PROVE  Lists(Each(what, names), Steps(what, V)) /\ Len(Each(what, names)) = Len(names)
<1> DEFINE l == Each(what, names)
           len == Len(names)
<1>1. names \in Seq(V) /\ len \in Nat /\ DOMAIN names = 1..len
  BY DEF Lists
<1>2. l = [i \in 1..len |-> [do |-> what, var |-> names[i]]]
  BY <1>1 DEF Each
<1>3. /\ \A x \in V : \E i \in 1..len : names[i] = x
      /\ \A i, j \in 1..len : names[i] = names[j] => i = j
      /\ \A i \in 1..len : names[i] \in V
  BY <1>1 DEF Lists
<1> HIDE DEF l, len
<1>4. \A i \in 1..len : l[i] = [do |-> what, var |-> names[i]]
  BY <1>2
<1>5. \A i \in 1..len : l[i] \in Steps(what, V)
  BY <1>3, <1>4 DEF Steps
<1>6. l \in Seq(Steps(what, V)) /\ Len(l) = len
  <2>1. l \in [1..len -> Steps(what, V)]
    BY <1>2, <1>5
  <2>2. QED
    BY <1>1, <2>1
<1>7. \A x \in Steps(what, V) : \E i \in 1..len : l[i] = x
  BY <1>3, <1>4 DEF Steps
<1>8. \A i, j \in 1..len : l[i] = l[j] => i = j
  <2>1. ASSUME NEW i \in 1..len PROVE l[i].var = names[i]
    <3>1. l[i] = [do |-> what, var |-> names[i]]
      BY <1>4
    <3>2. QED
      BY <3>1
  <2>2. QED
    BY <1>3, <2>1
<1>9. QED
  BY <1>6, <1>7, <1>8 DEF Lists, l, len

\* A list of different elements lists its range.
LEMMA ListsItsRange ==
  ASSUME NEW T, NEW l \in Seq(T), \A i, j \in 1..Len(l) : l[i] = l[j] => i = j
  PROVE  Lists(l, Range(l))
<1>1. DOMAIN l = 1..Len(l) /\ Len(l) \in Nat
  OBVIOUS
<1>2. \A x \in Range(l) : \E i \in 1..Len(l) : l[i] = x
  BY <1>1 DEF Range
<1>3. \A i \in 1..Len(l) : l[i] \in Range(l)
  BY <1>1 DEF Range
<1>4. l \in Seq(Range(l))
  <2>1. l = [i \in 1..Len(l) |-> l[i]]
    BY <1>1
  <2>2. l \in [1..Len(l) -> Range(l)]
    BY <1>3, <2>1
  <2>3. QED
    BY <1>1, <2>2
<1>5. QED
  BY <1>2, <1>4 DEF Lists

\* The lists the code has: four dimensions, six positions and orientations,
\* two room variables, and the audio variables of each DataType.
LEMMA KnownLists ==
  /\ Lists(<<"">>, {""}) /\ Lists(<<"N">>, {"N"}) /\ \A S : Lists(<<>>, Steps(S, {}))
  /\ Lists(<<"M", "R", "E", "N">>, Sizes)
  /\ Lists(<<"Data.SamplingRate", "Data.Delay">>, {"Data.SamplingRate", "Data.Delay"})
  /\ Lists(Spatial, Range(Spatial)) /\ Lists(RoomVariables, Range(RoomVariables))
  /\ \A type : Lists(AudioOf(type), Range(AudioOf(type)))
<1>1. ASSUME NEW x PROVE Lists(<<x>>, {x})
  BY DEF Lists
<1>2. ASSUME NEW S PROVE Lists(<<>>, Steps(S, {}))
  <2>1. Steps(S, {}) = {} /\ <<>> \in Seq({})
    BY DEF Steps
  <2>2. QED
    BY <2>1 DEF Lists
<1>3. ASSUME NEW x, NEW y, x # y PROVE Lists(<<x, y>>, {x, y})
  <2> DEFINE l == <<x, y>>
  <2>1. l \in Seq({x, y}) /\ Len(l) = 2 /\ l[1] = x /\ l[2] = y
    OBVIOUS
  <2> HIDE DEF l
  <2>2. QED
    BY <1>3, <2>1 DEF Lists, l
<1>4. ASSUME NEW x, NEW y, x # y PROVE Lists(<<x, y>>, Range(<<x, y>>))
  <2> DEFINE l == <<x, y>>
  <2>1. l \in Seq({x, y}) /\ Len(l) = 2 /\ l[1] = x /\ l[2] = y
    OBVIOUS
  <2> HIDE DEF l
  <2>2. \A i, j \in 1..Len(l) : l[i] = l[j] => i = j
    BY <1>4, <2>1
  <2>3. Lists(l, Range(l))
    BY <2>1, <2>2, ListsItsRange
  <2>4. QED
    BY <2>3 DEF l
<1>5. ASSUME NEW x PROVE Lists(<<x>>, Range(<<x>>))
  <2> DEFINE l == <<x>>
  <2>1. l \in Seq({x}) /\ Len(l) = 1 /\ l[1] = x
    OBVIOUS
  <2> HIDE DEF l
  <2>2. \A i, j \in 1..Len(l) : l[i] = l[j] => i = j
    BY <2>1
  <2>3. Lists(l, Range(l))
    BY <2>1, <2>2, ListsItsRange
  <2>4. QED
    BY <2>3 DEF l
<1>6. Lists(<<"M", "R", "E", "N">>, Sizes)
  <2> DEFINE l == <<"M", "R", "E", "N">>
  <2>1. l \in Seq(Sizes) /\ Len(l) = 4 /\ l[1] = "M" /\ l[2] = "R" /\ l[3] = "E" /\ l[4] = "N"
    BY DEF Sizes
  <2> HIDE DEF l
  <2>2. \A x \in Sizes : \E i \in 1..Len(l) : l[i] = x
    BY <2>1 DEF Sizes
  <2>3. \A i, j \in 1..Len(l) : l[i] = l[j] => i = j
    BY <2>1
  <2>4. QED
    BY <2>1, <2>2, <2>3 DEF Lists, l
<1>7. Lists(Spatial, Range(Spatial))
  <2> DEFINE l == Spatial
  <2>0. l \in Seq({"ListenerPosition", "ReceiverPosition", "SourcePosition",
                  "EmitterPosition", "ListenerUp", "ListenerView"})
    BY DEF Spatial
  <2>1. /\ Len(l) = 6
        /\ l[1] = "ListenerPosition" /\ l[2] = "ReceiverPosition" /\ l[3] = "SourcePosition"
        /\ l[4] = "EmitterPosition" /\ l[5] = "ListenerUp" /\ l[6] = "ListenerView"
    BY DEF Spatial
  <2> HIDE DEF l
  <2>2. \A i, j \in 1..Len(l) : l[i] = l[j] => i = j
    BY <2>1
  <2>3. Lists(l, Range(l))
    BY <2>0, <2>2, ListsItsRange
  <2>4. QED
    BY <2>3 DEF l
<1>8. Lists(RoomVariables, Range(RoomVariables))
  BY <1>4 DEF RoomVariables
<1>9. ASSUME NEW type PROVE Lists(AudioOf(type), Range(AudioOf(type)))
  <2>1. /\ Lists(<<"Data.IR">>, Range(<<"Data.IR">>)) /\ Lists(<<"Data.SOS">>, Range(<<"Data.SOS">>))
        /\ Lists(<<"Data.Real", "Data.Imag">>, Range(<<"Data.Real", "Data.Imag">>))
    BY <1>4, <1>5
  <2>2. \/ AudioOf(type) = <<"Data.IR">> \/ AudioOf(type) = <<"Data.SOS">>
        \/ AudioOf(type) = <<"Data.Real", "Data.Imag">>
    BY DEF AudioOf
  <2>3. QED
    BY <2>1, <2>2
<1>10. QED
  BY <1>1, <1>2, <1>3, <1>6, <1>7, <1>8, <1>9

\* The steps of reading the audio data, and all of them.
AudioStepSet(type, r) ==
  Steps(IF r = "OpenLazy" THEN "layout" ELSE "read", Range(AudioOf(type)))
    \cup Steps("sections", IF type = "SOS" THEN {"N"} ELSE {})
    \cup Steps("read", IF Rated(type) THEN {"Data.SamplingRate", "Data.Delay"} ELSE {"N"})

FirstSteps ==
  Steps("budget", {""}) \cup Steps("dimension", Sizes) \cup Steps("product", {""})

StepSet(d, r) ==
  FirstSteps \cup AudioStepSet(d.type, r) \cup Steps("read", Range(Spatial))
    \cup Steps("room", Range(RoomVariables)) \cup Steps("extra", Extra(d))

\* AudioSteps lists its steps, each once.
LEMMA AudioListed ==
  ASSUME NEW type, NEW r
  PROVE  Lists(AudioSteps(type, r), AudioStepSet(type, r))
<1> DEFINE what == IF r = "OpenLazy" THEN "layout" ELSE "read"
           A == Steps(what, Range(AudioOf(type)))
           B == Steps("sections", IF type = "SOS" THEN {"N"} ELSE {})
           C == Steps("read", IF Rated(type) THEN {"Data.SamplingRate", "Data.Delay"} ELSE {"N"})
           a == Each(what, AudioOf(type))
           b == IF type = "SOS" THEN Each("sections", <<"N">>) ELSE <<>>
           c == Each("read", IF Rated(type) THEN <<"Data.SamplingRate", "Data.Delay">> ELSE <<"N">>)
<1>1. Lists(a, A)
  BY KnownLists, EachLists
<1>2. Lists(b, B)
  <2>1. CASE type = "SOS"
    BY <2>1, KnownLists, EachLists
  <2>2. CASE type # "SOS"
    BY <2>2, KnownLists
  <2>3. QED
    BY <2>1, <2>2
<1>3. Lists(c, C)
  <2>1. CASE Rated(type)
    BY <2>1, KnownLists, EachLists
  <2>2. CASE ~Rated(type)
    BY <2>2, KnownLists, EachLists
  <2>3. QED
    BY <2>1, <2>2
<1>4. /\ \A x \in A : x.do = what /\ x.var \in Range(AudioOf(type))
      /\ \A x \in B : x.do = "sections"
      /\ \A x \in C : x.do = "read" /\ x.var \in {"Data.SamplingRate", "Data.Delay", "N"}
  <2>1. \A x \in C : x.var \in (IF Rated(type) THEN {"Data.SamplingRate", "Data.Delay"} ELSE {"N"})
    BY StepsAre
  <2>2. QED
    BY <2>1, StepsAre
<1>5. \A v \in Range(AudioOf(type)) : v \notin {"Data.SamplingRate", "Data.Delay", "N"}
  <2>1. Range(AudioOf(type)) \subseteq {"Data.IR", "Data.SOS", "Data.Real", "Data.Imag"}
    BY DEF AudioOf, Range
  <2>2. QED
    BY <2>1
<1>6. AudioStepSet(type, r) = A \cup B \cup C
  BY DEF AudioStepSet
<1>7. AudioSteps(type, r) = IF r = "OpenLazy" THEN b \o a \o c
                            ELSE IF Rated(type) THEN a \o b \o c ELSE c \o a
  BY DEF AudioSteps
<1>8. ~Rated(type) => B = {}
  BY DEF Rated, Steps
<1>9. /\ \A x \in A : x \notin B /\ x \notin C
      /\ \A x \in B : x \notin A /\ x \notin C
      /\ \A x \in C : x \notin A /\ x \notin B
  <2>1. what # "sections"
    OBVIOUS
  <2> HIDE DEF A, B, C, what
  <2>2. QED
    BY <1>4, <1>5, <2>1
<1> HIDE DEF A, B, C, a, b, c
<1>10. CASE r = "OpenLazy"
  <2>1. Lists(b \o a, B \cup A)
    BY <1>1, <1>2, <1>9, ListsTogether
  <2>2. \A x \in B \cup A : x \notin C
    BY <1>9
  <2>3. Lists((b \o a) \o c, (B \cup A) \cup C)
    BY <2>1, <2>2, <1>3, ListsTogether
  <2>4. (B \cup A) \cup C = A \cup B \cup C
    OBVIOUS
  <2>5. QED
    BY <1>6, <1>7, <1>10, <2>3, <2>4
<1>11. CASE r # "OpenLazy" /\ Rated(type)
  <2>1. Lists(a \o b, A \cup B)
    BY <1>1, <1>2, <1>9, ListsTogether
  <2>2. \A x \in A \cup B : x \notin C
    BY <1>9
  <2>3. Lists((a \o b) \o c, (A \cup B) \cup C)
    BY <2>1, <2>2, <1>3, ListsTogether
  <2>4. QED
    BY <1>6, <1>7, <1>11, <2>3
<1>12. CASE r # "OpenLazy" /\ ~Rated(type)
  <2>1. Lists(c \o a, C \cup A)
    BY <1>1, <1>3, <1>9, ListsTogether
  <2>2. C \cup A = A \cup B \cup C
    BY <1>8, <1>12
  <2>3. QED
    BY <1>6, <1>7, <1>12, <2>1, <2>2
<1>13. QED
  BY <1>10, <1>11, <1>12

\* The first six steps, in their order.
First == Each("budget", <<"">>) \o Each("dimension", <<"M", "R", "E", "N">>) \o Each("product", <<"">>)

\* They are the budget, four dimensions and their product, each once.
LEMMA FirstListed ==
  /\ Lists(First, FirstSteps) /\ Len(First) = 6
  /\ First[1].do = "budget"
  /\ \A i \in 2..5 : First[i].do = "dimension"
  /\ First[6].do = "product"
<1> DEFINE A == Steps("budget", {""})
           B == Steps("dimension", Sizes)
           C == Steps("product", {""})
           a == Each("budget", <<"">>)
           b == Each("dimension", <<"M", "R", "E", "N">>)
           c == Each("product", <<"">>)
<1>1. Lists(a, A) /\ Lists(b, B) /\ Lists(c, C)
  BY KnownLists, EachLists
<1>2. Len(a) = 1 /\ Len(b) = 4 /\ Len(c) = 1
  <2>1. Len(<<"">>) = 1 /\ Len(<<"M", "R", "E", "N">>) = 4
    OBVIOUS
  <2>2. QED
    BY <2>1, KnownLists, EachLists
<1>3. /\ \A x \in A : x.do = "budget" 
      /\ \A x \in B : x.do = "dimension"
      /\ \A x \in C : x.do = "product"
  BY StepsAre
<1>0. First = (a \o b) \o c /\ FirstSteps = (A \cup B) \cup C
  BY DEF First, FirstSteps
<1> HIDE DEF A, B, C, a, b, c
<1>4. a[1] \in A
  <2>1. a \in Seq(A) /\ Len(a) = 1
    BY <1>1, <1>2 DEF Lists
  <2>2. QED
    BY <2>1
<1>6. Lists(a \o b, A \cup B)
  BY <1>1, <1>3, ListsTogether
<1>7. Lists((a \o b) \o c, (A \cup B) \cup C)
  BY <1>1, <1>3, <1>6, ListsTogether
<1>8. /\ Len(a \o b) = 5 /\ (a \o b)[1] = a[1]
      /\ \A i \in 2..5 : (a \o b)[i] \in B
  <2>1. a \in Seq(A) /\ b \in Seq(B)
    BY <1>1 DEF Lists
  <2>2. /\ Len(a \o b) = Len(a) + Len(b)
        /\ \A i \in 1..Len(a) : (a \o b)[i] = a[i]
        /\ \A i \in 1..Len(b) : (a \o b)[Len(a) + i] = b[i]
    BY <2>1, Concatenated
  <2>3. \A i \in 1..4 : b[i] \in B /\ (a \o b)[1 + i] = b[i]
    BY <1>2, <2>1, <2>2, SMTT(30)
  <2>4. \A i \in 2..5 : i - 1 \in 1..4 /\ 1 + (i - 1) = i
    OBVIOUS
  <2>5. \A i \in 2..5 : (a \o b)[i] = b[i - 1] /\ b[i - 1] \in B
    BY <2>3, <2>4
  <2>6. QED
    BY <1>2, <2>2, <2>5
<1>9. /\ Len((a \o b) \o c) = 6
      /\ \A i \in 1..5 : ((a \o b) \o c)[i] = (a \o b)[i]
      /\ ((a \o b) \o c)[6] \in C
  <2>1. a \o b \in Seq(A \cup B) /\ c \in Seq(C)
    BY <1>1, <1>6 DEF Lists
  <2>2. /\ Len((a \o b) \o c) = Len(a \o b) + Len(c)
        /\ \A i \in 1..Len(a \o b) : ((a \o b) \o c)[i] = (a \o b)[i]
        /\ \A i \in 1..Len(c) : ((a \o b) \o c)[Len(a \o b) + i] = c[i]
    BY <2>1, Concatenated
  <2>3. c[1] \in C /\ 1 \in 1..Len(c)
    BY <1>2, <2>1, SMTT(30)
  <2>4. ((a \o b) \o c)[5 + 1] = c[1]
    BY <1>8, <2>2, <2>3
  <2>5. QED
    BY <1>2, <1>8, <2>2, <2>3, <2>4
<1>10. First[1] = a[1] /\ First[6] \in C /\ \A i \in 2..5 : First[i] \in B
  BY <1>0, <1>8, <1>9
<1>11. /\ First[1].do = "budget" /\ First[6].do = "product"
       /\ \A i \in 2..5 : First[i].do = "dimension"
  BY <1>3, <1>4, <1>10
<1>12. QED
  BY <1>0, <1>7, <1>9, <1>11

\* The plan lists its steps, each once, beginning with those six.
LEMMA PlanListed ==
  ASSUME NEW d, StoredFile(d), NEW r
  PROVE  /\ Lists(Plan(d, r), StepSet(d, r)) /\ Len(Plan(d, r)) >= 6
         /\ \A i \in 1..6 : Plan(d, r)[i] = First[i]
<1> DEFINE B == AudioStepSet(d.type, r)
           C == Steps("read", Range(Spatial))
           D == Steps("room", Range(RoomVariables))
           E == Steps("extra", Extra(d))
           b == AudioSteps(d.type, r)
           c == Each("read", Spatial)
           e == Each("room", RoomVariables)
           g == Each("extra", SetToSeq(Extra(d)))
<1>1. Lists(First, FirstSteps) /\ Lists(b, B) /\ Lists(c, C) /\ Lists(e, D)
  BY FirstListed, AudioListed, KnownLists, EachLists
<1>2. Lists(g, E)
  <2>1. IsFiniteSet(Extra(d))
    <3>1. Extra(d) \in SUBSET DOMAIN d.shape
      BY DEF Extra
    <3>2. QED
      BY <3>1, FS_Subset DEF StoredFile
  <2>2. QED
    BY <2>1, AnyList, EachLists
<1>3. /\ \A x \in FirstSteps : x.do \in {"budget", "dimension", "product"}
      /\ \A x \in C : x.do = "read" /\ x.var \in Range(Spatial)
      /\ \A x \in D : x.do = "room"
      /\ \A x \in E : x.do = "extra"
  BY StepsAre DEF FirstSteps
<1>4. \A x \in B : x.do \in {"layout", "read", "sections"} /\ x.var \notin Range(Spatial)
  <2>1. Range(AudioOf(d.type)) \subseteq {"Data.IR", "Data.SOS", "Data.Real", "Data.Imag"}
    BY DEF AudioOf, Range
  <2>2. Range(Spatial) = {"ListenerPosition", "ReceiverPosition", "SourcePosition",
                          "EmitterPosition", "ListenerUp", "ListenerView"}
    BY DEF Spatial, Range
  <2>3. TAKE x \in B
  <2>4. CASE x \in Steps(IF r = "OpenLazy" THEN "layout" ELSE "read", Range(AudioOf(d.type)))
    <3>1. x.do = (IF r = "OpenLazy" THEN "layout" ELSE "read") /\ x.var \in Range(AudioOf(d.type))
      BY <2>4, StepsAre
    <3>2. QED
      BY <2>1, <2>2, <3>1
  <2>5. CASE x \in Steps("sections", IF d.type = "SOS" THEN {"N"} ELSE {})
    <3>1. x.do = "sections" /\ x.var \in (IF d.type = "SOS" THEN {"N"} ELSE {})
      BY <2>5, StepsAre
    <3>2. QED
      BY <2>2, <3>1
  <2>6. CASE x \in Steps("read", IF Rated(d.type) THEN {"Data.SamplingRate", "Data.Delay"} ELSE {"N"})
    <3>1. /\ x.do = "read"
          /\ x.var \in (IF Rated(d.type) THEN {"Data.SamplingRate", "Data.Delay"} ELSE {"N"})
      BY <2>6, StepsAre
    <3>2. QED
      BY <2>2, <3>1
  <2>7. QED
    BY <2>4, <2>5, <2>6 DEF AudioStepSet
<1>5. /\ Plan(d, r) = (((First \o b) \o c) \o e) \o g
      /\ StepSet(d, r) = (((FirstSteps \cup B) \cup C) \cup D) \cup E
  BY DEF Plan, StepSet, First
<1> HIDE DEF B, C, D, E, b, c, e, g
<1>6. Lists(First \o b, FirstSteps \cup B)
  BY <1>1, <1>3, <1>4, ListsTogether
<1>7. Lists((First \o b) \o c, (FirstSteps \cup B) \cup C)
  <2>1. \A x \in FirstSteps \cup B : x \notin C
    BY <1>3, <1>4
  <2>2. QED
    BY <1>1, <1>6, <2>1, ListsTogether
<1>8. Lists(((First \o b) \o c) \o e, ((FirstSteps \cup B) \cup C) \cup D)
  <2>1. \A x \in (FirstSteps \cup B) \cup C : x \notin D
    BY <1>3, <1>4
  <2>2. QED
    BY <1>1, <1>7, <2>1, ListsTogether
<1>9. Lists((((First \o b) \o c) \o e) \o g, (((FirstSteps \cup B) \cup C) \cup D) \cup E)
  <2>1. \A x \in ((FirstSteps \cup B) \cup C) \cup D : x \notin E
    BY <1>3, <1>4
  <2>2. QED
    BY <1>2, <1>8, <2>1, ListsTogether
<1> DEFINE Begins(l) == Len(l) >= 6 /\ \A i \in 1..6 : l[i] = First[i]
<1>10. ASSUME NEW S, NEW T, NEW s, NEW t, Lists(s, S), Lists(t, T), Begins(s)
       PROVE  Begins(s \o t)
  <2>1. s \in Seq(S) /\ t \in Seq(T)
    BY <1>10 DEF Lists
  <2>2. Len(s \o t) = Len(s) + Len(t) /\ \A i \in 1..Len(s) : (s \o t)[i] = s[i]
    BY <2>1, Concatenated
  <2>3. Len(s) \in Nat /\ Len(t) \in Nat
    BY <2>1
  <2>4. QED
    BY <1>10, <2>2, <2>3
<1>11. Begins(First)
  <2>1. Len(First) = 6
    BY FirstListed
  <2> HIDE DEF First
  <2>2. QED
    BY <2>1
<1> HIDE DEF Begins
<1>12. Begins(First \o b)
  BY <1>1, <1>10, <1>11
<1>13. Begins((First \o b) \o c)
  BY <1>1, <1>6, <1>10, <1>12
<1>14. Begins(((First \o b) \o c) \o e)
  BY <1>1, <1>7, <1>10, <1>13
<1>15. Begins((((First \o b) \o c) \o e) \o g)
  BY <1>2, <1>8, <1>10, <1>14
<1>16. QED
  BY <1>5, <1>9, <1>15 DEF Begins

\* What kind of steps there are, and of what variables.
LEMMA StepsOfPlan ==
  ASSUME NEW d, NEW r, NEW x \in StepSet(d, r)
  PROVE  /\ x = [do |-> x.do, var |-> x.var]
         /\ x \in FirstSteps <=> x.do \in {"budget", "dimension", "product"}
         /\ x.do \in {"budget", "dimension", "product", "layout", "read", "sections", "room", "extra"}
         /\ x.do = "budget" => x.var = ""
         /\ x.do = "dimension" => x.var \in Sizes
         /\ x.do = "layout" => x.var \in Range(AudioOf(d.type)) /\ r = "OpenLazy"
         /\ x.do = "read" =>
              \/ x.var \in Range(AudioOf(d.type)) /\ r # "OpenLazy"
              \/ x.var \in Range(Spatial)
              \/ IF Rated(d.type) THEN x.var \in {"Data.SamplingRate", "Data.Delay"} ELSE x.var = "N"
         /\ x.do = "room" => x.var \in Range(RoomVariables)
         /\ x.do = "extra" => x.var \in Extra(d)
<1> DEFINE audio == IF r = "OpenLazy" THEN "layout" ELSE "read"
           sections == IF d.type = "SOS" THEN {"N"} ELSE {}
           small == IF Rated(d.type) THEN {"Data.SamplingRate", "Data.Delay"} ELSE {"N"}
           Is(what, names) == x = [do |-> what, var |-> x.var] /\ x.do = what /\ x.var \in names
<1>1. ASSUME NEW what, NEW names, x \in Steps(what, names) PROVE Is(what, names)
  BY <1>1 DEF Steps
<1>2. ASSUME NEW what, NEW names, Is(what, names) PROVE x \in Steps(what, names)
  BY <1>2 DEF Steps
<1>3. x \in FirstSteps <=> Is("budget", {""}) \/ Is("dimension", Sizes) \/ Is("product", {""})
  <2> HIDE DEF Is
  <2>1. QED
    BY <1>1, <1>2 DEF FirstSteps
<1>4. \/ x \in FirstSteps
      \/ Is(audio, Range(AudioOf(d.type))) \/ Is("sections", sections) \/ Is("read", small)
      \/ Is("read", Range(Spatial)) \/ Is("room", Range(RoomVariables)) \/ Is("extra", Extra(d))
  <2> HIDE DEF Is, sections, small, audio
  <2>1. AudioStepSet(d.type, r) = Steps(audio, Range(AudioOf(d.type)))
                                     \cup Steps("sections", sections) \cup Steps("read", small)
    BY DEF AudioStepSet, audio, sections, small
  <2>2. QED
    BY <1>1, <2>1 DEF StepSet
<1> HIDE DEF sections
<1>5. QED
  BY <1>3, <1>4

\* The order of the plan: the budget, the four dimensions, the product, and
\* then nothing of this kind.
LEMMA PlanOrder ==
  ASSUME NEW d, StoredFile(d), NEW r
  PROVE  LET plan == Plan(d, r)
         IN  /\ plan \in Seq(StepSet(d, r)) /\ Len(plan) >= 6
             /\ plan[1].do = "budget" /\ plan[6].do = "product"
             /\ \A i \in 2..5 : plan[i].do = "dimension"
             /\ \A i \in 7..Len(plan) : plan[i].do \notin {"budget", "dimension", "product"}
             /\ \A s \in Sizes : \E i \in 2..5 : plan[i] = [do |-> "dimension", var |-> s]
<1> DEFINE plan == Plan(d, r)
           len == Len(plan)
<1>1. /\ Lists(plan, StepSet(d, r)) /\ len >= 6 /\ \A i \in 1..6 : plan[i] = First[i]
  BY PlanListed
<1>2. Lists(First, FirstSteps) /\ Len(First) = 6
  BY FirstListed
<1>3. /\ First[1].do = "budget" /\ First[6].do = "product"
      /\ \A i \in 2..5 : First[i].do = "dimension"
  BY FirstListed
<1>4. /\ plan \in Seq(StepSet(d, r)) /\ len \in Nat
      /\ \A i, j \in 1..len : plan[i] = plan[j] => i = j
  BY <1>1 DEF Lists
<1>5. \A x \in FirstSteps : \E i \in 1..6 : First[i] = x
  BY <1>2 DEF Lists
<1> HIDE DEF plan, len
<1>6. ASSUME NEW i \in 7..len PROVE plan[i].do \notin {"budget", "dimension", "product"}
  <2>1. i \in 1..len /\ plan[i] \in StepSet(d, r)
    BY <1>4 DEF len
  <2>2. SUFFICES ASSUME plan[i] \in FirstSteps PROVE FALSE
    BY <2>1, StepsOfPlan
  <2>3. PICK j \in 1..6 : First[j] = plan[i]
    BY <1>5, <2>2
  <2>4. j \in 1..len /\ plan[j] = plan[i]
    BY <1>1, <1>4, <2>3
  <2>5. QED
    BY <1>4, <2>1, <2>4
<1>7. ASSUME NEW s \in Sizes PROVE \E i \in 2..5 : plan[i] = [do |-> "dimension", var |-> s]
  <2> DEFINE x == [do |-> "dimension", var |-> s]
  <2>1. x \in FirstSteps /\ x.do = "dimension"
    BY DEF FirstSteps, Steps
  <2> HIDE DEF x
  <2>2. PICK i \in 1..6 : First[i] = x
    BY <1>5, <2>1
  <2>3. i # 1 /\ i # 6
    BY <1>3, <2>1, <2>2
  <2>4. i \in 2..5 /\ plan[i] = x
    BY <1>1, <2>2, <2>3
  <2>5. QED
    BY <2>4 DEF x
<1>8. QED
  BY <1>1, <1>3, <1>4, <1>6, <1>7 DEF plan, len

\* Which steps may read which dataset.
LEMMA ReadingSteps ==
  ASSUME NEW d, NEW r, NEW x \in StepSet(d, r), NEW v, MayRead(x, v)
  PROVE  /\ x = [do |-> x.do, var |-> v]
         /\ \/ x.do = "dimension" /\ v \in Sizes
            \/ /\ x.do = "read" /\ (v \in Sizes => v = "N")
               /\ v \notin Range(RoomVariables) /\ v \notin Extra(d)
            \/ x.do = "room" /\ v \in Range(RoomVariables) /\ v \notin Sizes
            \/ x.do = "extra" /\ v \in Extra(d) /\ v \notin Sizes
         /\ r = "OpenLazy" => v \notin Range(AudioOf(d.type))
<1>1. x.var = v /\ x.do \in {"dimension", "read", "room", "extra"}
  BY DEF MayRead
<1>2. x = [do |-> x.do, var |-> v]
  BY <1>1, StepsOfPlan
<1>3. Range(AudioOf(d.type)) \subseteq {"Data.IR", "Data.SOS", "Data.Real", "Data.Imag"}
  BY DEF AudioOf, Range
<1>4. Range(Spatial) = {"ListenerPosition", "ReceiverPosition", "SourcePosition",
                        "EmitterPosition", "ListenerUp", "ListenerView"}
  BY DEF Spatial, Range
<1>5. Range(RoomVariables) = {"RoomVolume", "RoomTemperature"}
  BY DEF RoomVariables, Range
<1>6. v \in Extra(d) =>
        /\ v \notin Sizes /\ v \notin Range(AudioOf(d.type)) /\ v \notin Range(Spatial)
        /\ Rated(d.type) => v \notin {"Data.SamplingRate", "Data.Delay"}
  BY DEF Extra, Dimensions
<1>7. CASE x.do = "dimension"
  <2>1. v \in Sizes
    BY <1>1, <1>7, StepsOfPlan
  <2>2. QED
    BY <1>2, <1>3, <1>7, <2>1 DEF Sizes
<1>8. CASE x.do = "read"
  <2>1. \/ v \in Range(AudioOf(d.type)) /\ r # "OpenLazy"
        \/ v \in Range(Spatial)
        \/ IF Rated(d.type) THEN v \in {"Data.SamplingRate", "Data.Delay"} ELSE v = "N"
    BY <1>1, <1>8, StepsOfPlan
  <2>2. CASE v \in Range(AudioOf(d.type)) /\ r # "OpenLazy"
    BY <1>2, <1>3, <1>5, <1>6, <1>8, <2>2 DEF Sizes
  <2>3. CASE v \in Range(Spatial)
    BY <1>2, <1>3, <1>4, <1>5, <1>6, <1>8, <2>3 DEF Sizes
  <2>4. CASE Rated(d.type) /\ v \in {"Data.SamplingRate", "Data.Delay"}
    BY <1>2, <1>3, <1>5, <1>6, <1>8, <2>4 DEF Sizes
  <2>5. CASE v = "N"
    BY <1>2, <1>3, <1>5, <1>6, <1>8, <2>5 DEF Sizes
  <2>6. QED
    BY <2>1, <2>2, <2>3, <2>4, <2>5
<1>9. CASE x.do = "room"
  <2>1. v \in Range(RoomVariables)
    BY <1>1, <1>9, StepsOfPlan
  <2>2. QED
    BY <1>2, <1>3, <1>5, <1>9, <2>1 DEF Sizes
<1>10. CASE x.do = "extra"
  <2>1. v \in Extra(d)
    BY <1>1, <1>10, StepsOfPlan
  <2>2. QED
    BY <1>2, <1>6, <1>10, <2>1
<1>11. QED
  BY <1>1, <1>7, <1>8, <1>9, <1>10

\* No dataset is read by more than two steps, and by two only /N and the room
\* variables; OpenLazy reads no audio data.
LEMMA ReadByTwoSteps ==
  ASSUME NEW d, StoredFile(d), NEW r, NEW v,
         NEW i \in 1..Len(Plan(d, r)), MayRead(Plan(d, r)[i], v)
  PROVE  /\ r = "OpenLazy" => v \notin Range(AudioOf(d.type))
         /\ \A j \in 1..Len(Plan(d, r)) :
              MayRead(Plan(d, r)[j], v) /\ i # j =>
                /\ v \in Range(RoomVariables) \cup {"N"}
                /\ \A k \in 1..Len(Plan(d, r)) : MayRead(Plan(d, r)[k], v) => k \in {i, j}
<1> DEFINE plan == Plan(d, r)
           len == Len(plan)
           S == StepSet(d, r)
<1>1. /\ plan \in Seq(S) /\ len \in Nat
      /\ \A a, b \in 1..len : plan[a] = plan[b] => a = b
  <2>1. Lists(plan, S)
    BY PlanListed
  <2> HIDE DEF plan, S
  <2>2. QED
    BY <2>1 DEF Lists, len
<1>2. \A a \in 1..len : plan[a] \in S
  BY <1>1
<1> DEFINE Reading(x) == MayRead(x, v)
           Kind(x) ==
             /\ x = [do |-> x.do, var |-> v]
             /\ \/ x.do = "dimension" /\ v \in Sizes
                \/ /\ x.do = "read" /\ (v \in Sizes => v = "N")
                   /\ v \notin Range(RoomVariables) /\ v \notin Extra(d)
                \/ x.do = "room" /\ v \in Range(RoomVariables) /\ v \notin Sizes
                \/ x.do = "extra" /\ v \in Extra(d) /\ v \notin Sizes
<1>3. ASSUME NEW a \in 1..len, Reading(plan[a]) PROVE Kind(plan[a])
  BY <1>2, <1>3, ReadingSteps
<1>4. r = "OpenLazy" => v \notin Range(AudioOf(d.type))
  BY <1>2, ReadingSteps
<1>5. ASSUME NEW x, NEW y, Kind(x), Kind(y), x # y
      PROVE  x.do # y.do /\ v \in Range(RoomVariables) \cup {"N"}
  <2>1. x.do # y.do
    BY <1>5
  <2>2. QED
    BY <1>5, <2>1
<1>6. ASSUME NEW x, NEW y, NEW z, Kind(x), Kind(y), Kind(z), x # y, z # x, z # y
      PROVE  FALSE
  <2>1. x.do # y.do /\ z.do # x.do /\ z.do # y.do
    BY <1>5, <1>6
  <2>2. QED
    BY <1>6, <2>1
<1> HIDE DEF Kind, Reading, plan, len
<1>7. ASSUME NEW j \in 1..len, Reading(plan[j]), i # j
      PROVE  /\ v \in Range(RoomVariables) \cup {"N"}
             /\ \A k \in 1..len : Reading(plan[k]) => k \in {i, j}
  <2>1. i \in 1..len /\ Kind(plan[i]) /\ Kind(plan[j]) /\ plan[i] # plan[j]
    <3>1. i \in 1..len /\ Reading(plan[i])
      BY DEF len, plan, Reading
    <3>2. QED
      BY <1>1, <1>3, <1>7, <3>1
  <2>2. ASSUME NEW k \in 1..len, Reading(plan[k]), k \notin {i, j} PROVE FALSE
    <3>1. Kind(plan[k]) /\ plan[k] # plan[i] /\ plan[k] # plan[j]
      BY <1>1, <1>3, <2>1, <2>2
    <3>2. QED
      BY <1>6, <2>1, <3>1
  <2>3. QED
    BY <1>5, <2>1, <2>2
<1>8. QED
  BY <1>4, <1>7 DEF plan, len, Reading

-----------------------------------------------------------------------------
(* One step of a reader.                                                   *)

\* The end of a sequence, and what remains of it without its first element.
LEMMA EndOfSequence ==
  ASSUME NEW S, NEW p \in Seq(S), NEW k \in 0..Len(p)
  PROVE  LET end == SubSeq(p, k + 1, Len(p))
         IN  /\ end \in Seq(S) /\ Len(end) = Len(p) - k
             /\ end = <<>> <=> k = Len(p)
             /\ k < Len(p) => /\ Head(end) = p[k + 1]
                              /\ Tail(end) = SubSeq(p, k + 2, Len(p))
<1> DEFINE len == Len(p)
           end == SubSeq(p, k + 1, len)
<1>1. len \in Nat /\ \A i \in 1..len : p[i] \in S
  OBVIOUS
<1> HIDE DEF len
<1>2. end \in Seq(S) /\ Len(end) = len - k
  <2>1. k + 1 \in Int /\ \A i \in k + 1..len : p[i] \in S
    BY <1>1 DEF len
  <2>2. end \in Seq(S) /\ Len(end) = IF k + 1 <= len THEN len - (k + 1) + 1 ELSE 0
    BY <1>1, <2>1, SubSeqProperties
  <2>3. QED
    BY <1>1, <2>2 DEF len
<1>3. k < len => Head(end) = p[k + 1] /\ Tail(end) = SubSeq(p, k + 2, len)
  <2>1. SUFFICES ASSUME k < len PROVE Head(end) = p[k + 1] /\ Tail(end) = SubSeq(p, k + 2, len)
    OBVIOUS
  <2>2. k + 1 \in 1..Len(p) /\ len \in k + 1..Len(p) /\ (k + 1) + 1 = k + 2
    BY <1>1, <2>1 DEF len
  <2>3. Head(end) = p[k + 1] /\ Tail(end) = SubSeq(p, (k + 1) + 1, len)
    BY <2>2, HeadTailOfSubSeq
  <2>4. QED
    BY <2>2, <2>3
<1>4. end = <<>> <=> k = len
  <2>1. end = <<>> <=> Len(end) = 0
    BY <1>2, EmptySeq
  <2>2. QED
    BY <1>1, <1>2, <2>1 DEF len
<1>5. QED
  BY <1>2, <1>3, <1>4 DEF len

Reasons == {"too large", "dimension", "product", "missing", "layout", "datatype", "sections", "io"}

\* What a step of r does, whichever it is.
Effect(r) ==
  LET step == Head(todo[r])
      v == step.var
  IN  /\ opened # <<>> /\ todo[r] # <<>> /\ opened' = opened
      /\ \/ seen' = seen
         \/ /\ MayRead(step, v) /\ v \in DOMAIN Given.shape
            /\ seen' = [seen EXCEPT ![r][v] = @ + 1]
      /\ \/ /\ Goes(r) /\ Passes(Given, r, step)
            /\ sizes' = IF step.do = "dimension"
                        THEN [sizes EXCEPT ![r][v] = DimensionSize(Given, v)] ELSE sizes
         \/ \E why \in Reasons :
              /\ Fails(r, why) /\ sizes' = sizes
              /\ why # "io" => ~Passes(Given, r, step)
              /\ why = "too large" <=> step.do = "budget"

\* The next step is the one of the plan after those behind, and after the
\* dimensions all sizes have been found.
LEMMA NextStep ==
  ASSUME ReadInv, NEW r \in Readers, todo[r] # <<>>
  PROVE  LET plan == Plan(Given, r)
         IN  /\ opened # <<>> /\ outcome[r] = "none" /\ StoredFile(Given)
             /\ plan \in Seq(StepSet(Given, r)) /\ Behind(r) \in 0..Len(plan) - 1
             /\ Head(todo[r]) = plan[Behind(r) + 1] /\ Head(todo[r]) \in StepSet(Given, r)
             /\ Tail(todo[r]) = SubSeq(plan, Behind(r) + 2, Len(plan))
             /\ Len(todo[r]) = Len(plan) - Behind(r)
             /\ Head(todo[r]).do \notin {"budget", "dimension"} => sizes[r] = FoundSizes(Given)
<1> DEFINE plan == Plan(Given, r)
           len == Len(plan)
           k == Behind(r)
           S == StepSet(Given, r)
<1>1. opened # <<>> /\ StoredFile(Given)
  BY DEF ReadInv, ReadTypeOK
<1>2. LeftToDo(r) /\ FoundOut(r)
  BY <1>1 DEF ReadInv
<1>3. /\ plan \in Seq(S) /\ len >= 6 /\ len \in Nat /\ plan[1].do = "budget"
      /\ \A i \in 2..5 : plan[i].do = "dimension"
      /\ \A s \in Sizes : \E i \in 2..5 : plan[i] = [do |-> "dimension", var |-> s]
  BY <1>1, PlanOrder
<1>4. todo[r] = SubSeq(plan, k + 1, len) /\ k \in 0..len /\ outcome[r] = "none"
  BY <1>2 DEF LeftToDo
<1> HIDE DEF plan, k, S
<1>5. /\ Len(todo[r]) = len - k /\ (todo[r] = <<>> <=> k = len)
      /\ k < len => Head(todo[r]) = plan[k + 1] /\ Tail(todo[r]) = SubSeq(plan, k + 2, len)
  <2> DEFINE end == SubSeq(plan, k + 1, Len(plan))
  <2>1. /\ Len(end) = Len(plan) - k
        /\ end = <<>> <=> k = Len(plan)
        /\ k < Len(plan) => Head(end) = plan[k + 1] /\ Tail(end) = SubSeq(plan, k + 2, Len(plan))
    BY <1>3, <1>4, EndOfSequence
  <2>2. end = todo[r]
    BY <1>4
  <2> HIDE DEF end
  <2>3. QED
    BY <2>1, <2>2
<1> HIDE DEF len
<1>6. /\ k \in 0..len - 1 /\ k + 1 \in 1..len
      /\ Head(todo[r]) = plan[k + 1] /\ Tail(todo[r]) = SubSeq(plan, k + 2, len)
  BY <1>3, <1>4, <1>5
<1>7. Head(todo[r]) \in S
  BY <1>3, <1>6 DEF len
<1>8. Head(todo[r]).do \notin {"budget", "dimension"} => sizes[r] = FoundSizes(Given)
  <2>1. SUFFICES ASSUME Head(todo[r]).do \notin {"budget", "dimension"}
                 PROVE  sizes[r] = FoundSizes(Given)
    OBVIOUS
  <2>2. k >= 5
    <3>1. k + 1 # 1 /\ k + 1 \notin 2..5
      BY <1>3, <1>6, <2>1
    <3>2. QED
      BY <1>6, <3>1
  <2>3. ASSUME NEW s \in Sizes PROVE sizes[r][s] = DimensionSize(Given, s)
    <3>1. PICK i \in 2..5 : plan[i] = [do |-> "dimension", var |-> s]
      BY <1>3
    <3>2. i \in 1..k /\ plan[i].do = "dimension" /\ plan[i].var = s
      BY <1>6, <2>2, <3>1
    <3>3. QED
      BY <1>2, <1>4, <3>2 DEF FoundOut, plan, k
  <2>4. sizes[r] \in [Sizes -> Int]
    BY DEF ReadInv, ReadTypeOK
  <2>5. QED
    BY <2>3, <2>4 DEF FoundSizes
<1>9. QED
  BY <1>1, <1>3, <1>4, <1>5, <1>6, <1>7, <1>8 DEF plan, len, k, S

\* Every step is one of the plan's, has its effect and no other.
LEMMA ReadEffect ==
  ASSUME ReadInv, NEW r \in Readers, ReadStep(r)
  PROVE  Effect(r)
<1> DEFINE step == Head(todo[r])
           v == step.var
           d == Given
<1>1. todo[r] # <<>>
  BY DEF ReadStep, CheckReadBudget, FindDimension, CheckProduct, ReadVariable, CheckLayout,
         CheckSections, ReadRoom, ReadExtra, At
<1>2. /\ opened # <<>> /\ StoredFile(d) /\ step \in StepSet(d, r)
      /\ step.do \notin {"budget", "dimension"} => sizes[r] = FoundSizes(d)
  BY <1>1, NextStep
<1>3. step.do = "extra" => v \in DOMAIN d.shape
  <2>1. step.do = "extra" => v \in Extra(d)
    BY <1>2, StepsOfPlan
  <2>2. Extra(d) \subseteq DOMAIN d.shape
    BY DEF Extra
  <2>3. QED
    BY <2>1, <2>2
<1> HIDE DEF step, d
<1> DEFINE Went == Goes(r) /\ Passes(d, r, step)
           Failed(why) ==
             /\ Fails(r, why) /\ sizes' = sizes
             /\ why # "io" => ~Passes(d, r, step)
             /\ why = "too large" <=> step.do = "budget"
           ReadIt == /\ MayRead(step, v) /\ v \in DOMAIN d.shape
                     /\ seen' = [seen EXCEPT ![r][v] = @ + 1]
<1>4. ASSUME /\ opened' = opened
             /\ seen' = seen \/ ReadIt
             /\ \/ Went /\ step.do # "dimension" /\ sizes' = sizes
                \/ \E why \in Reasons : Failed(why)
      PROVE  Effect(r)
  BY <1>1, <1>2, <1>4 DEF Effect, step, d
<1>5. ASSUME /\ opened' = opened
             /\ seen' = seen \/ ReadIt
             /\ Went /\ step.do = "dimension"
             /\ sizes' = [sizes EXCEPT ![r][v] = DimensionSize(d, v)]
      PROVE  Effect(r)
  BY <1>1, <1>2, <1>5 DEF Effect, step, d
<1>6. CASE CheckReadBudget(r)
  <2>1. step.do = "budget" /\ opened' = opened /\ seen' = seen /\ sizes' = sizes
    BY <1>6 DEF CheckReadBudget, At, step
  <2>2. Passes(d, r, step) <=> WithinBudget(d, r)
    BY <2>1 DEF Passes
  <2>3. IF WithinBudget(d, r) THEN Goes(r) ELSE Fails(r, "too large")
    BY <1>6 DEF CheckReadBudget, d
  <2>4. "too large" \in Reasons
    BY DEF Reasons
  <2>5. Went \/ Failed("too large")
    BY <2>1, <2>2, <2>3
  <2> HIDE DEF Went, Failed, ReadIt
  <2>6. QED
    BY <1>4, <2>1, <2>4, <2>5
<1>7. CASE FindDimension(r)
  <2>1. step.do = "dimension" /\ opened' = opened /\ v = Var(r)
    BY <1>7 DEF FindDimension, At, Var, step
  <2>2. Passes(d, r, step) <=> DimensionSize(d, v) \in 1..MaxElements
    BY <2>1 DEF Passes
  <2>3. "dimension" \in Reasons /\ "io" \in Reasons
    BY DEF Reasons
  <2>4. Fails(r, "io") /\ sizes' = sizes => Failed("io")
    BY <2>1
  <2>5. Fails(r, "dimension") /\ sizes' = sizes /\ ~Passes(d, r, step) => Failed("dimension")
    BY <2>1
  <2>6. \/ v \notin DOMAIN d.shape /\ Fails(r, "dimension") /\ sizes' = sizes /\ seen' = seen
        \/ /\ v \in DOMAIN d.shape /\ Named(d, v)
           /\ Finds(r, v, d.scale[v].n) /\ seen' = seen
        \/ /\ v \in DOMAIN d.shape /\ ~Named(d, v)
           /\ \/ Reads(r, v) /\ Finds(r, v, SizeInData(d, v))
              \/ Fails(r, "io") /\ sizes' = sizes /\ seen' = seen
    BY <1>7, <2>1 DEF FindDimension, There, d
  <2>7. ASSUME NEW size, size = DimensionSize(d, v), Finds(r, v, size), seen' = seen \/ ReadIt
        PROVE  Effect(r)
    <3>1. CASE size \in 1..MaxElements
      <4>1. Went /\ sizes' = [sizes EXCEPT ![r][v] = DimensionSize(d, v)]
        BY <2>2, <2>7, <3>1 DEF Finds
      <4> HIDE DEF Went, ReadIt
      <4>2. QED
        BY <1>5, <2>1, <2>7, <4>1
    <3>2. CASE size \notin 1..MaxElements
      <4>1. Fails(r, "dimension") /\ sizes' = sizes /\ ~Passes(d, r, step)
        BY <2>2, <2>7, <3>2 DEF Finds
      <4> HIDE DEF Failed, ReadIt
      <4>2. QED
        BY <1>4, <2>1, <2>3, <2>5, <2>7, <4>1
    <3>3. QED
      BY <3>1, <3>2
  <2>8. CASE v \notin DOMAIN d.shape /\ Fails(r, "dimension") /\ sizes' = sizes /\ seen' = seen
    <3>1. ~Passes(d, r, step)
      <4>1. DimensionSize(d, v) = 0
        BY <2>8 DEF DimensionSize
      <4>2. QED
        BY <2>2, <4>1
    <3> HIDE DEF Failed, ReadIt
    <3>2. QED
      BY <1>4, <2>1, <2>3, <2>5, <2>8, <3>1
  <2>9. CASE v \in DOMAIN d.shape /\ Named(d, v) /\ Finds(r, v, d.scale[v].n) /\ seen' = seen
    <3>1. DimensionSize(d, v) = d.scale[v].n
      BY <2>9 DEF DimensionSize
    <3> HIDE DEF ReadIt
    <3>2. QED
      BY <2>7, <2>9, <3>1
  <2>10. CASE v \in DOMAIN d.shape /\ ~Named(d, v) /\ Reads(r, v) /\ Finds(r, v, SizeInData(d, v))
    <3>1. DimensionSize(d, v) = SizeInData(d, v)
      BY <2>10 DEF DimensionSize
    <3>2. ReadIt
      BY <2>1, <2>10 DEF Reads, MayRead
    <3> HIDE DEF ReadIt
    <3>3. QED
      BY <2>7, <2>10, <3>1, <3>2
  <2>11. CASE Fails(r, "io") /\ sizes' = sizes /\ seen' = seen
    <3> HIDE DEF Failed, ReadIt
    <3>1. QED
      BY <1>4, <2>1, <2>3, <2>4, <2>11
  <2>12. QED
    BY <2>6, <2>8, <2>9, <2>10, <2>11
<1>8. CASE CheckProduct(r)
  <2>1. step.do = "product" /\ opened' = opened /\ seen' = seen /\ sizes' = sizes
    BY <1>8 DEF CheckProduct, At, step
  <2>2. Passes(d, r, step) <=> Count(FoundSizes(d)) <= MaxElements
    BY <2>1 DEF Passes
  <2>3. IF Count(FoundSizes(d)) <= MaxElements THEN Goes(r) ELSE Fails(r, "product")
    BY <1>2, <1>8, <2>1 DEF CheckProduct
  <2>4. "product" \in Reasons
    BY DEF Reasons
  <2>5. Went \/ Failed("product")
    BY <2>1, <2>2, <2>3
  <2> HIDE DEF Went, Failed, ReadIt
  <2>6. QED
    BY <1>4, <2>1, <2>4, <2>5
<1>9. CASE CheckSections(r)
  <2>1. step.do = "sections" /\ opened' = opened /\ seen' = seen /\ sizes' = sizes
    BY <1>9 DEF CheckSections, At, step
  <2>2. Passes(d, r, step) <=> FoundSizes(d)["N"] % 6 = 0
    BY <2>1 DEF Passes
  <2>3. IF FoundSizes(d)["N"] % 6 = 0 THEN Goes(r) ELSE Fails(r, "sections")
    BY <1>2, <1>9, <2>1 DEF CheckSections
  <2>4. "sections" \in Reasons
    BY DEF Reasons
  <2>5. Went \/ Failed("sections")
    BY <2>1, <2>2, <2>3
  <2> HIDE DEF Went, Failed, ReadIt
  <2>6. QED
    BY <1>4, <2>1, <2>4, <2>5
<1>10. CASE CheckLayout(r)
  <2>1. /\ step.do = "layout" /\ opened' = opened /\ seen' = seen /\ sizes' = sizes
        /\ v = Var(r) /\ sizes[r] = FoundSizes(d)
    BY <1>2, <1>10 DEF CheckLayout, At, Var, step
  <2>2. Passes(d, r, step) <=>
          v \in DOMAIN d.shape /\ Fits(d, FoundSizes(d), r, v) /\ v \notin d.odd
    BY <2>1 DEF Passes
  <2>3. IF v \notin DOMAIN d.shape THEN Fails(r, "missing")
        ELSE IF ~Fits(d, FoundSizes(d), r, v) THEN Fails(r, "layout")
        ELSE \/ IF v \in d.odd THEN Fails(r, "datatype") ELSE Goes(r)
             \/ Fails(r, "io")
    BY <1>10, <2>1 DEF CheckLayout, There, d
  <2>4. {"missing", "layout", "datatype", "io"} \subseteq Reasons
    BY DEF Reasons
  <2>5. Went \/ Failed("missing") \/ Failed("layout") \/ Failed("datatype") \/ Failed("io")
    BY <2>1, <2>2, <2>3
  <2> HIDE DEF Went, Failed, ReadIt
  <2>6. QED
    BY <1>4, <2>1, <2>4, <2>5
<1>11. CASE ReadVariable(r)
  <2>1. /\ step.do = "read" /\ opened' = opened /\ sizes' = sizes
        /\ v = Var(r) /\ sizes[r] = FoundSizes(d)
    BY <1>2, <1>11 DEF ReadVariable, At, Var, step
  <2>2. Passes(d, r, step) <=>
          \/ v \in DOMAIN d.shape /\ Fits(d, FoundSizes(d), r, v) /\ v \notin d.odd
          \/ v \notin DOMAIN d.shape \cup Range(AudioOf(d.type))
    BY <2>1 DEF Passes
  <2>3. IF v \notin DOMAIN d.shape
        THEN /\ IF v \in Range(AudioOf(d.type)) THEN Fails(r, "missing") ELSE Goes(r)
             /\ seen' = seen
        ELSE IF ~Fits(d, FoundSizes(d), r, v) THEN Fails(r, "layout") /\ seen' = seen
        ELSE IF v \in d.odd THEN Fails(r, "datatype") /\ seen' = seen
        ELSE \/ Reads(r, v) /\ Goes(r)
             \/ Fails(r, "io") /\ seen' = seen
    BY <1>11, <2>1 DEF ReadVariable, There, d
  <2>4. {"missing", "layout", "datatype", "io"} \subseteq Reasons
    BY DEF Reasons
  <2>5. /\ Went \/ Failed("missing") \/ Failed("layout") \/ Failed("datatype") \/ Failed("io")
        /\ seen' = seen \/ ReadIt
    BY <2>1, <2>2, <2>3 DEF Reads, MayRead
  <2> HIDE DEF Went, Failed, ReadIt
  <2>6. QED
    BY <1>4, <2>1, <2>4, <2>5
<1>12. CASE ReadRoom(r)
  <2>1. /\ step.do = "room" /\ opened' = opened /\ sizes' = sizes /\ Goes(r) /\ v = Var(r)
        /\ seen' = seen \/ (There(v) /\ Reads(r, v))
    BY <1>12 DEF ReadRoom, At, Var, step
  <2>2. Went
    BY <2>1 DEF Passes
  <2>3. seen' = seen \/ ReadIt
    BY <2>1 DEF MayRead, Reads, There, d
  <2> HIDE DEF Went, Failed, ReadIt
  <2>4. QED
    BY <1>4, <2>1, <2>2, <2>3
<1>13. CASE ReadExtra(r)
  <2>1. /\ step.do = "extra" /\ opened' = opened /\ sizes' = sizes /\ Goes(r) /\ v = Var(r)
        /\ seen' = seen \/ Reads(r, v)
    BY <1>13 DEF ReadExtra, At, Var, step
  <2>2. Went
    BY <2>1 DEF Passes
  <2>3. seen' = seen \/ ReadIt
    BY <1>3, <2>1 DEF MayRead, Reads
  <2> HIDE DEF Went, Failed, ReadIt
  <2>4. QED
    BY <1>4, <2>1, <2>2, <2>3
<1>14. QED
  BY <1>6, <1>7, <1>8, <1>9, <1>10, <1>11, <1>12, <1>13 DEF ReadStep

-----------------------------------------------------------------------------
(* The invariant of reading.                                               *)

\* What a step leaves of the plan: one step less, or nothing.
LEMMA PlanShrinks ==
  ASSUME ReadInv, NEW r \in Readers, Effect(r)
  PROVE  /\ LeftToDo(r)' /\ Behind(r)' \in Behind(r) + 1..Len(Plan(Given, r))
         /\ Goes(r) => Behind(r)' = Behind(r) + 1 /\ outcome'[r] \in {"none", "ok"}
         /\ outcome' \in [Readers -> {"none", "ok"} \cup Reasons] /\ DOMAIN todo' = Readers
         /\ \A q \in Readers : q # r => todo'[q] = todo[q] /\ outcome'[q] = outcome[q]
<1> DEFINE plan == Plan(Given, r)
           len == Len(plan)
           k == Behind(r)
           S == StepSet(Given, r)
<1>1. /\ opened # <<>> /\ outcome[r] = "none" /\ plan \in Seq(S) /\ k \in 0..len - 1
      /\ Tail(todo[r]) = SubSeq(plan, k + 2, len) /\ Len(todo[r]) = len - k
  <2>1. todo[r] # <<>>
    BY DEF Effect
  <2>2. QED
    BY <2>1, NextStep
<1>2. opened' = opened /\ Given' = Given
  BY DEF Effect, Given
<1>3. /\ DOMAIN todo = Readers /\ DOMAIN outcome = Readers
      /\ outcome \in [Readers -> {"none", "ok"} \cup Reasons]
  BY DEF ReadInv, ReadTypeOK, Reasons
<1>4. plan' = plan
  BY <1>2
<1>5. Behind(r)' = len - Len(todo'[r])
  BY <1>4 DEF Behind
<1>6. len \in Nat
  BY <1>1
<1> HIDE DEF plan, k, S
<1>7. ASSUME NEW j \in 0..len, todo'[r] = SubSeq(plan, j + 1, len),
             outcome'[r] = "none" <=> j # len
      PROVE  LeftToDo(r)' /\ Behind(r)' = j
  <2> DEFINE end == SubSeq(plan, j + 1, Len(plan))
  <2>1. Len(end) = Len(plan) - j /\ (end = <<>> <=> j = Len(plan))
    BY <1>1, <1>7, EndOfSequence
  <2>2. todo'[r] = end
    BY <1>7
  <2> HIDE DEF end
  <2>3. Behind(r)' = j
    BY <1>5, <1>6, <2>1, <2>2
  <2>4. QED
    BY <1>4, <1>7, <2>1, <2>2, <2>3 DEF LeftToDo, end, plan
<1>8. CASE Goes(r)
  <2>1. /\ todo' = [todo EXCEPT ![r] = Tail(todo[r])]
        /\ outcome' = [outcome EXCEPT ![r] = IF Len(todo[r]) = 1 THEN "ok" ELSE outcome[r]]
    BY <1>8 DEF Goes
  <2>2. /\ todo'[r] = Tail(todo[r])
        /\ outcome'[r] = IF Len(todo[r]) = 1 THEN "ok" ELSE "none"
    BY <1>1, <1>3, <2>1
  <2>3. k + 1 \in 0..len /\ (Len(todo[r]) = 1 <=> k + 1 = len) /\ (k + 1) + 1 = k + 2
    BY <1>1, <1>6
  <2>4. todo'[r] = SubSeq(plan, (k + 1) + 1, len) /\ (outcome'[r] = "none" <=> k + 1 # len)
    BY <1>1, <2>2, <2>3
  <2>5. LeftToDo(r)' /\ Behind(r)' = k + 1
    <3> DEFINE j == k + 1
    <3>1. j \in 0..len /\ todo'[r] = SubSeq(plan, j + 1, len) /\ (outcome'[r] = "none" <=> j # len)
      BY <2>3, <2>4
    <3> HIDE DEF j
    <3>2. LeftToDo(r)' /\ Behind(r)' = j
      BY <1>7, <3>1
    <3>3. QED
      BY <3>2 DEF j
  <2>6. outcome' \in [Readers -> {"none", "ok"} \cup Reasons] /\ DOMAIN todo' = Readers
    BY <1>1, <1>3, <2>1
  <2>7. \A q \in Readers : q # r => todo'[q] = todo[q] /\ outcome'[q] = outcome[q]
    BY <1>3, <2>1
  <2>8. QED
    BY <1>1, <1>6, <2>2, <2>3, <2>5, <2>6, <2>7 DEF plan, k
<1>9. CASE ~Goes(r)
  <2>1. PICK why \in Reasons : Fails(r, why)
    BY <1>9 DEF Effect
  <2>2. /\ todo' = [todo EXCEPT ![r] = <<>>]
        /\ outcome' = [outcome EXCEPT ![r] = why]
    BY <2>1 DEF Fails
  <2>3. todo'[r] = <<>> /\ outcome'[r] = why /\ why # "none"
    BY <1>3, <2>2 DEF Reasons
  <2>4. SubSeq(plan, len + 1, len) = <<>>
    BY <1>6, SubSeqEmpty
  <2>5. LeftToDo(r)' /\ Behind(r)' = len
    BY <1>6, <1>7, <2>3, <2>4
  <2>6. outcome' \in [Readers -> {"none", "ok"} \cup Reasons] /\ DOMAIN todo' = Readers
    BY <1>1, <1>3, <2>2
  <2>7. \A q \in Readers : q # r => todo'[q] = todo[q] /\ outcome'[q] = outcome[q]
    BY <1>3, <2>2
  <2>8. QED
    BY <1>1, <1>6, <1>9, <2>5, <2>6, <2>7 DEF plan, k
<1>10. QED
  BY <1>8, <1>9

\* What has been found out stays so, and what a step finds out is added.
LEMMA FindsOut ==
  ASSUME ReadInv, NEW r \in Readers, Effect(r)
  PROVE  /\ FoundOut(r)' /\ sizes' \in [Readers -> [Sizes -> Int]]
         /\ \A q \in Readers : q # r => sizes'[q] = sizes[q]
<1> DEFINE plan == Plan(Given, r)
           len == Len(plan)
           k == Behind(r)
           step == plan[k + 1]
           d == Given
<1>1. /\ opened # <<>> /\ outcome[r] = "none" /\ StoredFile(d) /\ plan \in Seq(StepSet(d, r))
      /\ k \in 0..len - 1 /\ Head(todo[r]) = step /\ step \in StepSet(d, r)
  <2>1. todo[r] # <<>>
    BY DEF Effect
  <2>2. QED
    BY <2>1, NextStep
<1>2. Given' = Given /\ plan' = plan
  BY DEF Effect, Given
<1>3. /\ Behind(r)' \in k + 1..len
      /\ Goes(r) => Behind(r)' = k + 1 /\ outcome'[r] \in {"none", "ok"}
  BY PlanShrinks
<1>4. sizes \in [Readers -> [Sizes -> Int]]
  BY DEF ReadInv, ReadTypeOK
<1>5. FoundOut(r)
  BY <1>1 DEF ReadInv
<1>6. /\ \A i \in 1..k : plan[i].do = "dimension" => sizes[r][plan[i].var] = DimensionSize(d, plan[i].var)
      /\ \A i \in 1..k : Passes(d, r, plan[i])
      /\ k > 0 => WithinBudget(d, r)
  BY <1>1, <1>5 DEF FoundOut
<1>7. plan[1].do = "budget" /\ \A i \in 2..len : plan[i].do # "budget"
  <2>1. /\ plan[1].do = "budget" /\ plan[6].do = "product"
        /\ \A i \in 2..5 : plan[i].do = "dimension"
        /\ \A i \in 7..len : plan[i].do # "budget"
    BY <1>1, PlanOrder
  <2>2. len \in Nat
    BY <1>1
  <2> HIDE DEF plan, len
  <2>3. ASSUME NEW i \in 2..len PROVE plan[i].do # "budget"
    <3>1. i \in 2..5 \/ i = 6 \/ i \in 7..len
      BY <2>2
    <3>2. QED
      BY <2>1, <3>1
  <2>4. QED
    BY <2>1, <2>3
<1>8. step.do = "dimension" => step.var \in Sizes
  <2> HIDE DEF step
  <2>1. QED
    BY <1>1, StepsOfPlan
<1>9. len \in Nat
  BY <1>1
<1> DEFINE Went == /\ Goes(r) /\ Passes(d, r, step)
                   /\ sizes' = IF step.do = "dimension"
                               THEN [sizes EXCEPT ![r][step.var] = DimensionSize(d, step.var)] ELSE sizes
           Failed(why) == /\ Fails(r, why) /\ sizes' = sizes
                          /\ why # "io" => ~Passes(d, r, step)
                          /\ why = "too large" <=> step.do = "budget"
<1>10. Went \/ \E why \in Reasons : Failed(why)
  BY <1>1 DEF Effect
<1> HIDE DEF plan, len, k, step, d
<1>11. FoundOut(r)' <=>
         /\ outcome'[r] = "none" =>
              \A i \in 1..Behind(r)' : plan[i].do = "dimension" =>
                sizes'[r][plan[i].var] = DimensionSize(d, plan[i].var)
         /\ outcome'[r] \in {"none", "ok"} => \A i \in 1..Behind(r)' : Passes(d, r, plan[i])
         /\ outcome'[r] # "too large" /\ Behind(r)' > 0 => WithinBudget(d, r)
         /\ outcome'[r] \notin {"none", "ok", "io"} =>
              \E i \in DOMAIN plan : /\ ~Passes(d, r, plan[i])
                                     /\ outcome'[r] = "too large" <=> plan[i].do = "budget"
  BY <1>2 DEF FoundOut, plan, d
<1>12. CASE Went
  <2>1. Behind(r)' = k + 1 /\ outcome'[r] \in {"none", "ok"}
    BY <1>3, <1>12
  <2>2. /\ sizes' \in [Readers -> [Sizes -> Int]]
        /\ \A q \in Readers : q # r => sizes'[q] = sizes[q]
        /\ \A s \in Sizes : step.do # "dimension" \/ s # step.var => sizes'[r][s] = sizes[r][s]
        /\ step.do = "dimension" => sizes'[r][step.var] = DimensionSize(d, step.var)
    <3>1. CASE step.do = "dimension"
      <4>1. sizes' = [sizes EXCEPT ![r][step.var] = DimensionSize(d, step.var)]
        BY <1>12, <3>1
      <4>2. DimensionSize(d, step.var) \in Int
        <5>1. DimensionSize(d, step.var) \in 1..MaxElements
          BY <1>12, <3>1 DEF Passes
        <5>2. QED
          BY <5>1, LimitGiven
      <4> HIDE DEF Went
      <4>3. QED
        BY <1>4, <1>8, <3>1, <4>1, <4>2
    <3>2. CASE step.do # "dimension"
      BY <1>4, <1>12, <3>2
    <3>3. QED
      BY <3>1, <3>2
  <2>3. ASSUME NEW i \in 1..k + 1, plan[i].do = "dimension"
        PROVE  sizes'[r][plan[i].var] = DimensionSize(d, plan[i].var)
    <3>1. plan[i].var \in Sizes
      <4>1. plan[i] \in StepSet(d, r)
        BY <1>1, <1>9 DEF len
      <4>2. QED
        BY <2>3, <4>1, StepsOfPlan
    <3>2. CASE i = k + 1
      BY <2>2, <2>3, <3>2 DEF step
    <3>3. CASE i # k + 1
      <4>1. i \in 1..k
        BY <1>1, <1>9, <3>3
      <4>2. sizes[r][plan[i].var] = DimensionSize(d, plan[i].var)
        BY <1>6, <2>3, <4>1
      <4>3. QED
        BY <2>2, <3>1, <4>2
    <3>4. QED
      BY <3>2, <3>3
  <2>4. ASSUME NEW i \in 1..k + 1 PROVE Passes(d, r, plan[i])
    <3>1. CASE i = k + 1
      BY <1>12, <3>1 DEF step
    <3>2. CASE i # k + 1
      <4>1. i \in 1..k
        BY <1>1, <1>9, <3>2
      <4>2. QED
        BY <1>6, <4>1
    <3>3. QED
      BY <3>1, <3>2
  <2>5. WithinBudget(d, r)
    <3>1. CASE k > 0
      BY <1>6, <3>1
    <3>2. CASE k = 0
      <4>1. step.do = "budget"
        BY <1>7, <3>2 DEF step
      <4>2. QED
        BY <1>12, <4>1 DEF Passes
    <3>3. QED
      BY <1>1, <1>9, <3>1, <3>2
  <2> HIDE DEF Went
  <2>6. QED
    BY <1>11, <2>1, <2>2, <2>3, <2>4, <2>5
<1>13. ASSUME NEW why \in Reasons, Failed(why)
       PROVE  /\ FoundOut(r)' /\ sizes' \in [Readers -> [Sizes -> Int]]
              /\ \A q \in Readers : q # r => sizes'[q] = sizes[q]
  <2>1. sizes' = sizes /\ outcome'[r] = why
    <3>1. DOMAIN outcome = Readers
      BY DEF ReadInv, ReadTypeOK
    <3>2. QED
      BY <1>13, <3>1 DEF Fails
  <2>2. why \notin {"none", "ok"}
    BY DEF Reasons
  <2>3. k + 1 \in DOMAIN plan /\ k + 1 \in 1..len
    BY <1>1, <1>9 DEF len
  <2>4. why # "too large" => WithinBudget(d, r)
    <3>1. why # "too large" => step.do # "budget"
      BY <1>13
    <3>2. step.do # "budget" => k + 1 # 1
      BY <1>7 DEF step
    <3>3. k + 1 # 1 => k > 0
      BY <1>1, <1>9
    <3> HIDE DEF Failed
    <3>4. QED
      BY <1>6, <3>1, <3>2, <3>3
  <2>5. why # "io" => ~Passes(d, r, plan[k + 1]) /\ (why = "too large" <=> plan[k + 1].do = "budget")
    BY <1>13 DEF step
  <2> HIDE DEF Failed
  <2>6. QED
    BY <1>4, <1>11, <2>1, <2>2, <2>3, <2>4, <2>5
<1>14. QED
  BY <1>10, <1>12, <1>13

\* What was read was read by a step behind, and nothing was when the budget
\* does not suffice.
LEMMA ReadsOnce ==
  ASSUME ReadInv, NEW r \in Readers, Effect(r)
  PROVE  /\ ReadBehind(r)' /\ seen' \in [Readers -> [DOMAIN Given.shape -> 0..2]]
         /\ \A q \in Readers : q # r => seen'[q] = seen[q]
<1> DEFINE plan == Plan(Given, r)
           len == Len(plan)
           k == Behind(r)
           step == plan[k + 1]
           D == DOMAIN Given.shape
           Reading(i, v) == MayRead(plan[i], v)
<1>1. /\ opened # <<>> /\ StoredFile(Given) /\ plan \in Seq(StepSet(Given, r))
      /\ k \in 0..len - 1 /\ Head(todo[r]) = step
  <2>1. todo[r] # <<>>
    BY DEF Effect
  <2>2. QED
    BY <2>1, NextStep
<1>2. Given' = Given /\ plan' = plan /\ len \in Nat
  <2>1. Given' = Given
    BY DEF Effect, Given
  <2>2. QED
    BY <1>1, <2>1
<1>3. Behind(r)' \in k + 1..len /\ (Goes(r) => outcome'[r] \in {"none", "ok"})
  BY PlanShrinks
<1>4. seen \in [Readers -> [D -> 0..2]] /\ ReadBehind(r) /\ DOMAIN outcome = Readers
  BY <1>1 DEF ReadInv, ReadTypeOK
<1>5. /\ plan[1].do = "budget" /\ plan[6].do = "product"
      /\ \A i \in 2..5 : plan[i].do = "dimension"
      /\ \A i \in 7..len : plan[i].do # "budget"
  BY <1>1, PlanOrder
<1>6. \/ seen' = seen
      \/ /\ Reading(k + 1, step.var) /\ step.var \in D
         /\ seen' = [seen EXCEPT ![r][step.var] = @ + 1]
  BY <1>1 DEF Effect
<1>7. outcome'[r] = "too large" => step.do = "budget"
  <2>1. \/ Goes(r)
        \/ \E why \in Reasons : Fails(r, why) /\ (why = "too large" <=> step.do = "budget")
    BY <1>1 DEF Effect
  <2>2. \A why : Fails(r, why) => outcome'[r] = why
    BY <1>4 DEF Fails
  <2> HIDE DEF step
  <2>3. QED
    BY <1>3, <2>1, <2>2
<1>8. ASSUME NEW i \in 1..len, NEW v, Reading(i, v)
      PROVE  /\ plan[i].do # "budget"
             /\ \A j \in 1..len : Reading(j, v) /\ i # j =>
                  \A m \in 1..len : Reading(m, v) => m \in {i, j}
  <2>1. i \in 1..Len(Plan(Given, r)) /\ MayRead(Plan(Given, r)[i], v)
    BY <1>8
  <2>2. \A j \in 1..len : Reading(j, v) /\ i # j =>
          \A m \in 1..len : Reading(m, v) => m \in {i, j}
    BY <1>1, <2>1, ReadByTwoSteps
  <2>3. plan[i].do # "budget"
    BY <1>8 DEF MayRead
  <2>4. QED
    BY <2>2, <2>3
<1> HIDE DEF Reading, plan, len, k, D
<1>9. \A v \in D : /\ seen[r][v] > 0 => outcome[r] # "too large" /\ \E i \in 1..k : Reading(i, v)
                   /\ seen[r][v] = 2 => \E i, j \in 1..k : Reading(i, v) /\ Reading(j, v) /\ i # j
  BY <1>4 DEF ReadBehind, Reading, plan, k, D
<1>10. ReadBehind(r)' <=>
         \A v \in D :
           /\ seen'[r][v] > 0 => outcome'[r] # "too large" /\ \E i \in 1..Behind(r)' : Reading(i, v)
           /\ seen'[r][v] = 2 => \E i, j \in 1..Behind(r)' : Reading(i, v) /\ Reading(j, v) /\ i # j
  BY <1>2 DEF ReadBehind, Reading, plan, D
<1>11. k \in Nat /\ k + 1 \in 1..len /\ \A i \in 1..k : i \in 1..len /\ i # k + 1
  BY <1>1, <1>2
<1>12. \A i \in 1..k + 1 : i \in 1..Behind(r)'
  BY <1>3, <1>11
<1>13. step.do = "budget" => k = 0
  <2>1. k + 1 \in 2..5 \/ k + 1 = 6 \/ k + 1 \in 7..len \/ k = 0
    BY <1>2, <1>11
  <2>2. QED
    BY <1>5, <2>1 DEF step
<1> HIDE DEF step
<1>14. CASE seen' = seen
  <2>1. ASSUME NEW v \in D, seen'[r][v] > 0
        PROVE  outcome'[r] # "too large" /\ \E i \in 1..Behind(r)' : Reading(i, v)
    <3>1. PICK i \in 1..k : Reading(i, v)
      BY <1>9, <1>14, <2>1
    <3>2. k # 0
      BY <1>11, <3>1
    <3>3. outcome'[r] # "too large"
      BY <1>7, <1>13, <3>2
    <3>4. i \in 1..Behind(r)'
      BY <1>11, <1>12, <3>1
    <3>5. QED
      BY <3>1, <3>3, <3>4
  <2>2. ASSUME NEW v \in D, seen'[r][v] = 2
        PROVE  \E i, j \in 1..Behind(r)' : Reading(i, v) /\ Reading(j, v) /\ i # j
    <3>1. PICK i \in 1..k, j \in 1..k : Reading(i, v) /\ Reading(j, v) /\ i # j
      BY <1>9, <1>14, <2>2
    <3>2. i \in 1..Behind(r)' /\ j \in 1..Behind(r)'
      BY <1>11, <1>12
    <3>3. QED
      BY <3>1, <3>2
  <2>3. QED
    BY <1>4, <1>10, <1>14, <2>1, <2>2 DEF D
<1>15. CASE /\ Reading(k + 1, step.var) /\ step.var \in D
            /\ seen' = [seen EXCEPT ![r][step.var] = @ + 1]
  <2> DEFINE w == step.var
  <2>1. /\ outcome'[r] # "too large" /\ k + 1 \in 1..Behind(r)'
    <3>1. plan[k + 1].do # "budget"
      BY <1>8, <1>11, <1>15
    <3>2. step.do # "budget"
      BY <3>1 DEF step
    <3>3. k + 1 \in 1..k + 1
      BY <1>11
    <3>4. k + 1 \in 1..Behind(r)'
      BY <1>12, <3>3
    <3>5. QED
      BY <1>7, <3>2, <3>4
  <2>2. seen[r][w] # 2
    <3>1. SUFFICES ASSUME seen[r][w] = 2 PROVE FALSE
      OBVIOUS
    <3>2. PICK i \in 1..k, j \in 1..k : Reading(i, w) /\ Reading(j, w) /\ i # j
      BY <1>9, <1>15, <3>1
    <3>3. i \in 1..len /\ j \in 1..len /\ i # k + 1 /\ j # k + 1
      BY <1>11
    <3>4. k + 1 \in {i, j}
      BY <1>8, <1>11, <1>15, <3>2, <3>3
    <3>5. QED
      BY <3>3, <3>4
  <2>3. /\ seen'[r][w] = seen[r][w] + 1 /\ \A v \in D : v # w => seen'[r][v] = seen[r][v]
        /\ seen[r][w] \in 0..2 /\ \A q \in Readers : q # r => seen'[q] = seen[q]
    BY <1>4, <1>15
  <2>4. seen' \in [Readers -> [D -> 0..2]]
    <3>1. seen[r][w] + 1 \in 0..2
      BY <2>2, <2>3
    <3>2. QED
      BY <1>4, <1>15, <3>1
  <2>5. ASSUME NEW v \in D, seen'[r][v] > 0
        PROVE  \E i \in 1..Behind(r)' : Reading(i, v)
    <3>1. CASE v = w
      BY <1>15, <2>1, <3>1
    <3>2. CASE v # w
      <4>1. PICK i \in 1..k : Reading(i, v)
        BY <1>9, <2>3, <2>5, <3>2
      <4>2. i \in 1..Behind(r)'
        BY <1>11, <1>12
      <4>3. QED
        BY <4>1, <4>2
    <3>3. QED
      BY <3>1, <3>2
  <2>6. ASSUME NEW v \in D, seen'[r][v] = 2
        PROVE  \E i, j \in 1..Behind(r)' : Reading(i, v) /\ Reading(j, v) /\ i # j
    <3>1. CASE v = w
      <4>1. seen[r][w] > 0
        BY <2>3, <2>6, <3>1
      <4>2. PICK i \in 1..k : Reading(i, w)
        BY <1>9, <1>15, <4>1
      <4>3. i \in 1..Behind(r)' /\ i # k + 1
        BY <1>11, <1>12
      <4>4. QED
        BY <1>15, <2>1, <3>1, <4>2, <4>3
    <3>2. CASE v # w
      <4>1. PICK i \in 1..k, j \in 1..k : Reading(i, v) /\ Reading(j, v) /\ i # j
        BY <1>9, <2>3, <2>6, <3>2
      <4>2. i \in 1..Behind(r)' /\ j \in 1..Behind(r)'
        BY <1>11, <1>12
      <4>3. QED
        BY <4>1, <4>2
    <3>3. QED
      BY <3>1, <3>2
  <2>7. ReadBehind(r)'
    BY <1>10, <2>1, <2>5, <2>6
  <2>8. QED
    BY <2>3, <2>4, <2>7 DEF D
<1>16. QED
  BY <1>6, <1>14, <1>15

\* A step of one reader keeps the invariant; the other one is as it was.
LEMMA EffectKeeps ==
  ASSUME ReadInv, NEW r \in Readers, Effect(r)
  PROVE  ReadInv'
<1>1. opened # <<>> /\ opened' = opened /\ Given' = Given
  BY DEF Effect, Given
<1>2. /\ LeftToDo(r)' /\ outcome' \in [Readers -> {"none", "ok"} \cup Reasons]
      /\ DOMAIN todo' = Readers
      /\ \A q \in Readers : q # r => todo'[q] = todo[q] /\ outcome'[q] = outcome[q]
  BY PlanShrinks
<1>3. /\ FoundOut(r)' /\ sizes' \in [Readers -> [Sizes -> Int]]
      /\ \A q \in Readers : q # r => sizes'[q] = sizes[q]
  BY FindsOut
<1>4. /\ ReadBehind(r)' /\ seen' \in [Readers -> [DOMAIN Given.shape -> 0..2]]
      /\ \A q \in Readers : q # r => seen'[q] = seen[q]
  BY ReadsOnce
<1>5. StoredFile(Given)
  BY <1>1 DEF ReadInv, ReadTypeOK
<1>6. ReadTypeOK'
  <2>1. StoredFile(Given)' /\ seen' \in [Readers -> [DOMAIN Given'.shape -> 0..2]]
    BY <1>1, <1>4, <1>5
  <2>2. QED
    BY <1>1, <1>2, <1>3, <2>1 DEF ReadTypeOK, Reasons
<1>7. ASSUME NEW q \in Readers PROVE (LeftToDo(q) /\ FoundOut(q) /\ ReadBehind(q))'
  <2>1. CASE q = r
    BY <1>2, <1>3, <1>4, <2>1
  <2>2. CASE q # r
    <3>1. LeftToDo(q) /\ FoundOut(q) /\ ReadBehind(q)
      BY <1>1 DEF ReadInv
    <3>2. /\ todo'[q] = todo[q] /\ outcome'[q] = outcome[q] /\ sizes'[q] = sizes[q]
          /\ seen'[q] = seen[q]
      BY <1>2, <1>3, <1>4, <2>2
    <3>3. Behind(q)' = Behind(q)
      BY <1>1, <3>2 DEF Behind
    <3>4. LeftToDo(q)'
      BY <1>1, <3>1, <3>2, <3>3 DEF LeftToDo
    <3>5. FoundOut(q)'
      BY <1>1, <3>1, <3>2, <3>3 DEF FoundOut
    <3>6. ReadBehind(q)'
      BY <1>1, <3>1, <3>2, <3>3 DEF ReadBehind
    <3>7. QED
      BY <3>4, <3>5, <3>6
  <2>3. QED
    BY <2>1, <2>2
<1>8. QED
  BY <1>6, <1>7 DEF ReadInv

-----------------------------------------------------------------------------
(* The invariant holds.                                                    *)

\* Before a file is given, nothing is to be done.
LEMMA ReadInit == InitRead => ReadInv
BY DEF InitRead, ReadInv, ReadTypeOK, Sizes, Readers

\* A file that is given is still to be read, all of it.
LEMMA GivenKeeps ==
  ASSUME ReadInv, NEW d, StoredFile(d), GivenTo(d)
  PROVE  ReadInv'
<1>1. /\ opened = <<>> /\ opened' = <<d>> /\ todo' = [r \in Readers |-> Plan(d, r)]
      /\ seen' = [r \in Readers |-> [v \in DOMAIN d.shape |-> 0]]
      /\ sizes' = sizes /\ outcome' = outcome
  BY DEF GivenTo
<1>2. Given' = d /\ opened' # <<>>
  BY <1>1 DEF Given
<1>3. /\ outcome = [r \in Readers |-> "none"]
      /\ sizes \in [Readers -> [Sizes -> Int]]
  BY <1>1 DEF ReadInv, ReadTypeOK
<1>4. ReadTypeOK'
  <2>1. seen' \in [Readers -> [DOMAIN d.shape -> 0..2]]
    BY <1>1
  <2>2. (opened = <<>>)' = FALSE
    BY <1>2
  <2>3. (StoredFile(Given) /\ seen \in [Readers -> [DOMAIN Given.shape -> 0..2]])'
    BY <1>2, <2>1
  <2>4. /\ DOMAIN todo' = Readers
        /\ outcome' \in [Readers -> {"none", "ok", "too large", "dimension", "product", "missing",
                                     "layout", "datatype", "sections", "io"}]
    BY <1>1, <1>3
  <2>5. QED
    BY <1>1, <1>3, <2>2, <2>3, <2>4 DEF ReadTypeOK
<1>5. ASSUME NEW r \in Readers PROVE (LeftToDo(r) /\ FoundOut(r) /\ ReadBehind(r))'
  <2> DEFINE plan == Plan(d, r)
  <2>1. plan \in Seq(StepSet(d, r)) /\ Len(plan) \in Nat /\ Len(plan) >= 6
    BY PlanOrder
  <2>2. todo'[r] = plan /\ outcome'[r] = "none"
    BY <1>1, <1>3
  <2>3. Plan(Given, r)' = plan
    BY <1>2
  <2> HIDE DEF plan
  <2>4. Behind(r)' = 0
    BY <2>1, <2>2, <2>3 DEF Behind
  <2>5. plan = SubSeq(plan, 1, Len(plan)) /\ plan # <<>>
    BY <2>1
  <2>6. LeftToDo(r)'
    BY <2>1, <2>2, <2>3, <2>4, <2>5 DEF LeftToDo
  <2>7. FoundOut(r)'
    BY <2>2, <2>3, <2>4 DEF FoundOut
  <2>8. ReadBehind(r)'
    <3>1. \A v \in DOMAIN d.shape : seen'[r][v] = 0
      BY <1>1
    <3>2. ASSUME NEW v \in DOMAIN Given'.shape
          PROVE  ~(seen'[r][v] > 0) /\ seen'[r][v] # 2
      BY <1>2, <3>1
    <3>3. QED
      BY <3>2 DEF ReadBehind
  <2>9. QED
    BY <2>6, <2>7, <2>8
<1>6. QED
  BY <1>4, <1>5 DEF ReadInv

\* Whatever else happens, the readers' state stands.
LEMMA ReadStands == ReadInv /\ UNCHANGED readVars => ReadInv'
<1> SUFFICES ASSUME ReadInv, UNCHANGED readVars PROVE ReadInv'
  OBVIOUS
<1>1. /\ opened' = opened /\ todo' = todo /\ sizes' = sizes /\ seen' = seen /\ outcome' = outcome
      /\ Given' = Given
  BY DEF readVars, Given
<1>2. ReadTypeOK'
  BY <1>1 DEF ReadInv, ReadTypeOK
<1>3. ASSUME opened # <<>>, NEW r \in Readers
      PROVE  (LeftToDo(r) /\ FoundOut(r) /\ ReadBehind(r))'
  <2>1. LeftToDo(r) /\ FoundOut(r) /\ ReadBehind(r)
    BY <1>3 DEF ReadInv
  <2>2. Behind(r)' = Behind(r)
    BY <1>1 DEF Behind
  <2>3. LeftToDo(r)'
    BY <1>1, <2>1, <2>2 DEF LeftToDo
  <2>4. FoundOut(r)'
    BY <1>1, <2>1, <2>2 DEF FoundOut
  <2>5. ReadBehind(r)'
    BY <1>1, <2>1, <2>2 DEF ReadBehind
  <2>6. QED
    BY <2>3, <2>4, <2>5
<1>4. QED
  BY <1>1, <1>2, <1>3 DEF ReadInv

\* The layouts a File's variables are written in are short lists of axes.
LEMMA SavedLayoutType ==
  ASSUME NEW f \in Files, NEW v \in SavedVariables(f) \cup Sizes \cup {"C", "I"}
  PROVE  /\ SavedLayout(f, v) \in Seq({"M", "R", "E", "N", "C", "I"})
         /\ SavedLayout(f, v) # <<>>
<1>1. f.emitterRows \in {"E", "I"} /\ f.room \subseteq Range(RoomVariables)
  BY FilesValid
<1>2. Range(RoomVariables) = {"RoomVolume", "RoomTemperature"}
  BY DEF RoomVariables, Range
<1>3. Range(Spatial) = {"ListenerPosition", "ReceiverPosition", "SourcePosition",
                        "EmitterPosition", "ListenerUp", "ListenerView"}
  BY DEF Spatial, Range
<1>4. v \in Range(AudioOf(f.type)) \cup Range(Spatial) \cup Range(RoomVariables)
              \cup {"Data.SamplingRate", "Data.Delay"} \cup Sizes \cup {"C", "I"}
  BY <1>1 DEF SavedVariables
<1>5. Range(AudioOf(f.type)) \subseteq {"Data.IR", "Data.SOS", "Data.Real", "Data.Imag"}
  BY DEF AudioOf, Range
<1>6. \/ SavedLayout(f, v) \in {MRN, MRNE, <<"M", "C">>, <<"R", "C", "I">>, <<"I", "C">>,
                              <<"I", "R">>, <<"I">>, <<f.emitterRows, "C", "I">>}
      \/ v \in Sizes \cup {"C", "I"} /\ SavedLayout(f, v) = <<v>>
  <2>1. CASE v \in Range(AudioOf(f.type))
    BY <1>2, <1>5, <2>1 DEF SavedLayout, Sizes
  <2>2. CASE v \in Range(Spatial)
    BY <1>2, <1>3, <1>5, <2>2 DEF SavedLayout, Sizes
  <2>3. CASE v \in Range(RoomVariables) \cup {"Data.SamplingRate", "Data.Delay"}
    BY <1>2, <1>5, <2>3 DEF SavedLayout, Sizes
  <2>4. CASE v \in Sizes \cup {"C", "I"}
    BY <1>2, <1>5, <2>4 DEF SavedLayout, Sizes
  <2>5. QED
    BY <1>4, <2>1, <2>2, <2>3, <2>4
<1> DEFINE l == SavedLayout(f, v)
           A == {"M", "R", "E", "N", "C", "I"}
           Good(x) == x \in Seq(A) /\ x # <<>>
<1>7. /\ Good(MRN) /\ Good(MRNE) /\ Good(<<"M", "C">>) /\ Good(<<"R", "C", "I">>)
      /\ Good(<<"I", "C">>) /\ Good(<<"I", "R">>) /\ Good(<<"I">>)
      /\ Good(<<f.emitterRows, "C", "I">>)
  BY <1>1 DEF MRN, MRNE
<1>8. v \in Sizes \cup {"C", "I"} => Good(<<v>>)
  BY DEF Sizes
<1> HIDE DEF Good
<1>9. Good(l)
  BY <1>6, <1>7, <1>8
<1>10. QED
  BY <1>9 DEF Good

\* A set that is enumerated is finite.
LEMMA FiveFinite ==
  ASSUME NEW a, NEW b, NEW c, NEW d, NEW e
  PROVE  IsFiniteSet({a, b, c, d, e})
<1>1. IsFiniteSet({a}) /\ IsFiniteSet({b}) /\ IsFiniteSet({c}) /\ IsFiniteSet({d}) /\ IsFiniteSet({e})
  BY FS_Singleton
<1>2. IsFiniteSet({a} \cup {b})
  BY <1>1, FS_Union
<1>3. IsFiniteSet(({a} \cup {b}) \cup {c})
  BY <1>1, <1>2, FS_Union
<1>4. IsFiniteSet((({a} \cup {b}) \cup {c}) \cup {d})
  BY <1>1, <1>3, FS_Union
<1>5. IsFiniteSet(((({a} \cup {b}) \cup {c}) \cup {d}) \cup {e})
  BY <1>1, <1>4, FS_Union
<1>6. {a, b, c, d, e} = ((({a} \cup {b}) \cup {c}) \cup {d}) \cup {e}
  OBVIOUS
<1>7. QED
  BY <1>5, <1>6

\* What WriteTo hands over is a stored file.
LEMMA SentStored ==
  ASSUME NEW f \in Files
  PROVE  StoredFile(Sent(f))
<1> DEFINE V == SavedVariables(f) \cup Sizes \cup {"C", "I"}
           d == Sent(f)
<1>1. d.type = f.type /\ d.bytes = f.bytes /\ DOMAIN d.shape = V
      /\ \A v \in V : d.shape[v] = Shape(f.size, SavedLayout(f, v))
  BY DEF Sent
<1>2. f.type \in {"FIR", "SOS", "TF", "TFE"} /\ f.size \in [Sizes -> Nat \ {0}] /\ f.bytes \in Nat
  BY FilesValid, FilesGiven
<1>3. IsFiniteSet(V)
  <2> DEFINE A == {"ListenerPosition", "ReceiverPosition", "SourcePosition", "EmitterPosition",
                   "ListenerUp"}
             B == {"ListenerView", "RoomVolume", "RoomTemperature", "Data.IR", "Data.SOS"}
             X == {"Data.Real", "Data.Imag", "Data.SamplingRate", "Data.Delay", "M"}
             Y == {"R", "E", "N", "C", "I"}
             W == (A \cup B) \cup (X \cup Y)
  <2>1. f.room \subseteq {"RoomVolume", "RoomTemperature"}
    BY FilesValid DEF RoomVariables, Range
  <2>2. Range(AudioOf(f.type)) \subseteq {"Data.IR", "Data.SOS", "Data.Real", "Data.Imag"}
    BY DEF AudioOf, Range
  <2>3. Range(Spatial) = {"ListenerPosition", "ReceiverPosition", "SourcePosition",
                          "EmitterPosition", "ListenerUp", "ListenerView"}
    BY DEF Spatial, Range
  <2>4. V \subseteq W
    BY <2>1, <2>2, <2>3 DEF SavedVariables, Sizes
  <2>5. IsFiniteSet(W)
    <3>1. IsFiniteSet(A) /\ IsFiniteSet(B) /\ IsFiniteSet(X) /\ IsFiniteSet(Y)
      BY FiveFinite
    <3> HIDE DEF A, B, X, Y
    <3>2. IsFiniteSet(A \cup B) /\ IsFiniteSet(X \cup Y)
      BY <3>1, FS_Union
    <3>3. QED
      BY <3>2, FS_Union
  <2> HIDE DEF W
  <2>6. QED
    BY <2>4, <2>5, FS_Subset
<1>4. ASSUME NEW v \in V PROVE Shape(f.size, SavedLayout(f, v)) \in Seq(Nat)
  <2> DEFINE l == SavedLayout(f, v)
  <2>1. l \in Seq({"M", "R", "E", "N", "C", "I"})
    BY SavedLayoutType
  <2> HIDE DEF l
  <2>2. \A i \in DOMAIN l : AxisSize(f.size, l[i]) \in Nat
    BY <1>2, <2>1 DEF AxisSize, Sizes
  <2>3. Shape(f.size, l) \in Seq(Nat)
    BY <2>1, <2>2 DEF Shape
  <2>4. QED
    BY <2>3 DEF l
<1> HIDE DEF V, d
<1>5. QED
  BY <1>1, <1>2, <1>3, <1>4 DEF StoredFile, d

\* What is in the stream are pieces of Files.
Streamed == stream \in Seq([file : Files, bytes : Nat \ {0}])

\* Whatever a sender hands over is a piece of a File.
LEMMA StreamKept == SendInv /\ Streamed /\ [SendNext]_sendVars => Streamed'
<1> SUFFICES ASSUME SendInv, Streamed, [SendNext]_sendVars PROVE Streamed'
  OBVIOUS
<1>1. CASE stream' = stream
  BY <1>1 DEF Streamed
<1>2. ASSUME NEW s \in Senders, HandOver(s) PROVE Streamed'
  <2>1. PICK k \in {j \in Pieces : j < file[s].bytes} \cup {file[s].bytes} :
          stream' = IF k = 0 THEN stream ELSE Append(stream, [file |-> file[s], bytes |-> k])
    BY <1>2 DEF HandOver
  <2>2. file[s] \in Files
    BY DEF SendInv, SendTypeOK
  <2>3. k \in Nat
    BY <2>2, PiecesGiven, FilesGiven
  <2> DEFINE e == [file |-> file[s], bytes |-> k]
             E == [file : Files, bytes : Nat \ {0}]
  <2>4. k # 0 => e \in E
    BY <2>2, <2>3
  <2>5. stream' = stream \/ (k # 0 /\ stream' = Append(stream, e))
    BY <2>1
  <2> HIDE DEF e, E
  <2>6. stream \in Seq(E)
    BY DEF Streamed, E
  <2>7. stream' \in Seq(E)
    BY <2>4, <2>5, <2>6
  <2>8. QED
    BY <2>7 DEF Streamed, E
<1>3. QED
  BY <1>1, <1>2 DEF SendNext, Send, sendVars, Begin, Create, Encode, Commit, CloseFails, Discard

\* The senders' invariant, the readers' and what lies between.
TransferInv == SendInv /\ Streamed /\ ReadInv

\* Everything the senders and the readers do keeps the invariants.
LEMMA TransferStep == TransferInv /\ [Next]_vars => TransferInv'
<1> SUFFICES ASSUME TransferInv, [Next]_vars PROVE TransferInv'
  OBVIOUS
<1> USE DEF TransferInv
<1>1. ASSUME UNCHANGED sendVars PROVE SendInv' /\ Streamed'
  BY <1>1, SendStep, StreamKept
<1>2. CASE opened = <<>> /\ SendNext /\ UNCHANGED readVars
  BY <1>2, SendStep, StreamKept, ReadStands
<1>3. CASE Receive
  <2>1. PICK e \in Range(stream) : GivenTo(Sent(e.file))
    BY <1>3 DEF Receive
  <2>2. e.file \in Files
    <3>1. PICK i \in DOMAIN stream : e = stream[i]
      BY DEF Range
    <3> DEFINE E == [file : Files, bytes : Nat \ {0}]
    <3>2. stream \in Seq(E)
      BY DEF Streamed
    <3> HIDE DEF E
    <3>3. e \in E
      BY <3>1, <3>2
    <3>4. QED
      BY <3>3 DEF E
  <2>3. ReadInv'
    BY <2>1, <2>2, SentStored, GivenKeeps
  <2>4. QED
    BY <1>1, <1>3, <2>3 DEF Receive
<1>4. CASE ReceiveOther
  <2>1. PICK d \in OtherFiles : GivenTo(d)
    BY <1>4 DEF ReceiveOther
  <2>2. ReadInv'
    BY <2>1, OtherFilesGiven, GivenKeeps
  <2>3. QED
    BY <1>1, <1>4, <2>2 DEF ReceiveOther
<1>5. CASE ReadNext
  <2>1. PICK r \in Readers : ReadStep(r)
    BY <1>5 DEF ReadNext
  <2>2. ReadInv'
    BY <2>1, ReadEffect, EffectKeeps
  <2>3. QED
    BY <1>1, <1>5, <2>2 DEF ReadNext
<1>6. CASE UNCHANGED vars
  BY <1>1, <1>6, ReadStands DEF vars
<1>7. QED
  BY <1>2, <1>3, <1>4, <1>5, <1>6 DEF Next

\* The invariant of the composition: senders, the stream and two readers.
THEOREM TransferInvariant == Spec => []TransferInv
<1>1. Init => TransferInv
  <2>1. InitSend => Streamed
    BY DEF InitSend, Streamed
  <2>2. QED
    BY <2>1, SendInit, ReadInit DEF Init, TransferInv
<1>2. QED
  BY <1>1, TransferStep, PTL DEF Spec

\* What holds of the senders alone holds when their files are read as well:
\* a file that was not encoded to its end leaves the writer untouched.
THEOREM SentWhenCommitted == Spec => []NothingBeforeCommit
<1>1. TransferInv => NothingBeforeCommit
  BY DEF TransferInv, SendInv, Committed, NothingBeforeCommit
<1>2. QED
  BY <1>1, TransferInvariant, PTL

\* And the error and the count WriteTo returns say what the writer has got.
THEOREM SentHonestly == Spec => []HonestReturn
<1>1. TransferInv => HonestReturn
  BY DEF TransferInv, SendInv, Committed, HonestReturn
<1>2. QED
  BY <1>1, TransferInvariant, PTL

-----------------------------------------------------------------------------
(* Counting the elements of a shape.                                       *)

\* What one more size makes of a count that has not given up.
Times(c, size) == IF c < 0 \/ c * size > Limit THEN -1 ELSE c * size

\* The code's test before it multiplies is exact: the product is never taken
\* where it might wrap.
LEMMA TimesAsCoded ==
  ASSUME NEW c \in 0..Limit \cup {-1}, NEW size \in Nat
  PROVE  /\ (IF c < 0 \/ (size # 0 /\ c > Limit \div size) THEN -1
             ELSE Min({(c * size) % Word, Limit})) = Times(c, size)
         /\ Times(c, size) \in 0..Limit \cup {-1}
<1>1. Limit \in Nat /\ Limit < Word /\ Word \in Nat
  BY LimitGiven, BudgetGiven DEF Limit
<1> DEFINE p == c * size
           q == Limit \div size
           x == p % Word
<1>2. c >= 0 => p \in Nat
  BY <1>1
<1>3. c >= 0 => (size # 0 /\ c > q <=> p > Limit)
  <2>1. SUFFICES ASSUME c >= 0 PROVE size # 0 /\ c > q <=> p > Limit
    OBVIOUS
  <2>2. CASE size = 0
    BY <1>1, <2>1, <2>2
  <2>3. CASE size # 0
    <3>1. /\ q \in Nat /\ Limit % size \in Nat /\ Limit % size < size
          /\ Limit = size * q + (Limit % size)
      BY <1>1, <2>3, Division
    <3>2. c \in Nat
      BY <2>1
    <3> HIDE DEF q
    <3>3. CASE c <= q
      <4>1. size * c <= size * q /\ p = size * c /\ size * q \in Nat
        BY <3>1, <3>2, <3>3, ProductGrows
      <4>2. QED
        BY <1>1, <3>1, <3>2, <3>3, <4>1
    <3>4. CASE q + 1 <= c
      <4>1. size * (q + 1) <= size * c /\ p = size * c
        BY <3>1, <3>2, <3>4, ProductGrows
      <4>2. size * (q + 1) = size * q + size /\ size * q \in Nat
        BY <3>1
      <4>3. QED
        BY <1>1, <2>3, <3>1, <3>2, <3>4, <4>1, <4>2
    <3>5. QED
      BY <3>1, <3>2, <3>3, <3>4
  <2>4. QED
    BY <2>2, <2>3
<1> HIDE DEF p, q
<1>4. c >= 0 /\ p <= Limit => Min({x, Limit}) = p
  <2>1. SUFFICES ASSUME c >= 0, p <= Limit PROVE Min({x, Limit}) = p
    OBVIOUS
  <2>2. x = p
    BY <1>1, <1>2, <2>1
  <2> HIDE DEF x
  <2>3. \A y \in {x, Limit} : p =< y
    BY <1>1, <1>2, <2>1, <2>2
  <2>4. \A z \in {x, Limit} : (\A y \in {x, Limit} : z =< y) => z = p
    BY <1>1, <1>2, <2>1, <2>2
  <2>5. p \in {x, Limit}
    BY <2>2
  <2>6. QED
    BY <2>3, <2>4, <2>5 DEF Min
<1>5. (IF c < 0 \/ (size # 0 /\ c > q) THEN -1 ELSE Min({x, Limit})) = Times(c, size)
  <2>1. Times(c, size) = IF c < 0 \/ p > Limit THEN -1 ELSE p
    BY DEF Times, p
  <2> HIDE DEF x
  <2>2. CASE c < 0
    BY <2>1, <2>2
  <2>3. CASE c >= 0 /\ p > Limit
    BY <1>3, <2>1, <2>3
  <2>4. CASE c >= 0 /\ p <= Limit
    BY <1>1, <1>2, <1>3, <1>4, <2>1, <2>4
  <2>5. QED
    BY <1>1, <1>2, <2>2, <2>3, <2>4
<1>6. Times(c, size) \in 0..Limit \cup {-1}
  BY <1>1, <1>2 DEF Times, p
<1>7. QED
  BY <1>5, <1>6 DEF p, q, x

\* A set of the first numbers that is not empty has a greatest element.
LEMMA GreatestNumber ==
  ASSUME NEW len \in Nat, NEW S \in SUBSET (1..len), S # {}
  PROVE  Max(S) \in S /\ \A y \in S : Max(S) >= y
<1> DEFINE T == {len - y : y \in S}
<1>1. T \in SUBSET Nat /\ T # {}
  <2>1. \A y \in S : len - y \in Nat
    OBVIOUS
  <2>2. PICK y \in S : TRUE
    OBVIOUS
  <2>3. len - y \in T
    OBVIOUS
  <2>4. QED
    BY <2>1, <2>3
<1>2. PICK t \in T : \A z \in T : t =< z
  <2> HIDE DEF T
  <2>1. QED
    BY <1>1, LeastNumber
<1>3. PICK x \in S : t = len - x
  OBVIOUS
<1>4. \A y \in S : len - x =< len - y
  BY <1>2, <1>3
<1>5. \A y \in S : x >= y
  BY <1>4
<1>6. QED
  BY <1>5 DEF Max

\* g counts the elements of the first axes of a shape, each after the other.
CountsElements(g, shape) ==
  /\ g \in [0..Len(shape) -> 0..Limit \cup {-1}] /\ g[0] = 1
  /\ \A k \in 1..Len(shape) : g[k] = Times(g[k - 1], shape[k])

\* The sizes are multiplied from the first to the last.
LEMMA ElementPrefix ==
  ASSUME NEW shape \in Seq(Nat)
  PROVE  \E g : /\ CountsElements(g, shape)
                /\ ElementCount(shape) = IF g[Len(shape)] < 0 THEN Limit ELSE g[Len(shape)]
<1> DEFINE len == Len(shape)
           D == DOMAIN shape
           V == Nat \cup {-1}
           W == 0..Limit \cup {-1}
           simple(a, b) == IF a \in Nat /\ b \in W THEN Times(b, a) ELSE -1
           o == [a \in V |-> [b \in V |-> simple(a, b)]]
           pick == [s \in SUBSET D |-> Max(s)]
           G(g) == [s \in SUBSET D |->
                      IF s = {} THEN 1
                      ELSE IF g[s \ {Max(s)}] < 0
                                \/ (shape[Max(s)] # 0 /\ g[s \ {Max(s)}] > Limit \div shape[Max(s)])
                           THEN -1
                           ELSE Min({(g[s \ {Max(s)}] * shape[Max(s)]) % Word, Limit})]
           h == CHOOSE g : g = G(g)
<1>1. ElementCount(shape) = IF h[D] < 0 THEN Limit ELSE h[D]
  BY DEF ElementCount, FoldLeft, MapThenFoldSet
<1>2. /\ len \in Nat /\ D = 1..len /\ IsFiniteSet(D)
      /\ shape \in [D -> V] /\ \A k \in D : shape[k] \in Nat
  <2>1. len \in Nat /\ D = 1..len /\ shape \in [D -> Nat]
    OBVIOUS
  <2>2. shape \in [D -> V]
    BY <2>1
  <2>3. QED
    BY <2>1, <2>2, FS_Interval
<1>3. Limit \in Nat \ {0} /\ W \subseteq V /\ 1 \in W
  BY LimitGiven DEF Limit
<1>4. o \in [V -> [V -> W]] /\ \A a, b \in V : o[a][b] = simple(a, b)
  <2>1. \A a, b \in V : simple(a, b) \in W
    BY TimesAsCoded
  <2> HIDE DEF simple, V, W
  <2>2. QED
    BY <2>1
<1>5. /\ \A s \in SUBSET D : pick[s] = Max(s)
      /\ \A s \in SUBSET D : s # {} => Max(s) \in s /\ \A y \in s : Max(s) >= y
  BY <1>2, GreatestNumber
<1>6. Picks(pick, D)
  BY <1>5 DEF Picks
<1> HIDE DEF o, pick, h, G, len, D, V, W
<1>7. PICK g : IsFold(g, D, 1, o, shape, pick)
  <2>1. o \in [V -> [V -> V]] /\ 1 \in V
    BY <1>3, <1>4
  <2>2. QED
    BY <1>2, <1>6, <2>1, FoldExists
<1>8. /\ DOMAIN g = SUBSET D /\ g[{}] = 1
      /\ \A s \in SUBSET D : s # {} => g[s] = o[shape[Max(s)]][g[s \ {Max(s)}]]
  BY <1>5, <1>7 DEF IsFold
<1>13. \A s \in SUBSET D : g[s] \in W
  <2> DEFINE P == {s \in SUBSET D : g[s] \notin W}
  <2>1. SUFFICES ASSUME P # {} PROVE FALSE
    OBVIOUS
  <2>2. P \in SUBSET (SUBSET D)
    OBVIOUS
  <2>3. PICK t \in P : \A s \in P : s \subseteq t => s = t
    <3> HIDE DEF P
    <3>1. IsFiniteSet(D)
      BY <1>2
    <3>2. QED
      BY <2>1, <2>2, <3>1, MinimalSubset
  <2>4. t \in SUBSET D /\ g[t] \notin W /\ t # {}
    BY <1>3, <1>8, <2>3
  <2> DEFINE rest == t \ {Max(t)}
  <2>5. rest \in SUBSET D /\ rest \subseteq t /\ rest # t /\ shape[Max(t)] \in V
    BY <1>2, <1>5, <2>4
  <2>6. g[rest] \in W
    BY <2>3, <2>5
  <2>7. g[t] = o[shape[Max(t)]][g[rest]]
    BY <1>8, <2>4
  <2> HIDE DEF rest
  <2>8. QED
    BY <1>3, <1>4, <2>4, <2>5, <2>6, <2>7
<1>14. ASSUME NEW s \in SUBSET D, s # {}
       PROVE  g[s] = IF g[s \ {Max(s)}] < 0
                          \/ (shape[Max(s)] # 0 /\ g[s \ {Max(s)}] > Limit \div shape[Max(s)])
                     THEN -1
                     ELSE Min({(g[s \ {Max(s)}] * shape[Max(s)]) % Word, Limit})
  <2> DEFINE b == g[s \ {Max(s)}]
             a == shape[Max(s)]
  <2>1. a \in Nat /\ a \in V /\ b \in W /\ b \in V /\ g[s] = o[a][b]
    BY <1>2, <1>3, <1>5, <1>8, <1>13, <1>14 DEF V
  <2> HIDE DEF a, b
  <2>2. g[s] = Times(b, a)
    BY <1>4, <2>1
  <2>3. b \in 0..Limit \cup {-1}
    BY <2>1 DEF W
  <2>4. g[s] = IF b < 0 \/ (a # 0 /\ b > Limit \div a) THEN -1
               ELSE Min({(b * a) % Word, Limit})
    BY <2>1, <2>2, <2>3, TimesAsCoded
  <2>5. QED
    BY <2>4 DEF a, b
<1>15. g = G(g)
  <2>1. \A s \in SUBSET D : g[s] = G(g)[s]
    BY <1>8, <1>14 DEF G
  <2>2. G(g) = [s \in SUBSET D |-> G(g)[s]]
    BY DEF G
  <2>3. g = [s \in SUBSET D |-> g[s]]
    BY <1>7 DEF IsFold
  <2> HIDE DEF G
  <2>4. QED
    BY <2>1, <2>2, <2>3
<1>16. h = G(h)
  BY <1>15 DEF h
<1>17. g[D] = h[D]
  <2>1. h[{}] = 1
    BY <1>16 DEF G
  <2>2. ASSUME NEW s \in SUBSET D, s # {}, g[s \ {pick[s]}] = h[s \ {pick[s]}]
        PROVE  g[s] = h[s]
    <3>1. g[s \ {Max(s)}] = h[s \ {Max(s)}]
      BY <1>5, <2>2
    <3>2. g[s] = G(g)[s] /\ h[s] = G(h)[s]
      BY <1>15, <1>16
    <3>3. G(g)[s] = G(h)[s]
      BY <2>2, <3>1 DEF G
    <3>4. QED
      BY <3>2, <3>3
  <2>3. Alike(g, h, D, pick)
    BY <1>8, <2>1, <2>2 DEF Alike
  <2>4. QED
    BY <1>2, <1>6, <2>3, SameFold
<1> DEFINE c == [k \in 0..len |-> g[1..k]]
<1>9. /\ c[0] = 1 /\ c[len] = g[D]
      /\ \A k \in 1..len : c[k] = o[shape[k]][c[k - 1]]
  <2>1. 1..0 = {} /\ 0 \in 0..len /\ len \in 0..len /\ D = 1..len
    BY <1>2
  <2>2. ASSUME NEW k \in 1..len PROVE c[k] = o[shape[k]][c[k - 1]]
    <3>1. /\ 1..k \in SUBSET D /\ k \in 1..k /\ k \in 0..len /\ k - 1 \in 0..len
          /\ 1..k # {}
      BY <1>2, <2>1
    <3>5. (1..k) \ {k} = 1..(k - 1)
      BY <1>2
    <3>2. Max(1..k) = k
      <4>1. Max(1..k) \in 1..k /\ \A y \in 1..k : Max(1..k) >= y
        BY <1>5, <3>1
      <4>2. k \in 1..k
        BY <1>2
      <4>3. QED
        BY <4>1, <4>2
    <3>3. g[1..k] = o[shape[k]][g[1..(k - 1)]]
      BY <1>8, <3>1, <3>2, <3>5
    <3>4. QED
      BY <3>1, <3>3
  <2>3. QED
    BY <1>8, <2>1, <2>2
<1> HIDE DEF c
<1>10. \A k \in 0..len : c[k] \in W
  <2>1. \A k \in 0..len : 1..k \in SUBSET D /\ c[k] = g[1..k]
    BY <1>2 DEF c
  <2>2. QED
    BY <1>13, <2>1
<1>11. \A k \in 1..len : c[k] = Times(c[k - 1], shape[k])
  <2>1. TAKE k \in 1..len
  <2>2. k - 1 \in 0..len /\ shape[k] \in Nat
    BY <1>2
  <2>3. c[k - 1] \in W /\ c[k - 1] \in V /\ shape[k] \in V
    BY <1>3, <1>10, <2>2 DEF V
  <2>4. c[k] = simple(shape[k], c[k - 1])
    BY <1>4, <1>9, <2>3
  <2>5. QED
    BY <2>2, <2>3, <2>4
<1>12. CountsElements(c, shape)
  <2>1. c \in [0..len -> W]
    BY <1>10 DEF c
  <2>2. QED
    BY <1>9, <1>11, <2>1 DEF CountsElements, len, W
<1>18. QED
  BY <1>1, <1>9, <1>12, <1>17 DEF len

\* The count of a shape is at most Limit, and exact where it is below; with
\* no axis of length 0 it is exact up to Limit.
LEMMA ElementsCounted ==
  ASSUME NEW shape \in Seq(Nat)
  PROVE  /\ ElementCount(shape) \in 0..Limit
         /\ ElementCount(shape) <= MaxElements => ElementCount(shape) = Count(shape)
         /\ (\A k \in 1..Len(shape) : shape[k] > 0) /\ Count(shape) <= MaxElements
              => ElementCount(shape) = Count(shape)
<1> DEFINE len == Len(shape)
<1>1. Limit \in Nat /\ Limit = MaxElements + 1 /\ MaxElements \in Nat
  BY LimitGiven DEF Limit
<1>2. len \in Nat /\ \A k \in 1..len : shape[k] \in Nat
  OBVIOUS
<1>3. PICK g : CountsElements(g, shape) /\ ElementCount(shape) = IF g[len] < 0 THEN Limit ELSE g[len]
  BY ElementPrefix
<1>4. PICK e \in [0..len -> Nat] :
        e[0] = 1 /\ e[len] = Count(shape) /\ \A k \in 1..len : e[k] = shape[k] * e[k - 1]
  BY CountPrefix
<1> HIDE DEF len
<1>5. /\ g \in [0..len -> 0..Limit \cup {-1}] /\ g[0] = 1
      /\ \A k \in 1..len : g[k] = Times(g[k - 1], shape[k])
  BY <1>3 DEF CountsElements, len
<1>6. ASSUME NEW P \in SUBSET Nat, 0 \in P,
             \A k \in 1..len : k - 1 \in P => k \in P
      PROVE  \A k \in 0..len : k \in P
  <2> DEFINE Q == {k \in Nat : k \in 0..len => k \in P}
  <2>1. 0 \in Q
    BY <1>6
  <2>2. ASSUME NEW k \in Q PROVE k + 1 \in Q
    <3>1. SUFFICES ASSUME k + 1 \in 0..len PROVE k + 1 \in P
      OBVIOUS
    <3>2. k \in 0..len /\ k + 1 \in 1..len /\ (k + 1) - 1 = k
      BY <1>2, <3>1
    <3>3. QED
      BY <1>6, <3>2
  <2> HIDE DEF Q
  <2>3. Q \in SUBSET Nat
    BY DEF Q
  <2>4. Q = Nat
    BY <2>1, <2>2, <2>3, NatSetInduction
  <2>5. ASSUME NEW k \in 0..len PROVE k \in P
    <3>1. k \in Q
      BY <1>2, <2>4
    <3>2. QED
      BY <3>1 DEF Q
  <2>6. QED
    BY <2>5
<1>7. ElementCount(shape) \in 0..Limit
  BY <1>1, <1>2, <1>3, <1>5
<1>8. \A k \in 0..len : g[k] >= 0 => g[k] = e[k]
  <2> DEFINE P == {k \in Nat : k \in 0..len /\ (g[k] >= 0 => g[k] = e[k])}
  <2>1. 0 \in P
    BY <1>2, <1>4, <1>5
  <2>2. ASSUME NEW k \in 1..len, k - 1 \in P PROVE k \in P
    <3>1. /\ g[k] = Times(g[k - 1], shape[k]) /\ g[k - 1] \in 0..Limit \cup {-1}
          /\ g[k - 1] >= 0 => g[k - 1] = e[k - 1]
      BY <1>2, <1>5, <2>2
    <3>2. e[k] = shape[k] * e[k - 1] /\ shape[k] \in Nat /\ e[k - 1] \in Nat
      BY <1>2, <1>4
    <3>3. g[k] >= 0 => g[k] = e[k]
      BY <1>1, <3>1, <3>2 DEF Times
    <3>4. QED
      BY <1>2, <3>3
  <2> HIDE DEF P
  <2>3. P \in SUBSET Nat
    BY DEF P
  <2>4. \A k \in 0..len : k \in P
    BY <1>6, <2>1, <2>2, <2>3
  <2>5. QED
    BY <2>4 DEF P
<1>9. ASSUME \A k \in 1..len : shape[k] > 0, e[len] <= MaxElements
      PROVE  g[len] >= 0
  \* The products grow, so that none of them can exceed Limit before the last.
  <2> DEFINE P == {k \in Nat : k \in 0..len /\ e[k] > 0 /\ (g[k] < 0 => e[k] > Limit)}
  <2>1. 0 \in P
    BY <1>2, <1>4, <1>5
  <2>2. ASSUME NEW k \in 1..len, k - 1 \in P PROVE k \in P
    <3>1. /\ g[k] = Times(g[k - 1], shape[k]) /\ g[k - 1] \in 0..Limit \cup {-1}
          /\ k - 1 \in 0..len /\ e[k - 1] > 0 /\ (g[k - 1] < 0 => e[k - 1] > Limit)
      BY <1>2, <1>5, <2>2
    <3>2. /\ e[k] = shape[k] * e[k - 1] /\ shape[k] \in Nat /\ shape[k] > 0 /\ e[k - 1] \in Nat
          /\ e[k] \in Nat
      BY <1>2, <1>4, <1>9, <3>1
    <3>3. e[k] > 0 /\ e[k] >= e[k - 1]
      <4>1. e[k - 1] * 1 <= e[k - 1] * shape[k] /\ e[k - 1] * shape[k] = e[k]
        BY <3>2, ProductGrows, SMTT(30)
      <4>2. QED
        BY <3>1, <3>2, <4>1
    <3>4. g[k] < 0 => e[k] > Limit
      <4>1. CASE g[k - 1] < 0
        BY <1>1, <3>1, <3>2, <3>3, <4>1
      <4>2. CASE g[k - 1] >= 0
        <5>1. g[k - 1] = e[k - 1]
          BY <1>8, <3>1, <4>2
        <5>2. QED
          BY <1>1, <3>1, <3>2, <4>2, <5>1 DEF Times
      <4>3. QED
        BY <3>1, <4>1, <4>2
    <3>5. QED
      BY <1>2, <3>3, <3>4
  <2> HIDE DEF P
  <2>3. P \in SUBSET Nat
    BY DEF P
  <2>4. len \in P
    <3>1. \A k \in 0..len : k \in P
      BY <1>6, <2>1, <2>2, <2>3
    <3>2. QED
      BY <1>2, <3>1
  <2>5. e[len] \in Nat /\ (g[len] < 0 => e[len] > Limit) /\ g[len] \in 0..Limit \cup {-1}
    BY <1>2, <1>4, <1>5, <2>4 DEF P
  <2>6. QED
    BY <1>1, <1>9, <2>5
<1>10. len \in 0..len
  BY <1>2
<1>11. QED
  BY <1>1, <1>3, <1>4, <1>5, <1>7, <1>8, <1>9, <1>10, SMTT(30) DEF len

-----------------------------------------------------------------------------
(* The budget.                                                             *)

\* Zeroes add up to 0.
LEMMA SumZero ==
  ASSUME NEW D, IsFiniteSet(D), NEW f \in [D -> Nat], \A x \in D : f[x] = 0
  PROVE  SumFunction(f) = 0
<1>1. PICK g : Sums(g, D, f) /\ g[D] = SumFunction(f)
  BY SumFold
<1> DEFINE P == {s \in SUBSET D : g[s] = 0}
<1>2. {} \in P
  BY <1>1 DEF Sums
<1>3. ASSUME NEW s \in P, NEW x \in D \ s PROVE s \cup {x} \in P
  <2>1. s \cup {x} \in SUBSET D /\ x \in s \cup {x} /\ (s \cup {x}) \ {x} = s
    BY <1>3
  <2>2. g[s \cup {x}] = f[x] + g[s]
    BY <1>1, <2>1 DEF Sums
  <2>3. QED
    BY <2>1, <2>2
<1>4. D \in P
  <2> HIDE DEF P
  <2>1. P \in SUBSET (SUBSET D)
    BY DEF P
  <2>2. QED
    BY <1>2, <1>3, <2>1, FiniteSetInduction
<1>5. QED
  BY <1>1, <1>4

\* The counts of the datasets that are counted.
LEMMA CountedType ==
  ASSUME NEW d, StoredFile(d), NEW r
  PROVE  /\ Counted(d, r) \in SUBSET DOMAIN d.shape /\ IsFiniteSet(Counted(d, r))
         /\ \A v \in Counted(d, r) : d.shape[v] \in Seq(Nat) /\ ElementCount(d.shape[v]) \in Nat
<1>1. Counted(d, r) \in SUBSET DOMAIN d.shape /\ \A v \in Counted(d, r) : d.shape[v] # Unknown
  BY DEF Counted
<1>2. IsFiniteSet(DOMAIN d.shape)
  BY DEF StoredFile
<1>3. IsFiniteSet(Counted(d, r))
  BY <1>1, <1>2, FS_Subset
<1>4. ASSUME NEW v \in Counted(d, r)
      PROVE  d.shape[v] \in Seq(Nat) /\ ElementCount(d.shape[v]) \in Nat
  <2>1. d.shape[v] \in Seq(Nat)
    BY <1>1 DEF StoredFile
  <2>2. ElementCount(d.shape[v]) \in 0..Limit
    BY <2>1, ElementsCounted
  <2>3. Limit \in Nat
    BY LimitGiven DEF Limit
  <2>4. QED
    BY <2>1, <2>2, <2>3
<1>5. QED
  BY <1>1, <1>3, <1>4

\* How many values a dataset has is a number.
LEMMA ValuesType ==
  ASSUME NEW d, StoredFile(d), NEW v \in DOMAIN d.shape
  PROVE  Values(d, v) \in Nat
<1>1. d.shape[v] = Unknown \/ d.shape[v] \in Seq(Nat)
  BY DEF StoredFile
<1>2. QED
  BY <1>1, CountType DEF Values

\* The budget is a number.
LEMMA BudgetType ==
  ASSUME NEW d, StoredFile(d)
  PROVE  Budget(d.bytes) \in Nat
<1> DEFINE x == PerByte * d.bytes
<1>1. MinBudget \in Nat /\ x \in Nat
  BY BudgetGiven DEF StoredFile
<1> HIDE DEF x
<1>2. \E m \in {MinBudget, x} : \A y \in {MinBudget, x} : m >= y
  BY <1>1
<1>3. Max({MinBudget, x}) \in {MinBudget, x}
  BY <1>2 DEF Max
<1>4. QED
  BY <1>1, <1>3 DEF Budget, x

\* Open counts whatever OpenLazy counts.
LEMMA LazyCountsLess ==
  ASSUME NEW d, StoredFile(d), WithinBudget(d, "Open")
  PROVE  WithinBudget(d, "OpenLazy")
<1> DEFINE E == Counted(d, "Open")
           L == Counted(d, "OpenLazy")
           f == [v \in E |-> ElementCount(d.shape[v])]
           B == Budget(d.bytes)
<1>1. L \in SUBSET E
  BY DEF Counted
<1>2. IsFiniteSet(E) /\ \A v \in E : ElementCount(d.shape[v]) \in Nat
  BY CountedType
<1>3. /\ \A v \in E : ElementCount(d.shape[v]) <= MaxElements
      /\ SumFunction(f) <= B
  BY DEF WithinBudget
<1>4. [v \in L |-> f[v]] = [v \in L |-> ElementCount(d.shape[v])]
  BY <1>1
<1>5. f \in [E -> Nat]
  BY <1>2
<1> HIDE DEF E, L, f
<1>6. SumFunction([v \in L |-> f[v]]) <= SumFunction(f)
  BY <1>1, <1>2, <1>5, SumSubset
<1>7. SumFunction([v \in L |-> f[v]]) \in Nat /\ SumFunction(f) \in Nat
  <2>1. IsFiniteSet(L) /\ [v \in L |-> f[v]] \in [L -> Nat]
    BY <1>1, <1>2, <1>5, FS_Subset
  <2> DEFINE h == [v \in L |-> f[v]]
  <2> HIDE DEF h
  <2>2. SumFunction(h) \in Nat
    BY <2>1, SumType DEF h
  <2>3. QED
    BY <1>2, <1>5, <2>2, SumType DEF h
<1>8. B \in Nat
  BY BudgetType
<1> HIDE DEF B
<1>9. SumFunction([v \in L |-> f[v]]) <= B
  BY <1>3, <1>6, <1>7, <1>8
<1>10. \A v \in L : ElementCount(d.shape[v]) <= MaxElements
  BY <1>1, <1>3
<1>11. QED
  BY <1>4, <1>9, <1>10 DEF WithinBudget, L, B

\* What a reader has read is within the budget, but for what is read twice.
LEMMA WithinBudgetOfOne ==
  ASSUME ReadInv, opened # <<>>, NEW r \in Readers
  PROVE  /\ outcome[r] = "too large" => ElementsRead(r) = 0
         /\ ElementsRead(r) <=
              Budget(Given.bytes) + SumFunction([v \in ReadTwice(r) |-> Values(Given, v)])
<1> DEFINE d == Given
           D == DOMAIN d.shape
           C == Counted(d, r)
           T == ReadTwice(r)
           s == seen[r]
           value(v) == Values(d, v)
           plan == Plan(d, r)
           k == Behind(r)
           B == Budget(d.bytes)
           read == [v \in D |-> s[v] * value(v)]
           once == [v \in D |-> IF v \in C THEN ElementCount(d.shape[v]) ELSE 0]
           twice == [v \in D |-> IF v \in T THEN value(v) ELSE 0]
           counts == [v \in C |-> ElementCount(d.shape[v])]
           values == [v \in T |-> value(v)]
<1>1. /\ StoredFile(d) /\ s \in [D -> 0..2] /\ IsFiniteSet(D)
      /\ LeftToDo(r) /\ FoundOut(r) /\ ReadBehind(r)
  BY DEF ReadInv, ReadTypeOK, StoredFile
<1>2. /\ C \in SUBSET D /\ IsFiniteSet(C)
      /\ \A v \in C : d.shape[v] \in Seq(Nat) /\ ElementCount(d.shape[v]) \in Nat
  BY <1>1, CountedType
<1>3. \A v \in D : value(v) \in Nat
  BY <1>1, ValuesType
<1>4. T \in SUBSET D /\ \A v \in D : v \in Range(RoomVariables) \cup {"N"} /\ s[v] = 2 => v \in T
  BY DEF ReadTwice, There
<1>5. ElementsRead(r) = SumFunction(read)
  <2>1. DOMAIN seen[r] = D
    BY <1>1
  <2>2. QED
    BY <2>1 DEF ElementsRead
<1>6. B \in Nat
  BY <1>1, BudgetType
<1>7. plan \in Seq(StepSet(d, r)) /\ Len(plan) \in Nat /\ k \in 0..Len(plan)
  BY <1>1, PlanOrder DEF LeftToDo
<1>8. ASSUME NEW v \in D, s[v] > 0
      PROVE  /\ outcome[r] # "too large"
             /\ \E i \in 1..k : MayRead(plan[i], v)
             /\ s[v] = 2 => \E i, j \in 1..k : MayRead(plan[i], v) /\ MayRead(plan[j], v) /\ i # j
  BY <1>1, <1>8 DEF ReadBehind
<1>9. ASSUME NEW v \in D, s[v] > 0, d.shape[v] # Unknown
      PROVE  WithinBudget(d, r) /\ v \in C /\ (s[v] = 2 => v \in T)
  <2>1. PICK i \in 1..k : MayRead(plan[i], v)
    BY <1>8, <1>9
  <2>2. i \in 1..Len(plan) /\ k > 0
    BY <1>7, <2>1
  <2>3. WithinBudget(d, r)
    BY <1>1, <1>8, <1>9, <2>2 DEF FoundOut
  <2>4. r = "OpenLazy" => v \notin Range(AudioOf(d.type))
    BY <1>1, <2>1, <2>2, ReadByTwoSteps
  <2>5. v \in C
    BY <1>9, <2>4 DEF Counted
  <2>6. ASSUME s[v] = 2 PROVE v \in T
    <3>1. PICK a \in 1..k, b \in 1..k : MayRead(plan[a], v) /\ MayRead(plan[b], v) /\ a # b
      BY <1>8, <1>9, <2>6
    <3>2. a \in 1..Len(plan) /\ b \in 1..Len(plan)
      BY <1>7
    <3>3. v \in Range(RoomVariables) \cup {"N"}
      BY <1>1, <3>1, <3>2, ReadByTwoSteps
    <3>4. QED
      BY <1>4, <2>6, <3>3
  <2>7. QED
    BY <2>3, <2>5, <2>6
<1>10. ASSUME NEW v \in D, d.shape[v] = Unknown PROVE value(v) = 0
  BY <1>10 DEF Values
<1>11. ASSUME NEW v \in D, s[v] > 0, d.shape[v] # Unknown
       PROVE  value(v) = ElementCount(d.shape[v])
  <2>1. v \in C /\ ElementCount(d.shape[v]) <= MaxElements
    BY <1>9, <1>11 DEF WithinBudget
  <2>2. ElementCount(d.shape[v]) = Count(d.shape[v])
    BY <1>2, <2>1, ElementsCounted
  <2>3. QED
    BY <1>11, <2>2 DEF Values
<1> HIDE DEF d, D, C, T, s, value, plan, k, B, counts, values
<1>12. read \in [D -> Nat] /\ \A v \in D : read[v] = s[v] * value(v)
  BY <1>1, <1>3
<1> HIDE DEF read
<1>13. ASSUME \A v \in D : read[v] = 0 PROVE ElementsRead(r) = 0
  <2>1. SumFunction(read) = 0
    BY <1>1, <1>12, <1>13, SumZero
  <2>2. QED
    BY <1>5, <2>1
<1>14. outcome[r] = "too large" => ElementsRead(r) = 0
  <2>1. SUFFICES ASSUME outcome[r] = "too large" PROVE ElementsRead(r) = 0
    OBVIOUS
  <2>2. ASSUME NEW v \in D PROVE s[v] = 0
    <3>1. ~(s[v] > 0)
      BY <1>8, <2>1
    <3>2. s[v] \in 0..2
      BY <1>1
    <3>3. QED
      BY <3>1, <3>2
  <2>3. \A v \in D : read[v] = 0
    BY <1>3, <1>12, <2>2
  <2>4. QED
    BY <1>13, <2>3
<1>15. /\ IsFiniteSet(T) /\ values \in [T -> Nat] /\ counts \in [C -> Nat]
       /\ SumFunction(values) \in Nat /\ SumFunction(counts) \in Nat
  <2>1. values \in [T -> Nat] /\ counts \in [C -> Nat]
    BY <1>2, <1>3, <1>4 DEF values, counts
  <2>2. IsFiniteSet(T)
    BY <1>1, <1>4, FS_Subset
  <2>3. QED
    BY <1>2, <2>1, <2>2, SumType
<1>16. ElementsRead(r) <= B + SumFunction(values)
  <2>1. CASE \A v \in D : s[v] = 0 \/ d.shape[v] = Unknown
    <3>1. \A v \in D : read[v] = 0
      BY <1>1, <1>3, <1>10, <1>12, <2>1
    <3>2. ElementsRead(r) = 0
      BY <1>13, <3>1
    <3>3. QED
      BY <1>6, <1>15, <3>2
  <2>2. CASE \E v \in D : s[v] # 0 /\ d.shape[v] # Unknown
    <3>1. SumFunction(counts) <= B
      <4>1. WithinBudget(d, r)
        BY <1>1, <1>9, <2>2
      <4>2. QED
        BY <4>1 DEF WithinBudget, counts, C, B
    <3>2. /\ once \in [D -> Nat] /\ twice \in [D -> Nat]
          /\ \A v \in D \ C : once[v] = 0
          /\ \A v \in D \ T : twice[v] = 0
      BY <1>2, <1>3
    <3>3. SumFunction(once) = SumFunction(counts)
      <4>1. [v \in C |-> once[v]] = counts
        BY <1>2 DEF counts
      <4> HIDE DEF once
      <4>2. IsFiniteSet(D) /\ C \in SUBSET D /\ once \in [D -> Nat] /\ \A v \in D \ C : once[v] = 0
        BY <1>1, <1>2, <3>2
      <4>3. SumFunction(once) = SumFunction([v \in C |-> once[v]])
        BY <4>2, SumPart, SMTT(30)
      <4>4. QED
        BY <4>1, <4>3
    <3>4. SumFunction(twice) = SumFunction(values)
      <4>1. [v \in T |-> twice[v]] = values
        BY <1>4 DEF values
      <4> HIDE DEF twice
      <4>2. IsFiniteSet(D) /\ T \in SUBSET D /\ twice \in [D -> Nat] /\ \A v \in D \ T : twice[v] = 0
        BY <1>1, <1>4, <3>2
      <4>3. SumFunction(twice) = SumFunction([v \in T |-> twice[v]])
        BY <4>2, SumPart, SMTT(30)
      <4>4. QED
        BY <4>1, <4>3
    <3>5. ASSUME NEW v \in D PROVE read[v] <= once[v] + twice[v]
      <4>1. once[v] \in Nat /\ twice[v] \in Nat /\ value(v) \in Nat
        BY <1>3, <3>2
      <4>2. CASE s[v] = 0 \/ d.shape[v] = Unknown
        <5>1. read[v] = 0
          BY <1>1, <1>3, <1>10, <1>12, <4>2
        <5>2. QED
          BY <4>1, <5>1
      <4>3. CASE s[v] > 0 /\ d.shape[v] # Unknown
        <5>1. once[v] = value(v)
          BY <1>9, <1>11, <4>3
        <5>2. s[v] = 2 => twice[v] = value(v)
          BY <1>9, <4>3
        <5>3. s[v] = 1 \/ s[v] = 2
          BY <1>1, <4>3
        <5>4. read[v] = s[v] * value(v)
          BY <1>12
        <5> HIDE DEF once, twice
        <5>5. CASE s[v] = 1
          BY <4>1, <5>1, <5>4, <5>5
        <5>6. CASE s[v] = 2
          BY <4>1, <5>1, <5>2, <5>4, <5>6
        <5>7. QED
          BY <5>3, <5>5, <5>6
      <4>4. QED
        BY <1>1, <4>2, <4>3
    <3> HIDE DEF once, twice
    <3> DEFINE both == [v \in D |-> once[v] + twice[v]]
    <3>6. both \in [D -> Nat] /\ \A v \in D : read[v] <= both[v]
      BY <3>2, <3>5
    <3>7. SumFunction(both) = SumFunction(once) + SumFunction(twice)
      BY <1>1, <3>2, SumPlus
    <3> HIDE DEF both
    <3>8. SumFunction(read) <= SumFunction(both)
      BY <1>1, <1>12, <3>6, SumBelow
    <3>9. SumFunction(read) \in Nat
      BY <1>1, <1>12, SumType
    <3>10. QED
      BY <1>5, <1>6, <1>15, <3>1, <3>3, <3>4, <3>7, <3>8, <3>9
  <2>3. QED
    BY <2>1, <2>2
<1>17. QED
  BY <1>14, <1>16 DEF values, value, T, B, d

\* No step of either reader takes it beyond what the file's length allows.
THEOREM BudgetHolds == Spec => []ReadsWithinBudget
<1>1. TransferInv => ReadsWithinBudget
  BY WithinBudgetOfOne DEF TransferInv, ReadsWithinBudget
<1>2. QED
  BY <1>1, TransferInvariant, PTL

-----------------------------------------------------------------------------
(* The two readers agree.                                                  *)

\* Both know the same layouts, OpenLazy those of the audio from a list of its
\* own.
LEMMA FitsAlike ==
  ASSUME NEW d, NEW size, NEW v
  PROVE  Fits(d, size, "Open", v) <=> Fits(d, size, "OpenLazy", v)
<1>1. LazyLayouts(d.type) = AudioLayouts(d.type)
  BY DEF LazyLayouts, AudioLayouts
<1>2. QED
  BY <1>1 DEF Fits

\* OpenLazy checks the layout of the audio where Open reads it; otherwise they
\* have the same to do.
LEMMA SameSteps ==
  ASSUME NEW d
  PROVE  /\ \A x \in StepSet(d, "Open") :
              \/ x \in StepSet(d, "OpenLazy")
              \/ \E v \in Range(AudioOf(d.type)) :
                   /\ x = [do |-> "read", var |-> v]
                   /\ [do |-> "layout", var |-> v] \in StepSet(d, "OpenLazy")
         /\ \A x \in StepSet(d, "OpenLazy") :
              \/ x \in StepSet(d, "Open")
              \/ \E v \in Range(AudioOf(d.type)) :
                   /\ x = [do |-> "layout", var |-> v]
                   /\ [do |-> "read", var |-> v] \in StepSet(d, "Open")
<1> DEFINE A == Range(AudioOf(d.type))
           O == StepSet(d, "Open")
           L == StepSet(d, "OpenLazy")
           Rest == FirstSteps
                     \cup Steps("sections", IF d.type = "SOS" THEN {"N"} ELSE {})
                     \cup Steps("read", IF Rated(d.type) THEN {"Data.SamplingRate", "Data.Delay"}
                                                         ELSE {"N"})
                     \cup Steps("read", Range(Spatial))
                     \cup Steps("room", Range(RoomVariables)) \cup Steps("extra", Extra(d))
<1>1. O = Rest \cup Steps("read", A) /\ L = Rest \cup Steps("layout", A)
  BY DEF StepSet, AudioStepSet
<1>2. \A what, x : x \in Steps(what, A) <=> \E v \in A : x = [do |-> what, var |-> v]
  BY DEF Steps
<1> HIDE DEF A, O, L, Rest
<1>3. ASSUME NEW x \in O
      PROVE  x \in L \/ \E v \in A : x = [do |-> "read", var |-> v] /\ [do |-> "layout", var |-> v] \in L
  BY <1>1, <1>2
<1>4. ASSUME NEW x \in L
      PROVE  x \in O \/ \E v \in A : x = [do |-> "layout", var |-> v] /\ [do |-> "read", var |-> v] \in O
  BY <1>1, <1>2
<1>5. QED
  BY <1>3, <1>4 DEF A, O, L

\* What one reader needs of the audio the other needs too.
LEMMA PassAlike ==
  ASSUME NEW d
  PROVE  /\ \A x : x.do # "budget" => (Passes(d, "Open", x) <=> Passes(d, "OpenLazy", x))
         /\ \A v \in Range(AudioOf(d.type)) :
              Passes(d, "Open", [do |-> "read", var |-> v])
                <=> Passes(d, "OpenLazy", [do |-> "layout", var |-> v])
<1>1. ASSUME NEW x, x.do # "budget" PROVE Passes(d, "Open", x) <=> Passes(d, "OpenLazy", x)
  BY <1>1, FitsAlike DEF Passes
<1>2. ASSUME NEW v \in Range(AudioOf(d.type))
      PROVE  Passes(d, "Open", [do |-> "read", var |-> v])
               <=> Passes(d, "OpenLazy", [do |-> "layout", var |-> v])
  <2> DEFINE x == [do |-> "read", var |-> v]
             y == [do |-> "layout", var |-> v]
             fits(r) == v \in DOMAIN d.shape /\ Fits(d, FoundSizes(d), r, v) /\ v \notin d.odd
  <2>1. x.do = "read" /\ x.var = v /\ y.do = "layout" /\ y.var = v
    OBVIOUS
  <2> HIDE DEF x, y
  <2>2. Passes(d, "Open", x) <=> fits("Open") \/ v \notin DOMAIN d.shape \cup Range(AudioOf(d.type))
    BY <2>1 DEF Passes
  <2>3. Passes(d, "OpenLazy", y) <=> fits("OpenLazy")
    BY <2>1 DEF Passes
  <2>4. fits("Open") <=> fits("OpenLazy")
    BY FitsAlike
  <2>5. QED
    BY <2>2, <2>3, <2>4 DEF x, y
<1>3. QED
  BY <1>1, <1>2

\* When a reader is done it has passed all its steps, and when it has failed
\* for the file's sake there is one it cannot pass.
LEMMA OutcomeSays ==
  ASSUME ReadInv, opened # <<>>, NEW r \in Readers
  PROVE  /\ outcome[r] = "ok" => \A x \in StepSet(Given, r) : Passes(Given, r, x)
         /\ outcome[r] \notin {"none", "ok", "io"} =>
              \E x \in StepSet(Given, r) :
                ~Passes(Given, r, x) /\ (outcome[r] = "too large" <=> x.do = "budget")
<1> DEFINE plan == Plan(Given, r)
           S == StepSet(Given, r)
<1>1. StoredFile(Given) /\ LeftToDo(r) /\ FoundOut(r)
  BY DEF ReadInv, ReadTypeOK
<1>2. /\ plan \in Seq(S) /\ Len(plan) \in Nat
      /\ \A x \in S : \E i \in 1..Len(plan) : plan[i] = x
  <2>1. Lists(plan, S)
    BY <1>1, PlanListed
  <2> HIDE DEF plan, S
  <2>2. QED
    BY <2>1 DEF Lists
<1>3. outcome[r] = "ok" => \A i \in 1..Len(plan) : Passes(Given, r, plan[i])
  <2>1. SUFFICES ASSUME outcome[r] = "ok" PROVE \A i \in 1..Len(plan) : Passes(Given, r, plan[i])
    OBVIOUS
  <2>2. todo[r] = <<>>
    BY <1>1, <2>1 DEF LeftToDo
  <2>3. Behind(r) = Len(plan)
    BY <1>2, <2>2 DEF Behind
  <2>4. QED
    BY <1>1, <2>1, <2>3 DEF FoundOut
<1>4. outcome[r] \notin {"none", "ok", "io"} =>
        \E i \in DOMAIN plan :
          ~Passes(Given, r, plan[i]) /\ (outcome[r] = "too large" <=> plan[i].do = "budget")
  BY <1>1 DEF FoundOut
<1> HIDE DEF plan, S
<1>5. \A i \in DOMAIN plan : plan[i] \in S
  BY <1>2
<1>6. QED
  BY <1>2, <1>3, <1>4, <1>5 DEF S, plan

\* A file one reader accepts the other one accepts too, unless it is too large
\* for Open.
LEMMA ReadersAgree ==
  ASSUME ReadInv
  PROVE  LazyAgrees
<1> DEFINE d == Given
           O == StepSet(d, "Open")
           L == StepSet(d, "OpenLazy")
           PassO(x) == Passes(d, "Open", x)
           PassL(x) == Passes(d, "OpenLazy", x)
           o == outcome["Open"]
           l == outcome["OpenLazy"]
<1>1. SUFFICES ASSUME o \notin {"none", "io"}, l \notin {"none", "io"}, o # "too large"
               PROVE  o = "ok" <=> l = "ok"
  BY DEF LazyAgrees, Readers
<1>2. opened # <<>>
  BY <1>1 DEF ReadInv, ReadTypeOK, Readers
<1>3. StoredFile(d)
  BY <1>2 DEF ReadInv, ReadTypeOK
<1>4. /\ o = "ok" => \A x \in O : PassO(x)
      /\ o # "ok" => \E x \in O : ~PassO(x) /\ x.do # "budget"
      /\ l = "ok" => \A x \in L : PassL(x)
      /\ l # "ok" => \E x \in L : ~PassL(x)
  <2>1. "Open" \in Readers /\ "OpenLazy" \in Readers
    BY DEF Readers
  <2>2. /\ o = "ok" => \A x \in O : PassO(x)
        /\ o \notin {"none", "ok", "io"} =>
             \E x \in O : ~PassO(x) /\ (o = "too large" <=> x.do = "budget")
    BY <1>2, <2>1, OutcomeSays
  <2>3. /\ l = "ok" => \A x \in L : PassL(x)
        /\ l \notin {"none", "ok", "io"} =>
             \E x \in L : ~PassL(x) /\ (l = "too large" <=> x.do = "budget")
    BY <1>2, <2>1, OutcomeSays
  <2> HIDE DEF PassO, PassL, O, L
  <2>4. QED
    BY <1>1, <2>2, <2>3
<1>5. \A x : x.do # "budget" => (PassO(x) <=> PassL(x))
  BY PassAlike
<1>6. \A v \in Range(AudioOf(d.type)) :
        PassO([do |-> "read", var |-> v]) <=> PassL([do |-> "layout", var |-> v])
  BY PassAlike
<1>7. \A x : x.do = "budget" => (PassO(x) <=> WithinBudget(d, "Open")) /\ (PassL(x) <=> WithinBudget(d, "OpenLazy"))
  BY DEF Passes
<1>8. WithinBudget(d, "Open") => WithinBudget(d, "OpenLazy")
  BY <1>3, LazyCountsLess
<1> DEFINE A == Range(AudioOf(d.type))
<1>9. /\ \A x \in O : \/ x \in L
                      \/ \E v \in A : x = [do |-> "read", var |-> v] /\ [do |-> "layout", var |-> v] \in L
      /\ \A x \in L : \/ x \in O
                      \/ \E v \in A : x = [do |-> "layout", var |-> v] /\ [do |-> "read", var |-> v] \in O
  BY SameSteps
<1> HIDE DEF PassO, PassL, O, L, d, A, o, l
<1>10. ASSUME o = "ok", l # "ok" PROVE FALSE
  <2>1. PICK x \in L : ~PassL(x)
    BY <1>4, <1>10
  <2>2. CASE x \in O
    <3>1. PassO(x)
      BY <1>4, <1>10, <2>2
    <3>2. QED
      BY <1>5, <1>7, <1>8, <2>1, <3>1
  <2>3. CASE x \notin O
    <3>1. PICK v \in A : x = [do |-> "layout", var |-> v] /\ [do |-> "read", var |-> v] \in O
      BY <1>9, <2>1, <2>3
    <3>2. PassO([do |-> "read", var |-> v])
      BY <1>4, <1>10, <3>1
    <3>3. PassL([do |-> "layout", var |-> v])
      BY <1>6, <3>2 DEF A
    <3>4. QED
      BY <2>1, <3>1, <3>3
  <2>4. QED
    BY <2>2, <2>3
<1>11. ASSUME o # "ok", l = "ok" PROVE FALSE
  <2>1. PICK x \in O : ~PassO(x) /\ x.do # "budget"
    BY <1>4, <1>11
  <2>2. CASE x \in L
    <3>1. PassL(x)
      BY <1>4, <1>11, <2>2
    <3>2. QED
      BY <1>5, <2>1, <3>1
  <2>3. CASE x \notin L
    <3>1. PICK v \in A : x = [do |-> "read", var |-> v] /\ [do |-> "layout", var |-> v] \in L
      BY <1>9, <2>1, <2>3
    <3>2. PassL([do |-> "layout", var |-> v])
      BY <1>4, <1>11, <3>1
    <3>3. PassO([do |-> "read", var |-> v])
      BY <1>6, <3>2 DEF A
    <3>4. QED
      BY <2>1, <3>1, <3>3
  <2>4. QED
    BY <2>2, <2>3
<1>12. QED
  BY <1>10, <1>11

\* Open and OpenLazy accept the same files, whichever reads first and however
\* far the other one is.
THEOREM ReadersAccept == Spec => []LazyAgrees
  BY TransferInvariant, ReadersAgree, PTL DEF TransferInv

-----------------------------------------------------------------------------
(* Sums of a few terms.                                                    *)

\* The sum of what is counted for each kind of axis.
LEMMA SumOfLabels ==
  ASSUME NEW f \in [Labels -> Nat]
  PROVE  /\ IsFiniteSet(Labels)
         /\ SumFunction(f) = f["M"] + f["R"] + f["E"] + f["N"] + f["C"] + f["I"]
<1>1. IsFiniteSet(Labels)
  <2>1. Labels = ({"M", "R"} \cup {"E", "N"}) \cup {"C", "I"}
    BY DEF Labels, Sizes
  <2>2. Labels = {"M", "R", "E", "N", "C"} \cup {"I", "I", "I", "I", "I"}
    BY <2>1
  <2>3. IsFiniteSet({"M", "R", "E", "N", "C"}) /\ IsFiniteSet({"I", "I", "I", "I", "I"})
    BY FiveFinite
  <2> DEFINE X == {"M", "R", "E", "N", "C"}
             Y == {"I", "I", "I", "I", "I"}
  <2> HIDE DEF X, Y
  <2>4. IsFiniteSet(X \cup Y)
    BY <2>3, FS_Union DEF X, Y
  <2>5. QED
    BY <2>2, <2>4 DEF X, Y
<1>2. PICK g : Sums(g, Labels, f) /\ g[Labels] = SumFunction(f)
  BY <1>1, SumFold
<1> DEFINE A == {"R", "E", "N", "C", "I"}
           B == {"E", "N", "C", "I"}
           C == {"N", "C", "I"}
           D == {"C", "I"}
           F == {"I"}
<1>3. /\ A \in SUBSET Labels /\ B \in SUBSET Labels /\ C \in SUBSET Labels
      /\ D \in SUBSET Labels /\ F \in SUBSET Labels /\ {} \in SUBSET Labels
      /\ Labels \in SUBSET Labels
  BY DEF Labels, Sizes
<1>4. /\ "M" \in Labels /\ Labels \ {"M"} = A /\ "R" \in A /\ A \ {"R"} = B
      /\ "E" \in B /\ B \ {"E"} = C /\ "N" \in C /\ C \ {"N"} = D
      /\ "C" \in D /\ D \ {"C"} = F /\ "I" \in F /\ F \ {"I"} = {}
  BY DEF Labels, Sizes
<1> HIDE DEF A, B, C, D, F
<1>5. /\ g[Labels] = f["M"] + g[A] /\ g[A] = f["R"] + g[B] /\ g[B] = f["E"] + g[C]
      /\ g[C] = f["N"] + g[D] /\ g[D] = f["C"] + g[F] /\ g[F] = f["I"] + g[{}] /\ g[{}] = 0
  <2>1. g[{}] = 0 /\ \A s \in SUBSET Labels : \A x \in s : g[s] = f[x] + g[s \ {x}]
    BY <1>2 DEF Sums
  <2>2. g[Labels] = f["M"] + g[A]
    BY <1>3, <1>4, <2>1
  <2>3. g[A] = f["R"] + g[B]
    BY <1>3, <1>4, <2>1
  <2>4. g[B] = f["E"] + g[C]
    BY <1>3, <1>4, <2>1
  <2>5. g[C] = f["N"] + g[D]
    BY <1>3, <1>4, <2>1
  <2>6. g[D] = f["C"] + g[F]
    BY <1>3, <1>4, <2>1
  <2>7. g[F] = f["I"] + g[{}]
    BY <1>3, <1>4, <2>1
  <2>8. QED
    BY <2>1, <2>2, <2>3, <2>4, <2>5, <2>6, <2>7
<1>6. /\ f["M"] \in Nat /\ f["R"] \in Nat /\ f["E"] \in Nat
      /\ f["N"] \in Nat /\ f["C"] \in Nat /\ f["I"] \in Nat
  BY <1>3, <1>4
<1>7. QED
  BY <1>1, <1>2, <1>5, <1>6

\* The sum of one term.
LEMMA SumOfOne ==
  ASSUME NEW a, NEW f \in [{a} -> Nat]
  PROVE  SumFunction(f) = f[a]
<1>1. PICK g : Sums(g, {a}, f) /\ g[{a}] = SumFunction(f)
  BY SumFold, FS_Singleton
<1>2. g[{a}] = f[a] + g[{a} \ {a}] /\ g[{}] = 0
  BY <1>1 DEF Sums
<1>3. {a} \ {a} = {} /\ f[a] \in Nat
  OBVIOUS
<1>4. QED
  BY <1>1, <1>2, <1>3

\* The sum of two terms.
LEMMA SumOfTwo ==
  ASSUME NEW a, NEW b, a # b, NEW f \in [{a, b} -> Nat]
  PROVE  SumFunction(f) = f[a] + f[b]
<1>0. IsFiniteSet({a, b})
  <2>1. IsFiniteSet({a, b, b, b, b})
    BY FiveFinite
  <2>2. QED
    BY <2>1
<1>1. PICK g : Sums(g, {a, b}, f) /\ g[{a, b}] = SumFunction(f)
  BY <1>0, SumFold
<1>2. {a, b} \ {a} = {b} /\ {b} \ {b} = {} /\ f[a] \in Nat /\ f[b] \in Nat
  OBVIOUS
<1>3. /\ {a, b} \in SUBSET {a, b} /\ a \in {a, b}
      /\ {b} \in SUBSET {a, b} /\ b \in {b}
  OBVIOUS
<1>4. g[{a, b}] = f[a] + g[{a, b} \ {a}] /\ g[{b}] = f[b] + g[{b} \ {b}] /\ g[{}] = 0
  BY <1>1, <1>3 DEF Sums
<1>5. g[{a, b}] = f[a] + g[{b}] /\ g[{b}] = f[b] + 0
  BY <1>2, <1>4
<1>6. QED
  BY <1>1, <1>2, <1>5

\* The sum of three terms.
SumsThree(f, a, b, c) == SumFunction(f) = f[a] + f[b] + f[c]

\* It is what f's values add up to.
LEMMA SumOfThree ==
  ASSUME NEW a, NEW b, NEW c, a # b, a # c, b # c, NEW f \in [{a, b, c} -> Nat]
  PROVE  SumsThree(f, a, b, c)
<1>0. IsFiniteSet({a, b, c})
  <2>1. IsFiniteSet({a, b, c, c, c})
    BY FiveFinite
  <2>2. QED
    BY <2>1
<1>1. PICK g : Sums(g, {a, b, c}, f) /\ g[{a, b, c}] = SumFunction(f)
  BY <1>0, SumFold
<1>2. /\ {a, b, c} \ {a} = {b, c} /\ {b, c} \ {b} = {c} /\ {c} \ {c} = {}
      /\ f[a] \in Nat /\ f[b] \in Nat /\ f[c] \in Nat
  OBVIOUS
<1>3. /\ {a, b, c} \in SUBSET {a, b, c} /\ a \in {a, b, c}
      /\ {b, c} \in SUBSET {a, b, c} /\ b \in {b, c}
      /\ {c} \in SUBSET {a, b, c} /\ c \in {c}
  OBVIOUS
<1>4. /\ g[{a, b, c}] = f[a] + g[{a, b, c} \ {a}] /\ g[{b, c}] = f[b] + g[{b, c} \ {b}]
      /\ g[{c}] = f[c] + g[{c} \ {c}] /\ g[{}] = 0
  BY <1>1, <1>3 DEF Sums
<1>5. g[{a, b, c}] = f[a] + g[{b, c}] /\ g[{b, c}] = f[b] + g[{c}] /\ g[{c}] = f[c] + 0
  BY <1>2, <1>4
<1>6. QED
  BY <1>1, <1>2, <1>5 DEF SumsThree

-----------------------------------------------------------------------------
(* The sizes of what WriteTo writes.                                       *)

Audio(f) == Range(AudioOf(f.type))
Datasets(f) == SavedVariables(f) \cup Labels
CountOf(f, v) == Count(Shape(f.size, SavedLayout(f, v)))

\* What is known of a File that is sent.
LEMMA SentFields ==
  ASSUME NEW f \in Files
  PROVE  /\ f.type \in {"FIR", "SOS", "TF", "TFE"} /\ Sized(f.size)
         /\ f.type = "SOS" => f.size["N"] % 6 = 0
         /\ f.emitterRows \in {"E", "I"} /\ f.room \subseteq {"RoomVolume", "RoomTemperature"}
         /\ f.packed \in Nat /\ f.bytes \in Nat
<1>1. Range(RoomVariables) = {"RoomVolume", "RoomTemperature"}
  BY DEF RoomVariables, Range
<1>2. QED
  BY <1>1, FilesValid, FilesGiven DEF Sized

\* The names of the audio variables.
LEMMA AudioNames ==
  ASSUME NEW f
  PROVE  /\ Audio(f) \subseteq {"Data.IR", "Data.SOS", "Data.Real", "Data.Imag"}
         /\ AudioOf(f.type)[1] \in Audio(f)
         /\ \/ \E a : AudioOf(f.type) = <<a>> /\ Audio(f) = {a}
            \/ \E a, b : AudioOf(f.type) = <<a, b>> /\ Audio(f) = {a, b} /\ a # b
<1>1. \A a, b : Range(<<a>>) = {a} /\ Range(<<a, b>>) = {a, b}
  BY DEF Range
<1>2. \/ AudioOf(f.type) = <<"Data.IR">> \/ AudioOf(f.type) = <<"Data.SOS">>
      \/ AudioOf(f.type) = <<"Data.Real", "Data.Imag">>
  BY DEF AudioOf
<1>3. QED
  BY <1>1, <1>2 DEF Audio

\* The layouts Save chooses, name by name.
LEMMA SavedLayoutsAre ==
  ASSUME NEW f \in Files, NEW v \in Datasets(f)
  PROVE  LET l == SavedLayout(f, v)
         IN  \/ v \in Audio(f) /\ l = IF f.type = "TFE" THEN MRNE ELSE MRN
             \/ v = "SourcePosition" /\ l = <<"M", "C">>
             \/ v = "ReceiverPosition" /\ l = <<"R", "C", "I">>
             \/ v = "EmitterPosition" /\ l = <<f.emitterRows, "C", "I">>
             \/ v \in {"ListenerPosition", "ListenerUp", "ListenerView"} /\ l = <<"I", "C">>
             \/ v = "Data.Delay" /\ Rated(f.type) /\ l = <<"I", "R">>
             \/ v = "Data.SamplingRate" /\ Rated(f.type) /\ l = <<"I">>
             \/ v \in f.room /\ l = <<"I">>
             \/ v \in Labels /\ l = <<v>>
<1>1. f.room \subseteq {"RoomVolume", "RoomTemperature"}
  BY SentFields
<1>2. Range(RoomVariables) = {"RoomVolume", "RoomTemperature"}
  BY DEF RoomVariables, Range
<1>3. Range(Spatial) = {"ListenerPosition", "ReceiverPosition", "SourcePosition",
                        "EmitterPosition", "ListenerUp", "ListenerView"}
  BY DEF Spatial, Range
<1>4. Range(AudioOf(f.type)) \subseteq {"Data.IR", "Data.SOS", "Data.Real", "Data.Imag"}
  BY AudioNames DEF Audio
<1>5. Labels = {"M", "R", "E", "N", "C", "I"}
  BY DEF Labels, Sizes
<1>6. CASE v \in Audio(f)
  <2>1. SavedLayout(f, v) = IF f.type = "TFE" THEN MRNE ELSE MRN
    <3>0. Labels = {"M", "R", "E", "N"} \cup {"C", "I"} /\ Sizes = {"M", "R", "E", "N"}
      BY DEF Labels, Sizes
    <3>1. v \in {"Data.IR", "Data.SOS", "Data.Real", "Data.Imag"}
      BY <1>4, <1>6 DEF Audio
    <3>2. QED
      BY <1>2, <1>6, <3>0, <3>1 DEF SavedLayout, Audio
  <2>2. QED
    BY <1>6, <2>1
<1>7. CASE v \in Range(Spatial)
  <2>1. /\ v = "SourcePosition" => SavedLayout(f, v) = <<"M", "C">>
        /\ v = "ReceiverPosition" => SavedLayout(f, v) = <<"R", "C", "I">>
        /\ v = "EmitterPosition" => SavedLayout(f, v) = <<f.emitterRows, "C", "I">>
        /\ v \in {"ListenerPosition", "ListenerUp", "ListenerView"} => SavedLayout(f, v) = <<"I", "C">>
    BY <1>2, <1>3, <1>4, <1>7 DEF SavedLayout, Sizes
  <2>2. v \in {"ListenerPosition", "ReceiverPosition", "SourcePosition",
                "EmitterPosition", "ListenerUp", "ListenerView"}
    BY <1>3, <1>7
  <2>3. QED
    BY <2>1, <2>2
<1>8. CASE v \in f.room
  <2>1. SavedLayout(f, v) = <<"I">>
    BY <1>1, <1>2, <1>4, <1>8 DEF SavedLayout, Sizes
  <2>2. QED
    BY <1>8, <2>1
<1>9. CASE v \in Labels
  BY <1>2, <1>4, <1>5, <1>9 DEF SavedLayout, Labels
<1>10. CASE Rated(f.type) /\ v \in {"Data.SamplingRate", "Data.Delay"}
  <2>1. /\ v = "Data.Delay" => SavedLayout(f, v) = <<"I", "R">>
        /\ v = "Data.SamplingRate" => SavedLayout(f, v) = <<"I">>
    BY <1>2, <1>4, <1>10 DEF SavedLayout, Sizes
  <2>2. QED
    BY <1>10, <2>1
<1>11. QED
  BY <1>6, <1>7, <1>8, <1>9, <1>10 DEF Datasets, SavedVariables, Audio

\* How many values each of them has: at least one, and unlike the sum below
\* never more than three for each measurement, receiver, emitter and sample.
LEMMA SavedCounts ==
  ASSUME NEW f \in Files, NEW v \in Datasets(f)
  PROVE  LET M == f.size["M"]  R == f.size["R"]  E == f.size["E"]  N == f.size["N"]
         IN  /\ CountOf(f, v) \in Nat
             /\ v \in Labels => CountOf(f, v) = AxisSize(f.size, v)
             /\ v = "SourcePosition" => CountOf(f, v) = M * 3
             /\ v = "ReceiverPosition" => CountOf(f, v) = R * 3
             /\ v \in Audio(f) => CountOf(f, v) = IF f.type = "TFE" THEN (M * R) * (N * E) ELSE M * R * N
             /\ v \in {"ListenerPosition", "ListenerUp", "ListenerView"} => CountOf(f, v) = 3
             /\ v = "EmitterPosition" => CountOf(f, v) \in {E * 3, 3}
             /\ v \in {"Data.SamplingRate"} \cup f.room => CountOf(f, v) = 1
             /\ v = "Data.Delay" => CountOf(f, v) = R
<1> DEFINE size == f.size
           M == size["M"]
           R == size["R"]
           E == size["E"]
           N == size["N"]
           Is(l, c) == Count(Shape(size, l)) = c
<1>1. Sized(size) /\ f.emitterRows \in {"E", "I"} /\ f.room \subseteq {"RoomVolume", "RoomTemperature"}
  BY SentFields
<1>2. M \in Nat \ {0} /\ R \in Nat \ {0} /\ E \in Nat \ {0} /\ N \in Nat \ {0}
  BY <1>1, AxisSizes
<1>3. /\ Is(<<"I">>, 1) /\ Is(<<"I", "R">>, R) /\ Is(<<"I", "C">>, 3) /\ Is(<<"M", "C">>, M * 3)
      /\ Is(MRN, M * R * N) /\ Is(MRNE, (M * R) * (N * E))
  BY <1>1, LayoutCounts
<1>4. /\ Is(<<"R", "C", "I">>, R * 3) /\ Is(<<"E", "C", "I">>, E * 3) /\ Is(<<"I", "C", "I">>, 1 * 3)
  <2>1. AxisSize(size, "R") = R /\ AxisSize(size, "E") = E /\ AxisSize(size, "I") = 1
    BY <1>1, AxisSizes
  <2>2. \A x : Count(Shape(size, <<x, "C", "I">>)) = AxisSize(size, x) * 3
    BY <1>1, PositionCounts
  <2>3. QED
    BY <2>1, <2>2
<1>5. v \in Labels => Is(<<v>>, AxisSize(size, v)) /\ AxisSize(size, v) \in Nat
  <2>1. SUFFICES ASSUME v \in Labels PROVE Is(<<v>>, AxisSize(size, v)) /\ AxisSize(size, v) \in Nat
    OBVIOUS
  <2>2. AxisSize(size, v) \in Nat
    BY <1>1, PositionCounts
  <2>3. Counts(<<AxisSize(size, v)>>, AxisSize(size, v))
    BY <2>2, CountShort
  <2>4. Shape(size, <<v>>) = <<AxisSize(size, v)>>
    BY ShapeShort
  <2>5. QED
    BY <2>2, <2>3, <2>4 DEF Counts
<1>6. Audio(f) \subseteq {"Data.IR", "Data.SOS", "Data.Real", "Data.Imag"}
  BY AudioNames
<1>7. Labels = {"M", "R", "E", "N", "C", "I"}
  BY DEF Labels, Sizes
<1>8. M * 3 \in Nat /\ R * 3 \in Nat /\ E * 3 \in Nat /\ M * R * N \in Nat /\ (M * R) * (N * E) \in Nat
  BY <1>2
<1>9. Is(SavedLayout(f, v), CountOf(f, v))
  BY DEF CountOf
<1> HIDE DEF size, M, R, E, N
<1>10. CASE v \in Audio(f) /\ SavedLayout(f, v) = IF f.type = "TFE" THEN MRNE ELSE MRN
  BY <1>1, <1>3, <1>6, <1>7, <1>8, <1>9, <1>10 DEF M, R, E, N, size
<1>11. CASE v = "SourcePosition" /\ SavedLayout(f, v) = <<"M", "C">>
  BY <1>1, <1>3, <1>6, <1>7, <1>8, <1>9, <1>11 DEF M, R, E, N, size
<1>12. CASE v = "ReceiverPosition" /\ SavedLayout(f, v) = <<"R", "C", "I">>
  BY <1>1, <1>4, <1>6, <1>7, <1>8, <1>9, <1>12 DEF M, R, E, N, size
<1>13. CASE v = "EmitterPosition" /\ SavedLayout(f, v) = <<f.emitterRows, "C", "I">>
  BY <1>1, <1>4, <1>6, <1>7, <1>8, <1>9, <1>13 DEF M, R, E, N, size
<1>14. CASE v \in {"ListenerPosition", "ListenerUp", "ListenerView"} /\ SavedLayout(f, v) = <<"I", "C">>
  BY <1>1, <1>3, <1>6, <1>7, <1>8, <1>9, <1>14 DEF M, R, E, N, size
<1>15. CASE v = "Data.Delay" /\ SavedLayout(f, v) = <<"I", "R">>
  BY <1>1, <1>2, <1>3, <1>6, <1>7, <1>9, <1>15 DEF M, R, E, N, size
<1>16. CASE v \in {"Data.SamplingRate"} \cup f.room /\ SavedLayout(f, v) = <<"I">>
  BY <1>1, <1>3, <1>6, <1>7, <1>9, <1>16 DEF M, R, E, N, size
<1>17. CASE v \in Labels /\ SavedLayout(f, v) = <<v>>
  BY <1>1, <1>5, <1>6, <1>7, <1>9, <1>17 DEF M, R, E, N, size
<1>18. QED
  BY <1>10, <1>11, <1>12, <1>13, <1>14, <1>15, <1>16, <1>17, SavedLayoutsAre

\* p, the product of a, b, c and d, is at least as large as each of them.
AllBelow(a, b, c, d, p) ==
  /\ p \in Nat /\ a <= p /\ b <= p /\ c <= p /\ d <= p
  /\ a * b * d <= p /\ (a * b) * (d * c) = p

\* No size is larger than the product of all.
LEMMA SizesBelow ==
  ASSUME NEW a \in Nat \ {0}, NEW b \in Nat \ {0}, NEW c \in Nat \ {0}, NEW d \in Nat \ {0}
  PROVE  AllBelow(a, b, c, d, a * b * c * d)
<1> DEFINE Grows(x, y) == x * y \in Nat \ {0} /\ x <= x * y /\ y <= x * y
<1>1. \A x, y \in Nat \ {0} : Grows(x, y)
  <2>1. TAKE x, y \in Nat \ {0}
  <2>2. x * 1 <= x * y /\ y * 1 <= y * x
    BY ProductGrows
  <2>3. x * y \in Nat \ {0}
    BY ProductPositive
  <2>4. x * 1 = x /\ y * 1 = y /\ y * x = x * y
    OBVIOUS
  <2>5. QED
    BY <2>2, <2>3, <2>4
<1>2. Grows(a, b)
  BY <1>1
<1>3. Grows(a * b, c) /\ Grows(a * b, d)
  <2>1. a * b \in Nat \ {0}
    BY <1>2
  <2>2. \A x \in Nat \ {0} : Grows(x, c) /\ Grows(x, d)
    BY <1>1
  <2> HIDE DEF Grows
  <2>3. QED
    BY <2>1, <2>2
<1>4. Grows(a * b * c, d) /\ Grows(a * b * d, c)
  <2>1. a * b * c \in Nat \ {0} /\ a * b * d \in Nat \ {0}
    BY <1>3
  <2>2. \A x \in Nat \ {0} : Grows(x, c) /\ Grows(x, d)
    BY <1>1
  <2> HIDE DEF Grows
  <2>3. QED
    BY <2>1, <2>2
<1>5. a * b * d * c = a * b * c * d /\ (a * b) * (d * c) = a * b * c * d
  OBVIOUS
<1> DEFINE p == a * b * c * d
<1>6. p \in Nat /\ a * b * c <= p /\ d <= p /\ a * b * d <= p /\ c <= p
  BY <1>4, <1>5
<1>7. a <= p /\ b <= p
  <2>1. a * b \in Nat /\ a * b * c \in Nat
    BY <1>2, <1>3
  <2>2. a <= a * b /\ b <= a * b /\ a * b <= a * b * c
    BY <1>2, <1>3
  <2> HIDE DEF p
  <2>3. QED
    BY <1>6, <2>1, <2>2
<1>8. QED
  BY <1>5, <1>6, <1>7 DEF AllBelow

\* The shapes of what WriteTo writes have no empty axis.
LEMMA SavedShape ==
  ASSUME NEW f \in Files, NEW v \in Datasets(f)
  PROVE  /\ Sent(f).shape[v] = Shape(f.size, SavedLayout(f, v))
         /\ Sent(f).shape[v] \in Seq(Nat) /\ Sent(f).shape[v] \notin {Unknown, <<>>}
         /\ \A i \in 1..Len(Sent(f).shape[v]) : Sent(f).shape[v][i] > 0
<1> DEFINE l == SavedLayout(f, v)
           A == {"M", "R", "E", "N", "C", "I"}
           s == Shape(f.size, l)
<1>1. l \in Seq(A) /\ l # <<>>
  <2>1. v \in SavedVariables(f) \cup Sizes \cup {"C", "I"}
    BY DEF Datasets, Labels
  <2>2. QED
    BY <2>1, SavedLayoutType
<1>2. Sent(f).shape[v] = s
  BY DEF Sent, Datasets, Labels
<1>3. \A x : AxisSize(f.size, x) \in Nat \ {0}
  BY SentFields, PositionCounts
<1> HIDE DEF l, A
<1>4. s \in Seq(Nat \ {0}) /\ Len(s) = Len(l)
  BY <1>1, <1>3 DEF Shape
<1>5. Len(l) \in Nat /\ Len(l) # 0
  BY <1>1, EmptySeq
<1>6. s[1] \in Nat \ {0} /\ s # <<>>
  <2> HIDE DEF s
  <2>1. QED
    BY <1>4, <1>5
<1>7. s # Unknown
  BY <1>6 DEF Unknown
<1>8. s \in Seq(Nat) /\ \A i \in 1..Len(s) : s[i] > 0
  <2> HIDE DEF s
  <2>1. QED
    BY <1>4
<1> HIDE DEF s
<1>9. QED
  BY <1>2, <1>6, <1>7, <1>8 DEF s, l

\* What every variable of an ordinary File counts is below the limit.
LEMMA OrdinaryCounts ==
  ASSUME NEW f \in Files, Ordinary(f), NEW v \in Datasets(f)
  PROVE  /\ CountOf(f, v) \in 1..MaxElements
         /\ ElementCount(Sent(f).shape[v]) = CountOf(f, v)
<1> DEFINE size == f.size
           M == size["M"]
           R == size["R"]
           E == size["E"]
           N == size["N"]
           P == Count(size)
           c == CountOf(f, v)
<1>1. M \in Nat \ {0} /\ R \in Nat \ {0} /\ E \in Nat \ {0} /\ N \in Nat \ {0}
  BY SentFields, AxisSizes
<1>2. P = M * R * E * N /\ 3 * P <= MaxElements
  <2>1. size \in [Sizes -> Nat]
    BY SentFields DEF Sized
  <2>2. QED
    BY <2>1, CountSizes DEF Ordinary
<1>3. /\ P \in Nat /\ M <= P /\ R <= P /\ E <= P /\ N <= P
      /\ M * R * N <= P /\ (M * R) * (N * E) = P
  <2> HIDE DEF M, R, E, N, P
  <2>1. AllBelow(M, R, E, N, M * R * E * N)
    BY <1>1, SizesBelow
  <2>2. AllBelow(M, R, E, N, P)
    BY <1>2, <2>1
  <2>3. QED
    BY <2>2 DEF AllBelow
<1>4. M * R * N \in Nat \ {0} /\ P >= 1
  <2>1. M * R \in Nat \ {0}
    BY <1>1, ProductPositive
  <2>2. M * R * N \in Nat \ {0}
    BY <1>1, <2>1, ProductPositive
  <2>3. QED
    BY <1>1, <1>3, <2>2
<1>5. /\ c \in Nat
      /\ v \in Labels => c = AxisSize(size, v)
      /\ v = "SourcePosition" => c = M * 3
      /\ v = "ReceiverPosition" => c = R * 3
      /\ v \in Audio(f) => c = IF f.type = "TFE" THEN (M * R) * (N * E) ELSE M * R * N
      /\ v \in {"ListenerPosition", "ListenerUp", "ListenerView"} => c = 3
      /\ v = "EmitterPosition" => c \in {E * 3, 3}
      /\ v \in {"Data.SamplingRate"} \cup f.room => c = 1
      /\ v = "Data.Delay" => c = R
  BY SavedCounts
<1>6. v \in Labels => c \in {M, R, E, N, 3, 1}
  <2>1. /\ AxisSize(size, "M") = M /\ AxisSize(size, "R") = R /\ AxisSize(size, "E") = E
        /\ AxisSize(size, "N") = N /\ AxisSize(size, "C") = 3 /\ AxisSize(size, "I") = 1
    BY SentFields, AxisSizes
  <2>2. Labels = {"M", "R", "E", "N", "C", "I"}
    BY DEF Labels, Sizes
  <2>3. QED
    BY <1>5, <2>1, <2>2
<1>7. \/ v \in Audio(f) \/ v \in {"SourcePosition", "ReceiverPosition", "EmitterPosition"}
      \/ v \in {"ListenerPosition", "ListenerUp", "ListenerView"}
      \/ v \in {"Data.Delay", "Data.SamplingRate"} \/ v \in f.room \/ v \in Labels
  BY SavedLayoutsAre
<1> DEFINE X == M * R * N
           Y == (M * R) * (N * E)
<1>8. c \in {M, R, E, N, 1, 3, X, Y, M * 3, R * 3, E * 3}
  <2> HIDE DEF M, R, E, N, c
  <2>1. QED
    BY <1>5, <1>6, <1>7
<1> HIDE DEF size, M, R, E, N, P, c
<1>9. X \in Nat \ {0} /\ X <= P /\ Y = P /\ P \in Nat /\ P >= 1 /\ 3 * P <= MaxElements /\ MaxElements \in Nat
  BY <1>2, <1>3, <1>4, LimitGiven
<1> HIDE DEF X, Y
<1>10. c \in 1..MaxElements
  BY <1>1, <1>3, <1>8, <1>9
<1>11. ElementCount(Sent(f).shape[v]) = c
  <2> DEFINE s == Sent(f).shape[v]
  <2>1. s \in Seq(Nat) /\ s = Shape(f.size, SavedLayout(f, v)) /\ \A i \in 1..Len(s) : s[i] > 0
    BY SavedShape
  <2>2. Count(s) = c
    BY <2>1 DEF c, CountOf
  <2> HIDE DEF s
  <2>3. Count(s) <= MaxElements
    BY <1>10, <2>2, LimitGiven
  <2>4. ElementCount(s) = Count(s)
    BY <2>1, <2>3, ElementsCounted
  <2>5. QED
    BY <2>2, <2>4 DEF s
<1>12. QED
  BY <1>10, <1>11 DEF c

\* The lengths of the audio data and of everything else, as WriteTo writes it.
LEMMA SamplesSum ==
  ASSUME NEW f \in Files, NEW c \in [Datasets(f) -> Nat], \A v \in Audio(f) : c[v] = CountOf(f, v)
  PROVE  /\ Samples(f) \in Nat /\ SumFunction([v \in Audio(f) |-> c[v]]) = Samples(f)
         /\ Audio(f) \subseteq SavedVariables(f)
<1> DEFINE first == AudioOf(f.type)[1]
           h == [v \in Audio(f) |-> c[v]]
           n1 == CountOf(f, first)
<1>1. Audio(f) \subseteq SavedVariables(f) /\ first \in Audio(f)
  BY AudioNames DEF SavedVariables, Audio
<1>2. Audio(f) \subseteq Datasets(f)
  BY <1>1 DEF Datasets
<1>3. h \in [Audio(f) -> Nat] /\ \A v \in Audio(f) : h[v] = CountOf(f, v)
  BY <1>2
<1>4. \A v \in Audio(f) : CountOf(f, v) = n1 /\ CountOf(f, v) \in Nat
  BY <1>1, <1>2, SavedCounts
<1>5. Samples(f) = Len(AudioOf(f.type)) * n1
  BY <1>1, <1>2, SavedShape DEF Samples, CountOf
<1> HIDE DEF h, n1
<1>6. CASE \E a : AudioOf(f.type) = <<a>> /\ Audio(f) = {a}
  <2>1. PICK a : AudioOf(f.type) = <<a>> /\ Audio(f) = {a}
    BY <1>6
  <2>2. h \in [{a} -> Nat] /\ h[a] = n1 /\ n1 \in Nat
    BY <1>3, <1>4, <2>1
  <2>3. SumFunction(h) = h[a]
    BY <2>2, SumOfOne
  <2>4. Samples(f) = 1 * n1
    BY <1>5, <2>1
  <2>5. QED
    BY <1>1, <2>2, <2>3, <2>4 DEF h
<1>7. CASE \E a, b : AudioOf(f.type) = <<a, b>> /\ Audio(f) = {a, b} /\ a # b
  <2>1. PICK a, b : AudioOf(f.type) = <<a, b>> /\ Audio(f) = {a, b} /\ a # b
    BY <1>7
  <2>2. h \in [{a, b} -> Nat] /\ h[a] = n1 /\ h[b] = n1 /\ n1 \in Nat
    BY <1>3, <1>4, <2>1
  <2>3. SumFunction(h) = h[a] + h[b]
    BY <2>1, <2>2, SumOfTwo
  <2>4. Samples(f) = 2 * n1
    BY <1>5, <2>1
  <2>5. QED
    BY <1>1, <2>2, <2>3, <2>4 DEF h
<1>8. QED
  BY <1>6, <1>7, AudioNames

\* The values that are neither compressed audio nor the missing value of a
\* scale, eight bytes each.
NotPacked(f) == (SavedVariables(f) \ Audio(f)) \cup IF Rated(f.type) THEN {} ELSE {"N"}

\* They are at least as many as there are measurements, receivers and what
\* comes once.
LEMMA NotPackedSum ==
  ASSUME NEW f \in Files
  PROVE  LET b == SumFunction([v \in NotPacked(f) |-> 8 * CountOf(f, v)])
         IN  /\ b \in Nat /\ NotPacked(f) \subseteq Datasets(f)
             /\ f.bytes >= f.packed + b
             /\ f.size["M"] + f.size["R"] + 4 <= b
<1> DEFINE S == NotPacked(f)
           h == [v \in S |-> 8 * CountOf(f, v)]
           T == {"SourcePosition", "ReceiverPosition", "ListenerPosition"}
<1>1. S \subseteq Datasets(f)
  BY DEF NotPacked, Datasets, Labels, Sizes
<1>2. IsFiniteSet(S)
  <2>1. StoredFile(Sent(f)) /\ DOMAIN Sent(f).shape = Datasets(f)
    BY SentStored DEF Sent, Datasets, Labels
  <2>2. IsFiniteSet(Datasets(f))
    BY <2>1 DEF StoredFile
  <2> HIDE DEF S
  <2>3. QED
    BY <1>1, <2>2, FS_Subset
<1>3. \A v \in S : CountOf(f, v) \in Nat
  BY <1>1, SavedCounts
<1>4. h \in [S -> Nat] /\ \A v \in S : h[v] = 8 * CountOf(f, v)
  BY <1>3
<1>5. T \in SUBSET S
  <2>1. T \subseteq Range(Spatial)
    BY DEF Spatial, Range
  <2>2. T \cap Audio(f) = {}
    <3>1. T \cap {"Data.IR", "Data.SOS", "Data.Real", "Data.Imag"} = {}
      OBVIOUS
    <3>2. QED
      BY <3>1, AudioNames
  <2>3. QED
    BY <2>1, <2>2 DEF NotPacked, SavedVariables
<1>6. f.size["M"] \in Nat \ {0} /\ f.size["R"] \in Nat \ {0}
  BY SentFields, AxisSizes
<1>7. /\ CountOf(f, "SourcePosition") = f.size["M"] * 3
      /\ CountOf(f, "ReceiverPosition") = f.size["R"] * 3
      /\ CountOf(f, "ListenerPosition") = 3
  <2>1. \A v \in T : v \in Datasets(f)
    BY <1>1, <1>5
  <2>2. QED
    BY <2>1, SavedCounts
<1>8. f.bytes >= f.packed + SumFunction(h)
  BY LengthsGiven DEF LeastBytes, NotPacked, CountOf, Audio
<1> HIDE DEF S
<1> DEFINE t == [v \in T |-> h[v]]
<1>9. t \in [T -> Nat] /\ \A v \in T : t[v] = 8 * CountOf(f, v)
  BY <1>4, <1>5
<1> HIDE DEF h
<1>10. SumFunction(t) <= SumFunction(h)
  BY <1>2, <1>4, <1>5, SumSubset
<1>11. SumFunction(t) = t["SourcePosition"] + t["ReceiverPosition"] + t["ListenerPosition"]
  <2> DEFINE a == "SourcePosition"
             b == "ReceiverPosition"
             c == "ListenerPosition"
  <2>1. a # b /\ a # c /\ b # c /\ t \in [{a, b, c} -> Nat]
    BY <1>9
  <2> HIDE DEF a, b, c
  <2>2. SumsThree(t, a, b, c)
    BY <2>1, SumOfThree
  <2>3. QED
    BY <2>2 DEF SumsThree, a, b, c
<1>12. SumFunction(h) \in Nat
  BY <1>2, <1>4, SumType
<1> HIDE DEF t
<1>13. SumFunction(t) = 8 * (f.size["M"] * 3) + 8 * (f.size["R"] * 3) + 8 * 3
  BY <1>7, <1>9, <1>11
<1>14. f.size["M"] + f.size["R"] + 4 <= SumFunction(h)
  BY <1>6, <1>10, <1>12, <1>13
<1>15. QED
  BY <1>1, <1>8, <1>12, <1>14 DEF h, S

\* The budget is at least what the file's length gives.
LEMMA BudgetAtLeast ==
  ASSUME NEW bytes \in Nat
  PROVE  Budget(bytes) \in Nat /\ Budget(bytes) >= PerByte * bytes
<1> DEFINE x == PerByte * bytes
<1>1. MinBudget \in Nat /\ x \in Nat
  BY BudgetGiven
<1> HIDE DEF x
<1>2. \E m \in {MinBudget, x} : \A y \in {MinBudget, x} : m >= y
  BY <1>1
<1>3. Max({MinBudget, x}) \in {MinBudget, x} /\ Max({MinBudget, x}) >= x
  BY <1>2 DEF Max
<1>4. QED
  BY <1>1, <1>3 DEF Budget, x

\* An ordinary File stays within the budget: three times its audio and its
\* other values count for the scales as well, and each of them takes a byte.
LEMMA OrdinaryWithinBudget ==
  ASSUME NEW f \in Files, Ordinary(f), NEW r
  PROVE  WithinBudget(Sent(f), r)
<1> DEFINE d == Sent(f)
           V == Datasets(f)
           A == Audio(f)
           S == NotPacked(f)
           K == Counted(d, r)
           c == [v \in V |-> CountOf(f, v)]
           ca == [v \in V |-> IF v \in A THEN c[v] ELSE 0]
           cs == [v \in V |-> IF v \in S THEN c[v] ELSE 0]
           cz == [v \in V |-> IF v \in Labels THEN c[v] ELSE 0]
           eight == [v \in S |-> 8 * CountOf(f, v)]
           M == f.size["M"]
           R == f.size["R"]
           E == f.size["E"]
           N == f.size["N"]
           b == SumFunction(eight)
<1>1. DOMAIN d.shape = V /\ d.bytes = f.bytes /\ IsFiniteSet(V)
  <2>1. DOMAIN d.shape = V /\ d.bytes = f.bytes
    BY DEF Sent, Datasets, Labels
  <2>2. IsFiniteSet(DOMAIN d.shape)
    BY SentStored DEF StoredFile
  <2>3. QED
    BY <2>1, <2>2
<1>2. K \in SUBSET V
  BY <1>1 DEF Counted
<1>3. \A v \in V : /\ CountOf(f, v) \in Nat /\ CountOf(f, v) <= MaxElements
                   /\ ElementCount(d.shape[v]) = CountOf(f, v)
  BY OrdinaryCounts, LimitGiven
<1>4. [v \in K |-> ElementCount(d.shape[v])] = [v \in K |-> c[v]]
  <2>1. \A v \in K : ElementCount(d.shape[v]) = c[v]
    BY <1>2, <1>3
  <2>2. QED
    BY <2>1
<1>5. c \in [V -> Nat] /\ ca \in [V -> Nat] /\ cs \in [V -> Nat] /\ cz \in [V -> Nat]
  BY <1>3
<1>6. A \in SUBSET V /\ S \in SUBSET V /\ Labels \in SUBSET V
  BY SamplesSum, NotPackedSum, AudioNames DEF Datasets, SavedVariables, Audio
<1>7. V = A \cup S \cup Labels
  BY DEF Datasets, NotPacked, SavedVariables, Audio, Labels, Sizes
<1> DEFINE two == [v \in V |-> ca[v] + cs[v]]
           all == [v \in V |-> two[v] + cz[v]]
<1>8. two \in [V -> Nat] /\ all \in [V -> Nat] /\ \A v \in V : c[v] <= all[v]
  <2>1. two \in [V -> Nat]
    BY <1>5
  <2>2. all \in [V -> Nat]
    BY <1>5, <2>1
  <2>3. ASSUME NEW v \in V PROVE c[v] <= all[v]
    <3>1. ca[v] \in Nat /\ cs[v] \in Nat /\ cz[v] \in Nat /\ c[v] \in Nat
      BY <1>5
    <3>2. c[v] \in {ca[v], cs[v], cz[v]} /\ all[v] = ca[v] + cs[v] + cz[v]
      BY <1>7
    <3> HIDE DEF c, ca, cs, cz, all
    <3>3. QED
      BY <3>1, <3>2
  <2>4. QED
    BY <2>1, <2>2, <2>3
<1>9. SumFunction(c) <= SumFunction(all) /\ SumFunction(all) = SumFunction(two) + SumFunction(cz)
      /\ SumFunction(two) = SumFunction(ca) + SumFunction(cs)
      /\ SumFunction(all) \in Nat /\ SumFunction(ca) \in Nat /\ SumFunction(cs) \in Nat
      /\ SumFunction(cz) \in Nat
  <2> HIDE DEF c, ca, cs, cz, V
  <2>1. SumFunction(two) = SumFunction(ca) + SumFunction(cs)
    BY <1>1, <1>5, SumPlus
  <2>2. /\ SumFunction(ca) \in Nat /\ SumFunction(cs) \in Nat /\ SumFunction(cz) \in Nat
    BY <1>1, <1>5, SumType
  <2> HIDE DEF two
  <2>3. SumFunction(all) = SumFunction(two) + SumFunction(cz)
    BY <1>1, <1>5, <1>8, SumPlus
  <2> HIDE DEF all
  <2>4. SumFunction(c) <= SumFunction(all) /\ SumFunction(all) \in Nat
    BY <1>1, <1>5, <1>8, SumBelow, SumType
  <2>5. QED
    BY <2>1, <2>2, <2>3, <2>4
<1>10. SumFunction(ca) = Samples(f) /\ Samples(f) \in Nat
  <2>1. c \in [Datasets(f) -> Nat] /\ \A v \in A : c[v] = CountOf(f, v)
    BY <1>5, <1>6
  <2>2. [v \in A |-> ca[v]] = [v \in A |-> c[v]]
    BY <1>6
  <2>3. \A v \in V \ A : ca[v] = 0
    OBVIOUS
  <2> HIDE DEF c, ca, V, A
  <2>4. SumFunction(ca) = SumFunction([v \in A |-> ca[v]])
    BY <1>1, <1>5, <1>6, <2>3, SumPart
  <2>5. SumFunction([v \in A |-> c[v]]) = Samples(f) /\ Samples(f) \in Nat
    BY <2>1, SamplesSum DEF A
  <2>6. QED
    BY <2>2, <2>4, <2>5
<1>11. SumFunction(cs) <= b
  <2> DEFINE part == [v \in S |-> cs[v]]
  <2>1. part \in [S -> Nat] /\ eight \in [S -> Nat] /\ \A v \in S : part[v] <= eight[v]
    BY <1>3, <1>6
  <2>2. \A v \in V \ S : cs[v] = 0
    OBVIOUS
  <2>3. IsFiniteSet(S)
    BY <1>1, <1>6, FS_Subset
  <2> HIDE DEF cs, V, S, eight
  <2>4. SumFunction(cs) = SumFunction(part)
    BY <1>1, <1>5, <1>6, <2>2, SumPart
  <2> HIDE DEF part
  <2>5. SumFunction(part) <= SumFunction(eight)
    BY <2>1, <2>3, SumBelow
  <2>6. QED
    BY <2>4, <2>5
<1>12. SumFunction(cz) = M + R + E + N + 3 + 1
  <2> DEFINE part == [v \in Labels |-> cz[v]]
  <2>1. part \in [Labels -> Nat] /\ \A v \in Labels : part[v] = AxisSize(f.size, v)
    BY <1>3, <1>6, SavedCounts
  <2>2. \A v \in V \ Labels : cz[v] = 0
    OBVIOUS
  <2> HIDE DEF cz, V
  <2>3. SumFunction(cz) = SumFunction(part)
    BY <1>1, <1>5, <1>6, <2>2, SumPart
  <2> HIDE DEF part
  <2>4. SumFunction(part) = part["M"] + part["R"] + part["E"] + part["N"] + part["C"] + part["I"]
    BY <2>1, SumOfLabels
  <2>5. /\ "M" \in Labels /\ "R" \in Labels /\ "E" \in Labels /\ "N" \in Labels
        /\ "C" \in Labels /\ "I" \in Labels
    BY DEF Labels, Sizes
  <2>6. /\ part["M"] = M /\ part["R"] = R /\ part["E"] = E /\ part["N"] = N
        /\ part["C"] = 3 /\ part["I"] = 1
    BY <2>1, <2>5, SentFields, AxisSizes
  <2>7. QED
    BY <2>3, <2>4, <2>6
<1>13. b \in Nat /\ f.bytes >= f.packed + b /\ M + R + 4 <= b
  BY NotPackedSum
<1>14. E <= Samples(f) /\ f.packed >= Samples(f)
  BY DEF Ordinary
<1>15. N <= Samples(f)
  <2> DEFINE first == AudioOf(f.type)[1]
  <2>1. first \in Audio(f) /\ first \in V
    BY <1>6, AudioNames
  <2>2. Samples(f) = Len(AudioOf(f.type)) * CountOf(f, first)
    BY <2>1, SavedShape DEF Samples, CountOf
  <2>3. Len(AudioOf(f.type)) \in {1, 2}
    BY DEF AudioOf
  <2>4. M \in Nat \ {0} /\ R \in Nat \ {0} /\ E \in Nat \ {0} /\ N \in Nat \ {0}
    BY SentFields, AxisSizes
  <2>5. CountOf(f, first) = IF f.type = "TFE" THEN (M * R) * (N * E) ELSE M * R * N
    BY <2>1, SavedCounts
  <2> HIDE DEF M, R, E, N, first
  <2>6. AllBelow(R, M, E, N, R * M * E * N) /\ AllBelow(N, M, R, 1, N * M * R * 1)
    BY <2>4, SizesBelow
  <2>7. N <= (M * R) * (N * E) /\ N <= M * R * N
    BY <2>4, <2>6 DEF AllBelow
  <2>8. N <= CountOf(f, first) /\ CountOf(f, first) \in Nat
    BY <1>3, <2>1, <2>5, <2>7
  <2>9. CountOf(f, first) <= Samples(f)
    <3> DEFINE k == Len(AudioOf(f.type))
               x == CountOf(f, first)
    <3> HIDE DEF k, x
    <3>1. Samples(f) = k * x /\ x \in Nat /\ (k = 1 \/ k = 2)
      BY <2>2, <2>3, <2>8 DEF k, x
    <3>2. 1 * x = x /\ 2 * x >= x
      BY <3>1
    <3>3. Samples(f) >= x
      BY <3>1, <3>2
    <3>4. QED
      BY <1>10, <3>1, <3>3 DEF x
  <2>10. QED
    BY <1>10, <2>4, <2>8, <2>9
<1>16. /\ M \in Nat /\ R \in Nat /\ E \in Nat /\ N \in Nat /\ f.packed \in Nat /\ f.bytes \in Nat
  BY SentFields, AxisSizes
<1> HIDE DEF c, ca, cs, cz, two, all, b, M, R, E, N, eight, V, A, S, K
<1>17. SumFunction(c) <= 3 * f.bytes
  <2> DEFINE total == SumFunction(c)
             others == SumFunction(cs)
             audio == Samples(f)
             scales == M + R + E + N + 4
             packed == f.packed
             bytes == f.bytes
  <2>1. total <= audio + others + scales
    <3>1. SumFunction(cz) = M + R + E + N + 4
      BY <1>12, <1>16
    <3>2. SumFunction(all) = audio + others + scales
      BY <1>9, <1>10, <3>1
    <3>3. QED
      BY <1>9, <3>2
  <2>2. /\ total \in Nat /\ others \in Nat /\ audio \in Nat /\ packed \in Nat /\ bytes \in Nat
        /\ others <= b /\ b \in Nat /\ bytes >= packed + b /\ packed >= audio
    BY <1>1, <1>5, <1>9, <1>10, <1>11, <1>13, <1>14, <1>16, SumType
  <2>3. scales <= b + audio + audio /\ scales \in Nat
    BY <1>10, <1>13, <1>14, <1>15, <1>16
  <2> HIDE DEF total, others, audio, scales, packed, bytes
  <2>4. total <= 3 * bytes
    BY <2>1, <2>2, <2>3
  <2>5. QED
    BY <2>4 DEF total, bytes
<1>18. Budget(f.bytes) >= 3 * f.bytes /\ Budget(f.bytes) \in Nat
  <2>1. Budget(f.bytes) \in Nat /\ Budget(f.bytes) >= PerByte * f.bytes
    BY <1>16, BudgetAtLeast
  <2>2. PerByte \in Nat /\ f.bytes * 3 <= f.bytes * PerByte
    BY <1>16, BudgetGiven, PerByteGiven, ProductGrows
  <2>3. QED
    BY <1>16, <2>1, <2>2
<1>19. SumFunction([v \in K |-> c[v]]) <= SumFunction(c)
  BY <1>1, <1>2, <1>5, SumSubset
<1>20. SumFunction(c) \in Nat /\ SumFunction([v \in K |-> c[v]]) \in Nat
  <2>1. IsFiniteSet(K) /\ [v \in K |-> c[v]] \in [K -> Nat]
    BY <1>1, <1>2, <1>5, FS_Subset
  <2>2. QED
    BY <1>1, <1>5, <2>1, SumType
<1>21. \A v \in K : ElementCount(d.shape[v]) <= MaxElements
  BY <1>2, <1>3
<1>22. SumFunction([v \in K |-> ElementCount(d.shape[v])]) <= Budget(f.bytes)
  BY <1>4, <1>16, <1>17, <1>18, <1>19, <1>20
<1>23. QED
  BY <1>1, <1>21, <1>22 DEF WithinBudget, K

\* Open finds the sizes of a File that was sent.
LEMMA SentDimensions ==
  ASSUME NEW f \in Files, Ordinary(f)
  PROVE  /\ \A s \in Sizes : DimensionSize(Sent(f), s) = f.size[s] /\ f.size[s] \in 1..MaxElements
         /\ FoundSizes(Sent(f)) = f.size /\ Count(f.size) <= MaxElements
<1> DEFINE d == Sent(f)
<1>1. ASSUME NEW s \in Sizes
      PROVE  DimensionSize(d, s) = f.size[s] /\ f.size[s] \in 1..MaxElements
  <2>1. s \in Labels /\ s \in Datasets(f) /\ s \in DOMAIN d.shape
    BY DEF Labels, Datasets, Sent
  <2>2. CountOf(f, s) = f.size[s] /\ CountOf(f, s) \in 1..MaxElements
    <3>1. AxisSize(f.size, s) = f.size[s]
      BY DEF AxisSize
    <3>2. QED
      BY <2>1, <3>1, SavedCounts, OrdinaryCounts
  <2>3. d.scale[s] = SavedScale(f, s)
    BY DEF Sent
  <2>4. CASE s = "N" /\ ~Rated(f.type)
    <3>1. d.scale[s].name = "label"
      BY <2>3, <2>4 DEF SavedScale
    <3>2. Values(d, s) = CountOf(f, s)
      BY <2>1, SavedShape DEF Values, CountOf
    <3> HIDE DEF d
    <3>3. SizeInData(d, s) = Values(d, s) /\ ~Named(d, s)
      BY <3>1 DEF SizeInData, Named
    <3>4. QED
      BY <2>1, <2>2, <3>2, <3>3 DEF DimensionSize
  <2>5. CASE ~(s = "N" /\ ~Rated(f.type))
    <3>1. d.scale[s].name = "size" /\ d.scale[s].n = f.size[s]
      BY <2>3, <2>5 DEF SavedScale
    <3> HIDE DEF d
    <3>2. f.size[s] # 0
      BY <2>2
    <3>3. Named(d, s)
      BY <3>1, <3>2 DEF Named
    <3>4. QED
      BY <2>1, <2>2, <3>1, <3>3 DEF DimensionSize
  <2>6. QED
    BY <2>4, <2>5
<1>2. f.size \in [Sizes -> Nat \ {0}]
  BY SentFields DEF Sized
<1>3. FoundSizes(d) = f.size
  <2> HIDE DEF d
  <2>1. QED
    BY <1>1, <1>2 DEF FoundSizes
<1>4. Count(f.size) <= MaxElements
  <2>1. f.size \in [Sizes -> Nat]
    BY <1>2
  <2>2. Count(f.size) = f.size["M"] * f.size["R"] * f.size["E"] * f.size["N"]
    BY <2>1, CountSizes
  <2>3. /\ f.size["M"] \in Nat \ {0} /\ f.size["R"] \in Nat \ {0}
        /\ f.size["E"] \in Nat \ {0} /\ f.size["N"] \in Nat \ {0}
    BY SentFields, AxisSizes
  <2>4. Count(f.size) \in Nat
    BY <2>2, <2>3
  <2>5. 3 * Count(f.size) <= MaxElements
    BY DEF Ordinary
  <2> HIDE DEF d
  <2>6. QED
    BY <2>4, <2>5, LimitGiven
<1>5. QED
  BY <1>1, <1>3, <1>4

\* The layouts Save chooses are among those each reader looks for.
LEMMA SentFits ==
  ASSUME NEW f \in Files, NEW r,
         NEW v \in Datasets(f),
         v \in Audio(f) \cup Range(Spatial) \cup {"N", "Data.SamplingRate", "Data.Delay"}
  PROVE  Fits(Sent(f), f.size, r, v)
<1> DEFINE d == Sent(f)
           l == SavedLayout(f, v)
           var == [shape |-> d.shape[v], labels |-> NoLayout]
<1>1. d.shape[v] = Shape(f.size, l) /\ d.shape[v] \notin {Unknown, <<>>} /\ d.type = f.type
  BY SavedShape DEF Sent
<1>2. var.shape = d.shape[v] /\ DimensionLabels(var) = NoLayout
  BY NoLabels
<1> HIDE DEF d, var, l
<1>3. LayoutFits(f.size, var, l)
  BY <1>1, <1>2 DEF LayoutFits
<1>4. Fits(d, f.size, r, v) <=>
        /\ d.shape[v] # Unknown
        /\ IF v = "N" THEN \E x \in Range(<<<<"N">>>>) : LayoutFits(f.size, var, x)
           ELSE IF v \in Range(AudioOf(f.type))
                THEN \E x \in Range(IF r = "OpenLazy" THEN LazyLayouts(f.type) ELSE AudioLayouts(f.type)) :
                       LayoutFits(f.size, var, x)
           ELSE ResolveLayout(f.size, f.type, v, var) # NoLayout
  BY <1>1 DEF Fits, var
<1>5. \A a, b : Range(<<a>>) = {a} /\ Range(<<a, b>>) = {a, b}
  BY DEF Range
<1>6. Audio(f) \subseteq {"Data.IR", "Data.SOS", "Data.Real", "Data.Imag"}
  BY AudioNames
<1>7. f.room \subseteq {"RoomVolume", "RoomTemperature"} /\ f.emitterRows \in {"E", "I"}
  BY SentFields
<1>8. Labels = {"M", "R", "E", "N", "C", "I"}
  BY DEF Labels, Sizes
<1>9. CASE v = "N"
  <2>1. l = <<"N">>
    BY <1>6, <1>7, <1>8, <1>9, SavedLayoutsAre DEF l
  <2>2. QED
    BY <1>1, <1>3, <1>4, <1>5, <1>9, <2>1 DEF d
<1>10. CASE v \in Audio(f)
  <2>1. v # "N"
    BY <1>6, <1>10
  <2>2. l = IF f.type = "TFE" THEN MRNE ELSE MRN
    BY <1>6, <1>7, <1>8, <1>10, SavedLayoutsAre DEF l
  <2>3. l \in Range(LazyLayouts(f.type)) /\ l \in Range(AudioLayouts(f.type))
    BY <1>5, <2>2 DEF LazyLayouts, AudioLayouts
  <2>4. QED
    BY <1>1, <1>3, <1>4, <1>10, <2>1, <2>3 DEF d, Audio
<1>11. ASSUME v # "N", v \notin Audio(f), v \in Variables, l \in Range(Layouts(f.type, v))
       PROVE  Fits(Sent(f), f.size, r, v)
  BY <1>1, <1>3, <1>4, <1>11, ResolvedWhenFit DEF d, Audio
<1>12. v # "N" /\ v \notin Audio(f) =>
         \/ v = "SourcePosition" /\ l = <<"M", "C">>
         \/ v = "ReceiverPosition" /\ l = <<"R", "C", "I">>
         \/ v = "EmitterPosition" /\ l = <<f.emitterRows, "C", "I">>
         \/ v \in {"ListenerPosition", "ListenerUp", "ListenerView"} /\ l = <<"I", "C">>
         \/ v = "Data.Delay" /\ l = <<"I", "R">>
         \/ v = "Data.SamplingRate" /\ l = <<"I">>
  <2>1. Range(Spatial) = {"ListenerPosition", "ReceiverPosition", "SourcePosition",
                          "EmitterPosition", "ListenerUp", "ListenerView"}
    BY DEF Spatial, Range
  <2>2. v \notin {"N"} \cup Audio(f) => v \notin Labels \cup f.room
    BY <1>7, <1>8, <2>1
  <2>3. QED
    BY <2>2, SavedLayoutsAre DEF l
<1>13. CASE \/ v = "SourcePosition" /\ l = <<"M", "C">>
            \/ v \in {"ListenerPosition", "ListenerUp", "ListenerView"} /\ l = <<"I", "C">>
  <2>1. /\ v \in Positions \cup Orientations /\ v \in Variables /\ v # "N" /\ v \notin Audio(f)
        /\ v \in Orientations \/ ObjectDim(v) = "M"
    BY <1>6, <1>13 DEF Variables, Positions, Orientations, ObjectDim
  <2>2. Range(Layouts(f.type, v)) = {<<"I", "C">>, <<"M", "C">>}
    BY <2>1, PositionLayoutsAre
  <2>3. l \in Range(Layouts(f.type, v))
    BY <1>13, <2>2
  <2>4. QED
    BY <1>11, <2>1, <2>3
<1>14. CASE \/ v = "ReceiverPosition" /\ l = <<"R", "C", "I">>
            \/ v = "EmitterPosition" /\ l = <<f.emitterRows, "C", "I">>
  <2>1. /\ v \in Positions \cup Orientations /\ v \in Variables /\ v # "N" /\ v \notin Audio(f)
        /\ ~(v \in Orientations \/ ObjectDim(v) = "M")
        /\ ObjectDim(v) = IF v = "ReceiverPosition" THEN "R" ELSE "E"
    BY <1>6, <1>14 DEF Variables, Positions, Orientations, ObjectDim
  <2>2. <<ObjectDim(v), "C", "I">> \in Range(Layouts(f.type, v))
        /\ <<"I", "C", "I">> \in Range(Layouts(f.type, v))
    BY <2>1, PositionLayoutsAre
  <2>3. l \in {<<ObjectDim(v), "C", "I">>, <<"I", "C", "I">>}
    BY <1>7, <1>14, <2>1
  <2>4. l \in Range(Layouts(f.type, v))
    BY <2>2, <2>3
  <2>5. QED
    BY <1>11, <2>1, <2>4
<1>15. CASE v = "Data.Delay" /\ l = <<"I", "R">>
  <2>1. v \in Variables /\ v # "N" /\ v \notin Audio(f)
    BY <1>6, <1>15 DEF Variables
  <2>2. l \in Range(Layouts(f.type, v))
    BY <1>15, LayoutsAre
  <2>3. QED
    BY <1>11, <2>1, <2>2
<1>16. CASE v = "Data.SamplingRate" /\ l = <<"I">>
  <2>1. v \in Variables /\ v # "N" /\ v \notin Audio(f)
    BY <1>6, <1>16 DEF Variables
  <2>2. l \in Range(Layouts(f.type, v))
    BY <1>16, LayoutsAre
  <2>3. QED
    BY <1>11, <2>1, <2>2
<1>17. QED
  BY <1>9, <1>10, <1>12, <1>13, <1>14, <1>15, <1>16

\* There is no step of the plan that a reader cannot pass.
LEMMA OrdinaryPasses ==
  ASSUME NEW f \in Files, Ordinary(f), NEW r \in Readers, NEW x \in StepSet(Sent(f), r)
  PROVE  Passes(Sent(f), r, x)
<1> DEFINE d == Sent(f)
           size == FoundSizes(d)
<1>1. d.type = f.type /\ d.odd = {} /\ DOMAIN d.shape = Datasets(f)
  BY DEF Sent, Datasets, Labels
<1>2. size = f.size /\ Count(size) <= MaxElements
      /\ \A s \in Sizes : DimensionSize(d, s) \in 1..MaxElements
  BY SentDimensions
<1>3. WithinBudget(d, r)
  BY OrdinaryWithinBudget
<1>4. \A v \in Datasets(f) :
        v \in Audio(f) \cup Range(Spatial) \cup {"N", "Data.SamplingRate", "Data.Delay"} =>
          Fits(d, size, r, v)
  BY <1>2, SentFits
<1>5. Audio(f) \cup Range(Spatial) \cup {"N"} \subseteq Datasets(f)
      /\ (Rated(f.type) => {"Data.SamplingRate", "Data.Delay"} \subseteq Datasets(f))
  BY DEF Datasets, SavedVariables, Audio, Labels, Sizes
<1>6. f.type = "SOS" => size["N"] % 6 = 0
  BY <1>2, SentFields
<1> HIDE DEF d, size
<1>7. ASSUME x.do = "budget" PROVE Passes(d, r, x)
  BY <1>3, <1>7 DEF Passes
<1>8. ASSUME x.do = "dimension", x.var \in Sizes PROVE Passes(d, r, x)
  BY <1>2, <1>8 DEF Passes
<1>9. ASSUME x.do = "product" PROVE Passes(d, r, x)
  BY <1>2, <1>9 DEF Passes, size
<1>10. ASSUME x.do = "sections", f.type = "SOS" PROVE Passes(d, r, x)
  BY <1>6, <1>10 DEF Passes, size
<1>11. ASSUME x.do \in {"room", "extra"} PROVE Passes(d, r, x)
  BY <1>11 DEF Passes
<1>12. ASSUME x.do \in {"read", "layout"}, x.var \in Datasets(f),
              x.var \in Audio(f) \cup Range(Spatial) \cup {"N", "Data.SamplingRate", "Data.Delay"}
       PROVE  Passes(d, r, x)
  <2>1. Fits(d, size, r, x.var) /\ x.var \in DOMAIN d.shape /\ x.var \notin d.odd
    BY <1>1, <1>4, <1>12
  <2>2. QED
    BY <1>12, <2>1 DEF Passes, size
<1>13. CASE x \in FirstSteps
  <2>1. CASE x \in Steps("budget", {""})
    BY <1>7, <2>1, StepsAre DEF d
  <2>2. CASE x \in Steps("dimension", Sizes)
    BY <1>8, <2>2, StepsAre DEF d
  <2>3. CASE x \in Steps("product", {""})
    BY <1>9, <2>3, StepsAre DEF d
  <2>4. QED
    BY <1>13, <2>1, <2>2, <2>3 DEF FirstSteps
<1>14. CASE x \in AudioStepSet(d.type, r)
  <2> DEFINE what == IF r = "OpenLazy" THEN "layout" ELSE "read"
             sections == IF d.type = "SOS" THEN {"N"} ELSE {}
             small == IF Rated(d.type) THEN {"Data.SamplingRate", "Data.Delay"} ELSE {"N"}
  <2>0. what \in {"read", "layout"} /\ Range(AudioOf(d.type)) = Audio(f)
        /\ (sections # {} => f.type = "SOS")
        /\ small \subseteq Datasets(f) /\ small \subseteq {"N", "Data.SamplingRate", "Data.Delay"}
    BY <1>1, <1>5 DEF Audio
  <2>1. x \in Steps(what, Audio(f)) \/ x \in Steps("sections", sections) \/ x \in Steps("read", small)
    BY <1>14, <2>0 DEF AudioStepSet
  <2> HIDE DEF what, sections, small
  <2>2. CASE x \in Steps(what, Audio(f))
    <3>1. x.do = what /\ x.var \in Audio(f)
      BY <2>2, StepsAre
    <3>2. QED
      BY <1>5, <1>12, <2>0, <3>1 DEF d
  <2>3. CASE x \in Steps("sections", sections)
    <3>1. x.do = "sections" /\ x.var \in sections
      BY <2>3, StepsAre
    <3>2. QED
      BY <1>10, <2>0, <3>1 DEF d
  <2>4. CASE x \in Steps("read", small)
    <3>1. x.do = "read" /\ x.var \in small
      BY <2>4, StepsAre
    <3>2. QED
      BY <1>12, <2>0, <3>1 DEF d
  <2>5. QED
    BY <2>1, <2>2, <2>3, <2>4
<1>15. CASE x \in Steps("read", Range(Spatial))
  <2>1. x.do = "read" /\ x.var \in Range(Spatial)
    BY <1>15, StepsAre
  <2>2. QED
    BY <1>5, <1>12, <2>1 DEF d
<1>16. CASE x \in Steps("room", Range(RoomVariables)) \/ x \in Steps("extra", Extra(d))
  <2>1. x.do \in {"room", "extra"}
    BY <1>16, StepsAre
  <2>2. QED
    BY <1>11, <2>1 DEF d
<1>17. QED
  BY <1>13, <1>14, <1>15, <1>16 DEF StepSet, d

\* What was handed over completely is read again: the only way for a reader
\* to fail is that reading itself fails.
THEOREM SentIsReadable == Spec => []ReceivedIsReadable
<1>1. ReadInv => ReceivedIsReadable
  <2> SUFFICES ASSUME ReadInv, opened # <<>>, NEW f \in Files, opened = <<Sent(f)>>, Ordinary(f),
                      NEW r \in Readers
               PROVE  outcome[r] \in {"none", "ok", "io"}
    BY DEF ReceivedIsReadable
  <2>1. Given = Sent(f)
    BY DEF Given
  <2>2. \A x \in StepSet(Given, r) : Passes(Given, r, x)
    BY <2>1, OrdinaryPasses
  <2>3. QED
    BY <2>2, OutcomeSays
<1>2. QED
  BY <1>1, TransferInvariant, PTL DEF TransferInv

=============================================================================
