-------------------------- MODULE RoundTrip_proofs --------------------------
(***************************************************************************)
(* The round trip through Save and Open keeps what a File means, for every *)
(* size, every layout and every value, after any edits, saves and opens.   *)
(*                                                                         *)
(* Inv says what the fields of a File and the variables of a file may      *)
(* hold; it is kept by every action, Open of another program's file        *)
(* included (OpenedOK).  From FileOK and validate's length checks it       *)
(* follows that what is written fits (WrittenFits), that Open finds the    *)
(* layouts Save chose (ResolvedBack), that View is kept (ViewKept) and     *)
(* that saving again writes the same (WrittenAgain).                       *)
(***************************************************************************)
EXTENDS RoundTrip, StoredData_proofs

-----------------------------------------------------------------------------
(* What Save writes fits.                                                  *)

\* The fields of a sound File, one by one.
LEMMA FileFields ==
  ASSUME NEW f, FileOK(f)
  PROVE  /\ f.size \in [Sizes -> 1..MaxElements] /\ Sized(f.size)
         /\ f.type \in Types /\ f.type \in {"FIR", "TF", "TFE", "SOS"}
         /\ f.audio = [shape |-> f.audio.shape, data |-> f.audio.data]
         /\ f.audio.shape \in Seq(Nat) /\ f.audio.data \in Seq(Nat)
         /\ Len(f.audio.data) = Count(f.audio.shape)
         /\ f.freqs \in Seq(Nat) /\ f.rate \in Seq(Nat) /\ f.delay \in Seq(Nat)
         /\ f.delayLayout \in {NoLayout} \cup Range(Layouts("FIR", "Data.Delay"))
         /\ f.pos \in [Positions -> Seq(Vector)] /\ f.posM \in [Positions -> Seq(Seq(Vector))]
         /\ f.one \in [Orientations -> Vector] /\ f.all \in [Orientations -> Seq(Vector)]
         /\ Rated(f.type) => f.freqs = <<>>
         /\ \A p \in Positions : f.posM[p] # <<>> => ObjectDim(p) # "M"
<1> USE DEF FileOK
<1>1. MaxElements \in Nat
  BY LimitGiven
<1>2. f.size \in [Sizes -> 1..MaxElements]
  OBVIOUS
<1>3. Sized(f.size)
  BY <1>1, <1>2 DEF Sized
<1>4. f.type \in Types /\ f.type \in {"FIR", "TF", "TFE", "SOS"}
  BY TypesGiven
<1>5. /\ f.audio = [shape |-> f.audio.shape, data |-> f.audio.data]
      /\ f.audio.shape \in Seq(Nat) /\ f.audio.data \in Seq(Nat)
  OBVIOUS
<1>6. QED
  BY <1>2, <1>3, <1>4, <1>5

\* What is written for a variable has a layout Open looks for, and fills it.
Fits(size, type, v, w) ==
  /\ w.layout \in Range(Layouts(type, v))
  /\ w.data \in Seq(Nat) /\ Len(w.data) = Count(Shape(size, w.layout))

\* The lengths validate compares, in a File it may yet refuse.
AudioShaped(f) ==
  /\ f.audio.shape = Shape(f.size, MemoryLayout(f.type))
  /\ IF Rated(f.type)
     THEN /\ Len(f.rate) \in {1, f.size["M"]}
          /\ Len(f.delay) \in {0, 1, f.size["M"], f.size["R"], f.size["M"] * f.size["R"]}
     ELSE Len(f.freqs) = f.size["N"]

Consistent(f) == AudioShaped(f) /\ PositionCountsFit(f) /\ PerMeasurementFits(f)

\* What Save accepts has the lengths compared here.
LEMMA ValidConsistent ==
  ASSUME NEW f, Valid(f)
  PROVE  Consistent(f)
BY DEF Valid, AudioFits, AudioShaped, Consistent

\* TF-E data fills M R rows of N times E values.
LEMMA AudioGrid ==
  ASSUME NEW f, FileOK(f), AudioShaped(f), f.type = "TFE"
  PROVE  Grid(f.audio.data, Nat, f.size["M"] * f.size["R"], f.size["N"], f.size["E"])
<1>1. f.audio.data \in Seq(Nat) /\ Len(f.audio.data) = Count(f.audio.shape) /\ Sized(f.size)
  BY FileFields
<1>2. f.audio.shape = Shape(f.size, MREN)
  BY DEF AudioShaped, MemoryLayout
<1>3. Count(f.audio.shape) = (f.size["M"] * f.size["R"]) * (f.size["E"] * f.size["N"])
  BY <1>1, <1>2, LayoutCounts
<1>4. f.size["E"] * f.size["N"] = f.size["N"] * f.size["E"]
  BY <1>1, AxisSizes
<1>5. QED
  BY <1>1, <1>3, <1>4 DEF Grid

\* The audio variable is filled.
LEMMA AudioWritten ==
  ASSUME NEW f, FileOK(f), AudioShaped(f)
  PROVE  Fits(f.size, f.type, "Data", WrittenAudio(f))
<1> DEFINE M == f.size["M"]
           R == f.size["R"]
           E == f.size["E"]
           N == f.size["N"]
           data == f.audio.data
<1>1. data \in Seq(Nat) /\ Len(data) = Count(f.audio.shape) /\ Sized(f.size)
  BY FileFields
<1>2. M \in Nat \ {0} /\ R \in Nat \ {0} /\ E \in Nat \ {0} /\ N \in Nat \ {0}
  BY <1>1, AxisSizes
<1>3. CASE f.type = "TFE"
  <2>1. Grid(data, Nat, M * R, N, E)
    BY <1>3, AudioGrid
  <2>2. Grid(data, Nat, M * R, E, N)
    <3> HIDE DEF M, R, E, N, data
    <3>1. N * E = E * N
      BY <1>2
    <3>2. QED
      BY <2>1, <3>1 DEF Grid
  <2>3. Grid(SwapLastAxes(data, E, N), Nat, M * R, N, E)
    <3> HIDE DEF M, R, E, N, data
    <3>1. M * R \in Nat
      BY <1>2
    <3>2. QED
      BY <1>2, <2>2, <3>1, SwapType
  <2>4. Count(Shape(f.size, MRNE)) = (M * R) * (N * E)
    BY <1>1, LayoutCounts
  <2>5. WrittenAudio(f) = [layout |-> MRNE, data |-> SwapLastAxes(data, E, N)]
    BY <1>3 DEF WrittenAudio
  <2>6. MRNE \in Range(Layouts(f.type, "Data"))
    BY <1>3, LayoutsAre
  <2> HIDE DEF M, R, E, N, data
  <2>7. QED
    BY <2>3, <2>4, <2>5, <2>6 DEF Fits, Grid
<1>4. CASE f.type # "TFE"
  <2>1. f.audio.shape = Shape(f.size, MRN)
    BY <1>4 DEF AudioShaped, MemoryLayout
  <2>2. WrittenAudio(f) = [layout |-> MRN, data |-> data]
    BY <1>4 DEF WrittenAudio
  <2>3. MRN \in Range(Layouts(f.type, "Data"))
    BY <1>4, LayoutsAre
  <2> HIDE DEF data
  <2>4. QED
    BY <1>1, <2>1, <2>2, <2>3 DEF Fits
<1>5. QED
  BY <1>3, <1>4

\* So is the sampling rate.
LEMMA RateWritten ==
  ASSUME NEW f, FileOK(f), AudioShaped(f), Rated(f.type)
  PROVE  Fits(f.size, f.type, "Data.SamplingRate", Written(f, "Data.SamplingRate"))
<1> DEFINE M == f.size["M"]
           w == Written(f, "Data.SamplingRate")
<1>1. f.rate \in Seq(Nat) /\ Len(f.rate) \in {1, M} /\ Sized(f.size)
  BY FileFields DEF AudioShaped
<1>2. w = [layout |-> <<IF Len(f.rate) = M THEN "M" ELSE "I">>, data |-> f.rate]
  BY DEF Written, RowDim
<1>3. Count(Shape(f.size, <<"I">>)) = 1 /\ Count(Shape(f.size, <<"M">>)) = M
  BY <1>1, LayoutCounts
<1>4. <<"I">> \in Range(Layouts(f.type, "Data.SamplingRate"))
      /\ <<"M">> \in Range(Layouts(f.type, "Data.SamplingRate"))
  BY LayoutsAre
<1> HIDE DEF M, w
<1>5. CASE Len(f.rate) = M
  BY <1>1, <1>2, <1>3, <1>4, <1>5 DEF Fits, w
<1>6. CASE Len(f.rate) # M
  <2>1. w = [layout |-> <<"I">>, data |-> f.rate]
    BY <1>2, <1>6
  <2>2. Len(f.rate) = 1
    BY <1>1, <1>6
  <2>3. Fits(f.size, f.type, "Data.SamplingRate", w)
    BY <1>1, <1>3, <1>4, <2>1, <2>2 DEF Fits
  <2>4. QED
    BY <2>3 DEF w
<1>7. QED
  BY <1>5, <1>6

\* A vector is a sequence of three values.
LEMMA VectorIsSeq ==
  ASSUME NEW v \in Vector
  PROVE  v \in Seq(Nat) /\ Len(v) = 3
<1> DEFINE n == 3
<1>1. v \in [1..n -> Nat] /\ n \in Nat
  BY DEF Vector
<1> HIDE DEF n
<1>2. v \in Seq(Nat) /\ Len(v) = n
  BY <1>1
<1>3. QED
  BY <1>2 DEF n

\* So are the views and up vectors.
LEMMA OrientationWritten ==
  ASSUME NEW f, FileOK(f), PerMeasurementFits(f), NEW o \in Orientations
  PROVE  Fits(f.size, f.type, o, WrittenOrientation(f, o))
<1> DEFINE M == f.size["M"]
<1>1. f.all[o] \in Seq(Vector) /\ f.one[o] \in Vector /\ Sized(f.size)
  BY FileFields
<1>2. Len(f.all[o]) \in {0, M} /\ M \in Nat \ {0}
  BY <1>1, AxisSizes DEF PerMeasurementFits
<1>3. /\ <<"I", "C">> \in Range(Layouts(f.type, o)) /\ <<"M", "C">> \in Range(Layouts(f.type, o))
      /\ Count(Shape(f.size, <<"I", "C">>)) = 3 /\ Count(Shape(f.size, <<"M", "C">>)) = M * 3
  BY <1>1, PositionLayoutsAre, LayoutCounts
<1>4. CASE f.all[o] # <<>>
  <2>1. Len(f.all[o]) = M
    BY <1>1, <1>2, <1>4
  <2>2. Flat(f.all[o]) \in Seq(Nat) /\ Len(Flat(f.all[o])) = 3 * Len(f.all[o])
    BY <1>1, FlatType DEF Vector
  <2>3. WrittenOrientation(f, o) = [layout |-> <<"M", "C">>, data |-> Flat(f.all[o])]
    BY <1>4 DEF WrittenOrientation
  <2> HIDE DEF M
  <2>4. 3 * M = M * 3
    BY <1>2
  <2>5. QED
    BY <1>3, <2>1, <2>2, <2>3, <2>4 DEF Fits
<1>5. CASE f.all[o] = <<>>
  <2>1. SavedVector(f, o) \in Seq(Nat) /\ Len(SavedVector(f, o)) = 3
    <3>1. /\ <<1, 0, 0>> \in Seq(Nat) /\ Len(<<1, 0, 0>>) = 3
          /\ <<0, 0, 1>> \in Seq(Nat) /\ Len(<<0, 0, 1>>) = 3
      OBVIOUS
    <3>2. f.one[o] \in Seq(Nat) /\ Len(f.one[o]) = 3
      BY <1>1, VectorIsSeq
    <3>3. QED
      BY <3>1, <3>2 DEF SavedVector, DefaultVector
  <2>2. WrittenOrientation(f, o) = [layout |-> <<"I", "C">>, data |-> SavedVector(f, o)]
    BY <1>5 DEF WrittenOrientation
  <2>3. QED
    BY <1>3, <2>1, <2>2 DEF Fits
<1>6. QED
  BY <1>4, <1>5

\* The positions Save writes are vectors, the default included.
LEMMA SavedType ==
  ASSUME NEW f, FileOK(f), NEW p \in Positions
  PROVE  SavedPositions(f, p) \in Seq(Vector)
<1>1. f.pos[p] \in Seq(Vector)
  BY FileFields
<1>2. <<Origin>> \in Seq(Vector)
  <2>1. Origin \in Vector
    BY DEF Origin, Vector
  <2>2. QED
    BY <2>1
<1>3. QED
  BY <1>1, <1>2 DEF SavedPositions

ObjectAxes == {"M", "R", "E"}

\* The positions for each measurement that Save accepts are all as many.
LEMMA PerMFits ==
  ASSUME NEW f, FileOK(f), PerMeasurementFits(f), NEW p \in Positions, f.posM[p] # <<>>
  PROVE  /\ ObjectDim(p) \in {"R", "E"}
         /\ Len(f.posM[p][1]) \in {1, f.size[ObjectDim(p)]}
         /\ Len(f.posM[p][1]) \in Nat \ {0}
         /\ PerM(f.posM[p], Nat, f.size["M"], Len(f.posM[p][1]))
<1> DEFINE q == f.posM[p]
           n == Len(q[1])
<1>1. /\ q \in Seq(Seq(Vector)) /\ ObjectDim(p) # "M" /\ Sized(f.size)
  BY FileFields
<1>2. ObjectDim(p) \in {"R", "E"}
  BY <1>1 DEF ObjectDim
<1>3. /\ Len(q) = f.size["M"] /\ n \in {1, f.size[ObjectDim(p)]}
      /\ \A i \in DOMAIN q : Len(q[i]) = n
  BY DEF PerMeasurementFits
<1>4. n \in Nat \ {0}
  <2>1. f.size["R"] \in Nat \ {0} /\ f.size["E"] \in Nat \ {0}
    BY <1>1, AxisSizes
  <2> HIDE DEF n
  <2>2. QED
    BY <1>2, <1>3, <2>1
<1> HIDE DEF q, n
<1>5. q \in Seq(Seq([1..3 -> Nat])) /\ DOMAIN q = 1..Len(q)
  BY <1>1 DEF Vector
<1>6. PerM(q, Nat, f.size["M"], n)
  BY <1>3, <1>5 DEF PerM
<1>7. QED
  BY <1>2, <1>3, <1>4, <1>6 DEF q, n

\* The axis of the rows has their number.
LEMMA RowAxis ==
  ASSUME NEW size, Sized(size), NEW x \in ObjectAxes, NEW n \in {1, size[x]}
  PROVE  RowDim(n, x, size[x]) \in {"I", x} /\ AxisSize(size, RowDim(n, x, size[x])) = n
BY AxisSizes DEF RowDim, ObjectAxes

\* A third axis appended to a layout of two.
LEMMA OneMore ==
  ASSUME NEW a, NEW b, NEW c
  PROVE  <<a, b>> \o <<>> = <<a, b>> /\ <<a, b>> \o <<c>> = <<a, b, c>>
<1> DEFINE S == {a, b, c}
           s == <<a, b>>
           t == <<c>>
           u == <<a, b, c>>
<1>1. /\ s \in Seq(S) /\ Len(s) = 2 /\ s[1] = a /\ s[2] = b
      /\ t \in Seq(S) /\ Len(t) = 1 /\ t[1] = c
      /\ u \in Seq(S) /\ Len(u) = 3 /\ u[1] = a /\ u[2] = b /\ u[3] = c
  OBVIOUS
<1> HIDE DEF S, s, t, u
<1>2. s \o <<>> = s
  BY <1>1, ConcatEmptySeq
<1>3. /\ s \o t \in Seq(S) /\ Len(s \o t) = 3
      /\ \A i \in 1..3 : (s \o t)[i] = IF i <= 2 THEN s[i] ELSE t[i - 2]
  <2>1. /\ s \o t \in Seq(S) /\ Len(s \o t) = Len(s) + Len(t)
        /\ \A i \in 1..Len(s) + Len(t) : (s \o t)[i] = IF i <= Len(s) THEN s[i] ELSE t[i - Len(s)]
    BY <1>1, ConcatProperties
  <2>2. Len(s) + Len(t) = 3
    BY <1>1
  <2>3. QED
    BY <1>1, <2>1, <2>2
<1>4. \A i \in 1..3 : (s \o t)[i] = u[i]
  BY <1>1, <1>3
<1>5. s \o t = u
  BY <1>1, <1>3, <1>4, SeqEqual
<1>6. QED
  BY <1>2, <1>5 DEF s, t, u

\* So are the positions, in one variable or for each measurement.
LEMMA PositionWritten ==
  ASSUME NEW f, FileOK(f), PositionCountsFit(f), PerMeasurementFits(f), NEW p \in Positions
  PROVE  Fits(f.size, f.type, p, WrittenPosition(f, p))
<1> DEFINE M == f.size["M"]
           saved == SavedPositions(f, p)
           perM == f.posM[p]
           x == ObjectDim(p)
           w == WrittenPosition(f, p)
<1>1. Sized(f.size) /\ M \in Nat \ {0}
  BY FileFields, AxisSizes
<1>2. x \in ObjectAxes
  BY DEF ObjectDim, ObjectAxes
<1>3. p \notin Orientations
  BY DEF Positions, Orientations
<1>4. CASE perM # <<>>
  <2> DEFINE n == Len(perM[1])
             row == RowDim(n, x, f.size[x])
  <2>1. x # "M" /\ n \in {1, f.size[x]} /\ n \in Nat /\ PerM(perM, Nat, M, n)
    BY <1>4, PerMFits
  <2>2. w = [layout |-> <<row, "C", "M">>, data |-> FlatPerM(perM)]
    BY <1>4 DEF WrittenPosition
  <2> HIDE DEF n, x, perM, M
  <2>3. row \in {"I", x} /\ AxisSize(f.size, row) = n
    BY <1>1, <1>2, <2>1, RowAxis
  <2> HIDE DEF row
  <2>4. FlatPerM(perM) \in Seq(Nat) /\ Len(FlatPerM(perM)) = n * 3 * M
    BY <1>1, <2>1, FlatPerMType
  <2>5. Count(Shape(f.size, <<row, "C", "M">>)) = n * 3 * M
    BY <1>1, <2>3, PositionCounts DEF M
  <2>6. <<row, "C", "M">> \in Range(Layouts(f.type, p))
    BY <1>3, <2>1, <2>3, PositionLayoutsAre DEF x
  <2> HIDE DEF w
  <2>7. Fits(f.size, f.type, p, w)
    BY <2>2, <2>4, <2>5, <2>6 DEF Fits
  <2>8. QED
    BY <2>7 DEF w
<1>5. CASE perM = <<>>
  <2> DEFINE n == Len(saved)
             row == RowDim(n, x, f.size[x])
  <2>1. saved \in Seq(Vector)
    BY SavedType
  <2>2. n \in {1, f.size[x]} /\ n \in Nat
    BY <1>5, <2>1 DEF PositionCountsFit
  <2>3. w = [layout |-> <<row, "C">> \o (IF x = "M" THEN <<>> ELSE <<"I">>), data |-> Flat(saved)]
    BY <1>5 DEF WrittenPosition
  <2>4. Flat(saved) \in Seq(Nat) /\ Len(Flat(saved)) = 3 * n
    BY <2>1, FlatType DEF Vector
  <2> HIDE DEF saved, x, perM, M, n
  <2>5. row \in {"I", x} /\ AxisSize(f.size, row) = n
    BY <1>1, <1>2, <2>2, RowAxis
  <2> HIDE DEF row
  <2>6. /\ Count(Shape(f.size, <<row, "C">>)) = n * 3 /\ Count(Shape(f.size, <<row, "C", "I">>)) = n * 3
        /\ 3 * n = n * 3
    <3>1. LET k == AxisSize(f.size, row)
          IN  /\ Count(Shape(f.size, <<row, "C">>)) = k * 3
              /\ Count(Shape(f.size, <<row, "C", "I">>)) = k * 3
      BY <1>1, PositionCounts
    <3>2. QED
      BY <2>2, <2>5, <3>1
  <2>7. /\ <<row, "C">> \in Range(Layouts(f.type, p))
        /\ x # "M" => <<row, "C", "I">> \in Range(Layouts(f.type, p))
    BY <1>3, <2>5, PositionLayoutsAre DEF x
  <2>8. w.data = Flat(saved) /\ w.layout = IF x = "M" THEN <<row, "C">> ELSE <<row, "C", "I">>
    <3>1. <<row, "C">> \o <<>> = <<row, "C">> /\ <<row, "C">> \o <<"I">> = <<row, "C", "I">>
      BY OneMore
    <3> HIDE DEF w
    <3>2. QED
      BY <2>3, <3>1
  <2> HIDE DEF w
  <2>9. Fits(f.size, f.type, p, w)
    BY <2>4, <2>6, <2>7, <2>8 DEF Fits
  <2>10. QED
    BY <2>9 DEF w
<1>6. QED
  BY <1>4, <1>5

DelayLayouts == {<<"I", "R">>, <<"M", "R">>, <<"I">>, <<"M">>, <<"R">>}

\* A delay Save accepts fills the layout it is taken to have.
LEMMA DelayAxesFit ==
  ASSUME NEW f, FileOK(f), AudioShaped(f), Rated(f.type), f.delay # <<>>
  PROVE  /\ DelayAxes(f) \in DelayLayouts
         /\ Count(Shape(f.size, DelayAxes(f))) = Len(f.delay)
<1> DEFINE M == f.size["M"]
           R == f.size["R"]
           n == Len(f.delay)
<1>1. Sized(f.size) /\ f.delay \in Seq(Nat) /\ n \in {0, 1, M, R, M * R}
  BY FileFields DEF AudioShaped
<1>2. n # 0 /\ M \in Nat /\ R \in Nat
  BY <1>1, AxisSizes
<1>3. f.delayLayout \in {NoLayout} \cup DelayLayouts
  BY FileFields, LayoutsAre DEF DelayLayouts
<1>4. CASE f.delayLayout # NoLayout /\ Count(Shape(f.size, f.delayLayout)) = n
  BY <1>3, <1>4 DEF DelayAxes
<1>5. CASE ~(f.delayLayout # NoLayout /\ Count(Shape(f.size, f.delayLayout)) = n)
  <2>1. DelayAxes(f) = DelayDims(n, M, R)
    BY <1>5 DEF DelayAxes
  <2>2. /\ Count(Shape(f.size, <<"I">>)) = 1 /\ Count(Shape(f.size, <<"M">>)) = M
        /\ Count(Shape(f.size, <<"R">>)) = R /\ Count(Shape(f.size, <<"M", "R">>)) = M * R
    BY <1>1, LayoutCounts
  <2>3. {<<"I">>, <<"M">>, <<"R">>, <<"M", "R">>} \subseteq DelayLayouts
    BY DEF DelayLayouts
  <2> HIDE DEF M, R, n
  <2>4. CASE n = 1
    BY <2>1, <2>2, <2>3, <2>4 DEF DelayDims, n
  <2>5. CASE n # 1 /\ n = M * R
    BY <2>1, <2>2, <2>3, <2>5 DEF DelayDims, n
  <2>6. CASE n # 1 /\ n # M * R /\ n = M
    BY <2>1, <2>2, <2>3, <2>6 DEF DelayDims, n
  <2>7. CASE n # 1 /\ n # M * R /\ n # M
    BY <1>1, <1>2, <2>1, <2>2, <2>3, <2>7 DEF DelayDims, n
  <2>8. QED
    BY <2>4, <2>5, <2>6, <2>7
<1>6. QED
  BY <1>4, <1>5

\* What DelayAt answers for each of the layouts.
LEMMA DelayAtBy ==
  ASSUME NEW g, g.delay # <<>>, NEW axes \in DelayLayouts, DelayAxes(g) = axes, NEW m, NEW r
  PROVE  DelayAt(g, m, r) = IF axes = <<"M", "R">> THEN g.delay[m * g.size["R"] + r + 1]
                            ELSE IF axes = <<"M">> THEN g.delay[m + 1]
                            ELSE IF axes = <<"I">> THEN g.delay[1] ELSE g.delay[r + 1]
<1>1. DelayAt(g, m, r) =
        IF axes = <<"M", "R">> THEN g.delay[m * g.size["R"] + r + 1]
        ELSE IF Contains(axes, "M") THEN g.delay[m + 1]
        ELSE IF Contains(axes, "R") THEN g.delay[r + 1]
        ELSE g.delay[1]
  BY DEF DelayAt
<1>2. axes # <<"M", "R">> => (Contains(axes, "M") <=> axes = <<"M">>)
  BY ContainsShort DEF DelayLayouts
<1>3. axes \notin {<<"M", "R">>, <<"M">>} => (Contains(axes, "R") <=> axes # <<"I">>)
  BY ContainsShort DEF DelayLayouts
<1>4. QED
  BY <1>1, <1>2, <1>3

\* The row and the column of an element of a broadcast delay.
LEMMA RowAndColumn ==
  ASSUME NEW R \in Nat \ {0}, NEW n \in Nat, NEW k \in 1..n * R
  PROVE  (k - 1) \div R \in 0..n - 1 /\ (k - 1) % R \in 0..R - 1
<1> DEFINE x == k - 1
           q == x \div R
           r == x % R
<1>1. x \in Nat /\ x < n * R
  OBVIOUS
<1>2. q \in Nat /\ r \in Nat /\ r < R /\ x = R * q + r
  <2> HIDE DEF x
  <2>1. QED
    BY <1>1, Division
<1> HIDE DEF x, q, r
<1>3. q < n
  <2>1. SUFFICES ASSUME n <= q PROVE FALSE
    BY <1>2
  <2>2. R * n <= R * q
    BY <1>2, <2>1, ProductGrows
  <2>3. R * n = n * R /\ R * q \in Nat /\ n * R \in Nat
    BY <1>2
  <2>4. QED
    BY <1>1, <1>2, <2>2, <2>3
<1>4. QED
  BY <1>2, <1>3 DEF q, r, x

\* So is the delay, and DelayAt answers as before for what is written.
LEMMA DelayWritten ==
  ASSUME NEW f, FileOK(f), AudioShaped(f), Rated(f.type)
  PROVE  /\ Fits(f.size, f.type, "Data.Delay", WrittenDelay(f))
         /\ WrittenDelay(f).layout \in {<<"I", "R">>, <<"M", "R">>}
         /\ WrittenDelay(f).data # <<>>
<1> DEFINE M == f.size["M"]
           R == f.size["R"]
           w == WrittenDelay(f)
           axes == DelayAxes(f)
<1>1. Sized(f.size) /\ f.delay \in Seq(Nat)
  BY FileFields
<1>2. M \in Nat \ {0} /\ R \in Nat \ {0}
  BY <1>1, AxisSizes
<1>3. Count(Shape(f.size, <<"I", "R">>)) = R /\ Count(Shape(f.size, <<"M", "R">>)) = M * R
  BY <1>1, LayoutCounts
<1>4. /\ <<"I", "R">> \in Range(Layouts(f.type, "Data.Delay"))
      /\ <<"M", "R">> \in Range(Layouts(f.type, "Data.Delay"))
  BY LayoutsAre
<1>5. M * R \in Nat \ {0}
  BY <1>2, ProductPositive
<1> HIDE DEF M, R
<1>6. CASE f.delay = <<>>
  <2>1. w = [layout |-> <<"I", "R">>, data |-> [r \in 1..R |-> 0]]
    BY <1>6 DEF WrittenDelay, R
  <2>2. [r \in 1..R |-> 0] \in Seq(Nat) /\ Len([r \in 1..R |-> 0]) = R
    BY <1>2
  <2>3. w.data # <<>>
    BY <1>2, <2>1, <2>2
  <2> HIDE DEF w
  <2>4. Fits(f.size, f.type, "Data.Delay", w) /\ w.layout = <<"I", "R">>
    BY <1>3, <1>4, <2>1, <2>2 DEF Fits
  <2>5. QED
    BY <2>3, <2>4 DEF w
<1>7. CASE f.delay # <<>> /\ Len(axes) = 2
  <2>1. w = [layout |-> axes, data |-> f.delay]
    BY <1>7 DEF WrittenDelay
  <2>2. axes \in DelayLayouts /\ Count(Shape(f.size, axes)) = Len(f.delay)
    BY <1>7, DelayAxesFit
  <2>3. axes \in {<<"I", "R">>, <<"M", "R">>}
    <3>1. Len(<<"I">>) # 2 /\ Len(<<"M">>) # 2 /\ Len(<<"R">>) # 2
      OBVIOUS
    <3>2. Len(axes) = 2
      BY <1>7
    <3> HIDE DEF axes
    <3>3. axes # <<"I">> /\ axes # <<"M">> /\ axes # <<"R">>
      BY <3>1, <3>2
    <3>4. QED
      BY <2>2, <3>3 DEF DelayLayouts
  <2> HIDE DEF w, axes
  <2>4. Fits(f.size, f.type, "Data.Delay", w) /\ w.layout = axes /\ w.data # <<>>
    BY <1>1, <1>4, <1>7, <2>1, <2>2, <2>3 DEF Fits
  <2>5. QED
    BY <2>3, <2>4 DEF w
<1>8. CASE f.delay # <<>> /\ Len(axes) # 2
  <2> DEFINE rows == IF axes = <<"M">> THEN M ELSE 1
             l == <<IF axes = <<"M">> THEN "M" ELSE "I", "R">>
             d == [k \in 1..rows * R |-> DelayAt(f, (k - 1) \div R, (k - 1) % R)]
  <2>1. axes \in DelayLayouts /\ Count(Shape(f.size, axes)) = Len(f.delay)
    BY <1>8, DelayAxesFit
  <2>2. axes \in {<<"I">>, <<"M">>, <<"R">>}
    <3>1. Len(<<"I", "R">>) = 2 /\ Len(<<"M", "R">>) = 2
      OBVIOUS
    <3> HIDE DEF axes
    <3>2. QED
      BY <1>8, <2>1, <3>1 DEF DelayLayouts
  <2>3. Contains(axes, "M") <=> axes = <<"M">>
    BY <2>2, ContainsShort
  <2>4. w = [layout |-> l, data |-> d]
    BY <1>8, <2>3 DEF WrittenDelay, R, M
  <2>5. /\ Count(Shape(f.size, <<"I">>)) = 1 /\ Count(Shape(f.size, <<"M">>)) = M
        /\ Count(Shape(f.size, <<"R">>)) = R
    BY <1>1, LayoutCounts DEF M, R
  <2>6. rows \in Nat \ {0} /\ rows * R \in Nat \ {0}
    <3>1. rows \in Nat \ {0}
      BY <1>2
    <3> HIDE DEF rows
    <3>2. QED
      BY <1>2, <3>1, ProductPositive
  <2>7. ASSUME NEW k \in 1..rows * R PROVE d[k] \in Nat
    <3> DEFINE m == (k - 1) \div R
               r == (k - 1) % R
    <3>1. m \in 0..rows - 1 /\ r \in 0..R - 1
      <4> HIDE DEF rows
      <4>1. QED
        BY <1>2, <2>6, RowAndColumn
    <3>2. d[k] = DelayAt(f, m, r)
      OBVIOUS
    <3> HIDE DEF m, r, d, axes
    <3>3. DelayAt(f, m, r) = IF axes = <<"M", "R">> THEN f.delay[m * f.size["R"] + r + 1]
                             ELSE IF axes = <<"M">> THEN f.delay[m + 1]
                             ELSE IF axes = <<"I">> THEN f.delay[1] ELSE f.delay[r + 1]
      BY <1>8, <2>1, DelayAtBy DEF axes
    <3>4. CASE axes = <<"M">>
      <4>1. m + 1 \in 1..Len(f.delay)
        BY <1>2, <2>1, <2>5, <3>1, <3>4
      <4>2. DelayAt(f, m, r) = f.delay[m + 1]
        BY <3>3, <3>4
      <4>3. QED
        BY <1>1, <3>2, <4>1, <4>2
    <3>5. CASE axes = <<"I">>
      <4>1. 1 \in 1..Len(f.delay)
        BY <2>1, <2>5, <3>5
      <4>2. DelayAt(f, m, r) = f.delay[1]
        BY <3>3, <3>5
      <4>3. QED
        BY <1>1, <3>2, <4>1, <4>2
    <3>6. CASE axes = <<"R">>
      <4>1. r + 1 \in 1..Len(f.delay)
        BY <1>2, <2>1, <2>5, <3>1, <3>6
      <4>2. DelayAt(f, m, r) = f.delay[r + 1]
        BY <3>3, <3>6
      <4>3. QED
        BY <1>1, <3>2, <4>1, <4>2
    <3>7. QED
      BY <2>2, <3>4, <3>5, <3>6
  <2>8. d \in Seq(Nat) /\ Len(d) = rows * R
    <3>1. d \in [1..rows * R -> Nat]
      BY <2>7
    <3> HIDE DEF d, rows
    <3>2. QED
      BY <2>6, <3>1
  <2>9. d # <<>>
    BY <2>6, <2>8
  <2>10. CASE axes = <<"M">>
    <3>1. l = <<"M", "R">> /\ rows = M
      BY <2>10
    <3> HIDE DEF w, d, l, rows
    <3>2. QED
      BY <1>3, <1>4, <2>4, <2>8, <2>9, <3>1 DEF Fits, w
  <2>11. CASE axes # <<"M">>
    <3>1. l = <<"I", "R">> /\ rows * R = R
      BY <1>2, <2>11
    <3> HIDE DEF w, d, l, rows
    <3>2. QED
      BY <1>3, <1>4, <2>4, <2>8, <2>9, <3>1 DEF Fits, w
  <2>12. QED
    BY <2>10, <2>11
<1>9. QED
  BY <1>6, <1>7, <1>8

\* Read back, the delay has the layout it was written in and every measurement
\* and receiver the delay it had.
LEMMA DelayKept ==
  ASSUME NEW f, FileOK(f), AudioShaped(f), Rated(f.type), NEW g, g.size = f.size,
         g.delay = WrittenDelay(f).data, g.delayLayout = WrittenDelay(f).layout
  PROVE  /\ DelayAxes(g) = WrittenDelay(f).layout
         /\ \A m \in 0..f.size["M"] - 1, r \in 0..f.size["R"] - 1 :
              DelayAt(g, m, r) = DelayAt(f, m, r)
<1> DEFINE M == f.size["M"]
           R == f.size["R"]
           w == WrittenDelay(f)
           axes == DelayAxes(f)
<1>1. Sized(f.size) /\ f.delay \in Seq(Nat)
  BY FileFields
<1>2. M \in Nat \ {0} /\ R \in Nat \ {0}
  BY <1>1, AxisSizes
<1>3. /\ Fits(f.size, f.type, "Data.Delay", w)
      /\ w.layout \in {<<"I", "R">>, <<"M", "R">>} /\ w.data # <<>>
  BY DelayWritten
<1>4. w.layout # NoLayout
  <2>1. <<"I", "R">> # <<>> /\ <<"M", "R">> # <<>>
    OBVIOUS
  <2> HIDE DEF w
  <2>2. QED
    BY <1>3, <2>1 DEF NoLayout
<1>5. DelayAxes(g) = w.layout
  BY <1>3, <1>4 DEF DelayAxes, Fits
<1>6. SUFFICES ASSUME NEW m \in 0..M - 1, NEW r \in 0..R - 1
               PROVE  DelayAt(g, m, r) = DelayAt(f, m, r)
  BY <1>5
<1>7. w.layout \in DelayLayouts /\ g.delay = w.data /\ <<"I", "R">> # <<"M", "R">>
  BY <1>3 DEF DelayLayouts
<1>8. DelayAt(g, m, r) = IF w.layout = <<"M", "R">> THEN w.data[m * R + r + 1] ELSE w.data[r + 1]
  <2> HIDE DEF w
  <2>1. DelayAt(g, m, r) = IF w.layout = <<"M", "R">> THEN g.delay[m * g.size["R"] + r + 1]
                           ELSE IF w.layout = <<"M">> THEN g.delay[m + 1]
                           ELSE IF w.layout = <<"I">> THEN g.delay[1] ELSE g.delay[r + 1]
    <3>1. g.delay # <<>>
      BY <1>3, <1>7
    <3> HIDE DEF M, R, axes
    <3>2. \A l \in DelayLayouts : DelayAxes(g) = l =>
            DelayAt(g, m, r) = IF l = <<"M", "R">> THEN g.delay[m * g.size["R"] + r + 1]
                               ELSE IF l = <<"M">> THEN g.delay[m + 1]
                               ELSE IF l = <<"I">> THEN g.delay[1] ELSE g.delay[r + 1]
      BY <3>1, DelayAtBy
    <3>3. QED
      BY <1>5, <1>7, <3>2
  <2>2. <<"I", "R">> # <<"M">> /\ <<"I", "R">> # <<"I">>
    OBVIOUS
  <2>3. QED
    BY <1>3, <1>7, <2>1, <2>2
<1>9. CASE f.delay = <<>>
  <2>1. w = [layout |-> <<"I", "R">>, data |-> [k \in 1..R |-> 0]]
    BY <1>9 DEF WrittenDelay
  <2>2. DelayAt(f, m, r) = 0
    BY <1>9 DEF DelayAt
  <2>3. r + 1 \in 1..R
    BY <1>2
  <2> HIDE DEF w
  <2>4. w.data[r + 1] = 0 /\ w.layout # <<"M", "R">>
    BY <1>7, <2>1, <2>3
  <2>5. QED
    BY <1>8, <2>2, <2>4
<1>10. CASE f.delay # <<>>
  <2>1. axes \in DelayLayouts
    BY <1>10, DelayAxesFit
  <2>2. DelayAt(f, m, r) = IF axes = <<"M", "R">> THEN f.delay[m * R + r + 1]
                           ELSE IF axes = <<"M">> THEN f.delay[m + 1]
                           ELSE IF axes = <<"I">> THEN f.delay[1] ELSE f.delay[r + 1]
    BY <1>10, <2>1, DelayAtBy
  <2>3. CASE Len(axes) = 2
    <3>1. w = [layout |-> axes, data |-> f.delay]
      BY <1>10, <2>3 DEF WrittenDelay
    <3>2. axes = w.layout /\ f.delay = w.data
      BY <3>1
    <3>3. <<"I", "R">> # <<"M">> /\ <<"I", "R">> # <<"I">>
      OBVIOUS
    <3> HIDE DEF w, axes, R, M
    <3>4. CASE w.layout = <<"M", "R">>
      BY <1>8, <2>2, <3>2, <3>4
    <3>5. CASE w.layout = <<"I", "R">>
      <4>1. DelayAt(f, m, r) = f.delay[r + 1]
        BY <1>7, <2>2, <3>2, <3>3, <3>5
      <4>2. DelayAt(g, m, r) = w.data[r + 1]
        BY <1>7, <1>8, <3>5
      <4>3. QED
        BY <3>2, <4>1, <4>2
    <3>6. QED
      BY <1>3, <3>4, <3>5
  <2>4. CASE Len(axes) # 2
    <3> DEFINE rows == IF axes = <<"M">> THEN M ELSE 1
    <3>1. axes \in {<<"I">>, <<"M">>, <<"R">>}
      <4>1. Len(<<"I", "R">>) = 2 /\ Len(<<"M", "R">>) = 2
        OBVIOUS
      <4> HIDE DEF axes
      <4>2. QED
        BY <2>1, <2>4, <4>1 DEF DelayLayouts
    <3>2. Contains(axes, "M") <=> axes = <<"M">>
      BY <3>1, ContainsShort
    <3>3. w = [layout |-> <<IF axes = <<"M">> THEN "M" ELSE "I", "R">>,
               data |-> [k \in 1..rows * R |-> DelayAt(f, (k - 1) \div R, (k - 1) % R)]]
      BY <1>10, <2>4, <3>2 DEF WrittenDelay
    <3>4. CASE axes = <<"M">>
      <4> DEFINE k == m * R + r + 1
      <4>1. w.layout = <<"M", "R">> /\ w.data = [i \in 1..M * R |-> DelayAt(f, (i - 1) \div R, (i - 1) % R)]
        BY <3>3, <3>4
      <4>2. k \in 1..M * R /\ k - 1 = R * m + r
        <5>1. R * (m + 1) <= R * M
          BY <1>2, ProductGrows
        <5>2. R * (m + 1) = R * m + R /\ R * m \in Nat /\ R * M = M * R /\ M * R \in Nat /\ m * R = R * m
          BY <1>2
        <5>3. r \in Nat /\ r < R
          BY <1>2
        <5> HIDE DEF M, R
        <5>4. QED
          BY <1>2, <5>1, <5>2, <5>3
      <4>3. (R * m + r) \div R = m /\ (R * m + r) % R = r
        <5>1. m \in Nat /\ r \in Nat /\ r < R
          BY <1>2
        <5> HIDE DEF R
        <5>2. QED
          BY <1>2, <5>1, DivisionUnique
      <4> HIDE DEF k, w, M, R
      <4>4. w.data[k] = DelayAt(f, m, r)
        BY <4>1, <4>2, <4>3
      <4>5. QED
        BY <1>8, <4>1, <4>4 DEF k
    <3>5. CASE axes # <<"M">>
      <4>1. w.layout = <<"I", "R">> /\ w.data = [i \in 1..1 * R |-> DelayAt(f, (i - 1) \div R, (i - 1) % R)]
        BY <3>3, <3>5
      <4>2. r + 1 \in 1..1 * R /\ (r + 1) - 1 = R * 0 + r /\ r \in Nat /\ r < R
        BY <1>2
      <4>3. (R * 0 + r) \div R = 0 /\ (R * 0 + r) % R = r
        <5>1. 0 \in Nat
          OBVIOUS
        <5> HIDE DEF R
        <5>2. QED
          BY <1>2, <4>2, <5>1, DivisionUnique
      <4> HIDE DEF w, R, axes
      <4>4. w.data[r + 1] = DelayAt(f, 0, r)
        BY <4>1, <4>2, <4>3
      <4>5. DelayAt(f, 0, r) = DelayAt(f, m, r)
        <5>1. DelayAt(f, 0, r) = IF axes = <<"M", "R">> THEN f.delay[0 * f.size["R"] + r + 1]
                                 ELSE IF axes = <<"M">> THEN f.delay[0 + 1]
                                 ELSE IF axes = <<"I">> THEN f.delay[1] ELSE f.delay[r + 1]
          BY <1>10, <2>1, DelayAtBy DEF axes
        <5>2. axes # <<"M", "R">>
          BY <3>1
        <5>3. QED
          BY <2>2, <3>5, <5>1, <5>2
      <4>6. QED
        BY <1>7, <1>8, <4>1, <4>4, <4>5
    <3>6. QED
      BY <3>4, <3>5
  <2>5. QED
    BY <2>3, <2>4
<1>11. QED
  BY <1>9, <1>10

\* Save never hands HDF5 values that do not fill the shape.
LEMMA WrittenFits ==
  ASSUME NEW f, FileOK(f), Consistent(f), NEW v \in VariablesOf(f.type)
  PROVE  v \in Variables /\ Fits(f.size, f.type, v, Written(f, v))
<1>1. AudioShaped(f) /\ PositionCountsFit(f) /\ PerMeasurementFits(f)
  BY DEF Consistent
<1>2. CASE v = "Data"
  BY <1>1, <1>2, AudioWritten DEF Written, Variables
<1>3. CASE v = "Data.SamplingRate" /\ Rated(f.type)
  BY <1>1, <1>3, RateWritten DEF Variables
<1>4. CASE v = "Data.Delay" /\ Rated(f.type)
  BY <1>1, <1>4, DelayWritten DEF Written, Variables
<1>5. CASE v \in Positions
  <2>1. v \notin {"Data", "Data.SamplingRate", "Data.Delay"}
    BY <1>5 DEF Positions
  <2>2. QED
    BY <1>1, <1>5, <2>1, PositionWritten DEF Written, Variables
<1>6. CASE v \in Orientations
  <2>1. v \notin {"Data", "Data.SamplingRate", "Data.Delay"} /\ v \notin Positions
    BY <1>6 DEF Positions, Orientations
  <2>2. QED
    BY <1>1, <1>6, <2>1, OrientationWritten DEF Written, Variables
<1>7. QED
  <2>1. v \in {"Data"} \/ v \in Positions \/ v \in Orientations
        \/ (Rated(f.type) /\ v \in {"Data.SamplingRate", "Data.Delay"})
    BY DEF VariablesOf
  <2>2. QED
    BY <1>2, <1>3, <1>4, <1>5, <1>6, <2>1

-----------------------------------------------------------------------------
(* What Open makes of what Save wrote.                                     *)

\* Open finds the sizes in the scales Save wrote.
LEMMA SizesBack ==
  ASSUME NEW f, FileOK(f), AudioShaped(f)
  PROVE  ReadSizes(Stored(f)) = f.size
<1> DEFINE scales == [d \in Sizes |-> WrittenScale(f, d)]
<1>1. Stored(f).scales = scales
  BY DEF Stored
<1>2. f.size \in [Sizes -> Nat \ {0}]
  BY FileFields DEF Sized
<1>3. ASSUME NEW d \in Sizes PROVE ReadDimension(WrittenScale(f, d)) = f.size[d]
  <2>1. CASE d = "N" /\ ~Rated(f.type)
    <3>1. Len(f.freqs) = f.size[d]
      BY <2>1 DEF AudioShaped
    <3>2. WrittenScale(f, d) = [name |-> "label", n |-> 0, data |-> f.freqs]
      BY <2>1 DEF WrittenScale
    <3>3. QED
      BY <3>1, <3>2 DEF ReadDimension
  <2>2. CASE ~(d = "N" /\ ~Rated(f.type))
    <3>1. f.size[d] # 0
      BY <1>2
    <3>2. WrittenScale(f, d) = [name |-> "size", n |-> f.size[d], data |-> [i \in 1..f.size[d] |-> 0]]
      BY <2>2 DEF WrittenScale
    <3>3. QED
      BY <3>1, <3>2 DEF ReadDimension
  <2>3. QED
    BY <2>1, <2>2
<1>4. ReadSizes(Stored(f)) = [s \in Sizes |-> ReadDimension(WrittenScale(f, s))]
  BY <1>1 DEF ReadSizes
<1>5. [s \in Sizes |-> ReadDimension(WrittenScale(f, s))] = [s \in Sizes |-> f.size[s]]
  BY <1>3
<1>6. QED
  BY <1>2, <1>4, <1>5

\* A stored file, field by field.
LEMMA StoredVars ==
  ASSUME NEW f
  PROVE  /\ Stored(f).type = f.type
         /\ Stored(f).scales = [d \in Sizes |-> WrittenScale(f, d)]
         /\ DOMAIN Stored(f).vars = VariablesOf(f.type)
         /\ \A v \in VariablesOf(f.type) :
              /\ Stored(f).vars[v].labels = Written(f, v).layout
              /\ Stored(f).vars[v].shape = Shape(f.size, Written(f, v).layout)
              /\ Stored(f).vars[v].data = Written(f, v).data
BY DEF Stored

\* The frequencies are the values of the scale of N.
LEMMA FrequenciesStored ==
  ASSUME NEW f, ~Rated(f.type)
  PROVE  Stored(f).scales["N"].data = f.freqs
<1>1. Stored(f).scales["N"] = WrittenScale(f, "N")
  <2>1. Stored(f).scales = [d \in Sizes |-> WrittenScale(f, d)]
    BY StoredVars
  <2>2. "N" \in Sizes
    BY DEF Sizes
  <2>3. QED
    BY <2>1, <2>2
<1>2. WrittenScale(f, "N") = [name |-> "label", n |-> 0, data |-> f.freqs]
  BY DEF WrittenScale
<1>3. QED
  BY <1>1, <1>2

\* Open finds the layout Save chose, whichever sizes coincide.
LEMMA ResolvedBack ==
  ASSUME NEW f, FileOK(f), Consistent(f), NEW v \in VariablesOf(f.type)
  PROVE  ResolveLayout(f.size, f.type, v, Stored(f).vars[v]) = Written(f, v).layout
<1> DEFINE var == Stored(f).vars[v]
<1>1. v \in Variables /\ Written(f, v).layout \in Range(Layouts(f.type, v))
  BY WrittenFits DEF Fits
<1>2. var.labels = Written(f, v).layout /\ var.shape = Shape(f.size, var.labels)
  <2>1. var.labels = Written(f, v).layout /\ var.shape = Shape(f.size, Written(f, v).layout)
    BY StoredVars
  <2>2. QED
    BY <2>1
<1> HIDE DEF var
<1>3. ResolveLayout(f.size, f.type, v, var) = var.labels
  BY <1>1, <1>2, ResolvedOwn
<1>4. QED
  BY <1>2, <1>3 DEF var

\* So it finds what was written.
LEMMA FoundBack ==
  ASSUME NEW f, FileOK(f), Consistent(f), NEW v
  PROVE  LET found == Found(Stored(f), f.size, v)
         IN  IF v \in VariablesOf(f.type)
             THEN found.layout = Written(f, v).layout /\ found.data = Written(f, v).data
             ELSE found.layout = NoLayout /\ found.data = <<>>
<1>1. CASE v \in VariablesOf(f.type)
  <2>1. Found(Stored(f), f.size, v)
          = [layout |-> ResolveLayout(f.size, f.type, v, Stored(f).vars[v]), data |-> Stored(f).vars[v].data]
    BY <1>1, StoredVars DEF Found
  <2>2. Stored(f).vars[v].data = Written(f, v).data
    BY <1>1, StoredVars
  <2>3. QED
    BY <1>1, <2>1, <2>2, ResolvedBack
<1>2. CASE v \notin VariablesOf(f.type)
  BY <1>2, StoredVars DEF Found
<1>3. QED
  BY <1>1, <1>2

\* Open reads what Save wrote.
LEMMA StoredReadable ==
  ASSUME NEW f, FileOK(f), Opens(f)
  PROVE  Readable(Stored(f))
<1> DEFINE d == Stored(f)
<1>1. Consistent(f) /\ AudioShaped(f) /\ Count(f.size) <= MaxElements
  BY ValidConsistent DEF Opens, Consistent
<1>2. ReadSizes(d) = f.size
  BY <1>1, SizesBack
<1>3. \A s \in Sizes : CheckDimension(f.size[s])
  BY FileFields DEF CheckDimension
<1>4. d.type = f.type /\ DOMAIN d.vars = VariablesOf(f.type) /\ "Data" \in VariablesOf(f.type)
  BY StoredVars DEF VariablesOf
<1>5. ASSUME NEW v \in VariablesOf(f.type)
      PROVE  ResolveLayout(f.size, f.type, v, d.vars[v]) # NoLayout
  <2>1. IsLayout(Written(f, v).layout)
    BY <1>1, WrittenFits, LayoutsWell DEF Fits
  <2>2. Written(f, v).layout # NoLayout
    BY <2>1, LayoutNotEmpty
  <2>3. QED
    BY <1>1, <2>2, ResolvedBack
<1>6. f.type = "SOS" => f.size["N"] % 6 = 0
  BY DEF Opens, Valid, AudioFits
<1>7. ~Rated(f.type) => Len(d.scales["N"].data) = f.size["N"]
  <2>1. ASSUME ~Rated(f.type) PROVE Len(f.freqs) = f.size["N"] /\ d.scales["N"].data = f.freqs
    BY <1>1, <2>1, FrequenciesStored DEF AudioShaped
  <2>2. QED
    BY <2>1
<1> HIDE DEF d
<1>8. Readable(d)
  BY <1>1, <1>2, <1>3, <1>4, <1>5, <1>6, <1>7 DEF Readable
<1>9. QED
  BY <1>8 DEF d

\* The audio data and the frequencies come back.
LEMMA AudioKept ==
  ASSUME NEW f, FileOK(f), Consistent(f)
  PROVE  /\ ReadAudio(Stored(f), f.size) = f.audio
         /\ ReadFrequencies(Stored(f)) = f.freqs
<1> DEFINE d == Stored(f)
           found == Found(d, f.size, "Data")
           M == f.size["M"]
           R == f.size["R"]
           E == f.size["E"]
           N == f.size["N"]
<1>1. AudioShaped(f) /\ d.type = f.type /\ "Data" \in VariablesOf(f.type)
  BY StoredVars DEF Consistent, VariablesOf
<1>2. found.layout = WrittenAudio(f).layout /\ found.data = WrittenAudio(f).data
  BY <1>1, FoundBack DEF Written
<1>3. f.audio = [shape |-> f.audio.shape, data |-> f.audio.data] /\ Sized(f.size)
  BY FileFields
<1>4. f.audio.shape = Shape(f.size, MemoryLayout(f.type))
  BY <1>1 DEF AudioShaped
<1>5. ReadAudio(d, f.size) = [shape |-> f.audio.shape,
        data |-> IF found.layout = MRNE THEN SwapLastAxes(found.data, N, E) ELSE found.data]
  BY <1>1, <1>4 DEF ReadAudio
<1>6. (IF found.layout = MRNE THEN SwapLastAxes(found.data, N, E) ELSE found.data) = f.audio.data
  <2>1. CASE f.type = "TFE"
    <3>1. found.layout = MRNE /\ found.data = SwapLastAxes(f.audio.data, E, N)
      BY <1>2, <2>1 DEF WrittenAudio
    <3>2. /\ E \in Nat \ {0} /\ N \in Nat \ {0} /\ M \in Nat \ {0} /\ R \in Nat \ {0}
      BY <1>3, AxisSizes
    <3>3. Grid(f.audio.data, Nat, M * R, N, E)
      BY <1>1, <2>1, AudioGrid
    <3> HIDE DEF M, R, E, N, found
    <3>4. Grid(f.audio.data, Nat, M * R, E, N) /\ M * R \in Nat
      <4>1. N * E = E * N /\ M * R \in Nat
        BY <3>2
      <4>2. QED
        BY <3>3, <4>1 DEF Grid
    <3>5. SwapLastAxes(SwapLastAxes(f.audio.data, E, N), N, E) = f.audio.data
      BY <3>2, <3>4, SwapBack
    <3>6. QED
      BY <3>1, <3>5
  <2>2. CASE f.type # "TFE"
    <3>1. found.layout = MRN /\ found.data = f.audio.data
      BY <1>2, <2>2 DEF WrittenAudio
    <3>2. MRN # MRNE
      BY DEF MRN, MRNE
    <3>3. QED
      BY <3>1, <3>2
  <2>3. QED
    BY <2>1, <2>2
<1>7. ReadAudio(d, f.size) = f.audio
  BY <1>3, <1>5, <1>6
<1>8. ReadFrequencies(d) = f.freqs
  <2>1. CASE Rated(f.type)
    BY <1>1, <2>1, FileFields DEF ReadFrequencies
  <2>2. CASE ~Rated(f.type)
    BY <1>1, <2>2, FrequenciesStored DEF ReadFrequencies
  <2>3. QED
    BY <2>1, <2>2
<1>9. QED
  BY <1>7, <1>8

\* Positions come back, for each measurement or not.
LEMMA PositionsKept ==
  ASSUME NEW f, FileOK(f), Consistent(f), NEW p \in Positions
  PROVE  /\ ReadPerMeasurement(Stored(f), f.size, p) = f.posM[p]
         /\ f.posM[p] = <<>> =>
              /\ ReadPositions(Stored(f), f.size, p) = SavedPositions(f, p)
              /\ SavedPositions(f, p) # <<>>
<1> DEFINE d == Stored(f)
           found == Found(d, f.size, p)
           perM == f.posM[p]
           saved == SavedPositions(f, p)
           M == f.size["M"]
           x == ObjectDim(p)
           w == WrittenPosition(f, p)
<1>1. PositionCountsFit(f) /\ PerMeasurementFits(f) /\ p \in VariablesOf(f.type)
  BY DEF Consistent, VariablesOf
<1>2. Written(f, p) = w
  BY DEF Written, Positions
<1>3. found.layout = w.layout /\ found.data = w.data
  BY <1>1, <1>2, FoundBack
<1>4. ReadPerMeasurement(d, f.size, p)
        = IF Len(found.layout) = 3 /\ found.layout[3] = "M" THEN VectorsPerM(found.data, M) ELSE <<>>
  BY DEF ReadPerMeasurement
<1>5. CASE perM # <<>>
  <2> DEFINE n == Len(perM[1])
             row == RowDim(n, x, f.size[x])
  <2>1. PerM(perM, Nat, M, n) /\ n \in Nat
    BY <1>1, <1>5, PerMFits
  <2>2. w = [layout |-> <<row, "C", "M">>, data |-> FlatPerM(perM)]
    BY <1>5 DEF WrittenPosition
  <2>3. M \in Nat \ {0}
    BY FileFields, AxisSizes
  <2> HIDE DEF n, perM, M, row, w
  <2>4. VectorsPerM(FlatPerM(perM), M) = perM
    BY <2>1, <2>3, PerMBack
  <2>5. Len(<<row, "C", "M">>) = 3 /\ <<row, "C", "M">>[3] = "M"
    OBVIOUS
  <2>6. w.layout = <<row, "C", "M">> /\ w.data = FlatPerM(perM)
    BY <2>2
  <2> HIDE DEF found
  <2>7. ReadPerMeasurement(d, f.size, p) = perM
    BY <1>3, <1>4, <2>4, <2>5, <2>6
  <2>8. QED
    BY <1>5, <2>7 DEF perM
<1>6. CASE perM = <<>>
  <2> DEFINE row == RowDim(Len(saved), x, f.size[x])
  <2>1. w = [layout |-> <<row, "C">> \o (IF x = "M" THEN <<>> ELSE <<"I">>), data |-> Flat(saved)]
    BY <1>6 DEF WrittenPosition
  <2>2. saved \in Seq(Vector) /\ Len(saved) # 0
    BY <1>1, <1>6, SavedType DEF PositionCountsFit
  <2> HIDE DEF row, w, x
  <2>3. <<row, "C">> \o <<>> = <<row, "C">> /\ <<row, "C">> \o <<"I">> = <<row, "C", "I">>
    BY OneMore
  <2>4. w.layout \in {<<row, "C">>, <<row, "C", "I">>} /\ w.data = Flat(saved)
    BY <2>1, <2>3
  <2>5. Len(<<row, "C">>) # 3 /\ <<row, "C", "I">>[3] # "M"
    OBVIOUS
  <2> HIDE DEF saved, perM
  <2>6. ReadPerMeasurement(d, f.size, p) = <<>>
    <3> HIDE DEF found
    <3>1. QED
      BY <1>3, <1>4, <2>4, <2>5
  <2>7. ReadPositions(d, f.size, p) = Vectors(found.data)
    BY <2>6 DEF ReadPositions
  <2>8. Vectors(Flat(saved)) = saved
    BY <2>2, VectorsFlat DEF Vector
  <2>9. saved # <<>>
    BY <2>2
  <2> HIDE DEF found
  <2>10. ReadPositions(d, f.size, p) = saved
    BY <1>3, <2>4, <2>7, <2>8
  <2>11. QED
    BY <1>6, <2>6, <2>9, <2>10 DEF saved, perM
<1>7. QED
  BY <1>5, <1>6

\* A single vector comes back.
LEMMA OneVector ==
  ASSUME NEW v \in Vector
  PROVE  Vectors(v)[1] = v
<1>1. v \in Seq(Nat) /\ Len(v) = 3 /\ v \in [1..3 -> Nat]
  BY VectorIsSeq DEF Vector
<1>2. Vectors(v) = [i \in 1..1 |-> [c \in 1..3 |-> v[3 * (i - 1) + c]]]
  <2>1. 3 \div 3 = 1
    OBVIOUS
  <2>2. QED
    BY <1>1, <2>1 DEF Vectors
<1>3. Vectors(v)[1] = [c \in 1..3 |-> v[3 * (1 - 1) + c]]
  BY <1>2
<1>4. \A c \in 1..3 : 3 * (1 - 1) + c = c
  OBVIOUS
<1>5. QED
  BY <1>1, <1>3, <1>4

\* Orientations survive, the default in place of an empty one.
LEMMA OrientationsKept ==
  ASSUME NEW f, FileOK(f), Consistent(f), NEW o \in Orientations
  PROVE  /\ ReadOrientations(Stored(f), f.size, o) = f.all[o]
         /\ f.all[o] = <<>> => ReadVector(Stored(f), f.size, o) = SavedVector(f, o)
<1> DEFINE d == Stored(f)
           found == Found(d, f.size, o)
           w == WrittenOrientation(f, o)
<1>1. PerMeasurementFits(f) /\ o \in VariablesOf(f.type)
  BY DEF Consistent, VariablesOf
<1>2. Written(f, o) = w
  BY DEF Written, Positions, Orientations
<1>3. found.layout = w.layout /\ found.data = w.data
  BY <1>1, <1>2, FoundBack
<1>4. f.all[o] \in Seq(Vector) /\ f.one[o] \in Vector
  BY FileFields
<1>5. ReadOrientations(d, f.size, o)
        = IF Contains(found.layout, "M") THEN Vectors(found.data) ELSE <<>>
  BY DEF ReadOrientations
<1>6. CASE f.all[o] # <<>>
  <2>1. w = [layout |-> <<"M", "C">>, data |-> Flat(f.all[o])]
    BY <1>6 DEF WrittenOrientation
  <2>2. Contains(<<"M", "C">>, "M")
    BY ContainsShort
  <2>3. Vectors(Flat(f.all[o])) = f.all[o]
    BY <1>4, VectorsFlat DEF Vector
  <2> HIDE DEF found, w
  <2>4. QED
    BY <1>3, <1>5, <1>6, <2>1, <2>2, <2>3
<1>7. CASE f.all[o] = <<>>
  <2>1. w = [layout |-> <<"I", "C">>, data |-> SavedVector(f, o)]
    BY <1>7 DEF WrittenOrientation
  <2>2. ~Contains(<<"I", "C">>, "M")
    BY ContainsShort
  <2>3. SavedVector(f, o) \in Vector
    BY <1>4 DEF SavedVector, DefaultVector, Vector
  <2>4. SavedVector(f, o) # <<>> /\ Vectors(SavedVector(f, o))[1] = SavedVector(f, o)
    <3>1. Len(SavedVector(f, o)) = 3
      BY <2>3, VectorIsSeq
    <3>2. SavedVector(f, o) # <<>>
      BY <3>1
    <3>3. QED
      BY <2>3, <3>2, OneVector
  <2>5. ReadVector(d, f.size, o) = IF found.data = <<>> THEN Origin ELSE Vectors(found.data)[1]
    BY DEF ReadVector
  <2> HIDE DEF found, w
  <2>6. found.data = SavedVector(f, o) /\ found.layout = <<"I", "C">>
    BY <1>3, <2>1
  <2>7. QED
    BY <1>5, <1>7, <2>2, <2>4, <2>5, <2>6
<1>8. QED
  BY <1>6, <1>7

\* A default is not added twice.
LEMMA DefaultOnce ==
  ASSUME NEW f, NEW g, NEW o \in Orientations, g.one[o] = SavedVector(f, o)
  PROVE  SavedVector(g, o) = SavedVector(f, o)
<1>1. DefaultVector(o) # Origin
  <2>1. <<1, 0, 0>> # <<0, 0, 0>> /\ <<0, 0, 1>> # <<0, 0, 0>>
    OBVIOUS
  <2>2. QED
    BY <2>1 DEF DefaultVector, Origin
<1>2. SavedVector(f, o) # Origin
  BY <1>1 DEF SavedVector
<1>3. QED
  BY <1>2 DEF SavedVector

\* Positions that are there are not replaced by the default.
LEMMA SavedAgain ==
  ASSUME NEW g, NEW p, g.pos[p] # <<>>
  PROVE  SavedPositions(g, p) = g.pos[p]
BY DEF SavedPositions

\* The File Open returns for what Save wrote, field by field.
LEMMA FieldsKept ==
  ASSUME NEW f, FileOK(f), Consistent(f)
  PROVE  LET g == Opened(Stored(f))
         IN  /\ g.size = f.size /\ g.type = f.type /\ g.audio = f.audio /\ g.freqs = f.freqs
             /\ Rated(f.type) => /\ g.rate = f.rate
                                 /\ g.delay = WrittenDelay(f).data
                                 /\ g.delayLayout = WrittenDelay(f).layout
             /\ \A p \in Positions :
                  /\ g.posM[p] = f.posM[p]
                  /\ f.posM[p] = <<>> => SavedPositions(g, p) = SavedPositions(f, p)
             /\ \A o \in Orientations :
                  /\ g.all[o] = f.all[o]
                  /\ f.all[o] = <<>> => SavedVector(g, o) = SavedVector(f, o)
<1> DEFINE d == Stored(f)
           g == Opened(d)
<1>1. ReadSizes(d) = f.size /\ d.type = f.type
  BY SizesBack, StoredVars DEF Consistent
<1>2. g = [size |-> f.size, type |-> d.type,
           audio |-> ReadAudio(d, f.size), freqs |-> ReadFrequencies(d),
           rate |-> Found(d, f.size, "Data.SamplingRate").data,
           delay |-> Found(d, f.size, "Data.Delay").data,
           delayLayout |-> Found(d, f.size, "Data.Delay").layout,
           pos |-> [p \in Positions |-> ReadPositions(d, f.size, p)],
           posM |-> [p \in Positions |-> ReadPerMeasurement(d, f.size, p)],
           one |-> [o \in Orientations |-> ReadVector(d, f.size, o)],
           all |-> [o \in Orientations |-> ReadOrientations(d, f.size, o)]]
  <2> HIDE DEF d
  <2>1. QED
    BY <1>1 DEF Opened
<1>3. g.audio = f.audio /\ g.freqs = f.freqs
  BY <1>2, AudioKept
<1>4. ASSUME Rated(f.type)
      PROVE  /\ g.rate = f.rate /\ g.delay = WrittenDelay(f).data
             /\ g.delayLayout = WrittenDelay(f).layout
  <2>1. "Data.SamplingRate" \in VariablesOf(f.type) /\ "Data.Delay" \in VariablesOf(f.type)
    BY <1>4 DEF VariablesOf
  <2>2. /\ Written(f, "Data.SamplingRate").data = f.rate
        /\ Written(f, "Data.Delay") = WrittenDelay(f)
    BY DEF Written
  <2>3. Found(d, f.size, "Data.SamplingRate").data = f.rate
    BY <2>1, <2>2, FoundBack
  <2>4. /\ Found(d, f.size, "Data.Delay").data = WrittenDelay(f).data
        /\ Found(d, f.size, "Data.Delay").layout = WrittenDelay(f).layout
    BY <2>1, <2>2, FoundBack
  <2> HIDE DEF d, g
  <2>5. QED
    BY <1>2, <2>3, <2>4
<1>5. ASSUME NEW p \in Positions
      PROVE  /\ g.posM[p] = f.posM[p]
             /\ f.posM[p] = <<>> => SavedPositions(g, p) = SavedPositions(f, p)
  <2>1. /\ ReadPerMeasurement(d, f.size, p) = f.posM[p]
        /\ f.posM[p] = <<>> => /\ ReadPositions(d, f.size, p) = SavedPositions(f, p)
                               /\ SavedPositions(f, p) # <<>>
    BY PositionsKept
  <2> HIDE DEF d, g
  <2>2. g.posM[p] = f.posM[p] /\ g.pos[p] = ReadPositions(d, f.size, p)
    BY <1>2, <2>1
  <2>3. QED
    BY <2>1, <2>2, SavedAgain
<1>6. ASSUME NEW o \in Orientations
      PROVE  /\ g.all[o] = f.all[o]
             /\ f.all[o] = <<>> => SavedVector(g, o) = SavedVector(f, o)
  <2>1. /\ ReadOrientations(d, f.size, o) = f.all[o]
        /\ f.all[o] = <<>> => ReadVector(d, f.size, o) = SavedVector(f, o)
    BY OrientationsKept
  <2> HIDE DEF d, g
  <2>2. g.all[o] = f.all[o] /\ g.one[o] = ReadVector(d, f.size, o)
    BY <1>2, <2>1
  <2>3. QED
    BY <2>1, <2>2, DefaultOnce
<1>7. g.size = f.size /\ g.type = f.type
  BY <1>1, <1>2
<1> HIDE DEF g
<1>8. QED
  BY <1>3, <1>4, <1>5, <1>6, <1>7 DEF g

\* Every accessor answers as it did.
LEMMA ViewKept ==
  ASSUME NEW f, FileOK(f), Consistent(f)
  PROVE  View(Opened(Stored(f))) = View(f)
<1> DEFINE g == Opened(Stored(f))
<1>1. /\ g.size = f.size /\ g.type = f.type /\ g.audio = f.audio /\ g.freqs = f.freqs
      /\ Rated(f.type) => /\ g.rate = f.rate
                          /\ g.delay = WrittenDelay(f).data
                          /\ g.delayLayout = WrittenDelay(f).layout
      /\ \A p \in Positions :
           /\ g.posM[p] = f.posM[p]
           /\ f.posM[p] = <<>> => SavedPositions(g, p) = SavedPositions(f, p)
      /\ \A o \in Orientations :
           /\ g.all[o] = f.all[o]
           /\ f.all[o] = <<>> => SavedVector(g, o) = SavedVector(f, o)
  BY FieldsKept
<1> HIDE DEF g
<1>2. View(g).size = View(f).size /\ View(g).type = View(f).type
      /\ View(g).audio = View(f).audio /\ View(g).freqs = View(f).freqs
  BY <1>1 DEF View
<1>3. View(g).rate = View(f).rate
  <2>1. CASE Rated(f.type)
    <3>1. \A m : SamplingRateAt(g, m) = SamplingRateAt(f, m)
      BY <1>1, <2>1 DEF SamplingRateAt
    <3>2. /\ View(g).rate = [m \in 0..f.size["M"] - 1 |-> SamplingRateAt(g, m)]
          /\ View(f).rate = [m \in 0..f.size["M"] - 1 |-> SamplingRateAt(f, m)]
      BY <1>1, <2>1 DEF View
    <3>3. QED
      BY <3>1, <3>2
  <2>2. CASE ~Rated(f.type)
    BY <1>1, <2>2 DEF View
  <2>3. QED
    BY <2>1, <2>2
<1>4. View(g).delay = View(f).delay
  <2>1. CASE Rated(f.type)
    <3>1. \A m \in 0..f.size["M"] - 1, r \in 0..f.size["R"] - 1 :
            DelayAt(g, m, r) = DelayAt(f, m, r)
      <4>1. /\ g.size = f.size /\ g.delay = WrittenDelay(f).data
            /\ g.delayLayout = WrittenDelay(f).layout /\ AudioShaped(f)
        BY <1>1, <2>1 DEF Consistent
      <4>2. QED
        BY <2>1, <4>1, DelayKept
    <3> DEFINE row(h, m) == [r \in 0..f.size["R"] - 1 |-> DelayAt(h, m, r)]
    <3>2. /\ View(g).delay = [m \in 0..f.size["M"] - 1 |-> row(g, m)]
          /\ View(f).delay = [m \in 0..f.size["M"] - 1 |-> row(f, m)]
      BY <1>1, <2>1 DEF View
    <3>5. \A m \in 0..f.size["M"] - 1 : row(g, m) = row(f, m)
      BY <3>1
    <3> HIDE DEF row
    <3>3. [m \in 0..f.size["M"] - 1 |-> row(g, m)] = [m \in 0..f.size["M"] - 1 |-> row(f, m)]
      BY <3>5
    <3>4. QED
      BY <3>2, <3>3
  <2>2. CASE ~Rated(f.type)
    BY <1>1, <2>2 DEF View
  <2>3. QED
    BY <2>1, <2>2
<1>5. View(g).positions = View(f).positions
  <2> DEFINE seen(h, p) == IF h.posM[p] # <<>> THEN h.posM[p] ELSE SavedPositions(h, p)
  <2>1. \A p \in Positions : seen(g, p) = seen(f, p)
    BY <1>1
  <2>2. /\ View(g).positions = [p \in Positions |-> seen(g, p)]
        /\ View(f).positions = [p \in Positions |-> seen(f, p)]
    BY DEF View
  <2> HIDE DEF seen
  <2>3. QED
    BY <2>1, <2>2
<1>6. View(g).orientations = View(f).orientations
  <2> DEFINE seen(h, o) == IF h.all[o] # <<>> THEN h.all[o] ELSE <<SavedVector(h, o)>>
  <2>1. \A o \in Orientations : seen(g, o) = seen(f, o)
    BY <1>1
  <2>2. /\ View(g).orientations = [o \in Orientations |-> seen(g, o)]
        /\ View(f).orientations = [o \in Orientations |-> seen(f, o)]
    BY DEF View
  <2> HIDE DEF seen
  <2>3. QED
    BY <2>1, <2>2
<1>7. \A h : View(h) = [size |-> View(h).size, type |-> View(h).type, audio |-> View(h).audio,
                        freqs |-> View(h).freqs, rate |-> View(h).rate, delay |-> View(h).delay,
                        positions |-> View(h).positions, orientations |-> View(h).orientations]
  BY DEF View
<1>8. View(g) = View(f)
  BY <1>2, <1>3, <1>4, <1>5, <1>6, <1>7
<1>9. QED
  BY <1>8 DEF g

\* Saving again writes the same variables and scales.
LEMMA WrittenAgain ==
  ASSUME NEW f, FileOK(f), Consistent(f)
  PROVE  Stored(Opened(Stored(f))) = Stored(f)
<1> DEFINE g == Opened(Stored(f))
<1>1. /\ g.size = f.size /\ g.type = f.type /\ g.audio = f.audio /\ g.freqs = f.freqs
      /\ Rated(f.type) => /\ g.rate = f.rate
                          /\ g.delay = WrittenDelay(f).data
                          /\ g.delayLayout = WrittenDelay(f).layout
      /\ \A p \in Positions :
           /\ g.posM[p] = f.posM[p]
           /\ f.posM[p] = <<>> => SavedPositions(g, p) = SavedPositions(f, p)
      /\ \A o \in Orientations :
           /\ g.all[o] = f.all[o]
           /\ f.all[o] = <<>> => SavedVector(g, o) = SavedVector(f, o)
  BY FieldsKept
<1> HIDE DEF g
<1>2. ASSUME NEW d \in Sizes PROVE WrittenScale(g, d) = WrittenScale(f, d)
  BY <1>1 DEF WrittenScale
<1>3. ASSUME NEW v \in VariablesOf(f.type) PROVE Written(g, v) = Written(f, v)
  <2>1. CASE v = "Data"
    <3>1. WrittenAudio(g) = WrittenAudio(f)
      BY <1>1 DEF WrittenAudio
    <3>2. QED
      BY <2>1, <3>1 DEF Written
  <2>2. CASE v = "Data.SamplingRate" /\ Rated(f.type)
    BY <1>1, <2>2 DEF Written
  <2>3. CASE v = "Data.Delay" /\ Rated(f.type)
    <3>1. /\ g.size = f.size /\ g.delay = WrittenDelay(f).data
          /\ g.delayLayout = WrittenDelay(f).layout /\ AudioShaped(f)
      BY <1>1, <2>3 DEF Consistent
    <3>2. DelayAxes(g) = WrittenDelay(f).layout
      BY <2>3, <3>1, DelayKept
    <3>3. WrittenDelay(f).layout \in {<<"I", "R">>, <<"M", "R">>} /\ WrittenDelay(f).data # <<>>
      BY <2>3, <3>1, DelayWritten
    <3>4. Len(WrittenDelay(f).layout) = 2
      BY <3>3
    <3>5. WrittenDelay(g) = [layout |-> WrittenDelay(f).layout, data |-> WrittenDelay(f).data]
      BY <3>1, <3>2, <3>3, <3>4 DEF WrittenDelay
    <3>6. WrittenDelay(f) = [layout |-> WrittenDelay(f).layout, data |-> WrittenDelay(f).data]
      BY DEF WrittenDelay
    <3>7. QED
      BY <2>3, <3>5, <3>6 DEF Written
  <2>4. CASE v \in Positions
    <3>1. WrittenPosition(g, v) = WrittenPosition(f, v)
      BY <1>1, <2>4 DEF WrittenPosition
    <3>2. v \notin {"Data", "Data.SamplingRate", "Data.Delay"}
      BY <2>4 DEF Positions
    <3>3. QED
      BY <2>4, <3>1, <3>2 DEF Written
  <2>5. CASE v \in Orientations
    <3>1. WrittenOrientation(g, v) = WrittenOrientation(f, v)
      BY <1>1, <2>5 DEF WrittenOrientation
    <3>2. v \notin {"Data", "Data.SamplingRate", "Data.Delay"} /\ v \notin Positions
      BY <2>5 DEF Positions, Orientations
    <3>3. QED
      BY <3>1, <3>2 DEF Written
  <2>6. QED
    BY <2>1, <2>2, <2>3, <2>4, <2>5 DEF VariablesOf
<1>4. [d \in Sizes |-> WrittenScale(g, d)] = [d \in Sizes |-> WrittenScale(f, d)]
  BY <1>2
<1> DEFINE vars_(h) == [v \in VariablesOf(f.type) |->
                          [labels |-> Written(h, v).layout, shape |-> Shape(f.size, Written(h, v).layout),
                           data |-> Written(h, v).data]]
<1>5. vars_(g) = vars_(f)
  BY <1>3
<1>6. /\ Stored(g) = [type |-> f.type, scales |-> [d \in Sizes |-> WrittenScale(g, d)], vars |-> vars_(g)]
      /\ Stored(f) = [type |-> f.type, scales |-> [d \in Sizes |-> WrittenScale(f, d)], vars |-> vars_(f)]
  BY <1>1 DEF Stored
<1> HIDE DEF vars_
<1>7. Stored(g) = Stored(f)
  BY <1>4, <1>5, <1>6
<1>8. QED
  BY <1>7 DEF g

-----------------------------------------------------------------------------
(* The invariant.                                                          *)

\* Numbered values are values.
LEMMA NumberedType ==
  ASSUME NEW n \in Nat
  PROVE  Numbered(n) \in Seq(Nat) /\ Len(Numbered(n)) = n
BY DEF Numbered

\* Rows are vectors.
LEMMA RowsType ==
  ASSUME NEW n \in Nat
  PROVE  Rows(n) \in Seq(Vector) /\ Len(Rows(n)) = n
<1>1. \A i \in 1..n : <<3 * i + 1, 3 * i + 2, 3 * i + 3>> \in Vector
  BY DEF Vector
<1>2. Rows(n) \in [1..n -> Vector]
  BY <1>1 DEF Rows
<1>3. QED
  BY <1>2

\* The sizes of a shape.
LEMMA SizeOfType ==
  ASSUME NEW s \in Shapes
  PROVE  SizeOf(s) \in [Sizes -> 1..MaxElements]
<1>1. s[1] \in 1..MaxElements /\ s[2] \in 1..MaxElements /\ s[3] \in 1..MaxElements
      /\ s[4] \in 1..MaxElements
  BY ShapesGiven
<1>2. \A d \in Sizes : (CASE d = "M" -> 1 [] d = "R" -> 2 [] d = "E" -> 3 [] d = "N" -> 4) \in 1..4
  BY DEF Sizes
<1>3. \A i \in 1..4 : s[i] \in 1..MaxElements
  BY <1>1
<1>4. QED
  BY <1>2, <1>3 DEF SizeOf

\* A shape is a sequence of sizes.
LEMMA ShapeType ==
  ASSUME NEW size, size \in [Sizes -> Nat], NEW T, NEW l \in Seq(T)
  PROVE  Shape(size, l) \in Seq(Nat) /\ Len(Shape(size, l)) = Len(l)
<1>1. \A d : AxisSize(size, d) \in Nat
  BY DEF AxisSize
<1>2. Len(l) \in Nat /\ Shape(size, l) = [i \in 1..Len(l) |-> AxisSize(size, l[i])]
  BY DEF Shape
<1>3. Shape(size, l) \in [1..Len(l) -> Nat]
  BY <1>1, <1>2
<1>4. QED
  BY <1>2, <1>3

\* Audio data and frequencies made for given sizes.
LEMMA AudioType ==
  ASSUME NEW size \in [Sizes -> 1..MaxElements], NEW type
  PROVE  /\ Audio(size, type) \in [shape : Seq(Nat), data : Seq(Nat)]
         /\ Len(Audio(size, type).data) = Count(Audio(size, type).shape)
         /\ Frequencies(size, type) \in Seq(Nat)
         /\ Rated(type) => Frequencies(size, type) = <<>>
<1> DEFINE shape == Shape(size, MemoryLayout(type))
<1>1. size \in [Sizes -> Nat]
  BY LimitGiven
<1>2. MemoryLayout(type) \in Seq(Sizes)
  <2>1. \A T : \A a, b, c, d \in T : <<a, b, c>> \in Seq(T) /\ <<a, b, c, d>> \in Seq(T)
    OBVIOUS
  <2>2. "M" \in Sizes /\ "R" \in Sizes /\ "E" \in Sizes /\ "N" \in Sizes
    BY DEF Sizes
  <2>3. QED
    BY <2>1, <2>2 DEF MemoryLayout, MRN, MREN
<1>3. shape \in Seq(Nat) /\ Count(shape) \in Nat
  BY <1>1, <1>2, ShapeType, CountType
<1> HIDE DEF shape
<1>4. Numbered(Count(shape)) \in Seq(Nat) /\ Len(Numbered(Count(shape))) = Count(shape)
  BY <1>3, NumberedType
<1>5. Audio(size, type) = [shape |-> shape, data |-> Numbered(Count(shape))]
  BY DEF Audio, shape
<1>6. Frequencies(size, type) \in Seq(Nat)
  <2>1. size["N"] \in Nat
    BY <1>1 DEF Sizes
  <2> DEFINE n == size["N"]
  <2>2. \A i \in 1..n : 7 + i \in Nat
    OBVIOUS
  <2> HIDE DEF n
  <2>3. [i \in 1..n |-> 7 + i] \in Seq(Nat)
    BY <2>1, <2>2 DEF n
  <2>4. QED
    BY <2>3 DEF Frequencies, n
<1>7. Rated(type) => Frequencies(size, type) = <<>>
  BY DEF Frequencies
<1>8. QED
  BY <1>3, <1>4, <1>5, <1>6, <1>7

\* A File newly made is sound.
LEMMA FreshOK ==
  ASSUME NEW s \in Shapes, NEW type \in Types
  PROVE  FileOK(Fresh(SizeOf(s), type))
<1> DEFINE size == SizeOf(s)
           f == Fresh(size, type)
<1>1. size \in [Sizes -> 1..MaxElements]
  BY SizeOfType
<1> HIDE DEF size
<1>2. /\ Audio(size, type) \in [shape : Seq(Nat), data : Seq(Nat)]
      /\ Len(Audio(size, type).data) = Count(Audio(size, type).shape)
      /\ Frequencies(size, type) \in Seq(Nat)
      /\ Rated(type) => Frequencies(size, type) = <<>>
  BY <1>1, AudioType
<1>3. (IF Rated(type) THEN <<5>> ELSE <<>>) \in Seq(Nat) /\ <<>> \in Seq(Nat)
  OBVIOUS
<1>4. [p \in Positions |-> Rows(IF p \in {"SourcePosition", "ReceiverPosition"} THEN 1 ELSE 0)]
        \in [Positions -> Seq(Vector)]
  <2>1. Rows(1) \in Seq(Vector) /\ Rows(0) \in Seq(Vector)
    BY RowsType
  <2>2. QED
    BY <2>1
<1>5. /\ [p \in Positions |-> <<>>] \in [Positions -> Seq(Seq(Vector))]
      /\ [o \in Orientations |-> <<>>] \in [Orientations -> Seq(Vector)]
      /\ [o \in Orientations |-> Origin] \in [Orientations -> Vector]
  <2>1. Origin \in Vector /\ <<>> \in Seq(Vector) /\ <<>> \in Seq(Seq(Vector))
    BY DEF Origin, Vector
  <2>2. QED
    BY <2>1
<1>6. /\ f.type = type /\ f.audio = Audio(size, type) /\ f.freqs = Frequencies(size, type)
      /\ f.posM = [p \in Positions |-> <<>>]
  BY DEF Fresh
<1>7. f \in [size : [Sizes -> 1..MaxElements], type : Types,
            audio : [shape : Seq(Nat), data : Seq(Nat)], freqs : Seq(Nat), rate : Seq(Nat),
            delay : Seq(Nat), delayLayout : {NoLayout} \cup Range(Layouts("FIR", "Data.Delay")),
            pos : [Positions -> Seq(Vector)], posM : [Positions -> Seq(Seq(Vector))],
            one : [Orientations -> Vector], all : [Orientations -> Seq(Vector)]]
  BY <1>1, <1>2, <1>3, <1>4, <1>5 DEF Fresh
<1> HIDE DEF f
<1>8. FileOK(f)
  BY <1>2, <1>6, <1>7 DEF FileOK
<1>9. QED
  BY <1>8 DEF f, size

\* Edits keep what the fields may hold.
LEMMA SizesReplaced ==
  ASSUME NEW f, FileOK(f), NEW size \in [Sizes -> 1..MaxElements]
  PROVE  FileOK([f EXCEPT !.size = size, !.audio = Audio(size, f.type),
                          !.freqs = Frequencies(size, f.type)])
<1>1. /\ Audio(size, f.type) \in [shape : Seq(Nat), data : Seq(Nat)]
      /\ Len(Audio(size, f.type).data) = Count(Audio(size, f.type).shape)
      /\ Frequencies(size, f.type) \in Seq(Nat)
      /\ Rated(f.type) => Frequencies(size, f.type) = <<>>
  BY AudioType
<1>2. QED
  BY <1>1 DEF FileOK

\* A delay, or a sampling rate, is set.
LEMMA DelayReplaced ==
  ASSUME NEW f, FileOK(f), NEW d \in Seq(Nat)
  PROVE  FileOK([f EXCEPT !.delay = d]) /\ FileOK([f EXCEPT !.rate = d])
BY DEF FileOK

\* Positions are set.
LEMMA PositionsReplaced ==
  ASSUME NEW f, FileOK(f), NEW p \in Positions, NEW vs \in Seq(Vector)
  PROVE  FileOK([f EXCEPT !.pos[p] = vs])
<1>1. [f.pos EXCEPT ![p] = vs] \in [Positions -> Seq(Vector)]
  BY FileFields
<1>2. FileOK([f EXCEPT !.pos = [f.pos EXCEPT ![p] = vs]])
  BY <1>1 DEF FileOK
<1>3. [f EXCEPT !.pos[p] = vs] = [f EXCEPT !.pos = [f.pos EXCEPT ![p] = vs]]
  OBVIOUS
<1>4. QED
  BY <1>2, <1>3

\* Positions for each measurement are set.
LEMMA PerMReplaced ==
  ASSUME NEW f, FileOK(f), NEW p \in {"ReceiverPosition", "EmitterPosition"},
         NEW q \in Seq(Seq(Vector))
  PROVE  FileOK([f EXCEPT !.posM[p] = q])
<1> DEFINE posM == [f.posM EXCEPT ![p] = q]
           g == [f EXCEPT !.posM = posM]
<1>1. p \in Positions /\ ObjectDim(p) # "M"
  BY DEF Positions, ObjectDim
<1>2. posM \in [Positions -> Seq(Seq(Vector))]
  BY <1>1, FileFields
<1>3. \A x \in Positions : posM[x] # <<>> => ObjectDim(x) # "M"
  BY <1>1, FileFields
<1>4. [f EXCEPT !.posM[p] = q] = g
  OBVIOUS
<1> HIDE DEF posM
<1>5. FileOK(g)
  BY <1>2, <1>3 DEF FileOK
<1>6. QED
  BY <1>4, <1>5

\* An orientation is set.
LEMMA OrientationReplaced ==
  ASSUME NEW f, FileOK(f), NEW o \in Orientations, NEW vs \in Seq(Vector), NEW v \in Vector
  PROVE  FileOK([f EXCEPT !.all[o] = vs, !.one[o] = v])
<1> DEFINE all == [f.all EXCEPT ![o] = vs]
           one == [f.one EXCEPT ![o] = v]
           g == [f EXCEPT !.all = all, !.one = one]
<1>1. all \in [Orientations -> Seq(Vector)] /\ one \in [Orientations -> Vector]
  BY FileFields
<1>2. [f EXCEPT !.all[o] = vs, !.one[o] = v] = g
  BY DEF FileOK
<1> HIDE DEF all, one
<1>3. FileOK(g)
  BY <1>1 DEF FileOK
<1>4. QED
  BY <1>2, <1>3

\* What Save writes may be in a file.
LEMMA StoredOK ==
  ASSUME NEW f, FileOK(f), Consistent(f)
  PROVE  DiskOK(Stored(f))
<1> DEFINE d == Stored(f)
<1>1. d = [type |-> d.type, scales |-> d.scales, vars |-> [v \in DOMAIN d.vars |-> d.vars[v]]]
  BY DEF Stored
<1>2. d.type \in Types /\ DOMAIN d.vars = VariablesOf(d.type) /\ d.type = f.type
  BY FileFields, StoredVars
<1>3. d.scales \in [Sizes -> [name : {"size", "label", "none"}, n : Nat, data : Seq(Nat)]]
  <2>1. ASSUME NEW s \in Sizes
        PROVE  WrittenScale(f, s) \in [name : {"size", "label", "none"}, n : Nat, data : Seq(Nat)]
    <3> DEFINE n == f.size[s]
    <3>1. f.freqs \in Seq(Nat) /\ n \in Nat
      BY FileFields DEF Sized
    <3>2. [i \in 1..n |-> 0] \in Seq(Nat)
      <4> HIDE DEF n
      <4>1. QED
        BY <3>1
    <3>3. QED
      BY <3>1, <3>2 DEF WrittenScale
  <2>2. d.scales = [s \in Sizes |-> WrittenScale(f, s)]
    BY StoredVars
  <2> HIDE DEF d
  <2>3. QED
    BY <2>1, <2>2
<1>4. ASSUME NEW v \in VariablesOf(f.type)
      PROVE  /\ d.vars[v] \in [labels : Seq(AxisLabels), shape : Seq(Nat), data : Seq(Nat)]
             /\ Len(d.vars[v].labels) = Len(d.vars[v].shape)
             /\ Len(d.vars[v].data) = Count(d.vars[v].shape)
  <2> DEFINE w == Written(f, v)
  <2>1. v \in Variables /\ Fits(f.size, f.type, v, w)
    BY WrittenFits
  <2>2. IsLayout(w.layout)
    BY <2>1, LayoutsWell DEF Fits
  <2>3. w.layout \in Seq(AxisLabels)
    <3>1. Labels \subseteq AxisLabels
      BY DEF Labels, AxisLabels
    <3>2. QED
      BY <2>2, <3>1, SeqMonotonic DEF IsLayout
  <2>4. Shape(f.size, w.layout) \in Seq(Nat) /\ Len(Shape(f.size, w.layout)) = Len(w.layout)
    <3>1. f.size \in [Sizes -> Nat]
      BY FileFields DEF Sized
    <3> HIDE DEF w
    <3>2. QED
      BY <2>3, <3>1, ShapeType
  <2>5. d.vars[v] = [labels |-> w.layout, shape |-> Shape(f.size, w.layout), data |-> w.data]
    BY DEF Stored
  <2> HIDE DEF d, w
  <2>6. QED
    BY <2>1, <2>3, <2>4, <2>5 DEF Fits
<1> HIDE DEF d
<1>5. DiskOK(d)
  BY <1>1, <1>2, <1>3, <1>4 DEF DiskOK
<1>6. QED
  BY <1>5 DEF d

\* Another program's files, one change at a time.
Variable(var) ==
  /\ var \in [labels : Seq(AxisLabels), shape : Seq(Nat), data : Seq(Nat)]
  /\ Len(var.labels) = Len(var.shape)
  /\ Len(var.data) = Count(var.shape)

\* A sound file at the path, part by part.
LEMMA DiskFields ==
  ASSUME NEW d, DiskOK(d)
  PROVE  /\ d = [type |-> d.type, scales |-> d.scales, vars |-> d.vars]
         /\ d.vars = [v \in DOMAIN d.vars |-> d.vars[v]]
         /\ d.type \in Types /\ d.type \in {"FIR", "TF", "TFE", "SOS"}
         /\ d.scales \in [Sizes -> [name : {"size", "label", "none"}, n : Nat, data : Seq(Nat)]]
         /\ DOMAIN d.vars \subseteq VariablesOf(d.type)
         /\ \A v \in DOMAIN d.vars : Variable(d.vars[v])
<1>1. d = [type |-> d.type, scales |-> d.scales, vars |-> [v \in DOMAIN d.vars |-> d.vars[v]]]
  BY DEF DiskOK
<1>2. d.vars = [v \in DOMAIN d.vars |-> d.vars[v]]
  BY <1>1
<1>3. d.type \in Types /\ d.type \in {"FIR", "TF", "TFE", "SOS"}
  BY TypesGiven DEF DiskOK
<1>4. /\ d.scales \in [Sizes -> [name : {"size", "label", "none"}, n : Nat, data : Seq(Nat)]]
      /\ DOMAIN d.vars \subseteq VariablesOf(d.type)
      /\ \A v \in DOMAIN d.vars : Variable(d.vars[v])
  BY DEF DiskOK, Variable
<1>5. QED
  BY <1>1, <1>2, <1>3, <1>4

\* It is sound when its parts are.
LEMMA DiskMade ==
  ASSUME NEW type \in Types,
         NEW scales \in [Sizes -> [name : {"size", "label", "none"}, n : Nat, data : Seq(Nat)]],
         NEW vs, vs = [v \in DOMAIN vs |-> vs[v]], DOMAIN vs \subseteq VariablesOf(type),
         \A v \in DOMAIN vs : Variable(vs[v])
  PROVE  DiskOK([type |-> type, scales |-> scales, vars |-> vs])
BY DEF DiskOK, Variable

\* Sizes that are read are numbers.
LEMMA ReadSizesType ==
  ASSUME NEW d, DiskOK(d)
  PROVE  ReadSizes(d) \in [Sizes -> Nat]
<1>1. ASSUME NEW scale \in [name : {"size", "label", "none"}, n : Nat, data : Seq(Nat)]
      PROVE  ReadDimension(scale) \in Nat
  <2>1. scale.n \in Nat /\ scale.data \in Seq(Nat) /\ Len(scale.data) \in Nat
    OBVIOUS
  <2>2. Len(scale.data) = 1 => scale.data[1] \in Nat
    BY <2>1
  <2>3. QED
    BY <2>1, <2>2 DEF ReadDimension
<1>2. \A s \in Sizes : d.scales[s] \in [name : {"size", "label", "none"}, n : Nat, data : Seq(Nat)]
  BY DiskFields
<1>3. \A s \in Sizes : ReadDimension(d.scales[s]) \in Nat
  BY <1>1, <1>2
<1>4. QED
  BY <1>3 DEF ReadSizes

\* A variable stored in some layout fills it.
LEMMA StoredAsOK ==
  ASSUME NEW size \in [Sizes -> Nat], NEW l, IsLayout(l)
  PROVE  Variable(StoredAs(l, size))
<1> DEFINE shape == Shape(size, l)
<1>1. l \in Seq(AxisLabels)
  <2>1. Labels \subseteq AxisLabels
    BY DEF Labels, AxisLabels
  <2>2. QED
    BY <2>1, SeqMonotonic DEF IsLayout
<1>2. shape \in Seq(Nat) /\ Len(shape) = Len(l)
  BY <1>1, ShapeType
<1> HIDE DEF shape
<1>3. Count(shape) \in Nat
  BY <1>2, CountType
<1>4. Numbered(Count(shape)) \in Seq(Nat) /\ Len(Numbered(Count(shape))) = Count(shape)
  BY <1>3, NumberedType
<1>5. StoredAs(l, size) = [labels |-> l, shape |-> shape, data |-> Numbered(Count(shape))]
  BY DEF StoredAs, shape
<1>6. QED
  BY <1>1, <1>2, <1>4, <1>5 DEF Variable

\* One variable is replaced by another.
LEMMA VariableReplaced ==
  ASSUME NEW d, DiskOK(d), NEW v, NEW var, Variable(var)
  PROVE  DiskOK([d EXCEPT !.vars[v] = var])
<1> DEFINE vs == [d.vars EXCEPT ![v] = var]
<1>1. /\ d = [type |-> d.type, scales |-> d.scales, vars |-> d.vars]
      /\ d.type \in Types
      /\ d.scales \in [Sizes -> [name : {"size", "label", "none"}, n : Nat, data : Seq(Nat)]]
      /\ DOMAIN d.vars \subseteq VariablesOf(d.type)
      /\ \A x \in DOMAIN d.vars : Variable(d.vars[x])
  BY DiskFields
<1>2. /\ DOMAIN vs = DOMAIN d.vars /\ vs = [x \in DOMAIN vs |-> vs[x]]
      /\ \A x \in DOMAIN vs : vs[x] = IF x = v THEN var ELSE d.vars[x]
  OBVIOUS
<1>3. [d EXCEPT !.vars[v] = var] = [d EXCEPT !.vars = vs]
  OBVIOUS
<1> HIDE DEF vs
<1>7. [d EXCEPT !.vars = vs] = [type |-> d.type, scales |-> d.scales, vars |-> vs]
  BY <1>1
<1>4. \A x \in DOMAIN vs : Variable(vs[x])
  BY <1>1, <1>2
<1>5. DiskOK([type |-> d.type, scales |-> d.scales, vars |-> vs])
  BY <1>1, <1>2, <1>4, DiskMade
<1>6. QED
  BY <1>3, <1>5, <1>7

\* Some or all of the labels are missing.
LEMMA LabelledOK ==
  ASSUME NEW d, DiskOK(d), NEW how
  PROVE  DiskOK(Labelled(d, how))
<1> DEFINE relabelled(l) == IF how = "all" THEN l
                            ELSE IF how = "last" THEN [l EXCEPT ![Len(l)] = Unlabelled]
                            ELSE [i \in DOMAIN l |-> Unlabelled]
           vs == [v \in DOMAIN d.vars |-> [d.vars[v] EXCEPT !.labels = relabelled(d.vars[v].labels)]]
<1>1. /\ d = [type |-> d.type, scales |-> d.scales, vars |-> d.vars]
      /\ d.type \in Types
      /\ d.scales \in [Sizes -> [name : {"size", "label", "none"}, n : Nat, data : Seq(Nat)]]
      /\ DOMAIN d.vars \subseteq VariablesOf(d.type)
      /\ \A x \in DOMAIN d.vars : Variable(d.vars[x])
  BY DiskFields
<1>2. ASSUME NEW l \in Seq(AxisLabels)
      PROVE  relabelled(l) \in Seq(AxisLabels) /\ Len(relabelled(l)) = Len(l)
  <2>1. Unlabelled \in AxisLabels /\ Len(l) \in Nat /\ l \in [1..Len(l) -> AxisLabels]
    BY DEF AxisLabels
  <2>2. /\ [l EXCEPT ![Len(l)] = Unlabelled] \in [1..Len(l) -> AxisLabels]
        /\ [i \in DOMAIN l |-> Unlabelled] \in [1..Len(l) -> AxisLabels]
    BY <2>1
  <2>3. \A t \in [1..Len(l) -> AxisLabels] : t \in Seq(AxisLabels) /\ Len(t) = Len(l)
    <3> DEFINE n == Len(l)
    <3>1. n \in Nat
      BY <2>1
    <3> HIDE DEF n
    <3>2. \A t \in [1..n -> AxisLabels] : t \in Seq(AxisLabels) /\ Len(t) = n
      BY <3>1
    <3>3. QED
      BY <3>2 DEF n
  <2>4. QED
    BY <2>1, <2>2, <2>3
<1> HIDE DEF relabelled
<1>3. ASSUME NEW v \in DOMAIN d.vars PROVE Variable(vs[v])
  <2> DEFINE var == d.vars[v]
             l == relabelled(var.labels)
  <2>1. Variable(var)
    BY <1>1
  <2>2. l \in Seq(AxisLabels) /\ Len(l) = Len(var.labels)
    BY <1>2, <2>1 DEF Variable
  <2>3. vs[v] = [var EXCEPT !.labels = l]
    OBVIOUS
  <2> HIDE DEF var, l
  <2>4. Variable([var EXCEPT !.labels = l])
    BY <2>1, <2>2 DEF Variable
  <2>5. QED
    BY <2>3, <2>4
<1>4. Labelled(d, how) = [d EXCEPT !.vars = vs]
  BY DEF Labelled, relabelled
<1>5. DOMAIN vs = DOMAIN d.vars /\ vs = [x \in DOMAIN vs |-> vs[x]]
  OBVIOUS
<1> HIDE DEF vs
<1>6. [d EXCEPT !.vars = vs] = [type |-> d.type, scales |-> d.scales, vars |-> vs]
  BY <1>1
<1>7. DiskOK([type |-> d.type, scales |-> d.scales, vars |-> vs])
  BY <1>1, <1>3, <1>5, DiskMade
<1>8. QED
  BY <1>4, <1>6, <1>7

\* A scale gives its size in another way.
LEMMA ScaledOK ==
  ASSUME NEW d, DiskOK(d), NEW s \in Sizes, NEW form
  PROVE  DiskOK(Scaled(d, s, form))
<1> DEFINE Scale == [name : {"size", "label", "none"}, n : Nat, data : Seq(Nat)]
           old == d.scales[s]
           new == IF form = "unlimited" THEN [old EXCEPT !.n = 0]
                                        ELSE [name |-> "none", n |-> 0, data |-> <<old.n>>]
           scales == [d.scales EXCEPT ![s] = new]
<1>1. /\ d = [type |-> d.type, scales |-> d.scales, vars |-> d.vars]
      /\ d.type \in Types /\ d.scales \in [Sizes -> Scale]
      /\ DOMAIN d.vars \subseteq VariablesOf(d.type)
      /\ d.vars = [v \in DOMAIN d.vars |-> d.vars[v]]
      /\ \A x \in DOMAIN d.vars : Variable(d.vars[x])
  BY DiskFields
<1>2. new \in Scale
  <2>1. old \in Scale
    BY <1>1
  <2>2. <<old.n>> \in Seq(Nat)
    BY <2>1
  <2> HIDE DEF old
  <2>3. QED
    BY <2>1, <2>2
<1>3. scales \in [Sizes -> Scale]
  <2> HIDE DEF new, Scale
  <2>1. QED
    BY <1>1, <1>2
<1>4. Scaled(d, s, form) = [d EXCEPT !.scales = scales]
  BY DEF Scaled
<1> HIDE DEF scales
<1>7. [d EXCEPT !.scales = scales] = [type |-> d.type, scales |-> scales, vars |-> d.vars]
  BY <1>1
<1>5. DiskOK([type |-> d.type, scales |-> scales, vars |-> d.vars])
  BY <1>1, <1>3, DiskMade
<1>6. QED
  BY <1>4, <1>5, <1>7

\* A variable is missing.
LEMMA WithoutOK ==
  ASSUME NEW d, DiskOK(d)
  PROVE  DiskOK(WithoutEmitter(d))
<1> DEFINE vs == [v \in DOMAIN d.vars \ {"EmitterPosition"} |-> d.vars[v]]
<1>1. /\ d = [type |-> d.type, scales |-> d.scales, vars |-> d.vars]
      /\ d.type \in Types
      /\ d.scales \in [Sizes -> [name : {"size", "label", "none"}, n : Nat, data : Seq(Nat)]]
      /\ DOMAIN d.vars \subseteq VariablesOf(d.type)
      /\ \A x \in DOMAIN d.vars : Variable(d.vars[x])
  BY DiskFields
<1>2. /\ DOMAIN vs \subseteq DOMAIN d.vars /\ vs = [x \in DOMAIN vs |-> vs[x]]
      /\ \A x \in DOMAIN vs : vs[x] = d.vars[x]
  OBVIOUS
<1>3. WithoutEmitter(d) = [d EXCEPT !.vars = vs]
  BY DEF WithoutEmitter
<1> HIDE DEF vs
<1>4. [d EXCEPT !.vars = vs] = [type |-> d.type, scales |-> d.scales, vars |-> vs]
  BY <1>1
<1>5. DiskOK([type |-> d.type, scales |-> d.scales, vars |-> vs])
  BY <1>1, <1>2, DiskMade
<1>6. QED
  BY <1>3, <1>4, <1>5

\* A File newly made has lengths that fit, so Save could write it.
LEMMA FreshConsistent ==
  ASSUME NEW s \in Shapes, NEW type \in Types
  PROVE  Consistent(Fresh(SizeOf(s), type))
<1> DEFINE size == SizeOf(s)
           f == Fresh(size, type)
<1>1. size \in [Sizes -> 1..MaxElements] /\ size["N"] \in Nat
  BY SizeOfType, LimitGiven DEF Sizes
<1> HIDE DEF size
<1>2. /\ f.size = size /\ f.type = type /\ f.delay = <<>>
      /\ f.audio = Audio(size, type) /\ f.freqs = Frequencies(size, type)
      /\ f.rate = IF Rated(type) THEN <<5>> ELSE <<>>
      /\ \A p \in Positions :
           /\ f.posM[p] = <<>>
           /\ f.pos[p] = Rows(IF p \in {"SourcePosition", "ReceiverPosition"} THEN 1 ELSE 0)
      /\ \A o \in Orientations : f.all[o] = <<>>
  BY DEF Fresh
<1> HIDE DEF f
<1>3. AudioShaped(f)
  <2>1. Audio(size, type).shape = Shape(size, MemoryLayout(type))
    BY DEF Audio
  <2>2. ~Rated(type) => Len(Frequencies(size, type)) = size["N"]
    BY <1>1 DEF Frequencies
  <2>3. QED
    BY <1>2, <2>1, <2>2 DEF AudioShaped
<1>4. PositionCountsFit(f)
  <2>1. ASSUME NEW p \in Positions PROVE Len(SavedPositions(f, p)) = 1
    <3>1. Rows(0) \in Seq(Vector) /\ Len(Rows(0)) = 0 /\ Len(Rows(1)) = 1
      BY RowsType
    <3>2. Rows(0) = <<>> /\ Rows(1) # <<>>
      <4>1. Rows(1) \in Seq(Vector) /\ Len(Rows(1)) # 0
        BY <3>1, RowsType
      <4>2. QED
        BY <3>1, <4>1, EmptySeq
    <3>3. p \notin {"SourcePosition", "ReceiverPosition"}
            => p \in {"ListenerPosition", "EmitterPosition"}
      BY DEF Positions
    <3>4. QED
      BY <1>2, <3>1, <3>2, <3>3 DEF SavedPositions
  <2>2. QED
    BY <2>1 DEF PositionCountsFit
<1>5. PerMeasurementFits(f)
  BY <1>2 DEF PerMeasurementFits
<1>6. QED
  BY <1>3, <1>4, <1>5 DEF Consistent, f, size

\* The files other programs leave are sound.
LEMMA ForeignOK ==
  ASSUME NEW d \in ForeignFiles
  PROVE  DiskOK(d)
<1> DEFINE own == {Stored(f) : f \in FreshFiles}
           variants(b) == UNION {WithDelays(WithAudio(b, ReadSizes(b), l), ReadSizes(b)) :
                                   l \in Range(Layouts(b.type, "Data"))}
           varied == UNION {variants(b) : b \in own}
           plain == own \cup {WithoutEmitter(b) : b \in own}
<1>1. \A b \in own : DiskOK(b)
  <2>1. ASSUME NEW f \in FreshFiles PROVE DiskOK(Stored(f))
    <3>1. PICK s \in Shapes, type \in Types : f = Fresh(SizeOf(s), type)
      BY DEF FreshFiles
    <3>2. FileOK(f) /\ Consistent(f)
      BY <3>1, FreshOK, FreshConsistent
    <3>3. QED
      BY <3>2, StoredOK
  <2>2. QED
    BY <2>1
<1>2. ASSUME NEW b, DiskOK(b), NEW c \in variants(b) PROVE DiskOK(c)
  <2> DEFINE size == ReadSizes(b)
  <2>1. PICK l \in Range(Layouts(b.type, "Data")) : c \in WithDelays(WithAudio(b, size, l), size)
    BY <1>2
  <2>2. size \in [Sizes -> Nat]
    BY <1>2, ReadSizesType
  <2> HIDE DEF size
  <2> DEFINE a == WithAudio(b, size, l)
  <2>3. DiskOK(a)
    <3>1. IsLayout(l)
      BY LayoutsWell DEF Variables
    <3>2. Variable(StoredAs(l, size))
      BY <2>2, <3>1, StoredAsOK
    <3>3. DiskOK([b EXCEPT !.vars["Data"] = StoredAs(l, size)])
      BY <1>2, <3>2, VariableReplaced
    <3>4. QED
      BY <3>3 DEF WithAudio
  <2> HIDE DEF a
  <2>4. c = a \/ \E delay \in {StoredAs(k, size) : k \in Range(Layouts(a.type, "Data.Delay"))}
                                 \cup {FlatDelay(size)} :
                   c = [a EXCEPT !.vars["Data.Delay"] = delay]
    <3>1. c \in WithDelays(a, size)
      BY <2>1 DEF a
    <3>2. QED
      BY <3>1 DEF WithDelays
  <2>5. Variable(FlatDelay(size))
    <3> DEFINE n == size["M"] * size["R"]
    <3>1. n \in Nat
      BY <2>2 DEF Sizes
    <3> HIDE DEF n
    <3>2. Numbered(n) \in Seq(Nat) /\ Len(Numbered(n)) = n
      BY <3>1, NumberedType
    <3>3. Count(<<n>>) = n
      BY <3>1, CountShort DEF Counts
    <3>4. <<Unlabelled>> \in Seq(AxisLabels) /\ <<n>> \in Seq(Nat) /\ Len(<<Unlabelled>>) = Len(<<n>>)
      BY <3>1 DEF AxisLabels
    <3>5. FlatDelay(size) = [labels |-> <<Unlabelled>>, shape |-> <<n>>, data |-> Numbered(n)]
      BY DEF FlatDelay, n
    <3>6. QED
      BY <3>2, <3>3, <3>4, <3>5 DEF Variable
  <2>6. \A k \in Range(Layouts(a.type, "Data.Delay")) : Variable(StoredAs(k, size))
    <3>1. \A k \in Range(Layouts(a.type, "Data.Delay")) : IsLayout(k)
      BY LayoutsWell DEF Variables
    <3>2. QED
      BY <2>2, <3>1, StoredAsOK
  <2>7. QED
    BY <2>3, <2>4, <2>5, <2>6, VariableReplaced
<1>3. ForeignFiles = {Labelled(c, how) : c \in varied, how \in {"all", "last", "none"}}
                       \cup {Scaled(c, s, form) : c \in plain, s \in {"M", "E"},
                                                   form \in {"unlimited", "scalar"}}
  BY DEF ForeignFiles
<1>4. \A c \in varied : DiskOK(c)
  <2>1. ASSUME NEW c \in varied PROVE DiskOK(c)
    <3>1. PICK b \in own : c \in variants(b)
      BY <2>1
    <3> HIDE DEF own, variants
    <3>2. QED
      BY <1>1, <1>2, <3>1
  <2>2. QED
    BY <2>1
<1>5. \A c \in plain : DiskOK(c)
  <2> HIDE DEF own
  <2>1. QED
    BY <1>1, WithoutOK
<1> HIDE DEF varied, plain, own, variants
<1>6. CASE d \in {Labelled(c, how) : c \in varied, how \in {"all", "last", "none"}}
  <2>1. PICK c \in varied, how \in {"all", "last", "none"} : d = Labelled(c, how)
    BY <1>6
  <2>2. QED
    BY <1>4, <2>1, LabelledOK
<1>7. CASE d \in {Scaled(c, s, form) : c \in plain, s \in {"M", "E"},
                                       form \in {"unlimited", "scalar"}}
  <2>1. PICK c \in plain, s \in {"M", "E"}, form \in {"unlimited", "scalar"} :
          d = Scaled(c, s, form)
    BY <1>7
  <2>2. s \in Sizes
    BY DEF Sizes
  <2>3. QED
    BY <1>5, <2>1, <2>2, ScaledOK
<1>8. QED
  BY <1>3, <1>6, <1>7

\* The audio variable Open found fills the nesting it is turned into.
LEMMA ReadAudioOK ==
  ASSUME NEW d, DiskOK(d), Readable(d)
  PROVE  LET audio == ReadAudio(d, ReadSizes(d))
         IN  /\ audio \in [shape : Seq(Nat), data : Seq(Nat)]
             /\ Len(audio.data) = Count(audio.shape)
<1> DEFINE size == ReadSizes(d)
           var == d.vars["Data"]
           l == ResolveLayout(size, d.type, "Data", var)
           mem == Shape(size, MemoryLayout(d.type))
           M == size["M"]
           R == size["R"]
           E == size["E"]
           N == size["N"]
<1>1. "Data" \in DOMAIN d.vars /\ l # NoLayout /\ \A s \in Sizes : size[s] \in 1..MaxElements
  BY DEF Readable, CheckDimension
<1>2. Variable(var)
  BY <1>1, DiskFields
<1>3. size \in [Sizes -> Nat]
  BY ReadSizesType
<1> HIDE DEF size
<1>4. Sized(size)
  BY <1>1, <1>3 DEF Sized
<1>5. M \in Nat \ {0} /\ R \in Nat \ {0} /\ E \in Nat \ {0} /\ N \in Nat \ {0}
  BY <1>4, AxisSizes
<1>6. l \in Range(Layouts(d.type, "Data")) /\ LayoutFits(size, var, l)
  BY <1>1, Resolved DEF Variables
<1>7. l \in (IF d.type = "TFE" THEN {MRNE, MREN} ELSE {MRN})
  BY <1>6, LayoutsAre
<1>8. ReadAudio(d, size) = [shape |-> mem, data |-> IF l = MRNE THEN SwapLastAxes(var.data, N, E)
                                                    ELSE var.data]
  BY <1>1 DEF ReadAudio, Found
<1> HIDE DEF var, l
<1>9. var.shape = Shape(size, l)
  <2>1. Shape(size, MRN) # <<1>> /\ Shape(size, MRNE) # <<1>> /\ Shape(size, MREN) # <<1>>
    <3>1. \A a, b, c, e : <<a, b, c>> # <<1>> /\ <<a, b, c, e>> # <<1>>
      <4>1. \A a, b, c, e : Len(<<a, b, c>>) = 3 /\ Len(<<a, b, c, e>>) = 4 /\ Len(<<1>>) = 1
        OBVIOUS
      <4>2. QED
        BY <4>1
    <3>2. QED
      BY <3>1, ShapeShort DEF MRN, MRNE, MREN
  <2>2. QED
    BY <1>6, <1>7, <2>1 DEF LayoutFits
<1>10. var.data \in Seq(Nat) /\ Len(var.data) = Count(Shape(size, l))
  BY <1>2, <1>9 DEF Variable
<1>11. /\ Count(Shape(size, MRN)) = M * R * N
       /\ Count(Shape(size, MREN)) = (M * R) * (E * N)
       /\ Count(Shape(size, MRNE)) = (M * R) * (N * E)
  BY <1>4, LayoutCounts
<1>12. mem \in Seq(Nat)
  <2>1. \A T : \A a, b, c, e \in T : <<a, b, c>> \in Seq(T) /\ <<a, b, c, e>> \in Seq(T)
    OBVIOUS
  <2>2. "M" \in Sizes /\ "R" \in Sizes /\ "E" \in Sizes /\ "N" \in Sizes
    BY DEF Sizes
  <2>3. MemoryLayout(d.type) \in Seq(Sizes)
    BY <2>1, <2>2 DEF MemoryLayout, MRN, MREN
  <2>4. QED
    BY <1>3, <2>3, ShapeType
<1>13. mem = Shape(size, IF d.type = "TFE" THEN MREN ELSE MRN)
  BY DEF MemoryLayout
<1> HIDE DEF mem, M, R, E, N
<1>14. N * E = E * N /\ M * R \in Nat
  BY <1>5
<1>15. MRN # MRNE /\ MREN # MRNE
  BY DEF MRN, MREN, MRNE
<1>16. CASE l = MRNE
  <2>1. Grid(var.data, Nat, M * R, N, E)
    BY <1>10, <1>11, <1>16 DEF Grid
  <2>2. Grid(SwapLastAxes(var.data, N, E), Nat, M * R, E, N)
    BY <1>5, <1>14, <2>1, SwapType
  <2>3. mem = Shape(size, MREN)
    BY <1>7, <1>13, <1>15, <1>16
  <2>4. ReadAudio(d, size) = [shape |-> mem, data |-> SwapLastAxes(var.data, N, E)]
    BY <1>8, <1>16
  <2>5. Len(SwapLastAxes(var.data, N, E)) = Count(mem) /\ SwapLastAxes(var.data, N, E) \in Seq(Nat)
    BY <1>11, <2>2, <2>3 DEF Grid
  <2>6. QED
    BY <1>12, <2>4, <2>5 DEF size
<1>17. CASE l # MRNE
  <2>1. mem = Shape(size, l)
    BY <1>7, <1>13, <1>15, <1>17
  <2>2. ReadAudio(d, size) = [shape |-> mem, data |-> var.data]
    BY <1>8, <1>17
  <2>3. QED
    BY <1>10, <1>12, <2>1, <2>2 DEF size
<1>18. QED
  BY <1>16, <1>17

\* Open's fields from a file it can read.
LEMMA FoundData ==
  ASSUME NEW d, DiskOK(d), NEW size, NEW v
  PROVE  Found(d, size, v).data \in Seq(Nat)
<1>1. CASE v \in DOMAIN d.vars
  <2>1. Variable(d.vars[v])
    BY <1>1, DiskFields
  <2>2. d.vars[v].data \in Seq(Nat)
    BY <2>1 DEF Variable
  <2>3. QED
    BY <1>1, <2>2 DEF Found
<1>2. CASE v \notin DOMAIN d.vars
  BY <1>2 DEF Found
<1>3. QED
  BY <1>1, <1>2

\* The layout of a variable there is, in a file that can be read.
LEMMA FoundLayout ==
  ASSUME NEW d, DiskOK(d), Readable(d), NEW v \in DOMAIN d.vars
  PROVE  LET size == ReadSizes(d)
             l == Found(d, size, v).layout
         IN  /\ v \in Variables /\ l # NoLayout
             /\ \/ l \in Range(Layouts(d.type, v)) /\ LayoutFits(size, d.vars[v], l)
                \/ v = "Data.Delay" /\ l = <<"M", "R">>
<1> DEFINE size == ReadSizes(d)
           l == ResolveLayout(size, d.type, v, d.vars[v])
<1>1. v \in Variables
  <2>1. v \in VariablesOf(d.type)
    BY DiskFields
  <2>2. QED
    BY <2>1 DEF VariablesOf, Variables
<1>2. l # NoLayout
  BY DEF Readable
<1>3. Found(d, size, v).layout = l
  BY DEF Found
<1> HIDE DEF size
<1>4. \/ l \in Range(Layouts(d.type, v)) /\ LayoutFits(size, d.vars[v], l)
      \/ v = "Data.Delay" /\ l = <<"M", "R">>
  BY <1>1, <1>2, Resolved
<1> HIDE DEF l
<1>5. QED
  BY <1>1, <1>2, <1>3, <1>4 DEF size

\* The sizes are within the limit.
LEMMA ReadSized ==
  ASSUME NEW d, DiskOK(d), Readable(d)
  PROVE  ReadSizes(d) \in [Sizes -> 1..MaxElements] /\ Sized(ReadSizes(d))
<1> DEFINE size == ReadSizes(d)
<1>1. \A s \in Sizes : size[s] \in 1..MaxElements
  BY DEF Readable, CheckDimension
<1>2. size \in [Sizes -> Nat]
  BY ReadSizesType
<1> HIDE DEF size
<1>3. QED
  BY <1>1, <1>2, LimitGiven DEF size, Sized

\* A layout of two axes or more is that of the variable's shape.
LEMMA FittedShape ==
  ASSUME NEW size, NEW var, NEW a, NEW b, LayoutFits(size, var, <<a, b>>)
  PROVE  var.shape = Shape(size, <<a, b>>)
<1>1. 2 \in DOMAIN Shape(size, <<a, b>>)
  BY DEF Shape
<1>2. 2 \notin DOMAIN <<1>>
  OBVIOUS
<1>3. QED
  BY <1>1, <1>2 DEF LayoutFits

\* Positions, for each measurement or not, are vectors.
LEMMA ReadPerMOK ==
  ASSUME NEW d, DiskOK(d), Readable(d), NEW p \in Positions
  PROVE  LET perM == ReadPerMeasurement(d, ReadSizes(d), p)
         IN  /\ perM \in Seq(Seq(Vector))
             /\ perM # <<>> => ObjectDim(p) # "M"
             /\ ReadPositions(d, ReadSizes(d), p) \in Seq(Vector)
<1> DEFINE size == ReadSizes(d)
           data == Found(d, size, p).data
           l == Found(d, size, p).layout
           m == size["M"]
           perM == ReadPerMeasurement(d, size, p)
<1>1. data \in Seq(Nat)
  BY FoundData
<1>2. m \in Nat \ {0}
  <2>1. Sized(size)
    BY ReadSized
  <2>2. QED
    BY <2>1, AxisSizes
<1>3. perM = IF Len(l) = 3 /\ l[3] = "M" THEN VectorsPerM(data, m) ELSE <<>>
  BY DEF ReadPerMeasurement
<1>4. ReadPositions(d, size, p) = IF perM # <<>> THEN perM[1] ELSE Vectors(data)
  BY DEF ReadPositions
<1>5. Len(l) = 3 /\ l[3] = "M" => ObjectDim(p) # "M"
  <2>1. SUFFICES ASSUME Len(l) = 3 PROVE ObjectDim(p) # "M"
    OBVIOUS
  <2>2. CASE p \in DOMAIN d.vars
    <3>1. /\ \/ l \in Range(Layouts(d.type, p))
             \/ p = "Data.Delay"
      BY <2>2, FoundLayout
    <3>2. p # "Data.Delay"
      BY DEF Positions
    <3>3. Len(<<"I", "C">>) = 2 /\ Len(<<"M", "C">>) = 2
      OBVIOUS
    <3> HIDE DEF l
    <3>4. QED
      BY <2>1, <3>1, <3>2, <3>3, PositionLayoutsAre
  <2>3. CASE p \notin DOMAIN d.vars
    BY <2>1, <2>3 DEF Found, NoLayout
  <2>4. QED
    BY <2>2, <2>3
<1>6. Vectors(data) \in Seq(Vector)
  BY <1>1, VectorsType DEF Vector
<1>7. /\ VectorsPerM(data, m) \in Seq(Seq(Vector))
      /\ VectorsPerM(data, m)[1] \in Seq(Vector)
  <2> HIDE DEF data, m
  <2>1. PerM(VectorsPerM(data, m), Nat, m, Len(data) \div (3 * m))
    BY <1>1, <1>2, VectorsPerMType
  <2>2. VectorsPerM(data, m) \in Seq(Seq(Vector)) /\ Len(VectorsPerM(data, m)) = m
    BY <2>1 DEF PerM, Vector
  <2>3. QED
    BY <1>2, <2>2
<1> HIDE DEF data, m, l, perM, size
<1>8. QED
  BY <1>3, <1>4, <1>5, <1>6, <1>7 DEF perM, size

\* Orientations are vectors, and there is a first one.
LEMMA ReadOrientationOK ==
  ASSUME NEW d, DiskOK(d), Readable(d), NEW o \in Orientations
  PROVE  /\ ReadOrientations(d, ReadSizes(d), o) \in Seq(Vector)
         /\ ReadVector(d, ReadSizes(d), o) \in Vector
<1> DEFINE size == ReadSizes(d)
           data == Found(d, size, o).data
           l == Found(d, size, o).layout
<1>1. data \in Seq(Nat)
  BY FoundData
<1>2. Vectors(data) \in Seq(Vector) /\ Len(Vectors(data)) = Len(data) \div 3
  BY <1>1, VectorsType DEF Vector
<1>3. data # <<>> => Vectors(data)[1] \in Vector
  <2>1. SUFFICES ASSUME data # <<>> PROVE Len(data) >= 3
    <3> HIDE DEF data
    <3>1. SUFFICES ASSUME data # <<>> PROVE Vectors(data)[1] \in Vector
      OBVIOUS
    <3>2. Len(data) >= 3 /\ Len(data) \in Nat
      BY <1>1, <2>1, <3>1
    <3>3. Len(data) \div 3 >= 1 /\ Len(data) \div 3 \in Nat
      BY <3>2
    <3>4. QED
      BY <1>2, <3>3
  <2>2. o \in DOMAIN d.vars
    BY <2>1 DEF Found
  <2>3. data = d.vars[o].data
    BY <2>2 DEF Found
  <2>4. l \in {<<"I", "C">>, <<"M", "C">>} /\ LayoutFits(size, d.vars[o], l)
    <3>1. \/ l \in Range(Layouts(d.type, o)) /\ LayoutFits(size, d.vars[o], l)
          \/ o = "Data.Delay"
      BY <2>2, FoundLayout
    <3>2. o # "Data.Delay"
      BY DEF Orientations
    <3> HIDE DEF l
    <3>3. QED
      BY <3>1, <3>2, PositionLayoutsAre
  <2>5. d.vars[o].shape = Shape(size, l)
    <3> HIDE DEF l, size
    <3>1. QED
      BY <2>4, FittedShape
  <2>6. Len(data) = Count(Shape(size, l))
    <3>1. Variable(d.vars[o])
      BY <2>2, DiskFields
    <3>2. Len(d.vars[o].data) = Count(d.vars[o].shape)
      BY <3>1 DEF Variable
    <3>3. QED
      BY <2>3, <2>5, <3>2
  <2>7. Sized(size)
    BY ReadSized
  <2> HIDE DEF l, size, data
  <2>8. /\ Count(Shape(size, <<"I", "C">>)) = 3
        /\ Count(Shape(size, <<"M", "C">>)) = size["M"] * 3
        /\ size["M"] \in Nat \ {0}
    BY <2>7, LayoutCounts, AxisSizes
  <2>9. QED
    BY <2>4, <2>6, <2>8
<1>4. Origin \in Vector
  BY DEF Origin, Vector
<1>5. ReadVector(d, size, o) = IF data = <<>> THEN Origin ELSE Vectors(data)[1]
  BY DEF ReadVector
<1>6. ReadOrientations(d, size, o) = IF Contains(l, "M") THEN Vectors(data) ELSE <<>>
  BY DEF ReadOrientations
<1> HIDE DEF data, l
<1>7. QED
  BY <1>2, <1>3, <1>4, <1>5, <1>6 DEF size

\* What Open returns for a file it can read is sound, whoever wrote it.
LEMMA OpenedOK ==
  ASSUME NEW d, DiskOK(d), Readable(d)
  PROVE  FileOK(Opened(d))
<1> DEFINE size == ReadSizes(d)
           f == Opened(d)
           delay == Found(d, size, "Data.Delay")
           pos == [p \in Positions |-> ReadPositions(d, size, p)]
           posM == [p \in Positions |-> ReadPerMeasurement(d, size, p)]
           one == [o \in Orientations |-> ReadVector(d, size, o)]
           all == [o \in Orientations |-> ReadOrientations(d, size, o)]
           rate == Found(d, size, "Data.SamplingRate").data
           audio == ReadAudio(d, size)
           freqs == ReadFrequencies(d)
<1>1. f = [size |-> size, type |-> d.type, audio |-> audio, freqs |-> freqs,
           rate |-> rate, delay |-> delay.data, delayLayout |-> delay.layout,
           pos |-> pos, posM |-> posM, one |-> one, all |-> all]
  BY DEF Opened
<1>2. size \in [Sizes -> 1..MaxElements]
  BY ReadSized
<1>3. d.type \in Types
  BY DiskFields
<1>4. audio \in [shape : Seq(Nat), data : Seq(Nat)] /\ Len(audio.data) = Count(audio.shape)
  BY ReadAudioOK
<1>5. freqs \in Seq(Nat) /\ (Rated(d.type) => freqs = <<>>)
  <2>1. d.scales["N"].data \in Seq(Nat)
    <3>1. "N" \in Sizes
      BY DEF Sizes
    <3>2. d.scales \in [Sizes -> [name : {"size", "label", "none"}, n : Nat, data : Seq(Nat)]]
      BY DiskFields
    <3>3. QED
      BY <3>1, <3>2
  <2>2. QED
    BY <2>1 DEF ReadFrequencies
<1>6. rate \in Seq(Nat) /\ delay.data \in Seq(Nat)
  BY FoundData
<1>7. delay.layout \in {NoLayout} \cup Range(Layouts("FIR", "Data.Delay"))
  <2>1. CASE "Data.Delay" \in DOMAIN d.vars
    <3>1. delay.layout \in Range(Layouts(d.type, "Data.Delay")) \/ delay.layout = <<"M", "R">>
      BY <2>1, FoundLayout
    <3> HIDE DEF delay
    <3>2. QED
      BY <3>1, LayoutsAre
  <2>2. CASE "Data.Delay" \notin DOMAIN d.vars
    BY <2>2 DEF Found
  <2>3. QED
    BY <2>1, <2>2
<1>8. /\ pos \in [Positions -> Seq(Vector)] /\ posM \in [Positions -> Seq(Seq(Vector))]
      /\ \A p \in Positions : posM[p] # <<>> => ObjectDim(p) # "M"
  <2>1. \A p \in Positions : /\ ReadPerMeasurement(d, size, p) \in Seq(Seq(Vector))
                             /\ ReadPerMeasurement(d, size, p) # <<>> => ObjectDim(p) # "M"
                             /\ ReadPositions(d, size, p) \in Seq(Vector)
    BY ReadPerMOK
  <2> HIDE DEF size
  <2>2. QED
    BY <2>1
<1>9. one \in [Orientations -> Vector] /\ all \in [Orientations -> Seq(Vector)]
  <2>1. \A o \in Orientations : /\ ReadOrientations(d, size, o) \in Seq(Vector)
                                /\ ReadVector(d, size, o) \in Vector
    BY ReadOrientationOK
  <2> HIDE DEF size
  <2>2. QED
    BY <2>1
<1> HIDE DEF size, f, delay, pos, posM, one, all, rate, audio, freqs
<1>10. QED
  <2>1. FileOK(f)
    BY <1>1, <1>2, <1>3, <1>4, <1>5, <1>6, <1>7, <1>8, <1>9 DEF FileOK
  <2>2. QED
    BY <2>1 DEF f

-----------------------------------------------------------------------------
(* The invariant holds, and what the runs check follows.                   *)

\* An edit leaves a File whose fields are sound, whether it is valid or not.
LEMMA EditKeepsInv ==
  ASSUME Inv, NEW f, FileOK(f), Edit(f)
  PROVE  Inv'
BY DEF Inv, Edit

\* The caller sets other sizes.
LEMMA ResizeKeepsInv ==
  ASSUME Inv, Resize
  PROVE  Inv'
<1>1. PICK s \in Shapes :
        Edit([file EXCEPT !.size = SizeOf(s), !.audio = Audio(SizeOf(s), file.type),
                          !.freqs = Frequencies(SizeOf(s), file.type)])
  BY DEF Resize
<1>2. FileOK(file)
  BY <1>1 DEF Edit, Inv
<1>3. SizeOf(s) \in [Sizes -> 1..MaxElements]
  BY SizeOfType
<1> DEFINE f == [file EXCEPT !.size = SizeOf(s), !.audio = Audio(SizeOf(s), file.type),
                             !.freqs = Frequencies(SizeOf(s), file.type)]
<1>4. FileOK(f) /\ Edit(f)
  BY <1>1, <1>2, <1>3, SizesReplaced
<1> HIDE DEF f
<1>5. QED
  BY <1>4, EditKeepsInv

\* The caller sets the delay.
LEMMA SetDelayKeepsInv ==
  ASSUME Inv, SetDelay
  PROVE  Inv'
<1>1. PICK n \in Lengths \cup {4} : Edit([file EXCEPT !.delay = [i \in 1..n |-> 50 + i]])
  BY DEF SetDelay
<1>2. FileOK(file)
  BY <1>1 DEF Edit, Inv
<1> DEFINE delay == [i \in 1..n |-> 50 + i]
           f == [file EXCEPT !.delay = delay]
<1>3. delay \in Seq(Nat)
  BY DEF Lengths
<1> HIDE DEF delay
<1>4. FileOK(f)
  BY <1>2, <1>3, DelayReplaced
<1>5. Edit(f)
  BY <1>1 DEF delay
<1> HIDE DEF f
<1>6. QED
  BY <1>4, <1>5, EditKeepsInv

\* The caller sets the sampling rate.
LEMMA SetRateKeepsInv ==
  ASSUME Inv, SetRate
  PROVE  Inv'
<1>1. PICK n \in Lengths : Edit([file EXCEPT !.rate = Numbered(n)])
  BY DEF SetRate, EditFirst
<1>2. FileOK(file)
  BY <1>1 DEF Edit, Inv
<1>3. Numbered(n) \in Seq(Nat)
  BY NumberedType DEF Lengths
<1> DEFINE f == [file EXCEPT !.rate = Numbered(n)]
<1>4. FileOK(f)
  BY <1>2, <1>3, DelayReplaced
<1> HIDE DEF f
<1>5. QED
  BY <1>1, <1>4, EditKeepsInv DEF f

\* The caller sets positions.
LEMMA SetPositionsKeepsInv ==
  ASSUME Inv, SetPositions
  PROVE  Inv'
<1>1. PICK p \in Positions, n \in Lengths : Edit([file EXCEPT !.pos[p] = Rows(n)])
  BY DEF SetPositions, EditFirst
<1>2. FileOK(file)
  BY <1>1 DEF Edit, Inv
<1>3. Rows(n) \in Seq(Vector)
  BY RowsType DEF Lengths
<1> DEFINE f == [file EXCEPT !.pos[p] = Rows(n)]
<1>4. FileOK(f)
  BY <1>2, <1>3, PositionsReplaced
<1> HIDE DEF f
<1>5. QED
  BY <1>1, <1>4, EditKeepsInv DEF f

\* The caller sets positions for each measurement.
LEMMA SetPerMeasurementKeepsInv ==
  ASSUME Inv, SetPerMeasurement
  PROVE  Inv'
<1>1. PICK p \in {"ReceiverPosition", "EmitterPosition"}, m \in Lengths, n \in Lengths :
        Edit([file EXCEPT !.posM[p] =
                [i \in 1..m |-> [j \in 1..n |-> Rows(16)[4 * (i - 1) + j]]]])
  BY DEF SetPerMeasurement, EditFirst
<1>2. FileOK(file)
  BY <1>1 DEF Edit, Inv
<1> DEFINE q == [i \in 1..m |-> [j \in 1..n |-> Rows(16)[4 * (i - 1) + j]]]
           f == [file EXCEPT !.posM[p] = q]
<1>3. q \in Seq(Seq(Vector))
  <2>1. m \in 0..2 /\ n \in 0..2
    BY DEF Lengths
  <2>2. Rows(16) \in Seq(Vector) /\ Len(Rows(16)) = 16
    BY RowsType
  <2>3. ASSUME NEW i \in 1..m, NEW j \in 1..n PROVE Rows(16)[4 * (i - 1) + j] \in Vector
    <3> DEFINE x == 4 * (i - 1) + j
    <3>1. x \in 1..16
      BY <2>1
    <3> HIDE DEF x
    <3>2. Rows(16)[x] \in Vector
      BY <2>2, <3>1
    <3>3. QED
      BY <3>2 DEF x
  <2>4. \A i \in 1..m : [j \in 1..n |-> Rows(16)[4 * (i - 1) + j]] \in Seq(Vector)
    BY <2>1, <2>3
  <2>5. QED
    BY <2>1, <2>4
<1> HIDE DEF q
<1>4. FileOK(f)
  BY <1>2, <1>3, PerMReplaced
<1>5. Edit(f)
  BY <1>1 DEF q
<1> HIDE DEF f
<1>6. QED
  BY <1>4, <1>5, EditKeepsInv

\* The caller sets an orientation.
LEMMA SetOrientationKeepsInv ==
  ASSUME Inv, SetOrientation
  PROVE  Inv'
<1>1. PICK o \in Orientations, n \in Lengths :
        Edit([file EXCEPT !.all[o] = Rows(n), !.one[o] = Rows(1)[1]])
  BY DEF SetOrientation, EditFirst
<1>2. FileOK(file)
  BY <1>1 DEF Edit, Inv
<1>3. Rows(n) \in Seq(Vector) /\ Rows(1)[1] \in Vector
  <2>1. n \in Nat
    BY DEF Lengths
  <2>2. Rows(1) \in Seq(Vector) /\ Len(Rows(1)) = 1
    BY RowsType
  <2>3. QED
    BY <2>1, <2>2, RowsType
<1> DEFINE f == [file EXCEPT !.all[o] = Rows(n), !.one[o] = Rows(1)[1]]
<1>4. FileOK(f)
  BY <1>2, <1>3, OrientationReplaced
<1> HIDE DEF f
<1>5. QED
  BY <1>1, <1>4, EditKeepsInv DEF f

\* Save replaces the file at the path.
LEMMA SaveKeepsInv ==
  ASSUME Inv, Save
  PROVE  Inv'
<1>1. FileOK(file) /\ Consistent(file) /\ disk' = Stored(file) /\ file' = file
  BY ValidConsistent DEF Inv, Save
<1>2. DiskOK(Stored(file))
  BY <1>1, StoredOK
<1>3. QED
  BY <1>1, <1>2 DEF Inv

\* Open replaces the File in memory.
LEMMA OpenKeepsInv ==
  ASSUME Inv, Open
  PROVE  Inv'
<1>1. DiskOK(disk) /\ Readable(disk) /\ file' = Opened(disk) /\ disk' = disk
  BY DEF Inv, Open
<1>2. FileOK(Opened(disk))
  BY <1>1, OpenedOK
<1>3. QED
  BY <1>1, <1>2 DEF Inv

\* At first there is a new File, or a file of another program.
LEMMA InitInv ==
  ASSUME Init
  PROVE  Inv
<1>1. CASE file = Nothing /\ disk \in ForeignFiles
  BY <1>1, ForeignOK DEF Inv
<1>2. CASE file \in FreshFiles /\ disk = Nothing
  <2>1. PICK s \in Shapes, t \in Types : file = Fresh(SizeOf(s), t)
    BY <1>2 DEF FreshFiles
  <2>2. QED
    BY <1>2, <2>1, FreshOK DEF Inv
<1>3. QED
  BY <1>1, <1>2 DEF Init

\* The inductive invariant: whatever the caller sets, saves and opens, in any
\* order, a File's fields have their types and its values fill their shape, and
\* so do the variables of the file at the path.
THEOREM RoundTripInvariant == Spec => []Inv
<1>1. Init => Inv
  BY InitInv
<1>2. Inv /\ [Next]_vars => Inv'
  <2>1. SUFFICES ASSUME Inv, [Next]_vars PROVE Inv'
    OBVIOUS
  <2>2. CASE Next
    BY <2>1, <2>2, ResizeKeepsInv, SetDelayKeepsInv, SetRateKeepsInv, SetPositionsKeepsInv,
       SetPerMeasurementKeepsInv, SetOrientationKeepsInv, SaveKeepsInv, OpenKeepsInv DEF Next
  <2>3. CASE UNCHANGED vars
    BY <2>1, <2>3 DEF vars, Inv
  <2>4. QED
    BY <2>1, <2>2, <2>3
<1>3. QED
  BY <1>1, <1>2, PTL DEF Spec

\* Type correctness: a File in memory has sizes within the limit, also after
\* any file another program may have left was opened (Open, Save and the edits).
THEOREM RoundTripTypeOK == Spec => []TypeOK
<1> DEFINE Edits == edits \in 0..MaxEdits
           Changed == changed \in BOOLEAN
           Ghosts == Changed /\ Edits
<1>1. Init => Ghosts
  <2>1. Init => Changed
    BY DEF Init
  <2>2. Init => Edits
    BY EditsGiven DEF Init
  <2>3. QED
    BY <2>1, <2>2
<1>2. Ghosts /\ [Next]_vars => Ghosts'
  <2>1. Changed /\ [Next]_vars => Changed'
    BY Zenon DEF Next, vars, Resize, SetDelay, SetRate, SetPositions, SetPerMeasurement,
       SetOrientation, EditFirst, Save, Open
  <2>2. Edits /\ [Next]_vars => Edits'
    <3>1. ASSUME NEW f, Edit(f), Edits PROVE Edits'
      BY <3>1, EditsGiven DEF Edit
    <3>2. Next => edits' = edits \/ \E f : Edit(f)
      BY Zenon DEF Next, Resize, SetDelay, SetRate, SetPositions, SetPerMeasurement,
         SetOrientation, EditFirst, Save, Open
    <3>3. UNCHANGED vars => edits' = edits
      BY DEF vars
    <3>4. QED
      BY <3>1, <3>2, <3>3
  <2>3. QED
    BY <2>1, <2>2
<1>3. Inv /\ Ghosts => TypeOK
  <2>1. SUFFICES ASSUME Inv, Ghosts, file # Nothing
                 PROVE  file.type \in Types /\ \A d \in Sizes : file.size[d] \in 1..MaxElements
    BY DEF TypeOK
  <2>2. FileOK(file)
    BY <2>1 DEF Inv
  <2>3. QED
    BY <2>2, FileFields
<1>4. QED
  BY <1>1, <1>2, <1>3, RoundTripInvariant, PTL DEF Spec

\* Save never hands HDF5 a variable whose values do not fill its shape, for
\* Files of every size and every history of edits, opens and saves (writeTo's
\* layouts against validate's length checks).
THEOREM WhatIsSavedFits == Spec => []SavedFits
<1>1. Inv => SavedFits
  <2>1. SUFFICES ASSUME Inv, file # Nothing, Valid(file), NEW v \in DOMAIN Stored(file).vars
                 PROVE  LET stored == Stored(file).vars
                        IN  Len(stored[v].data) = Count(stored[v].shape)
    BY DEF SavedFits
  <2>2. FileOK(file) /\ Consistent(file)
    BY <2>1, ValidConsistent DEF Inv
  <2>3. v \in VariablesOf(file.type)
    BY <2>1, StoredVars
  <2>4. Fits(file.size, file.type, v, Written(file, v))
    BY <2>2, <2>3, WrittenFits
  <2>5. QED
    BY <2>3, <2>4, StoredVars DEF Fits
<1>2. QED
  BY <1>1, RoundTripInvariant, PTL

\* The round trip: whatever was opened and edited before, Open reads what Save
\* wrote and every accessor answers as before, for every shape, every layout
\* of the delay, of positions and of orientations, and every value.
THEOREM RoundTripKeepsMeaning == Spec => []SaveThenOpen
<1>1. Inv => SaveThenOpen
  <2>1. SUFFICES ASSUME Inv, file # Nothing, Opens(file)
                 PROVE  LET stored == Stored(file)
                        IN  Readable(stored) /\ View(Opened(stored)) = View(file)
    BY DEF SaveThenOpen
  <2>2. FileOK(file) /\ Consistent(file)
    BY <2>1, ValidConsistent DEF Inv, Opens
  <2>3. QED
    BY <2>1, <2>2, StoredReadable, ViewKept
<1>2. QED
  BY <1>1, RoundTripInvariant, PTL

\* Saving what was just saved and opened writes the same variables, scales and
\* layouts again: Stored(Opened(_)) is the identity on what Save writes.
THEOREM RoundTripIsStable == Spec => []ResaveIsStable
<1>1. Inv => ResaveIsStable
  <2>1. SUFFICES ASSUME Inv, file # Nothing, Opens(file)
                 PROVE  LET stored == Stored(file) IN Stored(Opened(stored)) = stored
    BY DEF ResaveIsStable
  <2>2. FileOK(file) /\ Consistent(file)
    BY <2>1, ValidConsistent DEF Inv, Opens
  <2>3. QED
    BY <2>2, WrittenAgain
<1>2. QED
  BY <1>1, RoundTripInvariant, PTL

-----------------------------------------------------------------------------
(* Another program's file, read by its labels.                             *)

\* w is the offset in the first axes, the first two and so on.
IsOffset(w, layout, shape, at) ==
  /\ w[0] = 0
  /\ \A i \in 1..Len(layout) :
       w[i] = w[i - 1] * shape[i] + (IF layout[i] \in Sizes THEN at[layout[i]] ELSE 0)
  /\ Offset(layout, shape, at) = w[Len(layout)]

\* The recursion Offset is defined by, for layouts of up to four axes.
LEMMA OffsetSteps ==
  ASSUME NEW layout, Len(layout) \in 0..4, NEW shape, NEW at
  PROVE  \E w : IsOffset(w, layout, shape, at)
<1> DEFINE n == Len(layout)
           c(i) == IF layout[i] \in Sizes THEN at[layout[i]] ELSE 0
           G(g) == [i \in 0..n |-> IF i = 0 THEN 0 ELSE g[i - 1] * shape[i] + c(i)]
           h == CHOOSE g : g = G(g)
           p1 == 0 * shape[1] + c(1)
           p2 == p1 * shape[2] + c(2)
           p3 == p2 * shape[3] + c(3)
           p4 == p3 * shape[4] + c(4)
           w == [i \in 0..n |-> IF i = 0 THEN 0 ELSE IF i = 1 THEN p1 ELSE IF i = 2 THEN p2
                                ELSE IF i = 3 THEN p3 ELSE p4]
<1>1. Offset(layout, shape, at) = h[n]
  BY DEF Offset
<1>2. n \in 0..4
  OBVIOUS
<1> HIDE DEF n, c
<1>3. w = G(w)
  <2>1. \A i \in 0..n : i = 0 \/ i = 1 \/ i = 2 \/ i = 3 \/ i = 4
    BY <1>2
  <2>2. p1 = 0 * shape[1] + c(1) /\ p2 = p1 * shape[2] + c(2) /\ p3 = p2 * shape[3] + c(3)
        /\ p4 = p3 * shape[4] + c(4)
    OBVIOUS
  <2> HIDE DEF p1, p2, p3, p4
  <2>3. ASSUME NEW i \in 0..n
        PROVE  w[i] = IF i = 0 THEN 0 ELSE w[i - 1] * shape[i] + c(i)
    <3>1. CASE i = 0
      BY <3>1
    <3>2. CASE i = 1
      BY <1>2, <2>2, <3>2
    <3>3. CASE i = 2
      BY <1>2, <2>2, <3>3
    <3>4. CASE i = 3
      BY <1>2, <2>2, <3>4
    <3>5. CASE i = 4
      BY <1>2, <2>2, <3>5
    <3>6. QED
      BY <2>1, <3>1, <3>2, <3>3, <3>4, <3>5
  <2> DEFINE v == w
  <2>4. v = [i \in 0..n |-> v[i]]
    OBVIOUS
  <2>5. \A i \in 0..n : v[i] = IF i = 0 THEN 0 ELSE v[i - 1] * shape[i] + c(i)
    BY <2>3
  <2> HIDE DEF w, v
  <2>6. v = G(v)
    BY <2>4, <2>5
  <2>7. QED
    BY <2>6 DEF v
<1> HIDE DEF w, G
<1>4. h = G(h)
  BY <1>3 DEF h
<1> HIDE DEF h
<1>5. h[0] = 0 /\ \A i \in 1..n : h[i] = h[i - 1] * shape[i] + c(i)
  BY <1>2, <1>4 DEF G
<1>6. QED
  BY <1>1, <1>5 DEF n, c, IsOffset

\* The offset in each of the layouts of the audio data and of the delay.
LEMMA Offsets ==
  ASSUME NEW size, Sized(size), NEW at \in [Sizes -> Nat]
  PROVE  LET m == at["M"]  r == at["R"]  e == at["E"]  n == at["N"]
             R == size["R"]  E == size["E"]  N == size["N"]
             offset(l) == Offset(l, Shape(size, l), at)
         IN  /\ Offset(<<>>, <<>>, at) = 0
             /\ offset(<<"I">>) = 0 /\ offset(<<"M">>) = m /\ offset(<<"R">>) = r
             /\ offset(<<"I", "R">>) = r /\ offset(<<"M", "R">>) = m * R + r
             /\ offset(MRN) = (m * R + r) * N + n
             /\ offset(MREN) = ((m * R + r) * E + e) * N + n
             /\ offset(MRNE) = ((m * R + r) * N + n) * E + e
<1> DEFINE c(a) == IF a \in Sizes THEN at[a] ELSE 0
           z(a) == AxisSize(size, a)
           m == at["M"]
           r == at["R"]
           e == at["E"]
           n == at["N"]
           M == size["M"]
           R == size["R"]
           E == size["E"]
           N == size["N"]
<1>1. /\ z("M") = M /\ z("R") = R /\ z("E") = E /\ z("N") = N /\ z("I") = 1
      /\ M \in Nat /\ R \in Nat /\ E \in Nat /\ N \in Nat
  BY AxisSizes
<1>2. /\ c("M") = m /\ c("R") = r /\ c("E") = e /\ c("N") = n /\ c("I") = 0
      /\ m \in Nat /\ r \in Nat /\ e \in Nat /\ n \in Nat
  BY DEF Sizes
<1>3. Offset(<<>>, <<>>, at) = 0
  <2>1. Len(<<>>) = 0
    OBVIOUS
  <2>2. QED
    BY <2>1, OffsetSteps DEF IsOffset
<1>4. ASSUME NEW a, z(a) \in Nat, c(a) \in Nat
      PROVE  Offset(<<a>>, Shape(size, <<a>>), at) = c(a)
  <2> DEFINE l == <<a>>
             s == Shape(size, l)
  <2>1. Len(l) = 1 /\ Len(l) \in 0..4 /\ l[1] = a /\ s[1] = z(a)
    BY ShapeShort
  <2> HIDE DEF l, s
  <2>2. PICK w : IsOffset(w, l, s, at)
    BY <2>1, OffsetSteps
  <2>3. w[1] = 0 * z(a) + c(a)
    BY <2>1, <2>2 DEF IsOffset
  <2> HIDE DEF c, z
  <2>4. w[1] = c(a)
    BY <1>4, <2>3
  <2>5. QED
    BY <2>1, <2>2, <2>4 DEF l, s, IsOffset
<1>5. ASSUME NEW a, NEW b, z(a) \in Nat, c(a) \in Nat
      PROVE  Offset(<<a, b>>, Shape(size, <<a, b>>), at) = c(a) * z(b) + c(b)
  <2> DEFINE l == <<a, b>>
             s == Shape(size, l)
  <2>1. Len(l) = 2 /\ Len(l) \in 0..4 /\ l[1] = a /\ s[1] = z(a) /\ l[2] = b /\ s[2] = z(b)
    BY ShapeShort
  <2> HIDE DEF l, s
  <2>2. PICK w : IsOffset(w, l, s, at)
    BY <2>1, OffsetSteps
  <2>3. w[1] = 0 * z(a) + c(a) /\ w[2] = w[1] * z(b) + c(b)
    BY <2>1, <2>2 DEF IsOffset
  <2> HIDE DEF c, z
  <2>4. w[1] = c(a)
    BY <1>5, <2>3
  <2>5. QED
    BY <2>1, <2>2, <2>3, <2>4 DEF l, s, IsOffset
<1>6. ASSUME NEW a, NEW b, NEW d, z(a) \in Nat, c(a) \in Nat
      PROVE  Offset(<<a, b, d>>, Shape(size, <<a, b, d>>), at)
               = (c(a) * z(b) + c(b)) * z(d) + c(d)
  <2> DEFINE l == <<a, b, d>>
             s == Shape(size, l)
  <2>1. /\ Len(l) = 3 /\ Len(l) \in 0..4 /\ l[1] = a /\ s[1] = z(a) /\ l[2] = b /\ s[2] = z(b)
        /\ l[3] = d /\ s[3] = z(d)
    BY ShapeShort
  <2> HIDE DEF l, s
  <2>2. PICK w : IsOffset(w, l, s, at)
    BY <2>1, OffsetSteps
  <2>3. w[1] = 0 * z(a) + c(a) /\ w[2] = w[1] * z(b) + c(b) /\ w[3] = w[2] * z(d) + c(d)
    BY <2>1, <2>2 DEF IsOffset
  <2> HIDE DEF c, z
  <2>4. w[1] = c(a)
    BY <1>6, <2>3
  <2>5. QED
    BY <2>1, <2>2, <2>3, <2>4 DEF l, s, IsOffset
<1>7. ASSUME NEW a, NEW b, NEW d, NEW f, z(a) \in Nat, c(a) \in Nat
      PROVE  Offset(<<a, b, d, f>>, Shape(size, <<a, b, d, f>>), at)
               = ((c(a) * z(b) + c(b)) * z(d) + c(d)) * z(f) + c(f)
  <2> DEFINE l == <<a, b, d, f>>
             s == Shape(size, l)
  <2>1. /\ Len(l) = 4 /\ Len(l) \in 0..4 /\ l[1] = a /\ s[1] = z(a) /\ l[2] = b /\ s[2] = z(b)
        /\ l[3] = d /\ s[3] = z(d) /\ l[4] = f /\ s[4] = z(f)
    BY ShapeShort
  <2> HIDE DEF l, s
  <2>2. PICK w : IsOffset(w, l, s, at)
    BY <2>1, OffsetSteps
  <2>3. /\ w[1] = 0 * z(a) + c(a) /\ w[2] = w[1] * z(b) + c(b)
        /\ w[3] = w[2] * z(d) + c(d) /\ w[4] = w[3] * z(f) + c(f)
    BY <2>1, <2>2 DEF IsOffset
  <2> HIDE DEF c, z
  <2>4. w[1] = c(a)
    BY <1>7, <2>3
  <2>5. QED
    BY <2>1, <2>2, <2>3, <2>4 DEF l, s, IsOffset
<1> HIDE DEF c, z, m, r, e, n, M, R, E, N
<1>8. /\ Offset(<<"I">>, Shape(size, <<"I">>), at) = 0
      /\ Offset(<<"M">>, Shape(size, <<"M">>), at) = m
      /\ Offset(<<"R">>, Shape(size, <<"R">>), at) = r
  BY <1>1, <1>2, <1>4
<1>9. Offset(<<"I", "R">>, Shape(size, <<"I", "R">>), at) = r
  <2>1. Offset(<<"I", "R">>, Shape(size, <<"I", "R">>), at) = 0 * R + r
    BY <1>1, <1>2, <1>5
  <2>2. QED
    BY <1>1, <1>2, <2>1
<1>10. Offset(<<"M", "R">>, Shape(size, <<"M", "R">>), at) = m * R + r
  BY <1>1, <1>2, <1>5
<1>11. Offset(MRN, Shape(size, MRN), at) = (m * R + r) * N + n
  BY <1>1, <1>2, <1>6 DEF MRN
<1>12. Offset(MREN, Shape(size, MREN), at) = ((m * R + r) * E + e) * N + n
  BY <1>1, <1>2, <1>7 DEF MREN
<1>13. Offset(MRNE, Shape(size, MRNE), at) = ((m * R + r) * N + n) * E + e
  BY <1>1, <1>2, <1>7 DEF MRNE
<1>14. QED
  BY <1>3, <1>8, <1>9, <1>10, <1>11, <1>12, <1>13 DEF m, r, e, n, R, E, N

\* When every axis is labelled, the layout Open takes is the labels; a scalar
\* has none, and is taken for an axis of one.
LEMMA LabelledLayout ==
  ASSUME NEW d, DiskOK(d), Readable(d), NEW v \in DOMAIN d.vars,
         ~Contains(d.vars[v].labels, Unlabelled)
  PROVE  LET size == ReadSizes(d)
             var == d.vars[v]
             l == Found(d, size, v).layout
         IN  /\ l \in Range(Layouts(d.type, v))
             /\ \/ var.labels = l /\ var.shape = Shape(size, l)
                \/ var.labels = <<>> /\ var.shape = <<>> /\ Len(l) = 1 /\ Shape(size, l) = <<1>>
<1> DEFINE size == ReadSizes(d)
           var == d.vars[v]
           l == ResolveLayout(size, d.type, v, var)
<1>1. Variable(var)
  BY DiskFields
<1>2. v \in Variables
  BY FoundLayout
<1>3. l # NoLayout /\ Found(d, size, v).layout = l
  BY DEF Readable, Found
<1> HIDE DEF size
<1>4. \/ l \in Range(Layouts(d.type, v)) /\ LayoutFits(size, var, l)
      \/ DimensionLabels(var) = NoLayout /\ var.shape = <<size["M"] * size["R"]>>
  BY <1>2, <1>3, Resolved
<1>5. ~Contains(var.labels, Unlabelled)
  OBVIOUS
<1> HIDE DEF l, var
<1>6. /\ var.labels \in Seq(AxisLabels) /\ var.shape \in Seq(Nat)
      /\ Len(var.labels) = Len(var.shape)
  BY <1>1 DEF Variable
<1>7. var.labels \in Seq(Labels)
  <2>1. \A i \in 1..Len(var.labels) : var.labels[i] \in Labels
    BY <1>5, <1>6 DEF Contains, AxisLabels, Labels
  <2>2. QED
    BY <1>6, <2>1
<1>8. l \in Range(Layouts(d.type, v)) => IsLayout(l)
  BY <1>2, LayoutsWell
<1>9. ASSUME Len(var.labels) \in 1..4 PROVE DimensionLabels(var) = var.labels /\ var.labels # NoLayout
  <2>1. IsLayout(var.labels)
    BY <1>7, <1>9 DEF IsLayout
  <2>2. QED
    BY <1>9, <2>1, LabelsKept DEF NoLayout
<1>10. ASSUME var.shape = <<size["M"] * size["R"]>>, DimensionLabels(var) = NoLayout PROVE FALSE
  <2>1. Len(var.shape) = 1
    BY <1>10
  <2>2. QED
    BY <1>6, <1>9, <1>10, <2>1
<1>11. l \in Range(Layouts(d.type, v)) /\ LayoutFits(size, var, l)
  BY <1>4, <1>10
<1>12. IsLayout(l)
  BY <1>8, <1>11
<1>13. l \in Seq(Labels) /\ Len(l) \in 1..4 /\ DOMAIN Shape(size, l) = 1..Len(l)
  BY <1>12 DEF IsLayout, Shape
<1>14. CASE var.shape = <<>>
  <2>1. var.labels = <<>>
    BY <1>6, <1>14
  <2>2. Shape(size, l) = <<1>>
    BY <1>11, <1>14 DEF LayoutFits
  <2>3. DOMAIN <<1>> = 1..1
    OBVIOUS
  <2>4. Len(l) = 1
    BY <1>13, <2>2, <2>3
  <2>5. QED
    BY <1>3, <1>11, <1>14, <2>1, <2>2, <2>4 DEF var, size
<1>15. CASE var.shape # <<>>
  <2>1. var.shape = Shape(size, l)
    BY <1>11, <1>15 DEF LayoutFits
  <2>2. Len(var.shape) = Len(l)
    <3>1. DOMAIN var.shape = 1..Len(var.shape) /\ Len(var.shape) \in Nat
      BY <1>6
    <3>2. QED
      BY <1>13, <2>1, <3>1
  <2>3. DimensionLabels(var) = var.labels /\ var.labels # NoLayout
    BY <1>6, <1>9, <1>13, <2>2
  <2>4. var.labels = l
    BY <1>11, <2>3 DEF LayoutFits
  <2>5. QED
    BY <1>3, <1>11, <2>1, <2>4 DEF var, size
<1>16. QED
  BY <1>14, <1>15

\* The audio data, in whichever order the frequencies were stored.
LEMMA AudioAsLabelled ==
  ASSUME NEW d, DiskOK(d), Readable(d), NEW at \in [Sizes -> Nat],
         \A s \in Sizes : at[s] \in 0..ReadSizes(d)[s] - 1,
         ~Contains(d.vars["Data"].labels, Unlabelled)
  PROVE  LET f == Opened(d)
             var == d.vars["Data"]
         IN  f.audio.data[Offset(MemoryLayout(f.type), f.audio.shape, at) + 1]
               = var.data[Offset(var.labels, var.shape, at) + 1]
<1> DEFINE size == ReadSizes(d)
           f == Opened(d)
           var == d.vars["Data"]
           l == Found(d, size, "Data").layout
           mem == MemoryLayout(d.type)
           M == size["M"]
           R == size["R"]
           E == size["E"]
           N == size["N"]
           m == at["M"]
           r == at["R"]
           e == at["E"]
           n == at["N"]
<1>1. "Data" \in DOMAIN d.vars
  BY DEF Readable
<1>2. Found(d, size, "Data") = [layout |-> l, data |-> var.data]
  BY <1>1 DEF Found
<1>3. f.type = d.type /\ f.audio.shape = Shape(size, mem)
      /\ f.audio.data = IF l = MRNE THEN SwapLastAxes(var.data, N, E) ELSE var.data
  BY <1>2 DEF Opened, ReadAudio
<1>4. Sized(size)
  BY ReadSized
<1>5. l \in (IF d.type = "TFE" THEN {MRNE, MREN} ELSE {MRN})
      /\ var.labels = l /\ var.shape = Shape(size, l)
  <2>1. Len(MRN) = 3 /\ Len(MRNE) = 4 /\ Len(MREN) = 4
    BY DEF MRN, MRNE, MREN
  <2>2. /\ l \in Range(Layouts(d.type, "Data"))
        /\ \/ var.labels = l /\ var.shape = Shape(size, l)
           \/ Len(l) = 1
    BY <1>1, LabelledLayout
  <2> HIDE DEF l, var
  <2>3. QED
    BY <2>1, <2>2, LayoutsAre
<1>6. Variable(var)
  BY <1>1, DiskFields
<1>7. mem = IF d.type = "TFE" THEN MREN ELSE MRN
  BY DEF MemoryLayout
<1>8. MRN # MRNE /\ MREN # MRNE
  BY DEF MRN, MREN, MRNE
<1>9. /\ m \in 0..M - 1 /\ r \in 0..R - 1 /\ e \in 0..E - 1 /\ n \in 0..N - 1
  BY DEF Sizes
<1>10. M \in Nat \ {0} /\ R \in Nat \ {0} /\ E \in Nat \ {0} /\ N \in Nat \ {0}
  BY <1>4, AxisSizes
<1>11. CASE l # MRNE
  <2> HIDE DEF l, mem, f, var, size
  <2>1. mem = l
    BY <1>5, <1>7, <1>8, <1>11
  <2>2. QED
    BY <1>3, <1>5, <1>11, <2>1 DEF mem, f, var
<1>12. CASE l = MRNE
  <2> HIDE DEF l, f, var, size
  <2>1. d.type = "TFE" /\ mem = MREN
    BY <1>5, <1>7, <1>8, <1>12
  <2> HIDE DEF mem
  <2> DEFINE o == m * R + r
  <2>2. /\ Offset(MREN, Shape(size, MREN), at) = (o * E + e) * N + n
        /\ Offset(MRNE, Shape(size, MRNE), at) = (o * N + n) * E + e
    BY <1>4, Offsets
  <2>3. o \in 0..M * R - 1
    <3>1. M \in Nat /\ R \in Nat /\ m \in Nat /\ m + 1 \in Nat /\ m + 1 <= M
          /\ r \in Nat /\ r <= R - 1
      BY <1>9, <1>10
    <3> HIDE DEF M, R, m, r
    <3>2. R * (m + 1) <= R * M
      BY <3>1, ProductGrows
    <3>3. R * (m + 1) = m * R + R /\ R * M = M * R /\ m * R \in Nat /\ M * R \in Nat
      BY <3>1
    <3>4. QED
      BY <3>1, <3>2, <3>3
  <2> HIDE DEF o
  <2>4. Count(Shape(size, MRNE)) = (M * R) * (N * E)
    BY <1>4, LayoutCounts
  <2>5. Grid(var.data, Nat, M * R, N, E)
    <3>1. var.data \in Seq(Nat) /\ Len(var.data) = Count(var.shape)
      BY <1>6 DEF Variable
    <3>2. QED
      BY <1>5, <1>12, <2>4, <3>1 DEF Grid
  <2> HIDE DEF M, R, E, N, m, r, e, n
  <2>6. SwapLastAxes(var.data, N, E)[Place(o, e, n, N, E) + 1]
          = var.data[Place(o, n, e, E, N) + 1]
    <3> DEFINE K == M * R
               flat == var.data
    <3>1. K \in Nat
      BY <1>10
    <3>2. o \in 0..K - 1 /\ Grid(flat, Nat, K, N, E)
      BY <2>3, <2>5
    <3>3. e \in 0..E - 1 /\ n \in 0..N - 1 /\ E \in Nat \ {0} /\ N \in Nat \ {0}
      BY <1>9, <1>10
    <3> HIDE DEF K, flat
    <3>4. SwapLastAxes(flat, N, E)[Place(o, e, n, N, E) + 1] = flat[Place(o, n, e, E, N) + 1]
      BY <3>1, <3>2, <3>3, SwapAt
    <3>5. QED
      BY <3>4 DEF flat
  <2>7. /\ Place(o, e, n, N, E) = (o * E + e) * N + n
        /\ Place(o, n, e, E, N) = (o * N + n) * E + e
    <3>1. o \in Nat /\ e \in Nat /\ n \in Nat
      BY <1>9, <1>10, <2>3
    <3>2. /\ o * (N * E) + e * N = (o * E + e) * N
          /\ o * (E * N) + n * E = (o * N + n) * E
      BY <1>10, <3>1
    <3>3. QED
      BY <3>2 DEF Place
  <2>8. f.audio.data = SwapLastAxes(var.data, N, E)
    BY <1>3, <1>12
  <2>9. f.audio.shape = Shape(size, MREN) /\ MemoryLayout(f.type) = MREN
    BY <1>3, <2>1 DEF mem
  <2>10. QED
    BY <1>5, <1>12, <2>2, <2>6, <2>7, <2>8, <2>9 DEF f, var
<1>13. QED
  BY <1>11, <1>12

\* The delay, in any of the layouts it may be stored in.
LEMMA DelayAsLabelled ==
  ASSUME NEW d, DiskOK(d), Readable(d), NEW at \in [Sizes -> Nat],
         \A s \in Sizes : at[s] \in 0..ReadSizes(d)[s] - 1,
         "Data.Delay" \in DOMAIN d.vars, ~Contains(d.vars["Data.Delay"].labels, Unlabelled)
  PROVE  LET var == d.vars["Data.Delay"]
         IN  DelayAt(Opened(d), at["M"], at["R"])
               = var.data[Offset(var.labels, var.shape, at) + 1]
<1> DEFINE size == ReadSizes(d)
           f == Opened(d)
           var == d.vars["Data.Delay"]
           l == Found(d, size, "Data.Delay").layout
           M == size["M"]
           R == size["R"]
           m == at["M"]
           r == at["R"]
<1>1. Found(d, size, "Data.Delay") = [layout |-> l, data |-> var.data]
  BY DEF Found
<1>2. f.size = size /\ f.delay = var.data /\ f.delayLayout = l
  BY <1>1 DEF Opened
<1>3. Sized(size)
  BY ReadSized
<1>4. /\ l \in Range(Layouts(d.type, "Data.Delay"))
      /\ \/ var.labels = l /\ var.shape = Shape(size, l)
         \/ var.labels = <<>> /\ var.shape = <<>> /\ Len(l) = 1 /\ Shape(size, l) = <<1>>
  BY LabelledLayout
<1>5. var.data \in Seq(Nat) /\ Len(var.data) = Count(var.shape)
  <2>1. Variable(var)
    BY DiskFields
  <2>2. QED
    BY <2>1 DEF Variable
<1>6. m \in 0..M - 1 /\ r \in 0..R - 1
  BY DEF Sizes
<1> HIDE DEF l, f, var, size
<1>7. l \in DelayLayouts
  BY <1>4, LayoutsAre DEF DelayLayouts
<1>8. Count(var.shape) = Count(Shape(size, l))
  <2>1. Count(<<>>) = 1 /\ Count(<<1>>) = 1
    BY CountOne
  <2>2. QED
    BY <1>4, <2>1
<1>9. Count(Shape(size, l)) \in Nat \ {0}
  <2>1. M \in Nat \ {0} /\ R \in Nat \ {0}
    BY <1>3, AxisSizes
  <2>2. M * R \in Nat \ {0}
    BY <2>1, ProductPositive
  <2>3. QED
    BY <1>3, <1>7, <2>1, <2>2, LayoutCounts DEF DelayLayouts
<1>10. f.delay # <<>> /\ DelayAxes(f) = l
  <2>1. l # NoLayout
    <3>1. IsLayout(l)
      BY <1>4, LayoutsWell DEF Variables
    <3>2. QED
      BY <3>1, LayoutNotEmpty
  <2>2. Len(f.delay) = Count(Shape(size, l))
    BY <1>2, <1>5, <1>8
  <2>3. f.delay # <<>>
    BY <1>9, <2>2
  <2>4. QED
    BY <1>2, <2>1, <2>2, <2>3 DEF DelayAxes
<1>11. DelayAt(f, m, r) = IF l = <<"M", "R">> THEN var.data[m * R + r + 1]
                          ELSE IF l = <<"M">> THEN var.data[m + 1]
                          ELSE IF l = <<"I">> THEN var.data[1] ELSE var.data[r + 1]
  BY <1>2, <1>7, <1>10, DelayAtBy
<1>12. CASE var.labels = l /\ var.shape = Shape(size, l)
  <2> DEFINE x == Offset(var.labels, var.shape, at)
  <2>1. x = IF l = <<"M", "R">> THEN m * R + r
            ELSE IF l = <<"M">> THEN m ELSE IF l = <<"I">> THEN 0 ELSE r
    <3>1. /\ Offset(<<"I">>, Shape(size, <<"I">>), at) = 0
          /\ Offset(<<"M">>, Shape(size, <<"M">>), at) = m
          /\ Offset(<<"R">>, Shape(size, <<"R">>), at) = r
          /\ Offset(<<"I", "R">>, Shape(size, <<"I", "R">>), at) = r
          /\ Offset(<<"M", "R">>, Shape(size, <<"M", "R">>), at) = m * R + r
      BY <1>3, Offsets
    <3>2. x = Offset(l, Shape(size, l), at)
      BY <1>12
    <3> HIDE DEF x, m, r, R
    <3>3. QED
      BY <1>7, <3>1, <3>2 DEF DelayLayouts
  <2> HIDE DEF x
  <2>2. DelayAt(f, m, r) = var.data[x + 1]
    BY <1>11, <2>1
  <2>3. QED
    BY <2>2 DEF x, f, var
<1>13. CASE var.labels = <<>> /\ var.shape = <<>> /\ Len(l) = 1 /\ Shape(size, l) = <<1>>
  <2>1. Offset(var.labels, var.shape, at) = 0
    BY <1>3, <1>13, Offsets
  <2>2. l \in {<<"I">>, <<"M">>, <<"R">>}
    BY <1>7, <1>13 DEF DelayLayouts
  <2>3. l = <<"M">> => m = 0
    <3>1. SUFFICES ASSUME l = <<"M">> PROVE m = 0
      OBVIOUS
    <3>2. Shape(size, <<"M">>) = <<M>>
      BY <1>3, AxisSizes, ShapeShort
    <3>3. <<M>> = <<1>>
      BY <1>13, <3>1, <3>2
    <3>4. M = 1
      BY <3>3
    <3>5. QED
      BY <1>6, <3>4
  <2>4. l = <<"R">> => r = 0
    <3>1. SUFFICES ASSUME l = <<"R">> PROVE r = 0
      OBVIOUS
    <3>2. Shape(size, <<"R">>) = <<R>>
      BY <1>3, AxisSizes, ShapeShort
    <3>3. <<R>> = <<1>>
      BY <1>13, <3>1, <3>2
    <3>4. R = 1
      BY <3>3
    <3>5. QED
      BY <1>6, <3>4
  <2>5. DelayAt(f, m, r) = var.data[1]
    <3>1. /\ <<"I">> # <<"M", "R">> /\ <<"M">> # <<"M", "R">> /\ <<"R">> # <<"M", "R">>
          /\ <<"I">> # <<"M">> /\ <<"R">> # <<"M">> /\ <<"R">> # <<"I">>
      OBVIOUS
    <3> HIDE DEF m, r, R
    <3>2. CASE l = <<"I">>
      BY <1>11, <3>1, <3>2
    <3>3. CASE l = <<"M">>
      <4>1. m + 1 = 1
        BY <2>3, <3>3
      <4>2. QED
        BY <1>11, <3>1, <3>3, <4>1
    <3>4. CASE l = <<"R">>
      <4>1. r + 1 = 1
        BY <2>4, <3>4
      <4>2. QED
        BY <1>11, <3>1, <3>4, <4>1
    <3>5. QED
      BY <2>2, <3>2, <3>3, <3>4
  <2>6. DelayAt(f, m, r) = var.data[Offset(var.labels, var.shape, at) + 1]
    BY <2>1, <2>5
  <2>7. QED
    BY <2>6 DEF f, var
<1>14. QED
  BY <1>4, <1>12, <1>13

\* Another program's file means what its labels say, for every size it may
\* declare and every value: each element of the audio data and of the delay
\* that Open finds is the one the labels of its axes name (resolveLayout, the
\* transposition of TF-E data and DelayAt), also where sizes coincide.
THEOREM LabelsAreFollowed == Spec => []OpenedAsLabelled
<1>1. Inv => OpenedAsLabelled
  <2>1. SUFFICES ASSUME Inv, disk # Nothing, Readable(disk),
                        NEW v \in DOMAIN disk.vars \cap {"Data", "Data.Delay"},
                        ~Contains(disk.vars[v].labels, Unlabelled),
                        NEW m \in 0..Opened(disk).size["M"] - 1,
                        NEW r \in 0..Opened(disk).size["R"] - 1,
                        NEW e \in 0..Opened(disk).size["E"] - 1,
                        NEW n \in 0..Opened(disk).size["N"] - 1
                 PROVE  LET f == Opened(disk)
                            mem == MemoryLayout(f.type)
                            var == disk.vars[v]
                            at == [s \in Sizes |-> CASE s = "M" -> m [] s = "R" -> r
                                                      [] s = "E" -> e [] s = "N" -> n]
                            value == var.data[Offset(var.labels, var.shape, at) + 1]
                        IN  IF v = "Data"
                            THEN f.audio.data[Offset(mem, f.audio.shape, at) + 1] = value
                            ELSE DelayAt(f, m, r) = value
    BY DEF OpenedAsLabelled
  <2> DEFINE at == [s \in Sizes |-> CASE s = "M" -> m [] s = "R" -> r
                                       [] s = "E" -> e [] s = "N" -> n]
             size == ReadSizes(disk)
  <2>2. DiskOK(disk)
    BY <2>1 DEF Inv
  <2>3. Opened(disk).size = size
    BY DEF Opened
  <2>4. Sized(size)
    BY <2>1, <2>2, ReadSized
  <2> HIDE DEF size
  <2>5. /\ m \in 0..size["M"] - 1 /\ r \in 0..size["R"] - 1
        /\ e \in 0..size["E"] - 1 /\ n \in 0..size["N"] - 1
    BY <2>3
  <2>6. /\ at["M"] = m /\ at["R"] = r /\ at["E"] = e /\ at["N"] = n
        /\ at = [s \in Sizes |-> at[s]]
    BY DEF Sizes
  <2> HIDE DEF at
  <2>7. at \in [Sizes -> Nat] /\ \A s \in Sizes : at[s] \in 0..size[s] - 1
    <3>1. \A s \in Sizes : s = "M" \/ s = "R" \/ s = "E" \/ s = "N"
      BY DEF Sizes
    <3>2. \A s \in Sizes : size[s] \in Nat
      BY <2>4 DEF Sized
    <3>3. \A s \in Sizes : at[s] \in 0..size[s] - 1
      BY <2>5, <2>6, <3>1
    <3>4. \A s \in Sizes : at[s] \in Nat
      BY <3>2, <3>3
    <3>5. QED
      BY <2>6, <3>3, <3>4
  <2>8. CASE v = "Data"
    <3>1. LET f == Opened(disk)
              var == disk.vars["Data"]
          IN  f.audio.data[Offset(MemoryLayout(f.type), f.audio.shape, at) + 1]
                = var.data[Offset(var.labels, var.shape, at) + 1]
      BY <2>1, <2>2, <2>7, <2>8, AudioAsLabelled DEF size
    <3>2. QED
      BY <2>8, <3>1 DEF at
  <2>9. CASE v = "Data.Delay"
    <3>1. LET var == disk.vars["Data.Delay"]
          IN  DelayAt(Opened(disk), at["M"], at["R"])
                = var.data[Offset(var.labels, var.shape, at) + 1]
      BY <2>1, <2>2, <2>7, <2>9, DelayAsLabelled DEF size
    <3>2. DelayAt(Opened(disk), m, r)
            = disk.vars[v].data[Offset(disk.vars[v].labels, disk.vars[v].shape, at) + 1]
      BY <2>6, <2>9, <3>1
    <3>3. v # "Data"
      BY <2>9
    <3>4. QED
      BY <3>2, <3>3 DEF at
  <2>10. QED
    BY <2>8, <2>9
<1>2. QED
  BY <1>1, RoundTripInvariant, PTL

=============================================================================
