----------------------------- MODULE StoredData -----------------------------
(***************************************************************************)
(* How Save lays a File out as dimension scales and variables (sofa.go,    *)
(* sofa_netcdf.go, sofa_accessors.go) and how Open finds its way back from *)
(* a file, its own or a third party's (sofa_shapes.go, sofa_spatial.go).   *)
(*                                                                         *)
(* A File is a record; a stored file has the DataType, one scale for each  *)
(* of M, R, E, N and the variables by name.  A variable has a shape, its   *)
(* values in row-major order and, for each axis, the scale attached to it. *)
(* "Data" stands for Data.IR, Data.SOS, or Data.Real and Data.Imag, which  *)
(* are written and read alike.  Attributes and extras are left out.        *)
(***************************************************************************)
EXTENDS Integers, Sequences, SequencesExt

CONSTANT MaxElements  \* maxDataElements: the most a file may declare

ASSUME LimitGiven == MaxElements \in Nat \ {0}

Sizes == {"M", "R", "E", "N"}
Positions == {"ListenerPosition", "ReceiverPosition", "SourcePosition",
              "EmitterPosition"}
Orientations == {"ListenerView", "ListenerUp"}

NoLayout == <<>>
Unlabelled == ""  \* an axis no scale is attached to

AxisSize(size, d) == IF d \in Sizes THEN size[d] ELSE IF d = "C" THEN 3 ELSE 1

Shape(size, layout) == [i \in DOMAIN layout |-> AxisSize(size, layout[i])]

\* The number of values of a shape: layoutSize, dimProduct.
Count(shape) == FoldFunction(LAMBDA n, p : n * p, 1, shape)

Rated(type) == type \in {"FIR", "SOS"}

MRN == <<"M", "R", "N">>
MREN == <<"M", "R", "E", "N">>
MRNE == <<"M", "R", "N", "E">>

\* The nesting of the audio fields, flattened and reshaped row by row.
MemoryLayout(type) == IF type = "TFE" THEN MREN ELSE MRN

\* The dimension whose elements have a position each.
ObjectDim(p) ==
  IF p = "ReceiverPosition" THEN "R" ELSE IF p = "EmitterPosition" THEN "E" ELSE "M"

\* [outer][a][b] turned into [outer][b][a], outer being what is left.
SwapLastAxes(flat, a, b) ==
  [k \in DOMAIN flat |->
     LET o == (k - 1) \div (a * b)
         j == ((k - 1) % (a * b)) \div a
         i == (k - 1) % a
     IN  flat[o * a * b + i * b + j + 1]]

-----------------------------------------------------------------------------
(* The delay, which is stored in one of five layouts.                      *)

\* The layout the number of values implies.
DelayDims(n, m, r) ==
  IF n = 1 THEN <<"I">>
  ELSE IF n = m * r THEN <<"M", "R">>
  ELSE IF n = m THEN <<"M">> ELSE <<"R">>

\* The layout Open found, as long as the delay still fits it.
DelayAxes(f) ==
  IF f.delayLayout # NoLayout /\ Count(Shape(f.size, f.delayLayout)) = Len(f.delay)
  THEN f.delayLayout
  ELSE DelayDims(Len(f.delay), f.size["M"], f.size["R"])

\* DelayAt, for m and r in range and a delay that fits its layout.
DelayAt(f, m, r) ==
  LET axes == DelayAxes(f)
  IN  IF f.delay = <<>> THEN 0
      ELSE IF axes = <<"M", "R">> THEN f.delay[m * f.size["R"] + r + 1]
      ELSE IF Contains(axes, "M") THEN f.delay[m + 1]
      ELSE IF Contains(axes, "R") THEN f.delay[r + 1]
      ELSE f.delay[1]

\* Data.Delay in a layout AES69 allows, broadcast where it has one axis.
WrittenDelay(f) ==
  LET axes == DelayAxes(f)
      R == f.size["R"]
      rows == IF Contains(axes, "M") THEN f.size["M"] ELSE 1
  IN  IF f.delay = <<>> THEN [layout |-> <<"I", "R">>, data |-> [r \in 1..R |-> 0]]
      ELSE IF Len(axes) = 2 THEN [layout |-> axes, data |-> f.delay]
      ELSE [layout |-> <<IF Contains(axes, "M") THEN "M" ELSE "I", "R">>,
            data |-> [k \in 1..rows * R |-> DelayAt(f, (k - 1) \div R, (k - 1) % R)]]

\* SamplingRateAt, for m in range and one rate or one for each measurement.
SamplingRateAt(f, m) == f.rate[IF Len(f.rate) = 1 THEN 1 ELSE m + 1]

-----------------------------------------------------------------------------
(* What Save writes.                                                       *)

\* Defaults of what may be left empty; a vector has three components.
Origin == <<0, 0, 0>>
DefaultVector(o) == IF o = "ListenerView" THEN <<1, 0, 0>> ELSE <<0, 0, 1>>

SavedPositions(f, p) ==
  IF p \in {"ListenerPosition", "EmitterPosition"} /\ f.pos[p] = <<>> /\ f.posM[p] = <<>>
  THEN <<Origin>> ELSE f.pos[p]

SavedVector(f, o) == IF f.one[o] = Origin THEN DefaultVector(o) ELSE f.one[o]

\* Rows are one for each element of a dimension, or constant.
RowDim(n, dim, size) == IF n = size THEN dim ELSE "I"

Flat(vectors) ==
  [k \in 1..3 * Len(vectors) |-> vectors[(k - 1) \div 3 + 1][((k - 1) % 3) + 1]]

\* The order of a variable [rows, C, M].
FlatPerM(perM) ==
  LET m == Len(perM)
  IN  [k \in 1..Len(perM[1]) * 3 * m |->
         perM[((k - 1) % m) + 1][(k - 1) \div (3 * m) + 1][(((k - 1) \div m) % 3) + 1]]

\* A bug: TF-E data is written as it is nested.
BugWrittenAudio(f) == [layout |-> MRNE, data |-> f.audio.data]
\* The audio variable's layout and values.
WrittenAudio(f) ==
  IF f.type = "TFE"
  THEN [layout |-> MRNE, data |-> SwapLastAxes(f.audio.data, f.size["E"], f.size["N"])]
  ELSE [layout |-> MRN, data |-> f.audio.data]

WrittenPosition(f, p) ==
  LET saved == SavedPositions(f, p)
      perM == f.posM[p]
      dim == ObjectDim(p)
      rows(n) == RowDim(n, dim, f.size[dim])
  IN  IF perM # <<>>
      THEN [layout |-> <<rows(Len(perM[1])), "C", "M">>, data |-> FlatPerM(perM)]
      ELSE [layout |-> <<rows(Len(saved)), "C">> \o (IF dim = "M" THEN <<>> ELSE <<"I">>),
            data |-> Flat(saved)]

WrittenOrientation(f, o) ==
  IF f.all[o] # <<>> THEN [layout |-> <<"M", "C">>, data |-> Flat(f.all[o])]
                     ELSE [layout |-> <<"I", "C">>, data |-> SavedVector(f, o)]

Written(f, v) ==
  IF v = "Data" THEN WrittenAudio(f)
  ELSE IF v = "Data.SamplingRate"
       THEN [layout |-> <<RowDim(Len(f.rate), "M", f.size["M"])>>, data |-> f.rate]
  ELSE IF v = "Data.Delay" THEN WrittenDelay(f)
  ELSE IF v \in Positions THEN WrittenPosition(f, v)
  ELSE WrittenOrientation(f, v)

VariablesOf(type) ==
  {"Data"} \cup Positions \cup Orientations
    \cup (IF Rated(type) THEN {"Data.SamplingRate", "Data.Delay"} ELSE {})

\* A bug: the scale of /N is named like those of M, R and E.
BugWrittenScale(f, d) ==
  IF d = "N" /\ ~Rated(f.type) THEN [name |-> "none", n |-> 0, data |-> f.freqs]
  ELSE [name |-> "size", n |-> f.size[d], data |-> [i \in 1..f.size[d] |-> 0]]
\* A scale's netCDF NAME holds the dimension's size, or its label where the
\* frequencies are its values.
WrittenScale(f, d) ==
  IF d = "N" /\ ~Rated(f.type) THEN [name |-> "label", n |-> 0, data |-> f.freqs]
  ELSE [name |-> "size", n |-> f.size[d], data |-> [i \in 1..f.size[d] |-> 0]]

\* Every axis is attached to the scale of its dimension, which its size is.
Stored(f) ==
  [type |-> f.type,
   scales |-> [d \in Sizes |-> WrittenScale(f, d)],
   vars |-> [v \in VariablesOf(f.type) |->
               LET w == Written(f, v)
               IN  [labels |-> w.layout, shape |-> Shape(f.size, w.layout),
                    data |-> w.data]]]

-----------------------------------------------------------------------------
(* What Save refuses (validate, without the values and the metadata).      *)

AudioFits(f) ==
  /\ f.audio.shape = Shape(f.size, MemoryLayout(f.type))
  /\ f.type = "SOS" => f.size["N"] % 6 = 0
  /\ IF Rated(f.type)
     THEN /\ Len(f.rate) \in {1, f.size["M"]}
          /\ Len(f.delay) \in {0, 1, f.size["M"], f.size["R"], f.size["M"] * f.size["R"]}
     ELSE Len(f.freqs) = f.size["N"]

PositionCountsFit(f) ==
  \A p \in Positions :
    LET n == Len(SavedPositions(f, p))
    IN  IF n = 0 THEN f.posM[p] # <<>> ELSE n \in {1, f.size[ObjectDim(p)]}

\* A bug: the width of the rows is not looked at.
BugPerMeasurementFits(f) ==
  /\ \A p \in Positions : f.posM[p] # <<>> => Len(f.posM[p]) = f.size["M"]
  /\ \A o \in Orientations : Len(f.all[o]) \in {0, f.size["M"]}
PerMeasurementFits(f) ==
  /\ \A p \in Positions :
       f.posM[p] # <<>> =>
         /\ Len(f.posM[p]) = f.size["M"]
         /\ Len(f.posM[p][1]) \in {1, f.size[ObjectDim(p)]}
         /\ \A i \in DOMAIN f.posM[p] : Len(f.posM[p][i]) = Len(f.posM[p][1])
  /\ \A o \in Orientations : Len(f.all[o]) \in {0, f.size["M"]}

Valid(f) ==
  /\ \A d \in Sizes : f.size[d] > 0
  /\ AudioFits(f) /\ PositionCountsFit(f) /\ PerMeasurementFits(f)

-----------------------------------------------------------------------------
(* What Open reads.                                                        *)

\* A size in NAME counts unless it is 0, as netCDF leaves it for an unlimited
\* dimension.  A coordinate variable's values are not its size.
ReadDimension(scale) ==
  IF scale.name = "size" /\ scale.n # 0 THEN scale.n
  ELSE IF Len(scale.data) # 1 \/ scale.name = "label" THEN Len(scale.data)
  ELSE scale.data[1]

\* A bug: a size of 0 passes.
BugCheckDimension(n) == n <= MaxElements
CheckDimension(n) == n \in 1..MaxElements

\* dimensionLabels: the scales attached to a variable's axes, up to the last
\* axis that has one; none when an axis before it has none.
DimensionLabels(var) ==
  LET labelled == {i \in DOMAIN var.labels : var.labels[i] # Unlabelled}
      l == SubSeq(var.labels, 1, IF labelled = {} THEN 0 ELSE Max(labelled))
  IN  IF Contains(l, Unlabelled) THEN NoLayout ELSE l

\* A bug: the labels are ignored.
BugLayoutFits(size, var, l) == var.shape = Shape(size, l)
\* The sizes match and so do the labels, if there are any.
LayoutFits(size, var, l) ==
  /\ (IF var.shape = <<>> THEN <<1>> ELSE var.shape) = Shape(size, l)
  /\ DimensionLabels(var) \in {NoLayout, l}

\* The layouts Open accepts for a variable, in order of preference.
AudioLayouts(type) == IF type = "TFE" THEN <<MRNE, MREN>> ELSE <<MRN>>

PositionLayouts(v) ==
  LET x == ObjectDim(v)
  IN  IF v \in Orientations \/ x = "M" THEN <<<<"I", "C">>, <<"M", "C">>>>
      ELSE <<<<x, "C">>, <<"I", "C">>, <<x, "C", "I">>, <<"I", "C", "I">>,
             <<x, "C", "M">>, <<"I", "C", "M">>>>

Layouts(type, v) ==
  IF v = "Data" THEN AudioLayouts(type)
  ELSE IF v = "Data.SamplingRate" THEN <<<<"I">>, <<"M">>>>
  ELSE IF v = "Data.Delay"
       THEN <<<<"I", "R">>, <<"M", "R">>, <<"I">>, <<"M">>, <<"R">>>>
  ELSE PositionLayouts(v)

\* resolveLayout, and the flat delay of the first go-sofa; NoLayout if none fits.
ResolveLayout(size, type, v, var) ==
  LET layouts == Layouts(type, v)
      i == SelectInSeq(layouts, LAMBDA l : LayoutFits(size, var, l))
  IN  IF i # 0 THEN layouts[i]
      ELSE IF /\ v = "Data.Delay"
              /\ DimensionLabels(var) = NoLayout /\ var.shape = <<size["M"] * size["R"]>>
           THEN <<"M", "R">> ELSE NoLayout

ReadSizes(d) == [s \in Sizes |-> ReadDimension(d.scales[s])]

\* Open finds the sizes and a layout for every variable there is; the data,
\* and the frequencies where there is /N to hold them, must be there.
Readable(d) ==
  LET size == ReadSizes(d)
  IN  /\ \A s \in Sizes : CheckDimension(size[s])
      /\ Count(size) <= MaxElements
      /\ "Data" \in DOMAIN d.vars
      /\ \A v \in DOMAIN d.vars : ResolveLayout(size, d.type, v, d.vars[v]) # NoLayout
      /\ d.type = "SOS" => size["N"] % 6 = 0
      /\ ~Rated(d.type) => Len(d.scales["N"].data) = size["N"]

Vectors(data) ==
  [i \in 1..Len(data) \div 3 |-> [c \in 1..3 |-> data[3 * (i - 1) + c]]]

VectorsPerM(data, m) ==
  [i \in 1..m |-> [j \in 1..Len(data) \div (3 * m) |->
     [c \in 1..3 |-> data[((j - 1) * 3 + c - 1) * m + i]]]]

\* A variable as Open finds it in a readable file; one that is not there
\* leaves its fields empty.
Found(d, size, v) ==
  IF v \in DOMAIN d.vars
  THEN [layout |-> ResolveLayout(size, d.type, v, d.vars[v]),
        data |-> d.vars[v].data]
  ELSE [layout |-> NoLayout, data |-> <<>>]

\* The audio fields, TF-E data turned into its nesting.
ReadAudio(d, size) ==
  LET found == Found(d, size, "Data")
  IN  [shape |-> Shape(size, MemoryLayout(d.type)),
       data |-> IF found.layout = MRNE
                THEN SwapLastAxes(found.data, size["N"], size["E"]) ELSE found.data]

ReadFrequencies(d) == IF Rated(d.type) THEN <<>> ELSE d.scales["N"].data

\* The positions for each measurement, where the variable has them.
ReadPerMeasurement(d, size, p) ==
  LET found == Found(d, size, p)
  IN  IF Len(found.layout) = 3 /\ found.layout[3] = "M"
      THEN VectorsPerM(found.data, size["M"]) ELSE <<>>

ReadPositions(d, size, p) ==
  LET perM == ReadPerMeasurement(d, size, p)
  IN  IF perM # <<>> THEN perM[1] ELSE Vectors(Found(d, size, p).data)

ReadOrientations(d, size, o) ==
  IF Contains(Found(d, size, o).layout, "M") THEN Vectors(Found(d, size, o).data) ELSE <<>>

ReadVector(d, size, o) ==
  IF Found(d, size, o).data = <<>> THEN Origin ELSE Vectors(Found(d, size, o).data)[1]

\* The File Open returns for a readable file.
Opened(d) ==
  LET size == ReadSizes(d)
      delay == Found(d, size, "Data.Delay")
  IN  [size |-> size, type |-> d.type,
       audio |-> ReadAudio(d, size), freqs |-> ReadFrequencies(d),
       rate |-> Found(d, size, "Data.SamplingRate").data,
       delay |-> delay.data, delayLayout |-> delay.layout,
       pos |-> [p \in Positions |-> ReadPositions(d, size, p)],
       posM |-> [p \in Positions |-> ReadPerMeasurement(d, size, p)],
       one |-> [o \in Orientations |-> ReadVector(d, size, o)],
       all |-> [o \in Orientations |-> ReadOrientations(d, size, o)]]
=============================================================================
