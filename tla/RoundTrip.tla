----------------------------- MODULE RoundTrip -----------------------------
(***************************************************************************)
(* A caller who opens, edits and saves a File, in any order.  The file on  *)
(* disk is another program's at first, or there is none.  What Save writes *)
(* and Open reads is in StoredData, that Save replaces the file in one     *)
(* step in AtomicSave.                                                     *)
(***************************************************************************)
EXTENDS StoredData

CONSTANTS Shapes,   \* the sizes <<M, R, E, N>> Files are made with
          Types,    \* the DataTypes, of "FIR", "TF", "TFE" and "SOS"
          Nothing,  \* no File yet, no file yet
          MaxEdits  \* bound on the caller's edits

ASSUME ShapesGiven == \A s \in Shapes : Len(s) = 4 /\ \A d \in 1..4 : s[d] \in 1..MaxElements
ASSUME TypesGiven == Types \subseteq {"FIR", "TF", "TFE", "SOS"}
ASSUME EditsGiven == MaxEdits \in Nat

VARIABLES file,    \* the File in memory
          disk,    \* the file at the path
          changed, \* ghost: the delay was set since the File was opened or made
          edits    \* ghost: how many edits there were

vars == <<file, disk, changed, edits>>

-----------------------------------------------------------------------------
(* Files to begin with.  Values are numbered, so that one in another's     *)
(* place is seen.                                                          *)

Numbered(n) == [i \in 1..n |-> i]
Rows(n) == [i \in 1..n |-> <<3 * i + 1, 3 * i + 2, 3 * i + 3>>]

SizeOf(shape) ==
  [d \in Sizes |-> shape[CASE d = "M" -> 1 [] d = "R" -> 2 [] d = "E" -> 3 [] d = "N" -> 4]]

\* The audio fields of a File with the given sizes, and its frequencies.
Audio(size, type) ==
  LET shape == Shape(size, MemoryLayout(type))
  IN  [shape |-> shape, data |-> Numbered(Count(shape))]
Frequencies(size, type) == IF Rated(type) THEN <<>> ELSE [i \in 1..size["N"] |-> 7 + i]

Fresh(size, type) ==
  [size |-> size, type |-> type,
   audio |-> Audio(size, type), freqs |-> Frequencies(size, type),
   rate |-> IF Rated(type) THEN <<5>> ELSE <<>>, delay |-> <<>>, delayLayout |-> NoLayout,
   pos |-> [p \in Positions |->
              Rows(IF p \in {"SourcePosition", "ReceiverPosition"} THEN 1 ELSE 0)],
   posM |-> [p \in Positions |-> <<>>],
   one |-> [o \in Orientations |-> Origin],
   all |-> [o \in Orientations |-> <<>>]]

FreshFiles == {Fresh(SizeOf(s), t) : s \in Shapes, t \in Types}

\* Other programs leave axes without a scale, or attach one of a name SOFA
\* does not have to the last axis; write the number of elements in NAME, in
\* the scale's only value, or leave it to the scale's length; store TF-E data
\* with the frequencies last, and the delay in any layout, or flat; have no
\* emitter positions.
Labelled(d, how) ==
  [d EXCEPT !.vars =
     [v \in DOMAIN d.vars |->
        LET l == d.vars[v].labels
        IN  [d.vars[v] EXCEPT !.labels =
               IF how = "all" THEN l
               ELSE IF how = "last" THEN [l EXCEPT ![Len(l)] = Unlabelled]
               ELSE [i \in DOMAIN l |-> Unlabelled]]]]

Scaled(d, s, form) ==
  [d EXCEPT !.scales[s] =
     IF form = "unlimited" THEN [@ EXCEPT !.n = 0]
                           ELSE [name |-> "none", n |-> 0, data |-> <<@.n>>]]

WithoutEmitter(d) ==
  [d EXCEPT !.vars = [v \in DOMAIN d.vars \ {"EmitterPosition"} |-> d.vars[v]]]

StoredAs(layout, size) ==
  LET shape == Shape(size, layout)
  IN  [labels |-> layout, shape |-> shape, data |-> Numbered(Count(shape))]

WithAudio(d, size, layout) == [d EXCEPT !.vars["Data"] = StoredAs(layout, size)]

FlatDelay(size) ==
  LET n == size["M"] * size["R"]
  IN  [labels |-> <<Unlabelled>>, shape |-> <<n>>, data |-> Numbered(n)]

WithDelays(d, size) ==
  IF ~Rated(d.type) THEN {d}
  ELSE {[d EXCEPT !.vars["Data.Delay"] = delay] :
          delay \in {StoredAs(l, size) : l \in Range(Layouts(d.type, "Data.Delay"))}
                      \cup {FlatDelay(size)}}

ForeignFiles ==
  LET own == {Stored(f) : f \in FreshFiles}
      variants(d) == UNION {WithDelays(WithAudio(d, ReadSizes(d), l), ReadSizes(d)) :
                              l \in Range(Layouts(d.type, "Data"))}
  IN  {Labelled(d, how) : d \in UNION {variants(d) : d \in own},
                          how \in {"all", "last", "none"}}
        \cup {Scaled(d, s, form) : d \in own \cup {WithoutEmitter(d) : d \in own},
                                   s \in {"M", "E"}, form \in {"unlimited", "scalar"}}

Init ==
  /\ \/ file = Nothing /\ disk \in ForeignFiles
     \/ file \in FreshFiles /\ disk = Nothing
  /\ changed = FALSE /\ edits = 0

-----------------------------------------------------------------------------
(* The caller edits the File's fields.                                     *)

Edit(f) ==
  /\ file # Nothing /\ edits < MaxEdits
  /\ edits' = edits + 1
  /\ file' = f
  /\ UNCHANGED disk

\* Fields that have no bearing on one another are edited first (a bound).
EditFirst(f) == edits = 0 /\ Edit(f) /\ UNCHANGED changed

Lengths == 0..2

\* Other sizes, and audio data and frequencies to match; the rest stays.
Resize ==
  /\ \E s \in Shapes :
       Edit([file EXCEPT !.size = SizeOf(s), !.audio = Audio(SizeOf(s), file.type),
                         !.freqs = Frequencies(SizeOf(s), file.type)])
  /\ UNCHANGED changed

SetDelay ==
  /\ \E n \in Lengths \cup {4} : Edit([file EXCEPT !.delay = [i \in 1..n |-> 50 + i]])
  /\ changed' = TRUE

SetRate ==
  \E n \in Lengths : EditFirst([file EXCEPT !.rate = Numbered(n)])

SetPositions ==
  \E p \in Positions, n \in Lengths : EditFirst([file EXCEPT !.pos[p] = Rows(n)])

SetPerMeasurement ==
  \E p \in {"ReceiverPosition", "EmitterPosition"}, m \in Lengths, n \in Lengths :
    EditFirst([file EXCEPT !.posM[p] = [i \in 1..m |-> [j \in 1..n |-> Rows(16)[4 * (i - 1) + j]]]])

SetOrientation ==
  \E o \in Orientations, n \in Lengths :
    EditFirst([file EXCEPT !.all[o] = Rows(n), !.one[o] = Rows(1)[1]])

\* Save refuses a File that is not valid, and leaves the path alone.
Save ==
  /\ file # Nothing /\ Valid(file)
  /\ disk' = Stored(file)
  /\ UNCHANGED <<file, changed, edits>>

Open ==
  /\ disk # Nothing /\ Readable(disk)
  /\ file' = Opened(disk)
  /\ changed' = FALSE
  /\ UNCHANGED <<disk, edits>>

Next ==
  \/ Resize \/ SetDelay \/ SetRate \/ SetPositions \/ SetPerMeasurement
  \/ SetOrientation \/ Save \/ Open

Spec == Init /\ [][Next]_vars

-----------------------------------------------------------------------------
(* Properties.                                                             *)

Opens(f) == Valid(f) /\ Count(f.size) <= MaxElements

\* What a caller sees of a File through its fields and accessors.
View(f) ==
  [size |-> f.size, type |-> f.type, audio |-> f.audio, freqs |-> f.freqs,
   rate |-> IF Rated(f.type) THEN [m \in 0..f.size["M"] - 1 |-> SamplingRateAt(f, m)]
                             ELSE <<>>,
   delay |-> IF Rated(f.type)
             THEN [m \in 0..f.size["M"] - 1 |-> [r \in 0..f.size["R"] - 1 |-> DelayAt(f, m, r)]]
             ELSE <<>>,
   positions |-> [p \in Positions |->
                    IF f.posM[p] # <<>> THEN f.posM[p] ELSE SavedPositions(f, p)],
   orientations |-> [o \in Orientations |->
                       IF f.all[o] # <<>> THEN f.all[o] ELSE <<SavedVector(f, o)>>]]

\* A File Open returned has sizes a caller can rely on.
TypeOK ==
  /\ file # Nothing =>
       /\ file.type \in Types
       /\ \A d \in Sizes : file.size[d] \in 1..MaxElements
  /\ changed \in BOOLEAN
  /\ edits \in 0..MaxEdits

\* Save never hands HDF5 a variable whose values do not fill its shape: what
\* validate lets pass, every layout Save may pick for it can hold.
SavedFits ==
  file # Nothing /\ Valid(file) =>
    LET stored == Stored(file).vars
    IN  \A v \in DOMAIN stored : Len(stored[v].data) = Count(stored[v].shape)

\* Whatever was opened and edited before, what Save wrote Open reads, and
\* every accessor answers as it did before the round trip ("DelayAt answers
\* the same before and after the round trip", sofa_conformance_test.go:101).
SaveThenOpen ==
  file # Nothing /\ Opens(file) =>
    LET stored == Stored(file)
    IN  Readable(stored) /\ View(Opened(stored)) = View(file)

\* Saving what was just saved and opened writes the same variables again:
\* no axis is swapped, no delay broadcast, no default added twice.
ResaveIsStable ==
  file # Nothing /\ Opens(file) =>
    LET stored == Stored(file) IN Stored(Opened(stored)) = stored

\* The offset of coordinates at in row-major order, dimension by dimension.
Offset(layout, shape, at) ==
  LET offset[i \in 0..Len(layout)] ==
        IF i = 0 THEN 0
        ELSE offset[i - 1] * shape[i] + (IF layout[i] \in Sizes THEN at[layout[i]] ELSE 0)
  IN  offset[Len(layout)]

\* Another program's file means what its labels say: when every axis is
\* labelled, Open puts each value of the audio data and of the delay where
\* the labels put it, also where sizes coincide (E = N, M = R).
OpenedAsLabelled ==
  disk # Nothing /\ Readable(disk) =>
    LET f == Opened(disk)
        mem == MemoryLayout(f.type)
    IN  \A v \in DOMAIN disk.vars \cap {"Data", "Data.Delay"} :
          LET var == disk.vars[v]
          IN  ~Contains(var.labels, Unlabelled) =>
                \A m \in 0..f.size["M"] - 1, r \in 0..f.size["R"] - 1,
                   e \in 0..f.size["E"] - 1, n \in 0..f.size["N"] - 1 :
                  LET at == [d \in Sizes |->
                               CASE d = "M" -> m [] d = "R" -> r [] d = "E" -> e [] d = "N" -> n]
                      value == var.data[Offset(var.labels, var.shape, at) + 1]
                  IN  IF v = "Data" THEN f.audio.data[Offset(mem, f.audio.shape, at) + 1] = value
                                    ELSE DelayAt(f, m, r) = value

\* "For ... a Delay changed since, the layout its length implies"
\* (sofa_accessors.go:132-136).  Not so: the layout that was read stays while
\* the number of values is one it could have.
ChangedDelayByLength ==
  changed /\ file.delay # <<>> =>
    DelayAxes(file) = DelayDims(Len(file.delay), file.size["M"], file.size["R"])

-----------------------------------------------------------------------------
(* Why they hold: an inductive invariant.                                  *)

Vector == [1..3 -> Nat]

\* What the fields of a File may hold, whether Save accepts it or not: the
\* values fill the shape, and only receivers and emitters have positions for
\* each measurement.
FileOK(f) ==
  /\ f \in [size : [Sizes -> 1..MaxElements], type : Types,
            audio : [shape : Seq(Nat), data : Seq(Nat)], freqs : Seq(Nat), rate : Seq(Nat),
            delay : Seq(Nat), delayLayout : {NoLayout} \cup Range(Layouts("FIR", "Data.Delay")),
            pos : [Positions -> Seq(Vector)], posM : [Positions -> Seq(Seq(Vector))],
            one : [Orientations -> Vector], all : [Orientations -> Seq(Vector)]]
  /\ Len(f.audio.data) = Count(f.audio.shape)
  /\ Rated(f.type) => f.freqs = <<>>
  /\ \A p \in Positions : f.posM[p] # <<>> => ObjectDim(p) # "M"

AxisLabels == Sizes \cup {"C", "I", Unlabelled}

\* What a file may hold, whether Open accepts it or not.
DiskOK(d) ==
  /\ d = [type |-> d.type, scales |-> d.scales, vars |-> [v \in DOMAIN d.vars |-> d.vars[v]]]
  /\ d.type \in Types
  /\ d.scales \in [Sizes -> [name : {"size", "label", "none"}, n : Nat, data : Seq(Nat)]]
  /\ DOMAIN d.vars \subseteq VariablesOf(d.type)
  /\ \A v \in DOMAIN d.vars :
       /\ d.vars[v] \in [labels : Seq(AxisLabels), shape : Seq(Nat), data : Seq(Nat)]
       /\ Len(d.vars[v].labels) = Len(d.vars[v].shape)
       /\ Len(d.vars[v].data) = Count(d.vars[v].shape)

Inv ==
  /\ file # Nothing => FileOK(file)
  /\ disk # Nothing => DiskOK(disk)
=============================================================================
