----------------------------- MODULE ReadLimits -----------------------------
(***************************************************************************)
(* What a file may make Open and OpenLazy read (sofa_dataspace.go, read    *)
(* and readDimensions in sofa.go): the read budget, the sizes of the       *)
(* dimensions and the order in which the variables are read.               *)
(*                                                                         *)
(* A stored file has a DataType, the shape of each dataset in its root     *)
(* group, for M, R, E and N the netCDF NAME and the first value of the     *)
(* dataset (scale); which room variables are 0 (zero), which other         *)
(* datasets are dimension scales (scales) and which variables have a       *)
(* datatype that is no 4- or 8-byte number (odd); and a length in bytes.   *)
(* The layouts are those of StoredData.  Labels, which only choose among   *)
(* layouts, and attributes are left out.                                   *)
(***************************************************************************)
EXTENDS StoredData, FiniteSetsExt

CONSTANTS MinBudget,  \* the elements any file may make Open read
          PerByte,    \* and those each of its bytes stands for
          Word        \* 2^64, beyond which a product of sizes wraps

ASSUME BudgetGiven ==
  /\ MinBudget \in Nat /\ PerByte \in Nat /\ Word \in Nat
  /\ MaxElements + 1 < Word

VARIABLES
  opened,   \* the file both readers are given, a sequence of at most one
  todo,     \* what each reader has left to do
  sizes,    \* the dimensions it has found
  seen,     \* how often it has read each dataset
  outcome   \* "none" as long as it is busy, "ok", or why it failed

readVars == <<opened, todo, sizes, seen, outcome>>

Readers == {"Open", "OpenLazy"}

Limit == MaxElements + 1

\* A dataspace whose shape cannot be determined.
Unknown == <<-1>>

\* BUG: the sizes are multiplied without looking.
BugElementCount(shape) ==
  FoldLeft(LAMBDA n, d : Min({(n * d) % Word, Limit}), 1, shape)
\* The product of the sizes, or Limit as soon as it would be exceeded.
ElementCount(shape) ==
  LET times(n, d) == IF n < 0 \/ (d # 0 /\ n > Limit \div d) THEN -1
                     ELSE Min({(n * d) % Word, Limit})
      n == FoldLeft(times, 1, shape)
  IN  IF n < 0 THEN Limit ELSE n

\* defaultReadBudget.
Budget(bytes) == Max({MinBudget, PerByte * bytes})

AudioOf(type) ==
  IF type = "FIR" THEN <<"Data.IR">>
  ELSE IF type = "SOS" THEN <<"Data.SOS">> ELSE <<"Data.Real", "Data.Imag">>

RoomVariables == <<"RoomVolume", "RoomTemperature">>

\* The datasets whose elements are counted.
Counted(d, r) ==
  {v \in DOMAIN d.shape : d.shape[v] # Unknown}
    \ (IF r = "OpenLazy" THEN Range(AudioOf(d.type)) ELSE {})

WithinBudget(d, r) ==
  /\ \A v \in Counted(d, r) : ElementCount(d.shape[v]) <= MaxElements
  /\ SumFunction([v \in Counted(d, r) |-> ElementCount(d.shape[v])]) <= Budget(d.bytes)

-----------------------------------------------------------------------------
(* What read does once it knows the DataType, in order.                    *)

Each(what, vars) == [i \in DOMAIN vars |-> [do |-> what, var |-> vars[i]]]

AudioSteps(type, r) ==
  LET audio == Each(IF r = "OpenLazy" THEN "layout" ELSE "read", AudioOf(type))
      sections == IF type = "SOS" THEN Each("sections", <<"N">>) ELSE <<>>
      small == Each("read", IF Rated(type) THEN <<"Data.SamplingRate", "Data.Delay">> ELSE <<"N">>)
  IN  IF r = "OpenLazy" THEN sections \o audio \o small
      ELSE IF Rated(type) THEN audio \o sections \o small ELSE small \o audio

Spatial == <<"ListenerPosition", "ReceiverPosition", "SourcePosition", "EmitterPosition",
             "ListenerUp", "ListenerView">>

\* sofaDimensions.
Dimensions == Sizes \cup {"C", "I"}

\* What readExtras may read: whatever is no dimension or scale of one and Save
\* does not write in any case.
Extra(d) ==
  DOMAIN d.shape \ (Dimensions \cup d.scales \cup Range(AudioOf(d.type)) \cup Range(Spatial)
                      \cup IF Rated(d.type) THEN {"Data.SamplingRate", "Data.Delay"} ELSE {})

Plan(d, r) ==
  Each("budget", <<"">>) \o Each("dimension", <<"M", "R", "E", "N">>) \o Each("product", <<"">>)
    \o AudioSteps(d.type, r) \o Each("read", Spatial)
    \o Each("room", RoomVariables) \o Each("extra", SetToSeq(Extra(d)))

InitRead ==
  /\ opened = <<>>
  /\ todo = [r \in Readers |-> <<>>]
  /\ sizes = [r \in Readers |-> [s \in Sizes |-> 0]]
  /\ seen = [r \in Readers |-> <<>>]
  /\ outcome = [r \in Readers |-> "none"]

\* Open and OpenLazy are given d.
GivenTo(d) ==
  /\ opened = <<>>
  /\ opened' = <<d>>
  /\ todo' = [r \in Readers |-> Plan(d, r)]
  /\ seen' = [r \in Readers |-> [v \in DOMAIN d.shape |-> 0]]
  /\ UNCHANGED <<sizes, outcome>>

Given == opened[1]
There(v) == v \in DOMAIN Given.shape

\* r has this to do next.
At(r, what) == todo[r] # <<>> /\ Head(todo[r]).do = what
Var(r) == Head(todo[r]).var

Fails(r, why) ==
  /\ outcome' = [outcome EXCEPT ![r] = why]
  /\ todo' = [todo EXCEPT ![r] = <<>>]

\* Done with the first thing to do, and with all of it after the last one.
Goes(r) ==
  /\ todo' = [todo EXCEPT ![r] = Tail(@)]
  /\ outcome' = [outcome EXCEPT ![r] = IF Len(todo[r]) = 1 THEN "ok" ELSE @]

Reads(r, v) == seen' = [seen EXCEPT ![r][v] = @ + 1]

CheckReadBudget(r) ==
  /\ At(r, "budget")
  /\ IF WithinBudget(Given, r) THEN Goes(r) ELSE Fails(r, "too large")
  /\ UNCHANGED <<opened, sizes, seen>>

-----------------------------------------------------------------------------
(* readDimensions.                                                         *)

\* How many values a dataset holds when it is read.
Values(d, v) == IF d.shape[v] = Unknown THEN 0 ELSE Count(d.shape[v])

\* NAME holds a size; 0 is an unlimited dimension that was empty once.
Named(d, s) == d.scale[s].name = "size" /\ d.scale[s].n # 0

\* BUG: a single value is a size, though NAME says it is a coordinate.
BugSizeInData(d, s) == IF Values(d, s) = 1 THEN d.scale[s].value ELSE Values(d, s)
\* The size a dataset that was read gives its dimension: how many values
\* there are, or the only one unless NAME is a label.  A value that is no
\* whole number stands as 0, which is refused alike.
SizeInData(d, s) ==
  IF Values(d, s) = 1 /\ d.scale[s].name # "label" THEN d.scale[s].value ELSE Values(d, s)

Finds(r, s, size) ==
  IF size \in 1..MaxElements
  THEN Goes(r) /\ sizes' = [sizes EXCEPT ![r][s] = size]
  ELSE Fails(r, "dimension") /\ UNCHANGED sizes

FindDimension(r) ==
  /\ At(r, "dimension")
  /\ LET d == Given
         s == Var(r)
     IN  \/ /\ ~There(s)
            /\ Fails(r, "dimension") /\ UNCHANGED <<sizes, seen>>
         \/ /\ There(s) /\ Named(d, s)
            /\ Finds(r, s, d.scale[s].n) /\ UNCHANGED seen
         \/ /\ There(s) /\ ~Named(d, s)
            /\ \/ s \notin d.odd /\ Reads(r, s) /\ Finds(r, s, SizeInData(d, s))
               \/ Fails(r, "io") /\ UNCHANGED <<sizes, seen>>
  /\ UNCHANGED opened

\* dimProduct of all four.
CheckProduct(r) ==
  /\ At(r, "product")
  /\ IF Count(sizes[r]) <= MaxElements THEN Goes(r) ELSE Fails(r, "product")
  /\ UNCHANGED <<opened, sizes, seen>>

-----------------------------------------------------------------------------
(* The variables.                                                          *)

\* BUG: OpenLazy does not know the layout of the first go-sofa.
BugLazyLayouts(type) == IF type = "TFE" THEN <<MRNE>> ELSE <<MRN>>
\* The layouts prepareLazyAudio lists, which Open has elsewhere.
LazyLayouts(type) == IF type = "TFE" THEN <<MRNE, MREN>> ELSE <<MRN>>

\* The shape of v is one r allows for a file of that size.
Fits(d, size, r, v) ==
  LET var == [shape |-> d.shape[v], labels |-> NoLayout]
      among(layouts) == \E l \in Range(layouts) : LayoutFits(size, var, l)
  IN  /\ d.shape[v] # Unknown
      /\ IF v = "N" THEN among(<<<<"N">>>>)
         ELSE IF v \in Range(AudioOf(d.type))
              THEN among(IF r = "OpenLazy" THEN LazyLayouts(d.type) ELSE AudioLayouts(d.type))
         ELSE ResolveLayout(size, d.type, v, var) # NoLayout

\* A variable is read as a whole, once its layout is found.  Only the audio
\* must be there.
ReadVariable(r) ==
  /\ At(r, "read")
  /\ LET v == Var(r)
     IN  IF ~There(v)
         THEN /\ IF v \in Range(AudioOf(Given.type)) THEN Fails(r, "missing") ELSE Goes(r)
              /\ UNCHANGED seen
         ELSE IF ~Fits(Given, sizes[r], r, v) THEN Fails(r, "layout") /\ UNCHANGED seen
         ELSE IF v \in Given.odd THEN Fails(r, "datatype") /\ UNCHANGED seen
         ELSE \/ Reads(r, v) /\ Goes(r)
              \/ Fails(r, "io") /\ UNCHANGED seen
  /\ UNCHANGED <<opened, sizes>>

\* OpenLazy only looks at the layout, the datatype and the chunks of the audio;
\* asking for the last two may fail.
CheckLayout(r) ==
  /\ At(r, "layout")
  /\ IF ~There(Var(r)) THEN Fails(r, "missing")
     ELSE IF ~Fits(Given, sizes[r], r, Var(r)) THEN Fails(r, "layout")
     ELSE \/ IF Var(r) \in Given.odd THEN Fails(r, "datatype") ELSE Goes(r)
          \/ Fails(r, "io")
  /\ UNCHANGED <<opened, sizes, seen>>

\* Second-order sections have six coefficients each.
CheckSections(r) ==
  /\ At(r, "sections")
  /\ IF sizes[r]["N"] % 6 = 0 THEN Goes(r) ELSE Fails(r, "sections")
  /\ UNCHANGED <<opened, sizes, seen>>

\* readRoomScalars takes what it can get.
ReadRoom(r) ==
  /\ At(r, "room")
  /\ Goes(r)
  /\ \/ There(Var(r)) /\ Var(r) \notin Given.odd /\ Reads(r, Var(r))
     \/ UNCHANGED seen
  /\ UNCHANGED <<opened, sizes>>

\* The variable is one Save will write itself: a room variable that was read
\* and is not 0.
Owned(r, v) == v \in Range(RoomVariables) /\ seen[r][v] > 0 /\ v \notin Given.zero

\* readExtras drops a variable it cannot read and goes on; a scalar one, one
\* without values and one of unknown shape are not read.
ReadExtra(r) ==
  /\ At(r, "extra")
  /\ Goes(r)
  /\ \/ /\ ~Owned(r, Var(r))
        /\ Given.shape[Var(r)] \notin {Unknown, <<>>}
        /\ Values(Given, Var(r)) > 0 /\ ElementCount(Given.shape[Var(r)]) <= MaxElements
        /\ Reads(r, Var(r))
     \/ UNCHANGED seen
  /\ UNCHANGED <<opened, sizes>>

ReadStep(r) ==
  \/ CheckReadBudget(r) \/ FindDimension(r) \/ CheckProduct(r)
  \/ ReadVariable(r) \/ CheckLayout(r) \/ CheckSections(r)
  \/ ReadRoom(r) \/ ReadExtra(r)

-----------------------------------------------------------------------------
(* Properties.                                                             *)

\* The elements a reader has read so far, all variables together.
ElementsRead(r) ==
  SumFunction([v \in DOMAIN seen[r] |-> seen[r][v] * Values(Given, v)])

\* The datasets that may be read twice, and were.
ReadTwice(r) == {v \in Range(RoomVariables) \cup {"N"} : There(v) /\ seen[r][v] = 2}

\* "It reads no data, so a file it rejects allocates nothing"
\* (sofa_dataspace.go:28-29), and what Open and OpenLazy read of any other
\* file is at most its budget.  Only /N and the room variables come on top:
\* /N is read for its size and again for the frequencies, a room variable
\* that is 0 again as an extra one.
ReadsWithinBudget ==
  opened # <<>> =>
    \A r \in Readers :
      /\ outcome[r] = "too large" => ElementsRead(r) = 0
      /\ ElementsRead(r) <=
           Budget(Given.bytes)
             + SumFunction([v \in ReadTwice(r) |-> Values(Given, v)])

\* "A file OpenLazy accepts is one Open accepts" (sofa_stream.go:154-155),
\* unless the audio is what exceeds the budget, and the other way round,
\* although the two check the audio in different functions and in another
\* order.
LazyAgrees ==
  {outcome[r] : r \in Readers} \cap {"none", "io"} = {} =>
    \/ outcome["Open"] = "ok" <=> outcome["OpenLazy"] = "ok"
    \/ outcome["Open"] = "too large"

\* VIOLATED.  maxDataElements is "a bound per variable" (sofa.go:380), so no
\* file is refused for its sizes when each of its variables stays below it.
BoundPerVariable ==
  \A r \in Readers :
    outcome[r] = "product" =>
      \E v \in DOMAIN Given.shape : ElementCount(Given.shape[v]) > MaxElements

-----------------------------------------------------------------------------
(* Why they hold: an inductive invariant.                                  *)

\* What a file can be: it may have lost any dataset, whatever else it says.
StoredFile(d) ==
  /\ d.type \in {"FIR", "SOS", "TF", "TFE"} /\ d.bytes \in Nat
  /\ IsFiniteSet(DOMAIN d.shape)
  /\ \A v \in DOMAIN d.shape : d.shape[v] = Unknown \/ d.shape[v] \in Seq(Nat)

\* The size of a dimension, or 0 where there is none.
DimensionSize(d, s) ==
  IF s \notin DOMAIN d.shape THEN 0
  ELSE IF Named(d, s) THEN d.scale[s].n ELSE SizeInData(d, s)

FoundSizes(d) == [s \in Sizes |-> DimensionSize(d, s)]

\* What it takes to get past a step, if reading does not fail.
Passes(d, r, step) ==
  LET v == step.var
      fits == v \in DOMAIN d.shape /\ Fits(d, FoundSizes(d), r, v) /\ v \notin d.odd
  IN  /\ step.do = "budget" => WithinBudget(d, r)
      /\ step.do = "dimension" => DimensionSize(d, v) \in 1..MaxElements
      /\ step.do = "product" => Count(FoundSizes(d)) <= MaxElements
      /\ step.do = "sections" => FoundSizes(d)["N"] % 6 = 0
      /\ step.do = "layout" => fits
      /\ step.do = "read" => fits \/ v \notin DOMAIN d.shape \cup Range(AudioOf(d.type))

\* The steps that may read v.
MayRead(step, v) == step.var = v /\ step.do \in {"dimension", "read", "room", "extra"}

\* How many steps of the plan are behind r; all when it is done or has failed.
Behind(r) == Len(Plan(Given, r)) - Len(todo[r])

ReadTypeOK ==
  /\ DOMAIN todo = Readers
  /\ sizes \in [Readers -> [Sizes -> Int]]
  /\ outcome \in [Readers -> {"none", "ok", "too large", "dimension", "product", "missing",
                              "layout", "datatype", "sections", "io"}]
  /\ opened = <<>> => todo = [r \in Readers |-> <<>>] /\ outcome = [r \in Readers |-> "none"]
  /\ opened # <<>> => StoredFile(Given) /\ seen \in [Readers -> [DOMAIN Given.shape -> 0..2]]

\* What is left to do is the end of the plan.
LeftToDo(r) ==
  LET plan == Plan(Given, r)
  IN  /\ Behind(r) \in 0..Len(plan)
      /\ todo[r] = SubSeq(plan, Behind(r) + 1, Len(plan))
      /\ outcome[r] = "none" <=> todo[r] # <<>>

\* What has been found out: the sizes, that the budget was enough, and that
\* the steps behind were passed; or the one that was not.
FoundOut(r) ==
  LET plan == Plan(Given, r)
      behind == 1..Behind(r)
  IN  /\ outcome[r] = "none" =>
           \A i \in behind : plan[i].do = "dimension" =>
             sizes[r][plan[i].var] = DimensionSize(Given, plan[i].var)
      /\ outcome[r] \in {"none", "ok"} => \A i \in behind : Passes(Given, r, plan[i])
      /\ outcome[r] # "too large" /\ Behind(r) > 0 => WithinBudget(Given, r)
      /\ outcome[r] \notin {"none", "ok", "io"} =>
           \E i \in DOMAIN plan : /\ ~Passes(Given, r, plan[i])
                                  /\ outcome[r] = "too large" <=> plan[i].do = "budget"

\* A dataset was read by steps behind, and nothing before the budget.
ReadBehind(r) ==
  LET behind == 1..Behind(r)
      reads(i, v) == MayRead(Plan(Given, r)[i], v)
  IN  \A v \in DOMAIN Given.shape :
        /\ seen[r][v] > 0 => outcome[r] # "too large" /\ \E i \in behind : reads(i, v)
        /\ seen[r][v] = 2 => \E i, j \in behind : reads(i, v) /\ reads(j, v) /\ i # j

ReadInv ==
  /\ ReadTypeOK
  /\ opened # <<>> => \A r \in Readers : LeftToDo(r) /\ FoundOut(r) /\ ReadBehind(r)
=============================================================================
