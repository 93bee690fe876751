------------------------------- MODULE Extras -------------------------------
(***************************************************************************)
(* What Save writes of a File and what Open keeps of a file, names and     *)
(* attributes first: the root attributes, dimension scales and variables   *)
(* (sofa.go, sofa_netcdf.go), and whatever go-sofa does not interpret      *)
(* (sofa_extras.go).  Layouts and values of audio and positions are those  *)
(* of module RoundTrip and left out.                                       *)
(*                                                                         *)
(* A file's content is a sequence of root attributes and a sequence of     *)
(* datasets.  A dataset is a Variable with one more field: scale, if it is *)
(* a dimension scale.  The forms "scalar" and "odd" (a data type go-sofa   *)
(* cannot write) and an attribute's value Odd are other programs'.  Data   *)
(* is a sequence of values; what go-sofa interprets is <<"given">>.        *)
(***************************************************************************)
EXTENDS Conventions

Odd == <<"odd">>

Dimensions == <<"M", "R", "E", "N", "C", "I">>

Sizes(f) == [M |-> f.M, R |-> f.R, E |-> f.E, N |-> 2, C |-> 3, I |-> 1]

\* globalFields: the root attributes a File has a field for.
GlobalFields ==
  {"Conventions", "Version", "SOFAConventions", "SOFAConventionsVersion", "DataType",
   "RoomType", "RoomVolume", "RoomTemperature", "Title", "DateCreated", "DateModified",
   "APIName", "APIVersion", "AuthorContact", "Organization", "License", "ApplicationName",
   "ApplicationVersion", "Comment", "History", "References", "Origin"}

\* netcdfAttribute and plumbingAttribute.
NetCDF == {"_NCProperties", "_Netcdf4Dimid", "_Netcdf4Coordinates"}
Plumbing == {"CLASS", "NAME", "DIMENSION_LIST", "REFERENCE_LIST",
             "_Netcdf4Dimid", "_Netcdf4Coordinates"}

Positions == {"ListenerPosition", "ReceiverPosition", "SourcePosition", "EmitterPosition"}

IsTF(f) == f.dataType \in {"TF", "TF-E"}

\* writtenVariables: what Save writes for f, each with the attributes Save
\* sets on it itself, or set on ListenerUp up to v0.2.0.
WrittenVariables(f) ==
  LET placed == Positions \cup {"ListenerView", "ListenerUp"}
      audio == IF IsTF(f) THEN {"Data.Real", "Data.Imag"}
               ELSE {IF f.dataType = "SOS" THEN "Data.SOS" ELSE "Data.IR",
                     "Data.SamplingRate", "Data.Delay"}
      room == IF f.roomVolume = "0" THEN {} ELSE {"RoomVolume"}
  IN  [name \in placed \cup audio \cup room \cup ToSet(Dimensions) |->
         CASE name \in placed -> {"Type", "Units"}
           [] name \in {"RoomVolume", "Data.SamplingRate"} -> {"Units"}
           [] name = "N" /\ IsTF(f) -> {"LongName", "Units"}
           [] OTHER -> {}]

-----------------------------------------------------------------------------
(* Save.                                                                   *)

\* VariableAttributes of a name, if any.
Given(f, name) ==
  IF name \in DOMAIN f.variableAttributes THEN f.variableAttributes[name] ELSE <<>>

\* savedVariables: the caller's, then the defaults that are missing.
SavedVariables(f) ==
  LET complete(v, attrs) == [v EXCEPT !.attrs = WithMandatory(f, v.name, attrs)]
      own == f.variables
      missing == MissingVariables(f)
  IN  [i \in DOMAIN own |-> complete(own[i], own[i].attrs)]
      \o [i \in DOMAIN missing |->
            complete(missing[i], missing[i].attrs \o Given(f, missing[i].name))]

\* savedVariableAttributes, for a variable Save writes itself.
SavedAttributes(f, name) ==
  IF name \in Names(f.variables \o MissingVariables(f)) THEN Given(f, name)
  ELSE WithMandatory(f, name, Given(f, name))

\* The axes of variables that have names, each with its size.
Axes(variables) ==
  UNION {{<<v.dims[i], v.shape[i]>> : i \in DOMAIN v.dims} : v \in ToSet(variables)}

\* writeDimensionScales.  In which order the further dimensions come only
\* shows in their numbers, which are left out.
SavedDimensions(f) ==
  Dimensions \o SetToSeq({axis[1] : axis \in Axes(SavedVariables(f))} \ ToSet(Dimensions))

SizeOf(f, d) ==
  IF d \in DOMAIN Sizes(f) THEN Sizes(f)[d]
  ELSE (CHOOSE axis \in Axes(SavedVariables(f)) : axis[1] = d)[2]

Dataset(v, scale) ==
  [scale |-> scale, name |-> v.name, dims |-> v.dims, shape |-> v.shape,
   form |-> v.form, data |-> v.data, attrs |-> v.attrs]

\* writeExtraVariable: its dimension scales are attached.
Attached(v) ==
  Dataset([v EXCEPT !.attrs = IF v.dims = <<>> THEN @
                              ELSE Append(@, Attribute("DIMENSION_LIST", v.dims))], FALSE)

\* The scale of d: the frequencies for N of TF and TF-E, else no values.
ScaleOf(f, d) ==
  LET frequencies == d = "N" /\ IsTF(f)
      own == IF frequencies
             THEN << Attribute("LongName", <<"frequency">>), Attribute("Units", <<"hertz">>) >>
             ELSE <<>>
  IN  Dataset(Variable(d, <<>>, <<SizeOf(f, d)>>, IF frequencies THEN "numeric" ELSE "none",
                       IF frequencies THEN <<"given">> ELSE <<>>,
                       << Attribute("CLASS", <<"DIMENSION_SCALE">>) >>
                       \o own \o SavedAttributes(f, d)), TRUE)

\* A variable written by name, with the attributes Save sets and the rest.
Owned(f, name, data, own) ==
  Dataset(Variable(name, <<>>, <<>>, "numeric", data, own \o SavedAttributes(f, name)), FALSE)

TypeUnits(type) ==
  << Attribute("Type", type),
     Attribute("Units", IF type = <<"cartesian">> THEN <<"metre">> ELSE <<"degree, degree, metre">>) >>

\* savedPositions: no EmitterPositions means [0 0 0], whatever its Type.
SavedEmitterType(f) == IF f.emitters = <<>> THEN <<"cartesian">> ELSE f.emitterType

\* The positions, listenerOrientation, writeRoomScalars, writeAudioDatasets.
OwnedVariables(f) ==
  LET or(value, default) == IF value = <<>> THEN <<default>> ELSE value
      units(u) == << Attribute("Units", <<u>>) >>
      cartesian(name) == Owned(f, name, <<"given">>, TypeUnits(<<"cartesian">>))
  IN  << cartesian("ListenerPosition"), cartesian("ReceiverPosition"), cartesian("SourcePosition"),
         Owned(f, "EmitterPosition", or(f.emitters, "[0 0 0]"), TypeUnits(SavedEmitterType(f))),
         Owned(f, "ListenerUp", or(f.up, "+z"), <<>>),
         Owned(f, "ListenerView", or(f.view, "+x"), TypeUnits(<<"cartesian">>)) >>
      \o (IF f.roomVolume = "0" THEN <<>>
          ELSE << Owned(f, "RoomVolume", <<f.roomVolume>>, units("cubic metre")) >>)
      \o (IF IsTF(f)
          THEN << Owned(f, "Data.Real", <<"given">>, <<>>), Owned(f, "Data.Imag", <<"given">>, <<>>) >>
          ELSE << Owned(f, IF f.dataType = "SOS" THEN "Data.SOS" ELSE "Data.IR", <<"given">>, <<>>),
                  Owned(f, "Data.SamplingRate", <<"given">>, units("hertz")),
                  Owned(f, "Data.Delay", <<"given">>, <<>>) >>)

SavedDatasets(f) ==
  LET dims == SavedDimensions(f)
      extra == SavedVariables(f)
  IN  [i \in DOMAIN dims |-> ScaleOf(f, dims[i])] \o OwnedVariables(f)
      \o [i \in DOMAIN extra |-> Attached(extra[i])]

-----------------------------------------------------------------------------
(* Validation.                                                             *)

Distinct(list) == \A i, j \in DOMAIN list : list[i].name = list[j].name => i = j

\* checkAttributes.
AttributesFit(list, reserved) ==
  /\ Distinct(list)
  /\ Names(list) \cap reserved = {}
  /\ \A i \in DOMAIN list : list[i].value # Odd

\* The defaults of missing variables count as written, too.
WrittenOrMissing(f) ==
  LET missing == MissingVariables(f)
      written == WrittenVariables(f)
  IN  [name \in DOMAIN written \cup Names(missing) |->
         (IF name \in DOMAIN written THEN written[name] ELSE {})
         \cup UNION {Names(v.attrs) : v \in {m \in ToSet(missing) : m.name = name}}]

\* validateExtras.
ExtrasFit(f) ==
  LET written == WrittenOrMissing(f)
      axes == Axes(f.variables)
  IN  /\ AttributesFit(f.attributes, GlobalFields \cup NetCDF)
      /\ \A name \in DOMAIN f.variableAttributes :
           /\ name \in DOMAIN written
           /\ AttributesFit(f.variableAttributes[name], Plumbing \cup written[name])
      /\ Distinct(f.variables)
      /\ \A v \in ToSet(f.variables) :
           /\ v.name \notin DOMAIN written
           /\ v.shape # <<>> /\ (v.dims = <<>> \/ Len(v.dims) = Len(v.shape))
           /\ AttributesFit(v.attrs, Plumbing)
      /\ \A a, b \in axes : a[1] = b[1] => a[2] = b[2]
      /\ \A a \in axes : IF a[1] \in DOMAIN Sizes(f) THEN a[2] = Sizes(f)[a[1]]
                        ELSE a[1] \notin Names(f.variables) \cup DOMAIN written

-----------------------------------------------------------------------------
(* Open.                                                                   *)

\* The value of an attribute of that name, <<>> when there is none.
ValueOf(list, name) ==
  IF name \in Names(list)
  THEN list[CHOOSE i \in DOMAIN list : list[i].name = name].value ELSE <<>>

HasDataset(d, name) == name \in Names(d.datasets)
DatasetOf(d, name) == d.datasets[CHOOSE i \in DOMAIN d.datasets : d.datasets[i].name = name]

\* setGlobalAttributes and keepGlobalAttribute.
KeptGlobals(d) ==
  Filtered(d.root, LAMBDA a : a.name \notin GlobalFields \cup NetCDF /\ a.value # Odd)

\* readVariableAttributes.
KeptAttributes(v, owned) ==
  Filtered(v.attrs, LAMBDA a : a.name \notin Plumbing \cup owned /\ a.value # Odd)

\* The attributes among these that are listed in Dropped.
OddOnes(of, list, owned) ==
  {<<of, a.name>> : a \in {b \in ToSet(list) : b.name \notin owned /\ b.value = Odd}}

\* BUG: the attributes of a variable are not read.
BugReadVariable(v) ==
  Variable(v.name, IF Len(v.dims) = Len(v.shape) THEN v.dims ELSE <<>>, v.shape, v.form, v.data, <<>>)

\* readVariable: labels for some axes only are no labels.
ReadVariable(v) ==
  Variable(v.name, IF Len(v.dims) = Len(v.shape) THEN v.dims ELSE <<>>, v.shape, v.form, v.data,
           KeptAttributes(v, {}))

\* readExtras, for a File f whose fields are those of d already.  Dropped
\* lists <<variable, "">> and <<variable, attribute>>, with no variable for
\* a root attribute.
ReadExtras(d, f) ==
  LET written == WrittenVariables(f)
      owned(v) == IF v.name \in DOMAIN written THEN written[v.name] ELSE {}
      sets == ToSet(d.datasets)
      known == {v \in sets : v.name \in DOMAIN written}
      scales == {v \in sets \ known : v.scale}
      readable == Filtered(d.datasets, LAMBDA v : v \notin known \cup scales
                                                   /\ v.form \in {"numeric", "chars"})
      unreadable == sets \ (known \cup scales \cup ToSet(readable))
      attributed == {v \in known : KeptAttributes(v, owned(v)) # <<>>}
  IN  [f EXCEPT
        !.attributes = KeptGlobals(d),
        !.variables = [i \in DOMAIN readable |-> ReadVariable(readable[i])],
        !.variableAttributes = [name \in {v.name : v \in attributed} |->
                                  KeptAttributes(DatasetOf(d, name), written[name])],
        !.dropped =
           OddOnes("", d.root, GlobalFields \cup NetCDF)
           \cup {<<v.name, "">> : v \in unreadable
                                    \cup {s \in scales : KeptAttributes(s, {}) # <<>>}}
           \cup UNION {OddOnes(v.name, v.attrs, Plumbing \cup owned(v)) : v \in sets \ unreadable}]
=============================================================================
