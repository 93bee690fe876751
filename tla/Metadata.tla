------------------------------ MODULE Metadata ------------------------------
(***************************************************************************)
(* The metadata of SOFA files over their life: other programs write them,  *)
(* callers build Files or open them, edit them, and save them with one     *)
(* version of go-sofa or another (sofa.go, sofa_conventions.go,            *)
(* sofa_extras.go, sofa_sh.go).  What may be lost or made up on the way,   *)
(* and whether what was saved can be opened and saved again.               *)
(***************************************************************************)
EXTENDS Extras

CONSTANTS
  None,        \* no File yet, or no file
  OtherFiles,  \* files written by other programs
  NewFiles,    \* Files built in memory
  Versions,    \* the versions of go-sofa that save
  Others,      \* the other programs that save what they opened
  Edits,       \* the edits a caller makes: names of the actions below
  MaxEdits,    \* bound on the edits
  MaxWriters   \* bound on the generations of a file

ASSUME NamesGiven ==
  Versions \subseteq STRING /\ Others \subseteq STRING /\ "go-sofa" \notin Others
ASSUME EditsGiven == Edits \subseteq {"convention", "room", "resize", "emitters", "remove",
                                      "attribute", "variable", "variable attribute"}
ASSUME LifeBounded == MaxEdits \in Nat /\ MaxWriters \in Nat

VARIABLES
  file,     \* the File in memory
  disk,     \* the file
  edits,    \* how often the File was edited
  writers,  \* ghost: the programs that wrote the file's generations
  source,   \* ghost: the same for what the File was opened from
  before    \* ghost: the History there was to begin with

vars == <<file, disk, edits, writers, source, before>>

\* Whatever wrote a file, as APIName and APIVersion say it.
Api(name, version) == <<name, version>>
GoSofa(version) == Api(<<"go-sofa">>, <<version>>)

\* A time of day, told by how many programs have written the file before.
Time(generation) == << ToString(generation) >>

-----------------------------------------------------------------------------
(* Save.                                                                   *)

\* The line resaveHistory adds.
Resaved(version, api) ==
  FoldLeft(LAMBDA line, word : line \o " " \o word, "resaved by go-sofa",
           <<version, "from">> \o api[1] \o api[2])

\* BUG: a save by another version of go-sofa leaves no line.
BugSavedHistory(f, version) ==
  IF f.api[1] \in {<<>>, <<"go-sofa">>} THEN f.history
  ELSE Append(f.history, Resaved(version, f.api))

\* resaveHistory.
SavedHistory(f, version) ==
  IF f.api[1] = <<>> \/ f.api = GoSofa(version) THEN f.history
  ELSE Append(f.history, Resaved(version, f.api))

\* The global attributes that are only a field's text, and those of them that
\* are written when the field is empty, a License with a default.
Texts == <<"Title", "AuthorContact", "Organization", "License", "ApplicationName",
           "ApplicationVersion", "Comment", "References", "Origin">>
AlwaysWritten == {"Title", "AuthorContact", "Organization", "License"}

SavedText(f, name) ==
  IF name = "License" /\ f.texts[name] = <<>> THEN <<"No license provided">> ELSE f.texts[name]

SavedTexts(f) ==
  Filtered([i \in DOMAIN Texts |-> Attribute(Texts[i], SavedText(f, Texts[i]))],
           LAMBDA a : a.name \in AlwaysWritten \/ a.value # <<>>)

\* collectRootAttributes, with the attributes writeHDF5 adds to them.
SavedRoot(f, version, now) ==
  LET history == SavedHistory(f, version)
  IN  << Attribute("Conventions", <<"SOFA">>),
         Attribute("Version", <<f.version>>),
         Attribute("SOFAConventions", <<f.convention>>),
         Attribute("SOFAConventionsVersion", <<f.conventionVersion>>),
         Attribute("DataType", <<f.dataType>>),
         Attribute("DateCreated", IF f.created = <<>> THEN now ELSE f.created),
         Attribute("DateModified", now),
         Attribute("APIName", <<"go-sofa">>),
         Attribute("APIVersion", <<version>>),
         Attribute("RoomType", SavedRoomType(f)) >>
      \o SavedTexts(f)
      \o (IF history = <<>> THEN <<>> ELSE << Attribute("History", history) >>)
      \o f.attributes \o MissingGlobals(f)
      \o << Attribute("_NCProperties", <<version>>) >>

\* writeHDF5.
SaveOf(f, version, now) ==
  [root |-> SavedRoot(f, version, now), datasets |-> SavedDatasets(f)]

\* validate.  Positions and audio are as they should be, see RoundTrip.
Valid(f) ==
  /\ f.M > 0 /\ f.R > 0 /\ f.E > 0
  /\ f.dataType \in {"FIR", "TF", "TF-E", "SOS"}
  /\ SavedEmitterType(f) # <<>>
  /\ ExtrasFit(f)
  /\ ConventionMet(f)

-----------------------------------------------------------------------------
(* Open.                                                                   *)

\* BUG: only the root attribute is read, which Save does not write.
BugRoomVolumeOf(d) ==
  IF ValueOf(d.root, "RoomVolume") = <<>> THEN "0" ELSE ValueOf(d.root, "RoomVolume")[1]

\* Whether there is a value to read.
HasNumbers(v) == v.form \in {"numeric", "scalar"} /\ v.data # <<>>

\* readRoomScalars: a variable's first value goes before a root attribute.
RoomVolumeOf(d) ==
  IF HasDataset(d, "RoomVolume") /\ HasNumbers(DatasetOf(d, "RoomVolume"))
  THEN DatasetOf(d, "RoomVolume").data[1]
  ELSE IF ValueOf(d.root, "RoomVolume") = <<>> THEN "0" ELSE ValueOf(d.root, "RoomVolume")[1]

\* read.
OpenOf(d) ==
  LET text(name) == ValueOf(d.root, name)
      size(name) == DatasetOf(d, name).shape[1]
      data(name) == IF HasDataset(d, name) THEN DatasetOf(d, name).data ELSE <<>>
  IN  ReadExtras(d,
        [convention |-> text("SOFAConventions")[1],
         conventionVersion |-> text("SOFAConventionsVersion")[1],
         version |-> text("Version")[1],
         dataType |-> text("DataType")[1],
         M |-> size("M"), R |-> size("R"), E |-> size("E"),
         view |-> data("ListenerView"), up |-> data("ListenerUp"),
         emitters |-> data("EmitterPosition"),
         emitterType |-> IF HasDataset(d, "EmitterPosition")
                         THEN ValueOf(DatasetOf(d, "EmitterPosition").attrs, "Type") ELSE <<>>,
         roomType |-> text("RoomType"),
         roomVolume |-> RoomVolumeOf(d),
         texts |-> [name \in ToSet(Texts) |-> text(name)],
         api |-> Api(text("APIName"), text("APIVersion")),
         history |-> text("History"),
         created |-> text("DateCreated"),
         attributes |-> <<>>, variables |-> <<>>, variableAttributes |-> <<>>, dropped |-> {}])

-----------------------------------------------------------------------------
(* What a File means to its callers (sofa_sh.go, sofa_conventions.go).     *)

\* claimsSHHeuristically.
ClaimsSH(f) ==
  \/ f.convention = "SimpleFreeFieldHRSH"
  \/ "Converted to Spherical Harmonics" \in ToSet(f.history)

\* declaresSH.
DeclaresSH(f) ==
  IF f.emitterType # <<>> THEN f.emitterType = <<"spherical harmonics">> ELSE ClaimsSH(f)

IsSquare(n) == \E root \in 1..n : root * root = n

\* IsSHEncoded, that is, SHOrder's ok.
IsSHEncoded(f) == f.dataType = "TF-E" /\ DeclaresSH(f) /\ IsSquare(f.E)

\* ConventionWarnings, with sofa2Warnings and srirWarnings: one of each kind.
ConventionWarnings(f) ==
  LET rules == RulesFor(f.convention)
      warn(kind, when) == IF when THEN {kind} ELSE {}
      old == f.version = "1.0"
  IN  warn("2.x convention", old /\ f.convention = "FreeFieldHRTF")
      \cup warn("2.x DataType", old /\ f.dataType = "TF-E")
      \cup warn("2.x Type", old /\ SavedEmitterType(f) = <<"spherical harmonics">>)
      \cup warn("version", rules.versions # {} /\ f.conventionVersion \notin rules.versions)
      \cup warn("receivers", rules.r \notin {0, f.R})
      \cup warn("free field", rules.freeFieldOnly /\ SavedRoomType(f) # <<"free field">>)
      \cup (IF f.convention # "SingleRoomSRIR" THEN {}
            ELSE warn("volume", f.roomVolume = "0") \cup warn("order", ~IsSquare(f.R)))

Meaning(f) ==
  [sh |-> IsSHEncoded(f), roomType |-> SavedRoomType(f), warnings |-> ConventionWarnings(f)]

-----------------------------------------------------------------------------
(* What a File and a file may hold, whether Save accepts it or not; values *)
(* may be any.                                                             *)

Types == {"FIR", "TF", "TF-E", "SOS"}

SequenceOK(s) == s \in Seq(ToSet(s))

VariableOK(v) == SequenceOK(v.dims) /\ SequenceOK(v.shape) /\ SequenceOK(v.attrs)

FileOK(f) ==
  /\ DOMAIN f = {"convention", "conventionVersion", "version", "dataType", "M", "R", "E", "view",
                 "up", "emitters", "emitterType", "roomType", "roomVolume", "texts", "api",
                 "history", "created", "attributes", "variables", "variableAttributes", "dropped"}
  /\ f.dataType \in Types /\ {f.M, f.R, f.E} \subseteq Nat
  /\ DOMAIN f.texts = ToSet(Texts)
  /\ SequenceOK(f.attributes) /\ SequenceOK(f.variables) /\ SequenceOK(f.history)
  /\ \A v \in ToSet(f.variables) :
       /\ v = Variable(v.name, v.dims, v.shape, v.form, v.data, v.attrs)
       /\ VariableOK(v) /\ v.form \in {"numeric", "chars"}
  /\ \A name \in DOMAIN f.variableAttributes :
       SequenceOK(f.variableAttributes[name]) /\ f.variableAttributes[name] # <<>>
  /\ \A what \in f.dropped : Len(what) = 2

\* HDF5 does not let a file hold two attributes or datasets of one name.
DiskOK(d) ==
  /\ DOMAIN d = {"root", "datasets"}
  /\ SequenceOK(d.root) /\ Distinct(d.root)
  /\ ValueOf(d.root, "DataType")[1] \in Types /\ SequenceOK(ValueOf(d.root, "History"))
  /\ SequenceOK(d.datasets) /\ Distinct(d.datasets)
  /\ \A v \in ToSet(d.datasets) : VariableOK(v)
  /\ \A size \in {"M", "R", "E"} : HasDataset(d, size) /\ DatasetOf(d, size).shape[1] \in Nat

\* What Open interprets in a file of this DataType, as any value that it takes.
Interpreted(type) ==
  (Positions \ {"EmitterPosition"})
  \cup CASE type \in {"TF", "TF-E"} -> {"Data.Real", "Data.Imag", "N"}
         [] type = "SOS" -> {"Data.SOS", "Data.SamplingRate", "Data.Delay"}
         [] OTHER -> {"Data.IR", "Data.SamplingRate", "Data.Delay"}

\* A file with what Open requires and Save requires of its File: the attributes
\* of one line, and no empty positions.  Its values are <<"given">> where Open
\* interprets them, and there is no RoomTemperature, see RoomVolume.
Described(d) ==
  /\ ValueOf(d.root, "Conventions") = <<"SOFA">>
  /\ \A name \in {"Version", "SOFAConventions", "SOFAConventionsVersion", "DataType"} :
       ValueOf(d.root, name) = << ValueOf(d.root, name)[1] >>
  /\ "RoomTemperature" \notin Names(d.root)
  /\ \A v \in ToSet(d.datasets) :
       /\ Len(v.dims) <= Len(v.shape)
       /\ v.name \in Interpreted(ValueOf(d.root, "DataType")[1]) => v.data = <<"given">>
       /\ v.name \in {"EmitterPosition", "ListenerView", "ListenerUp"} => v.data # <<>>

ASSUME NewFilesGiven == \A f \in NewFiles : FileOK(f)
ASSUME OtherFilesGiven ==
  \A d \in OtherFiles : DiskOK(d) /\ Described(d) /\ ValueOf(d.root, "APIName") # <<"go-sofa">>

-----------------------------------------------------------------------------
(* Behaviour.                                                              *)

Init ==
  /\ edits = 0
  /\ \/ /\ disk \in OtherFiles
        /\ file = None
        /\ writers = << Api(ValueOf(disk.root, "APIName"), ValueOf(disk.root, "APIVersion")) >>
        /\ source = <<>>
        /\ before = ValueOf(disk.root, "History")
     \/ /\ file \in NewFiles
        /\ disk = None
        /\ writers = <<>>
        /\ source = (IF file.api[1] = <<>> THEN <<>> ELSE <<file.api>>)
        /\ before = file.history

Open ==
  /\ disk # None
  /\ file' = OpenOf(disk)
  /\ source' = writers
  /\ UNCHANGED <<disk, edits, writers, before>>

\* Save by some version of go-sofa; a File that is not valid is refused.
Save(version) ==
  /\ file # None /\ Valid(file)
  /\ Len(writers) < MaxWriters
  /\ disk' = SaveOf(file, version, Time(Len(writers) + 1))
  /\ writers' = Append(source, GoSofa(version))
  /\ UNCHANGED <<file, edits, source, before>>

\* Another program opens the file and saves it under its name.
OtherSaves(program) ==
  /\ disk # None
  /\ Len(writers) < MaxWriters
  /\ disk' = [disk EXCEPT !.root =
                Filtered(@, LAMBDA a : a.name \notin {"APIName", "APIVersion"})
                  \o << Attribute("APIName", <<program>>), Attribute("APIVersion", <<"1">>) >>]
  /\ writers' = Append(writers, Api(<<program>>, <<"1">>))
  /\ UNCHANGED <<file, edits, source, before>>

Edit(kind) ==
  /\ kind \in Edits
  /\ file # None /\ edits < MaxEdits
  /\ edits' = edits + 1
  /\ UNCHANGED <<disk, writers, source, before>>

EditConvention ==
  /\ Edit("convention")
  /\ \E c \in {"SingleRoomSRIR", "FreeFieldDirectivityTF", "FreeFieldHRTF"} :
       file' = [file EXCEPT !.convention = c, !.dataType = RulesFor(c).dataType]

EditRoom ==
  /\ Edit("room")
  /\ \/ \E v \in {"0", "300"} : file' = [file EXCEPT !.roomVolume = v]
     \/ file' = [file EXCEPT !.roomType = <<>>]

Resize == Edit("resize") /\ \E m \in {1, 2} \ {file.M} : file' = [file EXCEPT !.M = m]

\* The caller takes the emitters away, or sets their Type.
EditEmitters ==
  /\ Edit("emitters")
  /\ \E some \in {<<>>, <<"given">>}, type \in {<<>>, <<"cartesian">>, <<"spherical harmonics">>} :
       file' = [file EXCEPT !.emitters = some, !.emitterType = type]

RemoveVariable ==
  /\ Edit("remove")
  /\ \E i \in DOMAIN file.variables : file' = [file EXCEPT !.variables = RemoveAt(@, i)]

AddAttribute ==
  /\ Edit("attribute")
  /\ \E name \in {"DatabaseName", "History", "_NCProperties"} :
       file' = [file EXCEPT !.attributes = Append(@, Attribute(name, <<"added">>))]

AddVariable ==
  /\ Edit("variable")
  /\ \E name \in {"SourceView", "RoomVolume", "S", "Temperature"} :
       LET dims == IF name = "Temperature" THEN <<"SourceUp">> ELSE <<"M", "S">>
           v == Variable(name, dims, IF Len(dims) = 1 THEN <<2>> ELSE <<file.M, 2>>,
                         "numeric", <<"added">>, <<>>)
       IN  file' = [file EXCEPT !.variables = Append(@, v)]

AddVariableAttribute ==
  /\ Edit("variable attribute")
  /\ \E at \in { <<"SourceView", "Units">>, <<"SourceView", "Reference">>, <<"N", "Units">>,
                 <<"SourcePosition", "Reference">>, <<"ListenerUp", "Type">>,
                 <<"RoomVolume", "Reference">>, <<"M", "CLASS">> } :
       LET more == Append(Given(file, at[1]), Attribute(at[2], <<"added">>))
       IN  file' = [file EXCEPT !.variableAttributes =
                      [name \in DOMAIN @ \cup {at[1]} |-> IF name = at[1] THEN more ELSE @[name]]]

Next ==
  \/ Open
  \/ \E v \in Versions : Save(v)
  \/ \E p \in Others : OtherSaves(p)
  \/ EditConvention \/ EditRoom \/ Resize \/ EditEmitters
  \/ RemoveVariable \/ AddAttribute \/ AddVariable \/ AddVariableAttribute

Spec == Init /\ [][Next]_vars

-----------------------------------------------------------------------------
(* Properties.                                                             *)

TypeOK ==
  /\ file # None =>
       /\ file.dataType \in Types /\ {file.M, file.R, file.E} \subseteq Nat
       /\ \A what \in file.dropped : Len(what) = 2
       /\ \A name \in DOMAIN file.variableAttributes : file.variableAttributes[name] # <<>>
  /\ disk # None => DOMAIN disk = {"root", "datasets"} /\ writers # <<>>
  /\ edits \in 0..MaxEdits /\ Len(writers) <= MaxWriters + 1

\* The file is the work of go-sofa.
Own == disk # None /\ Last(writers)[1] = <<"go-sofa">>

\* Whatever the caller did to the File before, what Save writes is a netCDF-4
\* file: no root attribute, dataset or attribute of one is written twice,
\* and every dimension of a variable is a scale of the size it needs
\* (validateExtras against collectRootAttributes, writeDimensionScales,
\* savedVariables: each has its own idea of what is written).
WrittenOnce ==
  Own =>
    /\ Distinct(disk.root) /\ Distinct(disk.datasets)
    /\ \A v \in ToSet(disk.datasets) :
         /\ Distinct(v.attrs)
         /\ \A i \in DOMAIN v.dims :
              \E scale \in ToSet(disk.datasets) :
                scale.scale /\ scale.name = v.dims[i] /\ scale.shape = <<v.shape[i]>>

\* A file's content, but for the order of what it holds and DateModified.
Content(d) ==
  << {a \in ToSet(d.root) : a.name # "DateModified"},
     {[v EXCEPT !.attrs = ToSet(@)] : v \in ToSet(d.datasets)} >>

\* A Variable RoomVolume of the caller's, beside a File.RoomVolume of 0: the
\* next Open takes its first value for the field.
TakenForField(d) ==
  /\ HasDataset(d, "RoomVolume")
  /\ DatasetOf(d, "RoomVolume").shape # <<>> /\ RoomVolumeOf(d) # "0"

\* What Save accepted and wrote, Open reads and Save accepts again, nothing
\* is dropped, and the file stays the same: the defaults of one Save, which
\* are the caller's Variables and Attributes for the next, are not written
\* again, changed, or refused as names Save writes itself.
ResaveIsFixedPoint ==
  Own /\ ~TakenForField(disk) =>
         LET f == OpenOf(disk)
             again == SaveOf(f, Last(writers)[2][1], Time(0))
         IN  Valid(f) /\ f.dropped = {} /\ Content(again) = Content(disk)

\* The lines due: one where go-sofa took over from another API, or from
\* another version of its own, unless that did not give its name.
Due(generations) ==
  LET pairs == [i \in DOMAIN generations \ {Len(generations)} |-> <<generations[i], generations[i + 1]>>]
      handovers == Filtered(pairs, LAMBDA h : /\ h[2][1] = <<"go-sofa">>
                                              /\ h[1][1] # <<>> /\ h[1] # h[2])
  IN  [i \in DOMAIN handovers |-> Resaved(handovers[i][2][2][1], handovers[i][1])]

\* "the file keeps a record of the API that wrote it before" (sofa.go:994-997):
\* to the History there was to begin with, a line is added for each change
\* of hands to go-sofa, in order, and none for a save by the version that
\* wrote the file, however often the same File was saved between.
HistoryNamesEveryApi ==
  disk # None => ValueOf(disk.root, "History") = before \o Due(writers)

\* What some version of go-sofa saves of a File.
Saved(f) == SaveOf(f, CHOOSE v \in Versions : TRUE, Time(0))

\* What a File says of itself, it says once saved and opened again: the
\* RoomType Save defaults, the warnings, and the detection of spherical
\* harmonics look at what Save would write.  Not so without emitters, whose
\* Type Save replaces: see SavedAsDeclared.
MeaningKept ==
  /\ file # None /\ Valid(file)
  /\ file.emitters # <<>> /\ ~TakenForField(Saved(file))
  => Meaning(OpenOf(Saved(file))) = Meaning(file)

\* To write an SH-encoded file, set DataType, EmitterPositionType and E, "then
\* call Save" (README.md:704-708).  Not so: without EmitterPositions Save
\* writes one at the origin, cartesian, and the file is not SH-encoded.
SavedAsDeclared ==
  /\ file # None /\ Valid(file)
  /\ file.emitterType = <<"spherical harmonics">> /\ IsSHEncoded(file)
  => IsSHEncoded(OpenOf(Saved(file)))

-----------------------------------------------------------------------------
(* What opening and saving another program's file loses.                   *)

\* What a file holds, item by item; what: "data", "dims" or an attribute.  The
\* dims of what go-sofa interprets are left out.
Item(of, what, value) == [of |-> of, what |-> what, value |-> value]

Items(d, f) ==
  LET sets == ToSet(d.datasets)
      written == DOMAIN WrittenVariables(f)
  IN  {Item("", a.name, a.value) : a \in {b \in ToSet(d.root) : b.name \notin NetCDF}}
      \cup {Item(v.name, "data", v.data) : v \in sets}
      \cup {Item(v.name, "dims", v.dims) : v \in {w \in sets : w.name \notin written}}
      \cup UNION {{Item(v.name, a.name, a.value) : a \in {b \in ToSet(v.attrs) : b.name \notin Plumbing}}
                    : v \in sets}

Lost(d, f) == Items(d, f) \ Items(Saved(f), f)

\* Open listed the item in Dropped, or all of the variable.
Reported(f, item) == {<<item.of, item.what>>, <<item.of, "">>} \cap f.dropped # {}

\* What Save is documented to write itself: dates, API and history, the room's
\* volume, as a variable, and Type, Units and LongName of what go-sofa
\* interprets.
Rewritten(f, item) ==
  \/ item.of = "" /\ item.what \in {"DateModified", "APIName", "APIVersion", "History", "RoomVolume"}
  \/ item.of \in DOMAIN WrittenVariables(f) /\ item.what \in WrittenVariables(f)[item.of]

\* What is lost although nobody says so: an empty text of go-sofa's own fields,
\* values and labels of dimension scales other than frequencies, labels of
\* some axes only, all of RoomVolume but a single number.
Overlooked(d, f, item) ==
  \/ item.of = "" /\ item.what \in GlobalFields /\ item.value = <<>>
  \/ \E v \in ToSet(d.datasets) :
       /\ v.name = item.of
       /\ \/ /\ item.what = "data"
             /\ v.scale \/ v.name \in ToSet(Dimensions)
             /\ ~(v.name = "N" /\ IsTF(f))
          \/ item.what = "dims" /\ (v.scale \/ Len(v.dims) < Len(v.shape))
          \/ /\ item.of = "RoomVolume" /\ item.what = "data"
             /\ ~(HasNumbers(v) /\ v.data = << v.data[1] >>)

Resavable(d) == d # None /\ Valid(OpenOf(d))

\* Opening any file and saving it loses nothing else: every attribute and
\* variable go-sofa does not interpret is in the saved file, with its values
\* and dimensions, or is listed in Dropped, whatever convention, DataType
\* and version of go-sofa decide on what Save writes itself.
OnlyKnownLosses ==
  Resavable(disk) =>
    LET f == OpenOf(disk)
    IN  \A item \in Lost(disk, f) :
          Reported(f, item) \/ Rewritten(f, item) \/ Overlooked(disk, f, item)

\* "Dropped lists what Open could not keep ..., so that a lossy round trip is
\* never silent" (sofa.go:197-198).  Not so: see Overlooked.
LossNeverSilent ==
  Resavable(disk) =>
    LET f == OpenOf(disk)
    IN  \A item \in Lost(disk, f) : Reported(f, item) \/ Rewritten(f, item)

-----------------------------------------------------------------------------
(* Why they hold: an inductive invariant.                                  *)

\* What a File was opened from is as long ago as the file, and its API and
\* History are those of its last generation.
Followed ==
  /\ SequenceOK(writers) /\ SequenceOK(source) /\ SequenceOK(before)
  /\ Len(source) <= Len(writers) \/ (disk = None /\ Len(source) <= 1)
  /\ Len(writers) <= MaxWriters + 1
  /\ file # None =>
       /\ file.history = before \o Due(source)
       /\ IF source = <<>> THEN file.api[1] = <<>> ELSE file.api = Last(source)
  /\ disk # None =>
       /\ writers # <<>>
       /\ Last(writers) = Api(ValueOf(disk.root, "APIName"), ValueOf(disk.root, "APIVersion"))

Inv ==
  /\ file # None => FileOK(file)
  /\ disk # None => DiskOK(disk)
  /\ edits \in 0..MaxEdits
  /\ Followed /\ WrittenOnce /\ HistoryNamesEveryApi

\* What go-sofa and other programs save meets what is said of OtherFiles.
DiskDescribed == disk # None => Described(disk)
=============================================================================
