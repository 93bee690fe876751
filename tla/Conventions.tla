---------------------------- MODULE Conventions ----------------------------
(***************************************************************************)
(* The rules of the registered SOFAConventions (sofa_conventions.go,       *)
(* sofa_srir.go, sofa_brir.go): what Save requires, adds and defaults, and *)
(* what it warns of.  An attribute is a name with a value, a sequence of   *)
(* lines of text; an empty string is <<>>.                                 *)
(***************************************************************************)
EXTENDS Integers, Sequences, SequencesExt, TLC

Attribute(name, value) == [name |-> name, value |-> value]

Names(list) == {list[i].name : i \in DOMAIN list}

\* The elements of list at these places, in order.
Chosen(list, places) ==
  LET upTo[n \in 0..Len(list)] ==
        IF n = 0 THEN <<>>
        ELSE IF n \in places THEN Append(upTo[n - 1], list[n]) ELSE upTo[n - 1]
  IN  upTo[Len(list)]

\* SelectSeq, in terms of Chosen.
Filtered(list, Test(_)) == Chosen(list, {i \in DOMAIN list : Test(list[i])})

\* A variable go-sofa does not interpret; "form" is "numeric" or "chars".
Variable(name, dims, shape, form, data, attrs) ==
  [name |-> name, dims |-> dims, shape |-> shape, form |-> form, data |-> data, attrs |-> attrs]

\* sourceOrientation: only SourceView carries Type and Units.
SourceOrientation(view) ==
  << Variable("SourceView", <<"I", "C">>, <<1, 3>>, "numeric", <<view>>,
              << Attribute("Type", <<"cartesian">>), Attribute("Units", <<"metre">>) >>),
     Variable("SourceUp", <<"I", "C">>, <<1, 3>>, "numeric", <<"+z">>, <<>>) >>

\* The generic rules of conventions that are not registered: dataType ""
\* allows any, e = 0 and r = 0 any number of emitters and receivers, and no
\* versions any version.
NoRules ==
  [dataType |-> "", r |-> 0, e |-> 0, versions |-> {}, globals |-> <<>>, variables |-> <<>>,
   references |-> {}, roomType |-> "free field", freeFieldOnly |-> FALSE]

SimpleFreeField(dataType, versions) ==
  [NoRules EXCEPT !.dataType = dataType, !.r = 2, !.e = 1, !.versions = versions,
                  !.globals = <<"DatabaseName", "ListenerShortName">>, !.freeFieldOnly = TRUE]

\* conventionRegistry and rulesFor.  "corners" stands for srirRoomType, which
\* looks at the Variables; SOFA 1.0 called SimpleFreeFieldHRSOS
\* SimpleFreeFieldSOS.
RulesFor(convention) ==
  CASE convention = "GeneralFIR"  -> [NoRules EXCEPT !.dataType = "FIR", !.versions = {"1.0"}]
    [] convention = "GeneralTF"   -> [NoRules EXCEPT !.dataType = "TF", !.versions = {"1.0", "2.0"}]
    [] convention = "GeneralTF-E" -> [NoRules EXCEPT !.dataType = "TF-E", !.versions = {"1.0"}]
    [] convention = "SimpleFreeFieldHRIR"  -> SimpleFreeField("FIR", {"0.4", "1.0", "1.1", "1.2"})
    [] convention = "SimpleFreeFieldHRTF"  -> SimpleFreeField("TF", {"1.0", "1.1", "1.2"})
    [] convention = "SimpleFreeFieldHRSOS" -> SimpleFreeField("SOS", {"1.0", "1.1", "1.2"})
    [] convention = "SimpleFreeFieldSOS"   -> SimpleFreeField("SOS", {"1.0"})
    [] convention = "FreeFieldHRTF" ->
         [SimpleFreeField("TF-E", {"1.0"}) EXCEPT !.r = 0, !.e = 0]
    [] convention = "FreeFieldDirectivityTF" ->
         [NoRules EXCEPT !.dataType = "TF", !.versions = {"1.0", "1.1"},
                         !.globals = <<"DatabaseName", "SourceType", "SourceManufacturer">>,
                         !.variables = SourceOrientation("+x"),
                         !.references = {"SourcePosition", "SourceView", "SourceUp"}]
    [] convention = "SimpleHeadphoneIR" ->
         [NoRules EXCEPT !.dataType = "FIR", !.versions = {"0.1", "0.2", "1.0", "1.1"},
                         !.globals = <<"DatabaseName", "ListenerShortName",
                                       "ReceiverDescription", "EmitterDescription">>]
    [] convention = "SingleRoomSRIR" ->
         [NoRules EXCEPT !.dataType = "FIR", !.versions = {"1.0", "1.1"},
                         !.globals = <<"DatabaseName">>, !.variables = SourceOrientation("+x"),
                         !.roomType = "corners"]
    [] convention = "SingleRoomDRIR" ->
         [NoRules EXCEPT !.dataType = "FIR", !.versions = {"0.1", "0.2", "0.3"},
                         !.globals = <<"RoomDescription", "DatabaseName">>,
                         !.variables = SourceOrientation("-x"), !.roomType = "reverberant"]
    [] OTHER -> NoRules

-----------------------------------------------------------------------------
(* What Save adds.  A File f has the fields convention, dataType, E, R,    *)
(* roomType, attributes and variables, among others.                       *)

\* BUG: the file's own attributes are not looked at.
BugMissingGlobals(f) ==
  [i \in DOMAIN RulesFor(f.convention).globals |->
     Attribute(RulesFor(f.convention).globals[i], <<>>)]

\* missingMandatoryGlobals.
MissingGlobals(f) ==
  LET globals == RulesFor(f.convention).globals
  IN  Filtered([i \in DOMAIN globals |-> Attribute(globals[i], <<>>)],
               LAMBDA a : a.name \notin Names(f.attributes))

\* BUG: the file's own variables are not looked at.
BugMissingVariables(f) == RulesFor(f.convention).variables

\* missingMandatoryVariables.
MissingVariables(f) ==
  Filtered(RulesFor(f.convention).variables, LAMBDA v : v.name \notin Names(f.variables))

\* withMandatoryAttributes.
WithMandatory(f, name, attrs) ==
  IF name \in RulesFor(f.convention).references /\ "Reference" \notin Names(attrs)
  THEN Append(attrs, Attribute("Reference", <<>>)) ELSE attrs

\* savedRoomType, with defaultRoomType and srirRoomType.
SavedRoomType(f) ==
  LET default == RulesFor(f.convention).roomType
  IN  IF f.roomType # <<>> THEN f.roomType
      ELSE IF default # "corners" THEN <<default>>
      ELSE IF {"RoomCornerA", "RoomCornerB"} \subseteq Names(f.variables) THEN <<"shoebox">>
      ELSE <<"free field">>

\* validateConvention; SingleRoomDRIR's own check, validateBRIR, is for a
\* listener whose orientation is set.
ConventionMet(f) ==
  LET rules == RulesFor(f.convention)
  IN  /\ rules.dataType \in {"", f.dataType}
      /\ rules.e \in {0, f.E}
      /\ f.convention = "SingleRoomDRIR" => f.view # <<>> /\ f.up # <<>>
=============================================================================
