---------------------------- MODULE MC_Metadata ----------------------------
(* Instances of Metadata for TLC: the files other programs write, each a    *)
(* plain file of its convention with one or two features of its own.        *)
EXTENDS Metadata

Plain(convention, type) ==
  [convention |-> convention, conventionVersion |-> "1.0", version |-> "1.0", dataType |-> type,
   M |-> 2, R |-> 2, E |-> IF type = "TF-E" THEN 4 ELSE 1, view |-> <<"given">>, up |-> <<"given">>,
   emitters |-> <<"given">>,
   emitterType |-> <<"cartesian">>, roomType |-> <<>>, roomVolume |-> "0",
   texts |-> [name \in ToSet(Texts) |-> <<>>],
   api |-> Api(<<>>, <<>>), history |-> <<>>, created |-> <<>>, attributes |-> <<>>,
   variables |-> <<>>, variableAttributes |-> <<>>, dropped |-> {}]

\* The Toolbox writes the mandatory variables that go-sofa writes, and no
\* defaults of a convention.
Toolbox(convention, type) ==
  LET f == [Plain(convention, type) EXCEPT !.convention = "none"]
      d == SaveOf(f, "1", <<"1999">>)
      root(a) == CASE a.name = "SOFAConventions" -> Attribute(a.name, <<convention>>)
                   [] a.name = "APIName" -> Attribute(a.name, <<"Toolbox">>)
                   [] OTHER -> a
  IN  [d EXCEPT !.root = [i \in DOMAIN @ |-> root(@[i])]]

AddRoot(d, name, value) == [d EXCEPT !.root = Append(@, Attribute(name, value))]
AddSet(d, v) == [d EXCEPT !.datasets = Append(@, v)]
DropSet(d, name) == [d EXCEPT !.datasets = SelectSeq(@, LAMBDA v : v.name # name)]
AddTo(d, name, attr, value) ==
  [d EXCEPT !.datasets = [i \in DOMAIN @ |->
     IF @[i].name = name THEN [@[i] EXCEPT !.attrs = Append(@, Attribute(attr, value))] ELSE @[i]]]
Set(name, dims, shape, form, data, attrs) == Dataset(Variable(name, dims, shape, form, data, attrs), FALSE)
Scale(name, data, attrs) ==
  Dataset(Variable(name, <<>>, <<2>>, IF data = <<>> THEN "none" ELSE "numeric", data, attrs), TRUE)

With(d, feature) ==
  CASE feature = 1 -> AddRoot(d, "DatabaseName", <<"ours">>)
    [] feature = 2 -> AddRoot(d, "DatabaseName", Odd)
    [] feature = 3 -> AddRoot(d, "RoomVolume", <<"200">>)
    [] feature = 4 -> AddRoot(d, "Comment", <<"fine">>)
    [] feature = 5 -> AddRoot(d, "History", <<"Converted to Spherical Harmonics">>)
    [] feature = 6 -> AddSet(d, Set("SourceView", <<"I", "C">>, <<1, 3>>, "numeric", <<"1", "0", "0">>,
                                    << Attribute("Reference", <<"front">>) >>))
    [] feature = 7 -> AddSet(d, Set("SourceView", <<>>, <<>>, "scalar", <<"1">>, <<>>))
    [] feature = 8 -> AddSet(AddSet(d, Set("RoomCornerA", <<"I", "C">>, <<1, 3>>, "numeric", <<"0">>, <<>>)),
                             Set("RoomCornerB", <<"I", "C">>, <<1, 3>>, "numeric", <<"9">>, <<>>))
    [] feature = 9 -> AddSet(d, Set("RoomVolume", <<"M">>, <<2>>, "numeric", <<"200", "210">>,
                                    << Attribute("Units", <<"litre">>), Attribute("Origin", <<"guess">>) >>))
    [] feature = 10 -> AddSet(d, Set("RoomVolume", <<"M">>, <<2>>, "numeric", <<"0", "200">>, <<>>))
    [] feature = 11 -> AddSet(AddSet(d, Scale("S", <<>>, <<>>)),
                              Set("Names", <<"R", "S">>, <<2, 2>>, "chars", <<"l", "r">>,
                                  << Attribute("Language", <<"de">>) >>))
    [] feature = 12 -> AddSet(AddSet(d, Scale("Angle", <<"10", "20">>, <<>>)),
                              Set("Notes", <<"Angle">>, <<2>>, "chars", <<"a", "b">>, <<>>))
    [] feature = 13 -> AddSet(d, Scale("Unused", <<>>, << Attribute("Remark", <<"why">>) >>))
    [] feature = 14 -> AddSet(d, Set("Partly", <<"M">>, <<2, 2>>, "numeric", <<"1", "2", "3", "4">>,
                                     << Attribute("Shade", Odd) >>))
    [] feature = 15 -> AddTo(d, "SourcePosition", "Reference", <<"seat">>)
    [] feature = 16 -> AddTo(AddTo(d, "N", "Comment", <<"taps">>), "ListenerUp", "Type", <<"cartesian">>)
    [] feature = 17 -> DropSet(d, "EmitterPosition")
    [] feature = 18 -> AddTo(DropSet(d, "ListenerView"), "M", "Remark", Odd)
    [] feature = 19 -> AddRoot(AddRoot(d, "Comment", <<>>), "Origin", <<"lab">>)
    [] feature = 20 -> AddSet(AddRoot(d, "RoomVolume", <<"200">>),
                              Set("RoomVolume", <<"I">>, <<1>>, "chars", <<"big">>, <<>>))
    [] feature = 21 -> AddSet(DropSet(d, "I"), Set("I", <<>>, <<1>>, "numeric", <<"1">>,
                                                  << Attribute("Remark", <<"one">>) >>))

Conventional == { <<"SingleRoomSRIR", "FIR">>, <<"FreeFieldDirectivityTF", "TF">>,
                  <<"FreeFieldHRTF", "TF-E">>, <<"SingleRoomDRIR", "FIR">> }

\* Which features files of other programs come with: each for one convention,
\* and for the others those their rules or their DataType have a part in; and
\* two that meet: corners and volume, two volumes, two users of further scales,
\* a view and its reference, SH by history and no emitter.
Single == {<<feature>> : feature \in 1..21}
Cases ==
  ({"SingleRoomSRIR"} \X (Single \cup {<<3, 8>>, <<3, 10>>, <<11, 12>>}))
  \cup ({"FreeFieldDirectivityTF"} \X {<<1>>, <<6>>, <<7>>, <<15>>, <<16>>, <<6, 15>>, <<14, 16>>})
  \cup ({"FreeFieldHRTF"} \X {<<4>>, <<5>>, <<11>>, <<17>>, <<18>>, <<5, 17>>})

ToolboxFiles ==
  {FoldLeft(With, Toolbox(c[1], RulesFor(c[1]).dataType), c[2]) : c \in Cases}

BuiltFiles ==
  {Plain(c[1], c[2]) : c \in Conventional}
  \cup {[Plain("SingleRoomDRIR", "FIR") EXCEPT !.api = Api(<<"app">>, <<>>)],
        [Plain("FreeFieldHRTF", "TF-E") EXCEPT !.emitterType = <<"spherical harmonics">>]}
=============================================================================
