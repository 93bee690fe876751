------------------------------ MODULE Transfer ------------------------------
(***************************************************************************)
(* Senders write Files to a stream with WriteTo, any of which may fail;    *)
(* when they are done, a receiver gives a file that is complete in the     *)
(* stream, or one another program wrote, to OpenReader and to              *)
(* OpenReaderLazy.  What is sent is described by its dimensions and by     *)
(* how far its audio data could be compressed.                             *)
(***************************************************************************)
EXTENDS WriteTo, ReadLimits

CONSTANT OtherFiles  \* stored files other programs wrote

vars == <<sendVars, readVars>>

ASSUME FilesValid ==
  \A f \in Files :
    /\ f.type \in {"FIR", "SOS", "TF", "TFE"} /\ f.size \in [Sizes -> Nat \ {0}]
    /\ f.type = "SOS" => f.size["N"] % 6 = 0
    /\ f.emitterRows \in {"E", "I"} /\ f.room \subseteq Range(RoomVariables)
    /\ f.packed \in Nat

ASSUME OtherFilesGiven == \A d \in OtherFiles : StoredFile(d)

\* The datasets writeHDF5 writes and their layouts, a scale's being its own
\* dimension.  A File has one row of source positions for each measurement,
\* one rate and one delay for each receiver.
SavedVariables(f) ==
  Range(AudioOf(f.type)) \cup Range(Spatial) \cup f.room
    \cup IF Rated(f.type) THEN {"Data.SamplingRate", "Data.Delay"} ELSE {}

SavedLayout(f, v) ==
  CASE v \in Range(AudioOf(f.type)) -> IF f.type = "TFE" THEN MRNE ELSE MRN
    [] v = "SourcePosition" -> <<"M", "C">>
    [] v = "ReceiverPosition" -> <<"R", "C", "I">>
    [] v = "EmitterPosition" -> <<f.emitterRows, "C", "I">>
    [] v \in {"ListenerPosition", "ListenerUp", "ListenerView"} -> <<"I", "C">>
    [] v = "Data.Delay" -> <<"I", "R">>
    [] v \in {"Data.SamplingRate"} \cup Range(RoomVariables) -> <<"I">>
    [] v \in Sizes \cup {"C", "I"} -> <<v>>

\* The netCDF NAME of a scale and its first value.
SavedScale(f, s) ==
  IF s = "N" /\ ~Rated(f.type) THEN [name |-> "label", n |-> 0, value |-> f.frequency]
                               ELSE [name |-> "size", n |-> f.size[s], value |-> 0]

\* The file WriteTo hands over.
Sent(f) ==
  [type |-> f.type,
   shape |-> [v \in SavedVariables(f) \cup Sizes \cup {"C", "I"} |->
                Shape(f.size, SavedLayout(f, v))],
   scale |-> [s \in Sizes |-> SavedScale(f, s)],
   zero |-> {}, scales |-> {"C", "I"}, odd |-> {},
   bytes |-> f.bytes]

\* The least length of a file: 8 bytes for each value that is neither
\* compressed audio nor the missing value of a dimension scale.
LeastBytes(f) ==
  LET stored == (SavedVariables(f) \ Range(AudioOf(f.type)))
                  \cup IF Rated(f.type) THEN {} ELSE {"N"}
  IN  f.packed + SumFunction([v \in stored |-> 8 * Count(Shape(f.size, SavedLayout(f, v)))])

ASSUME LengthsGiven == \A f \in Files : f.bytes >= LeastBytes(f)

\* readBudget is eight elements for each byte; an ordinary file needs three.
ASSUME PerByteGiven == PerByte >= 3

Init == InitSend /\ InitRead

\* The receiver reads what is in the stream once every sender is done.
Receive ==
  /\ calls = MaxCalls /\ \A s \in Senders : pc[s] = "idle"
  /\ \E e \in Range(stream) : e.bytes = e.file.bytes /\ GivenTo(Sent(e.file))
  /\ UNCHANGED sendVars

\* Or it reads another program's file, and nothing is sent.
ReceiveOther ==
  /\ calls = 0
  /\ \E d \in OtherFiles : GivenTo(d)
  /\ UNCHANGED sendVars

\* The two readers share nothing, so OpenReaderLazy follows OpenReader.
ReadNext ==
  /\ \E r \in Readers : (r = "OpenLazy" => outcome["Open"] # "none") /\ ReadStep(r)
  /\ UNCHANGED sendVars

Next ==
  \/ opened = <<>> /\ SendNext /\ UNCHANGED readVars
  \/ Receive \/ ReceiveOther \/ ReadNext

Spec == Init /\ [][Next]_vars

-----------------------------------------------------------------------------
(* Properties.                                                             *)

Samples(f) == Len(AudioOf(f.type)) * Count(Sent(f).shape[AudioOf(f.type)[1]])

\* An ordinary File: its audio takes a byte per sample ("compressed audio
\* data rarely shrinks below a byte per sample", sofa_dataspace.go:19-20),
\* it has no more emitters than samples, and M, R, E and N multiplied, three
\* coordinates each, stay below maxDataElements.
Ordinary(f) ==
  /\ f.packed >= Samples(f)
  /\ f.size["E"] <= Samples(f)
  /\ 3 * Count(f.size) <= MaxElements

\* Whatever WriteTo handed over completely is read again, by Open and by
\* OpenLazy, unless the reading itself fails: neither the budget nor the
\* search for the dimensions and the layouts refuses it.
ReceivedIsReadable ==
  opened # <<>> => \A f \in Files :
    opened = <<Sent(f)>> /\ Ordinary(f) =>
      \A r \in Readers : outcome[r] \in {"none", "ok", "io"}
=============================================================================
