---- MODULE MC_Transfer ----
(* Two senders and files of three DataTypes; the limits are scaled from     *)
(* 2^30, 2^26 and 2^64 to 2^16, 2^12 and 2^20.                             *)
EXTENDS Transfer

SendersAlike == Permutations(Senders)

Dims(m, r, e, samples) == [s \in Sizes |-> IF s = "M" THEN m ELSE IF s = "R" THEN r
                                     ELSE IF s = "E" THEN e ELSE samples]

\* packed: the bytes the audio data is compressed to.
SentFile(type, dims, rows, room, packed) ==
  LET f == [type |-> type, size |-> dims, emitterRows |-> rows, frequency |-> 1000,
            room |-> room, packed |-> packed, bytes |-> 0]
  IN  [f EXCEPT !.bytes = LeastBytes(f)]

SentFiles ==
  {SentFile("FIR", Dims(64, 2, 1, 128), "E", {}, 64 * 2 * 128),
   SentFile("FIR", Dims(64, 2, 1, 128), "E", {}, 1),               \* well compressed
   SentFile("FIR", Dims(64, 8, 64, 8), "E", {}, 64 * 8 * 8),       \* E counts
   SentFile("FIR", Dims(1, 1, 20000, 1), "I", {}, 8),              \* a scale counts
   SentFile("TF", Dims(2, 2, 1, 1), "I", {"RoomVolume"}, 8),       \* one frequency
   SentFile("TFE", Dims(2, 1, 3, 4), "E", {}, 48)}

\* What another program may have written, from a FIR file with scalar sizes.
Plain == [name |-> "none", n |-> 0, value |-> 2]
Foreign ==
  [type |-> "FIR",
   shape |-> "Data.IR" :> <<2, 2, 2>> @@ [s \in Sizes |-> <<>>],
   scale |-> [s \in Sizes |-> Plain], zero |-> {}, scales |-> {}, odd |-> {}, bytes |-> 16]

With(d, v, shape) == [d EXCEPT !.shape = v :> shape @@ @]
Frequencies(count) == [With(Foreign, "N", <<count>>) EXCEPT !.type = "TF"]
TFE(layout) ==
  [With(With(With(Foreign, "N", <<4>>), "Data.Real", layout), "Data.Imag", layout) EXCEPT !.type = "TFE"]

ForeignFiles ==
  {Foreign,
   With(Foreign, "Data.IR", <<2, 2>>),                                \* no layout
   [Foreign EXCEPT !.odd = {"Data.IR"}],
   [Foreign EXCEPT !.scale["E"].value = 0],
   [Foreign EXCEPT !.scale["E"] = [name |-> "size", n |-> -2, value |-> 2]],
   [With(Foreign, "M", <<2>>) EXCEPT !.scale["M"] = [name |-> "size", n |-> 0, value |-> 0]],
   With(Foreign, "M", <<0>>),
   With(Foreign, "M", Unknown),
   With(Foreign, "Extra", <<1024, 1024>>),                            \* wraps to 0
   With(Foreign, "Extra", <<4096>>),
   With(Foreign, "Extra", <<4000>>),
   With(Foreign, "Extra", <<1024, 1024, 0>>),
   [With(With(Foreign, "RoomVolume", <<3000>>), "Data.Delay", <<4>>) EXCEPT !.zero = {"RoomVolume"}],
   [Frequencies(3000) EXCEPT !.bytes = 1000],
   Frequencies(1), [Frequencies(1) EXCEPT !.scale["N"] = [name |-> "size", n |-> 4, value |-> 0]],
   TFE(<<2, 2, 2, 4>>), TFE(<<2, 2, 4, 2>>),
   [With(With(Foreign, "N", <<5>>), "Data.SOS", <<2, 2, 5>>) EXCEPT !.type = "SOS"],
   [With(With(Foreign, "N", <<6>>), "Data.SOS", <<2, 2, 6>>) EXCEPT !.type = "SOS"]}
====
