------------------------------ MODULE Convert ------------------------------
(***************************************************************************)
(* convert of sofa2json (cmd/sofa2json/main.go): export a SOFA file to a   *)
(* JSON file beside it.  Without -f the JSON file is created exclusively   *)
(* and written in place, with -f a temporary file is written and renamed   *)
(* over it.  Several exports to one JSON file may run at once, any call of *)
(* the operating system may fail, and a process may be killed.             *)
(*                                                                         *)
(* An export stands for the file it creates.  Nothing is fsynced and       *)
(* nothing is promised across a crash of the machine, which is left out.   *)
(***************************************************************************)
CONSTANTS Exports, \* the calls of convert
          Old,     \* a JSON file that was there before
          None     \* no JSON file

Files == Exports \cup {Old}

ASSUME FilesDiffer == Old \notin Exports /\ None \notin Files

VARIABLES pc,    \* where each export stands
          force, \* which of them were started with -f
          out,   \* the JSON file
          temps, \* the temporary files in the directory
          data   \* what each file holds

vars == <<pc, force, out, temps, data>>

\* Part of the JSON text, or none, or all of it.
Contents == {"partial", "full"}

Running == {"create", "encode", "close", "rename", "remove"}
\* "left": failed, and what was written could not be removed.
Ended == {"ok", "failed", "left", "killed"}

Init ==
  /\ pc = [x \in Exports |-> "idle"]
  /\ force \in [Exports -> BOOLEAN]
  /\ out \in {Old, None}
  /\ temps = {}
  /\ data = [f \in Files |-> IF f = Old THEN "full" ELSE "partial"]

-----------------------------------------------------------------------------
Goto(x, label) == pc' = [pc EXCEPT ![x] = label]

\* sofa.Open succeeds or fails; nothing is written before it has.
OpenInput(x) ==
  /\ pc[x] = "idle"
  /\ Goto(x, "create") \/ Goto(x, "failed")
  /\ UNCHANGED <<force, out, temps, data>>

CreateTemp(x) ==
  /\ pc[x] = "create" /\ force[x]
  /\ Goto(x, "encode")
  /\ temps' = temps \cup {x}
  /\ UNCHANGED <<force, out, data>>

\* A bug: no O_EXCL.
BugAbsent == TRUE
\* O_EXCL: the JSON file must not exist.
Absent == out = None

CreateOut(x) ==
  /\ pc[x] = "create" /\ ~force[x] /\ Absent
  /\ Goto(x, "encode")
  /\ out' = x
  /\ UNCHANGED <<force, temps, data>>

\* The JSON file exists, or another error.
CreateFails(x) ==
  /\ pc[x] = "create"
  /\ Goto(x, "failed")
  /\ UNCHANGED <<force, out, temps, data>>

\* A bug: what is still buffered is forgotten.
BugFlushed == {"partial", "full"}
\* What the file holds when encode has flushed its buffer and returned nil.
Flushed == {"full"}

Encode(x) ==
  /\ pc[x] = "encode"
  /\ Goto(x, "close")
  /\ data' \in {[data EXCEPT ![x] = d] : d \in Flushed}
  /\ UNCHANGED <<force, out, temps>>

\* A bug: an error returns at once.
BugOnError(x) == "failed"
\* A bug: a failed export with -f is tried again.
RetryOnError(x) == IF force[x] THEN "create" ELSE "remove"
\* Every error after the file was created runs the deferred os.Remove.
OnError(x) == "remove"

\* The file is closed without looking at the error.
EncodeFails(x) ==
  /\ pc[x] = "encode"
  /\ Goto(x, OnError(x))
  /\ UNCHANGED <<force, out, temps, data>>

Close(x) ==
  /\ pc[x] = "close"
  /\ Goto(x, IF force[x] THEN "rename" ELSE "ok")
  /\ UNCHANGED <<force, out, temps, data>>

\* What was written may be lost.
CloseFails(x) ==
  /\ pc[x] = "close"
  /\ Goto(x, OnError(x))
  /\ \E d \in Contents : data' = [data EXCEPT ![x] = d]
  /\ UNCHANGED <<force, out, temps>>

Rename(x) ==
  /\ pc[x] = "rename" /\ x \in temps
  /\ Goto(x, "ok")
  /\ out' = x
  /\ temps' = temps \ {x}
  /\ UNCHANGED <<force, data>>

RenameFails(x) ==
  /\ pc[x] = "rename"
  /\ Goto(x, OnError(x))
  /\ UNCHANGED <<force, out, temps, data>>

\* A bug: target is removed, not written.
BugRemovesOut(x) == TRUE
\* The name an export has written to is the JSON file's without -f, whatever
\* file has that name by now.
RemovesOut(x) == ~force[x]

Remove(x) ==
  /\ pc[x] = "remove"
  /\ Goto(x, "failed")
  /\ IF RemovesOut(x) THEN out' = None /\ UNCHANGED temps
                      ELSE temps' = temps \ {x} /\ UNCHANGED out
  /\ UNCHANGED <<force, data>>

\* An error of os.Remove is dropped.
RemoveFails(x) ==
  /\ pc[x] = "remove"
  /\ Goto(x, "left")
  /\ UNCHANGED <<force, out, temps, data>>

Step(x) ==
  \/ CreateTemp(x) \/ CreateOut(x) \/ CreateFails(x) \/ Encode(x)
  \/ EncodeFails(x) \/ Close(x) \/ CloseFails(x) \/ Rename(x)
  \/ RenameFails(x) \/ Remove(x) \/ RemoveFails(x)

\* A process is killed: nothing it deferred runs.
Kill(x) ==
  /\ pc[x] \in Running
  /\ Goto(x, "killed")
  /\ UNCHANGED <<force, out, temps, data>>

Next == \E x \in Exports : OpenInput(x) \/ Step(x) \/ Kill(x)

\* No step of an export that has begun waits for anything.
Fairness == \A x \in Exports : WF_vars(Step(x))

Spec == Init /\ [][Next]_vars /\ Fairness

-----------------------------------------------------------------------------
(* Properties.                                                             *)

TypeOK ==
  /\ pc \in [Exports -> {"idle"} \cup Running \cup Ended]
  /\ force \in [Exports -> BOOLEAN]
  /\ out \in Files \cup {None}
  /\ temps \subseteq Exports
  /\ data \in [Files -> Contents]

\* "On error no (partial) output file is left behind" (main.go:103), unless
\* os.Remove fails: neither the temporary file nor what was written in place.
NothingLeft ==
  \A x \in Exports : pc[x] = "failed" => x \notin temps /\ out # x

\* Whoever reads the JSON file finds all of it, or one that an export without
\* -f has created and not finished: a rename never brings a partial one.
CompleteOrInPlace ==
  out \in Files /\ data[out] # "full" =>
    out \in Exports /\ ~force[out] /\ pc[out] \in {"encode", "close", "remove", "left", "killed"}

\* A file that is written by an export with -f.
ByForce(f) == f \in Exports /\ force[f]

\* "With force an existing output file is replaced only once the new one is
\* completely written" (main.go:104), and "a failed export keeps the previous
\* JSON intact" (main.go:119): a complete JSON file is followed by a complete
\* one, as long as no export without -f is about to remove the name.
PreviousKept ==
  [][(/\ out \in Files /\ data[out] = "full"
      /\ \A x \in Exports : pc[x] \in {"close", "remove"} => force[x])
     => out' \in Files /\ data'[out'] = "full"]_vars

\* "Without force, create out exclusively: there is no previous file to
\* protect" (main.go:117-118).  Whatever runs beside it, a JSON file is replaced by
\* exports with -f only, and removed only by an export without -f that fails:
\* the file it has created or, as it removes by name, one that an export with
\* -f has renamed into its place.  So a file that was there before, or that an
\* export without -f has finished or left, is never removed; one that an
\* export with -f has finished may be.
UnforcedKeep ==
  [][out # None =>
       \/ out' = out
       \/ ByForce(out')
       \/ /\ out' = None
          /\ \E x \in Exports :
               /\ ~force[x] /\ pc[x] = "remove" /\ pc'[x] = "failed"
               /\ out = x \/ ByForce(out)]_vars

\* Every export that opened its input returns, unless it is killed.
EveryExportEnds ==
  \A x \in Exports : pc[x] = "create" ~> pc[x] \in Ended

-----------------------------------------------------------------------------
(* Why the properties hold: an inductive invariant, part by part.          *)

\* Temporary files belong to exports with -f that have not ended well.
TempsInUse ==
  /\ \A x \in temps : force[x] /\ pc[x] \notin {"idle", "create", "ok", "failed"}
  /\ \A x \in Exports : pc[x] = "rename" => force[x]

\* The JSON file was renamed by an export with -f, created by one without, or
\* was there before.
OutIsFrom ==
  out \in Exports =>
    IF force[out] THEN pc[out] = "ok"
                  ELSE pc[out] \in {"encode", "close", "ok", "remove", "left", "killed"}

EncodedIsFull ==
  /\ data[Old] = "full"
  /\ \A x \in Exports : pc[x] \in {"close", "rename", "ok"} => data[x] = "full"

\* The exports that have created the JSON file and may still remove it.
InPlace == {x \in Exports : ~force[x] /\ pc[x] \in {"encode", "close", "remove"}}

\* There is one of them at a time, as O_EXCL needs the name to be free, and it
\* loses the JSON file to exports with -f only.
OneInPlace ==
  \A x \in InPlace : InPlace = {x} /\ (out = x \/ ByForce(out))

IInv == TypeOK /\ TempsInUse /\ OutIsFrom /\ EncodedIsFull /\ OneInPlace
=============================================================================
