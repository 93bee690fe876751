------------------------------ MODULE LazyFile ------------------------------
(***************************************************************************)
(* The life of a File: OpenFile opens it, and when that returned a lazy    *)
(* File, the goroutines of LazyAudio read and close it.  The two modules   *)
(* share the HDF5 handle and the file under it.                            *)
(***************************************************************************)
EXTENDS LazyAudio

VARIABLES lazy, own, step, err, unshut, got

Opening == INSTANCE OpenFile

opening == <<lazy, own, step, err, unshut, got>>
using == <<fields, mu, pc, local, result, edits>>
fileVars == <<opening, using, resources>>

InitFile == Opening!Init /\ InitCalls

Open == Opening!Next /\ UNCHANGED using

\* The caller has a lazy File.
InUse == got = "file" /\ lazy

\* An eager File has no lazyAudio: f.lazy is nil and Close does nothing.
Use == InUse /\ Next /\ UNCHANGED opening

NextFile == Open \/ Use

\* Of the calls, every goroutine's own steps: see LazyAudio.
FileFairness ==
  /\ WF_fileVars(Open)
  /\ \A g \in Goroutines : SF_fileVars(InUse /\ Step(g) /\ UNCHANGED opening)

SpecFile == InitFile /\ [][NextFile]_fileVars /\ FileFairness

-----------------------------------------------------------------------------
(* Properties.                                                             *)

Closing == \E g \in Goroutines : pc[g] \in {"closehandle", "closefile"}

\* Nothing is left open: once the call has returned an error or a File that
\* is not lazy, or Close has, neither the handle nor the file is open, and a
\* lazy File not closed yet has both (its file only if it opened one).
NothingLeaks ==
  got # "nothing" /\ ~Closing =>
    IF InUse
    THEN handle \in {"open", "closed"} /\ osfile = (IF own THEN handle ELSE "none")
    ELSE handle # "open" /\ osfile # "open"

\* Whoever is responsible closes, once: never both the function that opened
\* the File and the File's Close, however many goroutines and callbacks call
\* it (sofa_stream.go:62), and never the reader the caller passed in.
ClosedByOne ==
  /\ handle # "twice" /\ osfile # "twice"
  /\ ~own => osfile = "none"

\* An error of closing what was opened is not lost: Open returns it, and no
\* File with it (sofa.go:234-236, sofa_io.go:45-47).
CloseErrorReported == unshut /\ got # "nothing" => got = "error"

-----------------------------------------------------------------------------
(* Why they hold: what each step of opening has open, and that the calls   *)
(* have not begun before it returned a lazy File.                          *)

Steps == {"open", "stat", "hdf5", "read", "handle", "osfile", "returning", "returned"}

OpeningTypeOK ==
  /\ lazy \in BOOLEAN /\ own \in BOOLEAN /\ err \in BOOLEAN /\ unshut \in BOOLEAN
  /\ step \in Steps
  /\ got \in {"nothing", "error", "file"}
  /\ got = "nothing" <=> step # "returned"

\* The file as it was opened, if it was.
Opened == IF own THEN "open" ELSE "none"

HeldWhileOpening ==
  /\ step = "open" => own /\ ~err /\ handle = "none" /\ osfile = "none"
  /\ step = "stat" => own /\ ~err /\ handle = "none" /\ osfile = "open"
  /\ step = "hdf5" => ~err /\ handle = "none" /\ osfile = Opened
  /\ step = "read" => ~err /\ handle = "open" /\ osfile = Opened
  /\ step = "handle" => handle = "open" /\ osfile = Opened
  /\ step = "osfile" => own /\ osfile = "open"
  /\ step = "returning" => osfile = IF lazy /\ ~err THEN Opened
                                    ELSE IF own THEN "closed" ELSE "none"
  /\ step \in {"osfile", "returning"} =>
       IF lazy /\ ~err THEN handle = "open" ELSE handle \in {"none", "closed"}
  /\ step \in {"open", "stat", "hdf5", "read"} => ~unshut
  /\ unshut => err \/ got = "error"
  /\ got = "file" => ~err

\* Returned, but no lazy File.
HeldAfterwards ==
  got # "nothing" /\ ~InUse =>
    /\ handle \in {"none", "closed"} /\ osfile \in {"none", "closed"}
    /\ ~own => osfile = "none"

FileInv ==
  /\ OpeningTypeOK /\ HeldWhileOpening /\ HeldAfterwards
  /\ IF InUse THEN IInv /\ (own <=> osfile # "none") ELSE InitCalls

-----------------------------------------------------------------------------
(* A lazy File implements what it promises to those who share it.          *)

\* A range is under way; upto is set once its loop has begun.
Ranging(g) == pc[g] \in {"precheck", "loop"} \/ upto[g] # NoLoop

\* fn runs, or a Close it has called.
InCallback(g) == pc[g] = "callback" \/ inside[g]

\* What makes that clear: a Close that fn has called is one of a range, which
\* goes on after it.
Nested ==
  \A g \in Goroutines :
    /\ inside[g] => pc[g] \in {"callback", "closing", "closehandle", "closefile"}
    /\ InCallback(g) => upto[g] # NoLoop

Doing(g) ==
  IF pc[g] = "idle" THEN "nothing"
  ELSE IF InCallback(g) THEN "fn"
  ELSE IF pc[g] = "closefile" THEN "closed it"
  ELSE IF pc[g] \in {"closing", "closehandle"} THEN "close"
  ELSE IF Ranging(g) THEN "range" ELSE "read"

\* The measurements before the one it is at, and that one while fn runs.
Served(g) ==
  IF Doing(g) = "range" THEN at[g] ELSE IF Doing(g) = "fn" THEN at[g] + 1 ELSE 0

Life ==
  IF got = "nothing" THEN "opening"
  ELSE IF ~InUse THEN "none"
  ELSE IF handle = "open" THEN "open" ELSE "closed"

Shared == INSTANCE SharedFile WITH
  life <- Life,
  doing <- [g \in Goroutines |-> Doing(g)],
  served <- [g \in Goroutines |-> Served(g)]

\* Goroutines that share a lazy File, callbacks and Close included, cannot
\* tell it from one whose every delivery and every Close happens at once
\* (sofa_stream.go:36-39, 60-64, 508-516).
ImplementsShared == Shared!Spec
=============================================================================
