------------------------------ MODULE WriteTo ------------------------------
(***************************************************************************)
(* File.WriteTo (sofa_io.go): senders write Files to one io.Writer, each   *)
(* through a commitWriter of its own, when any step may fail.  The HDF5    *)
(* library assembles a file in memory and hands it over in one Write when  *)
(* it is closed, also after an error.                                      *)
(***************************************************************************)
EXTENDS Integers, Sequences

CONSTANTS Senders,
          Files,    \* the Files sent; bytes is the length of a File's file
          Pieces,   \* how much of a file a writer that fails may accept
          Writes,   \* how many times a File is written to the HDF5 library
          MaxCalls  \* bound on the calls of all senders

ASSUME FilesGiven == Files # {} /\ \A f \in Files : f.bytes \in Nat \ {0}
ASSUME PiecesGiven == Pieces \subseteq Nat
ASSUME WritesGiven == Writes \in Nat \ {0} /\ MaxCalls \in Nat

VARIABLES
  file,       \* each sender's File, which it may edit between calls
  pc,         \* where its call stands
  written,    \* what it has written to the HDF5 library
  err,        \* an error is on its way to the caller
  committed,  \* commitWriter.committed
  n,          \* commitWriter.n
  result,     \* what its last call returned
  calls,      \* how often WriteTo was called
  handed,     \* ghost: the bytes the writer accepted in its current or last call
  stream      \* what the writer accepted, one Write after the other

sink == <<committed, n>>
sendVars == <<file, pc, written, err, sink, result, calls, handed, stream>>

Places == {"idle", "create", "encode", "close"}

InitSend ==
  /\ pc = [s \in Senders |-> "idle"]
  /\ written = [s \in Senders |-> 0]
  /\ err = [s \in Senders |-> FALSE]
  /\ committed = [s \in Senders |-> FALSE]
  /\ n = [s \in Senders |-> 0]
  /\ result = [s \in Senders |-> "none"]
  /\ handed = [s \in Senders |-> 0]
  /\ stream = <<>>
  /\ file = [s \in Senders |-> CHOOSE f \in Files : TRUE]
  /\ calls = 0

Goto(s, place) == pc' = [pc EXCEPT ![s] = place]

Return(s, r) == Goto(s, "idle") /\ result' = [result EXCEPT ![s] = r]

\* BUG: one commitWriter for all calls.
BugFresh(s) == committed[s]
\* Every call has a commitWriter of its own.
Fresh(s) == FALSE

\* WriteTo begins: nothing has been written, and n is 0.
Begin(s) ==
  /\ pc[s] = "idle" /\ calls < MaxCalls
  /\ Goto(s, "create")
  /\ \E f \in Files : file' = [file EXCEPT ![s] = f]
  /\ calls' = calls + 1
  /\ written' = [written EXCEPT ![s] = 0]
  /\ err' = [err EXCEPT ![s] = FALSE]
  /\ committed' = [committed EXCEPT ![s] = Fresh(s)]
  /\ n' = [n EXCEPT ![s] = 0]
  /\ handed' = [handed EXCEPT ![s] = 0]
  /\ result' = [result EXCEPT ![s] = "none"]
  /\ UNCHANGED stream

\* checkWritable, saveTimestamp and create; no HDF5 writer needs closing if
\* one of them fails.
Create(s) ==
  /\ pc[s] = "create"
  /\ \/ Goto(s, "encode") /\ UNCHANGED result
     \/ Return(s, "error")
  /\ UNCHANGED <<file, written, err, sink, calls, handed, stream>>

\* A scale, a variable or an attribute is written.
Encode(s) ==
  /\ pc[s] = "encode" /\ written[s] < Writes
  /\ \/ written' = [written EXCEPT ![s] = @ + 1] /\ UNCHANGED <<pc, err>>
     \/ err' = [err EXCEPT ![s] = TRUE] /\ Goto(s, "close") /\ UNCHANGED written
  /\ UNCHANGED <<file, sink, result, calls, handed, stream>>

\* commit, which writeHDF5 defers until everything is written.
Commit(s) ==
  /\ pc[s] = "encode" /\ written[s] = Writes
  /\ committed' = [committed EXCEPT ![s] = TRUE]
  /\ Goto(s, "close")
  /\ UNCHANGED <<file, written, err, n, result, calls, handed, stream>>

\* BUG: the error of Close is dropped.
BugAfterClose(s, failed) == err[s]
\* The writer's Close error is joined with any earlier one.
AfterClose(s, failed) == err[s] \/ failed

\* What commitWriter.Write adds to n.
Accepted(s, k) == k

Closed(s, failed) == Return(s, IF AfterClose(s, failed) THEN "error" ELSE "ok")

\* Closing fails before anything is handed over.
CloseFails(s) ==
  /\ pc[s] = "close"
  /\ Closed(s, TRUE)
  /\ UNCHANGED <<file, written, err, sink, calls, handed, stream>>

\* commitWriter.Write discards what was not committed.
Discard(s) ==
  /\ pc[s] = "close" /\ ~committed[s]
  /\ Closed(s, FALSE)
  /\ UNCHANGED <<file, written, err, sink, calls, handed, stream>>

\* The writer accepts all of the file, or a part of it and fails; the HDF5
\* library may fail after that.
HandOver(s) ==
  /\ pc[s] = "close" /\ committed[s]
  /\ \E k \in {j \in Pieces : j < file[s].bytes} \cup {file[s].bytes}, failed \in BOOLEAN :
       /\ k < file[s].bytes => failed
       /\ n' = [n EXCEPT ![s] = @ + Accepted(s, k)]
       /\ handed' = [handed EXCEPT ![s] = k]
       /\ stream' = (IF k = 0 THEN stream ELSE Append(stream, [file |-> file[s], bytes |-> k]))
       /\ Closed(s, failed)
  /\ UNCHANGED <<file, written, err, committed, calls>>

Send(s) == Begin(s) \/ Create(s) \/ Encode(s) \/ Commit(s) \/ CloseFails(s) \/ Discard(s) \/ HandOver(s)

SendNext == \E s \in Senders : Send(s)

SpecSend == InitSend /\ [][SendNext]_sendVars

-----------------------------------------------------------------------------
(* Properties.                                                             *)

\* "A validation or encoding error writes nothing to w" (sofa_io.go:167-168),
\* also when a sender tries again after a call that failed, or after one
\* that did not: the writer has got bytes of files that are complete alone.
NothingBeforeCommit ==
  \A s \in Senders : handed[s] > 0 => written[s] = Writes /\ ~err[s]

\* WriteTo returns nil when the writer accepted the whole file, and never
\* otherwise; the count it returns is what the writer accepted, "returned
\* together with the bytes w accepted" (sofa_io.go:168-169).
HonestReturn ==
  \A s \in Senders :
    /\ pc[s] = "idle" => n[s] = handed[s]
    /\ result[s] = "ok" => handed[s] = file[s].bytes

-----------------------------------------------------------------------------
(* Why they hold: an inductive invariant.                                  *)

SendTypeOK ==
  /\ file \in [Senders -> Files]
  /\ pc \in [Senders -> Places]
  /\ written \in [Senders -> 0..Writes]
  /\ err \in [Senders -> BOOLEAN]
  /\ committed \in [Senders -> BOOLEAN]
  /\ n \in [Senders -> Nat]
  /\ handed \in [Senders -> Nat]
  /\ result \in [Senders -> {"none", "ok", "error"}]

\* Only an HDF5 writer without an error is committed, and only committed
\* ones hand something over, as the last thing they do.
Committed ==
  \A s \in Senders :
    /\ committed[s] => pc[s] \in {"close", "idle"} /\ written[s] = Writes /\ ~err[s]
    /\ handed[s] > 0 => committed[s] /\ pc[s] = "idle"
    /\ pc[s] # "idle" => n[s] = 0 /\ handed[s] = 0 /\ result[s] = "none"
    /\ pc[s] \in {"create", "encode"} => ~err[s]
    /\ pc[s] = "close" /\ ~err[s] => committed[s]
    /\ n[s] = handed[s]
    /\ result[s] = "ok" => handed[s] = file[s].bytes

SendInv == SendTypeOK /\ Committed
=============================================================================
