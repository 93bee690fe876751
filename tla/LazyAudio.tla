----------------------------- MODULE LazyAudio -----------------------------
(***************************************************************************)
(* A File returned by OpenLazy, shared by goroutines (sofa_stream.go):     *)
(* ReadMeasurement and its siblings for the other DataTypes, the Range     *)
(* functions with their callbacks, and Close.  One mutex, lazyAudio.mu,    *)
(* guards the HDF5 handle; the File's exported fields are not guarded and  *)
(* may be edited between calls and by a callback.                          *)
(*                                                                         *)
(* A measurement's values are left out: a reader delivers the measurement  *)
(* it was asked for or fails with an error of the classes in Errors.       *)
(***************************************************************************)
EXTENDS Integers, Sequences

CONSTANTS Goroutines,
          Nobody,   \* who holds an unlocked mutex
          Types,    \* the DataTypes whose readers are called
          Kind,     \* that of the file that was opened
          Stored,   \* the number of measurements it holds
          MaxEdits  \* bound on the edits of the File's fields

DataTypes == {"FIR", "TF", "TFE", "SOS"}

ASSUME GoroutinesGiven == Nobody \notin Goroutines
ASSUME FileGiven == Kind \in Types /\ Types \subseteq DataTypes
ASSUME BoundsGiven == Stored \in Nat \ {0} /\ MaxEdits \in Nat

VARIABLES fields,  \* the File's DataType, its M, and if R, N and E are as read
          mu,      \* who holds lazyAudio.mu
          handle,  \* lazyAudio.h and the HDF5 file it points to
          osfile,  \* lazyAudio.file and the file it points to
          pc,      \* what each goroutine is doing
          reader,  \* the DataType its current or last call is for
          at,      \* the measurement it reads
          upto,    \* where its loop over f.M ends, NoLoop for a single read
          part,    \* which of the audio variables it reads
          inside,  \* its callback has called Close
          result,  \* what its last call returned
          late,    \* ghost: the handle was closed when its call began
          edits    \* ghost: how often the fields were edited

resources == <<handle, osfile>>
local == <<reader, at, upto, part, inside, late>>
vars == <<fields, mu, resources, pc, local, result, edits>>

NoLoop == -1

\* A file is open, closed, or closed more often than it was opened; "none"
\* is the file of an OpenLazyReader, which Close leaves alone.
Shut(resource) == IF resource = "open" THEN "closed" ELSE "twice"

\* The classes of errors: fs.ErrClosed, ErrIndexOutOfRange,
\* ErrUnsupportedDataType, a failed read or close, and an error of fn.
Errors == {"closed", "range", "type", "io", "callback"}

Labels == {"idle", "precheck", "loop", "bounds", "lookup", "lock", "slice",
           "callback", "closing", "closehandle", "closefile"}

\* audioVariables: how many audio variables a DataType has, which tell FIR,
\* SOS and the two kinds of TF apart ...
AudioVariables(type) ==
  IF type = "FIR" THEN <<"Data.IR">>
  ELSE IF type = "SOS" THEN <<"Data.SOS">>
  ELSE <<"Data.Real", "Data.Imag">>

\* ... and the layout that tells TF and TF-E apart.
Layout(type) == IF type = "TFE" THEN "MRNE" ELSE "MRN"

InitFields == [type |-> Kind, M |-> Stored, rest |-> TRUE]

InitCalls ==
  /\ fields = InitFields
  /\ mu = Nobody
  /\ pc = [g \in Goroutines |-> "idle"]
  /\ reader = [g \in Goroutines |-> Kind]
  /\ at = [g \in Goroutines |-> 0]
  /\ upto = [g \in Goroutines |-> NoLoop]
  /\ part = [g \in Goroutines |-> 1]
  /\ inside = [g \in Goroutines |-> FALSE]
  /\ late = [g \in Goroutines |-> FALSE]
  /\ result = [g \in Goroutines |-> "none"]
  /\ edits = 0

Init == InitCalls /\ handle = "open" /\ osfile \in {"open", "none"}

-----------------------------------------------------------------------------
Goto(g, label) == pc' = [pc EXCEPT ![g] = label]

\* The call of g returns r.
Return(g, r) ==
  /\ Goto(g, "idle")
  /\ result' = [result EXCEPT ![g] = r]

\* A goroutine begins a call.
Call(g, label) ==
  /\ pc[g] = "idle"
  /\ Goto(g, label)
  /\ result' = [result EXCEPT ![g] = "none"]
  /\ upto' = [upto EXCEPT ![g] = NoLoop]
  /\ part' = [part EXCEPT ![g] = 1]
  /\ late' = [late EXCEPT ![g] = label # "closing" /\ handle # "open"]
  /\ UNCHANGED <<fields, mu, resources, inside, edits>>

\* ReadMeasurement, ReadMeasurementTF, ReadMeasurementTFE or
\* ReadMeasurementSOS with an m in range or not.
ReadMeasurement(g) ==
  /\ Call(g, "bounds")
  /\ \E t \in Types, m \in {0, Stored} :
       /\ reader' = [reader EXCEPT ![g] = t]
       /\ at' = [at EXCEPT ![g] = m]

\* A bug: no checkLazyRange.
BugRangeEntry == "loop"
\* What a Range function does before its loop: checkLazyRange.
RangeEntry == "precheck"

\* RangeMeasurements or RangeMeasurementsTF.
RangeMeasurements(g) ==
  /\ Call(g, RangeEntry)
  /\ \E t \in Types \cap {"FIR", "TF"} : reader' = [reader EXCEPT ![g] = t]
  /\ at' = [at EXCEPT ![g] = 0]

-----------------------------------------------------------------------------
(* Reading.                                                                *)

\* A bug: the mutex is not taken.
BugUnlocked == TRUE
\* lazyAudio.mu can be locked.
Unlocked == mu = Nobody

\* A bug: closed() is asked only after the fields have been compared.
BugLookupError(t, k) ==
  IF fields.M # Stored \/ ~fields.rest THEN "range"
  ELSE IF handle # "open" THEN "closed"
  ELSE IF AudioVariables(Kind) # AudioVariables(t) THEN "type"
  ELSE IF Layout(Kind) # Layout(t) THEN "range"
  ELSE "none"

\* lazyVariable: why variable k of DataType t cannot be read, if so.
LookupError(t, k) ==
  IF handle # "open" THEN "closed"
  ELSE IF \A i \in DOMAIN AudioVariables(Kind) :
            AudioVariables(Kind)[i] # AudioVariables(t)[k] THEN "type"
  ELSE IF Layout(Kind) # Layout(t) \/ fields.M # Stored \/ ~fields.rest THEN "range"
  ELSE "none"

\* The call has another audio variable to look up, or to read.
MoreParts(g) == part[g] < Len(AudioVariables(reader[g]))

\* requireDataType and checkLazyRange, which looks up every audio variable.
Precheck(g) ==
  /\ pc[g] = "precheck" /\ Unlocked
  /\ LET e == IF fields.type # reader[g] THEN "type" ELSE LookupError(reader[g], part[g])
     IN  IF e # "none" THEN Return(g, e) /\ UNCHANGED part
         ELSE /\ UNCHANGED result
              /\ IF MoreParts(g)
                 THEN part' = [part EXCEPT ![g] = @ + 1] /\ UNCHANGED pc
                 ELSE part' = [part EXCEPT ![g] = 1] /\ Goto(g, "loop")
  /\ UNCHANGED <<fields, mu, resources, reader, at, upto, inside, late, edits>>

\* for m := range f.M, which evaluates f.M once.
Loop(g) ==
  /\ pc[g] = "loop"
  /\ upto' = [upto EXCEPT ![g] = fields.M]
  /\ IF fields.M = 0 THEN Return(g, "ok") ELSE Goto(g, "bounds") /\ UNCHANGED result
  /\ UNCHANGED <<fields, mu, resources, reader, at, part, inside, late, edits>>

\* requireDataType and checkMeasurement.
Bounds(g) ==
  /\ pc[g] = "bounds"
  /\ IF fields.type # reader[g] THEN Return(g, "type")
     ELSE IF at[g] >= fields.M THEN Return(g, "range")
     ELSE Goto(g, "lookup") /\ UNCHANGED result
  /\ UNCHANGED <<fields, mu, resources, local, edits>>

\* lazyVariable; closed() holds the mutex for a moment only.
Lookup(g) ==
  /\ pc[g] = "lookup" /\ Unlocked
  /\ LET e == LookupError(reader[g], part[g])
     IN  IF e # "none" THEN Return(g, e) ELSE Goto(g, "lock") /\ UNCHANGED result
  /\ UNCHANGED <<fields, mu, resources, local, edits>>

\* A bug: readMeasurement takes Lookup's word for it.
BugStillOpen == TRUE
\* readMeasurement asks again, now that it holds the mutex.
StillOpen == handle = "open"

\* readMeasurement locks the mutex for the whole of ReadSlice.
Lock(g) ==
  /\ pc[g] = "lock" /\ Unlocked
  /\ IF StillOpen THEN Goto(g, "slice") /\ mu' = g /\ UNCHANGED result
                  ELSE Return(g, "closed") /\ UNCHANGED mu
  /\ UNCHANGED <<fields, resources, local, edits>>

\* A bug: the mutex is not released before fn is called.
BugAfterRead == mu
\* Who holds the mutex once readMeasurement has returned.
AfterRead == Nobody

\* ReadSlice succeeds: the next variable, fn, or the end of the call.
SliceRead(g) ==
  /\ pc[g] = "slice"
  /\ mu' = AfterRead
  /\ IF MoreParts(g)
     THEN part' = [part EXCEPT ![g] = @ + 1] /\ Goto(g, "bounds") /\ UNCHANGED result
     ELSE /\ UNCHANGED part
          /\ IF upto[g] = NoLoop THEN Return(g, "ok")
                                 ELSE Goto(g, "callback") /\ UNCHANGED result
  /\ UNCHANGED <<fields, resources, reader, at, upto, inside, late, edits>>

SliceFails(g) ==
  /\ pc[g] = "slice"
  /\ mu' = Nobody
  /\ Return(g, "io")
  /\ UNCHANGED <<fields, resources, local, edits>>

\* fn returns: nil, and the loop goes on, or an error, which ends it.
CallbackReturns(g) ==
  /\ pc[g] = "callback"
  /\ inside' = [inside EXCEPT ![g] = FALSE]
  /\ \/ /\ at' = [at EXCEPT ![g] = @ + 1]
        /\ part' = [part EXCEPT ![g] = 1]
        /\ IF at[g] + 1 = upto[g] THEN Return(g, "ok")
                                  ELSE Goto(g, "bounds") /\ UNCHANGED result
     \/ Return(g, "callback") /\ UNCHANGED <<at, part>>
  /\ UNCHANGED <<fields, mu, resources, reader, upto, late, edits>>

-----------------------------------------------------------------------------
(* Close and edits of the fields.                                          *)

CallClose(g) == Call(g, "closing") /\ UNCHANGED <<reader, at>>

\* fn may call Close as well (once, here, for each call of fn).
CallbackCloses(g) ==
  /\ pc[g] = "callback" /\ ~inside[g]
  /\ Goto(g, "closing")
  /\ inside' = [inside EXCEPT ![g] = TRUE]
  /\ UNCHANGED <<fields, mu, resources, reader, at, upto, part, late, result, edits>>

\* lazyAudio.close is done, and returns r to the caller or to fn.
CloseReturns(g, r) ==
  IF inside[g] THEN Goto(g, "callback") /\ UNCHANGED result ELSE Return(g, r)

\* lazyAudio.close locks the mutex; only the first call finds a handle.
LockClose(g) ==
  /\ pc[g] = "closing" /\ Unlocked
  /\ IF handle = "open" THEN Goto(g, "closehandle") /\ mu' = g /\ UNCHANGED result
                        ELSE CloseReturns(g, "ok") /\ UNCHANGED mu
  /\ UNCHANGED <<fields, resources, local, edits>>

CloseHandle(g) ==
  /\ pc[g] = "closehandle"
  /\ handle' = Shut(handle)
  /\ Goto(g, "closefile")
  /\ UNCHANGED <<fields, mu, osfile, local, result, edits>>

\* l.file.Close, where OpenLazy opened a file.
CloseOSFile == IF osfile = "none" THEN osfile ELSE Shut(osfile)

\* The file is closed whether or not closing the handle failed.
CloseFile(g) ==
  /\ pc[g] = "closefile"
  /\ osfile' = CloseOSFile
  /\ mu' = Nobody
  /\ \E r \in {"ok", "io"} : CloseReturns(g, r)
  /\ UNCHANGED <<fields, handle, local, edits>>

\* The caller, or fn, changes a field of the File.  While another goroutine
\* is in a call that would be a data race of the caller's.
Edit(g) ==
  /\ pc[g] \in {"idle", "callback"}
  /\ \A other \in Goroutines \ {g} : pc[other] = "idle"
  /\ edits < MaxEdits
  /\ edits' = edits + 1
  /\ \/ \E t \in Types : fields' = [fields EXCEPT !.type = t]
     \/ \E m \in 0..Stored + 1 : fields' = [fields EXCEPT !.M = m]
     \/ \E same \in BOOLEAN : fields' = [fields EXCEPT !.rest = same]
  /\ UNCHANGED <<mu, resources, pc, local, result>>

\* What a goroutine does by itself once it is in a call.
Step(g) ==
  \/ Precheck(g) \/ Loop(g) \/ Bounds(g) \/ Lookup(g) \/ Lock(g)
  \/ SliceRead(g) \/ SliceFails(g) \/ CallbackReturns(g)
  \/ LockClose(g) \/ CloseHandle(g) \/ CloseFile(g)

Next ==
  \E g \in Goroutines :
    \/ ReadMeasurement(g) \/ RangeMeasurements(g) \/ CallClose(g)
    \/ CallbackCloses(g) \/ Edit(g) \/ Step(g)

\* sync.Mutex hands the lock to a goroutine that has waited for long
\* (starvation mode), so a goroutine that can lock it again and again does:
\* strong fairness.  That fn returns is the caller's part.
Fairness == \A g \in Goroutines : SF_vars(Step(g))

Spec == Init /\ [][Next]_vars /\ Fairness

-----------------------------------------------------------------------------
(* Properties.                                                             *)

TypeOK ==
  /\ fields \in [type : DataTypes, M : 0..Stored + 1, rest : BOOLEAN]
  /\ mu \in Goroutines \cup {Nobody}
  /\ handle \in {"none", "open", "closed", "twice"}
  /\ osfile \in {"open", "closed", "twice", "none"}
  /\ pc \in [Goroutines -> Labels]
  /\ reader \in [Goroutines -> DataTypes]
  /\ at \in [Goroutines -> Nat]
  /\ upto \in [Goroutines -> Int]
  /\ part \in [Goroutines -> 1..2]
  /\ inside \in [Goroutines -> BOOLEAN]
  /\ late \in [Goroutines -> BOOLEAN]
  /\ result \in [Goroutines -> Errors \cup {"none", "ok"}]
  /\ edits \in Nat

\* "Reads on one File are serialised" (sofa_stream.go:39), and exclude
\* Close: a goroutine that reads or closes has the handle for itself, and
\* the one that reads finds handle and file open until it is done.
ExclusiveUse ==
  \A g \in Goroutines :
    pc[g] \in {"slice", "closehandle", "closefile"} =>
      /\ \A other \in Goroutines \ {g} :
           pc[other] \notin {"slice", "closehandle", "closefile"}
      /\ pc[g] = "slice" => handle = "open" /\ osfile \in {"open", "none"}

\* A Range function that returns nil has called fn for every measurement the
\* file holds, whatever fn or others did to M, DataType or the handle
\* meanwhile (sofa_stream.go:299-302, 515-516).
RangeIsComplete ==
  \A g \in Goroutines :
    result[g] = "ok" /\ upto[g] # NoLoop => at[g] = Stored

\* A call that begins after Close never delivers data, and reports
\* fs.ErrClosed rather than a shape that does not match: M, R, N or E
\* changed (sofa_stream.go:270-271), while m is in range and the DataType
\* is what the reader is for.
ClosedComesFirst ==
  [][\A g \in Goroutines :
       (late[g] /\ pc[g] \notin {"idle", "closing"} /\ pc'[g] = "idle") =>
         \/ result'[g] = "closed"
         \/ result'[g] = "type" /\ reader[g] # fields.type
         \/ result'[g] = "range" /\ upto[g] = NoLoop /\ at[g] >= fields.M]_vars

\* Every call returns, a callback that calls Close included: no goroutine
\* waits for a mutex that it, or a sleeping one, holds.
EveryCallReturns ==
  \A g \in Goroutines : pc[g] # "idle" ~> pc[g] = "idle"

-----------------------------------------------------------------------------
(* Why the properties hold: an inductive invariant, part by part.          *)

\* The mutex is held exactly by the goroutine that uses the handle.
MutexHeld ==
  \A g \in Goroutines :
    mu = g <=> pc[g] \in {"slice", "closehandle", "closefile"}

\* Handle and file go from open to closed under the mutex, handle first.
Resources ==
  /\ handle \in {"open", "closed"}
  /\ handle = "open" => osfile \in {"open", "none"}
  /\ \A g \in Goroutines :
       /\ pc[g] \in {"slice", "closehandle"} => handle = "open"
       /\ pc[g] = "closefile" => handle = "closed" /\ osfile \in {"open", "none"}
  /\ (handle = "closed" /\ \A g \in Goroutines : pc[g] # "closefile")
       => osfile \in {"closed", "none"}

\* A loop runs over all measurements: the shape was checked just before f.M
\* was evaluated, and nobody edits the fields while a call is under way.
Loops ==
  \A g \in Goroutines :
    /\ pc[g] = "loop" => fields.M = Stored /\ upto[g] = NoLoop
    /\ pc[g] = "precheck" => upto[g] = NoLoop
    /\ upto[g] \in {NoLoop, Stored}
    /\ pc[g] \in {"closing", "closehandle", "closefile"} /\ ~inside[g]
         => upto[g] = NoLoop
    /\ result[g] = "ok" /\ upto[g] # NoLoop => at[g] = Stored
    /\ pc[g] # "idle" => result[g] = "none"

\* A call that began after Close gets no further than looking for its data.
Late ==
  \A g \in Goroutines :
    late[g] => /\ handle # "open"
               /\ pc[g] \in {"idle", "precheck", "bounds", "lookup"}
               /\ upto[g] = NoLoop

IInv == TypeOK /\ MutexHeld /\ Resources /\ Loops /\ Late
=============================================================================
