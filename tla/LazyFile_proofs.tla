-------------------------- MODULE LazyFile_proofs --------------------------
(***************************************************************************)
(* Proofs for any number of goroutines and measurements: about LazyAudio,  *)
(* of a File that is open to begin with, and about the life of a File,     *)
(* whatever fails, from the call that opens it to its last reader and      *)
(* Close.                                                                  *)
(***************************************************************************)
EXTENDS LazyFile, TLAPS

\* What lazyVariable can answer.
LEMMA LookupErrors ==
  ASSUME NEW t, NEW k
  PROVE  LookupError(t, k) \in {"none", "closed", "type", "range"}
  BY DEF LookupError

LEMMA TypeInit == Init => TypeOK
  BY GoroutinesGiven, FileGiven, BoundsGiven
     DEF Init, InitCalls, InitFields, TypeOK, DataTypes, Labels, NoLoop

LEMMA TypeStep == TypeOK /\ [Next]_vars => TypeOK'
<1> SUFFICES ASSUME TypeOK, [Next]_vars PROVE TypeOK'
  OBVIOUS
<1>. USE GoroutinesGiven, FileGiven, BoundsGiven
     DEF TypeOK, Goto, resources, local, DataTypes, Labels, NoLoop, Errors
<1>1. ASSUME NEW g \in Goroutines, ReadMeasurement(g) PROVE TypeOK'
  BY <1>1 DEF ReadMeasurement, Call
<1>2. ASSUME NEW g \in Goroutines, RangeMeasurements(g) PROVE TypeOK'
  BY <1>2 DEF RangeMeasurements, Call, RangeEntry
<1>3. ASSUME NEW g \in Goroutines, CallClose(g) PROVE TypeOK'
  BY <1>3 DEF CallClose, Call
<1>4. ASSUME NEW g \in Goroutines, CallbackCloses(g) PROVE TypeOK'
  BY <1>4 DEF CallbackCloses
<1>5. ASSUME NEW g \in Goroutines, Edit(g) PROVE TypeOK'
  BY <1>5 DEF Edit
<1>6. ASSUME NEW g \in Goroutines, Precheck(g) PROVE TypeOK'
  BY <1>6 DEF Precheck, Return, LookupError, MoreParts, AudioVariables
<1>7. ASSUME NEW g \in Goroutines, Loop(g) PROVE TypeOK'
  BY <1>7 DEF Loop, Return
<1>8. ASSUME NEW g \in Goroutines, Bounds(g) PROVE TypeOK'
  BY <1>8 DEF Bounds, Return
<1>9. ASSUME NEW g \in Goroutines, Lookup(g) PROVE TypeOK'
  BY <1>9, LookupErrors DEF Lookup, Return
<1>10. ASSUME NEW g \in Goroutines, Lock(g) PROVE TypeOK'
  BY <1>10 DEF Lock, Return, StillOpen, Unlocked
<1>11. ASSUME NEW g \in Goroutines, SliceRead(g) PROVE TypeOK'
  BY <1>11 DEF SliceRead, Return, AfterRead, MoreParts, AudioVariables
<1>12. ASSUME NEW g \in Goroutines, SliceFails(g) PROVE TypeOK'
  BY <1>12 DEF SliceFails, Return
<1>13. ASSUME NEW g \in Goroutines, CallbackReturns(g) PROVE TypeOK'
  BY <1>13 DEF CallbackReturns, Return
<1>14. ASSUME NEW g \in Goroutines, LockClose(g) PROVE TypeOK'
  BY <1>14 DEF LockClose, CloseReturns, Return, Unlocked
<1>15. ASSUME NEW g \in Goroutines, CloseHandle(g) PROVE TypeOK'
  BY <1>15 DEF CloseHandle, Shut
<1>16. ASSUME NEW g \in Goroutines, CloseFile(g) PROVE TypeOK'
  BY <1>16 DEF CloseFile, CloseOSFile, CloseReturns, Return, Shut
<1>17. CASE UNCHANGED vars
  BY <1>17 DEF vars
<1>18. QED
  BY <1>1, <1>2, <1>3, <1>4, <1>5, <1>6, <1>7, <1>8, <1>9,
     <1>10, <1>11, <1>12, <1>13, <1>14, <1>15, <1>16, <1>17 DEF Next, Step

\* The variables keep their types.
THEOREM TypeCorrect == Spec => []TypeOK
  BY TypeInit, TypeStep, PTL DEF Spec

-----------------------------------------------------------------------------
LEMMA InvInit == Init => IInv
<1>. SUFFICES ASSUME Init PROVE IInv
  OBVIOUS
<1>1. TypeOK
  BY TypeInit
<1>2. MutexHeld /\ Resources /\ Loops /\ Late
  BY GoroutinesGiven
     DEF Init, InitCalls, MutexHeld, Resources, Loops, Late, NoLoop
<1>3. QED
  BY <1>1, <1>2 DEF IInv

\* The mutex excludes: two goroutines that use the handle are one.
LEMMA OneUser ==
  ASSUME MutexHeld, NEW g \in Goroutines, NEW other \in Goroutines,
         pc[g] \in {"slice", "closehandle", "closefile"},
         pc[other] \in {"slice", "closehandle", "closefile"}
  PROVE  g = other
  BY DEF MutexHeld

LEMMA MutexStep == TypeOK /\ MutexHeld /\ [Next]_vars => MutexHeld'
<1> SUFFICES ASSUME TypeOK, MutexHeld, [Next]_vars PROVE MutexHeld'
  OBVIOUS
<1>. USE GoroutinesGiven DEF TypeOK, MutexHeld, Goto, resources, local
<1>1. ASSUME NEW g \in Goroutines, ReadMeasurement(g) PROVE MutexHeld'
  BY <1>1 DEF ReadMeasurement, Call
<1>2. ASSUME NEW g \in Goroutines, RangeMeasurements(g) PROVE MutexHeld'
  BY <1>2 DEF RangeMeasurements, Call, RangeEntry
<1>3. ASSUME NEW g \in Goroutines, CallClose(g) PROVE MutexHeld'
  BY <1>3 DEF CallClose, Call
<1>4. ASSUME NEW g \in Goroutines, CallbackCloses(g) PROVE MutexHeld'
  BY <1>4 DEF CallbackCloses
<1>5. ASSUME NEW g \in Goroutines, Edit(g) PROVE MutexHeld'
  BY <1>5 DEF Edit
<1>6. ASSUME NEW g \in Goroutines, Precheck(g) PROVE MutexHeld'
  BY <1>6 DEF Precheck, Return, LookupError, MoreParts, AudioVariables
<1>7. ASSUME NEW g \in Goroutines, Loop(g) PROVE MutexHeld'
  BY <1>7 DEF Loop, Return
<1>8. ASSUME NEW g \in Goroutines, Bounds(g) PROVE MutexHeld'
  BY <1>8 DEF Bounds, Return
<1>9. ASSUME NEW g \in Goroutines, Lookup(g) PROVE MutexHeld'
  BY <1>9 DEF Lookup, Return
<1>10. ASSUME NEW g \in Goroutines, Lock(g) PROVE MutexHeld'
  BY <1>10 DEF Lock, Return, StillOpen, Unlocked
<1>11. ASSUME NEW g \in Goroutines, SliceRead(g) PROVE MutexHeld'
  BY <1>11 DEF SliceRead, Return, AfterRead, MoreParts, AudioVariables
<1>12. ASSUME NEW g \in Goroutines, SliceFails(g) PROVE MutexHeld'
  BY <1>12 DEF SliceFails, Return
<1>13. ASSUME NEW g \in Goroutines, CallbackReturns(g) PROVE MutexHeld'
  BY <1>13 DEF CallbackReturns, Return
<1>14. ASSUME NEW g \in Goroutines, LockClose(g) PROVE MutexHeld'
  BY <1>14 DEF LockClose, CloseReturns, Return, Unlocked
<1>15. ASSUME NEW g \in Goroutines, CloseHandle(g) PROVE MutexHeld'
  BY <1>15 DEF CloseHandle, Shut
<1>16. ASSUME NEW g \in Goroutines, CloseFile(g) PROVE MutexHeld'
  BY <1>16 DEF CloseFile, CloseOSFile, CloseReturns, Return, Shut
<1>17. CASE UNCHANGED vars
  BY <1>17 DEF vars
<1>18. QED
  BY <1>1, <1>2, <1>3, <1>4, <1>5, <1>6, <1>7, <1>8, <1>9,
     <1>10, <1>11, <1>12, <1>13, <1>14, <1>15, <1>16, <1>17 DEF Next, Step

LEMMA ResourcesStep ==
  TypeOK /\ MutexHeld /\ Resources /\ [Next]_vars => Resources'
<1> SUFFICES ASSUME TypeOK, MutexHeld, Resources, [Next]_vars PROVE Resources'
  OBVIOUS
<1>. USE DEF TypeOK, MutexHeld, Resources, Goto, resources, local
<1>1. ASSUME NEW g \in Goroutines, ReadMeasurement(g) PROVE Resources'
  BY <1>1 DEF ReadMeasurement, Call
<1>2. ASSUME NEW g \in Goroutines, RangeMeasurements(g) PROVE Resources'
  BY <1>2 DEF RangeMeasurements, Call, RangeEntry
<1>3. ASSUME NEW g \in Goroutines, CallClose(g) PROVE Resources'
  BY <1>3 DEF CallClose, Call
<1>4. ASSUME NEW g \in Goroutines, CallbackCloses(g) PROVE Resources'
  BY <1>4 DEF CallbackCloses
<1>5. ASSUME NEW g \in Goroutines, Edit(g) PROVE Resources'
  BY <1>5 DEF Edit
<1>6. ASSUME NEW g \in Goroutines, Precheck(g) PROVE Resources'
  BY <1>6 DEF Precheck, Return, LookupError, MoreParts, AudioVariables
<1>7. ASSUME NEW g \in Goroutines, Loop(g) PROVE Resources'
  BY <1>7 DEF Loop, Return
<1>8. ASSUME NEW g \in Goroutines, Bounds(g) PROVE Resources'
  BY <1>8 DEF Bounds, Return
<1>9. ASSUME NEW g \in Goroutines, Lookup(g) PROVE Resources'
  BY <1>9 DEF Lookup, Return
<1>10. ASSUME NEW g \in Goroutines, Lock(g) PROVE Resources'
  BY <1>10 DEF Lock, Return, StillOpen, Unlocked
<1>11. ASSUME NEW g \in Goroutines, SliceRead(g) PROVE Resources'
  BY <1>11 DEF SliceRead, Return, AfterRead, MoreParts, AudioVariables
<1>12. ASSUME NEW g \in Goroutines, SliceFails(g) PROVE Resources'
  BY <1>12 DEF SliceFails, Return
<1>13. ASSUME NEW g \in Goroutines, CallbackReturns(g) PROVE Resources'
  BY <1>13 DEF CallbackReturns, Return
<1>14. ASSUME NEW g \in Goroutines, LockClose(g) PROVE Resources'
  BY <1>14 DEF LockClose, CloseReturns, Return, Unlocked
<1>15. ASSUME NEW g \in Goroutines, CloseHandle(g) PROVE Resources'
  BY <1>15 DEF CloseHandle, Shut
<1>16. ASSUME NEW g \in Goroutines, CloseFile(g) PROVE Resources'
  BY <1>16 DEF CloseFile, CloseOSFile, CloseReturns, Return, Shut
<1>17. CASE UNCHANGED vars
  BY <1>17 DEF vars
<1>18. QED
  BY <1>1, <1>2, <1>3, <1>4, <1>5, <1>6, <1>7, <1>8, <1>9,
     <1>10, <1>11, <1>12, <1>13, <1>14, <1>15, <1>16, <1>17 DEF Next, Step

LEMMA LoopsStep == TypeOK /\ Loops /\ [Next]_vars => Loops'
<1> SUFFICES ASSUME TypeOK, Loops, [Next]_vars PROVE Loops'
  OBVIOUS
<1>. USE BoundsGiven DEF TypeOK, Loops, Goto, resources, local, NoLoop
<1>1. ASSUME NEW g \in Goroutines, ReadMeasurement(g) PROVE Loops'
  BY <1>1 DEF ReadMeasurement, Call
<1>2. ASSUME NEW g \in Goroutines, RangeMeasurements(g) PROVE Loops'
  BY <1>2 DEF RangeMeasurements, Call, RangeEntry
<1>3. ASSUME NEW g \in Goroutines, CallClose(g) PROVE Loops'
  BY <1>3 DEF CallClose, Call
<1>4. ASSUME NEW g \in Goroutines, CallbackCloses(g) PROVE Loops'
  BY <1>4 DEF CallbackCloses
<1>5. ASSUME NEW g \in Goroutines, Edit(g) PROVE Loops'
  BY <1>5 DEF Edit
<1>6. ASSUME NEW g \in Goroutines, Precheck(g) PROVE Loops'
  BY <1>6 DEF Precheck, Return, LookupError, MoreParts, AudioVariables
<1>7. ASSUME NEW g \in Goroutines, Loop(g) PROVE Loops'
  BY <1>7 DEF Loop, Return
<1>8. ASSUME NEW g \in Goroutines, Bounds(g) PROVE Loops'
  BY <1>8 DEF Bounds, Return
<1>9. ASSUME NEW g \in Goroutines, Lookup(g) PROVE Loops'
  BY <1>9, LookupErrors DEF Lookup, Return
<1>10. ASSUME NEW g \in Goroutines, Lock(g) PROVE Loops'
  BY <1>10 DEF Lock, Return, StillOpen, Unlocked
<1>11. ASSUME NEW g \in Goroutines, SliceRead(g) PROVE Loops'
  BY <1>11 DEF SliceRead, Return, AfterRead, MoreParts, AudioVariables
<1>12. ASSUME NEW g \in Goroutines, SliceFails(g) PROVE Loops'
  BY <1>12 DEF SliceFails, Return
<1>13. ASSUME NEW g \in Goroutines, CallbackReturns(g) PROVE Loops'
  BY <1>13 DEF CallbackReturns, Return
<1>14. ASSUME NEW g \in Goroutines, LockClose(g) PROVE Loops'
  BY <1>14 DEF LockClose, CloseReturns, Return, Unlocked
<1>15. ASSUME NEW g \in Goroutines, CloseHandle(g) PROVE Loops'
  BY <1>15 DEF CloseHandle, Shut
<1>16. ASSUME NEW g \in Goroutines, CloseFile(g) PROVE Loops'
  BY <1>16 DEF CloseFile, CloseOSFile, CloseReturns, Return, Shut
<1>17. CASE UNCHANGED vars
  BY <1>17 DEF vars
<1>18. QED
  BY <1>1, <1>2, <1>3, <1>4, <1>5, <1>6, <1>7, <1>8, <1>9,
     <1>10, <1>11, <1>12, <1>13, <1>14, <1>15, <1>16, <1>17 DEF Next, Step

LEMMA LateStep == TypeOK /\ Resources /\ Late /\ [Next]_vars => Late'
<1> SUFFICES ASSUME TypeOK, Resources, Late, [Next]_vars PROVE Late'
  OBVIOUS
<1>. USE DEF TypeOK, Resources, Late, Goto, resources, local, NoLoop
<1>1. ASSUME NEW g \in Goroutines, ReadMeasurement(g) PROVE Late'
  BY <1>1 DEF ReadMeasurement, Call
<1>2. ASSUME NEW g \in Goroutines, RangeMeasurements(g) PROVE Late'
  BY <1>2 DEF RangeMeasurements, Call, RangeEntry
<1>3. ASSUME NEW g \in Goroutines, CallClose(g) PROVE Late'
  BY <1>3 DEF CallClose, Call
<1>4. ASSUME NEW g \in Goroutines, CallbackCloses(g) PROVE Late'
  BY <1>4 DEF CallbackCloses
<1>5. ASSUME NEW g \in Goroutines, Edit(g) PROVE Late'
  BY <1>5 DEF Edit
<1>6. ASSUME NEW g \in Goroutines, Precheck(g) PROVE Late'
  BY <1>6 DEF Precheck, Return, LookupError, MoreParts, AudioVariables
<1>7. ASSUME NEW g \in Goroutines, Loop(g) PROVE Late'
  BY <1>7 DEF Loop, Return
<1>8. ASSUME NEW g \in Goroutines, Bounds(g) PROVE Late'
  BY <1>8 DEF Bounds, Return
<1>9. ASSUME NEW g \in Goroutines, Lookup(g) PROVE Late'
  BY <1>9 DEF Lookup, Return, LookupError
<1>10. ASSUME NEW g \in Goroutines, Lock(g) PROVE Late'
  BY <1>10 DEF Lock, Return, StillOpen, Unlocked
<1>11. ASSUME NEW g \in Goroutines, SliceRead(g) PROVE Late'
  BY <1>11 DEF SliceRead, Return, AfterRead, MoreParts, AudioVariables
<1>12. ASSUME NEW g \in Goroutines, SliceFails(g) PROVE Late'
  BY <1>12 DEF SliceFails, Return
<1>13. ASSUME NEW g \in Goroutines, CallbackReturns(g) PROVE Late'
  BY <1>13 DEF CallbackReturns, Return
<1>14. ASSUME NEW g \in Goroutines, LockClose(g) PROVE Late'
  BY <1>14 DEF LockClose, CloseReturns, Return, Unlocked
<1>15. ASSUME NEW g \in Goroutines, CloseHandle(g) PROVE Late'
  BY <1>15 DEF CloseHandle, Shut
<1>16. ASSUME NEW g \in Goroutines, CloseFile(g) PROVE Late'
  BY <1>16 DEF CloseFile, CloseOSFile, CloseReturns, Return, Shut
<1>17. CASE UNCHANGED vars
  BY <1>17 DEF vars
<1>18. QED
  BY <1>1, <1>2, <1>3, <1>4, <1>5, <1>6, <1>7, <1>8, <1>9,
     <1>10, <1>11, <1>12, <1>13, <1>14, <1>15, <1>16, <1>17 DEF Next, Step

THEOREM Invariant == Spec => []IInv
<1>1. IInv /\ [Next]_vars => IInv'
  BY TypeStep, MutexStep, ResourcesStep, LoopsStep, LateStep DEF IInv
<1>2. QED
  BY <1>1, InvInit, PTL DEF Spec

-----------------------------------------------------------------------------
\* Reads are serialised and exclude Close; a read finds handle and file open
\* until it is done (sofa_stream.go:39).
THEOREM Exclusive == Spec => []ExclusiveUse
<1>1. IInv => ExclusiveUse
  BY OneUser DEF IInv, Resources, ExclusiveUse
<1>2. QED
  BY <1>1, Invariant, PTL

\* A Range function that returns nil has delivered every measurement
\* (sofa_stream.go:299-302).
THEOREM CompleteRanges == Spec => []RangeIsComplete
<1>1. IInv => RangeIsComplete
  BY DEF IInv, Loops, RangeIsComplete
<1>2. QED
  BY <1>1, Invariant, PTL

LEMMA LateReturns ==
  ASSUME IInv, [Next]_vars, NEW g \in Goroutines,
         late[g], pc[g] \notin {"idle", "closing"}, pc'[g] = "idle"
  PROVE  \/ result'[g] = "closed"
         \/ result'[g] = "type" /\ reader[g] # fields.type
         \/ result'[g] = "range" /\ upto[g] = NoLoop /\ at[g] >= fields.M
<1>. USE DEF IInv, TypeOK, Late, Goto, Return, resources, local
<1>1. pc[g] \in {"precheck", "bounds", "lookup"} /\ handle # "open" /\ upto[g] = NoLoop
  OBVIOUS
<1>2. Precheck(g) \/ Bounds(g) \/ Lookup(g)
  BY <1>1
     DEF Next, Step, ReadMeasurement, RangeMeasurements, CallClose, Call,
         CallbackCloses, Edit, Precheck, Loop, Bounds, Lookup, Lock, SliceRead,
         SliceFails, CallbackReturns, LockClose, CloseHandle, CloseFile,
         CloseReturns, vars
<1>3. QED
  BY <1>1, <1>2 DEF Precheck, Bounds, Lookup, LookupError

\* After Close a call delivers nothing, and says fs.ErrClosed unless the
\* call itself does not fit the File's DataType and M (sofa_stream.go:270).
THEOREM ClosedFirst == Spec => ClosedComesFirst
<1>1. IInv /\ [Next]_vars
        => [\A g \in Goroutines :
              (late[g] /\ pc[g] \notin {"idle", "closing"} /\ pc'[g] = "idle") =>
                \/ result'[g] = "closed"
                \/ result'[g] = "type" /\ reader[g] # fields.type
                \/ result'[g] = "range" /\ upto[g] = NoLoop /\ at[g] >= fields.M]_vars
  BY LateReturns
<1>2. QED
  BY <1>1, Invariant, PTL DEF Spec, ClosedComesFirst

-----------------------------------------------------------------------------
(* The life of a File.                                                     *)

LEMMA FileInvInit == InitFile => FileInv
<1> SUFFICES ASSUME InitFile PROVE FileInv
  OBVIOUS
<1>. USE DEF InitFile, Opening!Init
<1>1. OpeningTypeOK
  BY DEF OpeningTypeOK, Steps
<1>2. HeldWhileOpening /\ HeldAfterwards
  BY DEF HeldWhileOpening, HeldAfterwards, Opened
<1>3. QED
  BY <1>1, <1>2 DEF FileInv, InUse

-----------------------------------------------------------------------------
(* Opening.                                                                *)

LEMMA OpenStep ==
  ASSUME OpeningTypeOK, HeldWhileOpening, Opening!Next
  PROVE  OpeningTypeOK' /\ HeldWhileOpening' /\ HeldAfterwards' /\ step # "returned"
<1>. USE DEF OpeningTypeOK, Steps, HeldWhileOpening, HeldAfterwards, Opened, InUse,
             Opening!Return, Opening!Shut, Opening!AfterReader
<1>1. ASSUME Opening!OpenOSFile
      PROVE  OpeningTypeOK' /\ HeldWhileOpening' /\ HeldAfterwards' /\ step # "returned"
  BY <1>1 DEF Opening!OpenOSFile
<1>2. ASSUME Opening!StatOSFile
      PROVE  OpeningTypeOK' /\ HeldWhileOpening' /\ HeldAfterwards' /\ step # "returned"
  BY <1>2 DEF Opening!StatOSFile
<1>3. ASSUME Opening!OpenHDF5
      PROVE  OpeningTypeOK' /\ HeldWhileOpening' /\ HeldAfterwards' /\ step # "returned"
  <2>. USE <1>3 DEF Opening!OpenHDF5
  <2>1. step = "hdf5" /\ got = "nothing" /\ UNCHANGED <<lazy, own, unshut, got, osfile>>
    OBVIOUS
  <2>2. CASE step' = "read" /\ handle' = "open" /\ UNCHANGED err
    BY <2>1, <2>2
  <2>3. CASE step' = Opening!AfterReader /\ err' = TRUE /\ UNCHANGED handle
    <3>1. err' /\ ~unshut' /\ handle' = "none" /\ osfile' = (IF own THEN "open" ELSE "none")
      BY <2>1, <2>3
    <3>2. step' = (IF own THEN "osfile" ELSE "returning")
      BY <2>3
    <3>3. QED
      BY <2>1, <3>1, <3>2
  <2>4. QED
    BY <2>2, <2>3
<1>4. ASSUME Opening!Read
      PROVE  OpeningTypeOK' /\ HeldWhileOpening' /\ HeldAfterwards' /\ step # "returned"
  BY <1>4 DEF Opening!Read
<1>5. ASSUME Opening!CloseHandle
      PROVE  OpeningTypeOK' /\ HeldWhileOpening' /\ HeldAfterwards' /\ step # "returned"
  BY <1>5 DEF Opening!CloseHandle, Opening!KeepsHandle
<1>6. ASSUME Opening!CloseOSFile
      PROVE  OpeningTypeOK' /\ HeldWhileOpening' /\ HeldAfterwards' /\ step # "returned"
  BY <1>6 DEF Opening!CloseOSFile, Opening!AfterShut
<1>7. ASSUME Opening!GiveFile
      PROVE  OpeningTypeOK' /\ HeldWhileOpening' /\ HeldAfterwards' /\ step # "returned"
  BY <1>7 DEF Opening!GiveFile
<1>8. QED
  BY <1>1, <1>2, <1>3, <1>4, <1>5, <1>6, <1>7 DEF Opening!Next

\* A lazy File comes with its handle and file open: LazyAudio's Init.
LEMMA HandedOver ==
  ASSUME OpeningTypeOK, HeldWhileOpening, Opening!Next, InitCalls', InUse'
  PROVE  Init' /\ (own' <=> osfile' # "none")
<1>1. Opening!GiveFile
  BY DEF OpeningTypeOK, InUse, Opening!Next, Opening!OpenOSFile, Opening!StatOSFile,
         Opening!OpenHDF5, Opening!Read, Opening!CloseHandle, Opening!CloseOSFile,
         Opening!Return
<1>2. handle' = "open" /\ osfile' = Opened /\ UNCHANGED own
  BY <1>1 DEF Opening!GiveFile, Opening!Return, OpeningTypeOK, HeldWhileOpening, InUse, Opened
<1>3. QED
  BY <1>2 DEF Init, Opened, OpeningTypeOK

LEMMA InitCallsStay == InitCalls /\ UNCHANGED using => InitCalls'
  BY DEF InitCalls, InitFields, using, local

-----------------------------------------------------------------------------
(* Reading and closing.                                                    *)

\* The calls of a lazy File do not make a file of none, nor none of one.
LEMMA SameKindOfFile ==
  ASSUME Resources, Next
  PROVE  osfile' = "none" <=> osfile = "none"
<1>1. CASE \E g \in Goroutines : CloseFile(g)
  BY <1>1 DEF CloseFile, CloseOSFile, Resources, Shut
<1>2. CASE \E g \in Goroutines : CloseHandle(g)
  BY <1>2 DEF CloseHandle
<1>3. CASE ~(\E g \in Goroutines : CloseFile(g) \/ CloseHandle(g))
  BY <1>3 DEF Next, Step, ReadMeasurement, RangeMeasurements, CallClose, Call,
              CallbackCloses, Edit, Precheck, Loop, Bounds, Lookup, Lock, SliceRead,
              SliceFails, CallbackReturns, LockClose, resources
<1>4. QED
  BY <1>1, <1>2, <1>3

LEMMA IInvStep == IInv /\ [Next]_vars => IInv'
  BY TypeStep, MutexStep, ResourcesStep, LoopsStep, LateStep DEF IInv

LEMMA UseStep == FileInv /\ Use => FileInv'
<1> SUFFICES ASSUME FileInv, Use PROVE FileInv'
  OBVIOUS
<1>1. UNCHANGED <<lazy, own, step, err, unshut, got>> /\ InUse /\ InUse'
  BY DEF Use, opening, InUse
<1>2. IInv' /\ (own' <=> osfile' # "none")
  BY <1>1, IInvStep, SameKindOfFile DEF FileInv, Use, IInv
<1>3. OpeningTypeOK'
  BY <1>1 DEF FileInv, OpeningTypeOK
<1>4. step = "returned" /\ ~err /\ ~unshut
  BY <1>1 DEF FileInv, OpeningTypeOK, HeldWhileOpening, InUse
<1>5. HeldWhileOpening' /\ HeldAfterwards'
  BY <1>1, <1>4 DEF HeldWhileOpening, HeldAfterwards
<1>6. QED
  BY <1>1, <1>2, <1>3, <1>5 DEF FileInv

LEMMA FileInvStep == FileInv /\ [NextFile]_fileVars => FileInv'
<1> SUFFICES ASSUME FileInv, [NextFile]_fileVars PROVE FileInv'
  OBVIOUS
<1>1. CASE Open
  <2>1. OpeningTypeOK' /\ HeldWhileOpening' /\ HeldAfterwards' /\ step # "returned"
    BY <1>1, OpenStep DEF Open, FileInv
  <2>2. InitCalls'
    BY <1>1, <2>1, InitCallsStay DEF Open, FileInv, OpeningTypeOK, InUse
  <2>3. InUse' => IInv' /\ (own' <=> osfile' # "none")
    BY <1>1, <2>2, HandedOver, InvInit, PTL DEF Open, FileInv
  <2>4. QED
    BY <2>1, <2>2, <2>3 DEF FileInv
<1>2. CASE Use
  BY <1>2, UseStep
<1>3. CASE UNCHANGED fileVars
  <2>1. UNCHANGED <<lazy, own, step, err, unshut, got, handle, osfile>>
        /\ UNCHANGED using /\ UNCHANGED vars
    BY <1>3 DEF fileVars, opening, using, resources, vars
  <2>2. (OpeningTypeOK /\ HeldWhileOpening /\ HeldAfterwards)'
    BY <2>1 DEF FileInv, OpeningTypeOK, HeldWhileOpening, HeldAfterwards, Opened, InUse
  <2>3. InUse' <=> InUse
    BY <2>1 DEF InUse
  <2>4. QED
    BY <2>1, <2>2, <2>3, IInvStep, InitCallsStay DEF FileInv
<1>4. QED
  BY <1>1, <1>2, <1>3 DEF NextFile

\* What each step of opening holds open, and what the calls may rely on.
THEOREM FileInvariant == SpecFile => []FileInv
  BY FileInvInit, FileInvStep, PTL DEF SpecFile

-----------------------------------------------------------------------------
\* Whatever fails, no handle and no file stays open that nobody would close.
THEOREM NoLeaks == SpecFile => []NothingLeaks
<1>1. FileInv => NothingLeaks
  BY DEF FileInv, NothingLeaks, InUse, HeldAfterwards, OpeningTypeOK, IInv, Resources, Closing
<1>2. QED
  BY <1>1, FileInvariant, PTL

\* Handle and file are closed once, and the caller's reader never.
THEOREM OneCloser == SpecFile => []ClosedByOne
<1>1. FileInv => ClosedByOne
  <2> SUFFICES ASSUME FileInv PROVE ClosedByOne
    OBVIOUS
  <2>1. CASE InUse
    BY <2>1 DEF FileInv, IInv, TypeOK, Resources, ClosedByOne
  <2>2. CASE ~InUse /\ got # "nothing"
    BY <2>2 DEF FileInv, HeldAfterwards, ClosedByOne
  <2>3. CASE got = "nothing"
    BY <2>3 DEF FileInv, OpeningTypeOK, Steps, HeldWhileOpening, Opened, ClosedByOne
  <2>4. QED
    BY <2>1, <2>2, <2>3
<1>2. QED
  BY <1>1, FileInvariant, PTL

\* An error of closing is reported, and takes the File away.
THEOREM CloseErrors == SpecFile => []CloseErrorReported
<1>1. FileInv => CloseErrorReported
  BY DEF FileInv, OpeningTypeOK, HeldWhileOpening, CloseErrorReported
<1>2. QED
  BY <1>1, FileInvariant, PTL

-----------------------------------------------------------------------------
(* The properties of LazyAudio, from the moment the File is opened.        *)

LEMMA IdleCalls == InitCalls => ExclusiveUse /\ RangeIsComplete
  BY DEF InitCalls, ExclusiveUse, RangeIsComplete

\* The variables keep their types.
THEOREM FileTypes == SpecFile => []TypeOK
<1>1. FileInv => TypeOK
  <2> SUFFICES ASSUME FileInv PROVE TypeOK
    OBVIOUS
  <2>1. CASE InUse
    BY <2>1 DEF FileInv, IInv
  <2>2. CASE ~InUse
    <3>1. handle \in {"none", "open", "closed"} /\ osfile \in {"none", "open", "closed"}
      BY <2>2 DEF FileInv, OpeningTypeOK, Steps, HeldWhileOpening, HeldAfterwards, Opened
    <3>2. InitCalls
      BY <2>2 DEF FileInv
    <3>3. QED
      BY <3>1, <3>2, FileGiven, BoundsGiven
         DEF InitCalls, InitFields, TypeOK, DataTypes, Labels, NoLoop, Errors
  <2>3. QED
    BY <2>1, <2>2
<1>2. QED
  BY <1>1, FileInvariant, PTL

\* Reads are serialised and exclude Close (sofa_stream.go:39).
THEOREM FileExclusive == SpecFile => []ExclusiveUse
<1>1. FileInv => ExclusiveUse
  BY IdleCalls, OneUser DEF FileInv, IInv, Resources, ExclusiveUse
<1>2. QED
  BY <1>1, FileInvariant, PTL

\* A Range function that returns nil has delivered every measurement.
THEOREM FileRanges == SpecFile => []RangeIsComplete
<1>1. FileInv => RangeIsComplete
  BY IdleCalls DEF FileInv, IInv, Loops, RangeIsComplete
<1>2. QED
  BY <1>1, FileInvariant, PTL

\* After Close a call delivers nothing and says so (sofa_stream.go:270).
THEOREM FileClosedFirst == SpecFile => ClosedComesFirst
<1>1. FileInv /\ [NextFile]_fileVars
        => [\A g \in Goroutines :
              (late[g] /\ pc[g] \notin {"idle", "closing"} /\ pc'[g] = "idle") =>
                \/ result'[g] = "closed"
                \/ result'[g] = "type" /\ reader[g] # fields.type
                \/ result'[g] = "range" /\ upto[g] = NoLoop /\ at[g] >= fields.M]_vars
  <2> SUFFICES ASSUME FileInv, [NextFile]_fileVars,
                      NEW g \in Goroutines,
                      late[g], pc[g] \notin {"idle", "closing"}, pc'[g] = "idle"
               PROVE  \/ result'[g] = "closed"
                      \/ result'[g] = "type" /\ reader[g] # fields.type
                      \/ result'[g] = "range" /\ upto[g] = NoLoop /\ at[g] >= fields.M
    OBVIOUS
  <2>1. CASE InUse /\ [Next]_vars
    BY <2>1, LateReturns DEF FileInv
  <2>2. CASE UNCHANGED using
    BY <2>2 DEF using, local
  <2>3. (InUse /\ [Next]_vars) \/ UNCHANGED using
    BY DEF NextFile, Open, Use, fileVars
  <2>4. QED
    BY <2>1, <2>2, <2>3
<1>2. QED
  BY <1>1, FileInvariant, PTL DEF SpecFile, ClosedComesFirst

-----------------------------------------------------------------------------
(* A lazy File implements SharedFile.                                      *)

LEMMA NestedStep == TypeOK /\ Nested /\ [Next]_vars => Nested'
<1> SUFFICES ASSUME TypeOK, Nested, [Next]_vars PROVE Nested'
  OBVIOUS
<1>. USE DEF TypeOK, Nested, InCallback, Goto, local
<1>1. ASSUME NEW g \in Goroutines, ReadMeasurement(g) PROVE Nested'
  BY <1>1 DEF ReadMeasurement, Call
<1>2. ASSUME NEW g \in Goroutines, RangeMeasurements(g) PROVE Nested'
  BY <1>2 DEF RangeMeasurements, Call, RangeEntry
<1>3. ASSUME NEW g \in Goroutines, CallClose(g) PROVE Nested'
  BY <1>3 DEF CallClose, Call
<1>4. ASSUME NEW g \in Goroutines, CallbackCloses(g) PROVE Nested'
  BY <1>4 DEF CallbackCloses
<1>5. ASSUME NEW g \in Goroutines, Edit(g) PROVE Nested'
  BY <1>5 DEF Edit
<1>6. ASSUME NEW g \in Goroutines, Precheck(g) PROVE Nested'
  BY <1>6 DEF Precheck, Return
<1>7. ASSUME NEW g \in Goroutines, Loop(g) PROVE Nested'
  BY <1>7 DEF Loop, Return
<1>8. ASSUME NEW g \in Goroutines, Bounds(g) PROVE Nested'
  BY <1>8 DEF Bounds, Return
<1>9. ASSUME NEW g \in Goroutines, Lookup(g) PROVE Nested'
  BY <1>9 DEF Lookup, Return
<1>10. ASSUME NEW g \in Goroutines, Lock(g) PROVE Nested'
  BY <1>10 DEF Lock, Return
<1>11. ASSUME NEW g \in Goroutines, SliceRead(g) PROVE Nested'
  BY <1>11 DEF SliceRead, Return
<1>12. ASSUME NEW g \in Goroutines, SliceFails(g) PROVE Nested'
  BY <1>12 DEF SliceFails, Return
<1>13. ASSUME NEW g \in Goroutines, CallbackReturns(g) PROVE Nested'
  BY <1>13 DEF CallbackReturns, Return
<1>14. ASSUME NEW g \in Goroutines, LockClose(g) PROVE Nested'
  BY <1>14 DEF LockClose, CloseReturns, Return
<1>15. ASSUME NEW g \in Goroutines, CloseHandle(g) PROVE Nested'
  BY <1>15 DEF CloseHandle
<1>16. ASSUME NEW g \in Goroutines, CloseFile(g) PROVE Nested'
  BY <1>16 DEF CloseFile, CloseReturns, Return
<1>17. CASE UNCHANGED vars
  BY <1>17 DEF vars
<1>18. QED
  BY <1>1, <1>2, <1>3, <1>4, <1>5, <1>6, <1>7, <1>8,
     <1>9, <1>10, <1>11, <1>12, <1>13, <1>14, <1>15, <1>16, <1>17 DEF Next, Step

LEMMA SharedInit == InitFile => Nested /\ Shared!Init
<1> SUFFICES ASSUME InitFile PROVE Nested /\ Shared!Init
  OBVIOUS
<1>1. /\ Life = "opening"
      /\ \A g \in Goroutines : Doing(g) = "nothing" /\ Served(g) = 0 /\ result[g] = "none"
      /\ result = [g \in Goroutines |-> "none"]
  BY DEF InitFile, InitCalls, Opening!Init, Life, Doing, Served
<1>2. Nested
  BY DEF InitFile, InitCalls, Nested, InCallback
<1>3. QED
  BY <1>1, <1>2 DEF Shared!Init

-----------------------------------------------------------------------------
\* All that other goroutines do stays as it is.
OnlyMoves(g) ==
  \A h \in Goroutines \ {g} : /\ pc'[h] = pc[h] /\ at'[h] = at[h]
                              /\ upto'[h] = upto[h] /\ inside'[h] = inside[h]

LEMMA OthersStay ==
  ASSUME NEW g \in Goroutines, OnlyMoves(g), NEW h \in Goroutines \ {g}
  PROVE  Doing(h)' = Doing(h) /\ Served(h)' = Served(h)
<1>1. Doing(h)' = Doing(h)
  BY DEF OnlyMoves, Doing, InCallback, Ranging
<1>2. QED
  BY <1>1 DEF OnlyMoves, Served

LEMMA SharedMoves ==
  ASSUME NEW g \in Goroutines, OnlyMoves(g)
  PROVE  /\ Shared!Do(g, Doing(g)')
         /\ [h \in Goroutines |-> Served(h)]'
              = [[h \in Goroutines |-> Served(h)] EXCEPT ![g] = Served(g)']
  BY OthersStay DEF Shared!Do

LEMMA DoingStays ==
  ASSUME NEW g \in Goroutines, OnlyMoves(g), Doing(g)' = Doing(g)
  PROVE  [h \in Goroutines |-> Doing(h)]' = [h \in Goroutines |-> Doing(h)]
  BY OthersStay

LEMMA ServedStays ==
  ASSUME NEW g \in Goroutines, OnlyMoves(g), Served(g)' = Served(g)
  PROVE  [h \in Goroutines |-> Served(h)]' = [h \in Goroutines |-> Served(h)]
  BY OthersStay

LEMMA SharedReturns ==
  ASSUME TypeOK, NEW g \in Goroutines, OnlyMoves(g), NEW r, Return(g, r)
  PROVE  Shared!Return(g, r)
<1>1. pc'[g] = "idle" /\ result' = [result EXCEPT ![g] = r]
  BY DEF Return, Goto, TypeOK
<1>2. Doing(g)' = "nothing" /\ Served(g)' = 0
  BY <1>1 DEF Doing, Served, InCallback, Ranging
<1>3. QED
  BY <1>1, <1>2, SharedMoves DEF Shared!Return

\* Opening makes the File one that is shared, or leaves it.
LEMMA SharedOpening ==
  ASSUME FileInv, Open
  PROVE  [Shared!Next]_(Shared!promise)
<1>1. OpeningTypeOK /\ HeldWhileOpening /\ Opening!Next /\ UNCHANGED using
  BY DEF FileInv, Open
<1>2. got = "nothing" /\ ~InUse
  BY <1>1, OpenStep DEF OpeningTypeOK, InUse
<1>3. UNCHANGED <<pc, at, upto, inside, result>> /\ InitCalls'
  BY <1>1, <1>2, InitCallsStay DEF FileInv, using, local
<1>4. \A g \in Goroutines : Doing(g)' = Doing(g) /\ Served(g)' = Served(g)
  BY <1>3 DEF Doing, Served, InCallback, Ranging
<1>5. InUse' => handle' = "open"
  BY <1>1, <1>3, HandedOver DEF Init
<1>6. Life = "opening" /\ Life' \in {"opening", "open", "none"}
  BY <1>2, <1>5 DEF Life
<1>7. QED
  BY <1>3, <1>4, <1>6 DEF Shared!Next, Shared!Give, Shared!promise

\* What a step of a call is to those who share the File.
LEMMA SharedUse ==
  ASSUME FileInv, Nested, Use
  PROVE  [Shared!Next]_(Shared!promise)
<1>1. IInv /\ TypeOK /\ Next
  BY DEF FileInv, IInv, Use
<1>2. /\ Life = IF handle = "open" THEN "open" ELSE "closed"
      /\ Life' = IF handle' = "open" THEN "open" ELSE "closed"
  BY DEF Use, opening, InUse, Life
<1>. DEFINE Goal == [Shared!Next]_(Shared!promise)
<1>3. ASSUME NEW g \in Goroutines, OnlyMoves(g), UNCHANGED result, handle' = handle,
             Doing(g)' = Doing(g), Served(g)' = Served(g)
      PROVE  Goal
  BY <1>2, <1>3, DoingStays, ServedStays DEF Shared!promise
<1>4. ASSUME NEW g \in Goroutines, ReadMeasurement(g) \/ RangeMeasurements(g) \/ CallClose(g)
      PROVE  Goal
  <2>1. /\ OnlyMoves(g) /\ handle' = handle /\ pc[g] = "idle"
        /\ pc'[g] \in {"bounds", "precheck", "closing"} /\ inside'[g] = inside[g]
        /\ upto'[g] = NoLoop /\ result' = [result EXCEPT ![g] = "none"]
        /\ pc'[g] = "precheck" => at'[g] = 0
    BY <1>1, <1>4 DEF ReadMeasurement, RangeMeasurements, CallClose, Call, RangeEntry, Goto,
                      OnlyMoves, TypeOK, resources
  <2>2. Doing(g) = "nothing" /\ Served(g) = 0
    BY <2>1 DEF Doing, Served, InCallback, Ranging
  <2>3. ~inside[g]
    BY <2>1 DEF Nested
  <2>4. Doing(g)' \in {"read", "range", "close"} /\ Served(g)' = 0
    BY <2>1, <2>3 DEF Doing, Served, InCallback, Ranging, NoLoop
  <2>5. Shared!Begin(g)
    BY <1>2, <2>1, <2>2, <2>4, SharedMoves, ServedStays DEF Shared!Begin
  <2>6. QED
    BY <2>5 DEF Shared!Next
<1>5. ASSUME NEW g \in Goroutines, Precheck(g) \/ Bounds(g) \/ Lookup(g) \/ Lock(g)
      PROVE  Goal
  <2>1. /\ OnlyMoves(g) /\ handle' = handle /\ inside'[g] = inside[g]
        /\ at'[g] = at[g] /\ upto'[g] = upto[g]
        /\ pc[g] \in {"precheck", "bounds", "lookup", "lock"}
    BY <1>1, <1>5 DEF Precheck, Bounds, Lookup, Lock, Return, Goto, OnlyMoves, TypeOK,
                      resources, local
  <2>2. ~inside[g] /\ Doing(g) = IF Ranging(g) THEN "range" ELSE "read"
    BY <2>1 DEF Nested, Doing, InCallback, Ranging
  <2>3. \/ \E r \in {"type", "range", "closed"} :
             Return(g, r) /\ (r = "closed" => handle # "open")
        \/ /\ UNCHANGED result
           /\ \/ UNCHANGED pc
              \/ pc[g] = "precheck" /\ Goto(g, "loop")
              \/ pc[g] = "bounds" /\ Goto(g, "lookup")
              \/ pc[g] = "lookup" /\ Goto(g, "lock")
              \/ pc[g] = "lock" /\ Goto(g, "slice")
    BY <1>5 DEF Precheck, Bounds, Lookup, Lock, LookupError, StillOpen
  <2>4. CASE \E r \in {"type", "range", "closed"} :
               Return(g, r) /\ (r = "closed" => handle # "open")
    <3>1. PICK r \in {"type", "range", "closed"} :
                 Return(g, r) /\ (r = "closed" => handle # "open")
      BY <2>4
    <3>2. Shared!Return(g, r)
      BY <1>1, <2>1, <3>1, SharedReturns
    <3>3. Shared!Fail(g)
      BY <1>2, <2>1, <2>2, <3>1, <3>2 DEF Shared!Fail
    <3>4. QED
      BY <3>3 DEF Shared!Next
  <2>5. CASE /\ UNCHANGED result
             /\ \/ UNCHANGED pc
                \/ pc[g] = "precheck" /\ Goto(g, "loop")
                \/ pc[g] = "bounds" /\ Goto(g, "lookup")
                \/ pc[g] = "lookup" /\ Goto(g, "lock")
                \/ pc[g] = "lock" /\ Goto(g, "slice")
    <3>1. /\ pc'[g] \in {"precheck", "loop", "bounds", "lookup", "lock", "slice"}
          /\ pc'[g] \in {"precheck", "loop"} <=> pc[g] = "precheck"
      BY <1>1, <2>1, <2>5 DEF Goto, TypeOK
    <3>2. Doing(g)' = Doing(g) /\ Served(g)' = Served(g)
      BY <2>1, <2>2, <3>1 DEF Doing, Served, InCallback, Ranging
    <3>3. QED
      BY <1>3, <2>1, <2>5, <3>2
  <2>6. QED
    BY <2>3, <2>4, <2>5
<1>6. ASSUME NEW g \in Goroutines, Loop(g)
      PROVE  Goal
  <2>1. pc[g] = "loop" /\ fields.M = Stored /\ upto[g] = NoLoop /\ ~inside[g]
    BY <1>1, <1>6 DEF Loop, IInv, Loops, Nested
  <2>2. /\ OnlyMoves(g) /\ handle' = handle /\ UNCHANGED result
        /\ pc'[g] = "bounds" /\ upto'[g] = Stored /\ at'[g] = at[g] /\ inside'[g] = inside[g]
    BY <1>1, <1>6, <2>1, BoundsGiven DEF Loop, Goto, OnlyMoves, TypeOK, resources
  <2>3. Doing(g)' = Doing(g) /\ Served(g)' = Served(g)
    BY <2>1, <2>2, BoundsGiven DEF Doing, Served, InCallback, Ranging, NoLoop
  <2>4. QED
    BY <1>3, <2>2, <2>3
<1>7. ASSUME NEW g \in Goroutines, SliceRead(g) \/ SliceFails(g)
      PROVE  Goal
  <2>1. /\ OnlyMoves(g) /\ handle' = handle /\ inside'[g] = inside[g]
        /\ at'[g] = at[g] /\ upto'[g] = upto[g] /\ pc[g] = "slice"
    BY <1>1, <1>7 DEF SliceRead, SliceFails, Return, Goto, OnlyMoves, TypeOK, resources, local
  <2>2. handle = "open" /\ ~inside[g]
    BY <1>1, <2>1 DEF IInv, Resources, Nested
  <2>3. Doing(g) = IF upto[g] # NoLoop THEN "range" ELSE "read"
    BY <2>1, <2>2 DEF Doing, InCallback, Ranging
  <2>4. \/ Return(g, "io")
        \/ upto[g] = NoLoop /\ Return(g, "ok")
        \/ upto[g] # NoLoop /\ Goto(g, "callback") /\ UNCHANGED result
        \/ Goto(g, "bounds") /\ UNCHANGED result
    BY <1>7 DEF SliceRead, SliceFails
  <2>5. CASE Return(g, "io")
    <3>1. Shared!Return(g, "io")
      BY <1>1, <2>1, <2>5, SharedReturns
    <3>2. Shared!Fail(g)
      BY <1>2, <2>1, <2>2, <2>3, <3>1 DEF Shared!Fail
    <3>3. QED
      BY <3>2 DEF Shared!Next
  <2>6. CASE upto[g] = NoLoop /\ Return(g, "ok")
    <3>1. Shared!Return(g, "ok")
      BY <1>1, <2>1, <2>6, SharedReturns
    <3>2. Shared!Deliver(g)
      BY <1>2, <2>1, <2>2, <2>3, <2>6, <3>1 DEF Shared!Deliver
    <3>3. QED
      BY <3>2 DEF Shared!Next
  <2>7. CASE upto[g] # NoLoop /\ Goto(g, "callback") /\ UNCHANGED result
    <3>1. pc'[g] = "callback"
      BY <1>1, <2>7 DEF Goto, TypeOK
    <3>2. Doing(g) = "range" /\ Served(g) = at[g] /\ Doing(g)' = "fn" /\ Served(g)' = at[g] + 1
      BY <2>1, <2>3, <2>7, <3>1 DEF Doing, Served, InCallback, Ranging
    <3>3. Shared!Deliver(g)
      BY <1>2, <2>1, <2>2, <2>7, <3>2, SharedMoves DEF Shared!Deliver
    <3>4. QED
      BY <3>3 DEF Shared!Next
  <2>8. CASE Goto(g, "bounds") /\ UNCHANGED result
    <3>1. pc'[g] = "bounds"
      BY <1>1, <2>8 DEF Goto, TypeOK
    <3>2. Doing(g)' = Doing(g) /\ Served(g)' = Served(g)
      BY <2>1, <2>2, <2>3, <3>1 DEF Doing, Served, InCallback, Ranging
    <3>3. QED
      BY <1>3, <2>1, <2>8, <3>2
  <2>9. QED
    BY <2>4, <2>5, <2>6, <2>7, <2>8
<1>8. ASSUME NEW g \in Goroutines, CallbackReturns(g)
      PROVE  Goal
  <2>1. /\ OnlyMoves(g) /\ handle' = handle /\ ~inside'[g] /\ upto'[g] = upto[g]
        /\ pc[g] = "callback" /\ at[g] \in Nat
    BY <1>1, <1>8 DEF CallbackReturns, Return, Goto, OnlyMoves, TypeOK, resources
  <2>2. upto[g] = Stored /\ upto[g] # NoLoop
    BY <1>1, <2>1 DEF IInv, Loops, Nested, InCallback
  <2>3. Doing(g) = "fn" /\ Served(g) = at[g] + 1
    BY <2>1 DEF Doing, Served, InCallback, Ranging
  <2>4. \/ Return(g, "callback")
        \/ at[g] + 1 = upto[g] /\ Return(g, "ok")
        \/ /\ at[g] + 1 # upto[g] /\ Goto(g, "bounds") /\ UNCHANGED result
           /\ at' = [at EXCEPT ![g] = @ + 1]
    BY <1>8 DEF CallbackReturns
  <2>5. ASSUME NEW r \in {"callback", "ok"}, Return(g, r), r = "ok" => at[g] + 1 = upto[g]
        PROVE  Goal
    <3>1. Shared!Return(g, r)
      BY <1>1, <2>1, <2>5, SharedReturns
    <3>2. Shared!FnReturns(g)
      BY <1>2, <2>1, <2>2, <2>3, <2>5, <3>1 DEF Shared!FnReturns
    <3>3. QED
      BY <3>2 DEF Shared!Next
  <2>6. CASE /\ at[g] + 1 # upto[g] /\ Goto(g, "bounds") /\ UNCHANGED result
             /\ at' = [at EXCEPT ![g] = @ + 1]
    <3>1. pc'[g] = "bounds" /\ at'[g] = at[g] + 1
      BY <1>1, <2>6 DEF Goto, TypeOK
    <3>2. Doing(g)' = "range" /\ Served(g)' = at[g] + 1
      BY <2>1, <2>2, <3>1 DEF Doing, Served, InCallback, Ranging
    <3>3. Shared!FnReturns(g)
      BY <1>2, <2>1, <2>2, <2>3, <2>6, <3>2, SharedMoves, ServedStays DEF Shared!FnReturns
    <3>4. QED
      BY <3>3 DEF Shared!Next
  <2>7. QED
    BY <2>4, <2>5, <2>6
<1>9. ASSUME NEW g \in Goroutines, CallbackCloses(g)
      PROVE  Goal
  <2>1. /\ OnlyMoves(g) /\ handle' = handle /\ UNCHANGED result
        /\ pc[g] = "callback" /\ pc'[g] = "closing" /\ inside'[g] /\ at'[g] = at[g]
    BY <1>1, <1>9 DEF CallbackCloses, Goto, OnlyMoves, TypeOK, resources
  <2>2. Doing(g)' = Doing(g) /\ Served(g)' = Served(g)
    BY <2>1 DEF Doing, Served, InCallback, Ranging
  <2>3. QED
    BY <1>3, <2>1, <2>2
<1>10. ASSUME NEW g \in Goroutines, LockClose(g) \/ CloseFile(g)
       PROVE  Goal
  <2>1. /\ OnlyMoves(g) /\ handle' = handle /\ inside'[g] = inside[g]
        /\ at'[g] = at[g] /\ upto'[g] = upto[g] /\ pc[g] \in {"closing", "closefile"}
    BY <1>1, <1>10 DEF LockClose, CloseFile, CloseReturns, Return, Goto, OnlyMoves, TypeOK,
                       resources, local
  <2>2. \/ pc[g] = "closing" /\ Goto(g, "closehandle") /\ UNCHANGED result
        \/ inside[g] /\ Goto(g, "callback") /\ UNCHANGED result
        \/ ~inside[g] /\ pc[g] = "closing" /\ handle # "open" /\ Return(g, "ok")
        \/ \E r \in {"ok", "io"} : ~inside[g] /\ pc[g] = "closefile" /\ Return(g, r)
    BY <1>10 DEF LockClose, CloseFile, CloseReturns
  <2>3. CASE \/ pc[g] = "closing" /\ Goto(g, "closehandle") /\ UNCHANGED result
             \/ inside[g] /\ Goto(g, "callback") /\ UNCHANGED result
    <3>1. \/ pc[g] = "closing" /\ pc'[g] = "closehandle"
          \/ inside[g] /\ pc'[g] = "callback"
      BY <1>1, <2>3 DEF Goto, TypeOK
    <3>2. Doing(g)' = Doing(g) /\ Served(g)' = Served(g)
      BY <2>1, <3>1 DEF Doing, Served, InCallback, Ranging
    <3>3. QED
      BY <1>3, <2>1, <2>3, <3>2
  <2>4. ASSUME NEW r \in {"ok", "io"}, ~inside[g], Return(g, r),
               pc[g] = "closefile" \/ (pc[g] = "closing" /\ handle # "open" /\ r = "ok")
        PROVE  Goal
    <3>1. Doing(g) = IF pc[g] = "closefile" THEN "closed it" ELSE "close"
      BY <2>1, <2>4 DEF Doing, InCallback, Ranging
    <3>2. Shared!Return(g, r)
      BY <1>1, <2>1, <2>4, SharedReturns
    <3>3. Shared!CloseReturns(g)
      BY <1>2, <2>1, <2>4, <3>1, <3>2 DEF Shared!CloseReturns
    <3>4. QED
      BY <3>3 DEF Shared!Next
  <2>5. QED
    BY <2>2, <2>3, <2>4
<1>11. ASSUME NEW g \in Goroutines, CloseHandle(g)
       PROVE  Goal
  <2>1. /\ OnlyMoves(g) /\ UNCHANGED result /\ inside'[g] = inside[g] /\ at'[g] = at[g]
        /\ pc[g] = "closehandle" /\ pc'[g] = "closefile"
    BY <1>1, <1>11 DEF CloseHandle, Goto, OnlyMoves, TypeOK, local
  <2>2. handle = "open" /\ handle' = "closed"
    BY <1>1, <1>11, <2>1 DEF IInv, Resources, CloseHandle, Shut
  <2>3. Served(g)' = Served(g)
    BY <2>1 DEF Served, Doing, InCallback, Ranging
  <2>4. \/ Doing(g) = "close" /\ Doing(g)' = "closed it"
        \/ Doing(g) = "fn" /\ Doing(g)' = Doing(g)
    BY <2>1 DEF Doing, InCallback, Ranging
  <2>5. Shared!CloseIt(g)
    BY <1>2, <2>1, <2>2, <2>3, <2>4, SharedMoves, DoingStays, ServedStays DEF Shared!CloseIt
  <2>6. QED
    BY <2>5 DEF Shared!Next
<1>12. ASSUME NEW g \in Goroutines, Edit(g)
       PROVE  Goal
  <2>1. UNCHANGED <<pc, at, upto, inside, handle, result>>
    BY <1>12, Zenon DEF Edit, local, resources
  <2>2. OnlyMoves(g) /\ Doing(g)' = Doing(g) /\ Served(g)' = Served(g)
    BY <2>1 DEF OnlyMoves, Doing, Served, InCallback, Ranging
  <2>3. QED
    BY <1>3, <2>1, <2>2
<1>13. QED
  BY <1>1, <1>4, <1>5, <1>6, <1>7, <1>8, <1>9, <1>10, <1>11, <1>12 DEF Next, Step

LEMMA SharedStep ==
  FileInv /\ Nested /\ [NextFile]_fileVars => Nested' /\ [Shared!Next]_(Shared!promise)
<1> SUFFICES ASSUME FileInv, Nested, [NextFile]_fileVars
             PROVE  Nested' /\ [Shared!Next]_(Shared!promise)
  OBVIOUS
<1>1. CASE Open
  <2>1. Nested'
    BY <1>1 DEF Open, using, local, Nested, InCallback
  <2>2. QED
    BY <1>1, <2>1, SharedOpening
<1>2. CASE Use
  <2>1. TypeOK /\ Next
    BY <1>2 DEF Use, FileInv, IInv
  <2>2. QED
    BY <1>2, <2>1, NestedStep, SharedUse
<1>3. CASE UNCHANGED fileVars
  <2>1. UNCHANGED <<lazy, got, handle, pc, at, upto, inside, result>>
    BY <1>3 DEF fileVars, opening, using, resources, local
  <2>2. Nested'
    BY <2>1 DEF Nested, InCallback
  <2>3. \A g \in Goroutines : Doing(g)' = Doing(g) /\ Served(g)' = Served(g)
    BY <2>1 DEF Doing, Served, InCallback, Ranging
  <2>4. Life' = Life
    BY <2>1 DEF Life, InUse
  <2>5. QED
    BY <2>1, <2>2, <2>3, <2>4 DEF Shared!promise
<1>4. QED
  BY <1>1, <1>2, <1>3 DEF NextFile

\* Goroutines that share a lazy File cannot tell it from one whose every
\* delivery and every Close happens at one moment (sofa_stream.go:36-39).
THEOREM SharedAsPromised == SpecFile => ImplementsShared
  BY SharedInit, SharedStep, FileInvariant, PTL DEF SpecFile, ImplementsShared, Shared!Spec
=============================================================================
