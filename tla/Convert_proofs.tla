--------------------------- MODULE Convert_proofs ---------------------------
(***************************************************************************)
(* Theorems about Convert, for any number of exports to one JSON file.     *)
(***************************************************************************)
EXTENDS Convert, TLAPS

USE FilesDiffer

\* The invariant holds at first.
LEMMA InvInit == Init => IInv
  BY DEF Init, IInv, TypeOK, TempsInUse, OutIsFrom, EncodedIsFull, OneInPlace, InPlace,
         Files, Contents

\* Every step keeps the types.
LEMMA TypeStep == TypeOK /\ [Next]_vars => TypeOK'
<1> SUFFICES ASSUME TypeOK, [Next]_vars PROVE TypeOK'
  OBVIOUS
<1> USE DEF TypeOK, Files, Contents, Running, Ended, Goto
<1>1. CASE UNCHANGED vars
  BY <1>1 DEF vars
<1>2. ASSUME NEW x \in Exports, OpenInput(x) \/ Step(x) \/ Kill(x) PROVE TypeOK'
  <2>1. CASE OpenInput(x) \/ CreateTemp(x) \/ CreateOut(x) \/ CreateFails(x)
    BY <2>1 DEF OpenInput, CreateTemp, CreateOut, CreateFails
  <2>2. CASE Encode(x) \/ EncodeFails(x)
    BY <2>2 DEF Encode, EncodeFails, Flushed, OnError
  <2>3. CASE Close(x) \/ CloseFails(x)
    BY <2>3 DEF Close, CloseFails, OnError
  <2>4. CASE Rename(x) \/ RenameFails(x)
    BY <2>4 DEF Rename, RenameFails, OnError
  <2>5. CASE Remove(x) \/ RemoveFails(x) \/ Kill(x)
    BY <2>5 DEF Remove, RemoveFails, Kill
  <2>6. QED
    BY <1>2, <2>1, <2>2, <2>3, <2>4, <2>5 DEF Step
<1>3. QED
  BY <1>1, <1>2 DEF Next

\* Every step keeps the invariant.
LEMMA InvStep == IInv /\ [Next]_vars => IInv'
<1> SUFFICES ASSUME IInv, [Next]_vars PROVE IInv'
  OBVIOUS
<1>1. TypeOK /\ TypeOK'
  BY TypeStep DEF IInv
<1> USE DEF IInv, TempsInUse, OutIsFrom, EncodedIsFull, OneInPlace, InPlace, ByForce,
        Files, Goto
<1>2. CASE UNCHANGED vars
  BY <1>1, <1>2 DEF vars
<1>3. ASSUME NEW x \in Exports, OpenInput(x) \/ Step(x) \/ Kill(x) PROVE IInv'
  <2> USE <1>1 DEF TypeOK
  <2>1. CASE OpenInput(x)
    BY <2>1 DEF OpenInput
  <2>2. CASE CreateTemp(x)
    BY <2>2 DEF CreateTemp
  <2>3. CASE CreateOut(x)
    BY <2>3 DEF CreateOut, Absent
  <2>4. CASE CreateFails(x)
    BY <2>4 DEF CreateFails
  <2>5. CASE Encode(x)
    BY <2>5 DEF Encode, Flushed
  <2>6. CASE EncodeFails(x)
    BY <2>6 DEF EncodeFails, OnError
  <2>7. CASE Close(x)
    BY <2>7 DEF Close
  <2>8. CASE CloseFails(x)
    BY <2>8 DEF CloseFails, OnError
  <2>9. CASE Rename(x)
    BY <2>9 DEF Rename
  <2>10. CASE RenameFails(x)
    BY <2>10 DEF RenameFails, OnError
  <2>11. CASE Remove(x)
    BY <2>11 DEF Remove, RemovesOut
  <2>12. CASE RemoveFails(x)
    BY <2>12 DEF RemoveFails
  <2>13. CASE Kill(x)
    BY <2>13 DEF Kill, Running
  <2>14. QED
    BY <1>3, <2>1, <2>2, <2>3, <2>4, <2>5, <2>6, <2>7, <2>8, <2>9, <2>10, <2>11,
       <2>12, <2>13 DEF Step
<1>4. QED
  BY <1>2, <1>3 DEF Next

\* The invariant of every reachable state, on which the theorems rest.
THEOREM Invariant == Spec => []IInv
  BY InvInit, InvStep, PTL DEF Spec

\* The variables have their types.
THEOREM TypeCorrect == Spec => []TypeOK
<1>1. IInv => TypeOK
  BY DEF IInv
<1>2. QED
  BY <1>1, Invariant, PTL

\* An export that returned an error has left nothing behind.
THEOREM Clean == Spec => []NothingLeft
<1>1. IInv => NothingLeft
  BY DEF IInv, TempsInUse, OutIsFrom, NothingLeft
<1>2. QED
  BY <1>1, Invariant, PTL

\* A partial JSON file is one that an export without -f is still writing, or
\* did not finish: never one that was renamed.
THEOREM Complete == Spec => []CompleteOrInPlace
<1>1. IInv => CompleteOrInPlace
  BY DEF IInv, OutIsFrom, EncodedIsFull, CompleteOrInPlace, Files
<1>2. QED
  BY <1>1, Invariant, PTL

\* PreviousKept, for one step.
LEMMA StepKeepsPrevious ==
  ASSUME IInv, [Next]_vars,
         out \in Files, data[out] = "full",
         \A x \in Exports : pc[x] \in {"close", "remove"} => force[x]
  PROVE  out' \in Files /\ data'[out'] = "full"
<1> USE DEF IInv, TypeOK, OutIsFrom, EncodedIsFull, Files
<1>1. CASE UNCHANGED vars
  BY <1>1 DEF vars
<1>2. ASSUME NEW x \in Exports, OpenInput(x) \/ Step(x) \/ Kill(x)
      PROVE  out' \in Files /\ data'[out'] = "full"
  <2>1. CASE CreateOut(x)
    BY <2>1 DEF CreateOut, Absent
  <2>2. CASE Encode(x)
    BY <2>2 DEF Encode, Flushed
  <2>3. CASE CloseFails(x)
    <3>1. force[x] /\ out # x
      BY <2>3 DEF CloseFails
    <3>2. QED
      BY <2>3, <3>1 DEF CloseFails
  <2>4. CASE Rename(x)
    BY <2>4 DEF Rename
  <2>5. CASE Remove(x)
    BY <2>5 DEF Remove, RemovesOut
  <2>6. CASE UNCHANGED <<out, data>>
    BY <2>6
  <2>7. QED
    BY <1>2, <2>1, <2>2, <2>3, <2>4, <2>5, <2>6
       DEF Step, OpenInput, CreateTemp, CreateFails, EncodeFails, Close,
           RenameFails, RemoveFails, Kill
<1>3. QED
  BY <1>1, <1>2 DEF Next

\* A complete JSON file is followed by a complete one, as long as no export
\* without -f is about to end.
THEOREM KeepsPrevious == Spec => PreviousKept
<1>1. IInv /\ [Next]_vars =>
        [(/\ out \in Files /\ data[out] = "full"
          /\ \A x \in Exports : pc[x] \in {"close", "remove"} => force[x])
         => out' \in Files /\ data'[out'] = "full"]_vars
  BY StepKeepsPrevious
<1>2. QED
  BY <1>1, Invariant, PTL DEF Spec, PreviousKept

\* UnforcedKeep, for one step.
LEMMA StepKeepsUnforced ==
  ASSUME IInv, [Next]_vars, out # None
  PROVE  \/ out' = out
         \/ ByForce(out')
         \/ /\ out' = None
            /\ \E x \in Exports :
                 /\ ~force[x] /\ pc[x] = "remove" /\ pc'[x] = "failed"
                 /\ out = x \/ ByForce(out)
<1> DEFINE Keeps ==
             \/ out' = out
             \/ ByForce(out')
             \/ /\ out' = None
                /\ \E x \in Exports :
                     /\ ~force[x] /\ pc[x] = "remove" /\ pc'[x] = "failed"
                     /\ out = x \/ ByForce(out)
<1> USE DEF IInv, TypeOK
<1>1. CASE UNCHANGED vars
  BY <1>1 DEF vars
<1>2. ASSUME NEW x \in Exports, OpenInput(x) \/ Step(x) \/ Kill(x) PROVE Keeps
  <2>1. CASE CreateOut(x)
    BY <2>1 DEF CreateOut, Absent
  <2>2. CASE Rename(x)
    BY <2>2 DEF Rename, TempsInUse, ByForce
  <2>3. CASE Remove(x) /\ RemovesOut(x)
    <3>1. out' = None /\ ~force[x] /\ pc[x] = "remove" /\ pc'[x] = "failed"
      BY <2>3 DEF Remove, RemovesOut, Goto
    <3>2. out = x \/ ByForce(out)
      BY <3>1 DEF OneInPlace, InPlace
    <3>3. QED
      BY <3>1, <3>2
  <2>4. CASE Remove(x) /\ ~RemovesOut(x)
    BY <2>4 DEF Remove
  <2>5. CASE UNCHANGED out
    BY <2>5
  <2>6. QED
    BY <1>2, <2>1, <2>2, <2>3, <2>4, <2>5
       DEF Step, OpenInput, CreateTemp, CreateFails, Encode, EncodeFails, Close,
           CloseFails, RenameFails, RemoveFails, Kill
<1>3. QED
  BY <1>1, <1>2 DEF Next

\* A JSON file is replaced by exports with -f only, and removed only by an
\* export without -f that fails: its own file or one of an export with -f,
\* whichever exports run at once.
THEOREM KeepsUnforced == Spec => UnforcedKeep
<1>1. IInv /\ [Next]_vars =>
        [out # None =>
           \/ out' = out
           \/ ByForce(out')
           \/ /\ out' = None
              /\ \E x \in Exports :
                   /\ ~force[x] /\ pc[x] = "remove" /\ pc'[x] = "failed"
                   /\ out = x \/ ByForce(out)]_vars
  BY StepKeepsUnforced
<1>2. QED
  BY <1>1, Invariant, PTL DEF Spec, UnforcedKeep
=============================================================================
