------------------------- MODULE AtomicSave_proofs -------------------------
(***************************************************************************)
(* Proofs about AtomicSave: its invariants hold for any number of Save     *)
(* calls, permission bits and crashes.                                     *)
(***************************************************************************)
EXTENDS AtomicSave, TLAPS

\* A step of the calls and of the world, without the bound on TLC's search.
LEMMA StepSplit ==
  ASSUME [Next]_vars
  PROVE  \/ \E s \in Saves : Begin(s) \/ Step(s) \/ Kill(s)
         \/ \E m \in Modes : UserChmod(m)
         \/ Crash
         \/ UNCHANGED vars
  BY DEF Next

LEMMA TypeInit == Init => TypeOK
  BY ModesGiven, EntriesDiffer DEF Init, TypeOK, Files, Running, Ended, Contents

LEMMA TypeStep == TypeOK /\ [Next]_vars => TypeOK'
<1> SUFFICES ASSUME TypeOK, [Next]_vars PROVE TypeOK'
  OBVIOUS
<1>. USE DEF TypeOK, Goto, disk, Files, Running, Ended, Contents
<1>1. ASSUME NEW s \in Saves, Begin(s) PROVE TypeOK'
  BY <1>1 DEF Begin
<1>2. ASSUME NEW s \in Saves, Stat(s) PROVE TypeOK'
  BY <1>2, ModesGiven DEF Stat, ModeAt
<1>3. ASSUME NEW s \in Saves, StatFails(s) PROVE TypeOK'
  BY <1>3, ModesGiven DEF StatFails
<1>4. ASSUME NEW s \in Saves, CreateTemp(s) PROVE TypeOK'
  BY <1>4 DEF CreateTemp, AfterCreate
<1>5. ASSUME NEW s \in Saves, CreateTempFails(s) PROVE TypeOK'
  BY <1>5 DEF CreateTempFails
<1>6. ASSUME NEW s \in Saves, OpenWriter(s) PROVE TypeOK'
  BY <1>6 DEF OpenWriter, Opened
<1>7. ASSUME NEW s \in Saves, CloseWriter(s) PROVE TypeOK'
  BY <1>7 DEF CloseWriter, Opened
<1>8. ASSUME NEW s \in Saves, SyncTemp(s) PROVE TypeOK'
  BY <1>8 DEF SyncTemp, Synced
<1>9. ASSUME NEW s \in Saves, ChmodTemp(s) PROVE TypeOK'
  BY <1>9 DEF ChmodTemp, Granted
<1>10. ASSUME NEW s \in Saves, Rename(s) PROVE TypeOK'
  BY <1>10 DEF Rename, Undecided
<1>11. ASSUME NEW s \in Saves, SyncDir(s) PROVE TypeOK'
  BY <1>11 DEF SyncDir
<1>12. ASSUME NEW s \in Saves, SyncDirUnsupported(s) PROVE TypeOK'
  BY <1>12 DEF SyncDirUnsupported
<1>13. ASSUME NEW s \in Saves, Fail(s) PROVE TypeOK'
  BY <1>13 DEF Fail, OnError
<1>14. ASSUME NEW s \in Saves, RemoveTemp(s) PROVE TypeOK'
  BY <1>14 DEF RemoveTemp
<1>20. ASSUME NEW s \in Saves, RemoveFails(s) PROVE TypeOK'
  BY <1>20 DEF RemoveFails
<1>15. ASSUME NEW s \in Saves, Kill(s) PROVE TypeOK'
  BY <1>15 DEF Kill
<1>16. ASSUME NEW m \in Modes, UserChmod(m) PROVE TypeOK'
  BY <1>16 DEF UserChmod, Undecided
<1>17. ASSUME Crash PROVE TypeOK'
  <2>1. pc' \in [Saves -> {"idle"} \cup Running \cup Ended]
    BY <1>17 DEF Crash
  <2>2. data' \in [Files -> Contents] /\ mode' \in [Files -> Modes]
    BY <1>17, ModesGiven DEF Crash
  <2>3. /\ path' \in Files \cup {None, Directory} /\ dpath' = path'
        /\ temps' \subseteq Saves /\ pending' \subseteq Saves
        /\ crashes' \in Nat
    BY <1>17 DEF Crash
  <2>4. QED
    BY <1>17, <2>1, <2>2, <2>3 DEF Crash
<1>18. CASE UNCHANGED vars
  BY <1>18 DEF vars
<1>19. QED
  BY StepSplit, <1>1, <1>2, <1>3, <1>4, <1>5, <1>6, <1>7, <1>8, <1>9, <1>10,
     <1>11, <1>12, <1>13, <1>14, <1>20, <1>15, <1>16, <1>17, <1>18 DEF Step

\* The variables of the model keep their types, which every other proof of
\* this module starts from.
THEOREM TypeCorrect == Spec => []TypeOK
  BY TypeInit, TypeStep, PTL DEF Spec

-----------------------------------------------------------------------------
LEMMA InvInit == Init => IInv
<1>. SUFFICES ASSUME Init PROVE IInv
  OBVIOUS
<1>1. TypeOK
  BY TypeInit
<1>2. NamedAreSealed
  BY EntriesDiffer DEF Init, NamedAreSealed, Sealed, Files
<1>3. Progress /\ NamesInUse /\ SuccessIsDurable
  BY EntriesDiffer DEF Init, Progress, NamesInUse, SuccessIsDurable, Files
<1>4. WantIsCurrent
  BY DEF Init, WantIsCurrent, Undecided, Running
<1>5. QED
  BY <1>1, <1>2, <1>3, <1>4 DEF IInv

LEMMA InvStep == IInv /\ [Next]_vars => IInv'
<1> SUFFICES ASSUME IInv, [Next]_vars PROVE IInv'
  OBVIOUS
<1>. USE DEF IInv, TypeOK, NamedAreSealed, Progress, WantIsCurrent, NamesInUse,
             SuccessIsDurable, Sealed, ModeAt, Undecided, Running, Ended, Files,
             Goto, disk
<1>0. TypeOK'
  BY TypeStep
<1>1. ASSUME NEW s \in Saves, Begin(s) PROVE IInv'
  BY <1>0, <1>1, EntriesDiffer DEF Begin
<1>2. ASSUME NEW s \in Saves, Stat(s) PROVE IInv'
  BY <1>0, <1>2, EntriesDiffer DEF Stat
<1>3. ASSUME NEW s \in Saves, StatFails(s) PROVE IInv'
  BY <1>0, <1>3, EntriesDiffer DEF StatFails
<1>4. ASSUME NEW s \in Saves, CreateTemp(s) PROVE IInv'
  BY <1>0, <1>4, EntriesDiffer DEF CreateTemp, AfterCreate
<1>5. ASSUME NEW s \in Saves, CreateTempFails(s) PROVE IInv'
  BY <1>0, <1>5, EntriesDiffer DEF CreateTempFails
<1>6. ASSUME NEW s \in Saves, OpenWriter(s) PROVE IInv'
  BY <1>0, <1>6, EntriesDiffer DEF OpenWriter, Opened
<1>7. ASSUME NEW s \in Saves, CloseWriter(s) PROVE IInv'
  BY <1>0, <1>7, EntriesDiffer DEF CloseWriter, Opened
<1>8. ASSUME NEW s \in Saves, SyncTemp(s) PROVE IInv'
  BY <1>0, <1>8, EntriesDiffer DEF SyncTemp, Synced
<1>9. ASSUME NEW s \in Saves, ChmodTemp(s) PROVE IInv'
  BY <1>0, <1>9, EntriesDiffer DEF ChmodTemp, Granted
<1>10. ASSUME NEW s \in Saves, Rename(s) PROVE IInv'
  <2>. USE <1>10 DEF Rename
  <2>1. NamedAreSealed'  \* the new file was sealed before it got the name
    BY EntriesDiffer
  <2>2. Progress' /\ NamesInUse' /\ SuccessIsDurable'
    BY <1>0
  <2>3. WantIsCurrent'   \* either the bits are the old ones or all are stale
    <3>1. CASE s \in stale
      BY <1>0, <3>1
    <3>2. CASE s \notin stale
      BY <1>0, <3>2
    <3>3. QED
      BY <3>1, <3>2
  <2>4. QED
    BY <1>0, <2>1, <2>2, <2>3
<1>11. ASSUME NEW s \in Saves, SyncDir(s) PROVE IInv'
  BY <1>0, <1>11, EntriesDiffer DEF SyncDir
<1>12. ASSUME NEW s \in Saves, SyncDirUnsupported(s) PROVE IInv'
  BY <1>0, <1>12, EntriesDiffer DEF SyncDirUnsupported, Tolerated
<1>13. ASSUME NEW s \in Saves, Fail(s) PROVE IInv'
  BY <1>0, <1>13, EntriesDiffer DEF Fail, OnError
<1>14. ASSUME NEW s \in Saves, RemoveTemp(s) PROVE IInv'
  BY <1>0, <1>14, EntriesDiffer DEF RemoveTemp
<1>20. ASSUME NEW s \in Saves, RemoveFails(s) PROVE IInv'
  BY <1>0, <1>20, EntriesDiffer DEF RemoveFails
<1>15. ASSUME NEW s \in Saves, Kill(s) PROVE IInv'
  BY <1>0, <1>15, EntriesDiffer DEF Kill
<1>16. ASSUME NEW m \in Modes, UserChmod(m) PROVE IInv'
  BY <1>0, <1>16, EntriesDiffer DEF UserChmod
<1>17. ASSUME Crash PROVE IInv'
  <2>. USE <1>17 DEF Crash
  <2>1. \A f \in Files : Sealed(f) => Sealed(f)'
    OBVIOUS
  <2>2. NamedAreSealed'
    BY <2>1, EntriesDiffer
  <2>3. Progress' /\ NamesInUse' /\ SuccessIsDurable'
    BY <1>0
  <2>4. WantIsCurrent'   \* every call has ended
    <3>1. Undecided' = {}
      BY <1>0
    <3>2. QED
      BY <3>1
  <2>5. QED
    BY <1>0, <2>2, <2>3, <2>4
<1>18. CASE UNCHANGED vars
  BY <1>0, <1>18 DEF vars
<1>19. QED
  BY StepSplit, <1>1, <1>2, <1>3, <1>4, <1>5, <1>6, <1>7, <1>8, <1>9, <1>10,
     <1>11, <1>12, <1>13, <1>14, <1>20, <1>15, <1>16, <1>17, <1>18 DEF Step

THEOREM Invariant == Spec => []IInv
  BY InvInit, InvStep, PTL DEF Spec

-----------------------------------------------------------------------------
\* Save is atomic: whatever calls, crashes and failures there are, the file
\* at the path is complete (sofa_io.go:58).
THEOREM Atomic == Spec => []AtomicPath
<1>1. IInv => AtomicPath
  BY DEF IInv, NamedAreSealed, Sealed, AtomicPath
<1>2. QED
  BY <1>1, Invariant, PTL

\* No crash takes back a Save that returned nil, where directories can be
\* synced (sofa_io.go:153-157).
THEOREM Durable == Spec => []SuccessIsDurable
<1>1. IInv => SuccessIsDurable
  BY DEF IInv
<1>2. QED
  BY <1>1, Invariant, PTL

\* Without a crash no call that returned leaves its temporary file
\* (sofa_io.go:59-60).
THEOREM Tidy == Spec => []NoLitter
<1>1. IInv => NoLitter
  BY DEF IInv, NamesInUse, NoLitter
<1>2. QED
  BY <1>1, Invariant, PTL

LEMMA StepChangesNoPublished ==
  ASSUME IInv, [Next]_vars, path \in Files
  PROVE  data'[path] = data[path]
<1>. USE DEF IInv, TypeOK, NamedAreSealed, Sealed, Progress, Files, disk
<1>1. ASSUME NEW s \in Saves, OpenWriter(s) \/ CloseWriter(s)
      PROVE  data'[path] = data[path]
  \* The call's own file is not at the path yet.
  BY <1>1 DEF OpenWriter, CloseWriter, Opened
<1>2. ASSUME Crash PROVE data'[path] = data[path]
  \* The file at the path is synced.
  BY <1>2 DEF Crash
<1>3. CASE UNCHANGED data
  BY <1>3
<1>4. QED
  BY <1>1, <1>2, <1>3, StepSplit
     DEF Step, Begin, Stat, StatFails, CreateTemp, CreateTempFails, SyncTemp,
         ChmodTemp, Rename, SyncDir, SyncDirUnsupported, Fail, RemoveTemp, RemoveFails,
         Kill, UserChmod, vars

\* What a file at the path holds never changes, so a reader that has it open
\* keeps reading the file it opened.
THEOREM Immutable == Spec => PublishedNeverChanges
<1>1. IInv /\ [Next]_vars
        => [\A f \in Files : path = f => data'[f] = data[f]]_vars
  BY StepChangesNoPublished
<1>2. QED
  BY <1>1, Invariant, PTL DEF Spec, PublishedNeverChanges

LEMMA StepKeepsMode ==
  ASSUME IInv, [Next]_vars, NEW s \in Saves,
         pc[s] = "rename", pc'[s] = "syncdir", s \notin stale
  PROVE  mode'[path'] = ModeAt(path)
<1>. USE DEF IInv, TypeOK, Goto, disk
<1>1. Rename(s)
  BY StepSplit
     DEF Step, Begin, Stat, StatFails, CreateTemp, CreateTempFails, OpenWriter,
         CloseWriter, SyncTemp, ChmodTemp, Rename, SyncDir, SyncDirUnsupported,
         Fail, RemoveTemp, RemoveFails, OnError, AfterCreate, Kill, UserChmod, Crash,
         Running, vars
<1>2. mode[s] = ModeAt(path)
  BY DEF WantIsCurrent, Undecided, Running
<1>3. QED
  BY <1>1, <1>2 DEF Rename

\* A call whose Stat worked gives the path the permission bits it has, however
\* many other calls replaced the file meanwhile (sofa_io.go:61-62).
THEOREM KeepsMode == Spec => ModeKept
<1>1. IInv /\ [Next]_vars
        => [\A s \in Saves :
              (pc[s] = "rename" /\ pc'[s] = "syncdir" /\ s \notin stale)
                => mode'[path'] = ModeAt(path)]_vars
  BY StepKeepsMode
<1>2. QED
  BY <1>1, Invariant, PTL DEF Spec, ModeKept

-----------------------------------------------------------------------------
(* Save implements PublishedFile: every step maps to a step or a stutter.  *)

LEMMA PromiseInit == Init => Promise!Init
<1>. SUFFICES ASSUME Init PROVE Promise!Init
  OBVIOUS
<1>1. Seen(path) = path /\ SeenOnDisk(dpath) = path /\ pending = {}
  BY EntriesDiffer DEF Init, Seen, SeenOnDisk, Files
<1>2. [s \in Saves |-> Stage(s)] = [s \in Saves |-> "none"]
  BY DEF Init, Stage
<1>3. QED
  BY <1>1, <1>2 DEF Init, Promise!Init

\* A reader sees what the path names, never a torn file, now or after a crash.
NothingTorn ==
  /\ Seen(path) = path
  /\ SeenOnDisk(dpath) = dpath
  /\ {SeenOnDisk(s) : s \in pending} = pending

LEMMA SeenIsNamed == IInv => NothingTorn
<1>. SUFFICES ASSUME IInv PROVE NothingTorn
  OBVIOUS
<1>1. \A f \in Files : Sealed(f) => Seen(f) = f /\ SeenOnDisk(f) = f
  BY DEF Sealed, Seen, SeenOnDisk
<1>2. Seen(path) = path /\ SeenOnDisk(dpath) = dpath
  BY <1>1 DEF IInv, NamedAreSealed, Seen, SeenOnDisk
<1>3. \A s \in pending : SeenOnDisk(s) = s
  BY <1>1 DEF IInv, TypeOK, NamedAreSealed, Files
<1>4. QED
  BY <1>2, <1>3 DEF NothingTorn

\* A step that moves one call moves that call's stage alone.
LEMMA StageMoves ==
  ASSUME TypeOK, NEW s \in Saves, NEW l, Goto(s, l)
  PROVE  /\ [c \in Saves |-> Stage(c)]'
              = [[c \in Saves |-> Stage(c)] EXCEPT ![s] = Stage(s)']
         /\ pc'[s] = l
  BY DEF TypeOK, Goto, Stage

LEMMA StageStays ==
  ASSUME NEW s \in Saves, Stage(s)' = Stage(s),
         [c \in Saves |-> Stage(c)]'
           = [[c \in Saves |-> Stage(c)] EXCEPT ![s] = Stage(s)']
  PROVE  [c \in Saves |-> Stage(c)]' = [c \in Saves |-> Stage(c)]
  OBVIOUS

LEMMA PromiseStep == IInv /\ [Next]_vars => [Promise!Next]_(Promise!promise)
<1> SUFFICES ASSUME IInv, [Next]_vars PROVE [Promise!Next]_(Promise!promise)
  OBVIOUS
<1>. DEFINE stage == [s \in Saves |-> Stage(s)]
<1>1. /\ Seen(path) = path /\ SeenOnDisk(dpath) = dpath
      /\ {SeenOnDisk(s) : s \in pending} = pending
  BY SeenIsNamed DEF NothingTorn
<1>2. /\ Seen(path)' = path' /\ SeenOnDisk(dpath)' = dpath'
      /\ {SeenOnDisk(s) : s \in pending}' = pending'
  <2>1. IInv'
    BY InvStep
  <2>2. NothingTorn'
    BY <2>1, SeenIsNamed, PTL
  <2>3. QED
    BY <2>2 DEF NothingTorn
<1>. USE DEF Promise!Next, Promise!promise, Promise!Return, Stage, Ended, disk
\* Only the labels of the call s move, and the stage stays or the call gives up.
<1>3. ASSUME NEW s \in Saves, NEW l, Goto(s, l),
             UNCHANGED <<path, dpath, pending, canSync>>,
             \/ Stage(s)' = Stage(s)
             \/ Stage(s) \in {"working", "published"} /\ Stage(s)' = "failing"
             \/ Stage(s) \in {"working", "failing"} /\ Stage(s)' = "failed"
      PROVE  [Promise!Next]_(Promise!promise)
  <2>1. stage' = [stage EXCEPT ![s] = Stage(s)']
    BY <1>3, StageMoves DEF IInv
  <2>2. CASE Stage(s)' = Stage(s)
    <3>1. stage' = stage
      BY <2>1, <2>2, StageStays
    <3>2. QED
      BY <1>1, <1>2, <1>3, <3>1
  <2>3. CASE Stage(s)' # Stage(s)
    <3>1. Promise!GiveUp(s)
      BY <1>1, <1>2, <1>3, <2>1, <2>3 DEF Promise!GiveUp
    <3>2. QED
      BY <3>1
  <2>4. QED
    BY <2>2, <2>3
<1>4. ASSUME NEW s \in Saves, Begin(s) PROVE Promise!Start(s)
  <2>1. PICK l \in {"stat", "failed"} : Goto(s, l)
    BY <1>4 DEF Begin
  <2>2. stage' = [stage EXCEPT ![s] = Stage(s)'] /\ pc'[s] = l
    BY <2>1, StageMoves DEF IInv
  <2>3. Stage(s) = "none" /\ Stage(s)' \in {"working", "failed"}
    BY <1>4, <2>2 DEF Begin
  <2>4. QED
    BY <1>1, <1>2, <1>4, <2>2, <2>3 DEF Promise!Start, Begin
<1>5. ASSUME NEW s \in Saves, Rename(s) PROVE Promise!Publish(s)
  <2>1. stage' = [stage EXCEPT ![s] = Stage(s)'] /\ pc'[s] = "syncdir"
    BY <1>5, StageMoves DEF IInv, Rename
  <2>2. Stage(s) = "working" /\ Stage(s)' = "published"
    BY <1>5, <2>1 DEF Rename
  <2>3. QED
    BY <1>1, <1>2, <1>5, <2>1, <2>2 DEF Promise!Publish, Rename
<1>6. ASSUME NEW s \in Saves, SyncDir(s) \/ SyncDirUnsupported(s)
      PROVE  Promise!Succeed(s)
  <2>1. stage' = [stage EXCEPT ![s] = Stage(s)'] /\ pc'[s] = "ok"
    BY <1>6, StageMoves DEF IInv, SyncDir, SyncDirUnsupported
  <2>2. Stage(s) = "published" /\ Stage(s)' = "ok"
    BY <1>6, <2>1 DEF SyncDir, SyncDirUnsupported
  <2>3. QED
    BY <1>1, <1>2, <1>6, <2>1, <2>2
       DEF Promise!Succeed, SyncDir, SyncDirUnsupported, Tolerated
<1>7. ASSUME NEW s \in Saves, Kill(s) PROVE Promise!Kill(s)
  <2>1. stage' = [stage EXCEPT ![s] = Stage(s)'] /\ pc'[s] = "killed"
    BY <1>7, StageMoves DEF IInv, Kill
  <2>2. Stage(s) \in Promise!Underway /\ Stage(s)' = "killed"
    BY <1>7, <2>1 DEF Kill, Running, Promise!Underway
  <2>3. QED
    BY <1>1, <1>2, <1>7, <2>1, <2>2 DEF Promise!Kill, Kill
<1>8. ASSUME Crash PROVE Promise!Crash
  <2>1. stage' = [s \in Saves |-> IF stage[s] \in Promise!Underway
                                  THEN "killed" ELSE stage[s]]
    BY <1>8 DEF Crash, Running, Promise!Underway, IInv, TypeOK
  <2>2. QED
    BY <1>1, <1>2, <1>8, <2>1 DEF Promise!Crash, Crash
<1>9. ASSUME NEW m \in Modes, UserChmod(m) PROVE UNCHANGED Promise!promise
  BY <1>1, <1>2, <1>9 DEF UserChmod
<1>10. CASE UNCHANGED vars
  BY <1>1, <1>2, <1>10 DEF vars
<1>11. ASSUME NEW s \in Saves, Step(s), ~Rename(s), ~SyncDir(s),
              ~SyncDirUnsupported(s)
       PROVE  [Promise!Next]_(Promise!promise)
  <2>1. PICK l : /\ Goto(s, l) /\ pc'[s] = l
                 /\ UNCHANGED <<path, dpath, pending, canSync>>
                 /\ \/ /\ pc[s] \in Running \ {"syncdir", "remove"}
                       /\ l \in (Running \cup {"failed"}) \ {"syncdir"}
                    \/ pc[s] = "syncdir" /\ l = "remove"
                    \/ pc[s] = "remove" /\ l \in {"failed", "left"}
    BY <1>11, StageMoves
       DEF Step, Stat, StatFails, CreateTemp, CreateTempFails, OpenWriter,
           CloseWriter, SyncTemp, ChmodTemp, Fail, RemoveTemp, RemoveFails, OnError,
           AfterCreate, Running, Goto, IInv, TypeOK
  <2>2. QED
    BY <1>3, <2>1 DEF Running
<1>12. QED
  BY StepSplit, <1>4, <1>5, <1>6, <1>7, <1>8, <1>9, <1>10, <1>11

\* Save keeps its promise, short of liveness: what readers find at the path
\* changes in one step or not at all, is never torn, and once a call has
\* returned nil a crash does not take it back.
THEOREM KeepsPromise == Spec => Promise!Init /\ [][Promise!Next]_(Promise!promise)
  BY PromiseInit, PromiseStep, Invariant, PTL DEF Spec
=============================================================================
