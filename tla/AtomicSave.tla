----------------------------- MODULE AtomicSave -----------------------------
(***************************************************************************)
(* File.Save (sofa_io.go): write a temporary file beside the path, fsync   *)
(* it, give it the path's permission bits, rename it over the path and     *)
(* fsync the directory.  Several Save calls to one path may run at once,   *)
(* any of their system calls may fail, a process may be killed, the        *)
(* machine may crash, and a user may chmod the path meanwhile.             *)
(*                                                                         *)
(* A Save call stands for the temporary file it creates and for the inode  *)
(* of that file: os.CreateTemp draws names with a random suffix and        *)
(* O_EXCL, so no two calls share one.  The operating system writes to disk *)
(* whenever it likes: a crash keeps what was fsynced and an arbitrary part *)
(* of the rest.  synced, dpath and pending say what is certain.            *)
(***************************************************************************)
EXTENDS Naturals, FiniteSets

CONSTANTS Saves,       \* the Save calls
          Old,         \* the file at the path before any of them
          None,        \* no entry in the directory
          Directory,   \* an entry that is not a regular file
          Modes,       \* permission bits
          TempMode,    \* those of a file os.CreateTemp made (0600)
          DefaultMode, \* those of a file Save creates (0644)
          MaxCrashes   \* bound on the crashes of the machine

Files == Saves \cup {Old}

ASSUME EntriesDiffer ==
  /\ Old \notin Saves
  /\ None \notin Files
  /\ Directory \notin Files \cup {None}
ASSUME ModesGiven == TempMode \in Modes /\ DefaultMode \in Modes
ASSUME BoundGiven == MaxCrashes \in Nat

VARIABLES pc,      \* where each Save call stands
          want,    \* its local variable mode
          path,    \* the directory's entry for the path
          temps,   \* the temporary names in the directory
          data,    \* what each file holds
          mode,    \* each file's permission bits
          synced,  \* the files whose data is on disk
          dpath,   \* the entry for the path when it was last synced
          pending, \* the renames over the path since then
          canSync, \* the platform can fsync a directory
          stale,   \* ghost: the calls whose want the path has outdated
          crashes  \* ghost: how often the machine has crashed

disk == <<synced, dpath, pending, canSync>>
vars == <<pc, want, path, temps, data, mode, disk, stale, crashes>>

\* What a file can hold: nothing yet, part of a SOFA file, or all of one.
Contents == {"empty", "torn", "full"}

Running == {"stat", "create", "open", "write", "sync", "chmod", "rename",
            "syncdir", "remove"}
\* "left": failed, and the temporary file could not be removed.
Ended == {"ok", "failed", "left", "killed"}

\* Calls that looked at the path and have not replaced it yet.
Undecided == {s \in Saves : pc[s] \in Running \ {"stat", "syncdir", "remove"}}

Init ==
  /\ pc = [s \in Saves |-> "idle"]
  /\ path \in {Old, None, Directory}
  /\ mode \in [Files -> Modes]
  /\ \A s \in Saves : mode[s] = TempMode
  /\ path # Old => mode[Old] = DefaultMode
  /\ want = [s \in Saves |-> DefaultMode]
  /\ data = [f \in Files |-> IF f = Old THEN "full" ELSE "empty"]
  /\ temps = {}
  /\ synced = {Old} /\ dpath = path /\ pending = {}
  /\ canSync \in BOOLEAN
  /\ stale = {} /\ crashes = 0

-----------------------------------------------------------------------------
(* The steps of one call.                                                  *)

Goto(s, label) == pc' = [pc EXCEPT ![s] = label]

\* newSaveOptions and checkWritable come first and touch no file.
Begin(s) ==
  /\ pc[s] = "idle"
  /\ \/ Goto(s, "stat")
     \/ Goto(s, "failed")
  /\ UNCHANGED <<want, path, temps, data, mode, disk, stale, crashes>>

\* The mode a call keeps: the path's when os.Stat finds a regular file.
ModeAt(entry) == IF entry \in Files THEN mode[entry] ELSE DefaultMode

Stat(s) ==
  /\ pc[s] = "stat"
  /\ IF path = Directory
     THEN Goto(s, "failed") /\ UNCHANGED want
     ELSE Goto(s, "create") /\ want' = [want EXCEPT ![s] = ModeAt(path)]
  /\ UNCHANGED <<path, temps, data, mode, disk, stale, crashes>>

\* Any error of os.Stat counts as "no such file", one that is there included.
StatFails(s) ==
  /\ pc[s] = "stat"
  /\ Goto(s, "create")
  /\ want' = [want EXCEPT ![s] = DefaultMode]
  /\ stale' = stale \cup {s}
  /\ UNCHANGED <<path, temps, data, mode, disk, crashes>>

\* A bug: the failed close is reported and the file forgotten.
BugAfterCreate == {"open", "failed"}
\* After CreateTemp the temporary file is closed; when that fails it is removed.
AfterCreate == {"open", "remove"}

CreateTemp(s) ==
  /\ pc[s] = "create"
  /\ \E next \in AfterCreate : Goto(s, next)
  /\ temps' = temps \cup {s}
  /\ UNCHANGED <<want, path, data, mode, disk, stale, crashes>>

CreateTempFails(s) ==
  /\ pc[s] = "create"
  /\ Goto(s, "failed")
  /\ UNCHANGED <<want, path, temps, data, mode, disk, stale, crashes>>

\* A bug: an existing file is overwritten in place.
BugOpened(s) == IF path \in Files THEN path ELSE s
\* The file writeHDF5 truncates and writes.
Opened(s) == s

\* hdf5.CreateForWrite opens the temporary name and the datasets follow.
OpenWriter(s) ==
  /\ pc[s] = "open"
  /\ Goto(s, "write")
  /\ data' = [data EXCEPT ![Opened(s)] = "torn"]
  /\ UNCHANGED <<want, path, temps, mode, disk, stale, crashes>>

\* The last dataset is written and the writer's Close succeeds.
CloseWriter(s) ==
  /\ pc[s] = "write"
  /\ Goto(s, "sync")
  /\ data' = [data EXCEPT ![Opened(s)] = "full"]
  /\ UNCHANGED <<want, path, temps, mode, disk, stale, crashes>>

\* A bug: the temporary file is not fsynced.
BugSynced(s) == {}
\* What syncFile(tmpName) has put on disk when it returns nil.
Synced(s) == {s}

SyncTemp(s) ==
  /\ pc[s] = "sync" /\ s \in temps
  /\ Goto(s, "chmod")
  /\ synced' = synced \cup Synced(s)
  /\ UNCHANGED <<want, path, temps, data, mode, dpath, pending, canSync,
                 stale, crashes>>

\* A bug: the chmod is forgotten.
BugGranted(s) == mode[s]
\* The permission bits os.Chmod gives the temporary file.
Granted(s) == want[s]

ChmodTemp(s) ==
  /\ pc[s] = "chmod" /\ s \in temps
  /\ Goto(s, "rename")
  /\ mode' = [mode EXCEPT ![s] = Granted(s)]
  /\ UNCHANGED <<want, path, temps, data, disk, stale, crashes>>

\* os.Rename replaces an absent path or a file, not a directory.  A call
\* that gives the path other bits than it had outdates what others saw.
Rename(s) ==
  /\ pc[s] = "rename" /\ s \in temps /\ path # Directory
  /\ Goto(s, "syncdir")
  /\ path' = s
  /\ temps' = temps \ {s}
  /\ pending' = pending \cup {s}
  /\ stale' = (IF s \in stale THEN stale \cup Undecided ELSE stale) \ {s}
  /\ UNCHANGED <<want, data, mode, synced, dpath, canSync, crashes>>

\* syncFile(dir), where the platform can do it, ...
SyncDir(s) ==
  /\ pc[s] = "syncdir" /\ canSync
  /\ Goto(s, "ok")
  /\ dpath' = path /\ pending' = {}
  /\ UNCHANGED <<want, path, temps, data, mode, synced, canSync, stale, crashes>>

\* A bug: every error of the directory's fsync is ignored.
BugTolerated == TRUE
\* syncUnsupported: the errors of a directory's fsync that Save ignores.
Tolerated == ~canSync

\* ... and where it cannot, which Save tolerates.
SyncDirUnsupported(s) ==
  /\ pc[s] = "syncdir" /\ Tolerated
  /\ Goto(s, "ok")
  /\ UNCHANGED <<want, path, temps, data, mode, disk, stale, crashes>>

\* A bug: a failed attempt is tried again.
BugOnError == "create"
\* Every error after CreateTemp runs the deferred os.Remove.
OnError == "remove"

Fail(s) ==
  /\ pc[s] \in {"open", "write", "sync", "chmod", "rename", "syncdir"}
  /\ Goto(s, OnError)
  /\ stale' = stale \ {s}
  /\ UNCHANGED <<want, path, temps, data, mode, disk, crashes>>

RemoveTemp(s) ==
  /\ pc[s] = "remove"
  /\ Goto(s, "failed")
  /\ temps' = temps \ {s}
  /\ UNCHANGED <<want, path, data, mode, disk, stale, crashes>>

\* An error of os.Remove is dropped.
RemoveFails(s) ==
  /\ pc[s] = "remove"
  /\ Goto(s, "left")
  /\ UNCHANGED <<want, path, temps, data, mode, disk, stale, crashes>>

Step(s) ==
  \/ Stat(s) \/ StatFails(s) \/ CreateTemp(s) \/ CreateTempFails(s)
  \/ OpenWriter(s) \/ CloseWriter(s) \/ SyncTemp(s) \/ ChmodTemp(s)
  \/ Rename(s) \/ SyncDir(s) \/ SyncDirUnsupported(s) \/ Fail(s)
  \/ RemoveTemp(s) \/ RemoveFails(s)

-----------------------------------------------------------------------------
(* The world around the calls.                                             *)

\* A call's process is killed: nothing it deferred runs.
Kill(s) ==
  /\ pc[s] \in Running
  /\ Goto(s, "killed")
  /\ stale' = stale \ {s}
  /\ UNCHANGED <<want, path, temps, data, mode, disk, crashes>>

\* A user changes the path's permission bits.
UserChmod(m) ==
  /\ path \in Files
  /\ m # mode[path]
  /\ mode' = [mode EXCEPT ![path] = m]
  /\ stale' = stale \cup Undecided
  /\ UNCHANGED <<pc, want, path, temps, data, disk, crashes>>

\* The machine crashes: every running call dies, the path is what the last
\* sync or any rename since made it, data that was not fsynced may be torn,
\* permission bits (never fsynced after a chmod) may be back at TempMode, and
\* a temporary name may be there or not.
Crash ==
  /\ crashes < MaxCrashes
  /\ crashes' = crashes + 1
  /\ pc' = [s \in Saves |-> IF pc[s] \in Running THEN "killed" ELSE pc[s]]
  /\ path' \in {dpath} \cup pending
  /\ temps' \in SUBSET (temps \cup pending)
  /\ \E lost \in SUBSET (Files \ synced) :
       data' = [f \in Files |-> IF f \in lost THEN "torn" ELSE data[f]]
  /\ \E reset \in SUBSET Saves :
       mode' = [f \in Files |-> IF f \in reset THEN TempMode ELSE mode[f]]
  /\ dpath' = path' /\ pending' = {} /\ stale' = {}
  /\ UNCHANGED <<want, synced, canSync>>

Next ==
  \/ \E s \in Saves : Begin(s) \/ Step(s) \/ Kill(s)
  \/ \E m \in Modes : UserChmod(m)
  \/ Crash

\* A call that has begun is not left waiting: no step of it blocks.
Fairness == \A s \in Saves : WF_vars(Step(s))

Spec == Init /\ [][Next]_vars /\ Fairness

-----------------------------------------------------------------------------
(* Properties.                                                             *)

TypeOK ==
  /\ pc \in [Saves -> {"idle"} \cup Running \cup Ended]
  /\ want \in [Saves -> Modes]
  /\ path \in Files \cup {None, Directory}
  /\ temps \subseteq Saves
  /\ data \in [Files -> Contents]
  /\ mode \in [Files -> Modes]
  /\ synced \subseteq Files
  /\ dpath \in Files \cup {None, Directory}
  /\ pending \subseteq Saves
  /\ canSync \in BOOLEAN
  /\ stale \subseteq Saves
  /\ crashes \in Nat

\* "Save is atomic" (sofa_io.go:58): whoever opens the path, at any moment
\* and after any crash, finds a complete file, if there is one.
AtomicPath == path \in Files => data[path] = "full"

\* A Save that returned nil cannot be undone by a crash: its rename, or that
\* of a later Save, is on disk (the purpose of sofa_io.go:153-157).
SuccessIsDurable ==
  canSync => \A s \in Saves : pc[s] = "ok" => s \notin pending

\* "If path already exists its permission bits are kept" (sofa_io.go:61):
\* when the path's bits did not change under the call and its Stat worked,
\* the file it renames over the path has the bits of the one it replaces, or
\* 0644 when there was none, whatever other calls did in between.
ModeKept ==
  [][\A s \in Saves :
       (pc[s] = "rename" /\ pc'[s] = "syncdir" /\ s \notin stale)
         => mode'[path'] = ModeAt(path)]_vars

\* "A failed Save ... removes the temporary file", and so does one that
\* succeeds: short of a crash, a kill or a failing os.Remove nothing is left
\* beside the path.
NoLitter ==
  crashes = 0 => \A s \in Saves : pc[s] \in {"ok", "failed"} => s \notin temps

\* A reader that holds the path's file open is never surprised: what a file
\* holds does not change once it is at the path, crashes included.
PublishedNeverChanges ==
  [][\A f \in Files : path = f => data'[f] = data[f]]_vars

\* Every Save that begins returns, unless it is killed.
EverySaveEnds ==
  \A s \in Saves : pc[s] = "stat" ~> pc[s] \in Ended

\* "A failed Save leaves any existing file at path untouched" (sofa_io.go:59).
\* Not so: the fsync of the directory can fail after the rename.
FailedLeavesPath == \A s \in Saves : pc[s] \in {"failed", "left"} => path # s

-----------------------------------------------------------------------------
(* Why the properties hold: an inductive invariant, part by part.          *)

\* A file whose data can no longer change, nor be lost in a crash.
Sealed(f) == f \in synced /\ data[f] = "full"

\* Every file that is at the path, or that a crash may put there, is sealed.
NamedAreSealed ==
  /\ Sealed(Old)
  /\ path \in Files => Sealed(path)
  /\ dpath \in Files => Sealed(dpath)
  /\ \A s \in pending : Sealed(s)

\* How far a call has come says what is on its temporary file, and that the
\* path does not name it while it can still be written to.
Progress ==
  \A s \in Saves :
    /\ pc[s] = "sync" => data[s] = "full"
    /\ pc[s] \in {"chmod", "rename"} => Sealed(s)
    /\ pc[s] \in {"idle", "stat", "create", "open", "write", "sync", "chmod", "rename"}
         => s # path /\ s # dpath /\ s \notin pending

\* The bits a call will give the path are those it has, unless outdated.
WantIsCurrent ==
  \A s \in Undecided \ stale :
    /\ want[s] = ModeAt(path)
    /\ pc[s] = "rename" => mode[s] = want[s]

\* Who has a temporary name, as long as the machine has not crashed.
NamesInUse ==
  crashes = 0 =>
    \A s \in Saves :
      pc[s] \in {"idle", "stat", "create", "syncdir", "ok", "failed"} => s \notin temps

IInv == TypeOK /\ NamedAreSealed /\ Progress /\ WantIsCurrent /\ NamesInUse
          /\ SuccessIsDurable

-----------------------------------------------------------------------------
(* Save implements what it promises.                                       *)

\* What a reader finds at an entry of the directory.
Seen(entry) == IF entry \in Files /\ data[entry] # "full" THEN "torn" ELSE entry

\* What a reader is sure to find there after a crash.
SeenOnDisk(entry) ==
  IF entry \in Files \ synced THEN "torn" ELSE Seen(entry)

\* Where a call stands, as its caller and its readers can tell.
Stage(s) ==
  IF pc[s] = "idle" THEN "none"
  ELSE IF pc[s] = "syncdir" THEN "published"
  ELSE IF pc[s] = "remove" THEN "failing"
  ELSE IF pc[s] = "left" THEN "failed"
  ELSE IF pc[s] \in Ended THEN pc[s]
  ELSE "working"

Promise == INSTANCE PublishedFile WITH
  Calls <- Saves,
  Others <- {Old, None, Directory},
  file <- Seen(path),
  persistent <- canSync,
  kept <- SeenOnDisk(dpath),
  recent <- {SeenOnDisk(s) : s \in pending},
  result <- [s \in Saves |-> Stage(s)]

\* Save replaces the path in one step or not at all, what a reader finds
\* there is never torn, and no crash takes back what a call reported done.
ImplementsPromise == Promise!Spec
=============================================================================
