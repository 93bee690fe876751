------------------------------ MODULE OpenFile ------------------------------
(***************************************************************************)
(* Open, OpenReader, OpenLazy and OpenLazyReader (sofa_io.go, sofa.go):    *)
(* who opens and who closes the operating system's file and the HDF5       *)
(* handle above it, when any step may fail.  What is read is left out.     *)
(***************************************************************************)
VARIABLES lazy,   \* OpenLazy or OpenLazyReader was called
          own,    \* Open or OpenLazy was: the file is opened here
          step,   \* where the call stands
          err,    \* an error is on its way to the caller
          unshut, \* ghost: a Close has reported an error
          got,    \* what the caller has: "nothing" yet, "error", "file"
          handle, osfile

call == <<lazy, own, step, err, unshut, got>>
vars == <<call, handle, osfile>>

Shut(resource) == IF resource = "open" THEN "closed" ELSE "twice"

Init ==
  /\ lazy \in BOOLEAN /\ own \in BOOLEAN
  /\ step = (IF own THEN "open" ELSE "hdf5")
  /\ err = FALSE /\ unshut = FALSE
  /\ got = "nothing"
  /\ handle = "none" /\ osfile = "none"

Return(what) == step' = "returned" /\ got' = what

\* os.Open.
OpenOSFile ==
  /\ step = "open"
  /\ \/ step' = "stat" /\ osfile' = "open" /\ UNCHANGED got
     \/ Return("error") /\ UNCHANGED osfile
  /\ UNCHANGED <<lazy, own, err, unshut, handle>>

\* osf.Stat; the file is closed when it fails.
StatOSFile ==
  /\ step = "stat"
  /\ \/ step' = "hdf5" /\ UNCHANGED <<osfile, unshut, got>>
     \/ /\ osfile' = Shut(osfile)
        /\ unshut' \in BOOLEAN
        /\ Return("error")
  /\ UNCHANGED <<lazy, own, err, handle>>

\* A bug: the file is closed for OpenReader, too.
BugAfterReader == "osfile"
\* After openReader: open looks at the file it opened, OpenReader has none.
AfterReader == IF own THEN "osfile" ELSE "returning"

\* hdf5.OpenReader.
OpenHDF5 ==
  /\ step = "hdf5"
  /\ \/ step' = "read" /\ handle' = "open" /\ UNCHANGED err
     \/ step' = AfterReader /\ err' = TRUE /\ UNCHANGED handle
  /\ UNCHANGED <<lazy, own, unshut, got, osfile>>

\* read: attributes, dimensions, audio, positions, extras.
Read ==
  /\ step = "read"
  /\ step' = "handle"
  /\ err' \in BOOLEAN
  /\ UNCHANGED <<lazy, own, unshut, got, handle, osfile>>

\* A bug: a lazy read that fails forgets the handle.
BugKeepsHandle == lazy
\* The handle stays open for a lazy File, unless reading it failed.
KeepsHandle == lazy /\ ~err

\* read's deferred h.Close, an error of which takes the File away.
CloseHandle ==
  /\ step = "handle"
  /\ step' = AfterReader
  /\ IF KeepsHandle
     THEN UNCHANGED <<handle, err, unshut>>
     ELSE /\ handle' = Shut(handle)
          /\ \E failed \in BOOLEAN : /\ err' = (err \/ failed)
                                     /\ unshut' = (unshut \/ failed)
  /\ UNCHANGED <<lazy, own, got, osfile>>

\* A bug: the error of closing the file is dropped.
BugAfterShut(failed) == err
\* An error of osf.Close takes the File away, too.
AfterShut(failed) == err \/ failed

\* open closes its file unless it goes to a lazy File.
CloseOSFile ==
  /\ step = "osfile"
  /\ step' = "returning"
  /\ IF err \/ ~lazy
     THEN /\ osfile' = Shut(osfile)
          /\ \E failed \in BOOLEAN : /\ err' = AfterShut(failed)
                                     /\ unshut' = (unshut \/ failed)
     ELSE UNCHANGED <<osfile, err, unshut>>
  /\ UNCHANGED <<lazy, own, got, handle>>

GiveFile ==
  /\ step = "returning"
  /\ Return(IF err THEN "error" ELSE "file")
  /\ UNCHANGED <<lazy, own, err, unshut, handle, osfile>>

Next == \/ OpenOSFile \/ StatOSFile \/ OpenHDF5 \/ Read \/ CloseHandle
        \/ CloseOSFile \/ GiveFile

Fairness == WF_vars(Next)

Spec == Init /\ [][Next]_vars /\ Fairness
=============================================================================
