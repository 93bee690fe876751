--------------------------- MODULE PublishedFile ---------------------------
(***************************************************************************)
(* What Save promises (the doc comment of File.Save, sofa_io.go:54-62), as *)
(* a reader of the path and the caller see it: a call replaces the file at *)
(* the path in one step or not at all, and once it has returned nil no     *)
(* crash takes that back, where the platform can sync a directory.         *)
(***************************************************************************)
CONSTANTS Calls,  \* the Save calls, which stand for what they write
          Others  \* what else the path may name at first

VARIABLES file,       \* what the path names
          kept,       \* what it named when it was last made persistent
          recent,     \* the calls whose files it has named since
          result,     \* where each call stands
          persistent  \* returning nil makes the file outlast a crash

Underway == {"working", "published", "failing"}

promise == <<file, kept, recent, result, persistent>>

Init ==
  /\ file \in Others
  /\ kept = file /\ recent = {}
  /\ result = [c \in Calls |-> "none"]
  /\ persistent \in BOOLEAN

Return(c, r) == result' = [result EXCEPT ![c] = r]

Start(c) ==
  /\ result[c] = "none"
  /\ Return(c, "working") \/ Return(c, "failed")
  /\ UNCHANGED <<file, kept, recent, persistent>>

Publish(c) ==
  /\ result[c] = "working"
  /\ Return(c, "published")
  /\ file' = c
  /\ recent' = recent \cup {c}
  /\ UNCHANGED <<kept, persistent>>

Succeed(c) ==
  /\ result[c] = "published"
  /\ Return(c, "ok")
  /\ IF persistent THEN kept' = file /\ recent' = {}
                   ELSE UNCHANGED <<kept, recent>>
  /\ UNCHANGED <<file, persistent>>

\* A call may fail before it has published its file, or after, and has
\* something left to clean up, or nothing.
GiveUp(c) ==
  /\ \/ result[c] \in {"working", "published"} /\ Return(c, "failing")
     \/ result[c] \in {"working", "failing"} /\ Return(c, "failed")
  /\ UNCHANGED <<file, kept, recent, persistent>>

Kill(c) ==
  /\ result[c] \in Underway
  /\ Return(c, "killed")
  /\ UNCHANGED <<file, kept, recent, persistent>>

Crash ==
  /\ result' = [c \in Calls |-> IF result[c] \in Underway
                                THEN "killed" ELSE result[c]]
  /\ file' \in {kept} \cup recent
  /\ kept' = file' /\ recent' = {}
  /\ UNCHANGED persistent

Next == Crash \/ \E c \in Calls : \/ Start(c) \/ Publish(c) \/ Succeed(c)
                                  \/ GiveUp(c) \/ Kill(c)

Spec ==
  /\ Init /\ [][Next]_promise
  /\ \A c \in Calls : WF_promise(Publish(c) \/ Succeed(c) \/ GiveUp(c))
=============================================================================
