----------------------------- MODULE SharedFile -----------------------------
(***************************************************************************)
(* What a File from OpenLazy promises to those who share it (the doc       *)
(* comments of OpenLazy, Close and the Range functions, sofa_stream.go):   *)
(* each delivery of a measurement and each Close happens at one moment,    *)
(* deliveries while the File is open only; a Range function that returns   *)
(* nil has handed over every measurement once; fs.ErrClosed is returned    *)
(* when the File is closed and only then; and no call of Close but the one *)
(* that closes can fail.                                                   *)
(***************************************************************************)
EXTENDS Naturals

CONSTANTS Goroutines,
          Stored  \* the number of measurements

VARIABLES life,    \* of the File: "opening", "none" if it is not lazy or
                   \* could not be opened, else "open", then "closed"
          doing,   \* what each goroutine's call is: "read" or "range", "fn"
                   \* while a range's callback runs, "close", "closed it"
          served,  \* how many measurements its range has handed over
          result   \* what its last call returned

promise == <<life, doing, served, result>>

Init ==
  /\ life = "opening"
  /\ doing = [g \in Goroutines |-> "nothing"]
  /\ served = [g \in Goroutines |-> 0]
  /\ result = [g \in Goroutines |-> "none"]

Give ==
  /\ life = "opening"
  /\ life' \in {"open", "none"}
  /\ UNCHANGED <<doing, served, result>>

Do(g, what) == doing' = [doing EXCEPT ![g] = what]

Return(g, r) ==
  /\ Do(g, "nothing")
  /\ served' = [served EXCEPT ![g] = 0]
  /\ result' = [result EXCEPT ![g] = r]

Begin(g) ==
  /\ life \in {"open", "closed"} /\ doing[g] = "nothing"
  /\ Do(g, "read") \/ Do(g, "range") \/ Do(g, "close")
  /\ result' = [result EXCEPT ![g] = "none"]
  /\ UNCHANGED <<life, served>>

\* A measurement is delivered, to the caller or to fn.
Deliver(g) ==
  /\ life = "open"
  /\ \/ doing[g] = "read" /\ Return(g, "ok")
     \/ /\ doing[g] = "range" /\ Do(g, "fn")
        /\ served' = [served EXCEPT ![g] = @ + 1]
        /\ UNCHANGED result
  /\ UNCHANGED life

\* A call may be one that the File cannot answer, and reading may fail.
Fail(g) ==
  /\ doing[g] \in {"read", "range"}
  /\ \/ Return(g, "type") \/ Return(g, "range")
     \/ life = "open" /\ Return(g, "io")
     \/ life = "closed" /\ Return(g, "closed")
  /\ UNCHANGED life

\* fn returns an error, or nil: the range goes on until nothing is left.
FnReturns(g) ==
  /\ doing[g] = "fn"
  /\ \/ Return(g, "callback")
     \/ served[g] = Stored /\ Return(g, "ok")
     \/ served[g] # Stored /\ Do(g, "range") /\ UNCHANGED <<served, result>>
  /\ UNCHANGED life

\* A call of Close closes the File, or fn does, which goes on.
CloseIt(g) ==
  /\ life = "open" /\ life' = "closed"
  /\ \/ doing[g] = "close" /\ Do(g, "closed it")
     \/ doing[g] = "fn" /\ UNCHANGED doing
  /\ UNCHANGED <<served, result>>

CloseReturns(g) ==
  /\ \/ doing[g] = "close" /\ life = "closed" /\ Return(g, "ok")
     \/ doing[g] = "closed it" /\ (Return(g, "ok") \/ Return(g, "io"))
  /\ UNCHANGED life

Next ==
  Give \/ \E g \in Goroutines : \/ Begin(g) \/ Deliver(g) \/ Fail(g)
                                \/ FnReturns(g) \/ CloseIt(g) \/ CloseReturns(g)

Spec == Init /\ [][Next]_promise
=============================================================================
