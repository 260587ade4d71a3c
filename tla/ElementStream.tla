--------------------------- MODULE ElementStream ---------------------------
(***************************************************************************)
(* What the XML parser promises to the decoder of a model file: OnStart    *)
(* and OnEnd are called for elements that nest, each end with the name of  *)
(* the start it belongs to; the input ends without error only when all     *)
(* elements are closed; and no event follows an error.                     *)
(***************************************************************************)
EXTENDS Sequences, SequencesExt

CONSTANT Names

VARIABLES
  nesting,  \* the names of the open elements, innermost last
  status,   \* "none", or what ended the stream: "syntax" or "EOF"
  last      \* the last event

vars == <<nesting, status, last>>

Event(op, name) == [op |-> op, name |-> name]

Init ==
  /\ nesting = <<>>
  /\ status = "none"
  /\ last.op = "none"

OnStart(name) ==
  /\ status = "none"
  /\ nesting' = Append(nesting, name)
  /\ last' = Event("start", name)
  /\ UNCHANGED status

OnEnd ==
  /\ status = "none" /\ nesting # <<>>
  /\ nesting' = Front(nesting)
  /\ last' = Event("end", Last(nesting))
  /\ UNCHANGED status

End ==
  /\ status = "none" /\ nesting = <<>>
  /\ status' = "EOF"
  /\ UNCHANGED <<nesting, last>>

(* Nothing is promised about the open elements after an error.             *)
Fail ==
  /\ status = "none"
  /\ status' = "syntax"
  /\ UNCHANGED last

Next == (\E name \in Names : OnStart(name)) \/ OnEnd \/ End \/ Fail

Spec == Init /\ [][Next]_vars
=============================================================================
