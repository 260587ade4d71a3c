--------------------------- MODULE DecodeContract ---------------------------
(***************************************************************************)
(* What Decoder.DecodeContext promises, without its goroutines: a call     *)
(* ends either with all the content of a sound package, or with an error   *)
(* that an unsound package, or a cancellation, explains.                   *)
(***************************************************************************)
VARIABLES
  sound,        \* the package can be decoded: given by the package
  whole,        \* all that it holds: given by the package
  interrupted,  \* the caller cancelled the context
  status,       \* "pending", "ok" (nil error) or "failed"
  content       \* what the model holds for a caller that was told "ok"

vars == <<sound, whole, interrupted, status, content>>

Init ==
  /\ status = "pending"
  /\ interrupted = FALSE
  /\ content = <<>>

Interrupt ==
  /\ status = "pending"
  /\ ~interrupted
  /\ interrupted' = TRUE
  /\ UNCHANGED <<sound, whole, status, content>>

Succeed ==
  /\ status = "pending"
  /\ sound
  /\ status' = "ok"
  /\ content' = whole
  /\ UNCHANGED <<sound, whole, interrupted>>

Fail ==
  /\ status = "pending"
  /\ ~sound \/ interrupted
  /\ status' = "failed"
  /\ UNCHANGED <<sound, whole, interrupted, content>>

NewCall ==
  /\ status # "pending"
  /\ status' = "pending"
  /\ interrupted' = FALSE
  /\ content' = <<>>
  /\ UNCHANGED <<sound, whole>>

Next == Interrupt \/ Succeed \/ Fail \/ NewCall

Ends == status = "pending" ~> status # "pending"

Spec == Init /\ [][Next]_vars /\ Ends
=============================================================================
