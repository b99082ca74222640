------------------------------- MODULE SpCall -------------------------------
(***************************************************************************)
(* What the host promises to the program: a call.  A request is served     *)
(* exactly once, as a whole, on the streams and files of the host, and     *)
(* what is returned is the answer, as far as the length goes that it       *)
(* begins with.  Nothing is said of bytes on their way, ACKs, packets,     *)
(* pins or loops.                                                          *)
(***************************************************************************)
EXTENDS SpProtocol

VARIABLES
  phase,      \* "idle", "called" or "served"
  asked,      \* the request
  returned    \* what the last call returned

callVars == <<spVars, phase, asked, returned>>

Init ==
  /\ SpInit
  /\ phase = "idle"
  /\ asked = <<>>
  /\ returned = <<>>

DoCall ==
  /\ phase = "idle"
  /\ asked' \in Seq(0..255)
  /\ phase' = "called"
  /\ UNCHANGED <<spVars, returned>>

DoServe ==
  /\ phase = "called"
  /\ hostUp
  /\ Serve(asked)
  /\ phase' = "served"
  /\ UNCHANGED <<asked, returned>>

DoReturn ==
  /\ phase = "served"
  /\ Len(answer) > 1
  /\ Len(answer) >= Short(answer, 1) + 2
  /\ returned' = SubSeq(answer, 1, Short(answer, 1) + 2)
  /\ phase' = "idle"
  /\ UNCHANGED <<spVars, asked>>

Next == DoCall \/ DoServe \/ DoReturn

Spec == Init /\ [][Next]_callVars
=============================================================================
