---------------------------- MODULE ByteChannel ----------------------------
(***************************************************************************)
(* What a transputer link promises to the processes at its two ends: in    *)
(* each direction a channel that moves the bytes of a message one by one,  *)
(* in order, each exactly once, only while the receiving process wants     *)
(* bytes, and that lets the sending process go on only when the last byte  *)
(* of its message has been taken.  Nothing is said of packets, FIFOs,      *)
(* acknowledgements or stored bytes.                                       *)
(***************************************************************************)
EXTENDS Naturals, Sequences

CONSTANTS
  End,        \* the ends of the links
  Peer,       \* the end wired to an end
  Message,    \* the messages a process may send
  Length      \* the lengths a process may ask for

VARIABLES
  offered,    \* offered[n]: the bytes of n's message not yet taken
  sending,    \* sending[n]: the process sending at n has not been released
  wanted,     \* wanted[n]:  how many bytes the process at n still wants
  taken       \* taken[n]:   every byte delivered at n so far

vars == <<offered, sending, wanted, taken>>

Init ==
  /\ offered = [n \in End |-> <<>>]
  /\ sending = [n \in End |-> FALSE]
  /\ wanted  = [n \in End |-> 0]
  /\ taken   = [n \in End |-> <<>>]

\* A process starts to send a message.
Offer(n) ==
  /\ ~sending[n]
  /\ \E m \in Message : offered' = [offered EXCEPT ![n] = m]
  /\ sending' = [sending EXCEPT ![n] = TRUE]
  /\ UNCHANGED <<wanted, taken>>

\* A process starts to receive.
Want(n) ==
  /\ wanted[n] = 0
  /\ \E k \in Length : wanted' = [wanted EXCEPT ![n] = k]
  /\ UNCHANGED <<offered, sending, taken>>

\* One byte moves from the sending to the receiving process.
Move(n) ==
  LET m == Peer[n] IN
  /\ offered[n] # <<>>
  /\ wanted[m] > 0
  /\ taken'   = [taken EXCEPT ![m] = Append(@, Head(offered[n]))]
  /\ offered' = [offered EXCEPT ![n] = Tail(@)]
  /\ wanted'  = [wanted EXCEPT ![m] = @ - 1]
  /\ UNCHANGED sending

\* The sending process is released: all of its message has been taken.
Release(n) ==
  /\ sending[n]
  /\ offered[n] = <<>>
  /\ sending' = [sending EXCEPT ![n] = FALSE]
  /\ UNCHANGED <<offered, wanted, taken>>

Next == \E n \in End : Offer(n) \/ Want(n) \/ Move(n) \/ Release(n)

Spec == Init /\ [][Next]_vars
=============================================================================
