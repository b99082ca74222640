------------------------------- MODULE MCWire -------------------------------
(* One direction of a link, with the bytes that have one bit set, one bit  *)
(* clear, none or all.                                                     *)
EXTENDS LinkWire

MCByte == {0, 255} \cup {2^k : k \in 0..7} \cup {255 - 2^k : k \in 0..7}
MCAck  == 256

MCLine(s, r, packets) == [sender |-> s, receiver |-> r, packets |-> packets]

\* A picoputer and a link adapter.
WithAdapter ==
  {MCLine("picoputer", "C011", MCByte), MCLine("C011", "picoputer", MCByte \cup {MCAck})}
=============================================================================
