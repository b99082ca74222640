------------------------------- MODULE Cables -------------------------------
(***************************************************************************)
(* What the host, the link adapter and the picoputer share.                *)
(*                                                                         *)
(*   host  -- toAdapter -->  adapter  -- down -->  picoputer               *)
(*   host  <--  toHost  --   adapter  <--  up  --  picoputer               *)
(*                                                                         *)
(* The serial line carries lines of text: "^^&" is an acknowledgement      *)
(* (Ack), "^XX&" a number in hexadecimal.  A packet is the sequence of     *)
(* the numbers in it, none or one.                                         *)
(* A byte on the link stays in down or up until the other end takes it,    *)
(* which is the moment its ACK is sent: the byte protocol below that is    *)
(* module Link, which implements ByteChannel.                              *)
(***************************************************************************)
EXTENDS Integers, Sequences, FiniteSets

CONSTANT
  NoByte      \* no byte on the link

ASSUME NoByteAssumption == NoByte \notin 0..255

Ack == <<>>
Number(n) == <<n>>
IsData(packet) == packet # Ack

VARIABLES
  toAdapter,  \* packets the host has written and the adapter has not read
  toHost,     \* packets the adapter has written and the host has not read
  down,       \* the byte on the link to the picoputer, or NoByte
  up          \* the byte on the link from the picoputer, or NoByte

cables == <<toAdapter, toHost, down, up>>

CablesInit ==
  /\ toAdapter = <<>>
  /\ toHost = <<>>
  /\ down = NoByte
  /\ up = NoByte
=============================================================================
