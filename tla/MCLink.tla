------------------------------- MODULE MCLink -------------------------------
(* One picoputer wired to one link adapter.                                *)
EXTENDS Link, TLC

CONSTANTS p, a

MCPeer == (p :> a) @@ (a :> p)

\* Bounds: the bytes each end sends.
ThreeEach   == (p :> 3) @@ (a :> 3)
TwoAndThree == (p :> 2) @@ (a :> 3)
=============================================================================
