----------------------------- MODULE MCScheduler -----------------------------
EXTENDS Scheduler, TLC

CONSTANTS m, a, b, g, h, c1, c2, c3, lin, lout

\* Nobody is a branch of a PAR, and nobody uses the link.
NoParent == [p \in Proc |-> NoProc]
NoUser   == <<>>

\* Two branches of a PAR of the booted process talk to it.
ParParent == [p \in Proc |-> IF p \in {a, b} THEN m ELSE NoProc]
ParReader == (c1 :> m) @@ (c2 :> m)
ParWriter == (c1 :> a) @@ (c2 :> b)

\* The booted process inputs from one process of each priority, and outputs
\* to the one of high priority.
PriReader == (c1 :> m) @@ (c2 :> h) @@ (c3 :> m)
PriWriter == (c1 :> h) @@ (c2 :> m) @@ (c3 :> a)
PriUser   == (lin :> h) @@ (lout :> h)

\* A channel between two processes of high priority.
HiReader == (c1 :> g)
HiWriter == (c1 :> h)

\* Two processes of low priority have the link.
LoUser   == (lin :> a) @@ (lout :> b)
=============================================================================
