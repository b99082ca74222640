------------------------------- MODULE MCTimer -------------------------------
EXTENDS TimerQueue, TLC

CONSTANTS a, b, c

\* Processes differ in nothing but their names.
Symmetry == Permutations(Proc)
=============================================================================
