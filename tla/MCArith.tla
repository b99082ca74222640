------------------------------ MODULE MCArith ------------------------------
EXTENDS EvalStack

Powers == [n \in 0 .. 2 * Width |-> 2^n]
=============================================================================
