------------------------------- MODULE MCFFLDB -------------------------------
(* Instances of FFLDB with two blocks whose records differ in length.       *)
EXTENDS FFLDB

CONSTANTS b1, b2

MCBlocks == {b1, b2}

\* Two records never fit a file of 4 units: a transaction that stores both
\* blocks moves to the next file.
LongRecLen == [b \in Blocks |-> IF b = b1 THEN 2 ELSE 3]

=============================================================================
