------------------------------ MODULE MCPosition ------------------------------
(* Instances of Position for TLC. *)
EXTENDS Position

\* In steps of ten pips, forex trails before it breaks even, and a position without a
\* target; in steps of a hundred, gold breaks even before it trails.
SomeOrders ==
  {[stop |-> -3, target |-> 6, activation |-> 2, breakEven |-> 0, floor |-> 3],
   [stop |-> -2, target |-> 0, activation |-> 5, breakEven |-> 3, floor |-> 0]}
Levels == -3..6
================================================================================
