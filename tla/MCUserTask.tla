----------------------------- MODULE MCUserTask -----------------------------
(* Small instances of UserTask for TLC. *)
EXTENDS UserTask

\* Ticks of each level, lowest first: 50, 25 and 10 ms scaled down.
MCQuantum == [l \in Levels |-> 3 - l]
=============================================================================
