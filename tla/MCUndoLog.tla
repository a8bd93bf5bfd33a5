------------------------------ MODULE MCUndoLog ------------------------------
(* A small instance of UndoLog for TLC.  Entries and buffers are           *)
(* interchangeable, and every property is a safety property: the symmetry  *)
(* is sound.                                                               *)
EXTENDS UndoLog, TLC

Symmetry == Permutations(Entries) \cup Permutations(Buffers)
==============================================================================
