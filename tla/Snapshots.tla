------------------------------ MODULE Snapshots ------------------------------
(***************************************************************************)
(* What the undo log of the driver promises (src/src/frontend/state.h): a  *)
(* mutable map from objects to values and a stack of checkpoints, each a   *)
(* full copy of the map at the time it was taken.  The driver never copies *)
(* anything: UndoLog is the implementation, and refines this module.       *)
(***************************************************************************)
EXTENDS Naturals, Sequences

CONSTANT Objects

VARIABLES
  cur,     \* [Objects -> values]: the state the worker has produced so far
  copies   \* stack of copies of cur; the first one is the restart point

vars == <<cur, copies>>

Init == copies = <<cur>>

(* One object takes any value. *)
Write(o) ==
  /\ cur' = [cur EXCEPT ![o] = cur'[o]]
  /\ UNCHANGED copies

(* log_snapshot: remember the current state. *)
Save ==
  /\ copies' = Append(copies, cur)
  /\ UNCHANGED cur

(* log_rollback to the most recent checkpoint, which is consumed unless it *)
(* is the restart point.                                                   *)
Restore ==
  /\ cur' = copies[Len(copies)]
  /\ copies' = IF Len(copies) = 1 THEN copies
                                  ELSE SubSeq(copies, 1, Len(copies) - 1)

(* A checkpoint other than the restart point is given up. *)
Forget(k) ==
  /\ k \in 2..Len(copies)
  /\ copies' = SubSeq(copies, 1, k - 1) \o SubSeq(copies, k + 1, Len(copies))
  /\ UNCHANGED cur

Next ==
  \/ \E o \in Objects : Write(o)
  \/ Save
  \/ Restore
  \/ \E k \in DOMAIN copies : Forget(k)

Spec == Init /\ [][Next]_vars
==============================================================================
