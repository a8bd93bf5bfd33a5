---------------------------- MODULE MCWorkerIO ----------------------------
(* Two inputs of which one may lose its last byte, two handles, an output  *)
(* and stdout, ids in one cell of three bits, one of them beyond an int.   *)
EXTENDS WorkerIO

CONSTANTS tex, aux, x, y

HandleSymmetry == Permutations(Handles)

MCContents == (tex :> <<x, x, y>>) @@ (aux :> <<x>>)
MCVersions == (tex :> {<<x, x>>}) @@ (aux :> {})
===========================================================================
