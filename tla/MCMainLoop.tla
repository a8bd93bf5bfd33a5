----------------------------- MODULE MCMainLoop -----------------------------
(* Small instances of MainLoop for TLC: what the editor sends. *)
EXTENDS MainLoop

Sends(commands, most) == [commands |-> commands, most |-> most]

MCEditors ==
  {Sends({"change", "long change", "next page"}, 3),
   Sends({"change", "rescan", "forward"}, 2),
   Sends({"change", "rerun"}, 3),
   Sends({"rerun once", "change"}, 1)}
MCEdits == {Sends({"change", "next page"}, 3)}
MCOnDemand == {Sends({"rescan", "rerun once"}, 2)}
=============================================================================
