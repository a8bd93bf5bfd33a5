----------------------------- MODULE MCTexEngine -----------------------------
(* Small instances of TexEngine for TLC: two files, short programs. *)
EXTENDS TexEngine

CONSTANTS a, b

See(f, n) == [op |-> "read", file |-> f, arg |-> n]
Open(f) == [op |-> "open", file |-> f, arg |-> 0]
Shut(f) == [op |-> "close", file |-> f, arg |-> 0]
Create(f) == [op |-> "create", file |-> f, arg |-> 0]
Copy(f, g) == [op |-> "append", file |-> g, arg |-> f]

(* A document that inputs another one halfway. *)
Inputs == <<Open(a), See(a, 1), Open(b), See(b, 3), Shut(b), See(a, 5)>>

(* A file read twice: further the second time. *)
Again == <<Open(a), See(a, 2), Shut(a), Open(b), See(b, 3), Open(a), See(a, 5)>>

(* A file read ahead while another one is read. *)
ReadAhead == <<Open(a), Open(b), See(b, 1), See(a, 5), See(b, 4)>>

(* Two files read in turns: two SEEN messages may be pending. *)
InTurns == <<Open(a), Open(b), See(a, 1), See(b, 1), See(a, 3), See(b, 3), See(a, 4)>>

(* An auxiliary file, read at the beginning and written at the end. *)
Aux == <<Open(b), See(b, 2), Open(a), See(a, 2), Create(b), Copy(a, b), See(a, 4)>>

(* A document that ends before its file does. *)
Stops == <<Open(a), See(a, 1)>>

(* A picture shown twice. *)
Pictures ==
  <<Open(a), See(a, 1)>> \o FindPicture(b, 1) \o <<See(a, 3)>> \o FindPicture(b, 1) \o <<See(a, 5)>>

(* The document looks whether the picture exists before it shows it. *)
CheckedPicture ==
  <<Open(a), See(a, 1), Open(b), Shut(b), See(a, 3)>> \o FindPicture(b, 1) \o <<See(a, 5)>>

MCChecked == {CheckedPicture}
MCPrograms == {Inputs, ReadAhead}
MCEditing == {Inputs, ReadAhead, Again, Stops}
MCInTurns == {InTurns}
MCAux == {Aux}
MCStops == {Stops}
MCAll == {Inputs, ReadAhead, Aux, Pictures}

MCDisk == [f \in Entries |-> IF f = a THEN <<1, 1, 1, 1>> ELSE <<1, 1>>]
MCAwaited == [f \in Entries |-> IF f = a THEN Null ELSE <<1, 1>>]

(* Changes near the beginning and near the end. *)
MCNewContents ==
  [f \in Entries |-> IF f = a THEN {<<1, 1, 2>>, <<2, 2>>} ELSE {<<2>>, <<1, 1, 1>>}]
=============================================================================
