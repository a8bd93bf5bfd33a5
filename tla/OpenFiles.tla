------------------------------ MODULE OpenFiles ------------------------------
(***************************************************************************)
(* What TeX is promised by its input layer: files are open at a position,  *)
(* reading returns what the file holds there and moves the position, and   *)
(* a file may change under a program that reads it only where the program  *)
(* has not looked.  There are no buffers, no messages, and no forks: the   *)
(* worker (WorkerIO) has all of them, and refines this module.             *)
(***************************************************************************)
EXTENDS Integers, Sequences

CONSTANTS Files, Handles, Data, Closed, Eof

VARIABLES
  content,   \* [Files -> Seq(Data)]
  at,        \* [Handles -> Closed, or the file and the position]
  jumped,    \* handles that were moved by a seek
  viewed     \* [Files -> what the program knows, position by position]

vars == <<content, at, jumped, viewed>>

Byte(f, p) == IF p < Len(content[f]) THEN content[f][p + 1] ELSE Eof

Views(f, ps) == [p \in DOMAIN viewed[f] \cup ps |-> IF p \in ps THEN Byte(f, p) ELSE viewed[f][p]]

Init ==
  /\ at = [h \in Handles |-> Closed]
  /\ jumped = {}
  /\ viewed = [f \in Files |-> <<>>]

Move(h, to) == UNCHANGED <<content, viewed>> /\ at' = [at EXCEPT ![h] = to]

Open(h, f) ==
  /\ Move(h, [file |-> f, pos |-> 0])
  /\ jumped' = jumped \ {h}

Close(h) == Move(h, Closed) /\ UNCHANGED jumped

(* A character is put back. *)
Unget(h) ==
  /\ at[h].pos > 0
  /\ Move(h, [at[h] EXCEPT !.pos = @ - 1])
  /\ UNCHANGED jumped

Seek(h) ==
  /\ at'[h].pos \in Nat
  /\ Move(h, [at[h] EXCEPT !.pos = at'[h].pos])
  /\ jumped' = jumped \cup {h}

(* n bytes are read, or the end of the file is met.  That it was may be    *)
(* forgotten after a jump.                                                 *)
Read(h, n) ==
  LET f == at[h].file
      p == at[h].pos
  IN /\ at' = [at EXCEPT ![h].pos = p + n]
     /\ \/ viewed' = [viewed EXCEPT ![f] = Views(f, IF n = 0 THEN {p} ELSE p..(p + n - 1))]
        \/ n = 0 /\ h \in jumped /\ UNCHANGED viewed
     /\ n = 0 => Byte(f, p) = Eof
     /\ UNCHANGED <<content, jumped>>

(* Files change where nobody has looked. *)
Change ==
  /\ UNCHANGED <<at, jumped, viewed>>
  /\ \A f \in Files : content'[f] \in Seq(Data)
  /\ \A f \in Files : \A p \in DOMAIN viewed[f] : Byte(f, p)' = viewed[f][p]

Next ==
  \/ Change
  \/ \E h \in {g \in Handles : at[g] = Closed}, f \in Files : Open(h, f)
  \/ \E h \in {g \in Handles : at[g] # Closed} :
       \/ Close(h) \/ Unget(h) \/ Seek(h)
       \/ \E n \in 0..Len(content[at[h].file]) : Read(h, n)

Spec == Init /\ [][Next]_vars
==============================================================================
