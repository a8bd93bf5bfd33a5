------------------------------ MODULE MCOutputs ------------------------------
(* Small instances of Outputs for TLC: documents of two pages that differ in
   their second one, SyncTeX of two inputs, a log of two lines. *)
EXTENDS Outputs

B(op, tag, arg) == [op |-> op, tag |-> tag, arg |-> arg]
Long(op, arg) == <<B(op, 0, 0), B("arg", 0, arg)>>
Line(op, tag, arg) == <<B(op, tag, arg), B("nl", 0, 0)>>
Chr(n) == <<B("chr", 0, n)>>
Eop == <<B("eop", 0, 0)>>

Opening == Long("pre", 0) \o Long("fnt", 1) \o Long("bop", 0) \o Chr(1) \o Eop

Document1 == Opening \o Long("bop", 0) \o Chr(2) \o Eop
Document2 == Long("pre", 0) \o Long("fnt", 2) \o Long("bop", 0) \o Chr(1) \o Eop

Sheet(n, tag, line) == Line("{", n, 0) \o Line("rec", tag, line) \o Line("}", n, 0)

Synctex1 ==
  Line("other", 0, 0) \o Line("input", 1, 1) \o Sheet(1, 1, 1) \o Line("input", 2, 2)
    \o Line("/", 2, 0) \o Sheet(2, 1, 3)
Synctex2 ==
  Line("other", 0, 0) \o Line("input", 1, 1) \o Sheet(1, 1, 1) \o Line("input", 2, 2)
    \o Sheet(2, 1, 2)

Log1 == <<B("c", 0, 1), B("c", 0, 2), B("nl", 0, 0), B("c", 0, 3), B("nl", 0, 0)>>
Log2 == <<B("c", 0, 1), B("nl", 0, 0), B("c", 0, 3), B("nl", 0, 0)>>

Run(d, s, l) == [f \in Files |-> CASE f = "dvi" -> d [] f = "stex" -> s [] OTHER -> l]

(* One output at a time: the indexes share nothing. *)
MCDocuments ==
  {{Run(Document1, <<>>, <<>>), Run(Document2, <<>>, <<>>)},
   {Run(<<>>, Synctex1, <<>>), Run(<<>>, Synctex2, <<>>)},
   {Run(<<>>, <<>>, Log1), Run(<<>>, <<>>, Log2)}}

MCTargets == {[input |-> 1, line |-> 2]}
=============================================================================
