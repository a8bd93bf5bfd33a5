------------------------------- MODULE Outputs -------------------------------
(***************************************************************************)
(* What the driver keeps beside the outputs of the worker: the index of    *)
(* the pages of the DVI document and the fonts they need (incdvi.c), the   *)
(* index of the SyncTeX output and a search in it (synctex.c), and the     *)
(* copy of the log in the text editor (editor.c).  The outputs grow as the *)
(* worker writes and are cut when it is rolled back to a snapshot          *)
(* (engine_tex.c); each index must stay that of the bytes that are left.   *)
(*                                                                         *)
(* Offsets are from 0, as in the code.  A byte is a record: of the DVI     *)
(* opcodes the operations that the index tells apart, with their operands  *)
(* as bytes "arg", and of a SyncTeX line its first byte and its end.       *)
(***************************************************************************)
EXTENDS Integers, FiniteSets, SequencesExt

CONSTANTS
  Documents,   \* the versions of each document: what TeX writes of it
  Targets,     \* searches of the editor: the name of an input and a line
  MaxSnapshots,  \* bound: snapshots at a time
  MaxChanges,  \* bound: rollbacks
  MaxPasses,   \* bound: passes run to the end for the auxiliary files
  Null

Files == {"dvi", "stex", "log"}

Bytes == UNION {UNION {ToSet(p[f]) : f \in Files} : p \in UNION Documents}

Buffers == [mem : Seq(Bytes), len : Nat]

(* A run writes the document, its SyncTeX and its log. *)
ASSUME DocumentsAssumption == \A d \in Documents : d \subseteq [Files -> Seq(Bytes)]

ASSUME NullAssumption == Null \notin Buffers

VARIABLES
  document,    \* the versions of the document
  prog,        \* what the worker is going to write
  out,         \* the fz_buffers, or Null: all their bytes, and how many count
  logOpen,     \* st.log: the log was opened and not closed
  ended,       \* the worker has closed its connection
  snaps,       \* lengths of the outputs for the snapshots, oldest first
  dvi,         \* incdvi_t
  stex,        \* synctex_t, its offsets
  search,      \* synctex_t, its search
  shown,       \* the log in an editor: as bytes and, with -lines, as lines
  behind,      \* history: what was not told that outputs were cut
  aborted,     \* the assertion that stopped the driver
  changes, passes

vars == <<document, prog, out, logOpen, ended, snaps, dvi, stex, search, shown, behind, aborted, changes, passes>>

NoBuffer == [mem |-> <<>>, len |-> 0]
Buf(f) == IF out[f] = Null THEN NoBuffer ELSE out[f]
Written(f) == SubSeq(Buf(f).mem, 1, Buf(f).len)

-----------------------------------------------------------------------------
(* The index of the document. *)

NoPages == [offset |-> 0, fontdef |-> 0, pages |-> <<>>, font |-> Null, linked |-> Null]

(* mutant: the fonts of the document that is dropped are kept *)
ResetFontsRead(d) == [NoPages EXCEPT !.font = d.font, !.fontdef = d.fontdef]

Reset(d) == [NoPages EXCEPT !.font = d.font]

(* The size of an instruction is known from its first bytes: the rest may
   not be there yet. *)
InstrSize(b) == IF b.op \in {"pre", "bop", "fnt"} THEN 2 ELSE 1

(* The offsets of the instructions from one of them to another or the end. *)
Instrs(mem, from, to) ==
  LET chain[o \in from..to+1] ==
        IF o >= to THEN {} ELSE {o} \cup chain[o + InstrSize(mem[o + 1])]
  IN  IF from >= to THEN {} ELSE chain[from]

EndOf(mem, starts, from) ==
  IF starts = {} THEN from ELSE Max(starts) + InstrSize(mem[Max(starts) + 1])

Sorted(S) ==
  IF S = {} THEN <<>>
  ELSE SelectSeq([i \in 1..Max(S) + 1 |-> i - 1], LAMBDA o : o \in S)

OpAt(mem, o) == mem[o + 1].op

(* The last mark before some length, or 0. *)
LastMark(d, len) == Max({0} \cup {i \in DOMAIN d.pages : d.pages[i] < len})

(* mutant: the last mark is kept, and found again *)
TruncatedKeeping(d, len) ==
  LET n == LastMark(d, len)
  IN  IF d.offset <= len THEN d
      ELSE IF n = 0 THEN [d EXCEPT !.pages = <<>>, !.offset = 0]
           ELSE [d EXCEPT !.pages = SubSeq(@, 1, n), !.offset = d.pages[n]]

Truncated(d, len) ==
  LET n == LastMark(d, len)
  IN  IF d.offset <= len THEN d
      ELSE IF n = 0 THEN [d EXCEPT !.pages = <<>>, !.offset = 0]
           ELSE [d EXCEPT !.pages = SubSeq(@, 1, n - 1), !.offset = d.pages[n]]

(* dvi_preamble_size: nothing is known of a preamble before the byte with the
   size of its comment, here its second one. *)
Preamble(d, buf) ==
  IF d.offset = 0 /\ buf.len > 1 /\ OpAt(buf.mem, 0) = "pre"
  THEN [d EXCEPT !.offset = InstrSize(buf.mem[1])] ELSE d

NoMarks(o) == [pages |-> <<>>, offset |-> o]

(* The marks of pages from an instruction on, and where the last one ends. *)
Marks(mem, from, to) ==
  LET scan[o \in 0..to+1] ==
        IF o >= to THEN NoMarks(o)
        ELSE LET rest == scan[o + InstrSize(mem[o + 1])]
             IN  IF OpAt(mem, o) \in {"bop", "eop"}
                 THEN [rest EXCEPT !.pages = <<o>> \o @] ELSE rest
  IN  scan[from]

(* mutant: the font definitions are not read again *)
ScannedOnce(d, buf) ==
  LET found == IF d.offset = 0 THEN NoMarks(0) ELSE Marks(buf.mem, d.offset, buf.len)
  IN  [d EXCEPT !.pages = @ \o found.pages, !.offset = found.offset, !.linked = Null]

Scanned(d, buf) ==
  LET found == IF d.offset = 0 THEN NoMarks(0) ELSE Marks(buf.mem, d.offset, buf.len)
  IN  [d EXCEPT !.pages = @ \o found.pages, !.offset = found.offset, !.linked = Null,
                !.fontdef = Min({@, found.offset})]

DviUpdated(d, buf) == Scanned(Preamble(Truncated(d, buf.len), buf), buf)

InTurn(mem, pages) ==
  \A i \in DOMAIN pages : OpAt(mem, pages[i]) = IF i % 2 = 1 THEN "bop" ELSE "eop"

(* abort(): marks out of turn, or pages before a preamble. *)
DviSound(d, buf) ==
  /\ InTurn(buf.mem, d.pages)
  /\ d.offset = 0 => d.pages = <<>>

DviPages(text) == Marks(text, 0, Len(text)).pages

(* A document of TeX opens with its preamble, and its pages begin and end in turn. *)
ASSUME PagesAssumption ==
  \A d \in Documents : \A p \in d :
    p.dvi # <<>> => OpAt(p.dvi, 0) = "pre" /\ InTurn(p.dvi, DviPages(p.dvi))

PageCount(d) == Len(d.pages) \div 2

(* The last font defined by instructions, or the one there was. *)
FontAfter(mem, starts, font) ==
  LET defs == {o \in starts : OpAt(mem, o) = "fnt"}
  IN  IF defs = {} THEN font ELSE mem[Max(defs) + 2].arg

FontsParsed(d, mem, to) ==
  LET found == Instrs(mem, d.fontdef, to)
  IN  [d EXCEPT !.fontdef = EndOf(mem, found, @), !.font = FontAfter(mem, found, @)]

(* What a page draws: characters with their fonts. *)
Drawn(mem, bop, eop, font) ==
  LET found == Instrs(mem, bop, eop)
      chars == Sorted({o \in found : OpAt(mem, o) = "chr"})
  IN  [i \in DOMAIN chars |->
         [chr |-> mem[chars[i] + 1].arg,
          font |-> FontAfter(mem, {o \in found : o < chars[i]}, font)]]

Rendered(d, mem, page) ==
  LET bop == d.pages[2 * page + 1]
      eop == d.pages[2 * page + 2]
      e == FontsParsed(d, mem, bop)
  IN  [e EXCEPT !.font = FontAfter(mem, Instrs(mem, bop, eop), @),
                !.linked = [page |-> page, glyphs |-> Drawn(mem, bop, eop, e.font)]]

-----------------------------------------------------------------------------
(* The index of the SyncTeX output: offsets of the marks of pages, of the
   inputs (negative once they are closed) and of the closing lines. *)

NoLines == [bol |-> 0, cur |-> 0, pages |-> <<>>, inputs |-> <<>>, closes |-> <<>>, bad |-> {}]

Abs(i) == IF i < 0 THEN -i ELSE i

(* The last mark before an offset, or 0 *)
Before(marks, offset) == Max({0} \cup {i \in DOMAIN marks : Abs(marks[i]) < offset})

Below(marks, offset) == SubSeq(marks, 1, Before(marks, offset))

IsClosed(inputs, i) == inputs[i] < 0

ClosesBefore(closes, offset) == Before([i \in DOMAIN closes |-> closes[i].off], offset)

(* mutant: inputs stay closed *)
LinesCutClosed(s, offset) ==
  [s EXCEPT !.pages = Below(@, offset), !.inputs = Below(@, offset),
            !.closes = SubSeq(@, 1, ClosesBefore(@, offset)), !.cur = Min({@, offset})]

(* synctex_rollback *)
LinesCut(s, offset) ==
  LET inputs == Below(s.inputs, offset)
      kept == ClosesBefore(s.closes, offset)
      opened == {s.closes[i].input : i \in kept + 1..Len(s.closes)} \cap DOMAIN inputs
  IN  [s EXCEPT !.pages = Below(@, offset), !.closes = SubSeq(@, 1, kept), !.cur = Min({@, offset}),
                !.inputs = [i \in DOMAIN inputs |-> IF i \in opened THEN -inputs[i] ELSE inputs[i]],
                !.bad = IF \A i \in opened : IsClosed(inputs, i) THEN @ ELSE @ \cup {"reopen"}]

(* synctex_process_line *)
LineRead(s, mem, bol) ==
  LET b == mem[bol + 1]
  IN  CASE b.op \in {"{", "}"} ->
             IF b.tag = Len(s.pages) \div 2 + 1 /\ (b.op = "}") = (Len(s.pages) % 2 = 1)
             THEN [s EXCEPT !.pages = Append(@, bol)]
             ELSE [s EXCEPT !.bad = @ \cup {"page"}]
        [] b.op = "input" ->
             IF b.tag = Len(s.inputs) + 1
             THEN [s EXCEPT !.inputs = Append(@, bol)]
             ELSE [s EXCEPT !.bad = @ \cup {"input"}]
        [] b.op = "/" ->
             IF b.tag \in DOMAIN s.inputs /\ ~IsClosed(s.inputs, b.tag)
             THEN [s EXCEPT !.inputs[b.tag] = -@,
                            !.closes = Append(@, [off |-> bol, input |-> b.tag])]
             ELSE [s EXCEPT !.bad = @ \cup {"close"}]
        [] OTHER -> s

LineStart(mem, o) == Max({0} \cup {q \in 1..o : OpAt(mem, q - 1) = "nl"})

(* The loop of synctex_update over the bytes that are new *)
LinesRead(s, buf) ==
  LET first == IF s.bol > s.cur THEN LineStart(buf.mem, s.cur) ELSE s.bol
      read[o \in s.cur..buf.len] ==
        IF o = s.cur THEN [s EXCEPT !.bol = first]
        ELSE LET t == read[o - 1]
             IN  IF OpAt(buf.mem, o - 1) # "nl" THEN t
                 ELSE [(IF o - 1 > t.bol THEN LineRead(t, buf.mem, t.bol) ELSE t) EXCEPT !.bol = o]
  IN  [read[buf.len] EXCEPT !.cur = buf.len]

(* synctex_update *)
LinesUpdated(s, buf) ==
  IF buf.len < s.cur THEN LinesCut(s, buf.len)
  ELSE IF buf.len = s.cur THEN s ELSE LinesRead(s, buf)

(* TeX numbers its sheets and its inputs in turn, closes an input once, and
   writes a version first. *)
ASSUME SynctexAssumption ==
  \A d \in Documents : \A p \in d :
    /\ p.stex # <<>> => OpAt(p.stex, 0) # "input"
    /\ LinesRead(NoLines, [mem |-> p.stex, len |-> Len(p.stex)]).bad = {}

SheetCount(s) == Len(s.pages) \div 2

-----------------------------------------------------------------------------
(* The search for a line of an input, resumed as pages are typeset. *)

NoKey == 99

NoCandidate == [page |-> -1, line |-> 0, key |-> NoKey]

NoSearch ==
  [target |-> Null, found |-> FALSE, tag |-> 0, scanned |-> 0, best |-> NoCandidate, pending |-> FALSE]

(* mutant: the candidate is kept *)
SearchCutKeeping(q, s) ==
  IF q.target = Null THEN q
  ELSE IF q.tag >= Len(s.inputs) THEN [q EXCEPT !.tag = Len(s.inputs), !.found = FALSE]
  ELSE [q EXCEPT !.scanned = Min({@, SheetCount(s)})]

(* synctex_rollback: the search goes back too. *)
SearchCut(q, s) ==
  IF q.target = Null THEN q
  ELSE IF q.tag >= Len(s.inputs) THEN [q EXCEPT !.tag = Len(s.inputs), !.found = FALSE]
  ELSE LET pages == SheetCount(s)
           cut == [q EXCEPT !.scanned = Min({@, pages})]
       IN  IF q.best.page >= pages
           THEN [cut EXCEPT !.best = NoCandidate, !.pending = FALSE] ELSE cut

(* synctex_find_input *)
InputFound(q, s, mem) ==
  LET named == {i \in DOMAIN s.inputs :
                  i > q.tag /\ mem[Abs(s.inputs[i]) + 1].arg = q.target.input}
  IN  IF q.found THEN q
      ELSE IF named = {} THEN [q EXCEPT !.tag = Len(s.inputs)]
      ELSE [q EXCEPT !.tag = Min(named) - 1, !.found = TRUE, !.best = NoCandidate, !.pending = FALSE,
                     !.scanned = Cardinality({p \in 1..SheetCount(s) :
                                    s.pages[2 * p] < Abs(s.inputs[Min(named)])})]

LineKey(line, target) ==
  IF line = target THEN 0
  ELSE IF line > target THEN 2 * (line - target) ELSE 2 * (target - line) + 1

(* The lines that the records of a page have in an input. *)
LinesOf(s, mem, page, tag) ==
  {mem[o + 1].arg : o \in {o \in s.pages[2 * page + 1]..s.pages[2 * page + 2] :
                             OpAt(mem, o) = "rec" /\ mem[o + 1].tag = tag}}

NearestLine(lines, target) ==
  CHOOSE l \in lines : \A k \in lines : LineKey(l, target) <= LineKey(k, target)

Candidate(page, line, target) == [page |-> page, line |-> line, key |-> LineKey(line, target)]

(* synctex_backscan_page, without columns and boxes *)
PageScanned(q, s, mem) ==
  LET lines == LinesOf(s, mem, q.scanned, q.tag + 1)
      target == q.target.line
      near == Candidate(q.scanned, NearestLine(lines, target), target)
      passed == [q EXCEPT !.scanned = @ + 1]
  IN  IF lines = {} THEN passed
      ELSE IF near.key = 0 THEN [passed EXCEPT !.best = near, !.pending = TRUE, !.target = Null]
      ELSE IF near.key < q.best.key \/ (near.key = q.best.key /\ near.line < target)
           THEN [passed EXCEPT !.best = near, !.pending = TRUE]
           ELSE passed

PagesScanned(q, s, mem) ==
  LET scan[p \in 0..SheetCount(s)] ==
        IF p <= q.scanned THEN q
        ELSE LET r == scan[p - 1]
             IN  IF r.target = Null THEN r ELSE PageScanned(r, s, mem)
  IN  scan[SheetCount(s)]

(* A step of the search that reads the output. *)
Reads(q, s) == IF q.found THEN q.scanned < SheetCount(s) ELSE q.tag < Len(s.inputs)

(* synctex_find_target *)
SearchStep(q, s, mem, complete) ==
  LET r == InputFound(q, s, mem)
      scanned == PagesScanned(r, s, mem)
      over == scanned.target # Null /\ (complete \/ IsClosed(s.inputs, r.tag + 1))
      rest == [scanned EXCEPT !.target = IF over THEN Null ELSE @]
      waits == rest.target # Null /\ rest.best.page + 1 >= rest.scanned
  IN  IF ~r.found THEN r
      ELSE IF rest.pending /\ ~waits THEN [rest EXCEPT !.pending = FALSE] ELSE rest

-----------------------------------------------------------------------------
(* The log in the editor, as bytes or as lines. *)

NewLine(b) == b.op = "nl"

(* editor_append: the message for what follows a position, as lines.  The
   lines after the first begin with the end of the one before. *)
LinesAfter(text, pos) ==
  LET sent[n \in pos..Len(text)] ==
        IF n = pos THEN [lines |-> <<>>, from |-> LineStart(text, pos)]
        ELSE LET t == sent[n - 1]
             IN  IF ~NewLine(text[n]) THEN t
                 ELSE [lines |-> Append(t.lines, SubSeq(text, t.from + 1, n - 1)), from |-> n - 1]
  IN  sent[Len(text)].lines

Appended(text, pos) ==
  [bytes |-> shown.bytes \o SubSeq(text, pos + 1, Len(text)),
   lines |-> shown.lines \o LinesAfter(text, pos)]

FirstOf(s, n) == SubSeq(s, 1, Min({n, Len(s)}))

LineEnds(text) == Cardinality({i \in DOMAIN text : NewLine(text[i])})

(* mutant: the line that is not complete counts too *)
KeptOneMore(text) ==
  [bytes |-> FirstOf(shown.bytes, Len(text)), lines |-> FirstOf(shown.lines, LineEnds(text) + 1)]

(* editor_truncate *)
KeptBy(text) ==
  [bytes |-> FirstOf(shown.bytes, Len(text)), lines |-> FirstOf(shown.lines, LineEnds(text))]

-----------------------------------------------------------------------------
(* The driver. *)

Lengths == [f \in Files |-> IF out[f] = Null THEN -1 ELSE out[f].len]

Cut(lengths) ==
  [f \in Files |-> IF lengths[f] = -1 THEN Null ELSE [out[f] EXCEPT !.len = lengths[f]]]

Nothing == [f \in Files |-> -1]

Fails(reasons) == aborted' = IF reasons = {} THEN "no" ELSE CHOOSE r \in reasons : TRUE

Going == aborted = "no"

(* answer_query Q_OPWR *)
Open(f) ==
  /\ Going /\ ~ended
  /\ out[f] = Null /\ prog[f] # <<>>
  /\ out' = [out EXCEPT ![f] = NoBuffer]
  /\ logOpen' = (logOpen \/ f = "log")
  /\ dvi' = IF f = "dvi" THEN Reset(dvi) ELSE dvi
  /\ stex' = IF f = "stex" THEN LinesCut(stex, 0) ELSE stex
  /\ search' = IF f = "stex" THEN SearchCut(search, stex') ELSE search
  /\ behind' = behind \ ({f} \cap {"dvi", "stex"})
  /\ UNCHANGED <<document, prog, ended, snaps, shown, aborted, changes, passes>>

Grown(f, n) == [mem |-> SubSeq(prog[f], 1, n) \o SubSeq(out[f].mem, n + 1, Len(out[f].mem)), len |-> n]

(* answer_query Q_APND: the worker flushes what it has buffered. *)
Append_(f, n) ==
  /\ Going /\ ~ended
  /\ out[f] # Null /\ n \in out[f].len + 1..Len(prog[f])
  /\ out' = [out EXCEPT ![f] = Grown(f, n)]
  /\ UNCHANGED <<document, prog, logOpen, ended, snaps, changes, passes>>

AppendDocument ==
  \E n \in 1..Len(prog.dvi) :
    /\ Append_("dvi", n)
    /\ dvi' = DviUpdated(dvi, out'.dvi)
    /\ Fails(IF DviSound(dvi', out'.dvi) THEN {} ELSE {"marks"})
    /\ behind' = behind \ {"dvi"}
    /\ UNCHANGED <<stex, search, shown>>

AppendSynctex ==
  \E n \in 1..Len(prog.stex) :
    /\ Append_("stex", n)
    /\ stex' = LinesUpdated(stex, out'.stex)
    /\ search' = IF n < stex.cur THEN SearchCut(search, stex') ELSE search
    /\ Fails(stex'.bad)
    /\ UNCHANGED <<dvi, shown, behind>>

AppendLog ==
  \E n \in 1..Len(prog.log) :
    /\ Append_("log", n)
    /\ shown' = Appended(SubSeq(prog.log, 1, n), out.log.len)
    /\ UNCHANGED <<dvi, stex, search, behind, aborted>>

(* The worker has written everything: it closes the log and the connection. *)
End ==
  /\ Going /\ ~ended
  /\ \A f \in Files : prog[f] # <<>> => Written(f) = prog[f]
  /\ logOpen' = FALSE /\ ended' = TRUE
  /\ UNCHANGED <<document, prog, out, snaps, dvi, stex, search, shown, behind, aborted,
                 changes, passes>>

(* Where TeX reads, it has written its lines of SyncTeX and its pages: each
   line is one write, and a page is flushed with its end (dvi_eop). *)
Between ==
  /\ Written("stex") # <<>> => NewLine(Last(Written("stex")))
  /\ Written("dvi") # <<>> => Last(Written("dvi")).op = "eop"

(* answer_query Q_CHLD: the worker flushes what it has buffered, and forks. *)
Snapshot ==
  /\ Going /\ ~ended
  /\ Len(snaps) < MaxSnapshots
  /\ Between
  /\ snaps' = Append(snaps, [len |-> Lengths, log |-> logOpen])
  /\ UNCHANGED <<document, prog, out, logOpen, ended, dvi, stex, search, shown, behind, aborted,
                 changes, passes>>

(* pop_process, until the process that made the k-th snapshot is on top. *)
Popped(k) ==
  /\ out' = Cut(IF k = 0 THEN Nothing ELSE snaps[k].len)
  /\ logOpen' = IF k = 0 THEN FALSE ELSE snaps[k].log
  /\ snaps' = SubSeq(snaps, 1, k - 1)
  /\ ended' = FALSE

Kept ==
  /\ UNCHANGED <<out, logOpen, snaps>>
  /\ ended' = FALSE

(* A program that writes what is left of the outputs, then something else. *)
Reprogrammed ==
  /\ prog' \in document
  /\ \A f \in Files : out'[f] # Null =>
       prog'[f] # <<>> /\ IsPrefix(SubSeq(out'[f].mem, 1, out'[f].len), prog'[f])

(* The end of rollback_processes: everything is told of the cut. *)
Told ==
  /\ dvi' = IF out'.dvi = Null THEN Reset(dvi) ELSE DviUpdated(dvi, out'.dvi)
  /\ stex' = IF out'.stex = Null THEN LinesCut(stex, 0)
              ELSE IF out'.stex.len < stex.cur THEN LinesCut(stex, out'.stex.len)
              ELSE LinesUpdated(stex, out'.stex)
  /\ search' = IF out'.stex = Null \/ out'.stex.len < stex.cur
                THEN SearchCut(search, stex') ELSE search
  /\ shown' = KeptBy(IF logOpen' THEN SubSeq(out'.log.mem, 1, out'.log.len) ELSE <<>>)
  /\ Fails(stex'.bad \cup (IF out'.dvi = Null \/ DviSound(dvi', out'.dvi) THEN {} ELSE {"marks"}))

(* The editor changed a file that was read: rollback_processes.  When no
   process is dropped, lines that were cut before may stay in the index. *)
Rollback ==
  /\ Going /\ changes < MaxChanges
  /\ \/ (\E k \in 0..Len(snaps) : Popped(k)) /\ behind' = {}
     \/ /\ ~ended /\ Kept /\ behind' = behind \cap {"stex"}
        /\ Between \/ prog' = prog
  /\ Reprogrammed
  /\ Told
  /\ changes' = changes + 1
  /\ UNCHANGED <<document, passes>>

(* engine_finish_convergence: the auxiliary files changed, or nothing is left
   to resume. *)
FinishAgain ==
  /\ Going /\ ended /\ passes < MaxPasses
  /\ Popped(0) /\ Reprogrammed
  /\ dvi' = Reset(dvi)
  /\ stex' = LinesCut(stex, 0)
  /\ search' = SearchCut(search, stex')
  /\ shown' = KeptBy(<<>>)
  /\ Fails(stex'.bad)
  /\ behind' = {}
  /\ passes' = passes + 1
  /\ UNCHANGED <<document, changes>>

(* They are stable: the process that ended is dropped, so that the outputs go
   back to the last snapshot. *)
FinishConverged ==
  /\ Going /\ ended /\ passes < MaxPasses
  /\ snaps # <<>>
  /\ Popped(Len(snaps))
  /\ behind' = behind \cup {f \in Files : out'[f] # out[f]}
  /\ passes' = passes + 1
  /\ UNCHANGED <<document, prog, dvi, stex, search, shown, aborted, changes>>

(* A page is shown: engine_render_page. *)
Render ==
  /\ Going
  /\ \E p \in 0..PageCount(dvi) - 1 :
       LET bop == dvi.pages[2 * p + 1]
       IN  IF out["dvi"] = Null THEN Fails({"null"}) /\ UNCHANGED dvi
           ELSE IF Buf("dvi").len <= bop THEN Fails({"render"}) /\ UNCHANGED dvi
           ELSE dvi' = Rendered(dvi, Buf("dvi").mem, p) /\ UNCHANGED aborted
  /\ UNCHANGED <<document, prog, out, logOpen, ended, snaps, stex, search, shown, behind,
                 changes, passes>>

(* synctex_set_target: the editor asks for a line, in the middle of a search
   maybe, or the user looks at another page and the search is dropped. *)
SetTarget ==
  /\ Going
  /\ \/ \E t \in Targets : search' = [search EXCEPT !.target = t, !.found = FALSE, !.tag = 0]
     \/ search' = [search EXCEPT !.target = Null]
  /\ UNCHANGED <<document, prog, out, logOpen, ended, snaps, dvi, stex, shown, behind, aborted,
                 changes, passes>>

(* The main loop goes on with the search. *)
FindTarget ==
  /\ Going
  /\ search.target # Null
  /\ IF out["stex"] = Null /\ Reads(search, stex)
     THEN Fails({"search"}) /\ UNCHANGED search
     ELSE search' = SearchStep(search, stex, Buf("stex").mem, ended) /\ UNCHANGED aborted
  /\ UNCHANGED <<document, prog, out, logOpen, ended, snaps, dvi, stex, shown, behind,
                 changes, passes>>

Init ==
  /\ document \in Documents /\ prog \in document
  /\ out = [f \in Files |-> Null]
  /\ logOpen = FALSE /\ ended = FALSE
  /\ snaps = <<>>
  /\ dvi = NoPages /\ stex = NoLines /\ search = NoSearch
  /\ shown = [bytes |-> <<>>, lines |-> <<>>]
  /\ behind = {}
  /\ aborted = "no"
  /\ changes = 0 /\ passes = 0

Next ==
  \/ \E f \in Files : Open(f)
  \/ AppendDocument \/ AppendSynctex \/ AppendLog
  \/ End \/ Snapshot
  \/ Rollback \/ FinishAgain \/ FinishConverged
  \/ Render \/ SetTarget \/ FindTarget

Spec == Init /\ [][Next]_vars

-----------------------------------------------------------------------------
(* What the outputs say, read from the beginning. *)

(* Every value stays in its type: marks in increasing order, one more
   beginning than ends at most. *)
TypeOK ==
  /\ document \in Documents /\ prog \in document
  /\ \A f \in Files : out[f] # Null => out[f].len <= Len(out[f].mem)
  /\ \A i \in 2..Len(dvi.pages) : dvi.pages[i - 1] < dvi.pages[i]
  /\ dvi.fontdef <= dvi.offset
  /\ \A i \in 2..Len(stex.pages) : stex.pages[i - 1] < stex.pages[i]
  /\ Len(snaps) <= MaxSnapshots
  /\ behind \subseteq Files

(* The index of the document is the one of the bytes that are left, whatever
   was written, cut and written again, in whatever pieces; only a converged
   pass leaves it behind, and only then may showing a page stop the driver. *)
DviExact ==
  /\ Going /\ "dvi" \notin behind => dvi.pages = DviPages(Written("dvi"))
  /\ aborted \in {"render", "null"} => "dvi" \in behind
  /\ aborted # "marks"

(* What was drawn last is what its page says, with the fonts defined before
   it: no font of a text that was cut remains. *)
RenderedRight ==
  dvi.linked # Null /\ "dvi" \notin behind =>
    LET text == Written("dvi")
        page == dvi.linked.page
        starts == Instrs(text, 0, Len(text))
        chars == Sorted({o \in starts : /\ OpAt(text, o) = "chr"
                                         /\ dvi.pages[2 * page + 1] < o
                                         /\ o < dvi.pages[2 * page + 2]})
    IN  dvi.linked.glyphs =
          [i \in DOMAIN chars |->
             [chr |-> text[chars[i] + 1].arg,
              font |-> FontAfter(text, {o \in starts : o < chars[i]}, Null)]]

(* The complete lines of a text that begin with some byte *)
LineOffsets(text, ops) ==
  LET found[n \in 0..Len(text)] ==
        IF n = 0 THEN <<>>
        ELSE LET bol == LineStart(text, n - 1)
             IN  IF NewLine(text[n]) /\ OpAt(text, bol) \in ops
                 THEN Append(found[n - 1], bol) ELSE found[n - 1]
  IN  found[Len(text)]

(* The index of the SyncTeX output is the one of its complete lines: pages,
   inputs, and which inputs are closed; no line stops the driver, but after a
   converged pass. *)
SynctexExact ==
  /\ stex.bad # {} \/ aborted = "search" => "stex" \in behind
  /\ Going /\ "stex" \notin behind =>
       LET text == Written("stex")
           inputs == LineOffsets(text, {"input"})
           closes == LineOffsets(text, {"/"})
           closed == {text[closes[i] + 1].tag : i \in DOMAIN closes}
       IN  /\ stex.pages = LineOffsets(text, {"{", "}"})
           /\ stex.inputs = [i \in DOMAIN inputs |-> IF i \in closed THEN -inputs[i] ELSE inputs[i]]

(* A search only keeps a candidate that the pages of the output still hold,
   the nearest line of its page, and no scanned page holds the line that is
   searched: nothing is forgotten when pages are cut in the middle of it. *)
SearchSound ==
  Going /\ search.target # Null /\ search.found /\ "stex" \notin behind =>
    LET mem == Written("stex")
        target == search.target.line
        Lines(p) == LinesOf(stex, mem, p, search.tag + 1)
    IN  /\ search.tag + 1 \in DOMAIN stex.inputs
        /\ mem[Abs(stex.inputs[search.tag + 1]) + 1].arg = search.target.input
        /\ search.scanned <= SheetCount(stex)
        /\ search.best # NoCandidate =>
             /\ search.best.page < search.scanned
             /\ search.best.line \in Lines(search.best.page)
             /\ \A l \in Lines(search.best.page) : search.best.key <= LineKey(l, target)
        /\ target \notin UNION {Lines(p) : p \in 0..search.scanned - 1}

(* synctex.c: "Best candidate so far (or candidate_page == -1 if there has been
   no match)": the best of all the pages scanned. *)
BestSoFar ==
  Going /\ search.target # Null /\ search.found /\ behind = {} =>
    \A p \in 0..search.scanned - 1 :
      \A l \in LinesOf(stex, Buf("stex").mem, p, search.tag + 1) :
        search.best.key <= LineKey(l, search.target.line)

(* The lines of a text that are complete, without their ends *)
Completed(text) ==
  LET lines[n \in 0..Len(text)] ==
        IF n = 0 THEN <<>>
        ELSE IF NewLine(text[n])
             THEN Append(lines[n - 1], SubSeq(text, LineStart(text, n - 1) + 1, n - 1))
             ELSE lines[n - 1]
  IN  lines[Len(text)]

(* A line without the end of the one before *)
Bare(line) == IF line # <<>> /\ NewLine(Head(line)) THEN Tail(line) ELSE line

(* The editor has the log of the driver, byte by byte or in complete lines,
   whatever was cut and sent again; a line may be sent with the end of the one
   before. *)
EditorExact ==
  "log" \notin behind =>
    /\ shown.bytes = Written("log")
    /\ [i \in DOMAIN shown.lines |-> Bare(shown.lines[i])] = Completed(Written("log"))

(* incdvi.c: a page that is shown begins in the document. *)
PagesInDocument == aborted # "render"

(* EDITOR-PROTOCOL.md: the ends of lines are not part of the lines sent. *)
LinesBare ==
  \A i \in DOMAIN shown.lines : Bare(shown.lines[i]) = shown.lines[i]
=============================================================================
