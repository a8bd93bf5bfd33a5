----------------------------- MODULE EditorText -----------------------------
(* The commands by which the editor shares its files (frontend/main.c:
   relative_path, find_diff, realize_change, flush_changes, interpret_change,
   interpret_open, interpret_close; utf_mapping.h), and what TeX has read of
   these files.  The editor has texts made of characters, and gives positions in
   bytes, in lines, or in lines and UTF-16 code units; the driver has bytes.

   Files that are promised, and how the driver goes back (notify_file_changes)
   are in TexEngine: here TeX goes back to any point before the change. *)
EXTENDS SequencesExt, Integers

CONSTANTS
  Null,
  Dir,            \* ps->doc_path, a sequence of characters
  Paths,          \* the paths the editor uses, one for each of its files
  Disk,           \* the characters of the files on disk, by name
  Texts,          \* the texts the editor opens
  Inserted,       \* the texts it inserts
  MaxLine,        \* bound on the lines it gives
  MaxColumn,      \* bound on the columns it gives
  BUFFERED_OPS,   \* how many changes can be delayed (64)
  BUFFERED_CHARS, \* how many bytes they may take (4096)
  MaxCommands     \* bound on the commands of the editor

ASSUME EditorTextAssumption ==
  /\ MaxLine \in Nat /\ MaxColumn \in Nat /\ MaxCommands \in Nat
  /\ BUFFERED_OPS \in Nat /\ BUFFERED_CHARS \in Nat
  /\ Paths \cup Texts \cup Inserted \subseteq Seq(STRING)
  /\ \A n \in DOMAIN Disk : Disk[n] \in Seq(STRING)

(* A file that is missing is not a file that is empty. *)
ASSUME NullAssumption == Null \notin Seq(STRING \X Nat)

VARIABLES
  text,     \* the editor: what it has in each file that is open
  edit,     \* e->edit_data
  loaded,   \* the names for which e->fs_data was loaded
  observed, \* what TeX has observed of each file, see History
  delayed,  \* delayed_changes.op
  aborted,  \* an abort was reached
  commands  \* how many commands the editor sent

vars == <<text, edit, loaded, observed, delayed, aborted, commands>>

-----------------------------------------------------------------------------
(* Paths. *)

(* The rest of a path, after the separators. *)
Bare(rest) == SelectInSeq(rest, LAMBDA c : c # "/")

RestOf(path) ==
  LET rest == SubSeq(path, Len(Dir) + 1, Len(path))
  IN  IF Bare(rest) = 0 THEN <<>> ELSE SubSeq(rest, Bare(rest), Len(rest))

(* relative_path: the name of a file, or Null when the directory is not used
   up (go_up > 0).  Characters are compared, not components. *)
RelativePath(path) == IF IsPrefix(Dir, path) THEN RestOf(path) ELSE Null

Absolute(path) == path[1] = "/"

(* interpret_open keeps a relative path, the other commands do not. *)
OpenName(path) == IF Absolute(path) THEN RelativePath(path) ELSE path

Names == {OpenName(p) : p \in Paths} \ {Null}

-----------------------------------------------------------------------------
(* Characters and their UTF-8 encoding.  "nl" ends a line. *)

Width(c) == CASE c = "two" -> 2 [] c = "three" -> 3 [] c = "four" -> 4 [] OTHER -> 1
Units(c) == IF c = "four" THEN 2 ELSE 1

Bytes(c) == [i \in 1..Width(c) |-> <<c, i>>]
Encoded(chars) == FlattenSeq([i \in DOMAIN chars |-> Bytes(chars[i])])

Newline == <<"nl", 1>>
IsLead(b) == b[2] = 1

(* mutant: every code point counts as one unit *)
UnitsToFlat(mem, p, i) ==
  FoldLeft(LAMBDA n, b : n + (IF IsLead(b) THEN 1 ELSE 0), 0, SubSeq(mem, p + 1, i))

(* The units of the code points that begin in p..i-1 *)
UnitsTo(mem, p, i) ==
  FoldLeft(LAMBDA n, b : n + (IF IsLead(b) THEN Units(b[1]) ELSE 0), 0, SubSeq(mem, p + 1, i))

(* utf16_to_utf8_offset: how many bytes after offset p the column is, or -1.  The
   walk steps over whole code points, which stay within the line and the
   buffer: for a column after an end of the buffer that ends no line, the code
   reads on beyond it (utf_mapping.h:27), and returns NULL whatever is there. *)
ColumnOffset(mem, p, column) ==
  LET reached == {i \in p..Len(mem) :
                    /\ UnitsTo(mem, p, i) = column
                    /\ Newline \notin ToSet(SubSeq(mem, p + 1, i))
                    /\ i = Len(mem) \/ IsLead(mem[i + 1])}
  IN  IF reached = {} THEN -1 ELSE (CHOOSE i \in reached : \A j \in reached : i <= j) - p

-----------------------------------------------------------------------------
(* Positions in a buffer.  *)

(* Where the loops over lines stop: after n ends of lines from p, or at the end
   of the buffer; left is how many are missing. *)
LinesDown(mem, p, n) ==
  LET ends == {i \in p + 1..Len(mem) : mem[i] = Newline}
      nth == {i \in ends : Cardinality({j \in ends : j <= i}) = n}
  IN  IF n = 0 THEN [at |-> p, left |-> 0]
      ELSE IF nth = {} THEN [at |-> Len(mem), left |-> n - Cardinality(ends)]
      ELSE [at |-> CHOOSE i \in nth : TRUE, left |-> 0]

Invalid == [offset |-> -1, remove |-> 0]

(* The bytes a change is about: realize_change, for each kind of position. *)
ByteSpan(mem, c) == [offset |-> c.offset, remove |-> c.remove]

LineSpan(mem, c) ==
  LET start == LinesDown(mem, 0, c.offset)
      stop == LinesDown(mem, start.at, c.remove)
  IN  IF start.left > 0 \/ stop.left > 1 THEN Invalid
      ELSE [offset |-> start.at, remove |-> stop.at - start.at]

RangeSpan(mem, c) ==
  LET start == LinesDown(mem, 0, c.line)
      column == ColumnOffset(mem, start.at, c.column)
      stop == LinesDown(mem, start.at, c.endLine - c.line)
      endColumn == ColumnOffset(mem, stop.at, c.endColumn)
  IN  IF \/ start.left > 0 \/ column = -1
         \/ c.endLine < c.line
         \/ stop.left > 0 \/ endColumn = -1
      THEN Invalid
      ELSE [offset |-> start.at + column,
            remove |-> stop.at + endColumn - (start.at + column)]

Span(mem, op) ==
  CASE op.base = "byte" -> ByteSpan(mem, op.at)
    [] op.base = "line" -> LineSpan(mem, op.at)
    [] op.base = "range" -> RangeSpan(mem, op.at)

InBuffer(mem, s) == s.remove >= 0 /\ s.offset >= 0 /\ s.offset + s.remove <= Len(mem)

Spliced(mem, s, data) ==
  SubSeq(mem, 1, s.offset) \o data \o SubSeq(mem, s.offset + s.remove + 1, Len(mem))

(* find_diff *)
FindDiff(mem, data) == Len(LongestCommonPrefix({mem, data}))

-----------------------------------------------------------------------------
(* What TeX observes: nothing, that a file is missing, or that it is opened, its
   bytes, and its end. *)

History(mem) ==
  IF mem = Null THEN <<<<"missing", 0>>>> ELSE <<<<"open", 0>>>> \o mem \o <<<<"end", 0>>>>

FsData(n) == IF n \in DOMAIN Disk THEN Encoded(Disk[n]) ELSE Null

(* entry_data *)
EntryData(edits, n) == IF edits[n] # Null THEN edits[n] ELSE FsData(n)

(* e->seen *)
Seen(history) ==
  IF history = <<>> THEN -1 ELSE Cardinality({i \in DOMAIN history : history[i][2] > 0})

(* What the commands change in the driver. *)
Driver == [edit |-> edit, observed |-> observed]

(* mutant: only what is after the offset was seen *)
NotifiedAfter(d, n, changed) ==
  IF Seen(d.observed[n]) > changed
  THEN [d EXCEPT !.observed[n] = SubSeq(@, 1, changed)]
  ELSE d

(* notify_file_changes: TeX goes back before it had seen the offset. *)
Notified(d, n, changed) ==
  IF Seen(d.observed[n]) >= changed
  THEN [d EXCEPT !.observed[n] = SubSeq(@, 1, changed)]
  ELSE d

(* realize_change *)
Realized(d, op) ==
  LET n == RelativePath(op.path)
      mem == d.edit[n]
      span == Span(mem, op)
      changed == [d EXCEPT !.edit[n] = Spliced(mem, span, op.data)]
  IN  IF n = Null THEN d
      ELSE IF mem = Null THEN d
      ELSE IF ~InBuffer(mem, span) THEN d
      ELSE Notified(changed, n, span.offset)

(* flush_changes *)
Flushed(d) ==
  LET after[k \in 0..Len(delayed)] == IF k = 0 THEN d ELSE Realized(after[k - 1], delayed[k])
  IN  after[Len(delayed)]

(* interpret_open *)
Opened(d, n, data) ==
  LET mem == d.edit[n]
      after == [d EXCEPT !.edit[n] = data]
  IN  IF mem # Null THEN Notified(after, n, FindDiff(mem, data))
      ELSE IF n \in loaded THEN Notified(after, n, FindDiff(FsData(n), data))
      ELSE IF Seen(d.observed[n]) >= 0 THEN Notified(after, n, 0)
      ELSE after

(* interpret_close *)
Closed(d, n) ==
  LET changed == IF n \in loaded THEN FindDiff(FsData(n), d.edit[n]) ELSE 0
  IN  Notified([d EXCEPT !.edit[n] = Null], n, changed)

-----------------------------------------------------------------------------
(* What the editor means: positions between characters. *)

LinesIn(chars) == Cardinality({i \in DOMAIN chars : chars[i] = "nl"})

LineOf(chars, k) == LinesIn(SubSeq(chars, 1, k))

ColumnOf(chars, k) ==
  LET starts == {0} \cup {i \in 1..k : chars[i] = "nl"}
      start == CHOOSE i \in starts : \A j \in starts : j <= i
  IN  FoldLeft(LAMBDA n, c : n + Units(c), 0, SubSeq(chars, start + 1, k))

(* The positions on a line, at a column. *)
At(chars, line, column) ==
  {k \in 0..Len(chars) : LineOf(chars, k) = line /\ ColumnOf(chars, k) = column}

(* The beginning of a line; the end of the text is where the line after the
   last one would begin. *)
LineBegins(chars, line) ==
  At(chars, line, 0) \cup (IF line = LinesIn(chars) + 1 THEN {Len(chars)} ELSE {})

ByteAt(chars, offset) == {k \in 0..Len(chars) : Len(Encoded(SubSeq(chars, 1, k))) = offset}

Starts(chars, op) ==
  CASE op.base = "byte" -> ByteAt(chars, op.at.offset)
    [] op.base = "line" -> At(chars, op.at.offset, 0)
    [] op.base = "range" -> At(chars, op.at.line, op.at.column)

Stops(chars, op) ==
  CASE op.base = "byte" -> ByteAt(chars, op.at.offset + op.at.remove)
    [] op.base = "line" -> LineBegins(chars, op.at.offset + op.at.remove)
    [] op.base = "range" -> At(chars, op.at.endLine, op.at.endColumn)

(* The positions a change is between: one pair, or none when the command makes
   no sense. *)
Between(chars, op) ==
  {span \in Starts(chars, op) \X Stops(chars, op) : span[1] <= span[2]}

Edited(chars, spans, inserted) ==
  IF spans = {} THEN chars
  ELSE LET span == CHOOSE s \in spans : TRUE
       IN  SubSeq(chars, 1, span[1]) \o inserted \o SubSeq(chars, span[2] + 1, Len(chars))

-----------------------------------------------------------------------------
(* The commands. *)

Apply(d) == edit' = d.edit /\ observed' = d.observed

Command == ~aborted /\ commands < MaxCommands /\ commands' = commands + 1

ChangesBy(base) ==
  CASE base = "range" -> [line : 0..MaxLine, column : 0..MaxColumn,
                          endLine : 0..MaxLine, endColumn : 0..MaxColumn]
    [] base = "line" -> [offset : 0..MaxLine, remove : 0..MaxLine + 1]
    [] base = "byte" -> [offset : 0..MaxColumn, remove : 0..MaxColumn]

(* mutant: the path is not counted *)
BytesDelayedOfData(ops) ==
  LET upTo[k \in 0..Len(ops)] == IF k = 0 THEN 0 ELSE upTo[k - 1] + Len(ops[k].data)
  IN  upTo[Len(ops)]

BytesDelayed(ops) ==
  LET upTo[k \in 0..Len(ops)] ==
        IF k = 0 THEN 0 ELSE upTo[k - 1] + Len(ops[k].path) + 1 + Len(ops[k].data)
  IN  upTo[Len(ops)]

(* interpret_change, when the page that is shown is about to be typeset *)
Delay(op) ==
  /\ Len(delayed) < BUFFERED_OPS
  /\ BytesDelayed(Append(delayed, op)) <= BUFFERED_CHARS
  /\ delayed' = Append(delayed, op)
  /\ UNCHANGED <<edit, observed, aborted>>

(* A relative path is compared from the byte before its beginning: when this
   byte is a separator, there is an abort. *)
PathAborts(path) == ~Absolute(path)

(* This may happen as well when the delayed changes are applied at last. *)
FlushAborts == \E i \in DOMAIN delayed : PathAborts(delayed[i].path)

(* interpret_change, otherwise *)
ChangeNow(op) ==
  /\ Apply(Realized(Flushed(Driver), op))
  /\ delayed' = <<>>
  /\ aborted' \in {FALSE, FlushAborts \/ PathAborts(op.path)}

(* The editor changes a file it has opened.  It gives bytes at the boundaries of
   characters; lines and columns may make no sense, and mean no change. *)
EditorChange ==
  \E path \in Paths, base \in {"byte", "line", "range"}, chars \in Inserted :
    \E c \in ChangesBy(base) :
      LET op == [path |-> path, base |-> base, at |-> c, data |-> Encoded(chars)]
          spans == Between(text[path], op)
      IN  /\ Command
          /\ text[path] # Null
          /\ base = "byte" => spans # {}
          /\ text' = [text EXCEPT ![path] = Edited(@, spans, chars)]
          /\ Delay(op) \/ ChangeNow(op)
          /\ UNCHANGED loaded

EditorOpen ==
  \E path \in Paths, chars \in Texts :
    LET n == OpenName(path)
    IN  /\ Command
        /\ text' = [text EXCEPT ![path] = chars]
        /\ IF n = Null THEN UNCHANGED <<edit, observed, delayed>>
           ELSE Apply(Opened(Flushed(Driver), n, Encoded(chars))) /\ delayed' = <<>>
        /\ aborted' \in {FALSE, n # Null /\ FlushAborts}
        /\ UNCHANGED loaded

EditorClose ==
  \E path \in Paths :
    LET n == RelativePath(path)
    IN  /\ Command
        /\ text' = [text EXCEPT ![path] = Null]
        /\ IF n = Null THEN UNCHANGED <<edit, observed, delayed>>
           ELSE IF edit[n] = Null THEN UNCHANGED <<edit, observed, delayed>>
           ELSE Apply(Closed(Flushed(Driver), n)) /\ delayed' = <<>>
        /\ aborted' \in {FALSE, PathAborts(path) \/ (delayed' # delayed /\ FlushAborts)}
        /\ UNCHANGED loaded

(* SCAN_EVENT and RENDER_EVENT flush what is delayed. *)
Flush ==
  /\ ~aborted /\ delayed # <<>>
  /\ Apply(Flushed(Driver))
  /\ delayed' = <<>>
  /\ aborted' \in {FALSE, FlushAborts}
  /\ UNCHANGED <<text, loaded, commands>>

(* TeX observes more of a file; the driver loads it when it is opened and the
   editor does not have it. *)
Observe ==
  \E n \in Names :
    LET all == History(EntryData(edit, n))
    IN  /\ ~aborted
        /\ Len(observed[n]) < Len(all)
        /\ observed' = [observed EXCEPT ![n] = Append(@, all[Len(@) + 1])]
        /\ loaded' = IF observed[n] = <<>> /\ edit[n] = Null /\ n \in DOMAIN Disk
                     THEN loaded \cup {n} ELSE loaded
        /\ UNCHANGED <<text, edit, delayed, aborted, commands>>

(* TeX goes back for another reason. *)
GoBack ==
  \E n \in Names : \E k \in 0..Len(observed[n]) - 1 :
    /\ ~aborted
    /\ observed' = [observed EXCEPT ![n] = SubSeq(@, 1, k)]
    /\ UNCHANGED <<text, edit, loaded, delayed, aborted, commands>>

Init ==
  /\ text = [p \in Paths |-> Null]
  /\ edit = [n \in Names |-> Null]
  /\ observed = [n \in Names |-> <<>>]
  /\ loaded = {}
  /\ delayed = <<>>
  /\ aborted = FALSE
  /\ commands = 0

Next == EditorChange \/ EditorOpen \/ EditorClose \/ Flush \/ Observe \/ GoBack

Spec == Init /\ [][Next]_vars

-----------------------------------------------------------------------------
(* What the buffer of delayed changes has for one of them. *)
Stored(op) == op.path \o <<"end">> \o op.data

(* Every value stays in its type; what is delayed fits its buffer, with paths
   and terminators. *)
TypeOK ==
  /\ \A n \in Names : edit[n] # Null => \A b \in ToSet(edit[n]) : b[2] \in 1..Width(b[1])
  /\ loaded \subseteq DOMAIN Disk \cap Names
  /\ Len(delayed) <= BUFFERED_OPS
  /\ Len(FlattenSeq([k \in DOMAIN delayed |-> Stored(delayed[k])])) <= BUFFERED_CHARS
  /\ aborted \in BOOLEAN /\ commands \in 0..MaxCommands

(* Once nothing is delayed, the bytes of the driver are the text of the editor,
   for every file of the directory of the document: whatever the positions, and
   whatever was delayed. *)
CopyExact ==
  delayed = <<>> =>
    \A p \in Paths : OpenName(p) # Null =>
      edit[OpenName(p)] = IF text[p] = Null THEN Null ELSE Encoded(text[p])

(* TeX has observed nothing that is not in the files: each command tells of its
   change before, or where, it begins. *)
ReadCurrent == \A n \in Names : IsPrefix(observed[n], History(EntryData(edit, n)))
=============================================================================
