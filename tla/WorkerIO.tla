------------------------------- MODULE WorkerIO -------------------------------
(***************************************************************************)
(* The input and output layer of a worker (src/src/engine/main/main.c and  *)
(* texpresso_protocol.c): TeX reads and writes files through the driver.   *)
(* Inputs are buffered, what was read is reported lazily (SEEN), outputs   *)
(* are collected and sent in bulk (APND), and file ids are allocated here. *)
(* The driver may change a file beyond what was reported to it, either     *)
(* while the worker waits for an answer (a FLSH comes before the answer)   *)
(* or while it is a snapshot, between a fork and the death of its child.   *)
(*                                                                         *)
(* Abstractions.  Generations are only compared: an input remembers        *)
(* whether its own is the current one.  A snapshot that resumes is the     *)
(* process that forked with files that may have changed, since the driver  *)
(* restores the rest.  The n-th byte written to a file is n.               *)
(***************************************************************************)
EXTENDS Integers, Sequences, FiniteSets, FiniteSetsExt, SequencesExt

CONSTANTS
  Files,      \* names of inputs
  Outputs,    \* names of outputs
  Stdout,     \* the output with id -1
  Handles,    \* input handles of TeX
  Data,       \* bytes of the inputs
  Closed,     \* not open
  Eof,        \* what is read at the end
  Contents,   \* initial contents of the inputs
  Versions,   \* [Files -> contents a file may get]
  Cells,      \* cells of the table of ids (16)
  CellBits,   \* bits of a cell (64)
  IntBits,    \* bits of an int (32)
  BufSize,    \* read buffer (1024)
  PendSize,   \* buffer of pending output (4096)
  Reads,      \* lengths of reads
  Seeks,      \* positions that are sought
  Writes,     \* lengths of writes
  MaxEffort,  \* bound on the calls, other than reads, forks and changes
  Interrupts  \* may a file change while what TeX just read is being reported?

VARIABLES
  content,    \* driver: contents of the inputs
  seen,       \* driver: e->seen, -1 when never opened
  received,   \* driver: contents of the outputs
  table,      \* driver: st.table, [Ids -> name or Closed]
  fresh,      \* driver: files never read, whose debug_rollback_invalidation is 0
  allocated,  \* ids in use
  inputs,     \* [Handles -> txp_input or Closed]
  outs,       \* [Outputs -> id or Closed]
  client,     \* txp_client: SEEN, APND and stdout not sent yet
  todo,       \* messages of the current call, in order
  want,       \* what the current call on an input still has to do, or Closed
  flushing,   \* a FLSH is in the socket
  aborted,    \* "no", or the check that failed
  viewed,     \* history: [Files -> what TeX knows, position by position]
  written,    \* history: bytes written so far
  effort,     \* calls, other than reads, forks and changes so far
  sought      \* history: handles that moved without reading

driver == <<content, seen, received, table, fresh>>
ids == <<allocated, inputs, outs>>
call == <<todo, want, flushing, aborted>>
history == <<viewed, written, effort, sought>>
vars == <<driver, ids, client, call, history>>

Ids == 0..(Cells * CellBits - 1)

ASSUME WorkerIOAssumption ==
  /\ IsFiniteSet(Files) /\ IsFiniteSet(Handles) /\ Stdout \notin Outputs
  /\ Closed \notin Files \cup Outputs \cup Ids /\ Eof \notin Data
  /\ Versions \in [Files -> SUBSET Seq(Data)] /\ Contents \in [Files -> Seq(Data)]
  /\ {Cells, CellBits, IntBits, BufSize, PendSize} \subseteq Nat \ {0}
  /\ IntBits <= CellBits
  /\ Reads \cup Seeks \cup Writes \cup {MaxEffort} \subseteq Nat /\ IsFiniteSet(Reads) /\ Interrupts \in BOOLEAN

-----------------------------------------------------------------------------
(* Allocation of ids *)

Cell(id) == id \div CellBits
Free == Ids \ allocated
NextId == Min(Free)

(* The bits of a cell that 1 << offset selects: the shift is done on an    *)
(* int, modulo its width, and the last bit extends to the rest.            *)
Shifted(offset) ==
  LET k == offset % IntBits
  IN IF k = IntBits - 1 THEN k..(CellBits - 1) ELSE {k}

(* release_id aborts when the bit it tests is clear. *)
ReleaseAborts(id) ==
  \A k \in Shifted(id % CellBits) : Cell(id) * CellBits + k \notin allocated

-----------------------------------------------------------------------------
(* The client.  A message has an argument: a position, data, or a name. *)

Msg(tag, id, arg) == [tag |-> tag, id |-> id, arg |-> arg]

NoneIf(empty, msg) == IF empty THEN <<>> ELSE <<msg>>

SeenPending(c) == NoneIf(c.seenPos = 0, Msg("SEEN", c.seenFile, c.seenPos))
OutputPending(c) ==
  NoneIf(c.stdout = <<>>, Msg("APND", -1, c.stdout))
    \o NoneIf(c.append = <<>>, Msg("APND", c.appendFile, c.append))

(* txp_flush_pending: in this order. *)
Pending(c) == SeenPending(c) \o OutputPending(c)

Flushed(c) == [c EXCEPT !.seenPos = 0, !.stdout = <<>>, !.append = <<>>]

(* A call that does not wait: the client afterwards, what it has to send. *)
Quiet(c) == [client |-> c, msgs |-> <<>>]
Flushing(c, changed) == [client |-> changed, msgs |-> Pending(c)]

(* txp_seen *)
Seen(c, id, pos) ==
  IF c.seenFile = id
  THEN Quiet([c EXCEPT !.seenPos = Max({@, pos})])
  ELSE Flushing(c, [Flushed(c) EXCEPT !.seenFile = id, !.seenPos = pos])

(* mutant: large data overtakes what is pending *)
AppendEarly(c, id, data) ==
  IF c.appendFile = id /\ Len(c.append) + Len(data) <= PendSize
  THEN Quiet([c EXCEPT !.append = @ \o data])
  ELSE IF Len(data) <= PendSize
  THEN Flushing(c, [Flushed(c) EXCEPT !.appendFile = id, !.append = data])
  ELSE [client |-> c, msgs |-> <<Msg("APND", id, data)>>]

(* txp_append *)
AppendTo(c, id, data) ==
  IF c.appendFile = id /\ Len(c.append) + Len(data) <= PendSize
  THEN Quiet([c EXCEPT !.append = @ \o data])
  ELSE IF Len(data) <= PendSize
  THEN Flushing(c, [Flushed(c) EXCEPT !.appendFile = id, !.append = data])
  ELSE [client |-> Flushed(c), msgs |-> Append(Pending(c), Msg("APND", id, data))]

(* mutant: one byte too many for the buffer of stdout *)
PutPast(c, id, byte) ==
  IF id = -1 /\ Len(c.stdout) <= PendSize
  THEN Quiet([c EXCEPT !.stdout = Append(@, byte)])
  ELSE IF c.appendFile = id /\ Len(c.append) < PendSize
  THEN Quiet([c EXCEPT !.append = Append(@, byte)])
  ELSE Flushing(c, [Flushed(c) EXCEPT !.appendFile = id, !.append = <<byte>>])

(* txp_putc: stdout has a buffer of its own, as long as it is not full. *)
PutTo(c, id, byte) ==
  IF id = -1 /\ Len(c.stdout) < PendSize
  THEN Quiet([c EXCEPT !.stdout = Append(@, byte)])
  ELSE IF c.appendFile = id /\ Len(c.append) < PendSize
  THEN Quiet([c EXCEPT !.append = Append(@, byte)])
  ELSE Flushing(c, [Flushed(c) EXCEPT !.appendFile = id, !.append = <<byte>>])

-----------------------------------------------------------------------------
(* Inputs.  pos is file_pos, used is buf_pos, size is file_size, and       *)
(* current tells whether the generation is that of the client.             *)

InputType ==
  [file : Files, id : Ids, pos : Nat, buf : Seq(Data), used : Nat, size : Nat \cup {-1},
   current : BOOLEAN]

(* A call in progress, and a file with a position: Closed is neither.      *)
WantType ==
  [op : {"open", "close", "getc", "read", "more", "size"}, h : Handles, left : Nat \cup {-1}]
PlaceType == [file : Files, pos : Nat]

ASSUME ClosedAssumption == Closed \notin InputType \cup WantType \cup PlaceType

Opened(f, id) ==
  [file |-> f, id |-> id, pos |-> 0, buf |-> <<>>, used |-> 0, size |-> -1, current |-> TRUE]

Emptied(i, pos) == [i EXCEPT !.pos = pos, !.buf = <<>>, !.used = 0]
At(i) == i.pos + i.used

(* mutant: the whole buffer counts as read *)
SyncedPast(i) ==
  IF i.current THEN i ELSE [Emptied(i, i.pos + Len(i.buf)) EXCEPT !.current = TRUE]

(* A buffer of another generation is dropped. *)
Synced(i) ==
  IF i.current THEN i ELSE [Emptied(i, At(i)) EXCEPT !.current = TRUE]

Refilling(i) == Emptied(i, i.pos + Len(i.buf))

(* mutant: only the input that is being read *)
BumpedOne(is) ==
  [h \in Handles |-> IF is[h] = Closed \/ Head(todo).tag # "READ" \/ Head(todo).id # is[h].id
                     THEN is[h] ELSE [is[h] EXCEPT !.current = FALSE]]

Bumped(is) ==
  [h \in Handles |-> IF is[h] = Closed THEN Closed ELSE [is[h] EXCEPT !.current = FALSE]]

(* What TeX knows once it has obtained bytes at pos, or met the end.       *)
Viewing(h, pos, bytes) ==
  LET f == inputs[h].file
      there == IF bytes = <<>> THEN {pos} ELSE pos..(pos + Len(bytes) - 1)
      known == [p \in DOMAIN viewed[f] \cup there |->
                  IF p \notin there THEN viewed[f][p]
                  ELSE IF bytes = <<>> THEN Eof ELSE bytes[p - pos + 1]]
  IN viewed' = [viewed EXCEPT ![f] = known]

Ready == todo = <<>> /\ want = Closed /\ aborted = "no"
IsOpen(h) == inputs[h] # Closed

Effort(n) == effort + n <= MaxEffort /\ effort' = effort + n

Set(h, i) == inputs' = [inputs EXCEPT ![h] = i]

(* A query is sent after what is pending. *)
Ask(query) ==
  /\ todo' = Append(Pending(client), query)
  /\ client' = Flushed(client)

Sending(sent) == client' = sent.client /\ todo' = sent.msgs

Die(why) ==
  /\ aborted' = why
  /\ todo' = <<>> /\ want' = Closed
  /\ UNCHANGED <<driver, ids, client, flushing, history>>

-----------------------------------------------------------------------------
(* Calls of TeX on inputs *)

Init ==
  /\ content = Contents
  /\ seen = [f \in Files |-> -1]
  /\ received = [o \in Outputs \cup {Stdout} |-> <<>>]
  /\ table = [id \in Ids |-> Closed]
  /\ fresh = Files
  /\ allocated = {}
  /\ inputs = [h \in Handles |-> Closed]
  /\ outs = [o \in Outputs |-> Closed]
  /\ client = [seenFile |-> 0, seenPos |-> 0, appendFile |-> 0, append |-> <<>>, stdout |-> <<>>]
  /\ todo = <<>> /\ want = Closed /\ flushing = FALSE /\ aborted = "no"
  /\ viewed = [f \in Files |-> <<>>]
  /\ written = [o \in Outputs \cup {Stdout} |-> 0]
  /\ effort = 0
  /\ sought = {}

(* ttstub_input_open: the id is allocated once the driver agrees. *)
Open(h, f) ==
  /\ Ready /\ ~IsOpen(h)
  /\ \/ /\ Free # {}
        /\ Ask(Msg("OPRD", NextId, f))
        /\ want' = [op |-> "open", h |-> h, left |-> 0]
        /\ Effort(1)
        /\ UNCHANGED <<driver, ids, flushing, aborted, viewed, written, sought>>
     \/ Free = {} /\ Die("ids")

(* ttstub_input_close *)
Close(h) ==
  /\ Ready /\ IsOpen(h)
  /\ Ask(Msg("CLOS", inputs[h].id, 0))
  /\ want' = [op |-> "close", h |-> h, left |-> 0]
  /\ UNCHANGED <<driver, ids, flushing, aborted, history>>

(* n bytes of the buffer are taken. *)
Take(h, i, n) ==
  /\ Set(h, [i EXCEPT !.used = @ + n])
  /\ Viewing(h, At(i), SubSeq(i.buf, i.used + 1, i.used + n))
  /\ Sending(Seen(client, i.id, At(i) + n))
  /\ UNCHANGED <<driver, allocated, outs, flushing, aborted, written, effort, sought>>

Refill(h, i, size, left) ==
  /\ Set(h, Refilling(i))
  /\ Ask(Msg("READ", i.id, size))
  /\ want' = [op |-> IF left = -1 THEN "getc" ELSE "read", h |-> h, left |-> left]
  /\ UNCHANGED <<driver, allocated, outs, flushing, aborted, history>>

(* ttstub_input_getc *)
GetC(h) ==
  /\ Ready /\ IsOpen(h)
  /\ LET i == Synced(inputs[h])
     IN \/ i.used < Len(i.buf) /\ Take(h, i, 1) /\ UNCHANGED want
        \/ i.used = Len(i.buf) /\ Refill(h, i, BufSize, -1)

(* internal_input_read, up to its query: left bytes are wanted. *)
InternalRead(h, left) ==
  LET i == Synced(inputs[h])
      n == Min({left, Len(i.buf) - i.used})
  IN \/ /\ n > 0
        /\ Take(h, i, n)
        /\ want' = [op |-> "more", h |-> h, left |-> left - n]
     \/ /\ i.used < Len(i.buf) /\ n = 0
        /\ Set(h, i)
        /\ Sending(Seen(client, i.id, At(i)))
        /\ want' = Closed
        /\ UNCHANGED <<driver, allocated, outs, flushing, aborted, history>>
     \/ i.used = Len(i.buf) /\ Refill(h, i, left, left)

(* ttstub_input_read: internal_input_read until it returns nothing, the    *)
(* last time for no byte at all when all were obtained.                    *)
Read(h, len) == Ready /\ IsOpen(h) /\ InternalRead(h, len)
ReadMore ==
  /\ want # Closed /\ want.op = "more" /\ todo = <<>>
  /\ InternalRead(want.h, want.left)

(* ttstub_input_seek.  The buffer is kept when it holds the position. *)
Seek(h, ofs) ==
  /\ Ready /\ IsOpen(h)
  /\ LET i == inputs[h]
     IN Set(h, IF ofs - i.pos \in 1..Len(i.buf) THEN [i EXCEPT !.used = ofs - i.pos]
                                                ELSE Emptied(i, ofs))
  /\ sought' = sought \cup {h}
  /\ Effort(1)
  /\ UNCHANGED <<driver, allocated, outs, client, call, viewed, written>>

(* ttstub_input_get_size, and the seek from the end that follows it *)
GetSize(h) ==
  /\ Ready /\ IsOpen(h) /\ inputs[h].size = -1
  /\ Ask(Msg("SIZE", inputs[h].id, 0))
  /\ want' = [op |-> "size", h |-> h, left |-> 0]
  /\ Effort(1)
  /\ UNCHANGED <<driver, ids, flushing, aborted, viewed, written, sought>>

SeekEnd(h) == IsOpen(h) /\ inputs[h].size # -1 /\ Seek(h, inputs[h].size)

(* ttstub_input_ungetc, of the character that was read *)
Ungetc(h) ==
  /\ Ready /\ IsOpen(h) /\ inputs[h].used > 0
  /\ Set(h, [inputs[h] EXCEPT !.used = @ - 1])
  /\ Effort(1)
  /\ UNCHANGED <<driver, allocated, outs, client, call, viewed, written, sought>>

-----------------------------------------------------------------------------
(* Calls of TeX on outputs *)

(* The n bytes that follow those written to o. *)
NextBytes(o, n) == [k \in 1..n |-> written[o] + k]
Wrote(o, n) == Effort(n) /\ written' = [written EXCEPT ![o] = @ + n]

(* ttstub_output_open *)
OpenWrite(o) ==
  /\ Ready /\ outs[o] = Closed
  /\ \/ /\ Free # {}
        /\ Ask(Msg("OPWR", NextId, o))
        /\ Effort(1)
        /\ UNCHANGED <<driver, ids, want, flushing, aborted, viewed, written, sought>>
     \/ Free = {} /\ Die("ids")

(* ttstub_output_close: the id stays allocated. *)
CloseWrite(o) ==
  /\ Ready /\ outs[o] # Closed
  /\ Ask(Msg("CLOS", outs[o], 0))
  /\ outs' = [outs EXCEPT ![o] = Closed]
  /\ Effort(1)
  /\ UNCHANGED <<driver, allocated, inputs, want, flushing, aborted, viewed, written, sought>>

IdOf(o) == IF o = Stdout THEN -1 ELSE outs[o]

Writable(o, n) ==
  /\ Ready
  /\ o # Stdout => outs[o] # Closed

(* ttstub_output_putc *)
PutC(o) ==
  /\ Writable(o, 1)
  /\ Sending(PutTo(client, IdOf(o), written[o] + 1))
  /\ Wrote(o, 1)
  /\ UNCHANGED <<driver, ids, want, flushing, aborted, viewed, sought>>

(* ttstub_output_write: writing nothing does nothing *)
Write(o, n) ==
  /\ Writable(o, n) /\ n > 0
  /\ Sending(AppendTo(client, IdOf(o), NextBytes(o, n)))
  /\ Wrote(o, n)
  /\ UNCHANGED <<driver, ids, want, flushing, aborted, viewed, sought>>

(* ttstub_output_flush *)
Flush ==
  /\ Ready /\ Pending(client) # <<>>
  /\ Sending(Flushing(client, Flushed(client)))
  /\ Effort(1)
  /\ UNCHANGED <<driver, ids, want, flushing, aborted, viewed, written, sought>>

-----------------------------------------------------------------------------
(* The driver, and the rest of a call once it is answered.  A FLSH is read *)
(* before the answer it precedes.                                          *)

Head1 == Head(todo)
Answering(tag) == todo # <<>> /\ Head1.tag = tag
Told == IF flushing THEN Bumped(inputs) ELSE inputs
Answered == todo' = Tail(todo) /\ flushing' = FALSE

AnswerSeen ==
  /\ Answering("SEEN")
  /\ \/ /\ table[Head1.id] = Closed /\ Die("closed")
     \/ /\ table[Head1.id] # Closed
        /\ seen' = [seen EXCEPT ![table[Head1.id]] = Max({@, Head1.arg})]
        /\ todo' = Tail(todo)
        /\ UNCHANGED <<content, received, table, fresh, ids, client, want, flushing,
                       aborted, history>>

(* Output to no id is stdout. *)
AnswerAppend ==
  /\ Answering("APND")
  /\ LET o == IF Head1.id = -1 THEN Stdout ELSE table[Head1.id]
     IN \/ o \notin DOMAIN received /\ Die("closed")
        \/ /\ o \in DOMAIN received
           /\ received' = [received EXCEPT ![o] = @ \o Head1.arg]
           /\ Answered
           /\ inputs' = Told
           /\ UNCHANGED <<content, seen, table, fresh, allocated, outs, client, want,
                          aborted, history>>

(* mutant: the id is not allocated *)
AnswerOpenNoId ==
  /\ Answering("OPRD")
  /\ \/ table[Head1.id] # Closed /\ Die("busy")
     \/ /\ table[Head1.id] = Closed
        /\ table' = [table EXCEPT ![Head1.id] = Head1.arg]
        /\ seen' = [seen EXCEPT ![Head1.arg] = Max({@, 0})]
        /\ inputs' = [Told EXCEPT ![want.h] = Opened(Head1.arg, Head1.id)]
        /\ sought' = sought \ {want.h}
        /\ Answered /\ want' = Closed
        /\ UNCHANGED <<content, received, fresh, allocated, outs, client, aborted, viewed,
                       written, effort>>

AnswerOpen ==
  /\ Answering("OPRD")
  /\ \/ table[Head1.id] # Closed /\ Die("busy")
     \/ /\ table[Head1.id] = Closed
        /\ table' = [table EXCEPT ![Head1.id] = Head1.arg]
        /\ seen' = [seen EXCEPT ![Head1.arg] = Max({@, 0})]
        /\ allocated' = allocated \cup {Head1.id}
        /\ inputs' = [Told EXCEPT ![want.h] = Opened(Head1.arg, Head1.id)]
        /\ sought' = sought \ {want.h}
        /\ Answered /\ want' = Closed
        /\ UNCHANGED <<content, received, fresh, outs, client, aborted, viewed, written, effort>>

AnswerOpenWrite ==
  /\ Answering("OPWR")
  /\ \/ table[Head1.id] # Closed /\ Die("busy")
     \/ /\ table[Head1.id] = Closed
        /\ table' = [table EXCEPT ![Head1.id] = Head1.arg]
        /\ received' = [received EXCEPT ![Head1.arg] = <<>>]
        /\ written' = [written EXCEPT ![Head1.arg] = 0]
        /\ allocated' = allocated \cup {Head1.id}
        /\ outs' = [outs EXCEPT ![Head1.arg] = Head1.id]
        /\ inputs' = Told
        /\ Answered
        /\ UNCHANGED <<content, seen, fresh, client, want, aborted, viewed, effort, sought>>

(* The id of an input is released, that of an output is not.  A shift by   *)
(* more than the width of an int has no defined result.                    *)
AnswerClose ==
  /\ Answering("CLOS")
  /\ LET id == Head1.id
         input == want # Closed
     IN \/ table[id] = Closed /\ Die("closed")
        \/ input /\ ReleaseAborts(id) /\ Die("release")
        \/ /\ table[id] # Closed
           /\ ~input \/ ~ReleaseAborts(id) \/ id % CellBits >= IntBits
           /\ table' = [table EXCEPT ![id] = Closed]
           /\ allocated' = IF input THEN allocated \ {id} ELSE allocated
           /\ inputs' = IF input THEN [Told EXCEPT ![want.h] = Closed] ELSE Told
           /\ Answered /\ want' = Closed
           /\ UNCHANGED <<content, seen, received, fresh, outs, client, aborted, history>>

AnswerSize ==
  /\ Answering("SIZE")
  /\ inputs' = [Told EXCEPT ![want.h].size = Len(content[table[Head1.id]])]
  /\ Answered /\ want' = Closed
  /\ UNCHANGED <<driver, allocated, outs, client, aborted, history>>

-----------------------------------------------------------------------------
(* READ *)

(* What the bytes that were read become.  A long read bypasses the buffer. *)
Obtained(i, op, size, bytes) ==
  LET n == Len(bytes)
  IN CASE op = "getc" -> [i EXCEPT !.buf = bytes, !.used = Min({1, n})]
       [] op = "read" /\ size < BufSize -> [i EXCEPT !.buf = bytes, !.used = n]
       [] OTHER -> Emptied(i, i.pos + n)

(* debug_rollback_invalidation is 0 until the first READ of the file. *)
Early(f, pos) == f \in fresh /\ pos > 0

(* getc does not report the end of the file.  That it was met is known     *)
(* from the bytes before it, which were reported unless they were jumped.  *)
Unreported(n) == want.op = "getc" /\ n = 0 /\ want.h \in sought

(* A fence may cut a read short, not to nothing. *)
AnswerRead(n) ==
  /\ Answering("READ")
  /\ LET i == Told[want.h]
         f == table[Head1.id]
         size == Head1.arg
         rest == Len(content[f]) - i.pos
         bytes == SubSeq(content[f], i.pos + 1, i.pos + n)
         kept == Obtained(i, want.op, size, bytes)
         taken == IF want.op = "getc" THEN SubSeq(bytes, 1, Min({1, n})) ELSE bytes
     IN \/ n = 0 /\ Early(f, i.pos) /\ Die("early")
        \/ n = 0 /\ ~Early(f, i.pos) /\ rest < 0 /\ Die("past")
        \/ /\ ~Early(f, i.pos)
           /\ n <= Min({size, rest})
           /\ n = 0 => size = 0 \/ rest = 0
           /\ inputs' = [Told EXCEPT ![want.h] = kept]
           /\ flushing' = FALSE
           /\ fresh' = fresh \ {f}
           /\ IF size = 0 \/ Unreported(n) THEN UNCHANGED viewed
                                           ELSE Viewing(want.h, i.pos, taken)
           /\ IF want.op = "getc" /\ n = 0
              THEN todo' = <<>> /\ UNCHANGED client
              ELSE Sending(Seen(client, i.id, At(kept)))
           /\ want' = IF want.op = "getc" \/ n = 0 THEN Closed
                      ELSE [want EXCEPT !.op = "more", !.left = @ - n]
           /\ UNCHANGED <<content, seen, received, table, allocated, outs, aborted,
                          written, effort, sought>>

FirstDiff(s, t) ==
  Max({k \in 0..Len(s) : k <= Len(t) /\ SubSeq(s, 1, k) = SubSeq(t, 1, k)})

(* Changes after which the worker need not be rolled back *)
Unnoticed(f, c) == c = content[f] \/ FirstDiff(content[f], c) > seen[f]

(* The worker forks, the child goes on, and when it dies its parent asks   *)
(* again, perhaps for other contents.                                      *)
AnswerFork ==
  /\ Answering("READ")
  /\ LET f == table[Head1.id]
     IN ~Early(f, inputs[want.h].pos) /\ inputs[want.h].pos <= Len(content[f])
  /\ content' \in [Files -> UNION {Versions[f] \cup {content[f]} : f \in Files}]
  /\ \A f \in Files : content'[f] \in Versions[f] \cup {content[f]} /\ Unnoticed(f, content'[f])
  /\ inputs' = Bumped(inputs)
  /\ flushing' = FALSE
  /\ Effort(1)
  /\ fresh' = fresh \ {table[Head1.id]}
  /\ UNCHANGED <<seen, received, table, allocated, outs, client, todo, want, aborted, viewed,
                 written, sought>>

(* The driver flushes a worker that waits when a file changes beyond what  *)
(* was observed (process_pending_messages, rollback_end).                  *)
Change(f, c) ==
  /\ todo # <<>> /\ Head1.tag # "SEEN"
  /\ Interrupts \/ client.seenPos = 0
  /\ c # content[f] /\ Unnoticed(f, c)
  /\ content' = [content EXCEPT ![f] = c]
  /\ flushing' = TRUE
  /\ Effort(1)
  /\ UNCHANGED <<seen, received, table, fresh, ids, client, todo, want, aborted, viewed, written,
                 sought>>

-----------------------------------------------------------------------------
Next ==
  \/ \E h \in Handles :
       \/ \E f \in Files : Open(h, f)
       \/ \E n \in Reads : Read(h, n)
       \/ \E n \in Seeks : Seek(h, n)
       \/ Close(h) \/ GetC(h) \/ GetSize(h) \/ SeekEnd(h) \/ Ungetc(h)
  \/ ReadMore
  \/ \E o \in Outputs : OpenWrite(o) \/ CloseWrite(o)
  \/ \E o \in Outputs \cup {Stdout} : PutC(o) \/ \E n \in Writes : Write(o, n)
  \/ Flush
  \/ AnswerSeen \/ AnswerAppend \/ AnswerOpen \/ AnswerOpenWrite \/ AnswerClose \/ AnswerSize
  \/ \E n \in UNION {0..size : size \in Reads \cup {BufSize}} : AnswerRead(n)
  \/ AnswerFork
  \/ \E f \in Files : \E c \in Versions[f] : Change(f, c)

Spec == Init /\ [][Next]_vars

-----------------------------------------------------------------------------
(* Properties *)

(* Types, a buffer position inside the buffer (input->buf_pos), and pending *)
(* output that fits its buffer (append_buf, stdout_buf).                    *)
TypeOK ==
  /\ content \in [Files -> Seq(Data)] /\ seen \in [Files -> Nat \cup {-1}]
  /\ table \in [Ids -> Files \cup Outputs \cup {Closed}] /\ fresh \subseteq Files
  /\ allocated \subseteq Ids
  /\ \A h \in Handles : IsOpen(h) => inputs[h] \in InputType /\ inputs[h].used <= Len(inputs[h].buf)
  /\ outs \in [Outputs -> Ids \cup {Closed}]
  /\ client.seenFile \in Ids /\ client.seenPos \in Nat /\ client.appendFile \in Ids \cup {-1}
  /\ Len(client.append) <= PendSize /\ Len(client.stdout) <= PendSize
  /\ want # Closed => want.op \in {"open", "close", "getc", "read", "more", "size"} /\ want.h \in Handles
  /\ flushing \in BOOLEAN
  /\ \A f \in Files : \A p \in DOMAIN viewed[f] : viewed[f][p] \in Data \cup {Eof}

(* Everything TeX has read of a file, and every end it has met, is still   *)
(* what the file holds: a file only changes under a worker where the       *)
(* worker has not looked (txp_seen and the generations).                   *)
ObservedCurrent ==
  \A f \in Files : \A p \in DOMAIN viewed[f] :
    viewed[f][p] = IF p < Len(content[f]) THEN content[f][p + 1] ELSE Eof

(* What was written to o and has not reached the driver, in order *)
Carries(o, id) == IF o = Stdout THEN id = -1 ELSE id # -1 /\ table[id] = o
Underway(o) ==
  LET sent == SelectSeq(todo, LAMBDA m : m.tag = "APND" /\ Carries(o, m.id))
      held == SelectSeq(OutputPending(client), LAMBDA m : Carries(o, m.id))
  IN FoldSeq(LAMBDA m, rest : m.arg \o rest, <<>>, sent \o held)

(* The driver gets what TeX writes to a file, all of it, once, in order,   *)
(* whatever was written to other files in between.  On stdout, which has   *)
(* two buffers, the order is not part of it (texpresso_protocol.c:318).    *)
OutputExact ==
  aborted = "no" =>
    \A o \in Outputs \cup {Stdout} :
      LET all == received[o] \o Underway(o)
      IN IF o = Stdout THEN Len(all) = written[o] /\ ToSet(all) = 1..written[o]
                       ELSE all = [k \in 1..written[o] |-> k]

(* The driver never refuses an id (mabort on a cell that is in use, or not *)
(* open): ids are unique among what is open.  A worker gives up only when  *)
(* outputs that were closed hold ids, when the bit of an id is beyond an   *)
(* int, or after it moved in a file by itself.                             *)
AbortsExplained ==
  /\ aborted \in {"no", "ids", "release", "past", "early"}
  /\ aborted = "ids" => \E id \in allocated : table[id] = Closed
  /\ aborted = "release" => \E h \in Handles : IsOpen(h) /\ inputs[h].id % CellBits >= IntBits
  /\ aborted \in {"past", "early"} => sought # {}

(* Files that change, read through buffers, are files that are read.       *)
Positions == [h \in Handles |-> IF IsOpen(h) THEN [file |-> inputs[h].file, pos |-> At(inputs[h])]
                                           ELSE Closed]
Abstract == INSTANCE OpenFiles WITH at <- Positions, jumped <- sought
ImplementsFiles == Abstract!Spec
=============================================================================
