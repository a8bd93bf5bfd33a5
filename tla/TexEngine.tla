------------------------------ MODULE TexEngine ------------------------------
(***************************************************************************)
(* The incremental engine of the driver (src/src/frontend/engine_tex.c)    *)
(* and the worker it drives.                                               *)
(*                                                                         *)
(* The driver keeps a stack of forked workers.  Only the top one runs; the *)
(* others are snapshots, blocked until their child dies.  A trace records  *)
(* how far each file had been observed, so that a change of a file can be  *)
(* turned into a position of the trace, the workers that went past it are  *)
(* popped, and the one below resumes.  Changes are notified inside a       *)
(* transaction; the worker keeps running meanwhile and what it has         *)
(* consumed is known to the driver only once its SEEN message is read.     *)
(*                                                                         *)
(* Abstractions.  Times only feed heuristics (when to snapshot, how to     *)
(* space the fences): any outcome is possible.  The file entries' saved    *)
(* part is restored by value, which is what UndoLog is proved to do.       *)
(* Output indexes and file descriptors are not modelled here.              *)
(***************************************************************************)
EXTENDS Integers, Sequences, FiniteSets, FiniteSetsExt, SequencesExt

CONSTANTS
  Entries,        \* file entries
  Bytes,          \* contents of files are sequences of them
  Null,           \* no data
  Opened, Absent, Eof,   \* what a worker observes besides bytes
  Programs,       \* what TeX may be doing: sequences of steps
  Disk,           \* initial contents of the disk
  NewContents,    \* [Entries -> contents the editor or the disk may get]
  EditorFiles,    \* entries the editor may push
  DiskFiles,      \* entries that may change on disk
  Promised,       \* entries registered by the editor
  SystemOutputs,  \* document, log, stdout, synctex
  StreamMode,     \* -stream
  RerunEnabled,   \* (rerun t)
  ResumeInBatch,  \* does the editor send (resume) among other commands?
  IntMax,         \* INT_MAX, seen position of a file observed to be missing
  ReadSize,       \* size of the worker's read buffer (1024)
  Align,          \* fences are rounded to this many bytes (64)
  MaxFences,      \* 16
  MaxProcess,     \* 32
  Spacing,        \* distances of decimate_processes (32)
  MaxChanges      \* bound on the number of changes

VARIABLES
  prog,       \* the program the worker runs, a constant of the behaviour
  disk,       \* contents of the disk
  fs,         \* e->fs_data, the driver's copy of it
  statted,    \* entries with an fs_stat: their fs_data was read from the disk
  edit,       \* e->edit_data
  stash,      \* entries whose edit_data comes from a convergence pass
  pics,       \* e->pic_cache: what the size of a picture was computed from
  saved,      \* e->saved, as left by the top process
  seen,       \* e->seen, -1 when not observed
  trace,      \* the trace entries, up to the trace_len of the top process
  procs,      \* the stack of processes
  fences,     \* pending fences, the one to be met first is last
  changing,   \* between begin_changes and end_changes
  rollback,   \* the transaction
  deferred,   \* entry of the deferred query
  auxDirty, finishing,
  aborted,    \* "no", or the place where the driver would die
  changes     \* number of changes so far

vfs == <<disk, fs, statted, edit, stash, pics>>
vars == <<prog, disk, fs, statted, edit, stash, pics, saved, seen, trace, procs, fences,
          changing, rollback, deferred, auxDirty, finishing, aborted, changes>>

(* Data is told from NULL, and a missing file is seen beyond any position. *)
ASSUME TexEngineAssumption ==
  /\ IsFiniteSet(Entries) /\ Bytes # {}
  /\ Null \notin Seq(Bytes) /\ Null \notin Entries
  /\ {Opened, Absent, Eof} \cap Bytes = {} /\ Cardinality({Opened, Absent, Eof}) = 3
  /\ Disk \in [Entries -> Seq(Bytes) \cup {Null}]
  /\ NewContents \in [Entries -> SUBSET Seq(Bytes)]
  /\ EditorFiles \cup DiskFiles \cup Promised \cup SystemOutputs \subseteq Entries
  /\ {StreamMode, RerunEnabled, ResumeInBatch} \subseteq BOOLEAN
  /\ {ReadSize, Align, MaxFences, MaxProcess, Spacing} \subseteq Nat \ {0}
  /\ IntMax \in Nat /\ MaxChanges \in Nat

-----------------------------------------------------------------------------
(* Contents *)

InputData(f) == IF edit[f] # Null THEN edit[f] ELSE fs[f]

(* entry_data *)
EntryData(f) == IF saved[f].data # Null THEN saved[f].data ELSE InputData(f)

(* All that a worker could observe of an input file. *)
History(f) ==
  IF InputData(f) = Null THEN <<Absent>>
                         ELSE <<Opened>> \o InputData(f) \o <<Eof>>

(* mutant: only the lengths are compared *)
FirstDiffOfLengths(s, t) == Min({Len(s), Len(t)})

(* find_diff, and the comparison of scan_entry *)
FirstDiff(s, t) ==
  Max({k \in 0..Len(s) : k <= Len(t) /\ SubSeq(s, 1, k) = SubSeq(t, 1, k)})

-----------------------------------------------------------------------------
(* Processes.  The fields len and copy (p->trace_len and what p->snap      *)
(* restores) are those of the last fork: for the top process they are the  *)
(* length of the trace and saved.                                          *)

Top == Len(procs)
TraceLen(i) == IF i = Top THEN Len(trace) ELSE procs[i].len
Alive(i) == procs[i].fd
Running == Top > 0 /\ Alive(Top)

NoBuffers == [f \in Entries |-> <<>>]
Restart == [f \in Entries |-> [level |-> "none", data |-> Null]]

Launched ==
  [fd |-> TRUE, killed |-> FALSE, len |-> 0, copy |-> Restart,
   pc |-> 1, pos |-> [f \in Entries |-> 0],
   view |-> NoBuffers, buf |-> NoBuffers,
   unsent |-> <<>>, out |-> <<>>, asked |-> FALSE, flush |-> FALSE]

(* What has been observed of a file after x is found at position pos: when *)
(* it is read again, nothing new until the previous end is passed.         *)
Observing(view, pos, x) ==
  IF pos + 1 < Len(view) /\ view[pos + 2] = x THEN view
  ELSE Append(SubSeq(view, 1, pos + 1), x)

AtEnd(p, f) ==
  /\ p.view[f] # <<>>
  /\ \/ Last(p.view[f]) = Absent
     \/ Last(p.view[f]) = Eof /\ p.pos[f] = Len(p.view[f]) - 2

(* A picture that is missing or too short has no size to keep. *)
Satisfied(p, step) ==
  \/ step.op = "read" /\ p.pos[step.file] >= step.arg
  \/ step.op \in {"read", "keep"} /\ AtEnd(p, step.file)

(* find_pic_file: what TeX does to know the size of a picture, that depends on *)
(* its first n bytes.  A size that is known spares the other steps.            *)
FindPicture(f, n) ==
  <<[op |-> "picture", file |-> f, arg |-> 4], [op |-> "open", file |-> f, arg |-> 0],
    [op |-> "read", file |-> f, arg |-> n], [op |-> "close", file |-> f, arg |-> 0],
    [op |-> "keep", file |-> f, arg |-> 0]>>

(* TeX asks for the size of a picture before it opens it, and writes in files *)
(* that it has created.                                                      *)
ASSUME ProgramsAssumption ==
  \A p \in Programs :
    /\ p \in Seq([op : {"open", "read", "close", "create", "append", "picture", "keep"},
                  file : Entries, arg : Nat \cup Entries])
    /\ \A k \in DOMAIN p :
         /\ p[k].op # "append" => p[k].arg \in Nat
         /\ p[k].op = "append" =>
              p[k].arg \in Entries /\ \E j \in 1..k : p[j].op = "create" /\ p[j].file = p[k].file
         /\ p[k].op = "picture" => k + p[k].arg <= Len(p)

(* Steps that want nothing more are over. *)
Settled(p) ==
  [p EXCEPT !.pc = Min({k \in @..(Len(prog) + 1) :
                          k > Len(prog) \/ ~Satisfied(p, prog[k])})]

SetTop(p) == procs' = [procs EXCEPT ![Top] = p]

-----------------------------------------------------------------------------
(* The worker (src/src/engine/main/main.c, texpresso_protocol.c) *)

(* txp_seen: one pending message, sent when another file is read. *)
Reported(s, f, pos) ==
  LET m == [tag |-> "SEEN", file |-> f, arg |-> pos]
  IN  IF s # <<>> /\ Last(s).file = f THEN Front(s) \o <<m>> ELSE Append(s, m)

(* ttstub_input_getc, on buffered data *)
Consume ==
  LET p == procs[Top]
      f == prog[p.pc].file
  IN  /\ aborted = "no"
      /\ Running /\ ~p.asked
      /\ p.pc <= Len(prog) /\ prog[p.pc].op = "read"
      /\ p.buf[f] # <<>>
      /\ SetTop(Settled([p EXCEPT !.view[f] = Observing(@, p.pos[f], Head(p.buf[f])),
                                  !.buf[f] = Tail(@),
                                  !.pos[f] = @ + 1,
                                  !.unsent = Reported(@, f, p.pos[f] + 1)]))
      /\ UNCHANGED <<prog, vfs, saved, seen, trace, fences, changing, rollback,
                     deferred, auxDirty, finishing, aborted, changes>>

(* TeX writes in auxiliary files what it has read in its inputs. *)
LastByte(p, f) ==
  LET read == SelectSeq(p.view[f], LAMBDA x : x \in Bytes)
  IN  IF read = <<>> THEN CHOOSE b \in Bytes : TRUE ELSE Last(read)

Query(p) ==
  IF p.pc > Len(prog) THEN [tag |-> "EXIT", file |-> Null, arg |-> 0]
  ELSE LET step == prog[p.pc]
       IN  CASE step.op = "open"   -> [tag |-> "OPRD", file |-> step.file, arg |-> 0]
             [] step.op = "create" -> [tag |-> "OPWR", file |-> step.file, arg |-> 0]
             [] step.op = "close"  -> [tag |-> "CLOS", file |-> step.file, arg |-> 0]
             [] step.op = "read"   -> [tag |-> "READ", file |-> step.file,
                                       arg |-> p.pos[step.file]]
             [] step.op = "picture" -> [tag |-> "GPIC", file |-> step.file, arg |-> step.arg]
             [] step.op = "keep"   -> [tag |-> "SPIC", file |-> step.file,
                                       arg |-> SubSeq(p.view[step.file], 1, p.pos[step.file] + 1)]
             [] step.op = "append" -> [tag |-> "APND", file |-> step.file,
                                       arg |-> LastByte(p, step.arg)]

(* txp_io_send_tag: the pending SEEN messages leave with the query (or the *)
(* end of the stream), and the worker waits for the answer.                *)
Ask ==
  LET p == procs[Top]
  IN  /\ aborted = "no"
      /\ Running /\ ~p.asked
      /\ p.pc <= Len(prog) /\ prog[p.pc].op = "read" => p.buf[prog[p.pc].file] = <<>>
      /\ SetTop([p EXCEPT !.out = p.unsent \o <<Query(p)>>,
                          !.unsent = <<>>, !.asked = TRUE])
      /\ UNCHANGED <<prog, vfs, saved, seen, trace, fences, changing, rollback,
                     deferred, auxDirty, finishing, aborted, changes>>

(* mutant: the worker ignores C_FLSH *)
AnsweredStale(p) ==
  [p EXCEPT !.out = <<>>, !.asked = FALSE, !.flush = FALSE]

(* What the answer of the driver changes in the worker: a C_FLSH received  *)
(* before it makes every buffer obsolete.                                  *)
Answered(p) ==
  [p EXCEPT !.out = <<>>, !.asked = FALSE, !.flush = FALSE,
            !.buf = IF p.flush THEN NoBuffers ELSE @]

StepDone(p) == Settled([p EXCEPT !.pc = @ + 1])

-----------------------------------------------------------------------------
(* The trace *)

(* mutant: an entry is reused even if a snapshot already relies on it *)
RecordedMerging(tr, sn, f) ==
  IF tr # <<>> /\ Last(tr).entry = f THEN tr
                                    ELSE Append(tr, [entry |-> f, seen |-> sn[f]])

(* record_seen: an entry is reused if it is about the same file and was    *)
(* not already there when the process was forked.                          *)
Recorded(tr, sn, f) ==
  IF /\ tr # <<>> /\ Last(tr).entry = f
     /\ Top <= 1 \/ procs[Top - 1].len # Len(tr)
  THEN tr
  ELSE Append(tr, [entry |-> f, seen |-> sn[f]])

RecordSeen(sn, f, pos) ==
  /\ trace' = Recorded(trace, sn, f)
  /\ seen' = [sn EXCEPT ![f] = pos]

(* mutant: the entries are reverted oldest first *)
RevertedForwards(sn, tr, from, to) ==
  [g \in Entries |->
    LET ks == {k \in (from + 1)..to : tr[k].entry = g}
    IN  IF ks = {} THEN sn[g] ELSE tr[Max(ks)].seen]

(* revert_trace, from entry to down to entry from + 1. *)
Reverted(sn, tr, from, to) ==
  [g \in Entries |->
    LET ks == {k \in (from + 1)..to : tr[k].entry = g}
    IN  IF ks = {} THEN sn[g] ELSE tr[Min(ks)].seen]

-----------------------------------------------------------------------------
(* answer_query: the driver takes one message of the top process.          *)

Message == Head(procs[Top].out)

(* engine_step is called outside of the transactions, except by (resume).  *)
Stepping ==
  /\ aborted = "no"
  /\ changing => ResumeInBatch
  /\ Running
  /\ deferred = Null

Receive(tag) == Stepping /\ procs[Top].out # <<>> /\ Message.tag = tag

Abort(reason) ==
  /\ aborted' = reason
  /\ UNCHANGED <<prog, vfs, saved, seen, trace, procs, fences, changing,
                 rollback, deferred, auxDirty, finishing, changes>>

(* A_PASS: the file is missing, which is an observation as well. *)
Pass(f) ==
  /\ RecordSeen(seen, f, IntMax)
  /\ SetTop(StepDone([Answered(procs[Top]) EXCEPT !.view[f] = <<Absent>>]))
  /\ UNCHANGED <<prog, vfs, saved, fences, changing, rollback, deferred,
                 auxDirty, finishing, aborted, changes>>

OnDisk(f) == disk[f] # Null

(* An entry is loaded when it is opened for the first time: its contents,   *)
(* then its stat, as one step.                                             *)
Load(f) ==
  IF saved[f].level # "none" THEN UNCHANGED <<fs, statted, saved>>
  ELSE /\ saved' = [saved EXCEPT ![f].level = "read"]
       /\ IF OnDisk(f) /\ ~(StreamMode /\ edit[f] # Null)
          THEN fs' = [fs EXCEPT ![f] = disk[f]] /\ statted' = statted \cup {f}
          ELSE UNCHANGED fs /\ statted' = statted \ {f}

(* A_OPEN *)
Found(f, sn) ==
  /\ IF sn[f] < 0 THEN RecordSeen(sn, f, 0) ELSE UNCHANGED <<seen, trace>>
  /\ Load(f)
  /\ SetTop(StepDone([Answered(procs[Top]) EXCEPT
                       !.view[f] = IF @ = <<>> THEN <<Opened>> ELSE @,
                       !.pos[f] = 0, !.buf[f] = <<>>]))
  /\ UNCHANGED <<prog, disk, edit, stash, pics, fences, changing, rollback,
                 auxDirty, finishing, aborted, changes>>

OpenFound(f) ==
  /\ Receive("OPRD") /\ Message.file = f
  /\ \/ OnDisk(f)
     \/ edit[f] # Null
     \/ EntryData(f) # Null /\ saved[f].level # "none"
  /\ Found(f, seen)
  /\ UNCHANGED deferred

(* The driver has a copy of the file, which was not opened by the workers  *)
(* that remain, but the file itself is gone.  In stream mode the cell of   *)
(* the query keeps its entry, so that the next open with this id aborts    *)
(* (engine_tex.c:571): ids are left out.                                    *)
OpenVanished(f) ==
  /\ Receive("OPRD") /\ Message.file = f
  /\ ~OnDisk(f) /\ edit[f] = Null
  /\ EntryData(f) # Null /\ saved[f].level = "none"
  /\ IF StreamMode THEN Pass(f) ELSE Abort("vanished")

OpenMissing(f) ==
  /\ Receive("OPRD") /\ Message.file = f
  /\ EntryData(f) = Null /\ ~OnDisk(f)
  /\ f \notin Promised
  /\ Pass(f)

(* The file was promised: the worker waits until the editor sends it. *)
OpenDeferred(f) ==
  /\ Receive("OPRD") /\ Message.file = f
  /\ EntryData(f) = Null /\ ~OnDisk(f)
  /\ f \in Promised
  /\ deferred' = f
  /\ SetTop([procs[Top] EXCEPT !.out = Tail(@)])
  /\ UNCHANGED <<prog, vfs, saved, seen, trace, fences, changing, rollback,
                 auxDirty, finishing, aborted, changes>>

(* mutant: the deferred query stays after its answer *)
OpenPromisedAgain(f) ==
  /\ aborted = "no" /\ (changing => ResumeInBatch)
  /\ Running
  /\ deferred = f /\ edit[f] # Null
  /\ UNCHANGED deferred
  /\ Found(f, [seen EXCEPT ![f] = -1])

(* engine_step answers the deferred query once the editor has sent it. *)
OpenPromised(f) ==
  /\ aborted = "no" /\ (changing => ResumeInBatch)
  /\ Running
  /\ deferred = f /\ edit[f] # Null
  /\ deferred' = Null
  /\ Found(f, [seen EXCEPT ![f] = -1])

(* Q_OPWR *)
OpenWrite(f) ==
  /\ Receive("OPWR") /\ Message.file = f
  /\ IF seen[f] < 0 THEN RecordSeen(seen, f, 0) ELSE UNCHANGED <<seen, trace>>
  /\ saved' = [saved EXCEPT ![f] = [level |-> "write", data |-> <<>>]]
  /\ SetTop(StepDone(Answered(procs[Top])))
  /\ UNCHANGED <<prog, vfs, fences, changing, rollback, deferred, auxDirty,
                 finishing, aborted, changes>>

(* Q_APND *)
Append_(f) ==
  /\ Receive("APND") /\ Message.file = f
  /\ saved' = [saved EXCEPT ![f].data = Append(@, Message.arg)]
  /\ auxDirty' = (auxDirty \/ f \notin SystemOutputs)
  /\ SetTop(StepDone(Answered(procs[Top])))
  /\ UNCHANGED <<prog, vfs, seen, trace, fences, changing, rollback, deferred,
                 finishing, aborted, changes>>

(* Q_CLOS *)
Close(f) ==
  /\ Receive("CLOS") /\ Message.file = f
  /\ SetTop(StepDone(Answered(procs[Top])))
  /\ UNCHANGED <<prog, vfs, saved, seen, trace, fences, changing, rollback,
                 deferred, auxDirty, finishing, aborted, changes>>

(* Q_GPIC: is the size of a picture known? *)
SizeKnown(f) == saved[f].level = "read" /\ pics[f] # Null

(* The worker obtains the size, hence observes what it was computed from,  *)
(* and skips the steps that would read it.  The driver does not record it. *)
Picture(f) ==
  /\ Receive("GPIC") /\ Message.file = f
  /\ LET p == StepDone(Answered(procs[Top]))
         known == [p EXCEPT !.view[f] = IF Len(@) < Len(pics[f]) THEN pics[f] ELSE @,
                            !.pc = procs[Top].pc + Message.arg + 1]
     IN  SetTop(IF SizeKnown(f) THEN Settled(known) ELSE p)
  /\ UNCHANGED <<prog, vfs, saved, seen, trace, fences, changing, rollback, deferred,
                 auxDirty, finishing, aborted, changes>>

(* Q_SPIC *)
KeepPicture(f) ==
  /\ Receive("SPIC") /\ Message.file = f
  /\ pics' = IF saved[f].level = "read" THEN [pics EXCEPT ![f] = Message.arg] ELSE pics
  /\ SetTop(StepDone(Answered(procs[Top])))
  /\ UNCHANGED <<prog, disk, fs, statted, edit, stash, saved, seen, trace, fences, changing,
                 rollback, deferred, auxDirty, finishing, aborted, changes>>

(* A fence stops the read that would cross it. *)
FenceBefore(f, pos) ==
  fences # <<>> /\ Last(fences).entry = f /\ Last(fences).position < pos

(* mutant: a fence that was met stays *)
FencesLeftMet == fences

(* The fences after the one that was met. *)
FencesLeft == Front(fences)

(* need_snapshot, when enough time has passed. *)
MaySnapshot ==
  /\ fences = <<>>
  /\ Top > 1 => Len(trace) # procs[Top - 1].len

(* A_FORK: txp_fork makes the buffers obsolete and sends the child. *)
Fork ==
  LET p == procs[Top]
  IN  /\ SetTop([p EXCEPT !.out = <<[tag |-> "CHLD", file |-> Null, arg |-> 0]>>,
                          !.buf = NoBuffers, !.flush = FALSE])
      /\ UNCHANGED <<prog, vfs, saved, seen, trace, changing, rollback, deferred,
                     auxDirty, finishing, aborted, changes>>

(* A_READ *)
Data(f, pos, n) ==
  LET p == Answered(procs[Top])
      read == SubSeq(EntryData(f), pos + 1, pos + n)
  IN  /\ SetTop(Settled(IF n = 0 THEN [p EXCEPT !.view[f] = Observing(@, pos, Eof)]
                                 ELSE [p EXCEPT !.buf[f] = read]))
      /\ UNCHANGED <<prog, vfs, saved, seen, trace, fences, changing, rollback,
                     deferred, auxDirty, finishing, aborted, changes>>

(* Q_READ *)
Read(f) ==
  /\ Receive("READ") /\ Message.file = f
  /\ LET pos  == Message.arg
         data == EntryData(f)
         size == Min({ReadSize, Len(data) - pos})
         room == Last(fences).position - pos
     IN  IF saved[f].level = "none" \/ data = Null THEN Abort("nodata")
         ELSE IF pos > Len(data) THEN Abort("past end")
         ELSE CASE FenceBefore(f, pos + size) /\ room < 0 -> Abort("fence")
                [] FenceBefore(f, pos + size) /\ room = 0 ->
                     Fork /\ fences' = FencesLeft
                [] FenceBefore(f, pos + size) /\ room > 0 -> Data(f, pos, room)
                [] OTHER -> \/ Data(f, pos, size)
                            \/ MaySnapshot /\ Fork /\ UNCHANGED fences

(* Q_SEEN *)
Seen(f) ==
  /\ Receive("SEEN") /\ Message.file = f
  /\ IF FenceBefore(f, Message.arg) THEN Abort("fence")
     ELSE /\ IF Message.arg > seen[f] THEN RecordSeen(seen, f, Message.arg)
                                      ELSE UNCHANGED <<seen, trace>>
          /\ SetTop([procs[Top] EXCEPT !.out = Tail(@)])
          /\ UNCHANGED <<prog, vfs, saved, fences, changing, rollback, deferred,
                         auxDirty, finishing, aborted, changes>>

(* decimate_processes keeps processes at exponentially growing distances   *)
(* from the beginning, then from the end of the trace.                     *)
EarlyKept(lens) ==
  FoldLeftDomain(
    LAMBDA acc, i : IF lens[i] >= acc.target
                    THEN [target |-> 2 * acc.target, keep |-> acc.keep \cup {i}]
                    ELSE acc,
    [target |-> Spacing, keep |-> {}], lens).keep

LateKept(lens, early) ==
  FoldRightDomain(
    LAMBDA i, acc :
      LET delta == 2 * acc.delta
      IN  IF lens[i] <= acc.target
          THEN [target |-> acc.target - delta, delta |-> delta,
                keep |-> acc.keep \cup {i}]
          ELSE IF i \in early
          THEN [target |-> lens[i] - delta, delta |-> delta, keep |-> acc.keep]
          ELSE acc,
    lens, [target |-> Last(lens), delta |-> Spacing, keep |-> {}]).keep

Kept(lens) == LET early == EarlyKept(lens) IN early \cup LateKept(lens, early)

(* mutant: no process is ever dropped *)
NoneDecimated(ps) == ps

(* The i-th element of a set of indices *)
Nth(keep, i) == CHOOSE k \in keep : Cardinality({j \in keep : j <= k}) = i

Decimated(ps) ==
  IF Len(ps) < MaxProcess THEN ps
  ELSE LET keep == DOMAIN ps \cap Kept([i \in DOMAIN ps |-> ps[i].len])
       IN  [i \in 1..Cardinality(keep) |-> ps[Nth(keep, i)]]

(* Q_CHLD: the child takes over, and the parent is its snapshot. *)
Child ==
  LET parent == [procs[Top] EXCEPT !.out = <<>>, !.asked = FALSE, !.flush = FALSE,
                                   !.len = Len(trace), !.copy = saved]
      below == Decimated([procs EXCEPT ![Top] = parent])
  IN  /\ Receive("CHLD")
      /\ procs' = Append(below, parent)
      /\ UNCHANGED <<prog, vfs, saved, seen, trace, fences, changing, rollback,
                     deferred, auxDirty, finishing, aborted, changes>>

(* The worker is gone: read_query closes the process. *)
Exit ==
  /\ Receive("EXIT")
  /\ SetTop([procs[Top] EXCEPT !.fd = FALSE, !.out = <<>>])
  /\ UNCHANGED <<prog, vfs, saved, seen, trace, fences, changing, rollback,
                 deferred, auxDirty, finishing, aborted, changes>>

(* prepare_process *)
Prepare ==
  /\ aborted = "no" /\ (changing => ResumeInBatch)
  /\ Top = 0
  /\ procs' = <<Launched>>
  /\ saved' = Restart
  /\ deferred' = Null
  /\ UNCHANGED <<prog, vfs, seen, trace, fences, changing, rollback, auxDirty,
                 finishing, aborted, changes>>

Step ==
  \/ \E f \in Entries :
       \/ OpenFound(f) \/ OpenVanished(f) \/ OpenMissing(f)
       \/ OpenDeferred(f) \/ OpenPromised(f)
       \/ OpenWrite(f) \/ Append_(f) \/ Close(f)
       \/ Read(f) \/ Seen(f)
       \/ Picture(f) \/ KeepPicture(f)
  \/ Child
  \/ Exit

-----------------------------------------------------------------------------
(* Transactions: begin_changes, the changes, end_changes *)

NotInTransaction == -2
Closed == [len |-> NotInTransaction, offset |-> -1, flush |-> FALSE]

(* rollback_begin does nothing when there is no worker. *)
BeginChanges ==
  /\ aborted = "no" /\ ~changing
  /\ changes < MaxChanges
  /\ changing' = TRUE
  /\ rollback' = IF Top = 0 THEN Closed ELSE [Closed EXCEPT !.len = Len(trace)]
  /\ UNCHANGED <<prog, vfs, saved, seen, trace, procs, fences, deferred,
                 auxDirty, finishing, aborted, changes>>

(* The loop of rollback_add_change, from len entries of trace tr: to the   *)
(* first point where the file had not been observed up to the change.  It  *)
(* has no other bound than the trace.                                      *)
Rewind(f, offset, sn, tr, len, flush) ==
  LET points == {k \in 0..(len - 1) : Reverted(sn, tr, k, len)[f] < offset}
  IN  IF points = {}
      THEN /\ aborted' = "trace"
           /\ seen' = sn
           /\ rollback' = [rollback EXCEPT !.flush = flush]
      ELSE /\ seen' = Reverted(sn, tr, Max(points), len)
           /\ rollback' = [len |-> Max(points), offset |-> offset, flush |-> flush]
           /\ UNCHANGED aborted

(* mutant: a pending SEEN is not taken into account *)
SynchronizeUnseen(f, offset) ==
  /\ IF procs[Top].out = <<>>
     THEN SetTop([procs[Top] EXCEPT !.fd = FALSE, !.killed = TRUE])
     ELSE UNCHANGED procs
  /\ rollback' = [rollback EXCEPT !.flush = TRUE]
  /\ UNCHANGED <<seen, trace, aborted>>

(* mutant: a killed worker is forgotten *)
SynchronizeQuietly(f, offset) ==
  /\ IF procs[Top].out = <<>>
     THEN /\ SetTop([procs[Top] EXCEPT !.fd = FALSE, !.killed = TRUE])
          /\ UNCHANGED rollback
     ELSE UNCHANGED procs /\ rollback' = [rollback EXCEPT !.flush = TRUE]
  /\ UNCHANGED <<seen, trace, aborted>>

(* process_pending_messages.  A worker with nothing to say in 10ms is      *)
(* killed; a pending SEEN is taken into account; a connection that the     *)
(* worker has closed aborts in channel_peek_query.                         *)
Synchronize(f, offset) ==
  LET p == procs[Top]
      m == Head(p.out)
      sn == [seen EXCEPT ![m.file] = m.arg]
      tr == Recorded(trace, seen, m.file)
  IN  CASE p.out = <<>> ->
             /\ SetTop([p EXCEPT !.fd = FALSE, !.killed = TRUE])
             /\ rollback' = [rollback EXCEPT !.flush = TRUE]
             /\ UNCHANGED <<seen, trace, aborted>>
        [] p.out # <<>> /\ m.tag = "EXIT" ->
             /\ aborted' = "closed"
             /\ UNCHANGED <<seen, trace, procs, rollback>>
        [] p.out # <<>> /\ m.tag = "SEEN" ->
             /\ SetTop([p EXCEPT !.out = Tail(@)])
             /\ IF FenceBefore(m.file, m.arg)
                THEN aborted' = "fence" /\ UNCHANGED <<seen, trace, rollback>>
                ELSE IF m.arg <= seen[m.file]
                THEN /\ rollback' = [rollback EXCEPT !.flush = TRUE]
                     /\ UNCHANGED <<seen, trace, aborted>>
                ELSE /\ trace' = tr
                     /\ IF sn[f] >= offset
                        THEN Rewind(f, offset, sn, tr, Len(tr), TRUE)
                        ELSE /\ seen' = sn
                             /\ rollback' = [rollback EXCEPT !.len = Len(tr),
                                                             !.flush = TRUE]
                             /\ UNCHANGED aborted
        [] OTHER ->
             /\ rollback' = [rollback EXCEPT !.flush = TRUE]
             /\ UNCHANGED <<seen, trace, procs, aborted>>

(* rollback_add_change: the data of f is not what it was from offset on. *)
AddChange(f, offset) ==
  IF rollback.len = NotInTransaction
  THEN UNCHANGED <<seen, trace, procs, rollback, aborted>>
  ELSE IF seen[f] >= offset
  THEN /\ Rewind(f, offset, seen, trace, rollback.len, rollback.flush)
       /\ UNCHANGED <<trace, procs>>
  ELSE IF /\ rollback.len = Len(trace)
          /\ ~rollback.flush /\ Alive(Top) /\ trace # <<>>
  THEN Synchronize(f, offset)
  ELSE UNCHANGED <<seen, trace, procs, rollback, aborted>>

Changing(f) ==
  /\ aborted = "no" /\ changing
  /\ changes < MaxChanges
  /\ changes' = changes + 1
  /\ UNCHANGED <<prog, saved, fences, changing, deferred, auxDirty, finishing>>

(* interpret_open *)
EditorOpen(f, data) ==
  /\ Changing(f)
  /\ edit' = [edit EXCEPT ![f] = data]
  /\ UNCHANGED <<disk, fs, statted, stash, pics>>
  /\ CASE edit[f] # Null -> AddChange(f, FirstDiff(edit[f], data))
       [] edit[f] = Null /\ f \notin Promised /\ fs[f] # Null ->
            AddChange(f, FirstDiff(fs[f], data))
       [] edit[f] = Null /\ f \notin Promised /\ fs[f] = Null /\ seen[f] >= 0 ->
            AddChange(f, 0)
       [] OTHER -> UNCHANGED <<seen, trace, procs, rollback, aborted>>

(* realize_change: the position of the edit is notified, whatever bytes it *)
(* puts there, so the contents may differ later only, or not at all.       *)
EditorChange(f, data) ==
  /\ Changing(f)
  /\ edit[f] # Null
  /\ edit' = [edit EXCEPT ![f] = data]
  /\ UNCHANGED <<disk, fs, statted, stash, pics>>
  /\ \E offset \in 0..FirstDiff(edit[f], data) : AddChange(f, offset)

(* interpret_close *)
EditorClose(f) ==
  /\ Changing(f)
  /\ edit[f] # Null
  /\ edit' = [edit EXCEPT ![f] = Null]
  /\ UNCHANGED <<disk, fs, statted, stash, pics>>
  /\ AddChange(f, IF fs[f] = Null THEN 0 ELSE FirstDiff(fs[f], edit[f]))

(* Another program writes or removes the file, at any time. *)
DiskChange(f, data) ==
  /\ aborted = "no"
  /\ changes < MaxChanges
  /\ disk[f] # data
  /\ disk' = [disk EXCEPT ![f] = data]
  /\ changes' = changes + 1
  /\ UNCHANGED <<prog, fs, statted, edit, stash, pics, saved, seen, trace, procs, fences,
                 changing, rollback, deferred, auxDirty, finishing, aborted>>

(* scan_entry and the change that it reports, one entry of detect_changes *)
Scan(f) ==
  /\ aborted = "no" /\ changing
  /\ saved[f].level # "none" /\ f \in statted /\ edit[f] = Null
  /\ OnDisk(f) /\ disk[f] # fs[f]
  /\ fs' = [fs EXCEPT ![f] = disk[f]]
  /\ pics' = [pics EXCEPT ![f] = Null]
  /\ AddChange(f, FirstDiff(fs[f], disk[f]))
  /\ UNCHANGED <<prog, disk, statted, edit, stash, saved, fences, changing,
                 deferred, auxDirty, finishing, changes>>

(* scan_entry, when the file was written again with the contents it had *)
ScanSame(f) ==
  /\ aborted = "no" /\ changing
  /\ saved[f].level # "none" /\ f \in statted /\ edit[f] = Null
  /\ OnDisk(f) /\ disk[f] = fs[f]
  /\ pics' = [pics EXCEPT ![f] = Null]
  /\ UNCHANGED <<prog, disk, fs, statted, edit, stash, saved, seen, trace, procs, fences,
                 changing, rollback, deferred, auxDirty, finishing, aborted, changes>>

-----------------------------------------------------------------------------
(* compute_fences: the resumed worker stops shortly before the change, and *)
(* at some of the positions that the trace recorded on its way there.      *)

RoundedDown(offset) == ((offset - Align) \div Align) * Align

PossibleFence(entry) ==
  entry.seen \notin {IntMax, -1} /\ saved[entry.entry].level # "write"

(* The snapshot to resume, -1 when the root has to be started again. *)
ResumePoint(back) == Max({-1} \cup {TraceLen(i) : i \in {j \in 1..Top : TraceLen(j) <= back}})

(* mutant: the first fence may be in what was already observed *)
FirstFenceBehind(back, offset) ==
  [entry |-> trace[back + 1].entry, position |-> Max({RoundedDown(offset), 0})]

FirstFence(back, offset) ==
  [entry |-> trace[back + 1].entry,
   position |-> Max({RoundedDown(offset), trace[back + 1].seen, 0})]

(* From the last entry of the trace to the first one *)
Fences(back, offset) ==
  {<<FirstFence(back, offset)>> \o
     [i \in 1..Cardinality(ks) |->
        LET e == trace[Nth(ks, Cardinality(ks) + 1 - i)]
        IN  [entry |-> e.entry, position |-> e.seen]] :
   ks \in {s \in SUBSET {k \in (ResumePoint(back) + 2)..back : PossibleFence(trace[k])} :
             Cardinality(s) < MaxFences}}

(* mutant: the snapshot to resume is dropped as well *)
GoneTooMany(i, target) ==
  TraceLen(i) >= target \/ (~Alive(i) /\ (procs[i].killed \/ TraceLen(i) = 0))

(* A process that has the change in its past is popped; a dead one is a    *)
(* resume point only if it ended by itself, with a trace.                  *)
Gone(i, target) ==
  TraceLen(i) > target \/ (~Alive(i) /\ (procs[i].killed \/ TraceLen(i) = 0))

(* rollback_processes: back is the length of the trace after the changes,  *)
(* target what the remaining processes may have in their past.             *)
Rollback(back, sn, target) ==
  LET n == Max({0} \cup {i \in 1..Top : ~Gone(i, target)})
      len == IF n = 0 THEN 0 ELSE TraceLen(n)
  IN  /\ procs' = SubSeq(procs, 1, n)
      /\ saved' = IF n = Top THEN saved
                  ELSE IF n = 0 THEN Restart ELSE procs[n].copy
      /\ trace' = SubSeq(trace, 1, len)
      /\ seen' = Reverted(sn, trace, len, back)
      /\ edit' = [f \in Entries |-> IF f \in stash THEN Null ELSE edit[f]]
      /\ stash' = {f \in stash : edit[f] = Null}
      /\ auxDirty' = FALSE /\ finishing' = FALSE
      /\ deferred' = Null

(* end_changes: rollback_end, then compute_fences and rollback_processes. *)
Flushing == rollback.len = Len(trace)

EndUnchanged ==
  /\ \/ rollback.len = NotInTransaction
     \/ Flushing /\ ~rollback.flush
  /\ UNCHANGED <<vfs, saved, seen, trace, procs, fences, deferred, auxDirty,
                 finishing, aborted>>

(* Nothing observed has changed: C_FLSH, for the buffers of the worker.    *)
(* Writing to a worker that has closed its end aborts.                     *)
EndFlush ==
  LET p == procs[Top]
  IN  /\ Flushing /\ rollback.flush /\ Alive(Top)
      /\ IF p.out # <<>> /\ Last(p.out).tag = "EXIT"
         THEN aborted' = "closed" /\ UNCHANGED procs
         ELSE SetTop([p EXCEPT !.flush = TRUE]) /\ UNCHANGED aborted
      /\ UNCHANGED <<vfs, saved, seen, trace, fences, deferred, auxDirty, finishing>>

(* The worker is dead: one more entry is reverted, to resume below it. *)
EndRollback ==
  LET dead == Flushing
      back == IF dead THEN Max({0, rollback.len - 1}) ELSE rollback.len
      sn == Reverted(seen, trace, back, rollback.len)
      offset == IF dead /\ back > 0 THEN trace[back + 1].seen ELSE rollback.offset
  IN  /\ rollback.len # NotInTransaction
      /\ ~Flushing \/ (rollback.flush /\ ~Alive(Top))
      /\ UNCHANGED <<disk, fs, statted, pics>>
      /\ IF back <= 0
         THEN fences' = <<>> /\ Rollback(back, sn, 0) /\ UNCHANGED aborted
         ELSE IF Len(trace) <= back
         THEN /\ aborted' = "rewind"
              /\ UNCHANGED <<edit, stash, saved, seen, trace, procs, fences,
                             deferred, auxDirty, finishing>>
         ELSE /\ fences' \in Fences(back, offset)
              /\ Rollback(back, sn, ResumePoint(back))
              /\ UNCHANGED aborted

EndChanges ==
  /\ aborted = "no" /\ changing
  /\ changing' = FALSE
  /\ rollback' = Closed
  /\ UNCHANGED <<prog, changes>>
  /\ EndUnchanged \/ EndFlush \/ EndRollback

-----------------------------------------------------------------------------
(* Convergence: typeset again with the auxiliary files of the last pass.   *)

(* Decided by the main loop when the user is idle. *)
StartFinishing ==
  /\ aborted = "no" /\ ~changing
  /\ RerunEnabled /\ auxDirty /\ ~finishing
  /\ finishing' = TRUE
  /\ UNCHANGED <<prog, vfs, saved, seen, trace, procs, fences, changing,
                 rollback, deferred, auxDirty, aborted, changes>>

Outputs ==
  {f \in Entries \ SystemOutputs :
     saved[f].level = "write" /\ saved[f].data # Null}

Unobserved == [f \in Entries |-> -1]

Finish ==
  /\ aborted = "no" /\ ~changing
  /\ finishing /\ ~Running
  /\ finishing' = FALSE /\ auxDirty' = FALSE
  /\ UNCHANGED <<prog, disk, fs, statted, pics, fences, changing, rollback, aborted,
                 changes>>

Relaunch ==
  /\ procs' = <<Launched>>
  /\ saved' = Restart
  /\ trace' = <<>>
  /\ seen' = Unobserved
  /\ deferred' = Null

(* mutant: what an earlier pass wrote is good enough *)
ConvergedAnyhow == \A f \in Outputs : f \in stash /\ edit[f] # Null

Converged ==
  \A f \in Outputs : f \in stash /\ edit[f] # Null /\ saved[f].data = edit[f]

(* The auxiliary files are stable: drop the dead process. *)
FinishConverged ==
  LET n == Max({0} \cup {i \in 1..Top : Alive(i)})
  IN  /\ Finish
      /\ Converged
      /\ UNCHANGED <<edit, stash>>
      /\ IF n = 0 THEN Relaunch
         ELSE /\ procs' = SubSeq(procs, 1, n)
              /\ saved' = procs[n].copy
              /\ trace' = SubSeq(trace, 1, procs[n].len)
              /\ UNCHANGED <<seen, deferred>>

(* They are not: keep them, and start again. *)
FinishAgain ==
  LET kept == {f \in Outputs : edit[f] = Null \/ f \in stash}
  IN  /\ Finish
      /\ ~Converged
      /\ edit' = [f \in Entries |-> IF f \in kept THEN saved[f].data ELSE edit[f]]
      /\ stash' = stash \cup kept
      /\ Relaunch

-----------------------------------------------------------------------------
Init ==
  /\ prog \in Programs
  /\ disk = Disk
  /\ fs = [f \in Entries |-> Null] /\ statted = {}
  /\ edit = [f \in Entries |-> Null]
  /\ stash = {}
  /\ pics = [f \in Entries |-> Null]
  /\ saved = Restart
  /\ seen = Unobserved
  /\ trace = <<>>
  /\ procs = <<>>
  /\ fences = <<>>
  /\ changing = FALSE
  /\ rollback = Closed
  /\ deferred = Null
  /\ auxDirty = FALSE /\ finishing = FALSE
  /\ aborted = "no"
  /\ changes = 0

Change ==
  \/ \E f \in EditorFiles :
       \/ \E data \in NewContents[f] : EditorOpen(f, data) \/ EditorChange(f, data)
       \/ EditorClose(f)
  \/ \E f \in DiskFiles :
       \/ \E data \in NewContents[f] \cup {Null} : DiskChange(f, data)
       \/ Scan(f) \/ ScanSame(f)

Next ==
  \/ Consume \/ Ask
  \/ Step \/ Prepare
  \/ BeginChanges \/ Change \/ EndChanges
  \/ StartFinishing \/ FinishConverged \/ FinishAgain

(* The worker runs, the main loop ends its transactions and steps the      *)
(* engine as long as pages are wanted (need_advance).                      *)
Fairness ==
  /\ WF_vars(Consume \/ Ask)
  /\ SF_vars(Step \/ Prepare)
  /\ WF_vars(EndChanges)

Spec == Init /\ [][Next]_vars
FairSpec == Spec /\ Fairness

-----------------------------------------------------------------------------
(* The state of the engine has its type. *)
TypeOK ==
  /\ disk \in [Entries -> Seq(Bytes) \cup {Null}]
  /\ fs \in [Entries -> Seq(Bytes) \cup {Null}]
  /\ edit \in [Entries -> Seq(Bytes) \cup {Null}]
  /\ stash \subseteq Entries /\ statted \subseteq Entries
  /\ seen \in [Entries -> -1..IntMax]
  /\ trace \in Seq([entry : Entries, seen : -1..IntMax])
  /\ Len(procs) <= MaxProcess
  /\ fences \in Seq([entry : Entries, position : 0..IntMax])
  /\ Len(fences) <= MaxFences
  /\ rollback.len \in {NotInTransaction} \cup 0..Len(trace)
  /\ deferred \in Entries \cup {Null}
  /\ Top > 0 => Top = 1 \/ procs[Top - 1].len <= Len(trace)

(* Outside of the transactions, no process of the stack has observed       *)
(* anything that is not what the files hold now: each one can be resumed.  *)
ViewsCurrent ==
  ~changing /\ aborted = "no" =>
    \A i \in 1..Top, f \in Entries : IsPrefix(procs[i].view[f], History(f))

(* The same of the files that the document does not write itself: a rollback   *)
(* forgets the auxiliary files of the last pass (clear_convergence_stash),     *)
(* which the processes that it keeps may have read.  A file that was missing   *)
(* may have appeared since: scan_entry looks at files that were read only.     *)
InputsCurrent ==
  LET created == {prog[i].file : i \in {i \in DOMAIN prog : prog[i].op = "create"}}
  IN  ~changing /\ aborted = "no" =>
        \A i \in 1..Top, f \in Entries \ created :
          \/ IsPrefix(procs[i].view[f], History(f))
          \/ f \in DiskFiles /\ IsPrefix(<<Absent>>, procs[i].view[f])

(* Bytes read ahead by the worker are those of the file, or it will drop   *)
(* them before it consumes any.  A worker that has ended consumes nothing: *)
(* a change of what it had only read ahead leaves it as it is.             *)
BuffersCurrent ==
  ~changing /\ aborted = "no" =>
    \A i \in {i \in 1..Top : Alive(i)}, f \in Entries :
      procs[i].flush \/ procs[i].buf[f] = <<>>
        \/ IsPrefix(SubSeq(procs[i].view[f], 1, procs[i].pos[f] + 1) \o procs[i].buf[f],
                    History(f))

(* What a process has told the driver it observed of a file. *)
Observed(i, f) ==
  LET v == procs[i].view[f]
  IN  IF v = <<>> THEN -1
      ELSE IF v = <<Absent>> THEN IntMax
      ELSE Cardinality({k \in DOMAIN v : v[k] \in Bytes})

(* The trace tells exactly what every snapshot had observed: reverting it  *)
(* down to the snapshot gives back the position of each file.              *)
TraceExact ==
  ~changing /\ aborted = "no" =>
    \A i \in 1..(Top - 1), f \in Entries :
      Reverted(seen, trace, procs[i].len, Len(trace))[f] = Observed(i, f)

(* reverting never runs past the beginning of the trace: this is what the  *)
(* comment of reset_seen_for_respawn is about.                             *)
TraceNotOverrun == aborted # "trace"

(* The worker never is beyond a fence that is pending for the file it reads *)
(* (the two mabort of Q_READ and Q_SEEN), and a rollback always goes back.  *)
FencesRespected == aborted \notin {"fence", "rewind", "past end", "nodata"}

(* A killed process is never left as a resume point, and the snapshots of   *)
(* the stack are alive.                                                     *)
Resumable ==
  /\ ~changing => \A i \in 1..Top : ~procs[i].killed
  /\ \A i \in 1..(Top - 1) : Alive(i)

(* Rolling back is incremental: every snapshot that a rollback drops had    *)
(* observed the change that made the trace go back that far.               *)
OnlyStaleDropped ==
  [][ EndRollback /\ changing /\ ~Flushing =>
        \A i \in (Len(procs') + 1)..(Top - 1) :
          Observed(i, trace[rollback.len + 1].entry) >= rollback.offset ]_vars

(* A worker never waits for an answer that nobody remembers to give: its   *)
(* query is in the channel, or it is the deferred one, which is only kept  *)
(* as long as that worker exists.                                          *)
DeferredAccounted ==
  ~changing /\ aborted = "no" =>
    (deferred # Null
       <=> Running /\ procs[Top].asked /\ procs[Top].out = <<>>)

(* The driver stops running the document again only when the last run has  *)
(* read in every auxiliary file what it has then written there.            *)
ConvergedIsStable ==
  [][ FinishConverged =>
        \A f \in Outputs :
          IsPrefix(procs[Top].view[f], <<Opened>> \o saved[f].data \o <<Eof>>) ]_vars

(* The driver survives a worker that ends while it applies changes (the    *)
(* abort of channel_peek_query).                                           *)
ClosedWorkerSurvived == aborted # "closed"

(* When the files no longer change, the document ends up typeset from what *)
(* they hold.                                                              *)
Typeset ==
  /\ Top > 0 /\ ~Running
  /\ \A f \in Entries : IsPrefix(procs[Top].view[f], History(f))
EventuallyTypeset == <>[](aborted # "no" \/ Typeset)
=============================================================================
