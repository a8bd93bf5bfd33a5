# TeXpresso in TLA+

TeXpresso (`src/`) is a live TeX viewer.  A *driver* (`src/src/frontend`) shows
the pages, talks to the text editor and feeds a *worker*: a patched XeTeX
(`src/src/engine`) whose file accesses are all queries to the driver.  The worker
forks from time to time; the forks that stay behind are snapshots.  When the
editor changes a file, the driver finds out which snapshots have already observed
the change, kills them, restores its own state, and resumes the last innocent
one.  The program is correct when this is *invisible*: the document is the one a
fresh run over the current files would produce.

This directory holds the TLA+ modules, the TLC configurations and the TLAPS
proofs about that machinery.  Line numbers are those of the files under `src/`.

## 1. Inventory

| Part | Code | State | Operations | Correct when |
|---|---|---|---|---|
| Undo log | `state.c`, `state.h` | log of records, `saved` of the file entries, cells, reference counts of the buffers | log an entry or a cell, snapshot, rollback | a rollback restores exactly the state of the snapshot; no buffer is freed or truncated under someone else |
| Incremental engine | `engine_tex.c` | stack of processes, trace, fences, transaction, deferred query, picture sizes, convergence flags | answer each query, fork, step, begin/add/end changes, rollback, decimate, finish a convergence pass | a resumed snapshot has seen nothing that has changed; the trace never runs out; the worker always comes back to life |
| Worker client | `engine/main/main.c`, `texpresso_protocol.c` | ids, inputs with their buffers and generation, pending SEEN, APND and stdout | getc, read, seek, size, ungetc, putc, write, flush, open, close | TeX sees plain files; what was consumed is reported before anything depends on it; outputs arrive once, in order |
| Socket protocol | `sprotocol.c`, `engine/main/fork.c` | a socket for each worker, one input buffer, one passed descriptor | read and peek a query, answer, reset, hand a child over | the buffer belongs to the worker on top; each descriptor reaches its process; nobody waits for the dead |
| Editor commands | `main.c`, `utf_mapping.h` | `edit_data`, delayed changes, promises, pause and rerun flags | open, change (by bytes, lines, ranges), close, register, resume, rerun | the copy is the text of the editor, and every change of what the worker may have read is notified with an offset not after it |
| Main loop | `main.c:4700`, `driver.c:41` | events and their flags, delayed changes, page shown, rerun counter | poll, read commands, transaction, advance, rerun, wait, handle an event | no change or event is lost, the page looked at ends up on screen |
| Standard input thread | `main.c:3485` | two pipes | wait for input, wake the main loop | no input is left waiting |
| DVI index | `incdvi.c` | offsets of the pages and fonts of an output that grows and is cut | update, reset, render a page | equal to an index of the output built from scratch |
| SyncTeX index | `synctex.c` | offsets of pages, inputs and their ends; a search in progress | update, rollback, set and find a target | same; the search only keeps what the output still says |
| Editor output | `editor.c` | none: the editor has a copy of the log, as bytes or as lines | append, truncate | the copy equals the worker's output |
| File table | `fs.c` | open-addressing table of entries | lookup, create, scan | one entry per path |
| Parsers | `json_parser.c`, `sexp_parser.c`, `prot_parser.c`, `dvi/vstack.c` | automata | feed | accepts the documented commands |
| Renderer, DVI interpreter, other engines, launcher, distributions, XeTeX | `renderer.c`, `dvi/`, `engine_dvi.c`, `engine_pdf.c`, `driver.c`, `common/`, `engine/` | | | output or vendored code, see "Not modelled" |

How they interact.  The main loop opens a transaction (`begin_changes`), reads
the commands of the editor, each of which changes `edit_data` and calls
`rollback_add_change`, scans the disk on request, and closes the transaction
(`end_changes`): nothing to do, or a C_FLSH message to the worker, or a rollback.
Then it steps the engine: one query of the top worker is read, answered and, by
answering, recorded in the trace and in the undo log.  The worker meanwhile runs
on its own on what it has buffered.  Nothing but the sockets is shared.

What is hard:

* *what the worker has consumed is known late*: SEEN messages leave with the next
  query, so during a transaction the driver has to drain or kill the worker;
* *three histories have to stay aligned*: stack of processes, trace and undo log
  are truncated together, by several code paths (rollback, convergence,
  decimation, death of a worker);
* *buffers read ahead* have to be dropped when the file changes behind them;
* *events*: at most one of each kind is queued, which a flag remembers; a thread
  and the loop share these flags; a change may wait for an event;
* *partial failures*: a worker ends or is killed at any point, files disappear;
* *deferred answers*: a promised file makes a worker wait for the editor;
* *convergence passes* feed the outputs of a run back as inputs;
* *one channel, many workers*: the buffer and the descriptor of the channel
  outlive the worker they come from, and three processes hold ends of the same
  socket while a child is handed over;
* *indexes of outputs that shrink*: pages, fonts, lines, a search and the copy of
  the editor all refer to bytes that a rollback takes away and a new run writes
  differently;
* *three ways to count*: the editor gives bytes, lines or UTF-16 units of a text,
  some changes late.

`PROJECT.json` lists the hazards at the lines where they bite, with the
properties that watch them.

## 2. Modules

| Module | Models |
|---|---|
| `Snapshots` | what the undo log promises: a map and a stack of full copies |
| `UndoLog` | `state.c`: records, marks, buffers with reference counts, in-place appends and truncations |
| `UndoLogProofs` | inductive invariant of `UndoLog`, and `UndoLog` implements `Snapshots`, proved |
| `TexEngine` | `engine_tex.c` with the worker, the editor, the disk and the convergence passes |
| `TexEngineProofs` | inductive invariants of `TexEngine`: stack, transaction, deferred query, trace, proved |
| `TexEngineViews` | what the workers of `TexEngine` have observed is what the files hold, and the trace tells it, proved |
| `OpenFiles` | what TeX is promised by its input layer: files that are open at a position |
| `WorkerIO` | the input and output layer of the worker: `main.c`, `texpresso_protocol.c`; implements `OpenFiles` |
| `WorkerIOProofs` | inductive invariant of `WorkerIO`: what TeX has read stays true, and `WorkerIO` implements `OpenFiles`, proved |
| `Channel` | `sprotocol.c`, `fork.c` and the part of `engine_tex.c` that owns the processes: who holds which socket |
| `ChannelProofs` | inductive invariant of `Channel`: conversations and descriptors, proved |
| `Outputs` | `incdvi.c`, `synctex.c`, `editor.c` beside outputs that grow, are cut and grow again |
| `OutputsProofs` | inductive invariants of `Outputs`: the indexes of the pages and of the SyncTeX lines are those of the outputs, the editor has the log, proved |
| `MainLoop` | the loop of `main.c`, `schedule_event`, the change buffer and the stdin thread |
| `MainLoopProofs` | events are never lost, changes are applied in order, proved |
| `EditorText` | the commands that share files: paths, positions, delayed changes, what is notified |
| `EditorTextProofs` | inductive invariant of `EditorText`: what TeX has read stays true, proved |
| `MC...` | the small instance of each module that TLC checks |

The modules are views of one system, cut where it has an interface.  `TexEngine`
has the engine in detail and a coarse worker; it lets the main loop call it in any
order its guards allow.  `MainLoop` has the loop in detail and abstracts the
engine to what the loop asks of it.  `WorkerIO` has the worker in detail, and a
driver that answers, changes files beyond what was reported, and forks: this is
the behaviour of the driver that `ViewsCurrent` of `TexEngine` establishes.
`Channel` has only tags and descriptors, but all processes at once.  `Outputs`
has only outputs, and lets rollbacks take them back to any snapshot.
`EditorText` has the commands, and lets TeX go back to any point before the
change, which is what `TexEngine` is shown to do with an offset.

### UndoLog

A mark of the log is a byte offset in the code; a record has a fixed size per
kind, so the model counts records.  `obj` is `fileentry_t.saved` and
`filecell_t`; `heap` and `refs` are the fz_buffers.  Each handler that logs
(`Q_OPRD`, `Q_OPWR`, `Q_APND`, the cells) is an action: log the old value if the
object has not been logged since the last snapshot, then assign.  `log_rollback`
is a loop and is modelled with one step per record (`RollbackBegin`, `Pop`,
`RollbackEnd`), since its aborts are in the loop.  `decimate_processes` drops
snapshots without touching the log: `Forget`.  `log_overwrite` has no caller and
is left out.  `Q_OPWR` never drops the previous buffer (it leaks): reference
counts are therefore only bounded from below.

### TexEngine

| Variable | Code |
|---|---|
| `procs` | `processes[]`; `fd` (connection open), `killed`, `len` = `trace_len`, `copy` = what `snap` restores; and the worker itself: `pc`, `pos`, what it has observed (`view`), read buffers `buf`, SEEN messages not sent `unsent`, messages in the socket `out`, waiting for an answer `asked`, C_FLSH in the socket `flush` |
| `trace`, `seen`, `saved` | `trace[]`, `e->seen`, `e->saved` (by value: `UndoLog` is proved to restore it) |
| `fs`, `statted`, `edit`, `stash` | `e->fs_data`, `e->fs_stat`, `e->edit_data`, `e->edit_data_from_convergence` |
| `pics` | `e->pic_cache`: what the size of a picture was computed from |
| `fences`, `changing`, `rollback`, `deferred`, `auxDirty`, `finishing` | the fields of `struct tex_engine` |
| `aborted` | `"no"`, or which `abort`/`mabort` or out-of-bounds access is reached |
| `disk`, `prog`, `changes` | the environment: file system, document, bound |

`view[f]` is a history of what TeX has observed of `f`: nothing, that it is
missing, or that it was opened followed by its bytes and possibly its end.  A
view is current if it is a prefix of what the file holds (`History`).

The worker has two actions: `Consume` (a byte of the buffer) and `Ask` (send
pending SEEN messages and a query).  The driver has one action per query
(`OpenFound`, `OpenMissing`, `OpenDeferred`, `OpenVanished`, `OpenPromised`,
`OpenWrite`, `Append_`, `Close`, `Read`, `Seen`, `Picture`, `KeepPicture`, `Child`,
`Exit`), `Prepare` to
start a worker, `BeginChanges`, one action per command of the editor
(`EditorOpen`, `EditorChange`, `EditorClose`), `Scan` and `ScanSame` (a file written
again with the contents it had only loses its picture size), `EndChanges` (with its
outcomes `EndUnchanged`, `EndFlush`, `EndRollback`), and the convergence
(`StartFinishing`, `FinishConverged`, `FinishAgain`).  `DiskChange` is the
environment.

The document is a program: open, read up to a position, close, create, append,
ask for the size of a picture, or keep it (`FindPicture` is `find_pic_file` of
`xetex-pic.c`: a size that is known spares opening the picture).  A size is
represented by the bytes it was computed from, which is what TeX observes of the
picture when the driver hands it out.
A read beyond the end observes the end.  What is appended to an output depends
on what was read (`LastByte`), so that stale inputs give wrong outputs.

Abstractions, all of which add behaviours unless noted:

* time: whether enough time has passed for a snapshot (`need_snapshot`), and
  where fences are put between the resume point and the change, are free choices
  within the limits of the code;
* a worker that is silent during a change is killed (`poll` of 10 ms): in the
  model it is killed exactly when its socket is empty, whatever it is doing;
* the copy of a worker made by `Fork` starts with the state of its parent and
  empty buffers, as `txp_fork` does with its generation number;
* `detect_changes` scans one entry at a time, other commands may come in between;
* one restriction: `Load` reads a file and takes its stat (engine_tex.c:661) in one
  step.  In the code a file that is written between the two keeps a stat that is not
  that of its contents, and no scan notices it;
* the loop over stdin commands is a sequence of `Change` steps;
* the number of reruns (MAX_RERUNS) is not bounded;
* positions of the editor are not modelled: a change gives the new contents, and
  the offset notified is the first difference.  For `realize_change`, which
  compares too, this is exact; an insertion notified at its own position would
  only be notified later than the first difference if the bytes agree;
* restrictions: a worker ends only at the end of its document (`EXIT`), there is
  one document per behaviour, a picture is asked for in one way only (type and
  page), `Q_SIZE` (in `WorkerIO`), `Q_MTIM` and writing to stdout are left out;
* ids of files are left out (they are in `WorkerIO`): in stream mode, a query for a
  file that is gone leaves its cell filled, and the next open with this id aborts;
* `Promised` is fixed: `register` is assumed to come before the document starts.
  `OpenPromised` on a worker that died meanwhile needs a (resume) within a
  transaction and is left out.

### WorkerIO and OpenFiles

| Variable | Code |
|---|---|
| `inputs` | `txp_input`: file, id, `file_pos`, `buf`, `buf_pos`, `file_size`; `current` says whether its generation is that of the client |
| `client` | `txp_client`: file and position of the pending SEEN, `append_file`, `append_buf`, `stdout_buf` |
| `allocated`, `outs` | the table of ids (16 cells of 64 bits), ids of the outputs |
| `todo`, `want` | the messages the current call has sent and not had answered, and what it does then |
| `content`, `seen`, `received`, `table`, `fresh` | driver: file data, `e->seen`, what APND brought, `st.table`, files whose `debug_rollback_invalidation` is 0 |
| `viewed`, `written`, `sought` | history: what TeX knows of each file, what it wrote, where it jumped |

A call of TeX (`Open`, `Close`, `GetC`, `Read`, `Seek`, `GetSize`, `Ungetc`,
`OpenWrite`, `CloseWrite`, `PutC`, `Write`, `Flush`) runs up to its query; the
`Answer...` actions are the driver's side and the rest of the call.  `Pending`
sends SEEN, then stdout, then APND, in the order of `txp_flush_pending`.
`AnswerFork` is a fork, everything the child does, and its death: the parent asks
again, with every buffer obsolete and files that may have changed where they were
not seen.  `Change` puts a C_FLSH before the next answer.

The bits of an id are tested and cleared with `1 << offset`, a shift of an `int`
(`Shifted`: modulo its width, the last bit extends); what a shift beyond the
width does is not defined, so both outcomes are possible (`AnswerClose`).

Kept as the code has it: the first READ of a file must be at 0, else the driver
stops (`early`, engine_tex.c:752); a READ after the end stops it (`past`); ids of
outputs are never released (main.c:620); `file_size` is asked once (main.c:424);
`getc` at the end of a file reports nothing, so after a seek an end that was met
may change.  `OpenFiles` has none of this: `ImplementsFiles` maps the position of
a handle to `At` (buffer start plus use), and shows that every step is an open, a
close, a move, a read of what the file holds, or a change where nobody looked.

Restrictions: `Interrupts = FALSE` keeps files from changing while a SEEN is being
sent after its bytes were taken; the run `reported` shows what happens then.
Names are not looked up in inclusion paths; format files and diagnostics are reads
and writes like others.

### Channel

Each worker has a socket: `up` holds the words it sent, `down` the answers.  The
driver has one `input` buffer, always of the worker on top, and `passed`, the
descriptor that came with the last bytes.  `status` is what a worker does; `child`
and `kept` are the last child of a worker and whether its parent still holds the
driver's end (`fork.c` keeps it until the driver has acknowledged, so that the end
of the message is not taken for the end of the connection).

`Consume` is `refill_at_least`: a read may bring more than it needs, with the
descriptor; a `READ`, `SEEN`, `APND` or `CHLD` query is read, answered with data,
DONE or FORK, and flushed (`StepSeen`, `StepRead`, `StepAppend`, `StepChild`,
`StepEnd`).  `Peek` is what a transaction does (`process_pending_messages`): look,
kill a worker that has nothing to say, abort if it has closed its socket.
`Rollback` pops processes and resets the buffer, not the descriptor.  `Exit` is
the end of the driver at any time.  Workers (`Tell`, `Query`, `Receive`, `Acked`,
`Resume`, `Finish`, `CutOff`) run on their own.

Messages are counted in words of four bytes; which snapshot decimation drops, and
when the driver asks for a fork, are free choices.  `PopForking = FALSE` keeps a
worker whose CHLD was half received from being popped: `passed_fd` shows why.

### Outputs

`out` are the outputs as the driver has them: `mem` is all that the buffer
contains, `len` how much of it counts, since a rollback only shortens it.  `dvi`,
`stex` and `search` are `incdvi_t` and `synctex_t`; `shown` is what the editor
has put together from `append` and `truncate` messages, in both modes.  The
worker writes any prefix of its program (`AppendDocument`, `AppendSynctex`,
`AppendLog`), and the driver updates the indexes as in `Q_APND`.  `Rollback` and
`FinishAgain` cut everything and tell every index (`Told`), `FinishConverged` cuts
without telling.  `behind` remembers which indexes were not told: the properties
speak of the others.

A byte is a record: of DVI the operations the index tells apart, `pre`, `bop`,
`eop`, fonts, characters and operands; of SyncTeX the first byte of a line and its
end.  A font definition may be cut between its two bytes, a line of the log
anywhere.  TeX only waits for input (hence forks) after the end of a page and
between lines of SyncTeX (`Between`; xetex-shipout.c:2466, `dvi_eop`).  Columns and boxes of a
SyncTeX search, page dimensions and links are left out: they read a page and keep
nothing.  Both modes of the log are followed at once; BUF_OUT works as BUF_LOG.

### EditorText

`text` is the editor: characters of one to four bytes.  `edit` is `edit_data`,
bytes.  A command is encoded as the editor does and decoded as `realize_change`
does: `ByteSpan`, `LineSpan` (loops over ends of lines), `RangeSpan` (lines, then
`utf16_to_utf8_offset`), `Delay` or `Realized` after what was `delayed`.
`RelativePath` is `relative_path`, that compares characters.  `observed` is what
TeX has read of each file; `Notified` is `notify_file_changes`, after which TeX
goes back to the offset.  The driver has loaded a file from the disk when TeX
opened it (`loaded`).

On the other side `At`, `LineBegins` and `Between` say what the editor means by a
position, in characters, from their definition and not by walking.  A change by
lines or columns that designates nothing changes nothing; changes by bytes are at
the boundaries of characters.  For a column after an end of the buffer that ends no
line, the code reads bytes beyond the buffer before it returns NULL
(utf_mapping.h:27), whatever they are; `ColumnOffset` returns -1 at the end.
A relative path may stop the driver (`PathAborts`), also when a delayed change is
flushed (`FlushAborts`); the paths of `editor_text` are absolute.  Promises and convergence are in `TexEngine`.

### MainLoop

`pc` is the place in the iteration: `poll` (SDL_PollEvent), `stdin` (commands,
then `EndStdin` for end_changes), `document` (`Document`: advance, end of a
convergence pass, on-demand rerun), `wake` and `waiting` (the byte to the thread,
SDL_WaitEvent), `handle`.  `scheduled` holds the static flags of
`schedule_event`, which are reset when an event is handled.  The thread has five
steps, and takes three to test its flag (`ReadFlag`), set it (`SetFlag`) and push the
event (`Push`); the main loop takes one, because what the thread does in between
commutes.  `delayed`, `applied`, `input` hold
changes by number, in the order they were written.

The engine is a record: number of pages, whether it runs, and the two flags of
convergence.  `Advanced` types any number of pages among those `need_advance`
asks for, or ends the document; when the last step failed, `advance_engine` returns
the need there was before it (`Advances`), and the loop iterates once more; a rollback goes back to any number of pages
(`Changed`), and may happen whenever something was notified.  `view` is the
current slot of the renderer: its page, whether it is stale and whether it has
been presented.

Restrictions: neighbor pages, animations, SyncTeX targets, pause, the events of
the user, SIGUSR1 and the end of the standard input are left out.  Without the
user, the loop has only its own events to wake it up, which is the case the
liveness properties are about.  (rerun t) is in force from the beginning.

## 3. Runs

`tlc -config X.cfg M`, with the module of the table; each finishes within
two minutes and a half with two workers, but `worker_io` and `channel`, which take
about three.

| Run | Config, module | Question |
|---|---|---|
| `undo_log` | `MCUndoLog`, `MCUndoLog` | does the log behave like full copies, never abort, never free too early? |
| `engine_editor` | `MCEditor`, `MCTexEngine` | edits of two files while the worker reads ahead, forks, is killed |
| `engine_disk` | `MCDisk`, `MCTexEngine` | files that change or disappear on disk, one that was promised, a picture, convergence passes with an auxiliary file |
| `main_loop` | `MCMainLoop`, `MCMainLoop` | changes, page turning, rescans and reruns in any order with events and the thread |
| `worker_io` | `MCWorkerIO`, `MCWorkerIO` | buffers, positions, ids and pending output of a worker whose files change |
| `channel` | `MCChannel`, `MCChannel` | workers that fork, are resumed, killed and abandoned while messages are in flight |
| `outputs` | `MCOutputs`, `MCOutputs` | outputs that are cut and written differently, with their indexes |
| `editor_text` | `MCEditorText`, `MCEditorText` | commands of the editor on a text with wide characters |
| `lost_event`, `reported`, `passed_fd`, `converged_outputs` | | findings of section 5: each violates one property |

Properties of `engine_editor`:

* `ViewsCurrent`: once the changes are applied, no process of the stack has
  observed anything that is not in the files.  This is what incrementality is
  about; it fails if a SEEN message is ignored or an offset is too high.
* `BuffersCurrent`: what a live worker has buffered is current or will be dropped
  first.  A worker that has ended is left out: it keeps what it had read ahead when
  that part of the file changes (a document may end before its files do).
* `TraceExact`: reverting the trace down to a snapshot gives back precisely what
  this snapshot had observed of every file.
* `TraceNotOverrun`, `FencesRespected`: the loops over the trace stop in the
  trace, and the aborts about fences are not reachable.
* `Resumable`: only the top may be dead, and a killed worker is never resumed.
* `OnlyStaleDropped`: a rollback drops no snapshot that had not observed the
  change (otherwise starting from scratch would satisfy everything else).
* `EventuallyTypeset`: when the changes are over the document ends up typeset
  from what the files hold.

`engine_disk` adds `DeferredAccounted`: a worker with no query in its socket is
exactly one whose deferred query is remembered; `ConvergedIsStable`: the driver
stops only when the last pass has read what it wrote, even if edits come between
passes; and `InputsCurrent`, which is `ViewsCurrent` without the files that the
document writes itself and those of the disk that were missing, for which
`ViewsCurrent` does not hold (engine_tex.c:1028 and 1283): no property of a passing
run covers these two.

Properties of `main_loop`:

* `ScheduledPendingUnlessRerun`: a flag that is up has its event in the queue, in
  the hands of the loop, or about to be pushed by the thread; otherwise `schedule_event` would ignore this event for
  ever.
* `InOrder`: what was applied, what is delayed and what is not read yet are, in
  this order, exactly the changes that were written.
* `InputReadUnlessRerun`: whatever the thread is doing when input arrives, it is
  read.
* `PageShownUnlessRerun`: once the editor is done, the page the user looks at is
  on screen as last typeset, if it exists.

The first, third and fourth are restricted to editors that do not send
(rerun-once): `lost_event` shows why.

Properties of `worker_io`:

* `ObservedCurrent`: every byte TeX has read and every end it has met is still
  what the file holds, across C_FLSH, seeks and forks.  It fails if one input
  keeps its buffer, or if a SEEN is late.
* `ImplementsFiles`: the same from the side of TeX: reading is reading a file at a
  position (refinement of `OpenFiles`).
* `OutputExact`: what the driver has, what is underway and what is buffered are
  exactly what TeX wrote, in order (for stdout, which has two buffers, without
  the order).
* `AbortsExplained`: the checks that stop worker or driver are reached only when
  ids run out because of closed outputs, because of the `int` shift, or after a
  seek; an id never collides.

Properties of `channel`:

* `BufferOfTop`: what the driver is about to parse comes from the worker on top,
  from the beginning of a message.
* `DescriptorsMatch`: a descriptor comes with every CHLD and finds no other.
* `WorkersEndWell`: no worker gets an answer it does not expect, or loses its
  connection while the driver talks to it.
* `OrphansEnd` (liveness): a worker that nobody can reach ends.

Properties of `outputs`: `DviExact`, `SynctexExact`, `EditorExact` compare each
index, and the copy of the editor, with one built from the bytes that remain, as long
as no converged pass has left it behind (that case is `converged_outputs`);
`RenderedRight` compares what a page was drawn with, fonts included; `SearchSound`
says that the candidate of a search is on a page of the output, the nearest of its
page, and that no page that was passed has the line searched for.

Properties of `editor_text`: `CopyExact`, the bytes of the driver encode the text
of the editor once nothing is delayed; `ReadCurrent`, TeX has observed nothing
that is not in the files: no offset notified is late.

### Bounds

`MCUndoLog`: two entries, one cell, two buffers, three records, three marks: a
buffer shared by two records, a buffer replaced, two nested snapshots and a
forgotten one all occur.  Symmetry on entries and buffers is sound: nothing
distinguishes them and only safety is checked.

`MCTexEngine`: two files of at most four bytes over two values; documents that
include a file halfway, read two files alternately, read a file again, or write an
auxiliary file, or show a picture twice.  Two changes in `engine_editor` and
three in `engine_disk`, in as many transactions or in one.  `ReadSize` (1024 in the code) is 2 or 3, so a file takes several reads
and SEEN messages come late.  `Align` (64) is 1, so fences differ.
`MaxProcess` (32) is 4 and `Spacing` (32) is 3: decimation really happens;
the mutant without it breaks `TypeOK`.  `MaxFences` keeps its value.  `IntMax` is
any number above the lengths.

`MCMainLoop`: four editors, of up to three commands: changes delayed or not with
page turning, rescans and forward searches, idle reruns, on-demand reruns.  Two
pages, a buffer of one delayed change (64 in the code), a pipe of one byte (the
loop then blocks in `Wake`, which a real pipe hardly does), one idle rerun (5).

`MCWorkerIO`: two inputs, one of which may lose its last byte, two handles
(interchangeable: only safety is checked), an output and stdout.  `BufSize` 3
(1024) against reads of 2 and 3, so that reads are served from the buffer, fill
it, or bypass it; `PendSize` 1 (4096) and writes of one and two bytes, so that
every buffer overflows; one cell of three bits with ints of two (16 cells, 64 and
32), so that ids run out and an id is beyond an int.  `MaxEffort` bounds the calls
other than reads and closings.

`MCChannel`: three workers, two on the stack at a time, a buffer of two words:
enough for a grandchild, a decimation, and a message that is half received.
`passed_fd` takes four workers: two children are needed.

`MCOutputs`: for each output two versions of the document that agree on their
first page (or lines), one snapshot, two rollbacks and one convergence pass.  One
output at a time is written, since indexes share nothing.

`MCEditorText`: two files, one in the directory of the document and one out of it;
texts with characters of one, two and four bytes, with and without a last line
end; three commands; all changes by bytes, lines and columns that fit two lines of
two units; at most two delayed changes of at most twelve bytes (64 and 4096).

Every passing run sets CHECK_DEADLOCK FALSE: the system rests when the document
is typeset and the bound on changes (records, commands, calls) is reached, when
every worker has ended, or when the loop waits for an event.

### Fairness

`WF(Consume \/ Ask)`: the worker is a process that runs.  `WF(EndChanges)`: the
main loop always closes the transaction it opens, in the same iteration.
`SF(Step \/ Prepare)`: each iteration steps the engine after its transaction
(`advance_engine`), as long as pages are wanted (`need_advance`); the step is
disabled again and again by transactions, hence strong fairness.  The property
is thus about a viewer that is not paused and whose user wants the last page.
The editor, the disk and the decisions of the user have no fairness.

In `MainLoop`, `WF(Main)` and `WF(Thread)`: two threads that the system schedules.
`SF(Progress)`: an engine that is stepped again and again types a page or ends
the document; a step that only answers a query does neither, and edits disable
it now and then.

In `Channel`, `WF(Work(w))` for each worker: TeX goes on until it ends or asks, and
processes are scheduled.  Nothing is assumed of the driver, which may never read.

## 4. Proofs

The theorems hold for every value of the constants that satisfies the assumptions
of the modules: any sets of files, handles, workers or buffers, any contents, any
size of buffer, stack or log.  The assumptions only say that the sets are told from
each other and that sizes are positive.  The inductive invariants were checked by
TLC on the runs before they were proved.

**`UndoLog`** (`UndoLogAssumption`: entries and cells are disjoint finite sets, and
NULL is neither a buffer nor a content).

* `UndoLogProofs!LogInvariantHolds`: `LogInvariant` is inductive.  Why each part
  is needed: that popping stops exactly on the mark (`NoAbort`) needs marks to be
  ordered and below the log (`MarksOrdered`); not logging an object twice is safe
  because a tag is backed by a record (`TagsBacked`); truncating in place is safe
  because a buffer belongs to one object (`PrivateBuffers`) and still holds the
  prefixes the records want (`PrefixesKept`); that a *new* buffer is private is
  known because a count of 0 means no holder (`ReferencesCovered`).
* `ReferencesAlwaysCovered` and `RollbackNeverAborts` are corollaries.
* `UndoLogProofs!UndoLogImplementsSnapshots`: with the refinement mapping
  `Restored(m)` (the value held by the oldest record above mark m, or the current
  value), every step is a step of `Snapshots` or a stutter: assignments change no
  `Restored(m)` of an older mark, snapshots copy, `Forget` removes a copy,
  `RollbackBegin` is the abstract restore and the pops stutter.

**`MainLoop`** (`MainLoopAssumption`).

* `MainLoopProofs!EventsNeverLost`: `ScheduledPendingUnlessRerun`.  The invariant
  adds that there is no event in hand where one is taken (`poll`, `waiting`), and
  that `rerun_once_pending` is only set by an editor that sends (rerun-once): these
  are the two ways to drop an event.
* `ChangesInOrder`: `InOrder`.  What is written is given by the number of the
  change, so that "in this order" is that the three sequences, put together, are
  the changes written so far; a change is delayed only if there is room, and the
  ones that are delayed leave before the next one.
* `LoopTyped`: `TypeOK`.

**`Channel`** (`ChannelAssumption`).

* `ChannelProofs`, `Inv`: the stream of a worker (what is in the input buffer if
  it is on top, then what is in its socket) is made of whole messages, a query is
  the last one and comes with what the worker is doing (`Says`); it is answered
  only after it was read, and at most one answer is underway (`Awaited`); a
  worker is on the stack once, and only the top one may be gone; the end of a
  child that was sent is held by its parent until it is received; the descriptor
  that waits is that of a CHLD in the buffer.  `BufferOfTop` alone is not
  inductive: `channel_reset` empties a buffer whose remainder belongs to a message
  that the next worker did not send, and only the shape of the whole stream says
  that the next worker starts at a tag.
* `ConversationsNotMixed` (`BufferOfTop`), `WorkersNotLost` (`WorkersEndWell`) and
  `ChannelTyped` (`TypeOK`) follow; `DescriptorsPaired` (`DescriptorsMatch`) has
  the hypothesis `~PopForking`: the driver pops no worker whose CHLD was peeked at,
  which is what `passed_fd` shows to be needed and what the passing run has.

**`WorkerIO`** (`WorkerIOAssumption`, and `ClosedAssumption`: the mark of a closed
handle is no handle).

* `WorkerIOProofs`, `Inv`: the driver has under an id what the worker has under it,
  and no id is used twice (`IdsInv`); reports come first and queries last in what
  is to be sent, and each query is that of the call in progress (`TodoInv`); a
  C_FLSH that is underway will be met with an answer (`FlushInv`); a buffer of the
  current generation holds what the file holds there (`BufInv`); what TeX took is
  known to the driver, underway, or pending (`SeenInv`).
* `ReadsStayTrue`: `ObservedCurrent`, from `BufInv` (what is taken is true when it
  is taken) and `SeenInv` (what was taken is not changed afterwards).
  `ReadsReported`: `SeenInv` by itself.  `WorkerTyped`: `TypeOK`.
* `WorkerIOProofs!WorkerImplementsFiles`: `ImplementsFiles`.  A position is
  `file_pos + buf_pos` whatever is buffered; taking bytes is an abstract read,
  refills, messages and flushes stutter, a change of the driver is an abstract
  change beyond what TeX has looked at.
* `ReadsStayTrue` and `WorkerImplementsFiles` have the hypothesis `~Interrupts`: no
  file changes while what TeX just read is being reported.  `reported` shows that it
  is needed; the passing run has it.
* `WorkerAbortsExplained`: `AbortsExplained`, from `Explained`: until something gives
  up, an id that names something is that of an open input, of an open output, or of
  a close that is underway, an id that is not allocated names nothing, and messages
  are about names that are known (`NamesInv`); an input that did not seek is inside
  its file, and at its beginning if the driver never saw the file (`PlaceInv`).  When
  no id is free for what is being opened, there are fewer open inputs and outputs
  than ids, so that a closed output holds one (`IdHeld`).  Besides `~Interrupts`,
  which `PlaceInv` needs, the hypothesis is `Roomy`: an id for each input and each
  output that can be open at once.  The code has 1024; the run has just as many as
  it needs.

**`TexEngine`** (`TexEngineAssumption`; `ProgramsAssumption`: a document writes in
files it has created, and a picture skips steps that exist).

* `TexEngineProofs!StackOfSnapshots`: `Inv`, which is `Typed`, `StackInv`,
  `RollbackInv` and `DeferredInv`.  `Resumable` alone is not inductive: a killed
  worker is popped only because the transaction remembers that it was killed
  (`RollbackInv`: `flush` is set and `len` is that of a transaction), and because
  the top process always is above the snapshot to resume, which needs snapshots to
  own less and less of the trace from the top down (`StackInv`), through forks and
  decimations (`Decimated` keeps the order of the processes it keeps:
  `DecimatedOrdered`).  That a fork leaves a snapshot with nothing to say needs to
  know what a worker may have said (`Speaking`).
* `AlwaysResumable` (`Resumable`) and `NoAnswerForgotten` (`DeferredAccounted`)
  follow; `FencesRespected` is proved for its part `"rewind"` (`RollbackInv`).
* `TraceSuffices`: `TraceNotOverrun`, with `TraceInv`: undoing the trace from the
  length that `seen` tells about (`Reference`: that of the transaction, else all
  of it) leaves no file observed.  It is kept by recording
  (`RecordedReverted`: an entry is reused only where the one that is kept is
  reverted too), by going back in several times (`RevertedTwice`) and by cutting.
  The loop of `rollback_add_change` then always meets a point where the file was
  not observed up to the change.  The hypotheses are `~ResumeInBatch` and
  `~RerunEnabled`; `MCResumeInBatch` and `MCRerunOverrun` show that both are needed.
* `TexEngineViews!WorkersReadWhatIs`: `InputsCurrent`, the property the engine exists
  for.  `InputsCurrent` is far from inductive: while changes are applied, workers
  have observed what is no more, and only the trace says which.  `ViewsInv` adds to
  `Inv` and `TraceInv`:
  * `Snapshots`: reverting the trace down to a snapshot gives, of each input, a
    position that its view reaches exactly, as long as the transaction does not go
    back beyond that snapshot (`Reference`): this is where what is observed, what
    was reported, and what the trace keeps meet;
  * `Grows`: positions only grow along the trace.  A change that goes back to where
    its file was not observed up to the offset therefore goes back for all later
    snapshots too, and a snapshot that is kept has not observed it;
  * `Runs`, as long as no change concerns the worker that runs (`Innocent`): its
    view is what was recorded, what is in its socket and what is still to be sent,
    in this order; its buffers continue its view, or a C_FLSH is on its way;
  * `Levels`: an entry that was loaded for a snapshot is loaded for the later ones,
    since `Q_OPRD` falls back on the stash, the editor, then the disk only once;
  * `Sources`, `Recording`, `Shapes`: where contents come from, that a transaction
    with a worker goes back from a recorded length, and the types of views.

  One lemma per action keeps it.  The difficult ones are the notification of a
  change (`rollback_add_change` undoes the trace just enough, over several changes
  of several files in one transaction), `EndRollback` (what is dropped, and what the
  resumed snapshot restores) and `EndFlush`, where pending SEEN messages of a worker
  that is kept are read first.
* The hypothesis on the constants is `PlainSession`: the engine is not stepped in a
  transaction (`MCResumeInBatch`), documents are not typeset again
  (`MCRerunOverrun`), no file is promised (`MCPromisedOpen`) and no picture is asked
  for (`MCPictureSize`).  The one on the behaviour is `[]OnePending`: in a
  transaction the worker on top has said at most one thing besides its query, since
  the loop of `start_changes` reads one (`MCPendingSeen`).  Each of the five has the
  counterexample named here, a defect of section 5 rather than a convenience of the
  proof, and the documents and constants of `engine_editor` satisfy them all.
* `EditorWorkersReadWhatIs` (`ViewsCurrent`), `BuffersHoldWhatIs`
  (`BuffersCurrent`) and `TraceTellsSnapshots` (`TraceExact`) follow from the same
  invariant in an `EditorSession`: a `PlainSession` whose document creates no file
  and whose files only the editor changes, for which nothing has to be excepted.
* `RollbacksDropLittle` (`OnlyStaleDropped`, an action property), in an
  `EditorSession` too: with `WorkersReadWhatIs`, what a rollback drops is enough and
  not more.  The invariant is `DropInv`: in a transaction, the snapshots beyond
  `rollback.len` have observed at least what `seen` says (`Reached`), and the last
  change that lowered it (`Met`).  The loop of `rollback_add_change` stops at an
  entry of the file that changes (`CrossingEntry`), below which this file was not
  observed up to the change; the snapshots above it were, since `Grows` and
  `Snapshots` tell their positions from the trace (`ChainObserved`).
  `RollbackDrops` then shows that `rollback_processes` pops only such snapshots.

**`EditorText`** (`EditorTextAssumption`: paths, files and texts are sequences of
characters; `NullAssumption`: a missing file is not one that is empty).

* `EditorTextProofs!ReadsCurrent`: `ReadCurrent`.  `Inv` says that what TeX has
  observed of each file is a prefix of its history, with the types that splicing
  bytes needs.  `FindDiffIs` and `SplicedIs` bound where contents begin to differ;
  `Diverge`: two histories that agree up to an offset share every prefix that has
  seen less, and `seen` does not tell whether the end of the file was met, which is
  why the driver goes back when `seen` *equals* the offset.  So one command keeps what
  was read true (`NotifiedCurrent`), whatever the span it computes from its
  positions, and by induction over the buffer so do the delayed ones
  (`FlushedCurrent`).  There is no hypothesis: a command whose positions make no
  sense, or whose path is out of the directory, changes nothing.
* `EditorTextTyped`: `TypeOK`.  `BytesDelayedIs`: the sum by which a change is
  accepted is the length of what is copied, so that the buffer never overflows.

**`Outputs`** (`DocumentsAssumption`: a run writes bytes in each output;
`NullAssumption`: a missing buffer is not one that is empty; `PagesAssumption`: a
document that TeX writes opens with its preamble, and its pages begin and end in
turn; `SynctexAssumption`: an output of SyncTeX that TeX writes does not open with an
input, and numbers its pages and inputs in turn, so that reading all of it finds
nothing wrong).

* `OutputsProofs!IndexTellsThePages`: `DviExact`.  What the index says is right only
  of what it was told of, so that `IndexInv` is about `Known`: what is left of the
  document, or all of it when the index is behind, since the driver only cuts an
  output without telling the index after a pass that ended (`EndInv`).  The index
  is then `Indexed`: its marks are those of a scan of `Known` from the first byte,
  and `offset` is where this scan ends, which may be one byte beyond `Known` when an
  instruction is not complete.  `TextInv` (a buffer holds the beginning of what the
  worker writes, also after the program has changed) and `Growing` (outputs have
  only grown since a snapshot) make what is told next a beginning or a continuation
  of `Known`.
* The lemmas are about `Marks`, whatever the bytes: a scan depends only on the bytes
  before its end (`MarksSame`), it may stop anywhere and go on from `offset`
  (`MarksSplit`), and it stops exactly on each mark (`MarkReached`).  So going back
  to the last mark before the cut (`TruncatedReady`) leaves the index of a beginning
  of the new text, even if an instruction was cut in two; the last mark itself is
  removed, and is found again.  `Marks` is a recursive function: its scans are shown
  to exist by going down from the end (`ScanExists`, `Downward`), an induction on a
  set, which the provers can do.
* That no mark stops the driver (`IndexedSound`) needs `PagesAssumption`; that a page
  that is shown begins in the document (`PageInDocument`) needs an index that was told:
  `converged_outputs` shows the other case.
* `EditorHasTheLog`: `EditorExact`, for bytes and for lines.  `LogInv` says that the
  editor has the log that is left, or, after a converged pass, at least the one that
  was complete (`Shows`): bytes and lines may follow, since the worker goes on from
  what was cut and everything is sent again, until the next rollback.
  `OpenedInv` relates the log that is open to its buffer in each snapshot: a rollback
  to before the log was opened sends a truncation to nothing.  The lines of a text
  are a recursive function of its bytes (`Filling`), as is the loop of
  `editor_append` (`Sending`), so that both are followed byte by byte: a line that is
  sent is the line that a byte completes, with the end of the one before or not
  (`SentBare`), and the line that an earlier message left incomplete is sent from its
  beginning (`SendingFollows`).  `KeptShows`: the line ends left in the buffer, that
  `editor_truncate` counts, are the lines that the editor keeps.

* `IndexTellsTheLines`: `SynctexExact`, for the pages, the inputs and which of them are
  closed.  As `Known` for the document, `KnownStex` is the text that the index was told
  of.  A rollback may cut a line in two, and `synctex_rollback` drops only the marks at
  or after the cut: a line that began before it stays in the index although its end is
  gone, and would be found again.  The index is thus that of the text up to a place at
  or after the cut with no end of line in between (`NearAt`), which `CutNear` shows of
  any cut: dropping marks and opening again the inputs whose close was dropped gives
  the index that reading up to there would have given (`CutForgets`, line by line).
  Reading on from such a state repeats a line, which its number or its closed input
  tells: the driver would stop (`ReadNear`).  That this only happens after a converged
  pass (`StopInv`) is because snapshots are made between lines (`LineSnaps`), so that
  rollbacks cut at ends of lines, where `NearAt` is equality (`NearBoundary`).
  `AfterTells` relates what a reading leaves with the definition that the property
  uses, which looks at lines one by one and keeps no state.

Only model-checked: `RenderedRight` and `SearchSound` of `Outputs`, which read fonts
and pages with sorted sets and folds; of `EditorText`, `CopyExact`, which relates bytes,
lines and UTF-16 units of texts of any length (induction over data); of
`TexEngine`, the five properties above in the sessions their hypotheses leave out
(`engine_disk` checks `InputsCurrent` with a promised file, pictures and convergence
passes), `ConvergedIsStable`, the rest of `FencesRespected`, and
`TypeOK`, whose `Len(procs) <= MaxProcess` depends on what the exponential rule of
`decimate_processes` drops for given sizes; of `WorkerIO`, `OutputExact`, which
compares outputs with a fold over the messages underway (induction over data); and
liveness, which is out of the prover's reach, like ENABLED.

## 5. Findings

Four are runs that must find their violation; `PROJECT.json` has the quotes.

1. `lost_event` (main.c:4776): `continue` after an on-demand rerun drops the event
   of the iteration with its flag up.  If it came from the standard input, the
   next commands wait until the user moves the mouse.
2. `reported` (texpresso_protocol.c:208): TeX takes bytes of a second file, and
   `txp_seen` first sends what is pending for the other one, and waits.  A change
   that comes meanwhile finds the worker waiting and nothing to read: it sends
   C_FLSH, although bytes that were taken have changed.
3. `passed_fd` (sprotocol.c:624): `channel_reset` forgets the buffer and not the
   descriptor.  A worker popped after its CHLD was peeked at leaves it to the next
   one, where the driver aborts.
4. `converged_outputs` (engine_tex.c:1607): after a converged pass the dead worker
   is popped and its outputs are cut, and no index is told.  The viewer then asks
   for a page that is beyond the document.

The others are configurations to run by hand,
`tlc -config X.cfg M`; each ends in a violation.

| Config, module | Property | What the code does |
|---|---|---|
| `MCPendingSeen`, `MCTexEngine` | `ViewsCurrent` | engine_tex.c:1460: `continue` in `do ... while (0)` ends the loop after one pending SEEN.  Two files read in turns from buffers leave two: a snapshot keeps what has changed.  `engine_editor` excludes such documents. |
| `MCPromisedOpen`, `MCTexEngine` | `ViewsCurrent` | main.c:4018: the first open of a promised file is never notified, even if the worker found the file on disk. |
| `MCRerunOverrun`, `MCTexEngine` | `TraceNotOverrun` | engine_tex.c:1606: after a converged pass the dead worker is stripped without reverting the trace; the next change walks past `trace[0]`. |
| `MCResumeInBatch`, `MCTexEngine` | `TraceNotOverrun` | main.c:4494: (resume) steps the engine inside a transaction.  The other runs have `ResumeInBatch = FALSE`. |
| `MCClosedWorker`, `MCTexEngine` | `ClosedWorkerSurvived` | sprotocol.c:459: peeking at a closed connection aborts. |
| `MCPictureSize`, `MCTexEngine` | `InputsCurrent` | engine_tex.c:962: a document that looks whether a picture exists before it shows it (as `\includegraphics` does) opens it without reading; after a rollback the size comes from the cache, and is the one of the old picture if the file changed while nothing had it open, or changes later (its `seen` is 0). |
| `MCDelayedChanges`, `MCMainLoop` | `ChangesApplied` | main.c:3944: a change delayed until the current page is displayed waits for ever when the document ends before that page. |
| `MCLines`, `MCOutputs` | `LinesBare` | editor.c:602: in `-lines` mode the lines of a message after the first begin with a line end, which EDITOR-PROTOCOL.md says is not included. |
| `MCBestSoFar`, `MCOutputs` | `BestSoFar` | synctex.c:240: a rollback drops the candidate of a search while `scanned_pages` stays: earlier pages are not scanned again, and the search may end with a worse line than one it had passed. |
| `MCRelative`, `MCEditorText` | `CopyExact` | main.c: `open` accepts a relative path, `change` and `close` compare the byte before its beginning and skip the command, or abort. |

Also recorded as hazards, without a run: a file removed between a rollback and its
next open makes the driver abort (engine_tex.c:652, `OpenVanished`), or in stream mode
leaves its cell filled (engine_tex.c:647); a file written between its read and its
stat is never scanned again (engine_tex.c:661); the flag
`edit_data_from_convergence` is never cleared when the editor opens the file (its
comment says that the editor wins); a rollback drops stashed auxiliary files that
the remaining snapshots have observed (engine_tex.c:1028); ids of outputs leak
(main.c:620).  `relative_path` compares characters: with the document in `/d`, a
file `/d2/a` is taken for `2/a` in it.

## 6. Plan

Done: the modules of section 2, their runs, and the proofs of section 4.  What is
left, in this order:

1. `TexEngine`: the rest of `FencesRespected`, from `FencesInv` and `ViewsInv`; then
   `WorkersReadWhatIs` for documents typeset again, once the trace is reverted with
   the worker that is dropped.
2. `Outputs`: `SearchSound`, from `Tracks`, and `RenderedRight`.
3. In `MainLoop`: pause, neighbor pages and SyncTeX targets.

## Not modelled

* `fs.c`: a hash table without removal, used by one thread: unit tests reach all
  of it.  The modules use it as a function of names.
* Parsers (`json_parser.c`, `sexp_parser.c`, `prot_parser.c`): character automata
  without state shared with anything else.  `vstack.c` holds the values they read.
* Renderer, DVI interpreter and links: geometry and pixels.  What an index can
  spoil of them, fonts and the extent of a page, is in `Outputs`.
* `engine_dvi.c`, `engine_pdf.c`: static documents, no incrementality.
* Launcher, distributions, proxy: start-up and lookups, pure I/O.
* `src/src/engine/engine` and `src/src/engine/dpx`, by far most of the lines: the
  vendored XeTeX and dvipdfmx.  They are sequential and know the driver only
  through the calls that `WorkerIO` models; a document is a program of such calls.
* Of the modelled parts: `Q_MTIM`, inclusion paths, the `.deps` output, display
  commands (crop, theme), neighbor pages, pause, the events of the user, SIGUSR1,
  the end of the standard input.
