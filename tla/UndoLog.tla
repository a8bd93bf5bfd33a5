------------------------------- MODULE UndoLog -------------------------------
(***************************************************************************)
(* The undo log of the driver (src/src/frontend/state.c).                  *)
(*                                                                         *)
(* The driver keeps what the TeX worker has read and written in two kinds  *)
(* of objects: file entries (fileentry_t.saved) and cells (filecell_t, a   *)
(* file descriptor or a well-known output).  Before the first change of an *)
(* object since the last snapshot its old value is pushed on the log, so a *)
(* snapshot costs nothing and a rollback pops records.  Output buffers are *)
(* never copied: a record keeps a reference to the buffer and its length,  *)
(* appends happen in place and a pop truncates in place.                   *)
(*                                                                         *)
(* A mark is a byte offset in the log in the code; here a record counts    *)
(* for one, so mark m is the position of the record that follows it.       *)
(***************************************************************************)
EXTENDS Naturals, Sequences, FiniteSets

CONSTANTS
  Entries,    \* file entries
  Cells,      \* file cells
  Buffers,    \* addresses of fz_buffers
  Bytes,      \* what a worker may append to a file
  NoBuffer,   \* NULL, as a buffer
  NoEntry,    \* NULL, as an entry
  MaxLog,     \* bound on the number of records
  MaxMarks,   \* bound on the number of marks held
  MaxLen,     \* bound on the length of a buffer
  MaxRefs     \* bound on the references to a buffer

Objects == Entries \cup Cells
Levels == {"none", "read", "write"}

ASSUME UndoLogAssumption ==
  /\ Entries \cap Cells = {}
  /\ NoBuffer \notin Buffers
  /\ NoBuffer \notin Seq(Bytes)
  /\ NoEntry \notin Entries
  /\ IsFiniteSet(Entries) /\ IsFiniteSet(Cells)
  /\ MaxLog \in Nat /\ MaxMarks \in Nat /\ MaxLen \in Nat /\ MaxRefs \in Nat

VARIABLES
  heap,    \* contents of the buffers
  refs,    \* their reference counts; 0 is free memory
  obj,     \* fileentry_t.saved and filecell_t: a cell never has a buffer
  log,     \* the records, oldest first
  snap,    \* log->snap, the mark of the last snapshot or rollback
  marks,   \* the marks the driver holds: restart point, then one per fork
  goal     \* the mark log_rollback is popping down to, 0 outside of it

vars == <<heap, refs, obj, log, snap, marks, goal>>

-----------------------------------------------------------------------------
(* Saved values *)

ObjectStates ==
  [data : Buffers \cup {NoBuffer},
   info : Levels \cup Entries \cup {NoEntry},
   snap : Nat]

Records == [obj : Objects, old : ObjectStates, len : Nat]

(* data->len of the log: the mark a snapshot taken now would get. *)
Mark == Len(log) + 1

LengthOf(b) == IF b = NoBuffer THEN 0 ELSE Len(heap[b])

-----------------------------------------------------------------------------
(* log_fileentry and log_filecell: the object is about to change. *)

MustLog(o) == obj[o].snap # snap

(* mutant: only the first change of an object is ever logged *)
LogWithOnce(o) ==
  IF MustLog(o) /\ \A i \in DOMAIN log : log[i].obj # o
  THEN Append(log, [obj |-> o, old |-> obj[o], len |-> LengthOf(obj[o].data)])
  ELSE log

LogWith(o) ==
  IF MustLog(o)
  THEN Append(log, [obj |-> o, old |-> obj[o], len |-> LengthOf(obj[o].data)])
  ELSE log

(* mutant: the record borrows the buffer *)
RefsBorrowed(o) == refs

(* The record holds a reference to the buffer of the entry. *)
RefsWith(o) ==
  IF MustLog(o) /\ obj[o].data # NoBuffer
  THEN [refs EXCEPT ![obj[o].data] = @ + 1]
  ELSE refs

Assign(o, data, info) ==
  obj' = [obj EXCEPT ![o] = [data |-> data, info |-> info, snap |-> snap]]

-----------------------------------------------------------------------------
Init ==
  /\ heap = [b \in Buffers |-> <<>>]
  /\ refs = [b \in Buffers |-> 0]
  /\ obj = [o \in Objects |->
             [data |-> NoBuffer,
              info |-> IF o \in Entries THEN "none" ELSE NoEntry,
              snap |-> 0]]
  /\ log = <<>>
  /\ snap = 1
  /\ marks = <<1>>
  /\ goal = 0

(* The driver is single threaded: it does something else only once a       *)
(* rollback is over.                                                       *)
Idle == goal = 0 /\ Len(log) < MaxLog

(* Q_OPRD *)
OpenRead(e) ==
  /\ Idle
  /\ log' = LogWith(e)
  /\ refs' = RefsWith(e)
  /\ Assign(e, obj[e].data,
            IF obj[e].info = "none" THEN "read" ELSE obj[e].info)
  /\ UNCHANGED <<heap, snap, marks, goal>>

(* Q_OPWR: a new buffer; the reference to the previous one is not dropped. *)
OpenWrite(e, b) ==
  /\ Idle
  /\ refs[b] = 0
  /\ obj[e].data # NoBuffer => refs[obj[e].data] < MaxRefs
  /\ log' = LogWith(e)
  /\ refs' = [RefsWith(e) EXCEPT ![b] = 1]
  /\ heap' = [heap EXCEPT ![b] = <<>>]
  /\ Assign(e, b, "write")
  /\ UNCHANGED <<snap, marks, goal>>

(* Q_APND *)
AppendTo(e, x) ==
  /\ Idle
  /\ obj[e].data # NoBuffer
  /\ Len(heap[obj[e].data]) < MaxLen
  /\ log' = LogWith(e)
  /\ refs' = RefsWith(e)
  /\ heap' = [heap EXCEPT ![obj[e].data] = Append(@, x)]
  /\ Assign(e, obj[e].data, obj[e].info)
  /\ UNCHANGED <<snap, marks, goal>>

(* Opening, closing or designating a file sets a cell. *)
SetCell(c, e) ==
  /\ Idle
  /\ log' = LogWith(c)
  /\ refs' = RefsWith(c)
  /\ Assign(c, obj[c].data, e)
  /\ UNCHANGED <<heap, snap, marks, goal>>

(* log_snapshot *)
Snapshot ==
  /\ goal = 0
  /\ Len(marks) < MaxMarks
  /\ snap' = Mark
  /\ marks' = Append(marks, Mark)
  /\ UNCHANGED <<heap, refs, obj, log, goal>>

Without(s, k) == SubSeq(s, 1, k - 1) \o SubSeq(s, k + 1, Len(s))

(* decimate_processes drops processes, and their marks, anywhere. *)
Forget(k) ==
  /\ goal = 0
  /\ k \in 2..Len(marks)
  /\ marks' = Without(marks, k)
  /\ UNCHANGED <<heap, refs, obj, log, snap, goal>>

(* log_rollback, from pop_process: to the mark of the process below, or to *)
(* the restart point when there is none.                                   *)
RollbackBegin ==
  /\ goal = 0
  /\ goal' = marks[Len(marks)]
  /\ marks' = IF Len(marks) = 1 THEN marks
                                ELSE SubSeq(marks, 1, Len(marks) - 1)
  /\ UNCHANGED <<heap, refs, obj, log, snap>>

(* mutant: the appended bytes stay in the buffer *)
PopKeepingBytes ==
  LET r == log[Len(log)]
      b == obj[r.obj].data
  IN  /\ goal # 0
      /\ Mark > goal
      /\ refs' = IF b = NoBuffer THEN refs ELSE [refs EXCEPT ![b] = @ - 1]
      /\ obj' = [obj EXCEPT ![r.obj] = r.old]
      /\ log' = SubSeq(log, 1, Len(log) - 1)
      /\ UNCHANGED <<heap, snap, marks, goal>>

(* mutant: one record too many is popped *)
PopOneMore ==
  LET r == log[Len(log)]
      b == obj[r.obj].data
  IN  /\ goal # 0
      /\ Mark >= goal /\ log # <<>>
      /\ refs' = IF b = NoBuffer THEN refs ELSE [refs EXCEPT ![b] = @ - 1]
      /\ obj' = [obj EXCEPT ![r.obj] = r.old]
      /\ heap' = IF r.old.data = NoBuffer THEN heap
                 ELSE [heap EXCEPT ![r.old.data] = SubSeq(@, 1, r.len)]
      /\ log' = SubSeq(log, 1, Len(log) - 1)
      /\ UNCHANGED <<snap, marks, goal>>

(* log_pop: drop the reference of the object to its buffer, give it back   *)
(* the old value (which takes the reference of the record) and truncate    *)
(* the buffer of the old value in place.                                   *)
Pop ==
  LET r == log[Len(log)]
      b == obj[r.obj].data
  IN  /\ goal # 0
      /\ Mark > goal
      /\ refs' = IF b = NoBuffer THEN refs ELSE [refs EXCEPT ![b] = @ - 1]
      /\ obj' = [obj EXCEPT ![r.obj] = r.old]
      /\ heap' = IF r.old.data = NoBuffer THEN heap
                 ELSE [heap EXCEPT ![r.old.data] = SubSeq(@, 1, r.len)]
      /\ log' = SubSeq(log, 1, Len(log) - 1)
      /\ UNCHANGED <<snap, marks, goal>>

RollbackEnd ==
  /\ goal # 0
  /\ Mark <= goal
  /\ snap' = goal
  /\ goal' = 0
  /\ UNCHANGED <<heap, refs, obj, log, marks>>

Next ==
  \/ \E e \in Entries : OpenRead(e)
  \/ \E e \in Entries, b \in Buffers : OpenWrite(e, b)
  \/ \E e \in Entries, x \in Bytes : AppendTo(e, x)
  \/ \E c \in Cells, e \in Entries \cup {NoEntry} : SetCell(c, e)
  \/ Snapshot
  \/ \E k \in DOMAIN marks : Forget(k)
  \/ RollbackBegin
  \/ Pop
  \/ RollbackEnd

Spec == Init /\ [][Next]_vars

-----------------------------------------------------------------------------
(* What a rollback to mark m brings back, read off the log: the value the  *)
(* oldest record above m holds for the object, or its current value.       *)

ContentOf(s, n) == IF s = NoBuffer THEN NoBuffer ELSE SubSeq(heap[s], 1, n)

Value(o) == [data |-> ContentOf(obj[o].data, LengthOf(obj[o].data)),
             info |-> obj[o].info]

OldValue(i) == [data |-> ContentOf(log[i].old.data, log[i].len),
                info |-> log[i].old.info]

IsOldest(i, m, o) ==
  /\ i \in m..Len(log)
  /\ log[i].obj = o
  /\ \A j \in m..(i - 1) : log[j].obj # o

Restored(m) ==
  [o \in Objects |->
    IF \E i \in m..Len(log) : log[i].obj = o
    THEN OldValue(CHOOSE i \in m..Len(log) : IsOldest(i, m, o))
    ELSE Value(o)]

(* The refinement mapping: during a rollback the state is already the one  *)
(* being restored.                                                         *)
Current == IF goal = 0 THEN [o \in Objects |-> Value(o)] ELSE Restored(goal)
Copies == [k \in DOMAIN marks |-> Restored(marks[k])]

Abstract == INSTANCE Snapshots WITH cur <- Current, copies <- Copies

-----------------------------------------------------------------------------
(* The state of the undo log has its type. *)
TypeOK ==
  /\ heap \in [Buffers -> Seq(Bytes)]
  /\ refs \in [Buffers -> Nat]
  /\ obj \in [Objects -> ObjectStates]
  /\ log \in Seq(Records)
  /\ snap \in Nat \ {0}
  /\ marks \in Seq(Nat \ {0})
  /\ marks # <<>>
  /\ goal \in Nat

(* Those that hold a reference to buffer b. *)
Holders(b) == {o \in Objects : obj[o].data = b}
RecordHolders(b) == {i \in DOMAIN log : log[i].old.data = b}

(* A buffer that an object or a record of the log points to is never freed *)
(* under them: its count covers all of them (log_fileentry keeps, log_pop  *)
(* drops).                                                                 *)
ReferencesCovered ==
  \A b \in Buffers :
    refs[b] >= Cardinality(Holders(b)) + Cardinality(RecordHolders(b))

(* log_rollback never aborts: the mark it is given is not above the last   *)
(* snapshot (state.c:197) and popping stops exactly on it (state.c:202).   *)
NoAbort == goal # 0 => /\ goal <= snap
                       /\ goal <= Mark

-----------------------------------------------------------------------------
(* Why it works: the parts of the inductive invariant.                     *)

(* The marks are a stack, and the last snapshot is above all of them. *)
MarksOrdered ==
  /\ \A j, k \in DOMAIN marks : j <= k => marks[j] <= marks[k]
  /\ \A k \in DOMAIN marks : marks[k] <= IF goal = 0 THEN snap ELSE goal
  /\ goal = 0 => snap <= Mark

(* An object tagged with a mark has a record above that mark, now and in   *)
(* every saved state: it is what makes it safe not to log it again.        *)
TagsBacked ==
  /\ \A o \in Objects :
       obj[o].snap # 0 => \E j \in obj[o].snap..Len(log) : log[j].obj = o
  /\ \A i \in DOMAIN log :
       log[i].old.snap # 0 =>
         \E j \in log[i].old.snap..(i - 1) : log[j].obj = log[i].obj

Owns(o, b) == \/ obj[o].data = b
              \/ \E i \in DOMAIN log : log[i].obj = o /\ log[i].old.data = b

(* A buffer belongs to one object: truncating it in place changes no other. *)
PrivateBuffers ==
  \A o1, o2 \in Objects, b \in Buffers :
    Owns(o1, b) /\ Owns(o2, b) => o1 = o2

(* A buffer still holds every prefix the records may ask for. *)
PrefixesKept ==
  /\ \A i \in DOMAIN log :
       log[i].old.data # NoBuffer => log[i].len <= Len(heap[log[i].old.data])
  /\ \A i, j \in DOMAIN log :
       i <= j /\ log[i].old.data = log[j].old.data /\ log[i].old.data # NoBuffer
         => log[i].len <= log[j].len

LogInvariant ==
  /\ TypeOK
  /\ NoAbort
  /\ MarksOrdered
  /\ TagsBacked
  /\ PrivateBuffers
  /\ PrefixesKept
  /\ ReferencesCovered

(* The log implements snapshots: taking a snapshot remembers the whole     *)
(* state, and a rollback restores exactly that state, whatever was written *)
(* in between and whichever intermediate snapshots were given up.          *)
ImplementsSnapshots == Abstract!Spec
==============================================================================
