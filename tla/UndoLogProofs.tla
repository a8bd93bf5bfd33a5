---------------------------- MODULE UndoLogProofs ----------------------------
(***************************************************************************)
(* The undo log is correct for any number of files, buffers, records and   *)
(* snapshots: its invariant is inductive, and it implements Snapshots.     *)
(***************************************************************************)
EXTENDS UndoLog, SequenceTheorems, FiniteSetTheorems, WellFoundedInduction,
        TLAPS

(* The four operations that change an object, as one: the object is logged,*)
(* tagged with the last snapshot, and its buffer is kept, extended or      *)
(* replaced by a new one.                                                  *)
ChangesTo(o, d, i) ==
  /\ goal = 0
  /\ UNCHANGED <<snap, marks, goal>>
  /\ log' = LogWith(o)
  /\ Assign(o, d, i)
  /\ i \in Levels \cup Entries \cup {NoEntry}
  /\ \/ /\ d = obj[o].data
        /\ refs' = RefsWith(o)
        /\ heap' = heap
     \/ /\ d = obj[o].data
        /\ d # NoBuffer
        /\ refs' = RefsWith(o)
        /\ \E x \in Bytes : heap' = [heap EXCEPT ![d] = Append(@, x)]
     \/ /\ d \in Buffers
        /\ refs[d] = 0
        /\ refs' = [RefsWith(o) EXCEPT ![d] = 1]
        /\ heap' = [heap EXCEPT ![d] = <<>>]

Changes(o) == \E d \in Buffers \cup {NoBuffer} : \E i : ChangesTo(o, d, i)

(* Every step of the log is one of: a change of an object, a snapshot, the *)
(* loss of a mark, or a step of a rollback.                                *)
LEMMA NextCases ==
  ASSUME TypeOK, Next
  PROVE  \/ \E o \in Objects : Changes(o)
         \/ Snapshot
         \/ \E k \in DOMAIN marks : Forget(k)
         \/ RollbackBegin
         \/ Pop
         \/ RollbackEnd
<1>1. CASE \E e \in Entries : OpenRead(e)
  <2> PICK e \in Entries : OpenRead(e)
    BY <1>1
  <2> e \in Objects
    BY DEF Objects
  <2>1. /\ obj[e].data \in Buffers \cup {NoBuffer}
        /\ obj[e].info \in Levels \cup Entries \cup {NoEntry}
    BY DEF TypeOK, ObjectStates
  <2>2. ChangesTo(e, obj[e].data,
                  IF obj[e].info = "none" THEN "read" ELSE obj[e].info)
    BY <2>1 DEF OpenRead, ChangesTo, Idle, Levels
  <2> QED
    BY <2>1, <2>2 DEF Changes
<1>2. CASE \E e \in Entries, b \in Buffers : OpenWrite(e, b)
  <2> PICK e \in Entries, b \in Buffers : OpenWrite(e, b)
    BY <1>2
  <2> e \in Objects
    BY DEF Objects
  <2>1. ChangesTo(e, b, "write")
    BY DEF OpenWrite, ChangesTo, Idle, Levels
  <2> QED
    BY <2>1 DEF Changes
<1>3. CASE \E e \in Entries, x \in Bytes : AppendTo(e, x)
  <2> PICK e \in Entries, x \in Bytes : AppendTo(e, x)
    BY <1>3
  <2> e \in Objects
    BY DEF Objects
  <2>1. /\ obj[e].data \in Buffers \cup {NoBuffer}
        /\ obj[e].info \in Levels \cup Entries \cup {NoEntry}
    BY DEF TypeOK, ObjectStates
  <2>2. ChangesTo(e, obj[e].data, obj[e].info)
    BY <2>1 DEF AppendTo, ChangesTo, Idle
  <2> QED
    BY <2>1, <2>2 DEF Changes
<1>4. CASE \E c \in Cells, e \in Entries \cup {NoEntry} : SetCell(c, e)
  <2> PICK c \in Cells, e \in Entries \cup {NoEntry} : SetCell(c, e)
    BY <1>4
  <2> c \in Objects
    BY DEF Objects
  <2>1. obj[c].data \in Buffers \cup {NoBuffer}
    BY DEF TypeOK, ObjectStates
  <2>2. ChangesTo(c, obj[c].data, e)
    BY DEF SetCell, ChangesTo, Idle
  <2> QED
    BY <2>1, <2>2 DEF Changes
<1> QED
  BY <1>1, <1>2, <1>3, <1>4 DEF Next

(* What log_fileentry and log_filecell leave on the log. *)
LEMMA LogWithProperties ==
  ASSUME TypeOK, NEW o \in Objects
  PROVE  /\ LogWith(o) \in Seq(Records)
         /\ Len(log) \in Nat
         /\ ~MustLog(o) => LogWith(o) = log
         /\ MustLog(o) =>
              /\ Len(LogWith(o)) = Len(log) + 1
              /\ LogWith(o)[Len(log) + 1] =
                   [obj |-> o, old |-> obj[o], len |-> LengthOf(obj[o].data)]
              /\ \A i \in 1..Len(log) : LogWith(o)[i] = log[i]
<1>1. LengthOf(obj[o].data) \in Nat
  <2>1. obj[o].data \in Buffers \cup {NoBuffer}
    BY DEF TypeOK, ObjectStates
  <2>2. obj[o].data \in Buffers => Len(heap[obj[o].data]) \in Nat
    BY LenProperties DEF TypeOK
  <2> QED
    BY <2>1, <2>2 DEF LengthOf
<1>2. [obj |-> o, old |-> obj[o], len |-> LengthOf(obj[o].data)] \in Records
  BY <1>1 DEF TypeOK, Records
<1>3. log \in Seq(Records)
  BY DEF TypeOK
<1> QED
  BY <1>2, <1>3, AppendProperties, LenProperties DEF LogWith

(* What giving up the k-th element of a sequence leaves. *)
LEMMA RemoveAtProperties ==
  ASSUME NEW S, NEW s \in Seq(S), NEW k \in 1..Len(s)
  PROVE  /\ Without(s, k) \in Seq(S)
         /\ Len(Without(s, k)) = Len(s) - 1
         /\ \A i \in 1..(Len(s) - 1) :
              Without(s, k)[i] = IF i < k THEN s[i] ELSE s[i + 1]
<1> DEFINE t == Without(s, k)
           n == Len(s)
           a == SubSeq(s, 1, k - 1)
           b == SubSeq(s, k + 1, n)
<1>0. /\ n \in Nat
      /\ k \in 1..n
      /\ \A i \in 1..n : s[i] \in S
      /\ t = a \o b
  BY LenProperties, ElementOfSeq DEF Without
<1> HIDE DEF n, t
<1>1. /\ a \in Seq(S)
      /\ Len(a) = k - 1
      /\ \A i \in 1..(k - 1) : a[i] = s[i]
  BY <1>0, SubSeqProperties
<1>2. /\ b \in Seq(S)
      /\ Len(b) = n - k
      /\ \A i \in 1..(n - k) : b[i] = s[k + i]
  <2>1. \A i \in (k + 1)..n : s[i] \in S
    BY <1>0
  <2>2. /\ b \in Seq(S)
        /\ Len(b) = IF k + 1 <= n THEN n - (k + 1) + 1 ELSE 0
        /\ \A i \in 1..(n - (k + 1) + 1) : b[i] = s[k + 1 + i - 1]
    BY <1>0, <2>1, SubSeqProperties
  <2> HIDE DEF a, b
  <2>3. \A i \in 1..(n - k) :
           i \in 1..(n - (k + 1) + 1) /\ k + 1 + i - 1 = k + i
    BY <1>0
  <2>4. \A i \in 1..(n - k) : b[i] = s[k + i]
    BY <2>2, <2>3
  <2>5. Len(b) = n - k
    BY <1>0, <2>2
  <2> QED
    BY <2>2, <2>4, <2>5
<1>3. /\ a \o b \in Seq(S)
      /\ Len(a \o b) = Len(a) + Len(b)
      /\ \A i \in 1..(Len(a) + Len(b)) :
           (a \o b)[i] = IF i <= Len(a) THEN a[i] ELSE b[i - Len(a)]
  BY <1>1, <1>2, ConcatProperties
<1> HIDE DEF a, b
<1>4. ASSUME NEW i \in 1..(n - 1)
      PROVE  t[i] = IF i < k THEN s[i] ELSE s[i + 1]
  <2>1. CASE i < k
    <3>1. i \in 1..(k - 1) /\ i <= k - 1 /\ i \in 1..(k - 1 + (n - k))
      BY <2>1, <1>0
    <3> QED
      BY <3>1, <2>1, <1>0, <1>1, <1>2, <1>3
  <2>2. CASE ~(i < k)
    <3>1. /\ i - (k - 1) \in 1..(n - k)
          /\ ~(i <= k - 1)
          /\ i \in 1..(k - 1 + (n - k))
          /\ k + (i - (k - 1)) = i + 1
      BY <2>2, <1>0
    <3>2. t[i] = b[i - (k - 1)]
      BY <3>1, <1>0, <1>1, <1>2, <1>3
    <3> QED
      BY <3>1, <3>2, <2>2, <1>2
  <2> QED
    BY <2>1, <2>2
<1>5. Len(t) = n - 1
  <2>1. Len(t) = (k - 1) + (n - k)
    BY <1>0, <1>1, <1>2, <1>3, Zenon
  <2>2. (k - 1) + (n - k) = n - 1
    BY <1>0
  <2> QED
    BY <2>1, <2>2
<1>6. t \in Seq(S)
  BY <1>0, <1>3
<1> QED
  BY <1>4, <1>5, <1>6 DEF t, n

(* What giving up the last element of a sequence leaves. *)
LEMMA FrontOfProperties ==
  ASSUME NEW S, NEW s \in Seq(S), s # <<>>,
         NEW t, t = SubSeq(s, 1, Len(s) - 1)
  PROVE  /\ t \in Seq(S)
         /\ Len(s) \in Nat
         /\ Len(s) >= 1
         /\ Len(t) = Len(s) - 1
         /\ \A i \in 1..Len(t) : t[i] = s[i]
<1> DEFINE n == Len(s)
<1>0. /\ n \in Nat
      /\ n >= 1
      /\ \A i \in 1..n : s[i] \in S
      /\ t = SubSeq(s, 1, n - 1)
  BY LenProperties, ElementOfSeq, EmptySeq
<1> SUFFICES /\ t \in Seq(S)
             /\ Len(t) = n - 1
             /\ \A i \in 1..(n - 1) : t[i] = s[i]
  BY <1>0
<1> HIDE DEF n
<1>1. \A i \in 1..(n - 1) : s[i] \in S
  BY <1>0
<1>2. /\ t \in Seq(S)
      /\ Len(t) = IF 1 <= n - 1 THEN n - 1 - 1 + 1 ELSE 0
      /\ \A i \in 1..(n - 1 - 1 + 1) : t[i] = s[1 + i - 1]
  BY <1>0, <1>1, SubSeqProperties
<1>3. Len(t) = n - 1
  BY <1>0, <1>2
<1>4. ASSUME NEW i \in 1..(n - 1)
      PROVE  t[i] = s[i]
  <2>1. i \in 1..(n - 1 - 1 + 1) /\ 1 + i - 1 = i
    BY <1>0
  <2> QED
    BY <1>2, <2>1
<1> QED
  BY <1>0, <1>2, <1>3, <1>4

(* A prefix of a sequence. *)
LEMMA PrefixProperties ==
  ASSUME NEW S, NEW s \in Seq(S), NEW k \in Nat, k <= Len(s)
  PROVE  /\ SubSeq(s, 1, k) \in Seq(S)
         /\ Len(SubSeq(s, 1, k)) = k
         /\ \A i \in 1..k : SubSeq(s, 1, k)[i] = s[i]
<1> DEFINE u == SubSeq(s, 1, k)
<1>1. \A i \in 1..k : s[i] \in S
  <2>1. Len(s) \in Nat
    BY LenProperties
  <2>2. \A i \in 1..k : i \in 1..Len(s)
    BY <2>1
  <2> QED
    BY <2>2, ElementOfSeq
<1> QED
  BY <1>1, SubSeqProperties

(* Sequences that agree up to k have the same prefix of length k. *)
LEMMA SameSubSeq ==
  ASSUME NEW S, NEW s \in Seq(S), NEW t \in Seq(S), NEW k \in Nat,
         k <= Len(s), k <= Len(t), \A i \in 1..k : s[i] = t[i]
  PROVE  SubSeq(s, 1, k) = SubSeq(t, 1, k)
<1> DEFINE u == SubSeq(s, 1, k)
           v == SubSeq(t, 1, k)
<1>1. u \in Seq(S) /\ Len(u) = k /\ \A i \in 1..k : u[i] = s[i]
  BY PrefixProperties
<1>2. v \in Seq(S) /\ Len(v) = k /\ \A i \in 1..k : v[i] = t[i]
  BY PrefixProperties
<1> HIDE DEF u, v
<1>3. u = v
  BY <1>1, <1>2, SeqEqual
<1> QED
  BY <1>3 DEF u, v

(* The records of the log, and the data they hold. *)
LEMMA RecordTypes ==
  ASSUME TypeOK
  PROVE  /\ Len(log) \in Nat
         /\ DOMAIN log = 1..Len(log)
         /\ \A i \in DOMAIN log :
              /\ log[i] \in Records
              /\ log[i].obj \in Objects
              /\ log[i].old \in ObjectStates
              /\ log[i].old.data \in Buffers \cup {NoBuffer}
              /\ log[i].old.snap \in Nat
              /\ log[i].len \in Nat
<1>1. Len(log) \in Nat /\ DOMAIN log = 1..Len(log)
  BY LenProperties DEF TypeOK
<1>2. \A i \in DOMAIN log : log[i] \in Records
  BY <1>1, ElementOfSeq DEF TypeOK
<1> QED
  BY <1>1, <1>2 DEF Records, ObjectStates

(* The last record of the log, when there is one to pop. *)
LEMMA LastRecord ==
  ASSUME TypeOK, log # <<>>
  PROVE  /\ Len(log) \in Nat \ {0}
         /\ log[Len(log)] \in Records
         /\ log[Len(log)].obj \in Objects
         /\ log[Len(log)].old \in ObjectStates
         /\ log[Len(log)].len \in Nat
<1>1. log \in Seq(Records)
  BY DEF TypeOK
<1>2. Len(log) \in Nat \ {0}
  BY <1>1, EmptySeq, LenProperties
<1>3. log[Len(log)] \in Records
  BY <1>1, <1>2, ElementOfSeq
<1> QED
  BY <1>2, <1>3 DEF Records

(* Every step keeps the type of the state. *)
LEMMA ChangesType ==
  ASSUME TypeOK, NEW o \in Objects, Changes(o)
  PROVE  TypeOK'
<1> PICK d \in Buffers \cup {NoBuffer} : \E i : ChangesTo(o, d, i)
  BY DEF Changes
<1> PICK i : ChangesTo(o, d, i)
  OBVIOUS
<1> USE DEF TypeOK, ChangesTo
<1>1. log' \in Seq(Records)
  BY LogWithProperties
<1>2. [data |-> d, info |-> i, snap |-> snap] \in ObjectStates
  BY DEF ObjectStates
<1>3. obj' \in [Objects -> ObjectStates]
  BY <1>2 DEF Assign
<1>5. RefsWith(o) \in [Buffers -> Nat]
  <2>1. obj[o].data \in Buffers \cup {NoBuffer}
    BY DEF ObjectStates
  <2> QED
    BY <2>1 DEF RefsWith
<1>6. refs' \in [Buffers -> Nat]
  <2>1. CASE refs' = RefsWith(o)
    BY <2>1, <1>5
  <2>2. CASE d \in Buffers /\ refs' = [RefsWith(o) EXCEPT ![d] = 1]
    BY <2>2, <1>5
  <2> QED
    BY <2>1, <2>2
<1>7. heap' \in [Buffers -> Seq(Bytes)]
  <2>1. <<>> \in Seq(Bytes)
    BY EmptySeq
  <2>2. \A b \in Buffers, x \in Bytes : Append(heap[b], x) \in Seq(Bytes)
    BY AppendProperties
  <2> QED
    BY <2>1, <2>2, ZenonT(30)
<1> QED
  BY <1>1, <1>3, <1>6, <1>7

-----------------------------------------------------------------------------
(* Counting the holders of a buffer *)

HeldBy(b) == Cardinality(Holders(b)) + Cardinality(RecordHolders(b))

(* The objects and the records that hold a buffer are finitely many. *)
LEMMA HoldersFinite ==
  ASSUME TypeOK, NEW b \in Buffers
  PROVE  /\ IsFiniteSet(Objects)
         /\ IsFiniteSet(Holders(b))
         /\ IsFiniteSet(RecordHolders(b))
         /\ Cardinality(Holders(b)) \in Nat
         /\ Cardinality(RecordHolders(b)) \in Nat
<1>1. IsFiniteSet(Objects)
  BY UndoLogAssumption, FS_Union DEF Objects
<1>2. IsFiniteSet(Holders(b))
  BY <1>1, FS_Subset DEF Holders
<1>3. IsFiniteSet(RecordHolders(b))
  <2>1. Len(log) \in Nat /\ DOMAIN log = 1..Len(log)
    BY LenProperties DEF TypeOK
  <2>2. IsFiniteSet(1..Len(log))
    BY <2>1, FS_Interval
  <2>3. RecordHolders(b) \subseteq 1..Len(log)
    BY <2>1 DEF RecordHolders
  <2> QED
    BY <2>2, <2>3, FS_Subset
<1> QED
  BY <1>1, <1>2, <1>3, FS_CardinalityType

(* Memory that is free is held by no one. *)
LEMMA FreeIsUnheld ==
  ASSUME TypeOK, ReferencesCovered, NEW b \in Buffers, refs[b] = 0
  PROVE  /\ \A o \in Objects : ~Owns(o, b)
         /\ Holders(b) = {} /\ RecordHolders(b) = {}
<1>1. /\ Cardinality(Holders(b)) = 0
      /\ Cardinality(RecordHolders(b)) = 0
  BY HoldersFinite DEF ReferencesCovered
<1>2. Holders(b) = {} /\ RecordHolders(b) = {}
  BY <1>1, HoldersFinite, FS_EmptySet
<1> QED
  BY <1>2 DEF Owns, Holders, RecordHolders

(* Logging an object adds one holder and one reference, to its buffer. *)
LEMMA LoggingKeeps ==
  ASSUME TypeOK, TypeOK', NEW o \in Objects, log' = LogWith(o),
         NEW b \in Buffers
  PROVE  LET one == IF MustLog(o) /\ obj[o].data = b THEN 1 ELSE 0
         IN  /\ Cardinality(RecordHolders(b)') =
                   Cardinality(RecordHolders(b)) + one
             /\ RefsWith(o)[b] = refs[b] + one
<1> DEFINE n == Len(log)
<1>0. /\ n \in Nat
      /\ DOMAIN log = 1..n
      /\ MustLog(o) => DOMAIN log' = 1..(n + 1)
      /\ refs \in [Buffers -> Nat]
  BY LogWithProperties, LenProperties DEF TypeOK
<1>1. CASE ~MustLog(o)
  <2>1. log' = log
    BY <1>1, LogWithProperties
  <2>2. RecordHolders(b)' = RecordHolders(b)
    BY <2>1 DEF RecordHolders
  <2> QED
    BY <1>0, <1>1, <2>2, HoldersFinite DEF RefsWith
<1>2. CASE MustLog(o)
  <2>1. /\ log'[n + 1].old = obj[o]
        /\ \A i \in 1..n : log'[i] = log[i]
    <3>1. log'[n + 1] =
            [obj |-> o, old |-> obj[o], len |-> LengthOf(obj[o].data)]
      BY <1>2, LogWithProperties
    <3>2. \A i \in 1..n : log'[i] = log[i]
      BY <1>2, LogWithProperties
    <3> QED
      BY <3>1, <3>2
  <2>2. CASE obj[o].data = b
    <3>1. RecordHolders(b)' = RecordHolders(b) \cup {n + 1}
      BY <1>0, <1>2, <2>1, <2>2 DEF RecordHolders
    <3>2. n + 1 \notin RecordHolders(b)
      BY <1>0 DEF RecordHolders
    <3>3. Cardinality(RecordHolders(b)') = Cardinality(RecordHolders(b)) + 1
      BY <3>1, <3>2, HoldersFinite, FS_AddElement
    <3>4. RefsWith(o)[b] = refs[b] + 1
      BY <1>0, <1>2, <2>2, UndoLogAssumption DEF RefsWith
    <3> QED
      BY <1>2, <2>2, <3>3, <3>4
  <2>3. CASE obj[o].data # b
    <3>1. RecordHolders(b)' = RecordHolders(b)
      BY <1>0, <1>2, <2>1, <2>3 DEF RecordHolders
    <3>2. RefsWith(o)[b] = refs[b]
      BY <1>0, <2>3 DEF RefsWith
    <3> QED
      BY <1>0, <2>3, <3>1, <3>2, HoldersFinite
  <2> QED
    BY <2>2, <2>3
<1> QED
  BY <1>1, <1>2

(* A change keeps the references counted: log_fileentry keeps its own. *)
LEMMA ChangesReferences ==
  ASSUME TypeOK, TypeOK', ReferencesCovered, NEW o \in Objects, Changes(o)
  PROVE  ReferencesCovered'
<1> PICK d \in Buffers \cup {NoBuffer} : \E i : ChangesTo(o, d, i)
  BY DEF Changes
<1> PICK i : ChangesTo(o, d, i)
  OBVIOUS
<1> SUFFICES ASSUME NEW b \in Buffers
             PROVE  refs'[b] >= Cardinality(Holders(b)')
                                + Cardinality(RecordHolders(b)')
  BY DEF ReferencesCovered
<1> DEFINE one == IF MustLog(o) /\ obj[o].data = b THEN 1 ELSE 0
<1>0. /\ one \in Nat
      /\ refs[b] \in Nat
      /\ refs[b] >= Cardinality(Holders(b)) + Cardinality(RecordHolders(b))
      /\ Cardinality(Holders(b)) \in Nat
      /\ Cardinality(RecordHolders(b)) \in Nat
      /\ IsFiniteSet(Holders(b))
  BY HoldersFinite DEF ReferencesCovered, TypeOK
<1>1. /\ Cardinality(RecordHolders(b)') = Cardinality(RecordHolders(b)) + one
      /\ RefsWith(o)[b] = refs[b] + one
  BY LoggingKeeps DEF ChangesTo
<1>2. \A p \in Objects : obj'[p].data = IF p = o THEN d ELSE obj[p].data
  BY DEF ChangesTo, Assign, TypeOK
<1>3. CASE d = obj[o].data
  <2>1. Holders(b)' = Holders(b)
    BY <1>2, <1>3 DEF Holders
  <2>2. refs' = RefsWith(o)
    <3>1. CASE refs' = RefsWith(o)
      BY <3>1
    <3>2. CASE d \in Buffers /\ refs[d] = 0
      BY <3>2, <1>3, FreeIsUnheld DEF Owns
    <3> QED
      BY <3>1, <3>2 DEF ChangesTo
  <2> HIDE DEF one
  <2> QED
    BY <1>0, <1>1, <2>1, <2>2
<1>4. CASE d # obj[o].data
  <2>1. /\ d \in Buffers
        /\ refs[d] = 0
        /\ refs' = [RefsWith(o) EXCEPT ![d] = 1]
    BY <1>4 DEF ChangesTo
  <2>2. Holders(d) = {} /\ RecordHolders(d) = {}
    BY <2>1, FreeIsUnheld
  <2>3. CASE b = d
    <3>1. Holders(b)' = {o}
      BY <1>2, <2>2, <2>3 DEF Holders
    <3>2. one = 0
      BY <1>4, <2>3
    <3>3. refs'[b] = 1
      <4>1. RefsWith(o) \in [Buffers -> Nat] \/ b \in DOMAIN RefsWith(o)
        BY DEF RefsWith, TypeOK
      <4> QED
        BY <2>1, <2>3, <4>1
    <3>4. Cardinality(RecordHolders(b)') = 0
      BY <1>1, <2>2, <2>3, <3>2, FS_EmptySet
    <3>5. Cardinality(Holders(b)') = 1
      BY <3>1, FS_Singleton
    <3> QED
      BY <3>3, <3>4, <3>5
  <2>4. CASE b # d
    <3>1. Holders(b)' \subseteq Holders(b)
      BY <1>2, <2>4 DEF Holders
    <3>2. /\ Cardinality(Holders(b)') <= Cardinality(Holders(b))
          /\ Cardinality(Holders(b)') \in Nat
      BY <1>0, <3>1, FS_Subset, FS_CardinalityType
    <3>3. refs'[b] = refs[b] + one
      <4>1. DOMAIN RefsWith(o) = Buffers
        BY DEF RefsWith, TypeOK
      <4> QED
        BY <1>1, <2>1, <2>4, <4>1
    <3> HIDE DEF one
    <3> QED
      BY <1>0, <1>1, <3>2, <3>3
  <2> QED
    BY <2>3, <2>4
<1> QED
  BY <1>3, <1>4

-----------------------------------------------------------------------------
(* A change keeps the other parts of the invariant. *)

(* A change leaves the records where they are and adds at most one. *)
LEMMA ChangesLog ==
  ASSUME TypeOK, NEW o \in Objects, Changes(o)
  PROVE  LET n == Len(log) IN
         /\ n \in Nat
         /\ DOMAIN log = 1..n
         /\ ~MustLog(o) => log' = log
         /\ MustLog(o) =>
              /\ Len(log') = n + 1
              /\ DOMAIN log' = 1..(n + 1)
              /\ log'[n + 1].obj = o
              /\ log'[n + 1].old = obj[o]
              /\ log'[n + 1].len = LengthOf(obj[o].data)
              /\ \A i \in 1..n : log'[i] = log[i]
<1>1. log' = LogWith(o)
  BY DEF Changes, ChangesTo
<1>2. Len(log) \in Nat /\ DOMAIN log = 1..Len(log)
  BY LenProperties DEF TypeOK
<1>3. ~MustLog(o) => log' = log
  BY <1>1, LogWithProperties
<1>4. ASSUME MustLog(o)
      PROVE  /\ Len(log') = Len(log) + 1
             /\ DOMAIN log' = 1..(Len(log) + 1)
             /\ \A i \in 1..Len(log) : log'[i] = log[i]
  BY <1>1, <1>4, LogWithProperties, LenProperties
<1>5. ASSUME MustLog(o)
      PROVE  log'[Len(log) + 1] =
               [obj |-> o, old |-> obj[o], len |-> LengthOf(obj[o].data)]
  BY <1>1, <1>5, LogWithProperties
<1> QED
  BY <1>2, <1>3, <1>4, <1>5

(* A change of one object leaves the others as they were. *)
LEMMA ChangesObj ==
  ASSUME TypeOK, NEW o \in Objects, Changes(o)
  PROVE  /\ goal = 0 /\ goal' = 0 /\ snap' = snap /\ marks' = marks
         /\ obj'[o].snap = snap
         /\ \A p \in Objects \ {o} : obj'[p] = obj[p]
         /\ obj'[o].data # obj[o].data =>
              /\ obj'[o].data \in Buffers
              /\ refs[obj'[o].data] = 0
BY DEF Changes, ChangesTo, Assign, TypeOK

(* A change moves no mark, and pushes the records above them. *)
LEMMA ChangesMarks ==
  ASSUME TypeOK, NoAbort, MarksOrdered, NEW o \in Objects, Changes(o)
  PROVE  NoAbort' /\ MarksOrdered'
<1>1. /\ goal = 0 /\ goal' = 0 /\ snap' = snap /\ marks' = marks
      /\ Mark <= Mark'
  BY ChangesObj, ChangesLog DEF Mark
<1>2. snap \in Nat /\ Mark \in Nat /\ Mark' \in Nat
  BY ChangesLog DEF Mark, TypeOK
<1> QED
  BY <1>1, <1>2 DEF NoAbort, MarksOrdered

(* A change leaves every tag backed by a record above it. *)
LEMMA ChangesTags ==
  ASSUME TypeOK, MarksOrdered, TagsBacked, NEW o \in Objects, Changes(o)
  PROVE  TagsBacked'
<1> DEFINE n == Len(log)
<1>0. /\ n \in Nat
      /\ DOMAIN log = 1..n
      /\ snap \in Nat
      /\ snap <= n + 1
      /\ \A p \in Objects : obj[p].snap \in Nat
  BY ChangesLog, ChangesObj DEF MarksOrdered, Mark, TypeOK, ObjectStates
<1>1. CASE ~MustLog(o)
  <2>1. log' = log /\ \A p \in Objects : obj'[p].snap = obj[p].snap
    BY <1>1, ChangesLog, ChangesObj DEF MustLog
  <2> QED
    BY <2>1 DEF TagsBacked
<1>2. CASE MustLog(o)
  <2>1. /\ Len(log') = n + 1
        /\ DOMAIN log' = 1..(n + 1)
        /\ log'[n + 1].obj = o
        /\ log'[n + 1].old = obj[o]
        /\ \A i \in 1..n : log'[i] = log[i]
    BY <1>2, ChangesLog
  <2>2. ASSUME NEW p \in Objects, obj'[p].snap # 0
        PROVE  \E j \in obj'[p].snap..Len(log') : log'[j].obj = p
    <3>1. CASE p = o
      <4>1. n + 1 \in obj'[p].snap..Len(log')
        BY <1>0, <2>1, <3>1, ChangesObj
      <4> QED
        BY <4>1, <2>1, <3>1
    <3>2. CASE p # o
      <4>1. obj'[p].snap = obj[p].snap
        BY <3>2, ChangesObj
      <4>2. PICK j \in obj[p].snap..n : log[j].obj = p
        BY <2>2, <4>1 DEF TagsBacked
      <4>3. j \in 1..n /\ j \in obj'[p].snap..Len(log')
        BY <1>0, <2>1, <2>2, <4>1, <4>2
      <4> QED
        BY <2>1, <4>2, <4>3
    <3> QED
      BY <3>1, <3>2
  <2>3. ASSUME NEW i \in DOMAIN log', log'[i].old.snap # 0
        PROVE  \E j \in log'[i].old.snap..(i - 1) : log'[j].obj = log'[i].obj
    <3>1. CASE i = n + 1
      <4>1. PICK j \in obj[o].snap..n : log[j].obj = o
        BY <2>1, <2>3, <3>1 DEF TagsBacked
      <4>2. j \in 1..n /\ j \in log'[i].old.snap..(i - 1)
        BY <1>0, <2>1, <2>3, <3>1, <4>1
      <4> QED
        BY <2>1, <3>1, <4>1, <4>2
    <3>2. CASE i \in 1..n
      <4>1. log'[i] = log[i] /\ i \in DOMAIN log
        BY <1>0, <2>1, <3>2
      <4>2. PICK j \in log[i].old.snap..(i - 1) : log[j].obj = log[i].obj
        BY <2>3, <4>1 DEF TagsBacked
      <4>3. log[i].old.snap \in Nat
        BY <4>1, RecordTypes
      <4>4. j \in 1..n
        BY <1>0, <2>3, <3>2, <4>1, <4>2, <4>3
      <4> QED
        BY <2>1, <4>1, <4>2, <4>4
    <3> QED
      BY <1>0, <2>1, <3>1, <3>2
  <2> QED
    BY <2>2, <2>3 DEF TagsBacked
<1> QED
  BY <1>1, <1>2

(* Whoever owns a buffer after a change owned it before, or it was free. *)
LEMMA ChangesOwners ==
  ASSUME TypeOK, ReferencesCovered, PrivateBuffers,
         NEW o \in Objects, Changes(o)
  PROVE  PrivateBuffers'
<1> DEFINE n == Len(log)
<1>1. ASSUME NEW p \in Objects, NEW b \in Buffers, Owns(p, b)'
      PROVE  Owns(p, b) \/ (p = o /\ b = obj'[o].data)
  <2>1. CASE obj'[p].data = b
    BY <2>1, ChangesObj DEF Owns
  <2>2. CASE \E i \in DOMAIN log' : log'[i].obj = p /\ log'[i].old.data = b
    <3>1. CASE ~MustLog(o)
      BY <2>2, <3>1, ChangesLog DEF Owns
    <3>2. CASE MustLog(o)
      <4>1. PICK i \in DOMAIN log' : log'[i].obj = p /\ log'[i].old.data = b
        BY <2>2
      <4>2. CASE i = n + 1
        <5>1. p = o /\ obj[o].data = b
          BY <3>2, <4>1, <4>2, ChangesLog
        <5> QED
          BY <5>1 DEF Owns
      <4>3. CASE i \in 1..n
        BY <3>2, <4>1, <4>3, ChangesLog DEF Owns
      <4> QED
        BY <3>2, <4>2, <4>3, ChangesLog
    <3> QED
      BY <3>1, <3>2
  <2> QED
    BY <1>1, <2>1, <2>2 DEF Owns
<1>2. ASSUME NEW p \in Objects, p # o, Owns(p, obj'[o].data),
             obj'[o].data \in Buffers
      PROVE  Owns(o, obj'[o].data)
  <2>1. CASE obj'[o].data = obj[o].data
    BY <2>1 DEF Owns
  <2>2. CASE obj'[o].data # obj[o].data
    BY <1>2, <2>2, ChangesObj, FreeIsUnheld
  <2> QED
    BY <2>1, <2>2
<1>3. ASSUME NEW o1 \in Objects, NEW o2 \in Objects, NEW b \in Buffers,
             Owns(o1, b)', Owns(o2, b)'
      PROVE  o1 = o2
  <2>1. CASE Owns(o1, b) /\ Owns(o2, b)
    BY <2>1 DEF PrivateBuffers
  <2>2. CASE o1 = o /\ b = obj'[o].data /\ o2 # o
    BY <1>1, <1>2, <1>3, <2>2 DEF PrivateBuffers
  <2>3. CASE o2 = o /\ b = obj'[o].data /\ o1 # o
    BY <1>1, <1>2, <1>3, <2>3 DEF PrivateBuffers
  <2> QED
    BY <1>1, <1>3, <2>1, <2>2, <2>3
<1> QED
  BY <1>3 DEF PrivateBuffers

(* A change appends to a buffer of its object, or takes a free one. *)
LEMMA ChangesHeap ==
  ASSUME TypeOK, ReferencesCovered, PrivateBuffers, NEW o \in Objects,
         Changes(o), NEW b \in Buffers, NEW p \in Objects, Owns(p, b)
  PROVE  /\ Len(heap'[b]) >= Len(heap[b])
         /\ \A k \in 0..Len(heap[b]) :
              SubSeq(heap'[b], 1, k) = SubSeq(heap[b], 1, k)
         /\ p # o => heap'[b] = heap[b]
<1> PICK d \in Buffers \cup {NoBuffer} : \E i : ChangesTo(o, d, i)
  BY DEF Changes
<1> PICK i : ChangesTo(o, d, i)
  OBVIOUS
<1>0. heap[b] \in Seq(Bytes) /\ Len(heap[b]) \in Nat
  BY LenProperties DEF TypeOK
<1>1. CASE heap'[b] = heap[b]
  BY <1>0, <1>1
<1>2. CASE \E x \in Bytes : heap'[b] = Append(heap[b], x) /\ obj[o].data = b
  <2> PICK x \in Bytes : heap'[b] = Append(heap[b], x)
    BY <1>2
  <2>1. /\ heap'[b] \in Seq(Bytes)
        /\ Len(heap'[b]) = Len(heap[b]) + 1
        /\ \A k \in 1..Len(heap[b]) : heap'[b][k] = heap[b][k]
    BY <1>0, AppendProperties
  <2>2. ASSUME NEW k \in 0..Len(heap[b])
        PROVE  SubSeq(heap'[b], 1, k) = SubSeq(heap[b], 1, k)
    BY <1>0, <2>1, SameSubSeq
  <2>3. p = o
    BY <1>2 DEF PrivateBuffers, Owns
  <2> QED
    BY <1>0, <2>1, <2>2, <2>3
<1>3. ~(b = d /\ refs[d] = 0)
  BY FreeIsUnheld
<1> QED
  <2>1. CASE heap' = heap
    BY <1>1, <2>1
  <2>2. CASE /\ d = obj[o].data
             /\ \E x \in Bytes : heap' = [heap EXCEPT ![d] = Append(@, x)]
    <3>1. heap'[b] = heap[b] \/ \E x \in Bytes : heap'[b] = Append(heap[b], x)
                                              /\ obj[o].data = b
      BY <2>2 DEF TypeOK
    <3> QED
      BY <3>1, <1>1, <1>2
  <2>3. CASE refs[d] = 0 /\ heap' = [heap EXCEPT ![d] = <<>>]
    BY <1>1, <1>3, <2>3 DEF TypeOK
  <2> QED
    BY <2>1, <2>2, <2>3 DEF ChangesTo

(* A change shortens no buffer a record may ask a prefix of. *)
LEMMA ChangesPrefixes ==
  ASSUME TypeOK, ReferencesCovered, PrivateBuffers, PrefixesKept,
         NEW o \in Objects, Changes(o)
  PROVE  PrefixesKept'
<1> DEFINE n == Len(log)
<1>0. ASSUME NEW i \in 1..n, log[i].old.data # NoBuffer
      PROVE  /\ log[i].old.data \in Buffers
             /\ log[i].len \in Nat
             /\ log[i].len <= Len(heap[log[i].old.data])
             /\ Len(heap[log[i].old.data]) \in Nat
             /\ Len(heap'[log[i].old.data]) \in Nat
             /\ log[i].len <= Len(heap'[log[i].old.data])
  <2>1. i \in DOMAIN log
    BY RecordTypes
  <2>2. /\ log[i].old.data \in Buffers
        /\ log[i].obj \in Objects
        /\ log[i].len \in Nat
        /\ Owns(log[i].obj, log[i].old.data)
    BY <1>0, <2>1, RecordTypes DEF Owns
  <2>3. log[i].len <= Len(heap[log[i].old.data])
    BY <1>0, <2>1 DEF PrefixesKept
  <2>4. Len(heap'[log[i].old.data]) >= Len(heap[log[i].old.data])
    BY <2>2, ChangesHeap
  <2>5. /\ Len(heap[log[i].old.data]) \in Nat
        /\ Len(heap'[log[i].old.data]) \in Nat
    BY <2>2, ChangesType, LenProperties DEF TypeOK
  <2> QED
    BY <2>2, <2>3, <2>4, <2>5
<1>1. CASE ~MustLog(o)
  <2>1. log' = log /\ DOMAIN log = 1..n
    BY <1>1, ChangesLog
  <2> QED
    BY <1>0, <2>1 DEF PrefixesKept
<1>2. CASE MustLog(o)
  <2>1. /\ DOMAIN log = 1..n
        /\ n \in Nat
        /\ DOMAIN log' = 1..(n + 1)
        /\ log'[n + 1].old = obj[o]
        /\ log'[n + 1].len = LengthOf(obj[o].data)
        /\ \A i \in 1..n : log'[i] = log[i]
    BY <1>2, ChangesLog
  <2>2. ASSUME obj[o].data # NoBuffer
        PROVE  /\ obj[o].data \in Buffers
               /\ log'[n + 1].len = Len(heap[obj[o].data])
               /\ Len(heap[obj[o].data]) \in Nat
               /\ log'[n + 1].len <= Len(heap'[obj[o].data])
    <3>1. obj[o].data \in Buffers /\ Owns(o, obj[o].data)
      BY <2>2 DEF TypeOK, ObjectStates, Owns
    <3>2. Len(heap'[obj[o].data]) >= Len(heap[obj[o].data])
      BY <3>1, ChangesHeap
    <3>3. /\ Len(heap[obj[o].data]) \in Nat
          /\ Len(heap'[obj[o].data]) \in Nat
      BY <3>1, ChangesType, LenProperties DEF TypeOK
    <3> QED
      BY <2>1, <2>2, <3>1, <3>2, <3>3 DEF LengthOf
  <2>3. ASSUME NEW i \in DOMAIN log', log'[i].old.data # NoBuffer
        PROVE  log'[i].len <= Len(heap'[log'[i].old.data])
    <3>1. CASE i = n + 1
      BY <2>1, <2>2, <2>3, <3>1
    <3>2. CASE i \in 1..n
      BY <1>0, <2>1, <2>3, <3>2
    <3> QED
      BY <2>1, <3>1, <3>2
  <2>4. ASSUME NEW i \in DOMAIN log', NEW j \in DOMAIN log', i <= j,
               log'[i].old.data = log'[j].old.data, log'[i].old.data # NoBuffer
        PROVE  log'[i].len <= log'[j].len
    <3>1. CASE j = n + 1 /\ i \in 1..n
      BY <1>0, <2>1, <2>2, <2>4, <3>1
    <3>2. CASE j = n + 1 /\ i = n + 1
      BY <2>1, <2>2, <2>4, <3>2
    <3>3. CASE i \in 1..n /\ j \in 1..n
      BY <2>1, <2>4, <3>3 DEF PrefixesKept
    <3> QED
      BY <2>1, <2>4, <3>1, <3>2, <3>3
  <2> QED
    BY <2>3, <2>4 DEF PrefixesKept
<1> QED
  BY <1>1, <1>2

-----------------------------------------------------------------------------
(* A pop keeps the invariant. *)

(* What a pop does, in terms of the record it takes. *)
LEMMA PopEffect ==
  ASSUME LogInvariant, Pop
  PROVE  LET n == Len(log)
             o == log[n].obj
             b == log[n].old.data
         IN  /\ n \in Nat /\ n >= 1
             /\ goal \in Nat /\ goal # 0 /\ goal <= n
             /\ snap' = snap /\ marks' = marks /\ goal' = goal
             /\ DOMAIN log = 1..n
             /\ log' \in Seq(Records)
             /\ Len(log') = n - 1
             /\ DOMAIN log' = 1..(n - 1)
             /\ \A i \in 1..(n - 1) : log'[i] = log[i]
             /\ o \in Objects
             /\ log[n].old \in ObjectStates
             /\ log[n].len \in Nat
             /\ b \in Buffers \cup {NoBuffer}
             /\ obj' = [obj EXCEPT ![o] = log[n].old]
             /\ b \in Buffers =>
                  /\ Len(heap[b]) \in Nat
                  /\ log[n].len <= Len(heap[b])
                  /\ heap' = [heap EXCEPT ![b] = SubSeq(@, 1, log[n].len)]
             /\ b = NoBuffer => heap' = heap
<1>0. TypeOK /\ NoAbort /\ PrefixesKept
  BY DEF LogInvariant
<1>1. Len(log) \in Nat /\ goal \in Nat /\ goal # 0 /\ Len(log) + 1 > goal
  BY <1>0, RecordTypes DEF Pop, Mark, TypeOK
<1>2. Len(log) >= 1 /\ goal <= Len(log)
  BY <1>1
<1>3. log \in Seq(Records) /\ log # <<>>
  BY <1>0, <1>2, EmptySeq DEF TypeOK
<1>4. /\ log' \in Seq(Records)
      /\ Len(log') = Len(log) - 1
      /\ \A i \in 1..Len(log') : log'[i] = log[i]
  BY <1>3, FrontOfProperties DEF Pop
<1>5. DOMAIN log' = 1..Len(log')
  BY <1>4, LenProperties
<1>6. /\ DOMAIN log = 1..Len(log)
      /\ Len(log) \in DOMAIN log
      /\ log[Len(log)].obj \in Objects
      /\ log[Len(log)].old \in ObjectStates
      /\ log[Len(log)].len \in Nat
      /\ log[Len(log)].old.data \in Buffers \cup {NoBuffer}
  BY <1>0, <1>1, <1>2, RecordTypes
<1>7. ASSUME log[Len(log)].old.data \in Buffers
      PROVE  /\ Len(heap[log[Len(log)].old.data]) \in Nat
             /\ log[Len(log)].len <= Len(heap[log[Len(log)].old.data])
             /\ heap' = [heap EXCEPT ![log[Len(log)].old.data] =
                           SubSeq(@, 1, log[Len(log)].len)]
  BY <1>0, <1>6, <1>7, UndoLogAssumption, LenProperties
     DEF Pop, PrefixesKept, TypeOK
<1>8. log[Len(log)].old.data = NoBuffer => heap' = heap
  BY DEF Pop
<1>9. /\ snap' = snap /\ marks' = marks /\ goal' = goal
      /\ obj' = [obj EXCEPT ![log[Len(log)].obj] = log[Len(log)].old]
  BY DEF Pop
<1> QED
  BY <1>1, <1>2, <1>4, <1>5, <1>6, <1>7, <1>8, <1>9

(* A pop drops as many references as holders. *)
LEMMA PopReferences ==
  ASSUME LogInvariant, Pop
  PROVE  refs' \in [Buffers -> Nat] /\ ReferencesCovered'
<1> DEFINE n == Len(log)
           o == log[n].obj
           b0 == log[n].old.data
           c == obj[o].data
<1>0. /\ TypeOK
      /\ ReferencesCovered
      /\ o \in Objects
      /\ n \in Nat /\ n >= 1
      /\ DOMAIN log = 1..n
      /\ DOMAIN log' = 1..(n - 1)
      /\ \A i \in 1..(n - 1) : log'[i] = log[i]
      /\ obj' = [obj EXCEPT ![o] = log[n].old]
  BY PopEffect DEF LogInvariant
<1>1. /\ refs \in [Buffers -> Nat]
      /\ c \in Buffers \cup {NoBuffer}
      /\ refs' = IF c = NoBuffer THEN refs ELSE [refs EXCEPT ![c] = @ - 1]
      /\ obj \in [Objects -> ObjectStates]
  BY <1>0 DEF TypeOK, Pop, ObjectStates
<1>2. ASSUME NEW b \in Buffers
      PROVE  /\ refs'[b] \in Nat
             /\ refs'[b] >= Cardinality(Holders(b)')
                              + Cardinality(RecordHolders(b)')
  <2> DEFINE h == Cardinality(Holders(b))
             r == Cardinality(RecordHolders(b))
  <2>0. /\ IsFiniteSet(Holders(b)) /\ IsFiniteSet(RecordHolders(b))
        /\ h \in Nat /\ r \in Nat
        /\ refs[b] \in Nat /\ refs[b] >= h + r
    BY <1>0, <1>1, HoldersFinite DEF ReferencesCovered
  <2>1. Cardinality(RecordHolders(b)') = IF b = b0 THEN r - 1 ELSE r
    <3>1. RecordHolders(b)' = RecordHolders(b) \ {n}
      BY <1>0 DEF RecordHolders
    <3>2. n \in RecordHolders(b) <=> b = b0
      BY <1>0 DEF RecordHolders
    <3> QED
      BY <2>0, <3>1, <3>2, FS_RemoveElement
  <2>2. Cardinality(Holders(b)') = IF b = b0 THEN IF b = c THEN h ELSE h + 1
                                   ELSE IF b = c THEN h - 1 ELSE h
    <3>0. o \in Holders(b) <=> b = c
      BY <1>0 DEF Holders
    <3>1. CASE b = b0
      <4>1. Holders(b)' = Holders(b) \cup {o}
        BY <1>0, <1>1, <3>1 DEF Holders
      <4> QED
        BY <2>0, <3>0, <3>1, <4>1, FS_AddElement
    <3>2. CASE b # b0
      <4>1. Holders(b)' = Holders(b) \ {o}
        BY <1>0, <1>1, <3>2 DEF Holders
      <4>2. Cardinality(Holders(b) \ {o}) =
              IF o \in Holders(b) THEN h - 1 ELSE h
        BY <2>0, FS_RemoveElement
      <4> QED
        BY <3>0, <3>2, <4>1, <4>2
    <3> QED
      BY <3>1, <3>2
  <2>3. refs'[b] = IF b = c THEN refs[b] - 1 ELSE refs[b]
    BY <1>1, UndoLogAssumption
  <2>4. b = c => h >= 1
    <3>1. b = c => Holders(b) # {}
      BY <1>0 DEF Holders
    <3> QED
      BY <2>0, <3>1, FS_EmptySet
  <2>5. b = b0 => r >= 1
    <3>1. b = b0 => RecordHolders(b) # {}
      BY <1>0 DEF RecordHolders
    <3> QED
      BY <2>0, <3>1, FS_EmptySet
  <2> HIDE DEF h, r, c, b0
  <2> QED
    BY <2>0, <2>1, <2>2, <2>3, <2>4, <2>5
<1>3. refs' \in [Buffers -> Nat]
  <2>1. DOMAIN refs' = Buffers /\ refs' = [b \in Buffers |-> refs'[b]]
    BY <1>1
  <2> QED
    BY <1>2, <2>1
<1> QED
  BY <1>2, <1>3 DEF ReferencesCovered

(* A pop keeps the type of the state. *)
LEMMA PopType ==
  ASSUME LogInvariant, Pop
  PROVE  TypeOK'
<1>1. TypeOK
  BY DEF LogInvariant
<1>2. refs' \in [Buffers -> Nat]
  BY PopReferences
<1>3. obj' \in [Objects -> ObjectStates]
  BY <1>1, PopEffect DEF TypeOK
<1>4. heap' \in [Buffers -> Seq(Bytes)]
  <2> DEFINE n == Len(log)
             b == log[n].old.data
  <2>1. CASE b \in Buffers
    <3>1. \A k \in 1..log[n].len : heap[b][k] \in Bytes
      <4>1. heap[b] \in Seq(Bytes)
        BY <1>1, <2>1 DEF TypeOK
      <4>2. \A k \in 1..log[n].len : k \in 1..Len(heap[b])
        BY <2>1, PopEffect
      <4> QED
        BY <4>1, <4>2, ElementOfSeq
    <3>2. log[n].len \in Int
      BY PopEffect
    <3>3. SubSeq(heap[b], 1, log[n].len) \in Seq(Bytes)
      BY <3>1, <3>2, SubSeqProperties
    <3> QED
      BY <1>1, <2>1, <3>3, PopEffect DEF TypeOK
  <2>2. CASE b = NoBuffer
    BY <1>1, <2>2, PopEffect DEF TypeOK
  <2> QED
    BY <2>1, <2>2, PopEffect
<1> QED
  BY <1>1, <1>2, <1>3, <1>4, PopEffect DEF TypeOK

(* The records below the last one. *)
LEMMA BelowLast ==
  ASSUME NEW n \in Nat, NEW a \in Nat \ {0}, NEW x \in a..n, x # n
  PROVE  x \in 1..(n - 1) /\ x \in a..(n - 1)
OBVIOUS

(* A pop stays above the mark, and the tag it brings back is backed. *)
LEMMA PopMarksAndTags ==
  ASSUME LogInvariant, Pop
  PROVE  NoAbort' /\ MarksOrdered' /\ TagsBacked'
<1> DEFINE n == Len(log)
           o == log[n].obj
<1>0. /\ TypeOK /\ NoAbort /\ MarksOrdered /\ TagsBacked
      /\ n \in Nat /\ n >= 1
      /\ goal \in Nat /\ goal # 0 /\ goal <= n
      /\ DOMAIN log = 1..n
      /\ Len(log') = n - 1
      /\ DOMAIN log' = 1..(n - 1)
      /\ \A i \in 1..(n - 1) : log'[i] = log[i]
      /\ o \in Objects
      /\ obj' = [obj EXCEPT ![o] = log[n].old]
      /\ snap' = snap /\ marks' = marks /\ goal' = goal
      /\ obj \in [Objects -> ObjectStates]
  BY PopEffect DEF LogInvariant, TypeOK
<1>1. NoAbort'
  <2>1. Mark' = n /\ n \in Nat
    BY <1>0 DEF Mark
  <2> QED
    BY <1>0, <2>1 DEF NoAbort
<1>2. MarksOrdered'
  BY <1>0 DEF MarksOrdered
<1>3. ASSUME NEW p \in Objects, obj'[p].snap # 0
      PROVE  \E j \in obj'[p].snap..Len(log') : log'[j].obj = p
  <2>1. CASE p = o
    <3>1. obj'[p] = log[n].old /\ n \in DOMAIN log
      BY <1>0, <2>1
    <3>2. PICK j \in log[n].old.snap..(n - 1) : log[j].obj = o
      BY <1>0, <1>3, <3>1 DEF TagsBacked
    <3>3. log[n].old.snap \in Nat /\ log[n].old.snap # 0
      BY <1>0, <1>3, <3>1, RecordTypes
    <3>4. \A t \in Nat \ {0} : t..(n - 1) \subseteq 1..(n - 1)
      BY <1>0
    <3>5. j \in 1..(n - 1)
      BY <3>2, <3>3, <3>4
    <3> QED
      BY <1>0, <2>1, <3>1, <3>2, <3>5
  <2>2. CASE p # o
    <3>1. obj'[p] = obj[p] /\ obj[p].snap \in Nat
      BY <1>0, <2>2 DEF ObjectStates
    <3>2. PICK j \in obj[p].snap..n : log[j].obj = p
      BY <1>0, <1>3, <3>1 DEF TagsBacked
    <3>3. j # n
      BY <2>2, <3>2
    <3>4. obj[p].snap \in Nat \ {0}
      BY <1>3, <3>1
    <3>5. j \in 1..(n - 1) /\ j \in obj[p].snap..(n - 1)
      BY <1>0, <3>2, <3>3, <3>4, BelowLast
    <3> QED
      BY <1>0, <3>1, <3>2, <3>5
  <2> QED
    BY <2>1, <2>2
<1>4. ASSUME NEW i \in DOMAIN log', log'[i].old.snap # 0
      PROVE  \E j \in log'[i].old.snap..(i - 1) : log'[j].obj = log'[i].obj
  <2>1. i \in DOMAIN log /\ log'[i] = log[i] /\ log[i].old.snap \in Nat
    BY <1>0, RecordTypes
  <2>2. PICK j \in log[i].old.snap..(i - 1) : log[j].obj = log[i].obj
    BY <1>0, <1>4, <2>1 DEF TagsBacked
  <2>3. j \in 1..(n - 1)
    BY <1>0, <1>4, <2>1, <2>2
  <2> QED
    BY <1>0, <2>1, <2>2, <2>3
<1> QED
  BY <1>1, <1>2, <1>3, <1>4 DEF TagsBacked

(* Truncating in place harms no other object and no older record. *)
LEMMA PopBuffers ==
  ASSUME LogInvariant, Pop
  PROVE  PrivateBuffers' /\ PrefixesKept'
<1> DEFINE n == Len(log)
           o == log[n].obj
           b0 == log[n].old.data
           m == log[n].len
<1>0. /\ TypeOK /\ PrivateBuffers /\ PrefixesKept
      /\ n \in Nat /\ n >= 1
      /\ DOMAIN log = 1..n
      /\ n \in DOMAIN log
      /\ DOMAIN log' = 1..(n - 1)
      /\ \A i \in 1..(n - 1) : i \in 1..n /\ i <= n /\ log'[i] = log[i]
      /\ o \in Objects
      /\ m \in Nat
      /\ b0 \in Buffers \cup {NoBuffer}
      /\ obj' = [obj EXCEPT ![o] = log[n].old]
      /\ obj \in [Objects -> ObjectStates]
  BY PopEffect DEF LogInvariant, TypeOK
<1>1. ASSUME NEW p \in Objects, NEW b \in Buffers, Owns(p, b)'
      PROVE  Owns(p, b)
  <2>1. CASE obj'[p].data = b
    BY <1>0, <2>1 DEF Owns
  <2>2. CASE \E i \in DOMAIN log' : log'[i].obj = p /\ log'[i].old.data = b
    BY <1>0, <2>2 DEF Owns
  <2> QED
    BY <1>1, <2>1, <2>2 DEF Owns
<1>2. PrivateBuffers'
  BY <1>0, <1>1 DEF PrivateBuffers
<1>3. ASSUME NEW i \in DOMAIN log', log'[i].old.data # NoBuffer
      PROVE  log'[i].len <= Len(heap'[log'[i].old.data])
  <2> DEFINE b == log[i].old.data
  <2>1. /\ i \in DOMAIN log /\ log'[i] = log[i] /\ i <= n
        /\ b \in Buffers
        /\ log[i].len \in Nat
        /\ log[i].len <= Len(heap[b])
    BY <1>0, <1>3, RecordTypes DEF PrefixesKept
  <2>2. CASE b = b0
    <3>1. /\ heap'[b] = SubSeq(heap[b], 1, m)
          /\ m <= Len(heap[b])
          /\ heap[b] \in Seq(Bytes)
          /\ Len(heap[b]) \in Nat
      BY <1>0, <2>1, <2>2, PopEffect DEF TypeOK
    <3>2. Len(heap'[b]) = m
      BY <1>0, <3>1, PrefixProperties
    <3>3. log[i].len <= m
      BY <1>0, <1>3, <2>1, <2>2 DEF PrefixesKept
    <3> QED
      BY <2>1, <3>2, <3>3
  <2>3. CASE b # b0
    <3>1. heap'[b] = heap[b]
      BY <1>0, <2>1, <2>3, PopEffect DEF TypeOK
    <3> QED
      BY <2>1, <3>1
  <2> QED
    BY <2>2, <2>3
<1>4. ASSUME NEW i \in DOMAIN log', NEW j \in DOMAIN log', i <= j,
             log'[i].old.data = log'[j].old.data, log'[i].old.data # NoBuffer
      PROVE  log'[i].len <= log'[j].len
  BY <1>0, <1>4 DEF PrefixesKept
<1> QED
  BY <1>2, <1>3, <1>4 DEF PrefixesKept

(* A pop keeps the invariant. *)
LEMMA PopInvariant ==
  ASSUME LogInvariant, Pop
  PROVE  LogInvariant'
BY PopType, PopReferences, PopMarksAndTags, PopBuffers DEF LogInvariant

-----------------------------------------------------------------------------
(* Snapshots, marks given up, and the ends of a rollback. *)

(* A mark that is held is a positive number. *)
LEMMA MarksType ==
  ASSUME TypeOK
  PROVE  /\ Len(marks) \in Nat /\ Len(marks) >= 1
         /\ DOMAIN marks = 1..Len(marks)
         /\ \A k \in DOMAIN marks : marks[k] \in Nat \ {0}
         /\ Mark \in Nat \ {0}
         /\ snap \in Nat \ {0}
<1>1. marks \in Seq(Nat \ {0}) /\ marks # <<>>
  BY DEF TypeOK
<1>2. /\ Len(marks) \in Nat /\ Len(marks) >= 1
      /\ DOMAIN marks = 1..Len(marks)
  BY <1>1, EmptySeq, LenProperties
<1>3. Mark \in Nat \ {0} /\ snap \in Nat \ {0}
  BY RecordTypes DEF Mark, TypeOK
<1> QED
  BY <1>1, <1>2, <1>3, ElementOfSeq

(* log_snapshot keeps the invariant. *)
LEMMA SnapshotInvariant ==
  ASSUME LogInvariant, Snapshot
  PROVE  LogInvariant'
<1>0. /\ TypeOK /\ NoAbort /\ MarksOrdered /\ goal = 0 /\ goal' = 0
      /\ Len(marks) \in Nat /\ Mark \in Nat \ {0}
      /\ Mark' = Mark /\ snap' = Mark
      /\ marks \in Seq(Nat \ {0})
      /\ marks' = Append(marks, Mark)
      /\ snap \in Nat \ {0} /\ snap <= Mark
      /\ DOMAIN marks = 1..Len(marks)
  BY MarksType DEF Snapshot, Mark, LogInvariant, MarksOrdered, TypeOK
<1>1. /\ marks' \in Seq(Nat \ {0})
      /\ marks' # <<>>
      /\ Len(marks') = Len(marks) + 1
      /\ \A k \in 1..Len(marks) : marks'[k] = marks[k]
      /\ marks'[Len(marks) + 1] = Mark
  BY <1>0, AppendProperties
<1>2. DOMAIN marks' = 1..(Len(marks) + 1)
  BY <1>1, LenProperties
<1>3. \A k \in DOMAIN marks' : /\ marks'[k] <= Mark
                               /\ marks'[k] \in Nat
                               /\ k \in DOMAIN marks \/ k = Len(marks) + 1
  BY <1>0, <1>1, <1>2, MarksType DEF MarksOrdered
<1>4. ASSUME NEW j \in DOMAIN marks', NEW k \in DOMAIN marks', j <= k
      PROVE  marks'[j] <= marks'[k]
  <2>1. CASE k = Len(marks) + 1
    BY <1>1, <1>3, <2>1
  <2>2. CASE k \in 1..Len(marks)
    <3>1. j \in 1..Len(marks)
      BY <1>0, <1>2, <1>4, <2>2
    <3> QED
      BY <1>0, <1>1, <1>4, <2>2, <3>1 DEF MarksOrdered
  <2> QED
    BY <1>0, <1>3, <2>1, <2>2
<1>5. MarksOrdered'
  BY <1>0, <1>3, <1>4 DEF MarksOrdered
<1>6. TypeOK'
  BY <1>0, <1>1 DEF TypeOK, Snapshot
<1>7. NoAbort'
  BY <1>0 DEF NoAbort
<1> QED
  BY <1>5, <1>6, <1>7
     DEF LogInvariant, Snapshot, TagsBacked, PrivateBuffers, PrefixesKept,
         ReferencesCovered, Owns, Holders, RecordHolders

(* Giving up a mark keeps the invariant. *)
LEMMA ForgetInvariant ==
  ASSUME LogInvariant, NEW k \in DOMAIN marks, Forget(k)
  PROVE  LogInvariant'
<1> DEFINE n == Len(marks)
<1>0. /\ TypeOK /\ MarksOrdered
      /\ n \in Nat
      /\ DOMAIN marks = 1..n
      /\ marks \in Seq(Nat \ {0})
      /\ snap \in Nat
  BY MarksType DEF LogInvariant, TypeOK
<1>1. /\ goal = 0 /\ k \in 2..n
      /\ UNCHANGED <<heap, refs, obj, log, snap, goal>>
      /\ marks' = Without(marks, k)
  BY DEF Forget
<1>2. k \in 1..n /\ k >= 2 /\ k \in Int
  BY <1>0, <1>1
<1>3. /\ marks' \in Seq(Nat \ {0})
      /\ Len(marks') = n - 1
      /\ \A i \in 1..(n - 1) :
           marks'[i] = IF i < k THEN marks[i] ELSE marks[i + 1]
  BY <1>0, <1>1, <1>2, RemoveAtProperties
<1> HIDE DEF n
<1>4. DOMAIN marks' = 1..(n - 1) /\ marks' # <<>>
  <2>1. DOMAIN marks' = 1..(n - 1)
    BY <1>3, LenProperties
  <2>2. Len(marks') # 0
    BY <1>0, <1>1, <1>3
  <2> QED
    BY <2>1, <2>2, EmptySeq
<1>5. ASSUME NEW i \in 1..(n - 1)
      PROVE  \E fi \in 1..n : /\ marks'[i] = marks[fi]
                              /\ fi = IF i < k THEN i ELSE i + 1
  BY <1>0, <1>2, <1>3, SMTT(30)
<1>6. ASSUME NEW i \in DOMAIN marks'
      PROVE  marks'[i] <= snap
  BY <1>0, <1>1, <1>4, <1>5 DEF MarksOrdered
<1>7. ASSUME NEW i \in DOMAIN marks', NEW j \in DOMAIN marks', i <= j
      PROVE  marks'[i] <= marks'[j]
  <2>1. PICK fi \in 1..n : /\ marks'[i] = marks[fi]
                           /\ fi = IF i < k THEN i ELSE i + 1
    BY <1>4, <1>5
  <2>2. PICK fj \in 1..n : /\ marks'[j] = marks[fj]
                           /\ fj = IF j < k THEN j ELSE j + 1
    BY <1>4, <1>5
  <2>3. fi <= fj
    BY <1>0, <1>2, <1>4, <1>7, <2>1, <2>2, SMTT(30)
  <2> QED
    BY <1>0, <2>1, <2>2, <2>3 DEF MarksOrdered
<1>8. MarksOrdered'
  BY <1>0, <1>1, <1>6, <1>7 DEF MarksOrdered, Mark
<1>9. TypeOK' /\ NoAbort'
  BY <1>0, <1>1, <1>3, <1>4 DEF TypeOK, NoAbort
<1> QED
  BY <1>1, <1>8, <1>9
     DEF LogInvariant, TagsBacked, PrivateBuffers, PrefixesKept,
         ReferencesCovered, Owns, Holders, RecordHolders

(* Starting a rollback to the last mark keeps the invariant. *)
LEMMA RollbackBeginInvariant ==
  ASSUME LogInvariant, RollbackBegin
  PROVE  LogInvariant'
<1> DEFINE n == Len(marks)
<1>0. /\ TypeOK /\ MarksOrdered /\ goal = 0 /\ goal' = marks[n]
      /\ n \in Nat /\ n >= 1
      /\ DOMAIN marks = 1..n
      /\ marks \in Seq(Nat \ {0}) /\ marks # <<>>
      /\ marks[n] \in Nat \ {0}
      /\ marks[n] <= snap /\ snap <= Mark
      /\ Mark \in Nat /\ snap \in Nat
      /\ snap' = snap /\ Mark' = Mark
  BY MarksType DEF RollbackBegin, Mark, LogInvariant, MarksOrdered, TypeOK
<1>1. /\ marks' \in Seq(Nat \ {0})
      /\ marks' # <<>>
      /\ DOMAIN marks' \subseteq 1..n
      /\ \A i \in DOMAIN marks' : marks'[i] = marks[i]
  <2>1. CASE n = 1
    BY <1>0, <2>1 DEF RollbackBegin
  <2>2. CASE n # 1
    <3>1. marks' = SubSeq(marks, 1, n - 1)
      BY <2>2 DEF RollbackBegin
    <3>2. /\ marks' \in Seq(Nat \ {0})
          /\ Len(marks') = n - 1
          /\ \A i \in 1..(n - 1) : marks'[i] = marks[i]
      BY <1>0, <3>1, FrontOfProperties
    <3>3. DOMAIN marks' = 1..(n - 1)
      BY <3>2, LenProperties
    <3>4. 1 \in DOMAIN marks'
      BY <1>0, <2>2, <3>3
    <3> QED
      BY <1>0, <3>2, <3>3, <3>4
  <2> QED
    BY <2>1, <2>2
<1>2. MarksOrdered'
  <2>1. \A i \in DOMAIN marks' : marks[i] <= marks[n]
    BY <1>0, <1>1 DEF MarksOrdered
  <2> QED
    BY <1>0, <1>1, <2>1 DEF MarksOrdered
<1>3. TypeOK'
  BY <1>0, <1>1 DEF TypeOK, RollbackBegin
<1>4. NoAbort'
  BY <1>0 DEF NoAbort
<1> QED
  BY <1>2, <1>3, <1>4
     DEF LogInvariant, RollbackBegin, TagsBacked, PrivateBuffers, PrefixesKept,
         ReferencesCovered, Owns, Holders, RecordHolders

(* Ending a rollback keeps the invariant. *)
LEMMA RollbackEndInvariant ==
  ASSUME LogInvariant, RollbackEnd
  PROVE  LogInvariant'
<1>0. /\ TypeOK /\ NoAbort /\ MarksOrdered /\ goal # 0 /\ goal' = 0
      /\ goal \in Nat /\ Mark \in Nat /\ goal = Mark
      /\ snap' = goal /\ Mark' = Mark /\ marks' = marks
  BY MarksType DEF RollbackEnd, Mark, LogInvariant, NoAbort, TypeOK
<1>1. MarksOrdered'
  BY <1>0 DEF MarksOrdered
<1>2. TypeOK' /\ NoAbort'
  BY <1>0 DEF TypeOK, NoAbort, RollbackEnd
<1> QED
  BY <1>1, <1>2
     DEF LogInvariant, RollbackEnd, TagsBacked, PrivateBuffers, PrefixesKept,
         ReferencesCovered, Owns, Holders, RecordHolders

(* The invariant holds initially. *)
LEMMA InitInvariant ==
  ASSUME Init
  PROVE  LogInvariant
<1>1. /\ Len(log) = 0 /\ DOMAIN log = {} /\ log \in Seq(Records)
      /\ marks \in Seq(Nat \ {0}) /\ marks # <<>> /\ DOMAIN marks = {1}
      /\ marks[1] = 1
  BY EmptySeq DEF Init
<1>2. TypeOK
  BY <1>1, EmptySeq DEF Init, TypeOK, ObjectStates, Levels, Objects
<1>3. NoAbort /\ MarksOrdered
  BY <1>1 DEF Init, NoAbort, MarksOrdered, Mark
<1>4. TagsBacked /\ PrivateBuffers /\ PrefixesKept
  BY <1>1, UndoLogAssumption
     DEF Init, TagsBacked, PrivateBuffers, PrefixesKept, Owns
<1>5. ReferencesCovered
  <2>1. \A b \in Buffers : Holders(b) = {} /\ RecordHolders(b) = {}
    BY <1>1, UndoLogAssumption DEF Init, Holders, RecordHolders
  <2>2. \A b \in Buffers :
           /\ Cardinality(Holders(b)) = 0
           /\ Cardinality(RecordHolders(b)) = 0
           /\ refs[b] = 0
    BY <2>1, FS_EmptySet DEF Init
  <2> QED
    BY <2>2 DEF ReferencesCovered
<1> QED
  BY <1>2, <1>3, <1>4, <1>5 DEF LogInvariant

(* A change of an object keeps the invariant. *)
LEMMA ChangesInvariant ==
  ASSUME LogInvariant, NEW o \in Objects, Changes(o)
  PROVE  LogInvariant'
BY ChangesType, ChangesMarks, ChangesTags, ChangesOwners, ChangesPrefixes,
   ChangesReferences DEF LogInvariant

(* Every step keeps the invariant. *)
LEMMA NextInvariant ==
  ASSUME LogInvariant, [Next]_vars
  PROVE  LogInvariant'
<1>1. CASE Next
  BY <1>1, NextCases, ChangesInvariant, SnapshotInvariant, ForgetInvariant,
     RollbackBeginInvariant, PopInvariant, RollbackEndInvariant
     DEF LogInvariant
<1>2. CASE UNCHANGED vars
  <2>1. TypeOK' /\ NoAbort' /\ MarksOrdered' /\ TagsBacked'
    BY <1>2 DEF vars, LogInvariant, TypeOK, NoAbort, MarksOrdered, TagsBacked,
                Mark
  <2>2. PrivateBuffers' /\ PrefixesKept'
    BY <1>2 DEF vars, LogInvariant, PrivateBuffers, PrefixesKept, Owns
  <2>3. ReferencesCovered'
    BY <1>2 DEF vars, LogInvariant, ReferencesCovered, Holders, RecordHolders
  <2> QED
    BY <2>1, <2>2, <2>3 DEF LogInvariant
<1> QED
  BY <1>1, <1>2

-----------------------------------------------------------------------------
(* The invariant of the undo log holds whatever the numbers of files,      *)
(* buffers and snapshots: in particular no mark is ever refused by         *)
(* log_rollback and no buffer is freed while the log needs it.             *)
THEOREM LogInvariantHolds == Spec => []LogInvariant
<1>1. Init => LogInvariant
  BY InitInvariant
<1>2. LogInvariant /\ [Next]_vars => LogInvariant'
  BY NextInvariant
<1> QED
  BY <1>1, <1>2, PTL DEF Spec

(* No buffer is freed under an object or a record that points to it.       *)
THEOREM ReferencesAlwaysCovered == Spec => []ReferencesCovered
<1>1. LogInvariant => ReferencesCovered
  BY DEF LogInvariant
<1> QED
  BY <1>1, LogInvariantHolds, PTL

(* Neither of the aborts of log_rollback is ever reached.                  *)
THEOREM RollbackNeverAborts == Spec => []NoAbort
<1>1. LogInvariant => NoAbort
  BY DEF LogInvariant
<1> QED
  BY <1>1, LogInvariantHolds, PTL

-----------------------------------------------------------------------------
(* The undo log implements Snapshots: under the mapping of UndoLog every   *)
(* step of the log is a step of Snapshots or changes nothing in it, so a   *)
(* rollback brings back exactly the state the snapshot was taken in.       *)

(* What the CHOOSE of Restored finds. *)
RestoredMeaning ==
  \A m \in Nat \ {0}, o \in Objects :
    /\ (\A i \in m..Len(log) : log[i].obj # o) => Restored(m)[o] = Value(o)
    /\ \A i : IsOldest(i, m, o) => Restored(m)[o] = OldValue(i)
    /\ (\E i \in m..Len(log) : log[i].obj = o) => \E i : IsOldest(i, m, o)

(* A set of natural numbers that is not empty has a least element. *)
LEMMA LeastElement ==
  ASSUME NEW T, T \subseteq Nat, T # {}
  PROVE  \E i \in T : \A j \in T : i <= j
<1> DEFINE R == OpToRel(<, Nat)
<1>1. IsWellFoundedOn(R, Nat)
  BY NatLessThanWellFounded
<1> HIDE DEF R
<1>2. \E i \in T : \A j \in T : <<j, i>> \notin R
  BY <1>1, WFMin
<1>3. \A i, j \in Nat : <<j, i>> \notin R => i <= j
  BY DEF R, OpToRel
<1>4. PICK i \in T : \A j \in T : <<j, i>> \notin R
  BY <1>2
<1>5. \A j \in T : i <= j
  BY <1>3, <1>4
<1> QED
  BY <1>5

(* What is restored is the value of the oldest record, if there is one. *)
LEMMA RestoredMeans == TypeOK => RestoredMeaning
<1> SUFFICES ASSUME TypeOK, NEW m \in Nat \ {0}, NEW o \in Objects
             PROVE  /\ (\A i \in m..Len(log) : log[i].obj # o)
                         => Restored(m)[o] = Value(o)
                    /\ \A i : IsOldest(i, m, o) => Restored(m)[o] = OldValue(i)
                    /\ (\E i \in m..Len(log) : log[i].obj = o)
                         => \E i : IsOldest(i, m, o)
  BY DEF RestoredMeaning
<1>0. Len(log) \in Nat
  BY RecordTypes
<1>1. ASSUME \A i \in m..Len(log) : log[i].obj # o
      PROVE  Restored(m)[o] = Value(o)
  BY <1>1 DEF Restored
<1>2. ASSUME NEW i, IsOldest(i, m, o)
      PROVE  Restored(m)[o] = OldValue(i)
  <2> DEFINE c == CHOOSE k \in m..Len(log) : IsOldest(k, m, o)
  <2>1. i \in m..Len(log) /\ log[i].obj = o
    BY <1>2 DEF IsOldest
  <2>2. c \in m..Len(log) /\ IsOldest(c, m, o)
    BY <1>2, <2>1
  <2>3. Restored(m)[o] = OldValue(c)
    BY <2>1 DEF Restored
  <2> HIDE DEF c
  <2>4. /\ i \in Nat /\ c \in Nat /\ m \in Nat
        /\ log[c].obj = o /\ log[i].obj = o
        /\ \A j \in m..(i - 1) : log[j].obj # o
        /\ \A j \in m..(c - 1) : log[j].obj # o
        /\ i >= m /\ c >= m
    BY <1>0, <1>2, <2>1, <2>2 DEF IsOldest
  <2>5. ~(c < i) /\ ~(i < c)
    <3>1. \A a, b \in Nat : a >= m /\ a < b => a \in m..(b - 1)
      OBVIOUS
    <3> QED
      BY <2>4, <3>1
  <2>6. i = c
    BY <2>4, <2>5
  <2> QED
    BY <2>3, <2>6
<1>3. ASSUME \E i \in m..Len(log) : log[i].obj = o
      PROVE  \E i : IsOldest(i, m, o)
  <2> DEFINE T == {i \in m..Len(log) : log[i].obj = o}
  <2>1. T \subseteq Nat /\ T # {}
    BY <1>0, <1>3
  <2>2. PICK i \in T : \A j \in T : i <= j
    BY <2>1, LeastElement
  <2>3. \A j \in m..(i - 1) : j \notin T /\ j \in m..Len(log)
    BY <1>0, <2>1, <2>2
  <2> QED
    BY <2>2, <2>3 DEF IsOldest
<1> QED
  BY <1>1, <1>2, <1>3

(* The same after a step. *)
LEMMA RestoredMeansPrime == TypeOK' => RestoredMeaning'
BY RestoredMeans, PTL

-----------------------------------------------------------------------------
(* A change of an object is a change of that object only. *)
LEMMA ChangesOthers ==
  ASSUME LogInvariant, NEW o \in Objects, Changes(o),
         NEW p \in Objects, p # o
  PROVE  Value(p)' = Value(p)
<1>0. /\ TypeOK /\ ReferencesCovered /\ PrivateBuffers
      /\ obj'[p] = obj[p]
      /\ obj[p].data \in Buffers \cup {NoBuffer}
  BY ChangesObj DEF LogInvariant, TypeOK, ObjectStates
<1>1. CASE obj[p].data = NoBuffer
  BY <1>0, <1>1 DEF Value, ContentOf, LengthOf
<1>2. CASE obj[p].data # NoBuffer
  <2>1. heap'[obj[p].data] = heap[obj[p].data]
    BY <1>0, <1>2, ChangesHeap DEF Owns
  <2> QED
    BY <1>0, <1>2, <2>1 DEF Value, ContentOf, LengthOf
<1> QED
  BY <1>1, <1>2

(* The value a record keeps does not change while the record is there. *)
LEMMA ChangesOldValue ==
  ASSUME LogInvariant, NEW o \in Objects, Changes(o),
         NEW i \in DOMAIN log
  PROVE  /\ OldValue(i)' = OldValue(i)
         /\ log'[i] = log[i]
<1> DEFINE b == log[i].old.data
<1>0. /\ TypeOK /\ ReferencesCovered /\ PrivateBuffers /\ PrefixesKept
      /\ log'[i] = log[i]
      /\ b \in Buffers \cup {NoBuffer}
      /\ log[i].obj \in Objects
      /\ log[i].len \in Nat
  BY ChangesLog, RecordTypes DEF LogInvariant
<1>1. CASE b = NoBuffer
  BY <1>0, <1>1 DEF OldValue, ContentOf
<1>2. CASE b # NoBuffer
  <2>1. /\ Owns(log[i].obj, b)
        /\ log[i].len <= Len(heap[b])
        /\ Len(heap[b]) \in Nat
    BY <1>0, <1>2, LenProperties DEF Owns, PrefixesKept, TypeOK
  <2>2. log[i].len \in 0..Len(heap[b])
    BY <1>0, <2>1
  <2>3. SubSeq(heap'[b], 1, log[i].len) = SubSeq(heap[b], 1, log[i].len)
    BY <1>0, <1>2, <2>1, <2>2, ChangesHeap
  <2> QED
    BY <1>0, <1>2, <2>3 DEF OldValue, ContentOf
<1> QED
  BY <1>0, <1>1, <1>2

(* The record that log_fileentry pushes keeps the value before the change. *)
LEMMA ChangesNewRecord ==
  ASSUME LogInvariant, NEW o \in Objects, Changes(o), MustLog(o),
         NEW k, k = Len(log) + 1
  PROVE  OldValue(k)' = Value(o)
<1> DEFINE b == obj[o].data
<1>0. /\ TypeOK /\ ReferencesCovered /\ PrivateBuffers
      /\ log'[k].old = obj[o]
      /\ log'[k].len = LengthOf(b)
      /\ b \in Buffers \cup {NoBuffer}
  BY ChangesLog DEF LogInvariant, TypeOK, ObjectStates
<1>1. CASE b = NoBuffer
  BY <1>0, <1>1, ChangesLog DEF OldValue, Value, ContentOf, LengthOf
<1>2. CASE b # NoBuffer
  <2>1. LengthOf(b) \in 0..Len(heap[b])
    BY <1>0, <1>2, LenProperties DEF LengthOf, TypeOK
  <2>2. SubSeq(heap'[b], 1, LengthOf(b)) = SubSeq(heap[b], 1, LengthOf(b))
    BY <1>0, <1>2, <2>1, ChangesHeap DEF Owns, LengthOf
  <2>3. OldValue(k)' = [data |-> SubSeq(heap'[b], 1, LengthOf(b)),
                        info |-> obj[o].info]
    BY <1>0, <1>2 DEF OldValue, ContentOf
  <2>4. Value(o) = [data |-> SubSeq(heap[b], 1, LengthOf(b)),
                    info |-> obj[o].info]
    BY <1>2 DEF Value, ContentOf
  <2> QED
    BY <2>2, <2>3, <2>4
<1> QED
  BY <1>1, <1>2

(* A change does not alter what a rollback to a live mark would restore. *)
LEMMA ChangesKeepRestored ==
  ASSUME LogInvariant, NEW o \in Objects, Changes(o),
         NEW m \in Nat \ {0}, m <= snap
  PROVE  Restored(m)' = Restored(m)
<1> DEFINE n == Len(log)
<1>0. /\ TypeOK /\ TypeOK' /\ MarksOrdered /\ TagsBacked
      /\ RestoredMeaning /\ RestoredMeaning'
      /\ n \in Nat /\ DOMAIN log = 1..n
      /\ snap \in Nat /\ snap <= n + 1
      /\ ~MustLog(o) => log' = log
      /\ MustLog(o) => /\ Len(log') = n + 1
                       /\ log'[n + 1].obj = o
                       /\ \A i \in 1..n : log'[i] = log[i]
  BY ChangesInvariant, ChangesLog, ChangesObj, RestoredMeans,
     RestoredMeansPrime DEF LogInvariant, MarksOrdered, Mark, TypeOK
<1>1. /\ n <= Len(log') /\ Len(log') \in Nat
      /\ \A i \in m..n : i \in DOMAIN log /\ log'[i] = log[i]
      /\ \A i \in (n + 1)..Len(log') : i = n + 1 /\ MustLog(o)
  BY <1>0
<1>2. ASSUME NEW p \in Objects
      PROVE  Restored(m)'[p] = Restored(m)[p]
  <2>1. CASE \E i \in m..n : log[i].obj = p
    <3>1. PICK i : IsOldest(i, m, p)
      BY <1>0, <2>1 DEF RestoredMeaning
    <3>2. /\ i \in m..n /\ i \in DOMAIN log /\ log[i].obj = p
          /\ \A j \in m..(i - 1) : log[j].obj # p /\ j \in m..n
      BY <1>0, <1>1, <3>1 DEF IsOldest
    <3>3. OldValue(i)' = OldValue(i)
      BY <3>2, ChangesOldValue
    <3>4. i \in m..Len(log')
      BY <1>0, <1>1, <3>2
    <3>5. IsOldest(i, m, p)'
      BY <1>1, <3>2, <3>4 DEF IsOldest
    <3>6. Restored(m)[p] = OldValue(i)
      BY <1>0, <3>1 DEF RestoredMeaning
    <3>7. Restored(m)'[p] = OldValue(i)'
      BY <1>0, <3>5 DEF RestoredMeaning
    <3> QED
      BY <3>3, <3>6, <3>7
  <2>2. CASE (\A i \in m..n : log[i].obj # p) /\ p # o
    <3>1. \A i \in m..Len(log') : i \in m..n \/ i = n + 1
      BY <1>0, <1>1
    <3>2. \A i \in m..Len(log') : log'[i].obj # p
      <4> SUFFICES ASSUME NEW i \in m..Len(log')
                   PROVE  log'[i].obj # p
        OBVIOUS
      <4>1. CASE i \in m..n
        BY <1>1, <2>2, <4>1
      <4>2. CASE i = n + 1
        <5>1. i \in (n + 1)..Len(log')
          BY <1>0, <1>1, <4>2
        <5> QED
          BY <1>0, <1>1, <2>2, <4>2, <5>1
      <4> QED
        BY <3>1, <4>1, <4>2
    <3>3. Restored(m)[p] = Value(p) /\ Restored(m)'[p] = Value(p)'
      BY <1>0, <2>2, <3>2 DEF RestoredMeaning
    <3> QED
      BY <2>2, <3>3, ChangesOthers
  <2>3. CASE (\A i \in m..n : log[i].obj # p) /\ p = o
    <3>1. MustLog(o)
      <4>1. ~(obj[o].snap = snap)
        <5>1. snap # 0
          BY <1>0
        <5>2. \A j \in snap..n : j \in m..n
          BY <1>0
        <5> QED
          BY <1>0, <2>3, <5>1, <5>2 DEF TagsBacked
      <4> QED
        BY <4>1 DEF MustLog
    <3>2. PICK k \in Nat : k = Len(log) + 1
      BY <1>0
    <3>3. k \in m..Len(log') /\ log'[k].obj = o
      BY <1>0, <3>1, <3>2
    <3>4. \A j \in m..(k - 1) : j \in m..n
      BY <1>0, <3>2
    <3>5. IsOldest(k, m, o)'
      BY <1>1, <2>3, <3>3, <3>4 DEF IsOldest
    <3>6. Restored(m)'[o] = OldValue(k)'
      BY <1>0, <3>5 DEF RestoredMeaning
    <3>7. OldValue(k)' = Value(o)
      BY <3>1, <3>2, ChangesNewRecord
    <3>8. Restored(m)[o] = Value(o)
      BY <1>0, <2>3 DEF RestoredMeaning
    <3> QED
      BY <2>3, <3>6, <3>7, <3>8
  <2> QED
    BY <2>1, <2>2, <2>3
<1>3. /\ Restored(m) = [p \in Objects |-> Restored(m)[p]]
      /\ Restored(m)' = [p \in Objects |-> Restored(m)'[p]]
  BY DEF Restored
<1> QED
  BY <1>2, <1>3

-----------------------------------------------------------------------------
(* A pop does not alter what a rollback to a mark below it restores. *)

(* A pop leaves what the records below hold: truncating keeps prefixes. *)
LEMMA PopOldValue ==
  ASSUME LogInvariant, Pop, NEW i \in 1..(Len(log) - 1)
  PROVE  /\ log'[i] = log[i]
         /\ OldValue(i)' = OldValue(i)
<1> DEFINE n == Len(log)
           b0 == log[n].old.data
           b == log[i].old.data
<1>0. /\ TypeOK /\ PrefixesKept
      /\ n \in Nat /\ i \in DOMAIN log /\ n \in DOMAIN log /\ i <= n
      /\ log'[i] = log[i]
      /\ b \in Buffers \cup {NoBuffer}
      /\ log[i].len \in Nat /\ log[n].len \in Nat
  <2>1. TypeOK /\ PrefixesKept
    BY DEF LogInvariant
  <2>2. /\ n \in Nat /\ n >= 1 /\ DOMAIN log = 1..n
        /\ log'[i] = log[i]
    BY PopEffect
  <2>3. i \in DOMAIN log /\ n \in DOMAIN log /\ i <= n
    BY <2>2
  <2> QED
    BY <2>1, <2>2, <2>3, RecordTypes
<1>1. CASE b = NoBuffer
  BY <1>0, <1>1 DEF OldValue, ContentOf
<1>2. CASE b # NoBuffer /\ b = b0
  <2>1. /\ heap[b] \in Seq(Bytes)
        /\ Len(heap[b]) \in Nat
        /\ log[n].len <= Len(heap[b])
        /\ log[i].len <= log[n].len
        /\ heap'[b] = SubSeq(heap[b], 1, log[n].len)
    BY <1>0, <1>2, PopEffect DEF PrefixesKept, TypeOK
  <2>2. SubSeq(heap'[b], 1, log[i].len) = SubSeq(heap[b], 1, log[i].len)
    <3>1. /\ heap'[b] \in Seq(Bytes)
          /\ Len(heap'[b]) = log[n].len
          /\ \A k \in 1..log[n].len : heap'[b][k] = heap[b][k]
      BY <1>0, <2>1, PrefixProperties
    <3>2. log[i].len <= Len(heap[b])
      BY <1>0, <2>1
    <3>3. \A k \in 1..log[i].len : k \in 1..log[n].len
      BY <1>0, <2>1
    <3> QED
      BY <1>0, <2>1, <3>1, <3>2, <3>3, SameSubSeq
  <2> QED
    BY <1>0, <1>2, <2>2 DEF OldValue, ContentOf
<1>3. CASE b # NoBuffer /\ b # b0
  <2>1. heap'[b] = heap[b]
    BY <1>0, <1>3, PopEffect DEF TypeOK
  <2> QED
    BY <1>0, <1>3, <2>1 DEF OldValue, ContentOf
<1> QED
  BY <1>1, <1>2, <1>3

(* A pop leaves the values of the other objects. *)
LEMMA PopOthers ==
  ASSUME LogInvariant, Pop, NEW p \in Objects, p # log[Len(log)].obj
  PROVE  Value(p)' = Value(p)
<1> DEFINE n == Len(log)
           b0 == log[n].old.data
           b == obj[p].data
<1>0. /\ TypeOK /\ PrivateBuffers
      /\ obj'[p] = obj[p]
      /\ b \in Buffers \cup {NoBuffer}
      /\ n \in DOMAIN log
      /\ log[n].obj \in Objects
  <2>1. TypeOK /\ PrivateBuffers
    BY DEF LogInvariant
  <2>2. n \in Nat /\ n >= 1 /\ DOMAIN log = 1..n
    BY PopEffect
  <2>3. n \in DOMAIN log
    BY <2>2
  <2>4. obj'[p] = obj[p] /\ log[n].obj \in Objects
    BY <2>1, PopEffect DEF TypeOK
  <2> QED
    BY <2>1, <2>3, <2>4 DEF TypeOK, ObjectStates
<1>1. CASE b = NoBuffer
  BY <1>0, <1>1 DEF Value, ContentOf, LengthOf
<1>2. CASE b # NoBuffer
  <2>1. b # b0
    <3>1. Owns(p, b) /\ Owns(log[n].obj, b0)
      BY <1>0 DEF Owns
    <3> QED
      BY <1>0, <1>2, <3>1 DEF PrivateBuffers
  <2>2. heap'[b] = heap[b]
    BY <1>0, <1>2, <2>1, PopEffect DEF TypeOK
  <2> QED
    BY <1>0, <1>2, <2>2 DEF Value, ContentOf, LengthOf
<1> QED
  BY <1>1, <1>2

(* A pop gives the object the value that its record held. *)
LEMMA PopRestoresValue ==
  ASSUME LogInvariant, Pop, NEW o \in Objects, NEW n \in Nat, n = Len(log),
         o = log[n].obj
  PROVE  Value(o)' = OldValue(n)
<1> DEFINE b == log[n].old.data
<1>0. /\ TypeOK
      /\ obj'[o] = log[n].old
      /\ b \in Buffers \cup {NoBuffer}
      /\ log[n].len \in Nat
  BY PopEffect DEF LogInvariant, TypeOK
<1>1. CASE b = NoBuffer
  BY <1>0, <1>1 DEF Value, OldValue, ContentOf, LengthOf
<1>2. CASE b # NoBuffer
  <2>1. /\ heap[b] \in Seq(Bytes)
        /\ log[n].len <= Len(heap[b])
        /\ heap'[b] = SubSeq(heap[b], 1, log[n].len)
    BY <1>0, <1>2, PopEffect DEF TypeOK
  <2>2. heap'[b] \in Seq(Bytes)
    BY <1>0, <2>1, PrefixProperties
  <2>3. SubSeq(heap'[b], 1, Len(heap'[b])) = heap'[b]
    BY <2>2, SubSeqFull
  <2>4. Value(o)' = [data |-> SubSeq(heap'[b], 1, Len(heap'[b])),
                     info |-> log[n].old.info]
    BY <1>0, <1>2 DEF Value, ContentOf, LengthOf
  <2>5. OldValue(n) = [data |-> SubSeq(heap[b], 1, log[n].len),
                       info |-> log[n].old.info]
    BY <1>2 DEF OldValue, ContentOf
  <2> QED
    BY <2>1, <2>3, <2>4, <2>5
<1> QED
  BY <1>1, <1>2

(* A pop does not alter what a rollback to a live mark restores. *)
LEMMA PopKeepsRestored ==
  ASSUME LogInvariant, Pop, NEW m \in Nat \ {0}, m <= Len(log)
  PROVE  Restored(m)' = Restored(m)
<1>1. PICK n \in Nat : n = Len(log)
  BY PopEffect
<1>0. /\ TypeOK /\ TypeOK'
      /\ RestoredMeaning /\ RestoredMeaning'
      /\ n >= 1 /\ m <= n
      /\ Len(log') = n - 1
      /\ \A i \in 1..(n - 1) : log'[i] = log[i]
      /\ log[n].obj \in Objects
  BY <1>1, PopEffect, PopInvariant, RestoredMeans, RestoredMeansPrime
     DEF LogInvariant
<1>2. \A i \in m..(n - 1) : i \in 1..(n - 1) /\ log'[i] = log[i]
  BY <1>0
<1>3. ASSUME NEW p \in Objects
      PROVE  Restored(m)'[p] = Restored(m)[p]
  <2>1. CASE \E i \in m..(n - 1) : log[i].obj = p
    <3>0. \E i \in m..n : log[i].obj = p
      BY <1>0, <2>1
    <3>1. PICK i : IsOldest(i, m, p)
      BY <1>0, <1>1, <3>0 DEF RestoredMeaning
    <3>2. /\ i \in m..(n - 1) /\ log[i].obj = p
          /\ \A j \in m..(i - 1) : log[j].obj # p /\ j \in m..(n - 1)
      BY <1>0, <1>1, <2>1, <3>1 DEF IsOldest
    <3>3. OldValue(i)' = OldValue(i)
      BY <1>1, <1>2, <3>2, PopOldValue
    <3>4. IsOldest(i, m, p)'
      BY <1>0, <1>2, <3>2 DEF IsOldest
    <3>5. Restored(m)[p] = OldValue(i)
      BY <1>0, <3>1 DEF RestoredMeaning
    <3>6. Restored(m)'[p] = OldValue(i)'
      BY <1>0, <3>4 DEF RestoredMeaning
    <3> QED
      BY <3>3, <3>5, <3>6
  <2>2. CASE ~\E i \in m..(n - 1) : log[i].obj = p
    <3>1. Restored(m)'[p] = Value(p)'
      BY <1>0, <1>2, <2>2 DEF RestoredMeaning
    <3>2. CASE p = log[n].obj
      <4>1. IsOldest(n, m, p)
        BY <1>0, <1>1, <2>2, <3>2 DEF IsOldest
      <4>2. Restored(m)[p] = OldValue(n)
        BY <1>0, <4>1 DEF RestoredMeaning
      <4> QED
        BY <1>1, <3>1, <3>2, <4>2, PopRestoresValue
    <3>3. CASE p # log[n].obj
      <4>1. \A i \in m..Len(log) : i \in m..(n - 1) \/ i = n
        BY <1>0, <1>1
      <4>2. Restored(m)[p] = Value(p)
        BY <1>0, <2>2, <3>3, <4>1 DEF RestoredMeaning
      <4> QED
        BY <1>1, <3>1, <3>3, <4>2, PopOthers
    <3> QED
      BY <3>2, <3>3
  <2> QED
    BY <2>1, <2>2
<1>4. /\ Restored(m) = [p \in Objects |-> Restored(m)[p]]
      /\ Restored(m)' = [p \in Objects |-> Restored(m)'[p]]
  BY DEF Restored
<1> QED
  BY <1>3, <1>4

-----------------------------------------------------------------------------
(* Each step of the log is a step of Snapshots, or a stutter. *)

(* The copies stay when no mark moves and nothing restored changes. *)
LEMMA CopiesUnchanged ==
  ASSUME marks' = marks,
         \A m : (\E k \in DOMAIN marks : m = marks[k])
                 => Restored(m)' = Restored(m)
  PROVE  Copies' = Copies
<1>1. ASSUME NEW k \in DOMAIN marks
      PROVE  Restored(marks[k])' = Restored(marks[k])
  <2>1. PICK m : m = marks[k]
    OBVIOUS
  <2>2. Restored(m)' = Restored(m)
    BY <2>1
  <2>3. marks[k]' = m
    BY <2>1
  <2> QED
    BY <2>1, <2>2, <2>3
<1> QED
  BY <1>1 DEF Copies

(* A change of an object is a write of that object in Snapshots. *)
LEMMA ChangesStep ==
  ASSUME LogInvariant, NEW o \in Objects, Changes(o)
  PROVE  Abstract!Write(o)
<1>1. /\ goal = 0 /\ goal' = 0 /\ marks' = marks
      /\ TypeOK /\ MarksOrdered
  BY ChangesObj DEF LogInvariant
<1>2. /\ Current = [p \in Objects |-> Value(p)]
      /\ Current' = [p \in Objects |-> Value(p)']
  BY <1>1 DEF Current
<1>3. Current' = [Current EXCEPT ![o] = Current'[o]]
  BY <1>2, ChangesOthers
<1>4. Copies' = Copies
  <2>1. \A k \in DOMAIN marks : marks[k] \in Nat \ {0} /\ marks[k] <= snap
    BY <1>1, MarksType DEF MarksOrdered
  <2>2. \A m : (\E k \in DOMAIN marks : m = marks[k])
               => Restored(m)' = Restored(m)
    BY <2>1, ChangesKeepRestored
  <2> QED
    BY <1>1, <2>2, CopiesUnchanged
<1> QED
  BY <1>3, <1>4 DEF Abstract!Write

(* While the log and the objects stay, so does what it would restore. *)
LEMMA SameLogSameRestored ==
  ASSUME UNCHANGED <<heap, obj, log>>
  PROVE  /\ \A m : Restored(m)' = Restored(m)
         /\ \A o : Value(o)' = Value(o)
<1>1. \A s, n : ContentOf(s, n)' = ContentOf(s, n)
  BY DEF ContentOf
<1>2. \A o : Value(o)' = Value(o)
  BY DEF Value, ContentOf, LengthOf
<1>3. \A i : OldValue(i)' = OldValue(i)
  BY DEF OldValue, ContentOf
<1>4. \A i, m, o : IsOldest(i, m, o)' = IsOldest(i, m, o)
  BY DEF IsOldest
<1>5. ASSUME NEW m
      PROVE  Restored(m)' = Restored(m)
  <2>1. log' = log /\ heap' = heap /\ obj' = obj
    OBVIOUS
  <2> QED
    BY <2>1 DEF Restored, IsOldest, OldValue, Value, ContentOf, LengthOf
<1> QED
  BY <1>2, <1>5

(* The copies are a sequence as long as the marks. *)
AllRestored == {Restored(m) : m \in Nat}

CopiesAreSeq ==
  /\ Copies \in Seq(AllRestored)
  /\ Len(Copies) = Len(marks)
  /\ DOMAIN Copies = 1..Len(marks)
  /\ \A k \in 1..Len(marks) : Copies[k] = Restored(marks[k])

(* The copies are a sequence as long as the marks. *)
LEMMA CopiesSeq == TypeOK => CopiesAreSeq
<1> SUFFICES ASSUME TypeOK
             PROVE  CopiesAreSeq
  OBVIOUS
<1>1. PICK n \in Nat : n = Len(marks)
  BY MarksType
<1>2. DOMAIN marks = 1..n /\ \A k \in 1..n : marks[k] \in Nat
  BY <1>1, MarksType
<1>3. Copies \in [1..n -> AllRestored]
  BY <1>2 DEF Copies, AllRestored
<1>4. Copies \in Seq(AllRestored)
  BY <1>3, SeqDef
<1>5. DOMAIN Copies = 1..n /\ DOMAIN Copies = 1..Len(Copies)
      /\ Len(Copies) \in Nat
  BY <1>3, <1>4, LenProperties
<1>6. Len(Copies) = n
  BY <1>5
<1>7. \A k \in 1..n : Copies[k] = Restored(marks[k])
  BY <1>2 DEF Copies
<1> QED
  BY <1>1, <1>4, <1>5, <1>6, <1>7 DEF CopiesAreSeq

(* The same after a step. *)
LEMMA CopiesSeqPrime == TypeOK' => CopiesAreSeq'
BY CopiesSeq, PTL

(* Rolling back to the end of the log restores the current state. *)
NothingAbove == [o \in Objects |-> Value(o)] = Restored(Mark)

(* No record is above the mark a snapshot takes. *)
LEMMA NothingAboveMark == TypeOK => NothingAbove
<1> SUFFICES ASSUME TypeOK
             PROVE  [o \in Objects |-> Value(o)] = Restored(Mark)
  BY DEF NothingAbove
<1>1. \A i \in Mark..Len(log) : FALSE
  BY RecordTypes DEF Mark
<1> QED
  BY <1>1 DEF Restored

(* log_snapshot is Save in Snapshots. *)
LEMMA SnapshotStep ==
  ASSUME LogInvariant, Snapshot
  PROVE  Abstract!Save
<1>1. /\ TypeOK /\ TypeOK'
      /\ goal = 0 /\ goal' = 0
      /\ UNCHANGED <<heap, obj, log>>
      /\ marks \in Seq(Nat \ {0}) /\ Mark \in Nat \ {0}
      /\ marks' = Append(marks, Mark)
  BY SnapshotInvariant, MarksType DEF LogInvariant, Snapshot, TypeOK
<1>2. /\ \A m : Restored(m)' = Restored(m)
      /\ \A o : Value(o)' = Value(o)
  BY <1>1, SameLogSameRestored
<1>3. Current' = Current /\ Current = Restored(Mark)
  BY <1>1, <1>2, NothingAboveMark DEF Current, NothingAbove
<1>4. PICK n \in Nat : n = Len(marks)
  BY <1>1, MarksType
<1>5. /\ Len(marks') = n + 1
      /\ \A k \in 1..n : marks'[k] = marks[k]
      /\ marks'[n + 1] = Mark
  BY <1>1, <1>4, AppendProperties
<1>6. AllRestored' = AllRestored /\ Current \in AllRestored
  BY <1>1, <1>2, <1>3 DEF AllRestored
<1>7. CopiesAreSeq /\ CopiesAreSeq'
  BY <1>1, CopiesSeq, CopiesSeqPrime
<1>8. /\ Copies \in Seq(AllRestored) /\ Copies' \in Seq(AllRestored)
      /\ Len(Copies) = n /\ Len(Copies') = n + 1
  BY <1>4, <1>5, <1>6, <1>7 DEF CopiesAreSeq
<1>9. /\ Append(Copies, Current) \in Seq(AllRestored)
      /\ Len(Append(Copies, Current)) = n + 1
      /\ \A k \in 1..n : Append(Copies, Current)[k] = Copies[k]
      /\ Append(Copies, Current)[n + 1] = Current
  BY <1>6, <1>8, AppendProperties
<1>10. ASSUME NEW k \in 1..(n + 1)
       PROVE  Copies'[k] = Append(Copies, Current)[k]
  <2>1. PICK m : m = marks'[k]
    OBVIOUS
  <2>2. Copies'[k] = Restored(m)'
    <3>1. Copies'[k] = Restored(marks[k])'
      BY <1>5, <1>7 DEF CopiesAreSeq
    <3> QED
      BY <2>1, <3>1
  <2>3. CASE k \in 1..n
    <3>1. m = marks[k] /\ Copies[k] = Restored(m)
      BY <1>4, <1>5, <1>7, <2>1, <2>3 DEF CopiesAreSeq
    <3> QED
      BY <1>2, <1>9, <2>2, <2>3, <3>1
  <2>4. CASE k = n + 1
    BY <1>2, <1>3, <1>5, <1>9, <2>1, <2>2, <2>4
  <2>5. k \in 1..n \/ k = n + 1
    BY <1>4
  <2> QED
    BY <2>3, <2>4, <2>5, Zenon
<1>11. Copies' = Append(Copies, Current)
  BY <1>8, <1>9, <1>10, SeqEqual
<1> QED
  BY <1>3, <1>11 DEF Abstract!Save

(* What the other steps on marks do to the copies. *)
LEMMA ForgetStep ==
  ASSUME LogInvariant, NEW k \in DOMAIN marks, Forget(k)
  PROVE  Abstract!Forget(k)
<1>1. /\ TypeOK /\ TypeOK'
      /\ goal = 0 /\ goal' = 0
      /\ UNCHANGED <<heap, obj, log>>
      /\ marks \in Seq(Nat \ {0})
      /\ k \in 2..Len(marks)
      /\ marks' = Without(marks, k)
  BY ForgetInvariant DEF LogInvariant, Forget, TypeOK
<1>2. /\ \A m : Restored(m)' = Restored(m)
      /\ \A o : Value(o)' = Value(o)
  BY <1>1, SameLogSameRestored
<1>3. Current' = Current
  BY <1>1, <1>2 DEF Current
<1>4. PICK n \in Nat : n = Len(marks)
  BY <1>1, MarksType
<1>5. k \in 1..n
  BY <1>1, <1>4
<1>6. /\ Len(marks') = n - 1
      /\ \A i \in 1..(n - 1) :
           marks'[i] = IF i < k THEN marks[i] ELSE marks[i + 1]
  BY <1>1, <1>4, <1>5, RemoveAtProperties
<1>7. CopiesAreSeq /\ CopiesAreSeq'
  BY <1>1, CopiesSeq, CopiesSeqPrime
<1>8. AllRestored' = AllRestored
  BY <1>2 DEF AllRestored
<1>9. /\ Copies \in Seq(AllRestored) /\ Copies' \in Seq(AllRestored)
      /\ Len(Copies) = n /\ Len(Copies') = n - 1
  BY <1>4, <1>6, <1>7, <1>8 DEF CopiesAreSeq
<1>10. /\ Without(Copies, k) \in Seq(AllRestored)
       /\ Len(Without(Copies, k)) = n - 1
       /\ \A i \in 1..(n - 1) :
            Without(Copies, k)[i] = IF i < k THEN Copies[i] ELSE Copies[i + 1]
  BY <1>5, <1>9, RemoveAtProperties
<1>11. ASSUME NEW i \in 1..(n - 1)
       PROVE  Copies'[i] = Without(Copies, k)[i]
  <2>1. PICK j \in 1..n : j = IF i < k THEN i ELSE i + 1
    BY <1>4, <1>5
  <2>2. marks'[i] = marks[j] /\ Without(Copies, k)[i] = Copies[j]
    BY <1>6, <1>10, <2>1
  <2>3. PICK m : m = marks[j]
    OBVIOUS
  <2>4. Copies[j] = Restored(m)
    BY <1>4, <1>7, <2>1, <2>3 DEF CopiesAreSeq
  <2>5. Copies'[i] = Restored(m)'
    <3>1. Copies'[i] = Restored(marks[i])'
      BY <1>6, <1>7 DEF CopiesAreSeq
    <3> QED
      BY <2>2, <2>3, <3>1
  <2> QED
    BY <1>2, <2>2, <2>4, <2>5
<1>12. Copies' = Without(Copies, k)
  BY <1>9, <1>10, <1>11, SeqEqual
<1>13. k \in 2..Len(Copies)
  BY <1>1, <1>4, <1>9
<1> QED
  BY <1>3, <1>12, <1>13 DEF Abstract!Forget, Without

(* Starting a rollback is Restore in Snapshots. *)
LEMMA RollbackBeginStep ==
  ASSUME LogInvariant, RollbackBegin
  PROVE  Abstract!Restore
<1>1. /\ TypeOK /\ TypeOK'
      /\ goal = 0 /\ goal' = marks[Len(marks)]
      /\ UNCHANGED <<heap, obj, log>>
      /\ marks \in Seq(Nat \ {0}) /\ marks # <<>>
      /\ marks' = IF Len(marks) = 1 THEN marks
                                    ELSE SubSeq(marks, 1, Len(marks) - 1)
  BY RollbackBeginInvariant DEF LogInvariant, RollbackBegin, TypeOK
<1>2. \A m : Restored(m)' = Restored(m)
  BY <1>1, SameLogSameRestored
<1>3. PICK n \in Nat : n = Len(marks) /\ n >= 1
  BY <1>1, MarksType
<1>4. CopiesAreSeq /\ CopiesAreSeq' /\ AllRestored' = AllRestored
  BY <1>1, <1>2, CopiesSeq, CopiesSeqPrime DEF AllRestored
<1>5. /\ Copies \in Seq(AllRestored) /\ Copies' \in Seq(AllRestored)
      /\ Len(Copies) = n
      /\ \A i \in 1..n : Copies[i] = Restored(marks[i])
  BY <1>3, <1>4 DEF CopiesAreSeq
<1>6. Current' = Copies[Len(Copies)]
  <2>1. PICK m : m = marks[n]
    OBVIOUS
  <2>2. goal' = m /\ goal' # 0
    BY <1>1, <1>3, <2>1, MarksType
  <2>3. Current' = Restored(goal)'
    BY <2>2 DEF Current
  <2>4. Current' = Restored(m)'
    BY <2>2, <2>3
  <2>5. Copies[n] = Restored(m)
    BY <1>3, <1>5, <2>1
  <2> QED
    BY <1>2, <1>5, <2>4, <2>5
<1>7. \A i \in DOMAIN Copies' : marks'[i] = marks[i] => Copies'[i] = Copies[i]
  <2> SUFFICES ASSUME NEW i \in DOMAIN Copies', marks'[i] = marks[i]
               PROVE  Copies'[i] = Copies[i]
    OBVIOUS
  <2>1. i \in 1..Len(marks') /\ Copies'[i] = Restored(marks[i])'
    BY <1>4 DEF CopiesAreSeq
  <2>2. PICK m : m = marks[i]
    OBVIOUS
  <2>3. Copies'[i] = Restored(m)'
    BY <2>1, <2>2
  <2>4. i \in 1..n
    <3>1. CASE Len(marks) = 1
      BY <1>1, <1>3, <2>1, <3>1
    <3>2. CASE Len(marks) # 1
      <4>1. Len(marks') = n - 1
        BY <1>1, <1>3, <3>2, FrontOfProperties
      <4> QED
        BY <1>3, <2>1, <4>1
    <3> QED
      BY <3>1, <3>2
  <2> QED
    BY <1>2, <1>5, <2>2, <2>3, <2>4
<1>8. CASE n = 1
  <2>1. marks' = marks /\ Len(Copies') = n
    BY <1>1, <1>3, <1>4, <1>8 DEF CopiesAreSeq
  <2>2. DOMAIN Copies' = 1..n
    BY <1>3, <1>4, <2>1 DEF CopiesAreSeq
  <2>3. Copies' = Copies
    BY <1>5, <1>7, <2>1, <2>2, SeqEqual
  <2> QED
    BY <1>5, <1>6, <1>8, <2>3 DEF Abstract!Restore
<1>9. CASE n # 1
  <2>1. marks' = SubSeq(marks, 1, n - 1)
    BY <1>1, <1>3, <1>9
  <2>2. Len(marks') = n - 1 /\ \A i \in 1..(n - 1) : marks'[i] = marks[i]
    BY <1>1, <1>3, <2>1, FrontOfProperties
  <2>3. Len(Copies') = n - 1 /\ DOMAIN Copies' = 1..(n - 1)
    BY <1>4, <2>2 DEF CopiesAreSeq
  <2>4. /\ SubSeq(Copies, 1, n - 1) \in Seq(AllRestored)
        /\ Len(SubSeq(Copies, 1, n - 1)) = n - 1
        /\ \A i \in 1..(n - 1) : SubSeq(Copies, 1, n - 1)[i] = Copies[i]
    <3>1. n - 1 \in Nat /\ n - 1 <= Len(Copies)
      BY <1>3, <1>5
    <3> QED
      BY <1>5, <3>1, PrefixProperties
  <2>5. Copies' = SubSeq(Copies, 1, n - 1)
    BY <1>5, <1>7, <2>2, <2>3, <2>4, SeqEqual
  <2> QED
    BY <1>5, <1>6, <1>9, <2>5 DEF Abstract!Restore
<1> QED
  BY <1>8, <1>9

(* A pop is invisible in Snapshots. *)
LEMMA PopStep ==
  ASSUME LogInvariant, Pop
  PROVE  UNCHANGED <<Current, Copies>>
<1>1. /\ TypeOK /\ MarksOrdered
      /\ goal # 0 /\ goal' = goal /\ marks' = marks
      /\ goal \in Nat /\ goal <= Len(log) /\ Len(log) \in Nat
  BY PopEffect DEF LogInvariant
<1>2. Current' = Current
  <2>1. PICK m \in Nat \ {0} : m = goal /\ m <= Len(log)
    BY <1>1
  <2>2. Restored(m)' = Restored(m)
    BY <2>1, PopKeepsRestored
  <2>3. Current = Restored(m)
    BY <1>1, <2>1 DEF Current
  <2>4. Current' = Restored(goal)'
    BY <1>1 DEF Current
  <2>5. Current' = Restored(m)'
    BY <1>1, <2>1, <2>4
  <2> QED
    BY <2>2, <2>3, <2>5
<1>3. Copies' = Copies
  <2>1. \A k \in DOMAIN marks : /\ marks[k] \in Nat \ {0}
                               /\ marks[k] <= Len(log)
    BY <1>1, MarksType DEF MarksOrdered
  <2>2. \A m : (\E k \in DOMAIN marks : m = marks[k])
               => Restored(m)' = Restored(m)
    BY <2>1, PopKeepsRestored
  <2> QED
    BY <1>1, <2>2, CopiesUnchanged
<1> QED
  BY <1>2, <1>3

(* The end of a rollback is invisible in Snapshots. *)
LEMMA RollbackEndStep ==
  ASSUME LogInvariant, RollbackEnd
  PROVE  UNCHANGED <<Current, Copies>>
<1>1. /\ TypeOK /\ goal # 0 /\ goal' = 0 /\ goal = Mark /\ marks' = marks
      /\ UNCHANGED <<heap, obj, log>>
  <2>1. TypeOK /\ NoAbort
    BY DEF LogInvariant
  <2>2. goal \in Nat /\ Mark \in Nat
    BY <2>1, MarksType DEF TypeOK
  <2> QED
    BY <2>1, <2>2 DEF RollbackEnd, NoAbort
<1>2. /\ \A m : Restored(m)' = Restored(m)
      /\ \A o : Value(o)' = Value(o)
  BY <1>1, SameLogSameRestored
<1>3. Current' = Current
  <2>1. Current = Restored(Mark)
    BY <1>1 DEF Current
  <2>2. Current = [o \in Objects |-> Value(o)]
    BY <1>1, <2>1, NothingAboveMark DEF NothingAbove
  <2>3. Current' = [o \in Objects |-> Value(o)']
    BY <1>1 DEF Current
  <2> QED
    BY <1>2, <2>2, <2>3
<1>4. Copies' = Copies
  BY <1>1, <1>2, CopiesUnchanged
<1> QED
  BY <1>3, <1>4

(* The initial state is one of Snapshots. *)
LEMMA InitStep ==
  ASSUME Init
  PROVE  Abstract!Init
<1>1. /\ TypeOK /\ goal = 0
      /\ Len(marks) = 1 /\ marks[1] = Mark
  <2>1. TypeOK
    BY InitInvariant DEF LogInvariant
  <2>2. Len(log) = 0 /\ Len(marks) = 1 /\ marks[1] = 1
    BY DEF Init
  <2> QED
    BY <2>1, <2>2 DEF Init, Mark
<1>2. CopiesAreSeq
  BY <1>1, CopiesSeq
<1>3. Current = Restored(Mark)
  BY <1>1, NothingAboveMark DEF Current, NothingAbove
<1>4. Copies \in Seq(AllRestored) /\ Len(Copies) = 1 /\ Copies[1] = Current
  BY <1>1, <1>2, <1>3 DEF CopiesAreSeq
<1>5. Copies = <<Current>>
  BY <1>4
<1> QED
  BY <1>5 DEF Abstract!Init

-----------------------------------------------------------------------------
(* Taking a snapshot costs nothing and rolling back restores everything:   *)
(* whatever is read, written or closed in between, and whichever processes *)
(* were decimated, state.c behaves as if each snapshot had copied the      *)
(* state.                                                                  *)
THEOREM UndoLogImplementsSnapshots == Spec => ImplementsSnapshots
<1>1. Init => Abstract!Init
  BY InitStep
<1>2. LogInvariant /\ [Next]_vars => [Abstract!Next]_(Abstract!vars)
  <2> SUFFICES ASSUME LogInvariant, [Next]_vars
               PROVE  Abstract!Next \/ UNCHANGED <<Current, Copies>>
    BY DEF Abstract!vars
  <2>0. TypeOK
    BY DEF LogInvariant
  <2>1. CASE \E o \in Objects : Changes(o)
    BY <2>1, ChangesStep DEF Abstract!Next
  <2>2. CASE Snapshot
    BY <2>2, SnapshotStep DEF Abstract!Next
  <2>3. CASE \E k \in DOMAIN marks : Forget(k)
    <3>1. PICK k \in DOMAIN marks : Forget(k)
      BY <2>3
    <3>2. Abstract!Forget(k)
      BY <3>1, ForgetStep
    <3>3. k \in DOMAIN Copies
      BY DEF Copies
    <3> QED
      BY <3>2, <3>3 DEF Abstract!Next
  <2>4. CASE RollbackBegin
    BY <2>4, RollbackBeginStep DEF Abstract!Next
  <2>5. CASE Pop
    BY <2>5, PopStep
  <2>6. CASE RollbackEnd
    BY <2>6, RollbackEndStep
  <2>7. CASE UNCHANGED vars
    <3>1. UNCHANGED <<heap, obj, log>> /\ marks' = marks /\ goal' = goal
      BY <2>7 DEF vars
    <3>2. /\ \A m : Restored(m)' = Restored(m)
          /\ \A o : Value(o)' = Value(o)
      BY <3>1, SameLogSameRestored
    <3>3. Copies' = Copies
      BY <3>1, <3>2, CopiesUnchanged
    <3>4. Current' = Current
      <4>1. PICK m : m = goal
        OBVIOUS
      <4>2. Current = IF m = 0 THEN [o \in Objects |-> Value(o)]
                               ELSE Restored(m)
        BY <4>1 DEF Current
      <4>3. Current' = IF m = 0 THEN [o \in Objects |-> Value(o)']
                                ELSE Restored(m)'
        <5>1. Current' = IF goal' = 0 THEN [o \in Objects |-> Value(o)']
                                      ELSE Restored(goal)'
          BY DEF Current
        <5> QED
          BY <3>1, <4>1, <5>1
      <4> QED
        BY <3>2, <4>2, <4>3
    <3> QED
      BY <3>3, <3>4
  <2> QED
    BY <2>0, <2>1, <2>2, <2>3, <2>4, <2>5, <2>6, <2>7, NextCases
<1> QED
  BY <1>1, <1>2, LogInvariantHolds, PTL DEF Spec, ImplementsSnapshots,
     Abstract!Spec
==============================================================================
