---------------------------- MODULE WorkerIOProofs ----------------------------
(* Proofs about WorkerIO: what TeX has read is still what the files hold, for *)
(* any files, handles, buffers, ids, and changes; and WorkerIO implements     *)
(* OpenFiles.                                                                 *)
EXTENDS WorkerIO, FiniteSetTheorems, SequenceTheorems, WellFoundedInduction, TLAPS

-----------------------------------------------------------------------------
(* The inductive invariant *)

(* Messages, and those that wait for an answer *)
Queries == {"OPRD", "OPWR", "CLOS", "READ", "SIZE"}

Messages ==
  [tag : {"SEEN"}, id : Ids, arg : Nat]
    \cup [tag : {"APND"}, id : Ids \cup {-1}, arg : Seq(Nat)]
    \cup [tag : {"OPRD"}, id : Ids, arg : Files]
    \cup [tag : {"OPWR"}, id : Ids, arg : Outputs]
    \cup [tag : {"READ"}, id : Ids, arg : Nat]
    \cup [tag : {"CLOS", "SIZE"}, id : Ids, arg : {0}]

ClientType ==
  [seenFile : Ids, seenPos : Nat, appendFile : Ids \cup {-1}, append : Seq(Nat), stdout : Seq(Nat)]

FitsClient(c) == Len(c.append) <= PendSize /\ Len(c.stdout) <= PendSize

Typed ==
  /\ content \in [Files -> Seq(Data)] /\ seen \in [Files -> Nat \cup {-1}]
  /\ table \in [Ids -> Files \cup Outputs \cup {Closed}] /\ fresh \subseteq Files
  /\ allocated \subseteq Ids
  /\ inputs \in [Handles -> InputType \cup {Closed}]
  /\ \A h \in Handles : IsOpen(h) => inputs[h].used <= Len(inputs[h].buf)
  /\ outs \in [Outputs -> Ids \cup {Closed}]
  /\ client \in ClientType /\ FitsClient(client)
  /\ todo \in Seq(Messages) /\ want \in WantType \cup {Closed} /\ flushing \in BOOLEAN
  /\ written \in [Outputs \cup {Stdout} -> Nat]
  /\ DOMAIN viewed = Files
  /\ \A f \in Files : \A p \in DOMAIN viewed[f] : p \in Nat /\ viewed[f][p] \in Data \cup {Eof}

(* What gave up has no call in progress. *)
Ended == aborted # "no" => todo = <<>> /\ want = Closed

(* An id names one thing, that which the driver has under it. *)
IdsInv ==
  /\ \A h \in Handles :
       IsOpen(h) => /\ inputs[h].id \in allocated
                    /\ table[inputs[h].id] = inputs[h].file
                    /\ seen[inputs[h].file] >= 0
  /\ \A g, h \in Handles : IsOpen(g) /\ IsOpen(h) /\ inputs[g].id = inputs[h].id => g = h
  /\ \A o \in Outputs :
       outs[o] # Closed => /\ outs[o] \in allocated
                           /\ \A h \in Handles : IsOpen(h) => inputs[h].id # outs[o]

(* The query m is that of the call in progress. *)
Fits(m) ==
  /\ m.tag \in {"READ", "SIZE"} => want # Closed /\ IsOpen(want.h) /\ m.id = inputs[want.h].id
  /\ m.tag = "READ" => /\ want.op \in {"getc", "read"}
                       /\ inputs[want.h].buf = <<>> /\ inputs[want.h].used = 0
                       /\ want.op = "read" => m.arg = want.left
  /\ m.tag = "SIZE" => want.op = "size"
  /\ m.tag = "OPRD" => want # Closed /\ want.op = "open" /\ ~IsOpen(want.h)
  /\ m.tag = "OPWR" => want = Closed
  /\ m.tag \in {"OPRD", "OPWR"} => m.id \notin allocated
  /\ m.tag = "CLOS" => \/ want = Closed /\ \A h \in Handles : IsOpen(h) => inputs[h].id # m.id
                       \/ /\ want # Closed /\ want.op = "close"
                          /\ IsOpen(want.h) /\ m.id = inputs[want.h].id

(* A report comes first, a query last, and then nothing is to be reported. *)
Orderly ==
  \A k \in 1..Len(todo) :
    /\ todo[k].tag = "SEEN" => k = 1
    /\ todo[k].tag \in Queries => k = Len(todo) /\ client.seenPos = 0

TodoInv ==
  /\ Orderly
  /\ \A k \in 1..Len(todo) : todo[k].tag \in Queries => Fits(todo[k])
  /\ want # Closed /\ want.op = "more" => IsOpen(want.h) /\ want.left >= 0

FlushInv == flushing => aborted # "no" \/ (todo # <<>> /\ todo[1].tag # "SEEN")

(* A buffer of the current generation holds what the file holds there. *)
Holds(i) ==
  /\ i.buf # <<>> => i.pos + Len(i.buf) <= Len(content[i.file])
  /\ \A k \in 1..Len(i.buf) : i.buf[k] = content[i.file][i.pos + k]

BufInv ==
  ~flushing => \A h \in Handles : IsOpen(h) /\ inputs[h].current => Holds(inputs[h])

(* That f was read up to x is known to the driver, or on its way. *)
Reported(f, n) ==
  \/ seen[f] >= n
  \/ client.seenPos > 0 /\ client.seenPos >= n /\ table[client.seenFile] = f
  \/ todo # <<>> /\ todo[1].tag = "SEEN" /\ todo[1].arg >= n /\ table[todo[1].id] = f

SeenInv ==
  aborted = "no" =>
    /\ \A f \in Files : \A p \in DOMAIN viewed[f] :
         Reported(f, IF viewed[f][p] = Eof THEN p ELSE p + 1)
    /\ \A h \in Handles \ sought : IsOpen(h) => Reported(inputs[h].file, At(inputs[h]))

Inv ==
  /\ Typed /\ Ended /\ IdsInv /\ TodoInv /\ FlushInv /\ BufInv /\ SeenInv
  /\ Interrupts \/ ObservedCurrent

-----------------------------------------------------------------------------
(* Numbers *)

(* A set of naturals that is not empty has a least element. *)
LEMMA LeastExists ==
  ASSUME NEW S, S \subseteq Nat, S # {}
  PROVE  \E n \in S : \A m \in S : n <= m
<1>1. \E n \in S : \A m \in S : ~(<<m, n>> \in OpToRel(<, Nat))
  BY WFMin, NatLessThanWellFounded, Zenon
<1>2. PICK n \in S : \A m \in S : ~(<<m, n>> \in OpToRel(<, Nat))
  BY <1>1, Zenon
<1>3. \A m \in S : ~(m < n)
  <2> SUFFICES ASSUME NEW m \in S, m < n PROVE FALSE
    OBVIOUS
  <2>1. <<m, n>> \in Nat \X Nat
    OBVIOUS
  <2>2. <<m, n>> \in OpToRel(<, Nat)
    BY <2>1, Zenon DEF OpToRel
  <2> QED
    BY <2>2, <1>2
<1> QED
  BY <1>3

LEMMA MinIn ==
  ASSUME NEW S, S \subseteq Nat, S # {}
  PROVE  Min(S) \in S /\ \A m \in S : Min(S) <= m
BY LeastExists, Zenon DEF Min

(* A set of naturals that is not empty and has a bound has a greatest one. *)
LEMMA MaxIn ==
  ASSUME NEW S, NEW b \in Nat, S \subseteq 0..b, S # {}
  PROVE  Max(S) \in S /\ \A m \in S : m <= Max(S)
<1> DEFINE T == {b - m : m \in S}
<1>1. T \subseteq Nat
  OBVIOUS
<1>0. T # {}
  <2>1. PICK m \in S : TRUE
    OBVIOUS
  <2>2. b - m \in T
    BY <2>1
  <2> QED
    BY <2>2
<1>2. PICK n \in T : \A m \in T : n <= m
  BY <1>0, <1>1, LeastExists
<1>3. PICK x \in S : n = b - x
  BY <1>2
<1>4. \A m \in S : x >= m
  BY <1>2, <1>3
<1>5. \E y \in S : \A m \in S : y >= m
  BY <1>4
<1>6. Max(S) \in S /\ \A m \in S : Max(S) >= m
  BY <1>5, Zenon DEF Max
<1> QED
  BY <1>6

LEMMA MaxOfTwo ==
  \A a, b \in Int : Max({a, b}) = IF a >= b THEN a ELSE b
<1> SUFFICES ASSUME NEW a \in Int, NEW b \in Int
             PROVE  Max({a, b}) = IF a >= b THEN a ELSE b
  OBVIOUS
<1> DEFINE c == IF a >= b THEN a ELSE b
<1>1. c \in {a, b} /\ \A y \in {a, b} : c >= y
  OBVIOUS
<1>2. Max({a, b}) \in {a, b} /\ \A y \in {a, b} : Max({a, b}) >= y
  BY <1>1, Zenon DEF Max
<1> QED
  BY <1>2

LEMMA MinOfTwo ==
  \A a, b \in Int : Min({a, b}) = IF a <= b THEN a ELSE b
<1> SUFFICES ASSUME NEW a \in Int, NEW b \in Int
             PROVE  Min({a, b}) = IF a <= b THEN a ELSE b
  OBVIOUS
<1> DEFINE c == IF a <= b THEN a ELSE b
<1>1. c \in {a, b} /\ \A y \in {a, b} : c <= y
  OBVIOUS
<1>2. Min({a, b}) \in {a, b} /\ \A y \in {a, b} : Min({a, b}) <= y
  BY <1>1, Zenon DEF Min
<1> QED
  BY <1>2

LEMMA IdsNat == Ids \subseteq Nat /\ 0 \in Ids
<1>1. Cells \in Nat /\ CellBits \in Nat /\ Cells # 0 /\ CellBits # 0
  BY WorkerIOAssumption
<1>2. \A m, n \in Nat : m # 0 /\ n # 0 => m * n \in Nat /\ m * n # 0
  OBVIOUS
<1>3. Cells * CellBits \in Nat /\ Cells * CellBits # 0
  BY <1>1, <1>2
<1> QED
  BY <1>3 DEF Ids

(* next_id returns an id that is free. *)
LEMMA NextIdFree == Free # {} => NextId \in Ids /\ NextId \notin allocated
BY MinIn, IdsNat DEF Free, NextId

(* find_diff: up to there the contents agree. *)
LEMMA DiffAgrees ==
  ASSUME NEW s \in Seq(Data), NEW t \in Seq(Data)
  PROVE  /\ FirstDiff(s, t) \in 0..Len(s) /\ FirstDiff(s, t) <= Len(t)
         /\ \A k \in 1..FirstDiff(s, t) : s[k] = t[k]
<1> DEFINE S == {k \in 0..Len(s) : k <= Len(t) /\ SubSeq(s, 1, k) = SubSeq(t, 1, k)}
<1>1. S \subseteq 0..Len(s) /\ Len(s) \in Nat
  OBVIOUS
<1>2. SubSeq(s, 1, 0) = <<>> /\ SubSeq(t, 1, 0) = <<>>
  OBVIOUS
<1>3. 0 \in S
  BY <1>2
<1>4. Max(S) \in S
  BY <1>1, <1>3, MaxIn
<1>5. FirstDiff(s, t) = Max(S)
  BY DEF FirstDiff
<1>6. PICK d \in 0..Len(s) : d = FirstDiff(s, t) /\ d <= Len(t) /\ SubSeq(s, 1, d) = SubSeq(t, 1, d)
  BY <1>4, <1>5
<1>7. \A k \in 1..d : s[k] = t[k]
  <2> TAKE k \in 1..d
  <2>1. SubSeq(s, 1, d)[k] = s[k] /\ SubSeq(t, 1, d)[k] = t[k]
    BY <1>6
  <2> QED
    BY <2>1, <1>6
<1> QED
  BY <1>6, <1>7

-----------------------------------------------------------------------------
(* The client *)

(* Messages without a query, the first of which may be a report. *)
Plain(s) ==
  /\ s \in Seq(Messages)
  /\ \A k \in 1..Len(s) : s[k].tag \notin Queries /\ (s[k].tag = "SEEN" => k = 1)

(* What c has to report is in d, or in s. *)
Carried(c, d, s) ==
  c.seenPos > 0 =>
    \/ d.seenFile = c.seenFile /\ d.seenPos >= c.seenPos
    \/ s # <<>> /\ s[1] = Msg("SEEN", c.seenFile, c.seenPos)

(* A call that does not wait leaves a client and plain messages. *)
Forwards(c, r) ==
  /\ r.client \in ClientType /\ FitsClient(r.client)
  /\ Plain(r.msgs)
  /\ Carried(c, r.client, r.msgs)

LEMMA PartsShape ==
  ASSUME NEW a \in Seq(Messages), NEW b \in Seq(Messages), NEW d \in Seq(Messages),
         Len(a) <= 1,
         \A k \in 1..Len(a) : a[k].tag = "SEEN",
         \A k \in 1..Len(b) : b[k].tag = "APND",
         \A k \in 1..Len(d) : d[k].tag = "APND"
  PROVE  /\ Plain(a \o (b \o d))
         /\ a # <<>> => a \o (b \o d) # <<>> /\ (a \o (b \o d))[1] = a[1]
<1> DEFINE o == b \o d
<1>1. o \in Seq(Messages) /\ Len(o) = Len(b) + Len(d)
  OBVIOUS
<1>2. \A k \in 1..Len(o) : o[k].tag = "APND"
  <2> SUFFICES ASSUME NEW k \in 1..Len(o) PROVE o[k].tag = "APND"
    OBVIOUS
  <2>1. CASE k <= Len(b)
    <3>1. o[k] = b[k]
      BY <2>1, <1>1
    <3> QED
      BY <3>1, <2>1, <1>1
  <2>2. CASE k > Len(b)
    <3>1. o[k] = d[k - Len(b)] /\ k - Len(b) \in 1..Len(d)
      BY <2>2, <1>1
    <3> QED
      BY <3>1
  <2> QED
    BY <2>1, <2>2, <1>1
<1> HIDE DEF o
<1> DEFINE s == a \o o
<1>3. s \in Seq(Messages) /\ Len(s) = Len(a) + Len(o)
  BY <1>1
<1>4. \A k \in 1..Len(s) : s[k].tag \notin Queries /\ (s[k].tag = "SEEN" => k = 1)
  <2> SUFFICES ASSUME NEW k \in 1..Len(s)
               PROVE  s[k].tag \notin Queries /\ (s[k].tag = "SEEN" => k = 1)
    OBVIOUS
  <2>1. CASE k <= Len(a)
    <3>1. s[k] = a[k] /\ k = 1 /\ k \in 1..Len(a)
      BY <2>1, <1>1, <1>3
    <3>2. a[k].tag = "SEEN"
      BY <3>1
    <3> QED
      BY <3>1, <3>2 DEF Queries
  <2>2. CASE k > Len(a)
    <3>1. s[k] = o[k - Len(a)] /\ k - Len(a) \in 1..Len(o)
      BY <2>2, <1>1, <1>3
    <3> QED
      BY <3>1, <1>2 DEF Queries
  <2> QED
    BY <2>1, <2>2, <1>1, <1>3
<1>5. a # <<>> => s # <<>> /\ s[1] = a[1]
  BY <1>1, <1>3
<1>6. Plain(s)
  BY <1>3, <1>4 DEF Plain
<1> QED
  BY <1>5, <1>6 DEF o

(* txp_flush_pending sends what is to be reported first, and no query. *)
LEMMA PendingPlain ==
  ASSUME NEW c \in ClientType
  PROVE  /\ Plain(Pending(c))
         /\ c.seenPos > 0 => /\ Pending(c) # <<>>
                             /\ Pending(c)[1] = Msg("SEEN", c.seenFile, c.seenPos)
<1> DEFINE a == SeenPending(c)
           b == NoneIf(c.stdout = <<>>, Msg("APND", -1, c.stdout))
           d == NoneIf(c.append = <<>>, Msg("APND", c.appendFile, c.append))
<1>1. Pending(c) = a \o (b \o d)
  BY DEF Pending, OutputPending
<1>2. /\ Msg("SEEN", c.seenFile, c.seenPos) \in Messages
      /\ Msg("APND", -1, c.stdout) \in Messages
      /\ Msg("APND", c.appendFile, c.append) \in Messages
  BY DEF ClientType, Messages, Msg
<1>3. /\ a \in Seq(Messages) /\ Len(a) <= 1 /\ \A k \in 1..Len(a) : a[k].tag = "SEEN"
      /\ c.seenPos > 0 => a # <<>> /\ a[1] = Msg("SEEN", c.seenFile, c.seenPos)
  BY <1>2 DEF SeenPending, NoneIf, Msg, ClientType
<1>4. b \in Seq(Messages) /\ \A k \in 1..Len(b) : b[k].tag = "APND"
  BY <1>2 DEF NoneIf, Msg
<1>5. d \in Seq(Messages) /\ \A k \in 1..Len(d) : d[k].tag = "APND"
  BY <1>2 DEF NoneIf, Msg
<1> HIDE DEF a, b, d
<1> QED
  BY <1>1, <1>3, <1>4, <1>5, PartsShape, SMTT(30)

LEMMA FlushedType ==
  ASSUME NEW c \in ClientType
  PROVE  /\ Flushed(c) \in ClientType /\ FitsClient(Flushed(c)) /\ Flushed(c).seenPos = 0
         /\ Flushed(c).seenFile = c.seenFile /\ Flushed(c).appendFile = c.appendFile
         /\ Flushed(c).append = <<>> /\ Flushed(c).stdout = <<>>
<1>1. /\ Flushed(c).seenFile = c.seenFile /\ Flushed(c).seenPos = 0
      /\ Flushed(c).appendFile = c.appendFile
      /\ Flushed(c).append = <<>> /\ Flushed(c).stdout = <<>>
  BY DEF Flushed, ClientType
<1>2. Flushed(c) \in ClientType
  BY <<>> \in Seq(Nat) DEF Flushed, ClientType
<1>3. FitsClient(Flushed(c))
  BY <1>1, WorkerIOAssumption DEF FitsClient
<1> QED
  BY <1>1, <1>2, <1>3

(* A call that only changes the client *)
LEMMA QuietForwards ==
  ASSUME NEW c \in ClientType, NEW d \in ClientType, FitsClient(d),
         d.seenFile = c.seenFile, d.seenPos >= c.seenPos
  PROVE  Forwards(c, Quiet(d))
<1>1. Quiet(d).client = d /\ Quiet(d).msgs = <<>>
  BY DEF Quiet
<1>2. Plain(<<>>)
  BY DEF Plain
<1> QED
  BY <1>1, <1>2 DEF Forwards, Carried

(* A call that flushes what is pending *)
LEMMA FlushingForwards ==
  ASSUME NEW c \in ClientType, NEW d \in ClientType, FitsClient(d)
  PROVE  Forwards(c, Flushing(c, d))
<1>1. Flushing(c, d).client = d /\ Flushing(c, d).msgs = Pending(c)
  BY DEF Flushing
<1> QED
  BY <1>1, PendingPlain DEF Forwards, Carried

(* txp_seen: what is reported is never less than before. *)
LEMMA SeenForwards ==
  ASSUME NEW c \in ClientType, FitsClient(c), NEW id \in Ids, NEW pos \in Nat
  PROVE  LET r == Seen(c, id, pos)
         IN Forwards(c, r) /\ r.client.seenFile = id /\ r.client.seenPos >= pos
<1>1. CASE c.seenFile = id
  <2> DEFINE d == [c EXCEPT !.seenPos = Max({@, pos})]
  <2>1. Seen(c, id, pos) = Quiet(d)
    BY <1>1 DEF Seen
  <2>2. c.seenPos \in Nat
    BY DEF ClientType
  <2>3. /\ Max({c.seenPos, pos}) \in Nat
        /\ Max({c.seenPos, pos}) >= pos /\ Max({c.seenPos, pos}) >= c.seenPos
    BY <2>2, MaxOfTwo
  <2>4. /\ d \in ClientType /\ d.seenFile = c.seenFile /\ d.seenPos = Max({c.seenPos, pos})
        /\ d.append = c.append /\ d.stdout = c.stdout
    BY <2>3 DEF ClientType
  <2> HIDE DEF d
  <2>5. Forwards(c, Quiet(d))
    BY <2>3, <2>4, QuietForwards DEF FitsClient
  <2> QED
    BY <2>1, <2>3, <2>4, <2>5, <1>1 DEF Quiet
<1>2. CASE c.seenFile # id
  <2> DEFINE d == [Flushed(c) EXCEPT !.seenFile = id, !.seenPos = pos]
  <2>1. Seen(c, id, pos) = Flushing(c, d)
    BY <1>2 DEF Seen
  <2>2. /\ d \in ClientType /\ d.seenFile = id /\ d.seenPos = pos
        /\ d.append = Flushed(c).append /\ d.stdout = Flushed(c).stdout
    BY FlushedType DEF ClientType
  <2> HIDE DEF d
  <2>3. Forwards(c, Flushing(c, d))
    BY <2>2, FlushedType, FlushingForwards DEF FitsClient
  <2> QED
    BY <2>1, <2>2, <2>3 DEF Flushing
<1> QED
  BY <1>1, <1>2

(* txp_append *)
LEMMA AppendForwards ==
  ASSUME NEW c \in ClientType, FitsClient(c), NEW id \in Ids \cup {-1}, NEW data \in Seq(Nat)
  PROVE  Forwards(c, AppendTo(c, id, data))
<1>0. PendSize \in Nat /\ Len(data) \in Nat
  BY WorkerIOAssumption
<1>1. CASE c.appendFile = id /\ Len(c.append) + Len(data) <= PendSize
  <2> DEFINE d == [c EXCEPT !.append = @ \o data]
  <2>1. AppendTo(c, id, data) = Quiet(d)
    BY <1>1 DEF AppendTo
  <2>2. c.append \o data \in Seq(Nat) /\ Len(c.append \o data) = Len(c.append) + Len(data)
    BY DEF ClientType
  <2>3. /\ d \in ClientType /\ d.seenFile = c.seenFile /\ d.seenPos = c.seenPos
        /\ d.append = c.append \o data /\ d.stdout = c.stdout
    BY <2>2 DEF ClientType
  <2>4. c.seenPos \in Nat
    BY DEF ClientType
  <2> HIDE DEF d
  <2>5. FitsClient(d)
    BY <2>2, <2>3, <1>1 DEF FitsClient
  <2> QED
    BY <2>1, <2>3, <2>4, <2>5, QuietForwards
<1>2. CASE ~(c.appendFile = id /\ Len(c.append) + Len(data) <= PendSize) /\ Len(data) <= PendSize
  <2> DEFINE d == [Flushed(c) EXCEPT !.appendFile = id, !.append = data]
  <2>1. AppendTo(c, id, data) = Flushing(c, d)
    BY <1>2 DEF AppendTo
  <2>2. d \in ClientType /\ d.append = data /\ d.stdout = Flushed(c).stdout
    BY FlushedType DEF ClientType
  <2> HIDE DEF d
  <2>3. FitsClient(d)
    BY <2>2, <1>2, FlushedType DEF FitsClient
  <2> QED
    BY <2>1, <2>2, <2>3, FlushingForwards
<1>3. CASE ~(c.appendFile = id /\ Len(c.append) + Len(data) <= PendSize) /\ ~(Len(data) <= PendSize)
  <2> DEFINE m == Msg("APND", id, data)
             s == Append(Pending(c), m)
  <2>1. AppendTo(c, id, data).client = Flushed(c) /\ AppendTo(c, id, data).msgs = s
    BY <1>3 DEF AppendTo
  <2>2. m \in Messages /\ m.tag = "APND"
    BY DEF Messages, Msg
  <2> HIDE DEF m
  <2>3. Plain(Pending(c))
    BY PendingPlain
  <2> DEFINE p == Pending(c)
  <2>4. c.seenPos > 0 => p # <<>> /\ p[1] = Msg("SEEN", c.seenFile, c.seenPos)
    BY PendingPlain
  <2> HIDE DEF p
  <2>5. p \in Seq(Messages) /\ \A k \in 1..Len(p) : p[k].tag \notin Queries /\ (p[k].tag = "SEEN" => k = 1)
    BY <2>3 DEF Plain, p
  <2>6. s = Append(p, m)
    BY DEF p
  <2> HIDE DEF s
  <2>7. s \in Seq(Messages) /\ Len(s) = Len(p) + 1 /\ s[Len(s)] = m /\ \A k \in 1..Len(p) : s[k] = p[k]
    BY <2>2, <2>5, <2>6
  <2>8. \A k \in 1..Len(s) : s[k].tag \notin Queries /\ (s[k].tag = "SEEN" => k = 1)
    <3> SUFFICES ASSUME NEW k \in 1..Len(s)
                 PROVE  s[k].tag \notin Queries /\ (s[k].tag = "SEEN" => k = 1)
      OBVIOUS
    <3>1. CASE k = Len(s)
      BY <3>1, <2>2, <2>7 DEF Queries
    <3>2. CASE k # Len(s)
      <4>1. k \in 1..Len(p)
        BY <3>2, <2>5, <2>7
      <4> QED
        BY <4>1, <2>5, <2>7
    <3> QED
      BY <3>1, <3>2
  <2>9. Plain(s)
    BY <2>7, <2>8 DEF Plain
  <2>10. p # <<>> => s # <<>> /\ s[1] = p[1]
    BY <2>5, <2>7
  <2> QED
    BY <2>1, <2>4, <2>9, <2>10, FlushedType DEF Forwards, Carried
<1> QED
  BY <1>1, <1>2, <1>3

(* txp_putc *)
LEMMA PutForwards ==
  ASSUME NEW c \in ClientType, FitsClient(c), NEW id \in Ids \cup {-1}, NEW byte \in Nat
  PROVE  Forwards(c, PutTo(c, id, byte))
<1>0. PendSize \in Nat /\ PendSize # 0
  BY WorkerIOAssumption
<1>1. c.seenPos \in Nat /\ c.stdout \in Seq(Nat) /\ c.append \in Seq(Nat)
  BY DEF ClientType
<1>2. CASE id = -1 /\ Len(c.stdout) < PendSize
  <2> DEFINE d == [c EXCEPT !.stdout = Append(@, byte)]
  <2>1. PutTo(c, id, byte) = Quiet(d)
    BY <1>2 DEF PutTo
  <2>2. Append(c.stdout, byte) \in Seq(Nat) /\ Len(Append(c.stdout, byte)) = Len(c.stdout) + 1
    BY <1>1
  <2>3. /\ d \in ClientType /\ d.seenFile = c.seenFile /\ d.seenPos = c.seenPos
        /\ d.append = c.append /\ d.stdout = Append(c.stdout, byte)
    BY <2>2 DEF ClientType
  <2> HIDE DEF d
  <2>4. FitsClient(d)
    BY <2>2, <2>3, <1>0, <1>1, <1>2 DEF FitsClient
  <2> QED
    BY <2>1, <2>3, <2>4, <1>1, QuietForwards
<1>3. CASE ~(id = -1 /\ Len(c.stdout) < PendSize) /\ c.appendFile = id /\ Len(c.append) < PendSize
  <2> DEFINE d == [c EXCEPT !.append = Append(@, byte)]
  <2>1. PutTo(c, id, byte) = Quiet(d)
    BY <1>3 DEF PutTo
  <2>2. Append(c.append, byte) \in Seq(Nat) /\ Len(Append(c.append, byte)) = Len(c.append) + 1
    BY <1>1
  <2>3. /\ d \in ClientType /\ d.seenFile = c.seenFile /\ d.seenPos = c.seenPos
        /\ d.append = Append(c.append, byte) /\ d.stdout = c.stdout
    BY <2>2 DEF ClientType
  <2> HIDE DEF d
  <2>4. FitsClient(d)
    BY <2>2, <2>3, <1>0, <1>1, <1>3 DEF FitsClient
  <2> QED
    BY <2>1, <2>3, <2>4, <1>1, QuietForwards
<1>4. CASE ~(id = -1 /\ Len(c.stdout) < PendSize) /\ ~(c.appendFile = id /\ Len(c.append) < PendSize)
  <2> DEFINE d == [Flushed(c) EXCEPT !.appendFile = id, !.append = <<byte>>]
  <2>1. PutTo(c, id, byte) = Flushing(c, d)
    BY <1>4 DEF PutTo
  <2>0. <<byte>> \in Seq(Nat) /\ Len(<<byte>>) = 1
    OBVIOUS
  <2>2. d \in ClientType /\ d.append = <<byte>> /\ d.stdout = Flushed(c).stdout
    BY <2>0, FlushedType DEF ClientType
  <2> HIDE DEF d
  <2>3. FitsClient(d)
    BY <2>0, <2>2, <1>0, FlushedType DEF FitsClient
  <2> QED
    BY <2>1, <2>2, <2>3, FlushingForwards
<1> QED
  BY <1>2, <1>3, <1>4

-----------------------------------------------------------------------------
(* What is sent *)

(* A query is sent after what is pending, and nothing remains to report. *)
LEMMA AskSends ==
  ASSUME Typed, todo = <<>>, NEW q \in Messages, q.tag \in Queries, Ask(q)
  PROVE  /\ todo' \in Seq(Messages) /\ client' \in ClientType /\ FitsClient(client')
         /\ client'.seenPos = 0 /\ Orderly'
         /\ \A k \in 1..Len(todo') : todo'[k].tag \in Queries => todo'[k] = q
<1>1. client \in ClientType
  BY DEF Typed
<1> DEFINE p == Pending(client)
<1>2. p \in Seq(Messages) /\ \A k \in 1..Len(p) : p[k].tag \notin Queries /\ (p[k].tag = "SEEN" => k = 1)
  BY <1>1, PendingPlain DEF Plain
<1>3. todo' = Append(p, q) /\ client' = Flushed(client)
  BY DEF Ask
<1> HIDE DEF p
<1> DEFINE s == todo'
<1>4. s \in Seq(Messages) /\ Len(s) = Len(p) + 1 /\ s[Len(s)] = q /\ \A k \in 1..Len(p) : s[k] = p[k]
  BY <1>2, <1>3
<1>5. \A k \in 1..Len(s) : k \in 1..Len(p) \/ k = Len(s)
  BY <1>2, <1>4
<1>6. /\ client' \in ClientType /\ FitsClient(client') /\ client'.seenPos = 0
  BY <1>1, <1>3, FlushedType
<1>7. q.tag # "SEEN"
  BY DEF Queries
<1> HIDE DEF s
<1>8. \A k \in 1..Len(s) : /\ s[k].tag = "SEEN" => k = 1
                           /\ s[k].tag \in Queries => k = Len(s) /\ s[k] = q
  BY <1>2, <1>4, <1>5, <1>7
<1> QED
  BY <1>4, <1>6, <1>8 DEF s, Orderly

LEMMA AskReports ==
  ASSUME Typed, todo = <<>>, NEW q \in Messages, Ask(q), UNCHANGED <<seen, table>>,
         NEW f, NEW n \in Int, Reported(f, n)
  PROVE  Reported(f, n)'
<1>1. client \in ClientType
  BY DEF Typed
<1> DEFINE p == Pending(client)
<1>2. /\ p \in Seq(Messages)
      /\ client.seenPos > 0 => p # <<>> /\ p[1] = Msg("SEEN", client.seenFile, client.seenPos)
  BY <1>1, PendingPlain DEF Plain
<1>3. todo' = Append(p, q)
  BY DEF Ask
<1> HIDE DEF p
<1>4. p # <<>> => todo' # <<>> /\ todo'[1] = p[1]
  BY <1>2, <1>3
<1> QED
  BY <1>2, <1>4 DEF Reported, Msg

(* What does not wait sends no query. *)
LEMMA SendSends ==
  ASSUME NEW r, Forwards(client, r), Sending(r)
  PROVE  /\ todo' \in Seq(Messages) /\ client' \in ClientType /\ FitsClient(client')
         /\ Orderly'
         /\ \A k \in 1..Len(todo') : todo'[k].tag \notin Queries
BY DEF Forwards, Sending, Plain, Orderly

LEMMA SendReports ==
  ASSUME Typed, todo = <<>>, NEW r, Forwards(client, r), Sending(r), UNCHANGED <<seen, table>>,
         NEW f, NEW n \in Int, Reported(f, n)
  PROVE  Reported(f, n)'
<1>1. client \in ClientType /\ client' \in ClientType
  BY DEF Typed, Forwards, Sending
<1>2. client.seenPos \in Nat /\ client'.seenPos \in Nat
  BY <1>1 DEF ClientType
<1>3. /\ client' = r.client /\ todo' = r.msgs
      /\ Carried(client, r.client, r.msgs)
  BY DEF Forwards, Sending
<1>4. CASE seen[f] >= n
  BY <1>4 DEF Reported
<1>5. CASE client.seenPos > 0 /\ client.seenPos >= n /\ table[client.seenFile] = f
  BY <1>2, <1>3, <1>5 DEF Carried, Reported, Msg
<1> QED
  BY <1>4, <1>5 DEF Reported

(* When the first message was handled, what remains is neither a report nor *)
(* followed by anything.                                                    *)
LEMMA TailSends ==
  ASSUME Typed, TodoInv, todo # <<>>, todo' = Tail(todo), client' = client
  PROVE  /\ todo' \in Seq(Messages) /\ Orderly'
         /\ \A k \in 1..Len(todo') : /\ k + 1 \in 1..Len(todo) /\ todo'[k] = todo[k + 1]
                                     /\ todo'[k].tag # "SEEN"
         /\ Head(todo) = todo[1] /\ todo[1] \in Messages
         /\ todo[1].tag \in Queries => todo' = <<>> /\ client.seenPos = 0 /\ Fits(todo[1])
<1> DEFINE s == todo'
<1>1. todo \in Seq(Messages) /\ Len(todo) \in Nat /\ Len(todo) # 0
  BY DEF Typed
<1>2. s \in Seq(Messages) /\ Len(s) = Len(todo) - 1
  BY <1>1
<1>3. \A k \in 1..Len(s) : k + 1 \in 1..Len(todo) /\ s[k] = todo[k + 1]
  BY <1>1, <1>2
<1>4. Head(todo) = todo[1] /\ todo[1] \in Messages /\ 1 \in 1..Len(todo)
  BY <1>1
<1>5. \A k \in 1..Len(todo) : /\ todo[k].tag = "SEEN" => k = 1
                              /\ todo[k].tag \in Queries => k = Len(todo) /\ client.seenPos = 0
  BY DEF TodoInv, Orderly
<1> HIDE DEF s
<1>6. \A k \in 1..Len(s) : s[k].tag # "SEEN"
  <2> TAKE k \in 1..Len(s)
  <2>1. k + 1 \in 1..Len(todo) /\ s[k] = todo[k + 1] /\ k + 1 # 1
    BY <1>3
  <2> QED
    BY <2>1, <1>5
<1>7. \A k \in 1..Len(s) : s[k].tag \in Queries => k = Len(s) /\ client.seenPos = 0
  <2> TAKE k \in 1..Len(s)
  <2>1. k + 1 \in 1..Len(todo) /\ s[k] = todo[k + 1]
    BY <1>3
  <2>2. s[k].tag \in Queries => k + 1 = Len(todo) /\ client.seenPos = 0
    BY <2>1, <1>5
  <2> QED
    BY <2>2, <1>1, <1>2
<1>8. todo[1].tag \in Queries => Len(s) = 0 /\ client.seenPos = 0
  BY <1>1, <1>2, <1>4, <1>5
<1>9. Len(s) = 0 => s = <<>>
  BY <1>2
<1>10. todo[1].tag \in Queries => Fits(todo[1])
  BY <1>4 DEF TodoInv
<1>11. Orderly'
  BY <1>6, <1>7 DEF s, Orderly
<1> QED
  BY <1>2, <1>3, <1>4, <1>6, <1>8, <1>9, <1>10, <1>11 DEF s

-----------------------------------------------------------------------------
(* Inputs after a FLSH *)

(* They have another generation; nothing else of them changes. *)
Same(i, j) ==
  /\ i \in InputType /\ i.file = j.file /\ i.id = j.id /\ i.pos = j.pos
  /\ i.buf = j.buf /\ i.used = j.used /\ i.size = j.size

LEMMA BumpedSame ==
  ASSUME Typed
  PROVE  /\ Bumped(inputs) \in [Handles -> InputType \cup {Closed}]
         /\ \A h \in Handles : /\ ~IsOpen(h) => Bumped(inputs)[h] = Closed
                               /\ IsOpen(h) => /\ inputs[h] \in InputType
                                               /\ Same(Bumped(inputs)[h], inputs[h])
                                               /\ ~Bumped(inputs)[h].current
<1>1. \A h \in Handles : IsOpen(h) => inputs[h] \in InputType
  BY DEF Typed, IsOpen
<1>2. \A i \in InputType : LET j == [i EXCEPT !.current = FALSE]
                           IN Same(j, i) /\ ~j.current
  BY DEF Same, InputType
<1>3. \A h \in Handles : /\ ~IsOpen(h) => Bumped(inputs)[h] = Closed
                         /\ IsOpen(h) => Bumped(inputs)[h] = [inputs[h] EXCEPT !.current = FALSE]
  BY DEF Bumped, IsOpen
<1>4. \A h \in Handles : IsOpen(h) => /\ Same(Bumped(inputs)[h], inputs[h])
                                      /\ ~Bumped(inputs)[h].current
  BY <1>1, <1>2, <1>3
<1>5. \A h \in Handles : Bumped(inputs)[h] \in InputType \cup {Closed}
  BY <1>3, <1>4 DEF Same
<1>6. Bumped(inputs) \in [Handles -> InputType \cup {Closed}]
  BY <1>5 DEF Bumped
<1> QED
  BY <1>1, <1>3, <1>4, <1>6

LEMMA ToldSame ==
  ASSUME Typed
  PROVE  /\ Told \in [Handles -> InputType \cup {Closed}]
         /\ \A h \in Handles : /\ ~IsOpen(h) => Told[h] = Closed
                               /\ IsOpen(h) => /\ inputs[h] \in InputType /\ Told[h] # Closed
                                               /\ Same(Told[h], inputs[h])
                                               /\ Told[h].current => ~flushing /\ Told[h] = inputs[h]
<1>1. \A i \in InputType : i # Closed
  BY ClosedAssumption
<1>2. CASE flushing
  BY <1>1, <1>2, BumpedSame DEF Told, Same
<1>3. CASE ~flushing
  <2>1. Told = inputs /\ inputs \in [Handles -> InputType \cup {Closed}]
    BY <1>3 DEF Told, Typed
  <2> QED
    BY <2>1, <1>1, <1>3 DEF IsOpen, Same
<1> QED
  BY <1>2, <1>3

-----------------------------------------------------------------------------
(* Steps that keep the invariant *)

(* What gives up only stops. *)
LEMMA DieKeeps ==
  ASSUME Inv, NEW why, why # "no", Die(why)
  PROVE  Inv'
<1> USE DEF Inv
<1>1. /\ UNCHANGED <<content, seen, received, table, fresh, allocated, inputs, outs, client,
                     flushing, viewed, written, effort, sought>>
      /\ todo' = <<>> /\ want' = Closed /\ aborted' # "no"
  BY DEF Die, driver, ids, history
<1>2. Typed'
  BY <1>1 DEF Typed, IsOpen
<1>3. Ended' /\ TodoInv' /\ FlushInv' /\ SeenInv'
  BY <1>1 DEF Ended, TodoInv, Orderly, FlushInv, SeenInv
<1>4. IdsInv'
  BY <1>1 DEF IdsInv, IsOpen
<1>5. BufInv'
  BY <1>1 DEF BufInv, Holds, IsOpen
<1>6. (Interrupts \/ ObservedCurrent)'
  BY <1>1 DEF ObservedCurrent
<1> QED
  BY <1>2, <1>3, <1>4, <1>5, <1>6

LEMMA OpenInput ==
  ASSUME Typed, NEW h \in Handles, IsOpen(h)
  PROVE  inputs[h] \in InputType /\ inputs[h].used <= Len(inputs[h].buf)
BY DEF Typed, IsOpen

(* Ids stay those of the inputs, as long as they only move. *)
LEMMA IdsKept ==
  ASSUME Typed, IdsInv, UNCHANGED <<table, allocated>>, \A f \in Files : seen'[f] >= seen[f],
         \A f \in Files : seen'[f] \in Int,
         \A h \in Handles : /\ IsOpen(h) <=> IsOpen(h)'
                            /\ IsOpen(h) => inputs'[h].id = inputs[h].id /\ inputs'[h].file = inputs[h].file,
         \A o \in Outputs : outs'[o] \in {outs[o], Closed}
  PROVE  IdsInv'
<1>1. ASSUME NEW h \in Handles, IsOpen(h)'
      PROVE  /\ inputs'[h].id \in allocated' /\ table'[inputs'[h].id] = inputs'[h].file
             /\ seen'[inputs'[h].file] >= 0
  <2>1. /\ inputs[h].id \in allocated /\ table[inputs[h].id] = inputs[h].file
        /\ seen[inputs[h].file] >= 0
    BY <1>1 DEF IdsInv
  <2>2. inputs[h].file \in Files
    BY <1>1, OpenInput DEF InputType
  <2>3. seen[inputs[h].file] \in Int
    BY <2>2 DEF Typed
  <2> QED
    BY <1>1, <2>1, <2>2, <2>3
<1>2. \A g, h \in Handles : IsOpen(g)' /\ IsOpen(h)' /\ inputs'[g].id = inputs'[h].id => g = h
  BY DEF IdsInv
<1>3. \A o \in Outputs :
        outs'[o] # Closed => /\ outs'[o] \in allocated'
                             /\ \A h \in Handles : IsOpen(h)' => inputs'[h].id # outs'[o]
  BY DEF IdsInv
<1> QED
  BY <1>1, <1>2, <1>3 DEF IdsInv

(* An input that moved keeps its file; its buffer holds what the file does, *)
(* and where it is now is known, unless it was sought.                      *)
Moved(g) ==
  /\ IsOpen(g) /\ inputs'[g] \in InputType
  /\ inputs'[g].id = inputs[g].id /\ inputs'[g].file = inputs[g].file
  /\ inputs'[g].current => Holds(inputs'[g])
  /\ g \notin sought' => Reported(inputs[g].file, At(inputs[g]))'

(* A call of TeX reads what the files hold, and reports it. *)
LEMMA CallKeeps ==
  ASSUME Inv, Typed', TodoInv', todo = <<>>, aborted = "no",
         UNCHANGED <<content, seen, table, allocated, flushing, aborted>>,
         \A o \in Outputs : outs'[o] \in {outs[o], Closed},
         sought \subseteq sought',
         \A f : \A n \in Int : Reported(f, n) => Reported(f, n)',
         \A g \in Handles : inputs'[g] = inputs[g] \/ Moved(g),
         \A f \in Files : \A p \in DOMAIN viewed'[f] :
           \/ p \in DOMAIN viewed[f] /\ viewed'[f][p] = viewed[f][p]
           \/ /\ p < Len(content[f]) /\ viewed'[f][p] = content[f][p + 1]
              /\ Reported(f, p + 1)'
  PROVE  Inv'
<1> USE DEF Inv
<1>0. ~flushing /\ ~flushing'
  BY DEF FlushInv
<1>1. \A i \in InputType : i # Closed
  BY ClosedAssumption
<1>2. \A h \in Handles : /\ IsOpen(h) <=> IsOpen(h)'
                         /\ IsOpen(h) => inputs'[h].id = inputs[h].id /\ inputs'[h].file = inputs[h].file
  BY <1>1 DEF Moved, IsOpen
<1>3. \A f \in Files : seen'[f] >= seen[f] /\ seen'[f] \in Int
  BY DEF Typed
<1>4. IdsInv'
  BY <1>2, <1>3, IdsKept
<1>5. Ended' /\ FlushInv'
  BY <1>0 DEF Ended, FlushInv
<1>6. BufInv'
  <2> SUFFICES ASSUME NEW h \in Handles, IsOpen(h)', inputs'[h].current PROVE Holds(inputs[h])'
    BY DEF BufInv
  <2>1. CASE inputs'[h] = inputs[h]
    <3>1. Holds(inputs[h])
      BY <2>1, <1>0, <1>2 DEF BufInv
    <3> QED
      BY <2>1, <3>1 DEF Holds
  <2>2. CASE Moved(h)
    BY <2>2 DEF Moved, Holds
  <2> QED
    BY <2>1, <2>2
<1>7. SeenInv'
  <2>1. ASSUME NEW f \in Files, NEW p \in DOMAIN viewed'[f]
        PROVE  Reported(f, IF viewed[f][p] = Eof THEN p ELSE p + 1)'
    <3>0. p \in Nat
      BY <2>1 DEF Typed
    <3>1. CASE p \in DOMAIN viewed[f] /\ viewed'[f][p] = viewed[f][p]
      <4>1. Reported(f, IF viewed[f][p] = Eof THEN p ELSE p + 1)
        BY <3>1 DEF SeenInv
      <4>2. (IF viewed[f][p] = Eof THEN p ELSE p + 1) \in Int
        BY <3>0
      <4>3. Reported(f, p) => Reported(f, p)'
        BY <3>0
      <4>4. Reported(f, p + 1) => Reported(f, p + 1)'
        BY <3>0
      <4>5. CASE viewed[f][p] = Eof
        <5>1. Reported(f, p)
          BY <4>1, <4>5
        <5>2. Reported(f, p)'
          BY <5>1, <4>3
        <5> QED
          BY <5>2, <3>1, <4>5 DEF Reported
      <4>6. CASE viewed[f][p] # Eof
        <5>1. Reported(f, p + 1)
          BY <4>1, <4>6
        <5>2. Reported(f, p + 1)'
          BY <5>1, <4>4
        <5> QED
          BY <5>2, <3>1, <4>6 DEF Reported
      <4> QED
        BY <4>5, <4>6
    <3>2. CASE p < Len(content[f]) /\ viewed'[f][p] = content[f][p + 1] /\ Reported(f, p + 1)'
      <4>1. content[f] \in Seq(Data)
        BY DEF Typed
      <4>2. content[f][p + 1] \in Data
        BY <3>0, <3>2, <4>1
      <4>3. viewed'[f][p] # Eof
        BY <3>2, <4>2, WorkerIOAssumption
      <4> QED
        BY <3>2, <4>3 DEF Reported
    <3> QED
      BY <2>1, <3>1, <3>2
  <2>2. ASSUME NEW h \in Handles \ sought', IsOpen(h)'
        PROVE  Reported(inputs[h].file, At(inputs[h]))'
    <3>0. IsOpen(h) /\ h \in Handles \ sought
      BY <2>2, <1>2
    <3>1. CASE inputs'[h] = inputs[h]
      <4>1. Reported(inputs[h].file, At(inputs[h]))
        BY <3>0 DEF SeenInv
      <4>2. At(inputs[h]) \in Int
        BY <3>0, OpenInput DEF InputType, At
      <4>3. Reported(inputs[h].file, At(inputs[h])) => Reported(inputs[h].file, At(inputs[h]))'
        <5>1. ASSUME NEW f, NEW n \in Int, f = inputs[h].file, n = At(inputs[h]), Reported(f, n)
              PROVE  Reported(inputs[h].file, At(inputs[h]))'
          <6>1. Reported(f, n)'
            BY <5>1
          <6>2. f = inputs'[h].file /\ n = At(inputs'[h])
            BY <5>1, <3>1
          <6> QED
            BY <6>1, <6>2 DEF Reported
        <5> QED
          BY <5>1, <4>2
      <4> QED
        BY <4>1, <4>3
    <3>2. CASE Moved(h)
      BY <3>2, <2>2 DEF Moved
    <3> QED
      BY <3>1, <3>2
  <2> QED
    BY <2>1, <2>2 DEF SeenInv
<1>8. (Interrupts \/ ObservedCurrent)'
  BY DEF ObservedCurrent
<1> QED
  BY <1>4, <1>5, <1>6, <1>7, <1>8

-----------------------------------------------------------------------------
(* Calls of TeX *)

(* An input that stayed where it was, whatever became of its buffer *)
Stayed(g) ==
  /\ IsOpen(g) /\ inputs'[g] \in InputType /\ inputs'[g].used <= Len(inputs'[g].buf)
  /\ inputs'[g].id = inputs[g].id /\ inputs'[g].file = inputs[g].file
  /\ inputs'[g].current => Holds(inputs'[g])
  /\ At(inputs'[g]) = At(inputs[g])

LEMMA StayedMoved ==
  ASSUME Inv, aborted = "no", sought' = sought, NEW g \in Handles, Stayed(g),
         \A f : \A n \in Int : Reported(f, n) => Reported(f, n)'
  PROVE  Moved(g)
<1>1. CASE g \in sought'
  BY <1>1 DEF Stayed, Moved
<1>2. CASE g \notin sought'
  <2>1. Reported(inputs[g].file, At(inputs[g]))
    BY <1>2 DEF Inv, SeenInv, Stayed
  <2>2. At(inputs[g]) \in Int
    BY OpenInput DEF InputType, At, Stayed, Inv
  <2>0. PICK f : f = inputs[g].file
    OBVIOUS
  <2>3. PICK n \in Int : f = inputs[g].file /\ n = At(inputs[g])
    BY <2>0, <2>2
  <2>4. Reported(f, n)'
    BY <2>1, <2>3
  <2>5. f = inputs'[g].file /\ n = At(inputs'[g])
    BY <2>3 DEF Stayed
  <2>6. Reported(inputs[g].file, At(inputs[g]))'
    BY <2>4, <2>5
  <2> QED
    BY <2>6 DEF Stayed, Moved
<1> QED
  BY <1>1, <1>2

(* Calls that ask the driver *)
LEMMA AskKeeps ==
  ASSUME Inv, todo = <<>>, aborted = "no",
         NEW q \in Messages, q.tag \in Queries, Ask(q), Fits(q)',
         UNCHANGED <<content, seen, table, fresh, allocated, flushing, aborted, viewed, written, sought>>,
         outs' \in [Outputs -> Ids \cup {Closed}],
         \A o \in Outputs : outs'[o] \in {outs[o], Closed},
         want' \in WantType \cup {Closed}, want' # Closed => want'.op # "more",
         inputs' \in [Handles -> InputType \cup {Closed}],
         \A g \in Handles : inputs'[g] = inputs[g] \/ Stayed(g)
  PROVE  Inv'
<1>1. Typed
  BY DEF Inv
<1>2. /\ todo' \in Seq(Messages) /\ client' \in ClientType /\ FitsClient(client')
      /\ Orderly' /\ \A k \in 1..Len(todo') : todo'[k].tag \in Queries => todo'[k] = q
  BY <1>1, AskSends
<1>3. \A f : \A n \in Int : Reported(f, n) => Reported(f, n)'
  BY <1>1, AskReports
<1>4. \A h \in Handles : IsOpen(h)' => inputs'[h].used <= Len(inputs'[h].buf)
  BY <1>1 DEF Stayed, Typed, IsOpen
<1>5. Typed'
  BY <1>1, <1>2, <1>4 DEF Typed
<1>6. TodoInv'
  <2>1. ASSUME NEW k \in 1..Len(todo'), todo'[k].tag \in Queries
        PROVE  Fits(todo[k])'
    <3>1. todo'[k] = q
      BY <2>1, <1>2
    <3> QED
      BY <3>1
  <2> QED
    BY <2>1, <1>2 DEF TodoInv
<1>7. \A g \in Handles : inputs'[g] = inputs[g] \/ Moved(g)
  BY <1>3, StayedMoved
<1>8. \A f \in Files : \A p \in DOMAIN viewed'[f] : p \in DOMAIN viewed[f] /\ viewed'[f][p] = viewed[f][p]
  OBVIOUS
<1> QED
  BY <1>3, <1>5, <1>6, <1>7, <1>8, CallKeeps

(* Calls that only send, or do nothing *)
LEMMA SendKeeps ==
  ASSUME Inv, todo = <<>>, aborted = "no",
         NEW r, Forwards(client, r), Sending(r),
         UNCHANGED <<content, seen, table, fresh, allocated, outs, flushing, aborted, sought>>,
         written' \in [Outputs \cup {Stdout} -> Nat],
         want' \in WantType \cup {Closed},
         want' # Closed /\ want'.op = "more" => IsOpen(want.h)' /\ want'.left >= 0,
         inputs' \in [Handles -> InputType \cup {Closed}],
         \A g \in Handles : \/ inputs'[g] = inputs[g]
                            \/ Moved(g) /\ inputs'[g].used <= Len(inputs'[g].buf),
         DOMAIN viewed' = Files,
         \A f \in Files : \A p \in DOMAIN viewed'[f] :
           \/ p \in DOMAIN viewed[f] /\ viewed'[f][p] = viewed[f][p]
           \/ /\ p \in Nat /\ p < Len(content[f]) /\ viewed'[f][p] = content[f][p + 1]
              /\ Reported(f, p + 1)'
  PROVE  Inv'
<1>1. Typed
  BY DEF Inv
<1>2. /\ todo' \in Seq(Messages) /\ client' \in ClientType /\ FitsClient(client')
      /\ Orderly' /\ \A k \in 1..Len(todo') : todo'[k].tag \notin Queries
  BY <1>1, SendSends
<1>3. \A f : \A n \in Int : Reported(f, n) => Reported(f, n)'
  BY <1>1, SendReports
<1>4. \A h \in Handles : IsOpen(h)' => inputs'[h].used <= Len(inputs'[h].buf)
  BY <1>1 DEF Typed, IsOpen
<1>5. \A f \in Files : \A p \in DOMAIN viewed'[f] : p \in Nat /\ viewed'[f][p] \in Data \cup {Eof}
  BY <1>1 DEF Typed
<1>6. Typed'
  BY <1>1, <1>2, <1>4, <1>5 DEF Typed
<1>7. TodoInv'
  BY <1>2 DEF TodoInv
<1>8. \A f \in Files : \A p \in DOMAIN viewed'[f] :
        \/ p \in DOMAIN viewed[f] /\ viewed'[f][p] = viewed[f][p]
        \/ /\ p < Len(content[f]) /\ viewed'[f][p] = content[f][p + 1]
           /\ Reported(f, p + 1)'
  OBVIOUS
<1> QED
  BY <1>3, <1>6, <1>7, <1>8, CallKeeps

LEMMA ReadyFacts == Ready => todo = <<>> /\ want = Closed /\ aborted = "no"
BY DEF Ready

LEMMA WantTyped ==
  \A h \in Handles, left \in Nat \cup {-1} :
    \A op \in {"open", "close", "getc", "read", "more", "size"} :
      [op |-> op, h |-> h, left |-> left] \in WantType /\ [op |-> op, h |-> h, left |-> left] # Closed
BY ClosedAssumption DEF WantType

LEMMA OpenKeeps ==
  ASSUME Inv, NEW h \in Handles, NEW f \in Files, Open(h, f)
  PROVE  Inv'
<1>0. todo = <<>> /\ want = Closed /\ aborted = "no" /\ ~IsOpen(h)
  BY ReadyFacts DEF Open
<1>1. CASE Free = {} /\ Die("ids")
  BY <1>1, DieKeeps
<1>2. CASE Free # {} /\ Ask(Msg("OPRD", NextId, f))
           /\ want' = [op |-> "open", h |-> h, left |-> 0]
           /\ UNCHANGED <<driver, ids, flushing, aborted, viewed, written, sought>>
  <2>1. PICK q : q = Msg("OPRD", NextId, f)
    OBVIOUS
  <2>2. NextId \in Ids /\ NextId \notin allocated
    BY <1>2, NextIdFree
  <2>3. q \in Messages /\ q.tag = "OPRD" /\ q.tag \in Queries /\ q.id \notin allocated
    BY <2>1, <2>2 DEF Msg, Messages, Queries
  <2>4. want' \in WantType /\ want' # Closed /\ want'.op = "open" /\ want'.h = h
    BY <1>2, WantTyped
  <2>5. UNCHANGED <<content, seen, table, fresh, allocated, inputs, outs, flushing, aborted, viewed, written, sought>>
    BY <1>2 DEF driver, ids
  <2>6. Fits(q)'
    BY <2>3, <2>4, <2>5, <1>0 DEF Fits, IsOpen
  <2>7. /\ outs' \in [Outputs -> Ids \cup {Closed}] /\ inputs' \in [Handles -> InputType \cup {Closed}]
    BY <2>5 DEF Inv, Typed
  <2> QED
    BY <2>1, <2>3, <2>4, <2>5, <2>6, <2>7, <1>0, <1>2, AskKeeps
<1> QED
  BY <1>1, <1>2 DEF Open

LEMMA CloseKeeps ==
  ASSUME Inv, NEW h \in Handles, Close(h)
  PROVE  Inv'
<1>0. todo = <<>> /\ want = Closed /\ aborted = "no" /\ IsOpen(h)
  BY ReadyFacts DEF Close
<1>1. PICK q : q = Msg("CLOS", inputs[h].id, 0)
  OBVIOUS
<1>2. inputs[h].id \in Ids
  BY <1>0, OpenInput DEF Inv, InputType
<1>3. q \in Messages /\ q.tag = "CLOS" /\ q.tag \in Queries /\ q.id = inputs[h].id
  BY <1>1, <1>2 DEF Msg, Messages, Queries
<1>4. want' \in WantType /\ want' # Closed /\ want'.op = "close" /\ want'.h = h
  BY WantTyped DEF Close
<1>5. UNCHANGED <<content, seen, table, fresh, allocated, inputs, outs, flushing, aborted, viewed, written, sought>>
  BY DEF Close, driver, ids, history
<1>6. Fits(q)'
  BY <1>3, <1>4, <1>5, <1>0 DEF Fits, IsOpen
<1>7. outs' \in [Outputs -> Ids \cup {Closed}] /\ inputs' \in [Handles -> InputType \cup {Closed}]
  BY <1>5 DEF Inv, Typed
<1>8. Ask(q)
  BY <1>1 DEF Close
<1> QED
  BY <1>3, <1>4, <1>5, <1>6, <1>7, <1>8, <1>0, AskKeeps

LEMMA GetSizeKeeps ==
  ASSUME Inv, NEW h \in Handles, GetSize(h)
  PROVE  Inv'
<1>0. todo = <<>> /\ want = Closed /\ aborted = "no" /\ IsOpen(h)
  BY ReadyFacts DEF GetSize
<1>1. PICK q : q = Msg("SIZE", inputs[h].id, 0)
  OBVIOUS
<1>2. inputs[h].id \in Ids
  BY <1>0, OpenInput DEF Inv, InputType
<1>3. q \in Messages /\ q.tag = "SIZE" /\ q.tag \in Queries /\ q.id = inputs[h].id
  BY <1>1, <1>2 DEF Msg, Messages, Queries
<1>4. want' \in WantType /\ want' # Closed /\ want'.op = "size" /\ want'.h = h
  BY WantTyped DEF GetSize
<1>5. UNCHANGED <<content, seen, table, fresh, allocated, inputs, outs, flushing, aborted, viewed, written, sought>>
  BY DEF GetSize, driver, ids
<1>6. Fits(q)'
  BY <1>3, <1>4, <1>5, <1>0 DEF Fits, IsOpen
<1>7. outs' \in [Outputs -> Ids \cup {Closed}] /\ inputs' \in [Handles -> InputType \cup {Closed}]
  BY <1>5 DEF Inv, Typed
<1>8. Ask(q)
  BY <1>1 DEF GetSize
<1> QED
  BY <1>3, <1>4, <1>5, <1>6, <1>7, <1>8, <1>0, AskKeeps

LEMMA OpenWriteKeeps ==
  ASSUME Inv, NEW o \in Outputs, OpenWrite(o)
  PROVE  Inv'
<1>0. todo = <<>> /\ want = Closed /\ aborted = "no"
  BY ReadyFacts DEF OpenWrite
<1>1. CASE Free = {} /\ Die("ids")
  BY <1>1, DieKeeps
<1>2. CASE Free # {} /\ Ask(Msg("OPWR", NextId, o))
           /\ UNCHANGED <<driver, ids, want, flushing, aborted, viewed, written, sought>>
  <2>1. PICK q : q = Msg("OPWR", NextId, o)
    OBVIOUS
  <2>2. NextId \in Ids /\ NextId \notin allocated
    BY <1>2, NextIdFree
  <2>3. q \in Messages /\ q.tag = "OPWR" /\ q.tag \in Queries /\ q.id \notin allocated
    BY <2>1, <2>2 DEF Msg, Messages, Queries
  <2>4. want' = Closed
    BY <1>0, <1>2
  <2>5. UNCHANGED <<content, seen, table, fresh, allocated, inputs, outs, flushing, aborted, viewed, written, sought>>
    BY <1>2 DEF driver, ids
  <2>6. Fits(q)'
    BY <2>3, <2>4, <2>5, <1>0 DEF Fits, IsOpen
  <2>7. /\ outs' \in [Outputs -> Ids \cup {Closed}] /\ inputs' \in [Handles -> InputType \cup {Closed}]
    BY <2>5 DEF Inv, Typed
  <2> QED
    BY <2>1, <2>3, <2>4, <2>5, <2>6, <2>7, <1>0, <1>2, AskKeeps
<1> QED
  BY <1>1, <1>2 DEF OpenWrite

LEMMA CloseWriteKeeps ==
  ASSUME Inv, NEW o \in Outputs, CloseWrite(o)
  PROVE  Inv'
<1>0. todo = <<>> /\ want = Closed /\ aborted = "no" /\ outs[o] # Closed
  BY ReadyFacts DEF CloseWrite
<1>1. PICK q : q = Msg("CLOS", outs[o], 0)
  OBVIOUS
<1>2. outs \in [Outputs -> Ids \cup {Closed}] /\ inputs \in [Handles -> InputType \cup {Closed}]
  BY DEF Inv, Typed
<1>3. q \in Messages /\ q.tag = "CLOS" /\ q.tag \in Queries /\ q.id = outs[o]
  BY <1>0, <1>1, <1>2 DEF Msg, Messages, Queries
<1>4. want' = Closed /\ outs' = [outs EXCEPT ![o] = Closed] /\ Ask(q)
  BY <1>0, <1>1 DEF CloseWrite
<1>5. UNCHANGED <<content, seen, table, fresh, allocated, inputs, flushing, aborted, viewed, written, sought>>
  BY DEF CloseWrite, driver
<1>6. \A h \in Handles : IsOpen(h) => inputs[h].id # q.id
  BY <1>0, <1>3 DEF Inv, IdsInv
<1>7. Fits(q)'
  BY <1>3, <1>4, <1>5, <1>6 DEF Fits, IsOpen
<1>8. /\ outs' \in [Outputs -> Ids \cup {Closed}] /\ inputs' \in [Handles -> InputType \cup {Closed}]
      /\ \A p \in Outputs : outs'[p] \in {outs[p], Closed}
  BY <1>2, <1>4, <1>5
<1> QED
  BY <1>3, <1>4, <1>5, <1>7, <1>8, <1>0, AskKeeps

(* What is read from a buffer that is not outdated is what the file holds. *)
LEMMA SyncedHolds ==
  ASSUME Typed, BufInv, ~flushing, NEW h \in Handles, IsOpen(h)
  PROVE  LET i == Synced(inputs[h])
         IN /\ i \in InputType /\ i.used <= Len(i.buf) /\ Holds(i)
            /\ i.id = inputs[h].id /\ i.file = inputs[h].file /\ At(i) = At(inputs[h])
<1> DEFINE j == inputs[h]
<1>1. j \in InputType /\ j.used <= Len(j.buf)
  BY OpenInput
<1>2. CASE j.current
  <2>1. Synced(j) = j /\ Holds(j)
    BY <1>2 DEF Synced, BufInv
  <2> QED
    BY <1>1, <2>1
<1>3. CASE ~j.current
  <2>0. j.pos + j.used \in Nat /\ <<>> \in Seq(Data)
    BY <1>1 DEF InputType
  <2>1. /\ Synced(j) \in InputType /\ Synced(j).buf = <<>> /\ Synced(j).used = 0
        /\ Synced(j).pos = j.pos + j.used /\ Synced(j).file = j.file /\ Synced(j).id = j.id
    BY <1>1, <1>3, <2>0 DEF Synced, Emptied, At, InputType
  <2>2. Holds(Synced(j)) /\ Synced(j).used <= Len(Synced(j).buf)
    BY <2>1 DEF Holds
  <2>3. At(Synced(j)) = At(j)
    BY <2>0, <2>1 DEF At
  <2> QED
    BY <2>1, <2>2, <2>3
<1> QED
  BY <1>2, <1>3

(* What becomes known once bytes were obtained at pos *)
LEMMA ViewingShape ==
  ASSUME Typed, NEW h \in Handles, NEW pos \in Nat, NEW bytes \in Seq(Data),
         NEW f \in Files, f = inputs[h].file, Viewing(h, pos, bytes)
  PROVE  /\ DOMAIN viewed' = Files
         /\ \A g \in Files : g # f => viewed'[g] = viewed[g]
         /\ \A p \in DOMAIN viewed'[f] :
              \/ p \in DOMAIN viewed[f] /\ viewed'[f][p] = viewed[f][p]
              \/ bytes = <<>> /\ p = pos /\ viewed'[f][p] = Eof
              \/ /\ bytes # <<>> /\ p \in pos..(pos + Len(bytes) - 1)
                 /\ viewed'[f][p] = bytes[p - pos + 1]
<1> DEFINE there == IF bytes = <<>> THEN {pos} ELSE pos..(pos + Len(bytes) - 1)
           known == [p \in DOMAIN viewed[f] \cup there |->
                       IF p \notin there THEN viewed[f][p]
                       ELSE IF bytes = <<>> THEN Eof ELSE bytes[p - pos + 1]]
<1>1. viewed' = [viewed EXCEPT ![f] = known]
  BY Zenon DEF Viewing
<1>2. DOMAIN viewed = Files
  BY DEF Typed
<1> HIDE DEF known
<1>3. DOMAIN viewed' = Files /\ viewed'[f] = known /\ \A g \in Files : g # f => viewed'[g] = viewed[g]
  BY <1>1, <1>2
<1>4. \A p \in DOMAIN known :
              \/ p \in DOMAIN viewed[f] /\ known[p] = viewed[f][p]
              \/ bytes = <<>> /\ p = pos /\ known[p] = Eof
              \/ /\ bytes # <<>> /\ p \in pos..(pos + Len(bytes) - 1)
                 /\ known[p] = bytes[p - pos + 1]
  BY DEF known
<1> QED
  BY <1>3, <1>4

LEMMA Slice ==
  ASSUME NEW s \in Seq(Data), NEW a \in Nat, NEW n \in Nat, a + n <= Len(s)
  PROVE  /\ SubSeq(s, a + 1, a + n) \in Seq(Data) /\ Len(SubSeq(s, a + 1, a + n)) = n
         /\ n > 0 => SubSeq(s, a + 1, a + n) # <<>>
         /\ n = 0 => SubSeq(s, a + 1, a + n) = <<>>
         /\ \A k \in 1..n : SubSeq(s, a + 1, a + n)[k] = s[a + k]
<1>1. CASE n = 0
  BY <1>1
<1>2. CASE n > 0
  <2>1. Len(SubSeq(s, a + 1, a + n)) = n /\ SubSeq(s, a + 1, a + n) \in Seq(Data)
    BY <1>2
  <2>2. \A k \in 1..n : SubSeq(s, a + 1, a + n)[k] = s[a + k]
    BY <1>2
  <2> QED
    BY <1>2, <2>1, <2>2
<1> QED
  BY <1>1, <1>2

(* Some bytes of the buffer are taken. *)
LEMMA TakeKeeps ==
  ASSUME Inv, todo = <<>>, aborted = "no", NEW h \in Handles, IsOpen(h),
         NEW i, i = Synced(inputs[h]), NEW n \in Nat, n > 0, n <= Len(i.buf) - i.used,
         Take(h, i, n),
         want' \in WantType \cup {Closed},
         want' # Closed /\ want'.op = "more" => want'.h = h /\ want'.left >= 0
  PROVE  Inv'
<1>0. ~flushing /\ Typed /\ BufInv
  BY DEF Inv, FlushInv
<1>1. /\ i \in InputType /\ i.used <= Len(i.buf) /\ Holds(i)
      /\ i.id = inputs[h].id /\ i.file = inputs[h].file /\ At(i) = At(inputs[h])
  BY <1>0, SyncedHolds
<1>2. PICK f \in Files : f = inputs[h].file
  BY <1>1 DEF InputType
<1>3. /\ i.pos \in Nat /\ i.used \in Nat /\ i.buf \in Seq(Data) /\ Len(i.buf) \in Nat
      /\ i.id \in Ids /\ content[f] \in Seq(Data)
  BY <1>0, <1>1 DEF InputType, Typed
<1> DEFINE bytes == SubSeq(i.buf, i.used + 1, i.used + n)
           j == [i EXCEPT !.used = @ + n]
           r == Seen(client, i.id, At(i) + n)
<1>4. /\ bytes \in Seq(Data) /\ Len(bytes) = n /\ bytes # <<>>
      /\ \A k \in 1..n : bytes[k] = i.buf[i.used + k]
  <2>1. i.used + n <= Len(i.buf)
    BY <1>3
  <2>2. \A s \in Seq(Data), a \in Nat, m \in Nat : a + m <= Len(s) =>
          /\ SubSeq(s, a + 1, a + m) \in Seq(Data) /\ Len(SubSeq(s, a + 1, a + m)) = m
          /\ m > 0 => SubSeq(s, a + 1, a + m) # <<>>
          /\ \A k \in 1..m : SubSeq(s, a + 1, a + m)[k] = s[a + k]
    BY Slice
  <2>3. PICK b \in Seq(Data) : b = i.buf
    BY <1>3
  <2>4. PICK u \in Nat : u = i.used
    BY <1>3
  <2>5. u + n <= Len(b)
    BY <2>1, <2>3, <2>4
  <2>6. bytes = SubSeq(b, u + 1, u + n)
    BY <2>3, <2>4
  <2> HIDE DEF bytes
  <2>7. /\ bytes \in Seq(Data) /\ Len(bytes) = n /\ bytes # <<>>
        /\ \A k \in 1..n : bytes[k] = b[u + k]
    BY <2>2, <2>5, <2>6
  <2> QED
    BY <2>3, <2>4, <2>7
<1>5. /\ j \in InputType /\ j.used = i.used + n /\ j.used <= Len(j.buf) /\ j.buf = i.buf
      /\ j.id = i.id /\ j.file = i.file /\ j.pos = i.pos
  BY <1>1, <1>3, SMTT(30) DEF InputType
<1>6. /\ inputs' = [inputs EXCEPT ![h] = j] /\ Viewing(h, At(i), bytes) /\ Sending(r)
      /\ UNCHANGED <<content, seen, table, fresh, allocated, outs, flushing, aborted, written, sought>>
  BY DEF Take, Set, driver
<1>7. At(i) = i.pos + i.used /\ At(i) \in Nat /\ At(j) = At(i) + n
  BY <1>3, <1>5 DEF At
<1>8. Holds(j)
  BY <1>1, <1>5 DEF Holds
<1> HIDE DEF bytes, j, r
<1>9. Forwards(client, r) /\ r.client.seenFile = i.id /\ r.client.seenPos >= At(i) + n
  BY <1>0, <1>3, <1>7, SeenForwards DEF r, Typed
<1>10. client' = r.client /\ client'.seenPos \in Nat
  BY <1>6, <1>9 DEF Sending, Forwards, ClientType
<1>11. table'[client'.seenFile] = f
  BY <1>0, <1>1, <1>2, <1>6, <1>9, <1>10 DEF Inv, IdsInv
<1>12. \A x \in Int : x <= At(i) + n => Reported(f, x)'
  BY <1>7, <1>9, <1>10, <1>11 DEF Reported
<1>13. inputs \in [Handles -> InputType \cup {Closed}]
  BY <1>0 DEF Typed
<1>14. /\ inputs' \in [Handles -> InputType \cup {Closed}]
       /\ inputs'[h] = j /\ \A g \in Handles : g # h => inputs'[g] = inputs[g]
  BY <1>5, <1>6, <1>13
<1>15. Reported(inputs[h].file, At(inputs[h]))'
  <2>1. PICK x \in Int : x = At(i) + n
    BY <1>7
  <2>2. Reported(f, x)'
    BY <2>1, <1>12, <1>7
  <2>3. f = inputs'[h].file /\ x = At(inputs'[h])
    BY <2>1, <1>1, <1>2, <1>5, <1>7, <1>14
  <2> QED
    BY <2>2, <2>3
<1>16. Moved(h)
  <2>1. inputs'[h].id = inputs[h].id /\ inputs'[h].file = inputs[h].file /\ inputs'[h] \in InputType
    BY <1>1, <1>5, <1>14
  <2>2. f = inputs[h].file
    BY <1>2
  <2>3. Reported(inputs[h].file, At(inputs[h]))'
    BY <1>15
  <2> QED
    BY <2>1, <2>3, <1>8, <1>14 DEF Moved
<1>17. /\ DOMAIN viewed' = Files
       /\ \A g \in Files : g # f => viewed'[g] = viewed[g]
       /\ \A p \in DOMAIN viewed'[f] :
            \/ p \in DOMAIN viewed[f] /\ viewed'[f][p] = viewed[f][p]
            \/ p \in At(i)..(At(i) + Len(bytes) - 1) /\ viewed'[f][p] = bytes[p - At(i) + 1]
  <2>1. PICK pos \in Nat : pos = At(i)
    BY <1>7
  <2>2. PICK b \in Seq(Data) : b = bytes
    BY <1>4
  <2>3. b # <<>> /\ Viewing(h, pos, b)
    BY <2>1, <2>2, <1>4, <1>6
  <2>4. /\ DOMAIN viewed' = Files
        /\ \A g \in Files : g # f => viewed'[g] = viewed[g]
        /\ \A p \in DOMAIN viewed'[f] :
             \/ p \in DOMAIN viewed[f] /\ viewed'[f][p] = viewed[f][p]
             \/ p \in pos..(pos + Len(b) - 1) /\ viewed'[f][p] = b[p - pos + 1]
    BY <2>3, <1>0, <1>2, ViewingShape
  <2> HIDE DEF bytes
  <2> QED
    BY <2>1, <2>2, <2>4, Zenon
<1>18. ASSUME NEW p \in At(i)..(At(i) + Len(bytes) - 1)
       PROVE  /\ p \in Nat /\ p < Len(content[f]) /\ bytes[p - At(i) + 1] = content[f][p + 1]
              /\ Reported(f, p + 1)'
  <2>1. PICK k \in 1..n : k = p - At(i) + 1 /\ p \in Nat /\ p + 1 \in Int /\ p + 1 <= At(i) + n
    BY <1>4, <1>7
  <2>2. bytes[k] = i.buf[i.used + k] /\ i.used + k \in 1..Len(i.buf)
    BY <2>1, <1>3, <1>4, SMTT(30)
  <2>3. i.buf[i.used + k] = content[f][i.pos + (i.used + k)]
    BY <2>2, <1>1, <1>2 DEF Holds
  <2>4. i.pos + (i.used + k) = p + 1
    <3>1. \A a, u \in Nat, x \in Int : k = x - (a + u) + 1 => a + (u + k) = x + 1
      OBVIOUS
    <3>2. k = p - (i.pos + i.used) + 1 /\ p \in Int
      BY <2>1, <1>7
    <3> QED
      BY <3>1, <3>2, <1>3, SMTT(30)
  <2>5. i.buf # <<>>
    BY <1>3
  <2>6. i.pos + Len(i.buf) <= Len(content[f])
    BY <2>5, <1>1, <1>2 DEF Holds
  <2>7. p < Len(content[f])
    BY <2>2, <2>4, <2>6, <1>3, <2>1, SMTT(30)
  <2> QED
    BY <2>1, <2>2, <2>3, <2>4, <2>7, <1>12
<1>19. \A g \in Files : \A p \in DOMAIN viewed'[g] :
           \/ p \in DOMAIN viewed[g] /\ viewed'[g][p] = viewed[g][p]
           \/ /\ p \in Nat /\ p < Len(content[g]) /\ viewed'[g][p] = content[g][p + 1]
              /\ Reported(g, p + 1)'
  <2> SUFFICES ASSUME NEW g \in Files, NEW p \in DOMAIN viewed'[g]
               PROVE  \/ p \in DOMAIN viewed[g] /\ viewed'[g][p] = viewed[g][p]
                      \/ /\ p \in Nat /\ p < Len(content[g]) /\ viewed'[g][p] = content[g][p + 1]
                         /\ Reported(g, p + 1)'
    OBVIOUS
  <2>1. CASE g # f
    BY <2>1, <1>17
  <2>2. CASE g = f
    <3>1. CASE p \in DOMAIN viewed[f] /\ viewed'[f][p] = viewed[f][p]
      BY <3>1, <2>2
    <3>2. CASE p \in At(i)..(At(i) + Len(bytes) - 1) /\ viewed'[f][p] = bytes[p - At(i) + 1]
      <4>1. /\ p \in Nat /\ p < Len(content[f]) /\ bytes[p - At(i) + 1] = content[f][p + 1]
            /\ Reported(f, p + 1)'
        BY <3>2, <1>18
      <4> QED
        BY <4>1, <3>2, <2>2
    <3> QED
      BY <3>1, <3>2, <2>2, <1>17
  <2> QED
    BY <2>1, <2>2
<1>20. want' # Closed /\ want'.op = "more" => IsOpen(want.h)' /\ want'.left >= 0
  BY <1>5, <1>14, ClosedAssumption DEF IsOpen
<1>21. \A g \in Handles : \/ inputs'[g] = inputs[g]
                          \/ Moved(g) /\ inputs'[g].used <= Len(inputs'[g].buf)
  <2> TAKE g \in Handles
  <2>1. CASE g = h
    BY <2>1, <1>5, <1>14, <1>16
  <2>2. CASE g # h
    BY <2>2, <1>14
  <2> QED
    BY <2>1, <2>2
<1>22. written' \in [Outputs \cup {Stdout} -> Nat]
  BY <1>0, <1>6 DEF Typed
<1> QED
  BY <1>6, <1>9, <1>14, <1>17, <1>19, <1>20, <1>21, <1>22, SendKeeps

(* The buffer is used up: the next bytes are asked for. *)
LEMMA RefillKeeps ==
  ASSUME Inv, todo = <<>>, aborted = "no", NEW h \in Handles, IsOpen(h),
         NEW i, i = Synced(inputs[h]), i.used = Len(i.buf),
         NEW size \in Nat, NEW left \in Nat \cup {-1}, left # -1 => size = left,
         Refill(h, i, size, left)
  PROVE  Inv'
<1>0. ~flushing /\ Typed /\ BufInv
  BY DEF Inv, FlushInv
<1>1. /\ i \in InputType /\ i.id = inputs[h].id /\ i.file = inputs[h].file /\ At(i) = At(inputs[h])
  BY <1>0, SyncedHolds
<1>2. i.pos \in Nat /\ i.used \in Nat /\ i.id \in Ids /\ i.pos + Len(i.buf) \in Nat
  BY <1>1 DEF InputType
<1> DEFINE j == Refilling(i)
<1>3. /\ j \in InputType /\ j.buf = <<>> /\ j.used = 0 /\ j.pos = i.pos + Len(i.buf)
      /\ j.id = i.id /\ j.file = i.file
  BY <1>1, <1>2, <<>> \in Seq(Data) DEF Refilling, Emptied, InputType
<1>4. At(j) = At(i) /\ Holds(j) /\ j.used <= Len(j.buf)
  BY <1>2, <1>3 DEF At, Holds
<1>5. PICK q : q = Msg("READ", i.id, size)
  OBVIOUS
<1>6. /\ inputs' = [inputs EXCEPT ![h] = j] /\ Ask(q)
      /\ want' = [op |-> IF left = -1 THEN "getc" ELSE "read", h |-> h, left |-> left]
      /\ UNCHANGED <<content, seen, table, fresh, allocated, outs, flushing, aborted, viewed, written, sought>>
  BY <1>5 DEF Refill, Set, driver, history
<1> HIDE DEF j
<1>7. inputs \in [Handles -> InputType \cup {Closed}] /\ outs \in [Outputs -> Ids \cup {Closed}]
  BY <1>0 DEF Typed
<1>8. /\ inputs' \in [Handles -> InputType \cup {Closed}] /\ inputs'[h] = j
      /\ \A g \in Handles : g # h => inputs'[g] = inputs[g]
  BY <1>3, <1>6, <1>7
<1>9. Stayed(h)
  BY <1>1, <1>3, <1>4, <1>8 DEF Stayed
<1>10. \A g \in Handles : inputs'[g] = inputs[g] \/ Stayed(g)
  BY <1>8, <1>9
<1>11. want' \in WantType /\ want'.op \in {"getc", "read"} /\ want'.h = h /\ want'.left = left
       /\ (want'.op = "read" => left # -1)
  BY <1>6 DEF WantType
<1>12. q \in Messages /\ q.tag = "READ" /\ q.tag \in Queries /\ q.id = i.id /\ q.arg = size
  BY <1>2, <1>5 DEF Msg, Messages, Queries
<1>13. want' # Closed /\ IsOpen(h)'
  BY <1>3, <1>8, <1>11, ClosedAssumption DEF IsOpen
<1>14. IsOpen(want.h)' /\ inputs'[want'.h] = j
  BY <1>8, <1>11, <1>13 DEF IsOpen
<1>15. Fits(q)'
  BY <1>3, <1>11, <1>12, <1>13, <1>14 DEF Fits
<1>16. /\ outs' \in [Outputs -> Ids \cup {Closed}] /\ \A o \in Outputs : outs'[o] \in {outs[o], Closed}
       /\ want' \in WantType \cup {Closed} /\ (want' # Closed => want'.op # "more")
  BY <1>6, <1>7, <1>11
<1> QED
  BY <1>6, <1>8, <1>10, <1>12, <1>15, <1>16, AskKeeps

LEMMA GetCKeeps ==
  ASSUME Inv, NEW h \in Handles, GetC(h)
  PROVE  Inv'
<1>0. todo = <<>> /\ want = Closed /\ aborted = "no" /\ IsOpen(h)
  BY ReadyFacts DEF GetC
<1>1. ~flushing /\ Typed /\ BufInv
  BY <1>0 DEF Inv, FlushInv
<1>2. PICK i : i = Synced(inputs[h])
  OBVIOUS
<1>3. i \in InputType /\ i.used <= Len(i.buf)
  BY <1>0, <1>1, <1>2, SyncedHolds
<1>4. CASE i.used < Len(i.buf) /\ Take(h, i, 1) /\ UNCHANGED want
  <2>1. 1 <= Len(i.buf) - i.used
    BY <1>3, <1>4 DEF InputType
  <2> QED
    BY <2>1, <1>0, <1>2, <1>4, TakeKeeps
<1>5. CASE i.used = Len(i.buf) /\ Refill(h, i, BufSize, -1)
  <2>1. BufSize \in Nat
    BY WorkerIOAssumption
  <2>2. -1 \in Nat \cup {-1}
    OBVIOUS
  <2> QED
    BY <2>1, <2>2, <1>0, <1>2, <1>5, RefillKeeps
<1> QED
  BY <1>2, <1>4, <1>5 DEF GetC

LEMMA InternalReadKeeps ==
  ASSUME Inv, todo = <<>>, aborted = "no", NEW h \in Handles, IsOpen(h), NEW left \in Nat,
         InternalRead(h, left)
  PROVE  Inv'
<1>1. ~flushing /\ Typed /\ BufInv
  BY DEF Inv, FlushInv
<1>2. PICK i : i = Synced(inputs[h])
  OBVIOUS
<1>3. /\ i \in InputType /\ i.used <= Len(i.buf) /\ Holds(i)
      /\ i.id = inputs[h].id /\ i.file = inputs[h].file /\ At(i) = At(inputs[h])
  BY <1>1, <1>2, SyncedHolds
<1>4. i.used \in Nat /\ Len(i.buf) \in Nat /\ i.pos \in Nat /\ i.id \in Ids
  BY <1>3 DEF InputType
<1>5. PICK n : n = Min({left, Len(i.buf) - i.used})
  OBVIOUS
<1>6. n \in Nat /\ n <= left /\ n <= Len(i.buf) - i.used
  <2>1. Len(i.buf) - i.used \in Int /\ Len(i.buf) - i.used >= 0
    BY <1>3, <1>4
  <2>2. n = IF left <= Len(i.buf) - i.used THEN left ELSE Len(i.buf) - i.used
    BY <2>1, <1>5, MinOfTwo
  <2> QED
    BY <2>1, <2>2
<1>7. CASE n > 0 /\ Take(h, i, n) /\ want' = [op |-> "more", h |-> h, left |-> left - n]
  <2>1. left - n \in Nat
    BY <1>6
  <2>2. want' \in WantType /\ want'.op = "more" /\ want'.h = h /\ want'.left = left - n
    BY <2>1, <1>7 DEF WantType
  <2> QED
    BY <2>1, <2>2, <1>2, <1>6, <1>7, TakeKeeps
<1>8. CASE /\ i.used < Len(i.buf) /\ n = 0
           /\ Set(h, i)
           /\ Sending(Seen(client, i.id, At(i)))
           /\ want' = Closed
           /\ UNCHANGED <<driver, allocated, outs, flushing, aborted, history>>
  <2>1. PICK r : r = Seen(client, i.id, At(i))
    OBVIOUS
  <2>2. At(i) \in Nat
    BY <1>4 DEF At
  <2>3. Forwards(client, r) /\ Sending(r)
    BY <2>1, <2>2, <1>1, <1>4, <1>8, SeenForwards DEF Typed
  <2>4. /\ inputs' = [inputs EXCEPT ![h] = i]
        /\ UNCHANGED <<content, seen, table, fresh, allocated, outs, flushing, aborted, viewed, written, sought>>
    BY <1>8 DEF Set, driver, history
  <2>5. inputs \in [Handles -> InputType \cup {Closed}]
    BY <1>1 DEF Typed
  <2>6. /\ inputs' \in [Handles -> InputType \cup {Closed}] /\ inputs'[h] = i
        /\ \A g \in Handles : g # h => inputs'[g] = inputs[g]
    BY <2>4, <2>5, <1>3
  <2>7. Stayed(h)
    BY <2>6, <1>3 DEF Stayed
  <2>8. \A f : \A x \in Int : Reported(f, x) => Reported(f, x)'
    BY <2>3, <2>4, <1>1, SendReports
  <2>9. Moved(h)
    BY <2>4, <2>7, <2>8, StayedMoved
  <2>10. \A g \in Handles : \/ inputs'[g] = inputs[g]
                            \/ Moved(g) /\ inputs'[g].used <= Len(inputs'[g].buf)
    BY <2>6, <2>9, <1>3
  <2>11. written' \in [Outputs \cup {Stdout} -> Nat] /\ DOMAIN viewed' = Files
    BY <2>4, <1>1 DEF Typed
  <2>12. \A f \in Files : \A p \in DOMAIN viewed'[f] : p \in DOMAIN viewed[f] /\ viewed'[f][p] = viewed[f][p]
    BY <2>4
  <2> QED
    BY <2>3, <2>4, <2>6, <2>10, <2>11, <2>12, <1>8, SendKeeps
<1>9. CASE i.used = Len(i.buf) /\ Refill(h, i, left, left)
  BY <1>2, <1>9, RefillKeeps
<1> QED
  BY <1>2, <1>5, <1>7, <1>8, <1>9, Zenon DEF InternalRead

LEMMA ReadKeeps ==
  ASSUME Inv, NEW h \in Handles, NEW n \in Reads, Read(h, n)
  PROVE  Inv'
<1>1. n \in Nat
  BY WorkerIOAssumption
<1> QED
  BY <1>1, ReadyFacts, InternalReadKeeps DEF Read

LEMMA ReadMoreKeeps ==
  ASSUME Inv, ReadMore
  PROVE  Inv'
<1>1. want # Closed /\ want.op = "more" /\ todo = <<>> /\ InternalRead(want.h, want.left)
  BY DEF ReadMore
<1>2. aborted = "no"
  BY <1>1 DEF Inv, Ended
<1>3. want \in WantType /\ IsOpen(want.h) /\ want.left >= 0
  BY <1>1 DEF Inv, Typed, TodoInv
<1>4. PICK h \in Handles : h = want.h
  BY <1>3 DEF WantType
<1>5. PICK left \in Nat : left = want.left
  BY <1>3 DEF WantType
<1> QED
  BY <1>1, <1>2, <1>3, <1>4, <1>5, InternalReadKeeps

(* A move of the position that reads nothing *)
LEMMA JumpKeeps ==
  ASSUME Inv, todo = <<>>, want = Closed, aborted = "no", NEW h \in Handles, IsOpen(h),
         NEW j \in InputType, j.id = inputs[h].id, j.file = inputs[h].file,
         j.used <= Len(j.buf), j.current => Holds(j),
         inputs' = [inputs EXCEPT ![h] = j], sought \subseteq sought',
         h \in sought' \/ (h \notin sought /\ At(j) <= At(inputs[h])),
         UNCHANGED <<content, seen, table, fresh, allocated, outs, client, todo, want, flushing,
                     aborted, viewed, written>>
  PROVE  Inv'
<1>0. Typed
  BY DEF Inv
<1>1. inputs \in [Handles -> InputType \cup {Closed}]
  BY <1>0 DEF Typed
<1>2. /\ inputs' \in [Handles -> InputType \cup {Closed}] /\ inputs'[h] = j
      /\ \A g \in Handles : g # h => inputs'[g] = inputs[g]
  BY <1>1
<1>3. \A f : \A n \in Int : Reported(f, n) => Reported(f, n)'
  BY DEF Reported
<1>4. \A g \in Handles : IsOpen(g)' => inputs'[g].used <= Len(inputs'[g].buf)
  BY <1>0, <1>2 DEF Typed, IsOpen
<1>5. Typed'
  BY <1>0, <1>2, <1>4 DEF Typed
<1>6. TodoInv'
  BY DEF TodoInv, Orderly
<1>7. h \notin sought' => Reported(inputs[h].file, At(inputs[h]))'
  <2> SUFFICES ASSUME h \notin sought' PROVE Reported(inputs[h].file, At(inputs[h]))'
    OBVIOUS
  <2>1. Reported(inputs[h].file, At(inputs[h])) /\ At(j) <= At(inputs[h])
    BY DEF Inv, SeenInv
  <2>2. At(inputs[h]) \in Int /\ At(j) \in Int
    BY <1>0, OpenInput DEF InputType, At
  <2>3. PICK f : f = inputs[h].file
    OBVIOUS
  <2>4. PICK n \in Int : n = At(inputs[h])
    BY <2>2
  <2>5. PICK m \in Int : m = At(j)
    BY <2>2
  <2>6. Reported(f, n) /\ m <= n
    BY <2>1, <2>3, <2>4, <2>5
  <2>7. /\ seen[f] \in Int /\ client.seenPos \in Int
        /\ todo = <<>>
    BY <1>0, <2>3, OpenInput DEF Typed, InputType, ClientType
  <2>8. Reported(f, m)'
    BY <2>6, <2>7 DEF Reported
  <2>9. f = inputs'[h].file /\ m = At(inputs'[h])
    BY <2>3, <2>5, <1>2
  <2> QED
    BY <2>8, <2>9
<1>8. Moved(h)
  BY <1>2, <1>7 DEF Moved
<1>9. \A g \in Handles : inputs'[g] = inputs[g] \/ Moved(g)
  BY <1>2, <1>8
<1>10. \A o \in Outputs : outs'[o] \in {outs[o], Closed}
  OBVIOUS
<1>11. \A f \in Files : \A p \in DOMAIN viewed'[f] : p \in DOMAIN viewed[f] /\ viewed'[f][p] = viewed[f][p]
  OBVIOUS
<1> QED
  BY <1>3, <1>5, <1>6, <1>9, <1>10, <1>11, CallKeeps

LEMMA SeekKeeps ==
  ASSUME Inv, NEW h \in Handles, NEW ofs \in Nat, Seek(h, ofs)
  PROVE  Inv'
<1>0. todo = <<>> /\ want = Closed /\ aborted = "no" /\ IsOpen(h)
  BY ReadyFacts DEF Seek
<1>1. ~flushing /\ Typed /\ BufInv
  BY <1>0 DEF Inv, FlushInv
<1>2. PICK i : i = inputs[h]
  OBVIOUS
<1>3. i \in InputType /\ i.used <= Len(i.buf) /\ (i.current => Holds(i))
  BY <1>0, <1>1, <1>2, OpenInput DEF BufInv
<1>4. PICK j : j = IF ofs - i.pos \in 1..Len(i.buf) THEN [i EXCEPT !.used = ofs - i.pos]
                                                   ELSE Emptied(i, ofs)
  OBVIOUS
<1>5. /\ j \in InputType /\ j.id = i.id /\ j.file = i.file /\ j.used <= Len(j.buf)
      /\ j.current => Holds(j)
  <2>1. CASE ofs - i.pos \in 1..Len(i.buf)
    <3>1. j = [i EXCEPT !.used = ofs - i.pos] /\ ofs - i.pos \in Nat /\ ofs - i.pos <= Len(i.buf)
      BY <2>1, <1>3, <1>4 DEF InputType
    <3>2. /\ j \in InputType /\ j.id = i.id /\ j.file = i.file /\ j.buf = i.buf /\ j.pos = i.pos
          /\ j.used = ofs - i.pos /\ j.current = i.current
      BY <3>1, <1>3 DEF InputType
    <3> QED
      BY <3>1, <3>2, <1>3 DEF Holds
  <2>2. CASE ~(ofs - i.pos \in 1..Len(i.buf))
    <3>1. j = Emptied(i, ofs)
      BY <2>2, <1>4
    <3>2. /\ j \in InputType /\ j.id = i.id /\ j.file = i.file /\ j.buf = <<>> /\ j.used = 0
      BY <3>1, <1>3, <<>> \in Seq(Data) DEF InputType, Emptied
    <3> QED
      BY <3>2 DEF Holds
  <2> QED
    BY <2>1, <2>2
<1>6. inputs' = [inputs EXCEPT ![h] = j] /\ sought' = sought \cup {h}
  BY <1>2, <1>4 DEF Seek, Set
<1>7. UNCHANGED <<content, seen, table, fresh, allocated, outs, client, todo, want, flushing,
                  aborted, viewed, written>>
  BY DEF Seek, driver, call
<1> QED
  BY <1>0, <1>2, <1>5, <1>6, <1>7, JumpKeeps

LEMMA SeekEndKeeps ==
  ASSUME Inv, NEW h \in Handles, SeekEnd(h)
  PROVE  Inv'
<1>1. IsOpen(h) /\ inputs[h].size # -1 /\ Seek(h, inputs[h].size)
  BY DEF SeekEnd
<1>2. PICK ofs \in Nat : ofs = inputs[h].size
  BY <1>1, OpenInput DEF Inv, InputType
<1> QED
  BY <1>1, <1>2, SeekKeeps

LEMMA UngetcKeeps ==
  ASSUME Inv, NEW h \in Handles, Ungetc(h)
  PROVE  Inv'
<1>0. todo = <<>> /\ want = Closed /\ aborted = "no" /\ IsOpen(h) /\ inputs[h].used > 0
  BY ReadyFacts DEF Ungetc
<1>1. ~flushing /\ Typed /\ BufInv
  BY <1>0 DEF Inv, FlushInv
<1>2. PICK i : i = inputs[h]
  OBVIOUS
<1>3. i \in InputType /\ i.used <= Len(i.buf) /\ (i.current => Holds(i))
  BY <1>0, <1>1, <1>2, OpenInput DEF BufInv
<1>4. PICK j : j = [i EXCEPT !.used = @ - 1]
  OBVIOUS
<1>5. i.used \in Nat /\ i.used - 1 \in Nat /\ i.pos \in Nat /\ Len(i.buf) \in Nat
  BY <1>0, <1>2, <1>3 DEF InputType
<1>6. /\ j \in InputType /\ j.id = i.id /\ j.file = i.file /\ j.buf = i.buf /\ j.pos = i.pos
      /\ j.used = i.used - 1 /\ j.current = i.current
  BY <1>3, <1>4, <1>5 DEF InputType
<1>7. j.used <= Len(j.buf) /\ At(j) <= At(i) /\ (j.current => Holds(j))
  BY <1>3, <1>5, <1>6, SMTT(30) DEF Holds, At
<1>8. inputs' = [inputs EXCEPT ![h] = j] /\ sought' = sought
  BY <1>2, <1>4 DEF Ungetc, Set
<1>9. UNCHANGED <<content, seen, table, fresh, allocated, outs, client, todo, want, flushing,
                  aborted, viewed, written>>
  BY DEF Ungetc, driver, call
<1> QED
  BY <1>0, <1>2, <1>6, <1>7, <1>8, <1>9, JumpKeeps

(* A call on an output sends data, or nothing yet. *)
LEMMA OutputKeeps ==
  ASSUME Inv, Ready, NEW r, Forwards(client, r), Sending(r),
         UNCHANGED <<driver, ids, want, flushing, aborted, viewed, sought>>,
         written' \in [Outputs \cup {Stdout} -> Nat]
  PROVE  Inv'
<1>1. todo = <<>> /\ want = Closed /\ aborted = "no"
  BY ReadyFacts
<1>2. UNCHANGED <<content, seen, table, fresh, allocated, inputs, outs, want, flushing, aborted, viewed, sought>>
  BY DEF driver, ids
<1>3. inputs' \in [Handles -> InputType \cup {Closed}] /\ DOMAIN viewed' = Files
  BY <1>2 DEF Inv, Typed
<1>4. \A f \in Files : \A p \in DOMAIN viewed'[f] : p \in DOMAIN viewed[f] /\ viewed'[f][p] = viewed[f][p]
  BY <1>2
<1> QED
  BY <1>1, <1>2, <1>3, <1>4, SendKeeps

LEMMA WroteType ==
  ASSUME Typed, NEW o \in Outputs \cup {Stdout}, NEW n \in Nat, Wrote(o, n)
  PROVE  written[o] \in Nat /\ written' \in [Outputs \cup {Stdout} -> Nat]
BY DEF Typed, Wrote

LEMMA IdOfType ==
  ASSUME Typed, NEW o \in Outputs \cup {Stdout}, NEW n, Writable(o, n)
  PROVE  IdOf(o) \in Ids \cup {-1}
BY DEF Typed, Writable, IdOf

LEMMA PutCKeeps ==
  ASSUME Inv, NEW o \in Outputs \cup {Stdout}, PutC(o)
  PROVE  Inv'
<1>1. Typed /\ Writable(o, 1) /\ Wrote(o, 1)
  BY DEF Inv, PutC
<1>2. PICK r : r = PutTo(client, IdOf(o), written[o] + 1)
  OBVIOUS
<1>3. PICK id \in Ids \cup {-1} : id = IdOf(o)
  BY <1>1, IdOfType
<1>4. written[o] \in Nat /\ written' \in [Outputs \cup {Stdout} -> Nat]
  BY <1>1, WroteType
<1>5. PICK byte \in Nat : byte = written[o] + 1
  BY <1>4
<1>6. client \in ClientType /\ FitsClient(client)
  BY <1>1 DEF Typed
<1>7. Forwards(client, r)
  BY <1>2, <1>3, <1>5, <1>6, PutForwards
<1> QED
  BY <1>1, <1>2, <1>4, <1>7, OutputKeeps DEF PutC, Writable

LEMMA WriteKeeps ==
  ASSUME Inv, NEW o \in Outputs \cup {Stdout}, NEW n \in Writes, Write(o, n)
  PROVE  Inv'
<1>0. n \in Nat
  BY WorkerIOAssumption
<1>1. Typed /\ Writable(o, n) /\ Wrote(o, n)
  BY DEF Inv, Write
<1>2. PICK r : r = AppendTo(client, IdOf(o), NextBytes(o, n))
  OBVIOUS
<1>3. PICK id \in Ids \cup {-1} : id = IdOf(o)
  BY <1>1, IdOfType
<1>4. written[o] \in Nat /\ written' \in [Outputs \cup {Stdout} -> Nat]
  BY <1>0, <1>1, WroteType
<1>5. NextBytes(o, n) \in Seq(Nat)
  BY <1>0, <1>4 DEF NextBytes
<1>6. PICK data \in Seq(Nat) : data = NextBytes(o, n)
  BY <1>5
<1>7. client \in ClientType /\ FitsClient(client)
  BY <1>1 DEF Typed
<1>8. Forwards(client, r)
  BY <1>2, <1>3, <1>6, <1>7, AppendForwards
<1> QED
  BY <1>1, <1>2, <1>4, <1>8, OutputKeeps DEF Write, Writable

LEMMA FlushKeeps ==
  ASSUME Inv, Flush
  PROVE  Inv'
<1>1. Typed
  BY DEF Inv
<1>2. PICK r : r = Flushing(client, Flushed(client))
  OBVIOUS
<1>3. client \in ClientType /\ FitsClient(client)
  BY <1>1 DEF Typed
<1>4. Flushed(client) \in ClientType /\ FitsClient(Flushed(client))
  BY <1>3, FlushedType
<1>5. Forwards(client, r)
  BY <1>2, <1>3, <1>4, FlushingForwards
<1>6. written' \in [Outputs \cup {Stdout} -> Nat]
  BY <1>1 DEF Flush, Typed
<1> QED
  BY <1>2, <1>5, <1>6, OutputKeeps DEF Flush

-----------------------------------------------------------------------------
(* Answers of the driver *)

(* A query that is answered is the last message, that of the call in       *)
(* progress, and there is nothing to report.                               *)
LEMMA QueryFacts ==
  ASSUME Inv, todo # <<>>, Head(todo).tag \in Queries
  PROVE  /\ client.seenPos = 0 /\ Fits(Head(todo)) /\ Head(todo) \in Messages
         /\ Tail(todo) = <<>> /\ aborted = "no" /\ todo[1] = Head(todo)
         /\ \A f, n : Reported(f, n) => seen[f] >= n
<1>1. todo \in Seq(Messages) /\ Len(todo) \in Nat /\ Len(todo) # 0
  BY DEF Inv, Typed
<1>2. Head(todo) = todo[1] /\ todo[1] \in Messages /\ 1 \in 1..Len(todo)
  BY <1>1
<1>3. Len(todo) = 1 /\ client.seenPos = 0 /\ Fits(todo[1])
  BY <1>2 DEF Inv, TodoInv, Orderly
<1>4. Tail(todo) = <<>>
  <2>1. Tail(todo) \in Seq(Messages) /\ Len(Tail(todo)) = 0
    BY <1>1, <1>3
  <2>2. PICK s \in Seq(Messages) : s = Tail(todo) /\ Len(s) = 0
    BY <2>1
  <2> QED
    BY <2>2
<1>5. aborted = "no"
  BY DEF Inv, Ended
<1>6. todo[1].tag # "SEEN"
  BY <1>2 DEF Queries
<1>7. \A f, n : Reported(f, n) => seen[f] >= n
  BY <1>3, <1>6 DEF Reported
<1> QED
  BY <1>2, <1>3, <1>4, <1>5, <1>7

LEMMA FitsKept ==
  ASSUME Typed, NEW m, Fits(m), want' = want, allocated' = allocated,
         \A h \in Handles : /\ IsOpen(h) <=> IsOpen(h)'
                            /\ IsOpen(h) => /\ inputs'[h].id = inputs[h].id
                                            /\ inputs'[h].buf = inputs[h].buf
                                            /\ inputs'[h].used = inputs[h].used
  PROVE  Fits(m)'
<1>1. CASE want = Closed
  BY <1>1 DEF Fits
<1>2. CASE want # Closed
  <2>1. PICK h \in Handles : h = want.h
    BY <1>2 DEF Typed, WantType
  <2>2. /\ IsOpen(want.h) <=> IsOpen(want.h)'
        /\ IsOpen(want.h) => /\ inputs'[want.h].id = inputs[want.h].id
                             /\ inputs'[want.h].buf = inputs[want.h].buf
                             /\ inputs'[want.h].used = inputs[want.h].used
    <3>1. IsOpen(want.h)' <=> IsOpen(h)'
      BY <2>1 DEF IsOpen
    <3> QED
      BY <2>1, <3>1
  <2> QED
    BY <1>2, <2>2 DEF Fits
<1> QED
  BY <1>1, <1>2

(* A message that needs no answer was handled. *)
LEMMA TailTodo ==
  ASSUME Typed, TodoInv, todo # <<>>, todo' = Tail(todo), client' = client, want' = want,
         allocated' = allocated,
         \A h \in Handles : /\ IsOpen(h) <=> IsOpen(h)'
                            /\ IsOpen(h) => /\ inputs'[h].id = inputs[h].id
                                            /\ inputs'[h].buf = inputs[h].buf
                                            /\ inputs'[h].used = inputs[h].used
  PROVE  TodoInv' /\ todo' \in Seq(Messages)
<1>1. /\ todo' \in Seq(Messages) /\ Orderly'
      /\ \A k \in 1..Len(todo') : k + 1 \in 1..Len(todo) /\ todo'[k] = todo[k + 1]
  BY TailSends
<1>2. ASSUME NEW k \in 1..Len(todo'), todo'[k].tag \in Queries
      PROVE  Fits(todo[k])'
  <2>1. PICK m : m = todo'[k]
    OBVIOUS
  <2>2. Fits(m)
    BY <2>1, <1>1, <1>2 DEF TodoInv
  <2>3. Fits(m)'
    BY <2>2, FitsKept
  <2> QED
    BY <2>1, <2>3
<1>3. want' # Closed /\ want'.op = "more" => IsOpen(want.h)' /\ want'.left >= 0
  <2> SUFFICES ASSUME want # Closed, want.op = "more" PROVE IsOpen(want.h)' /\ want.left >= 0
    OBVIOUS
  <2>1. PICK h \in Handles : h = want.h
    BY DEF Typed, WantType
  <2>2. IsOpen(h)'
    BY <2>1 DEF TodoInv
  <2> QED
    BY <2>1, <2>2 DEF TodoInv, IsOpen
<1> QED
  BY <1>1, <1>2, <1>3 DEF TodoInv

(* What is known, and where inputs are, is still reported. *)
LEMMA SeenKept ==
  ASSUME Typed, SeenInv, aborted = "no",
         \A f \in Files : \A n \in Int : Reported(f, n) => Reported(f, n)',
         \A f \in Files : \A p \in DOMAIN viewed'[f] :
           \/ p \in DOMAIN viewed[f] /\ viewed'[f][p] = viewed[f][p]
           \/ Reported(f, IF viewed[f][p] = Eof THEN p ELSE p + 1)',
         \A h \in Handles \ sought' : IsOpen(h)' =>
           \/ /\ IsOpen(h) /\ h \notin sought
              /\ inputs'[h].file = inputs[h].file /\ At(inputs'[h]) = At(inputs[h])
           \/ Reported(inputs[h].file, At(inputs[h]))'
  PROVE  SeenInv'
<1>1. ASSUME NEW f \in Files, NEW p \in DOMAIN viewed'[f]
      PROVE  Reported(f, IF viewed[f][p] = Eof THEN p ELSE p + 1)'
  <2>1. CASE p \in DOMAIN viewed[f] /\ viewed'[f][p] = viewed[f][p]
    <3>0. p \in Nat
      BY <2>1 DEF Typed
    <3>1. PICK n \in Int : n = IF viewed[f][p] = Eof THEN p ELSE p + 1
      BY <3>0
    <3>2. Reported(f, n)
      BY <2>1, <3>1 DEF SeenInv
    <3>3. Reported(f, n)'
      BY <3>2
    <3>4. n = IF viewed'[f][p] = Eof THEN p ELSE p + 1
      BY <2>1, <3>1
    <3> QED
      BY <3>3, <3>4
  <2> QED
    BY <1>1, <2>1
<1>2. ASSUME NEW h \in Handles \ sought', IsOpen(h)'
      PROVE  Reported(inputs[h].file, At(inputs[h]))'
  <2>1. CASE /\ IsOpen(h) /\ h \notin sought
             /\ inputs'[h].file = inputs[h].file /\ At(inputs'[h]) = At(inputs[h])
    <3>1. At(inputs[h]) \in Int /\ inputs[h].file \in Files
      BY <2>1, OpenInput DEF InputType, At
    <3>2. PICK n \in Int : n = At(inputs[h])
      BY <3>1
    <3>3. PICK f \in Files : f = inputs[h].file
      BY <3>1
    <3>4. Reported(f, n)
      BY <2>1, <3>2, <3>3 DEF SeenInv
    <3>5. Reported(f, n)'
      BY <3>4
    <3>6. f = inputs'[h].file /\ n = At(inputs'[h])
      BY <2>1, <3>2, <3>3
    <3> QED
      BY <3>5, <3>6
  <2> QED
    BY <1>2, <2>1
<1> QED
  BY <1>1, <1>2 DEF SeenInv

LEMMA AnswerSeenKeeps ==
  ASSUME Inv, AnswerSeen
  PROVE  Inv'
<1>1. CASE Die("closed")
  BY <1>1, DieKeeps
<1>2. CASE /\ table[Head1.id] # Closed
           /\ seen' = [seen EXCEPT ![table[Head1.id]] = Max({@, Head1.arg})]
           /\ todo' = Tail(todo)
           /\ UNCHANGED <<content, received, table, fresh, ids, client, want, flushing,
                          aborted, history>>
  <2>0. Typed /\ todo # <<>> /\ Head1 = Head(todo) /\ Head(todo).tag = "SEEN" /\ aborted = "no"
    BY DEF AnswerSeen, Answering, Head1, Inv, Ended
  <2>1. UNCHANGED <<content, table, fresh, allocated, inputs, outs, client, want, flushing, aborted,
                    viewed, written, sought>>
    BY <1>2 DEF ids, history
  <2>2. Head(todo) = todo[1] /\ todo[1] \in Messages
    BY <1>2, <2>0, <2>1, TailSends DEF Inv
  <2>3. PICK m : m = Head1
    OBVIOUS
  <2>4. m.id \in Ids /\ m.arg \in Nat /\ m = todo[1]
    BY <2>0, <2>2, <2>3 DEF Messages
  <2>5. seen \in [Files -> Nat \cup {-1}]
    BY <2>0 DEF Typed
  <2>6. \A f \in Files : /\ seen'[f] \in Nat \cup {-1} /\ seen'[f] >= seen[f]
                         /\ f = table[m.id] => seen'[f] >= m.arg
    <3> TAKE f \in Files
    <3>1. CASE f = table[m.id]
      <4>1. seen'[f] = Max({seen[f], m.arg})
        BY <1>2, <2>3, <2>5, <3>1
      <4> QED
        BY <4>1, <2>4, <2>5, MaxOfTwo
    <3>2. CASE f # table[m.id]
      <4>1. seen'[f] = seen[f]
        BY <1>2, <2>3, <2>5, <3>2
      <4> QED
        BY <4>1, <2>5, <3>2
    <3> QED
      BY <3>1, <3>2
  <2>7. seen' \in [Files -> Nat \cup {-1}]
    BY <1>2, <2>5, <2>6
  <2>8. \A h \in Handles : IsOpen(h) <=> IsOpen(h)'
    BY <2>1 DEF IsOpen
  <2>9. TodoInv' /\ todo' \in Seq(Messages)
    BY <1>2, <2>0, <2>1, <2>8, TailTodo DEF Inv
  <2>10. Typed'
    BY <2>0, <2>1, <2>7, <2>9 DEF Typed, IsOpen
  <2>11. Ended' /\ FlushInv'
    BY <2>0, <2>1, <2>2 DEF Inv, Ended, FlushInv
  <2>12. IdsInv'
    BY <2>0, <2>1, <2>5, <2>6, <2>8, IdsKept DEF Inv
  <2>13. BufInv'
    BY <2>1 DEF Inv, BufInv, Holds, IsOpen
  <2>14. ASSUME NEW f \in Files, NEW n \in Int, Reported(f, n)
         PROVE  Reported(f, n)'
    <3>1. seen'[f] \in Int /\ seen[f] \in Int /\ seen'[f] >= seen[f]
      BY <2>5, <2>6
    <3>2. CASE seen[f] >= n
      BY <3>1, <3>2 DEF Reported
    <3>3. CASE client.seenPos > 0 /\ client.seenPos >= n /\ table[client.seenFile] = f
      BY <2>1, <3>3 DEF Reported
    <3>4. CASE todo[1].arg >= n /\ table[todo[1].id] = f
      <4>1. seen'[f] >= m.arg /\ m.arg >= n
        BY <2>4, <2>6, <3>4
      <4>2. seen'[f] >= n
        BY <4>1, <3>1, <2>4
      <4> QED
        BY <4>2 DEF Reported
    <3> QED
      BY <2>14, <3>2, <3>3, <3>4 DEF Reported
  <2>15. SeenInv'
    BY <2>0, <2>1, <2>8, <2>14, SeenKept DEF Inv
  <2>16. (Interrupts \/ ObservedCurrent)'
    BY <2>1 DEF Inv, ObservedCurrent
  <2> QED
    BY <2>9, <2>10, <2>11, <2>12, <2>13, <2>15, <2>16 DEF Inv
<1> QED
  BY <1>1, <1>2 DEF AnswerSeen

(* After a FLSH, the inputs that are current hold what the files hold. *)
LEMMA ToldHolds ==
  ASSUME Typed, BufInv, NEW h \in Handles, IsOpen(h), Told[h].current
  PROVE  Holds(Told[h])
BY ToldSame DEF BufInv

LEMMA AnswerAppendKeeps ==
  ASSUME Inv, AnswerAppend
  PROVE  Inv'
<1>1. CASE Die("closed")
  BY <1>1, DieKeeps
<1>2. CASE /\ Answered
           /\ inputs' = Told
           /\ UNCHANGED <<content, seen, table, fresh, allocated, outs, client, want,
                          aborted, history>>
  <2>0. Typed /\ todo # <<>> /\ Head1 = Head(todo) /\ Head(todo).tag = "APND" /\ aborted = "no"
    BY DEF AnswerAppend, Answering, Head1, Inv, Ended
  <2>1. /\ UNCHANGED <<content, seen, table, fresh, allocated, outs, client, want, aborted,
                       viewed, written, sought>>
        /\ todo' = Tail(todo) /\ flushing' = FALSE /\ inputs' = Told
    BY <1>2 DEF Answered, history
  <2>2. /\ inputs' \in [Handles -> InputType \cup {Closed}]
        /\ \A h \in Handles : /\ IsOpen(h) <=> IsOpen(h)'
                              /\ IsOpen(h) => Same(inputs'[h], inputs[h])
    BY <2>0, <2>1, ToldSame DEF IsOpen
  <2>3. \A h \in Handles : IsOpen(h) =>
          /\ inputs'[h].id = inputs[h].id /\ inputs'[h].file = inputs[h].file
          /\ inputs'[h].buf = inputs[h].buf /\ inputs'[h].used = inputs[h].used
          /\ At(inputs'[h]) = At(inputs[h])
    BY <2>2 DEF Same, At
  <2>4. TodoInv' /\ todo' \in Seq(Messages)
    BY <2>0, <2>1, <2>2, <2>3, TailTodo DEF Inv
  <2>5. \A h \in Handles : IsOpen(h)' => inputs'[h].used <= Len(inputs'[h].buf)
    BY <2>0, <2>2, <2>3 DEF Typed
  <2>6. Typed'
    BY <2>0, <2>1, <2>2, <2>4, <2>5 DEF Typed
  <2>7. Ended' /\ FlushInv'
    BY <2>0, <2>1 DEF Inv, Ended, FlushInv
  <2>8. \A f \in Files : seen'[f] >= seen[f] /\ seen'[f] \in Int
    BY <2>0, <2>1 DEF Typed
  <2>9. IdsInv'
    BY <2>0, <2>1, <2>2, <2>3, <2>8, IdsKept DEF Inv
  <2>10. BufInv'
    <3> SUFFICES ASSUME NEW h \in Handles, IsOpen(h)', inputs'[h].current PROVE Holds(inputs[h])'
      BY DEF BufInv
    <3>1. Holds(Told[h])
      BY <2>0, <2>1, <2>2, ToldHolds DEF Inv
    <3> QED
      BY <3>1, <2>1 DEF Holds
  <2>11. \A f \in Files : \A n \in Int : Reported(f, n) => Reported(f, n)'
    <3>1. todo[1].tag # "SEEN"
      BY <2>0, <2>1, TailSends DEF Inv
    <3> QED
      BY <2>1, <3>1 DEF Reported
  <2>12. SeenInv'
    BY <2>0, <2>1, <2>2, <2>3, <2>11, SeenKept DEF Inv
  <2>13. (Interrupts \/ ObservedCurrent)'
    BY <2>1 DEF Inv, ObservedCurrent
  <2> QED
    BY <2>4, <2>6, <2>7, <2>9, <2>10, <2>12, <2>13 DEF Inv
<1> QED
  BY <1>1, <1>2 DEF AnswerAppend

LEMMA AnswerOpenKeeps ==
  ASSUME Inv, AnswerOpen
  PROVE  Inv'
<1>1. CASE Die("busy")
  BY <1>1, DieKeeps
<1>2. CASE /\ table[Head1.id] = Closed
           /\ table' = [table EXCEPT ![Head1.id] = Head1.arg]
           /\ seen' = [seen EXCEPT ![Head1.arg] = Max({@, 0})]
           /\ allocated' = allocated \cup {Head1.id}
           /\ inputs' = [Told EXCEPT ![want.h] = Opened(Head1.arg, Head1.id)]
           /\ sought' = sought \ {want.h}
           /\ Answered /\ want' = Closed
           /\ UNCHANGED <<content, received, fresh, outs, client, aborted, viewed, written, effort>>
  <2>1. PICK m : m = Head1
    OBVIOUS
  <2>2. Typed /\ todo # <<>> /\ m = Head(todo) /\ m.tag = "OPRD"
    BY <2>1 DEF AnswerOpen, Answering, Head1, Inv
  <2>3. /\ client.seenPos = 0 /\ Fits(m) /\ m \in Messages /\ Tail(todo) = <<>> /\ aborted = "no"
        /\ \A f, n : Reported(f, n) => seen[f] >= n
    BY <2>2, QueryFacts DEF Queries
  <2>4. want # Closed /\ ~IsOpen(want.h) /\ m.id \notin allocated
    BY <2>2, <2>3 DEF Fits
  <2>5. PICK h \in Handles : h = want.h
    BY <2>2, <2>4 DEF Typed, WantType
  <2>6. PICK f \in Files : f = m.arg
    BY <2>2, <2>3 DEF Messages
  <2>7. PICK id \in Ids : id = m.id
    BY <2>2, <2>3 DEF Messages
  <2>8. PICK j : j = Opened(f, id)
    OBVIOUS
  <2>9. /\ j \in InputType /\ j.file = f /\ j.id = id /\ j.buf = <<>> /\ j.used = 0 /\ At(j) = 0
        /\ j # Closed
    <3>1. <<>> \in Seq(Data) /\ 0 \in Nat /\ -1 \in Nat \cup {-1}
      OBVIOUS
    <3>2. j = [file |-> f, id |-> id, pos |-> 0, buf |-> <<>>, used |-> 0, size |-> -1, current |-> TRUE]
      BY <2>8 DEF Opened
    <3>3. j \in InputType
      BY <3>1, <3>2 DEF InputType
    <3>4. j.file = f /\ j.id = id /\ j.buf = <<>> /\ j.pos = 0 /\ j.used = 0
      BY <3>2
    <3>5. j # Closed
      BY <3>3, ClosedAssumption
    <3> QED
      BY <3>3, <3>4, <3>5 DEF At
  <2>10. /\ table' = [table EXCEPT ![id] = f] /\ seen' = [seen EXCEPT ![f] = Max({@, 0})]
         /\ allocated' = allocated \cup {id} /\ inputs' = [Told EXCEPT ![h] = j]
         /\ sought' = sought \ {h} /\ todo' = <<>> /\ flushing' = FALSE /\ want' = Closed
         /\ UNCHANGED <<content, fresh, outs, client, aborted, viewed, written>>
    BY <1>2, <2>1, <2>2, <2>3, <2>5, <2>6, <2>7, <2>8 DEF Answered
  <2>11. /\ seen \in [Files -> Nat \cup {-1}] /\ table \in [Ids -> Files \cup Outputs \cup {Closed}]
    BY <2>2 DEF Typed
  <2>12. /\ inputs' \in [Handles -> InputType \cup {Closed}] /\ inputs'[h] = j
         /\ \A g \in Handles : g # h => /\ IsOpen(g) <=> IsOpen(g)'
                                        /\ IsOpen(g) => Same(inputs'[g], inputs[g])
                                        /\ inputs'[g] = Told[g]
    BY <2>2, <2>9, <2>10, ToldSame DEF IsOpen
  <2>13. /\ seen' \in [Files -> Nat \cup {-1}] /\ seen'[f] >= 0
         /\ \A g \in Files : seen'[g] >= seen[g]
    <3>1. seen[f] \in Int
      BY <2>11
    <3>2. PICK v \in Nat : v = Max({seen[f], 0}) /\ v >= seen[f]
      BY <3>1, MaxOfTwo
    <3>3. seen' = [seen EXCEPT ![f] = v]
      BY <3>2, <2>10
    <3> QED
      BY <3>2, <3>3, <2>11
  <2>14. /\ table' \in [Ids -> Files \cup Outputs \cup {Closed}] /\ table'[id] = f
         /\ \A x \in Ids : x # id => table'[x] = table[x]
    BY <2>10, <2>11
  <2>15. \A g \in Handles : IsOpen(g)' => inputs'[g].used <= Len(inputs'[g].buf)
    <3> TAKE g \in Handles
    <3>1. CASE g = h
      BY <3>1, <2>9, <2>12
    <3>2. CASE g # h
      BY <3>2, <2>2, <2>12 DEF Same, Typed
    <3> QED
      BY <3>1, <3>2
  <2>16. Typed'
    BY <<>> \in Seq(Messages), <2>2, <2>7, <2>10, <2>12, <2>13, <2>14, <2>15 DEF Typed
  <2>17. Ended' /\ FlushInv' /\ TodoInv'
    BY <2>3, <2>10 DEF Inv, Ended, FlushInv, TodoInv, Orderly
  <2>18. \A g \in Handles \ {h} : IsOpen(g) =>
           /\ inputs'[g].id = inputs[g].id /\ inputs'[g].file = inputs[g].file
           /\ At(inputs'[g]) = At(inputs[g])
           /\ inputs[g].id \in allocated /\ inputs[g].id \in Ids /\ inputs[g].id # id
           /\ inputs[g].file \in Files
    BY <2>2, <2>4, <2>7, <2>12, OpenInput DEF Same, At, Inv, IdsInv, InputType
  <2>19. IdsInv'
    <3>1. ASSUME NEW g \in Handles, IsOpen(g)'
          PROVE  /\ inputs'[g].id \in allocated' /\ table'[inputs'[g].id] = inputs'[g].file
                 /\ seen'[inputs'[g].file] >= 0
      <4>1. CASE g = h
        BY <4>1, <2>9, <2>10, <2>12, <2>13, <2>14
      <4>2. CASE g # h
        <5>1. IsOpen(g) /\ inputs'[g].id = inputs[g].id /\ inputs'[g].file = inputs[g].file
          BY <3>1, <4>2, <2>12, <2>18
        <5>2. table[inputs[g].id] = inputs[g].file /\ seen[inputs[g].file] >= 0
          BY <5>1 DEF Inv, IdsInv
        <5>3. /\ seen[inputs[g].file] \in Int /\ seen'[inputs[g].file] \in Int
              /\ seen'[inputs[g].file] >= seen[inputs[g].file]
          BY <4>2, <5>1, <2>11, <2>13, <2>18
        <5> QED
          BY <4>2, <5>1, <5>2, <5>3, <2>10, <2>14, <2>18
      <4> QED
        BY <4>1, <4>2
    <3>2. ASSUME NEW g \in Handles, NEW k \in Handles, IsOpen(g)', IsOpen(k)', inputs'[g].id = inputs'[k].id
          PROVE  g = k
      <4>1. g = h => inputs'[g].id = id
        BY <2>9, <2>12
      <4>2. k = h => inputs'[k].id = id
        BY <2>9, <2>12
      <4>3. g # h => IsOpen(g) /\ inputs'[g].id = inputs[g].id /\ inputs[g].id # id
        BY <3>2, <2>12, <2>18
      <4>4. k # h => IsOpen(k) /\ inputs'[k].id = inputs[k].id /\ inputs[k].id # id
        BY <3>2, <2>12, <2>18
      <4> QED
        BY <3>2, <4>1, <4>2, <4>3, <4>4 DEF Inv, IdsInv
    <3>3. ASSUME NEW o \in Outputs, outs'[o] # Closed
          PROVE  outs'[o] \in allocated' /\ \A g \in Handles : IsOpen(g)' => inputs'[g].id # outs'[o]
      <4>1. outs[o] \in allocated /\ outs'[o] = outs[o] /\ outs[o] # id
        BY <3>3, <2>4, <2>7, <2>10 DEF Inv, IdsInv
      <4>2. ASSUME NEW g \in Handles, IsOpen(g)' PROVE inputs'[g].id # outs'[o]
        <5>1. CASE g = h
          BY <5>1, <4>1, <2>9, <2>12
        <5>2. CASE g # h
          <6>1. IsOpen(g) /\ inputs'[g].id = inputs[g].id
            BY <5>2, <4>2, <2>12, <2>18
          <6> QED
            BY <6>1, <4>1, <3>3 DEF Inv, IdsInv
        <5> QED
          BY <5>1, <5>2
      <4> QED
        BY <4>1, <4>2, <2>10
    <3> QED
      BY <3>1, <3>2, <3>3 DEF IdsInv
  <2>20. BufInv'
    <3> SUFFICES ASSUME NEW g \in Handles, IsOpen(g)', inputs'[g].current PROVE Holds(inputs[g])'
      BY DEF BufInv
    <3>1. CASE g = h
      BY <3>1, <2>9, <2>12 DEF Holds
    <3>2. CASE g # h
      <4>1. Holds(Told[g]) /\ inputs'[g] = Told[g]
        BY <3>2, <2>2, <2>12, ToldHolds DEF Inv
      <4> QED
        BY <4>1, <2>10 DEF Holds
    <3> QED
      BY <3>1, <3>2
  <2>21. ASSUME NEW g \in Files, NEW n \in Int, Reported(g, n)
         PROVE  Reported(g, n)'
    <3>1. seen[g] >= n /\ seen'[g] >= seen[g] /\ seen'[g] \in Int /\ seen[g] \in Int
      BY <2>3, <2>11, <2>13, <2>21
    <3> QED
      BY <3>1 DEF Reported
  <2>22. Reported(inputs[h].file, At(inputs[h]))'
    <3>1. Reported(f, 0)'
      BY <2>13 DEF Reported
    <3>2. f = inputs'[h].file /\ 0 = At(inputs'[h])
      BY <2>9, <2>12
    <3> QED
      BY <3>1, <3>2
  <2>23. ASSUME NEW g \in Handles \ sought', IsOpen(g)'
         PROVE  \/ /\ IsOpen(g) /\ g \notin sought
                   /\ inputs'[g].file = inputs[g].file /\ At(inputs'[g]) = At(inputs[g])
                \/ Reported(inputs[g].file, At(inputs[g]))'
    <3>1. CASE g = h
      BY <3>1, <2>22
    <3>2. CASE g # h
      BY <3>2, <2>23, <2>10, <2>12, <2>18
    <3> QED
      BY <3>1, <3>2
  <2>24. SeenInv'
    BY <2>2, <2>3, <2>10, <2>21, <2>23, SeenKept DEF Inv
  <2>25. (Interrupts \/ ObservedCurrent)'
    BY <2>10 DEF Inv, ObservedCurrent
  <2> QED
    BY <2>16, <2>17, <2>19, <2>20, <2>24, <2>25 DEF Inv
<1> QED
  BY <1>1, <1>2 DEF AnswerOpen

LEMMA AnswerOpenWriteKeeps ==
  ASSUME Inv, AnswerOpenWrite
  PROVE  Inv'
<1>1. CASE Die("busy")
  BY <1>1, DieKeeps
<1>2. CASE /\ table[Head1.id] = Closed
           /\ table' = [table EXCEPT ![Head1.id] = Head1.arg]
           /\ written' = [written EXCEPT ![Head1.arg] = 0]
           /\ allocated' = allocated \cup {Head1.id}
           /\ outs' = [outs EXCEPT ![Head1.arg] = Head1.id]
           /\ inputs' = Told
           /\ Answered
           /\ UNCHANGED <<content, seen, fresh, client, want, aborted, viewed, effort, sought>>
  <2>1. PICK m : m = Head1
    OBVIOUS
  <2>2. Typed /\ todo # <<>> /\ m = Head(todo) /\ m.tag = "OPWR"
    BY <2>1 DEF AnswerOpenWrite, Answering, Head1, Inv
  <2>3. /\ client.seenPos = 0 /\ Fits(m) /\ m \in Messages /\ Tail(todo) = <<>> /\ aborted = "no"
        /\ \A f, n : Reported(f, n) => seen[f] >= n
    BY <2>2, QueryFacts DEF Queries
  <2>4. want = Closed /\ m.id \notin allocated
    BY <2>2, <2>3 DEF Fits
  <2>5. PICK o \in Outputs : o = m.arg
    BY <2>2, <2>3 DEF Messages
  <2>6. PICK id \in Ids : id = m.id
    BY <2>2, <2>3 DEF Messages
  <2>7. /\ table' = [table EXCEPT ![id] = o] /\ written' = [written EXCEPT ![o] = 0]
        /\ allocated' = allocated \cup {id} /\ outs' = [outs EXCEPT ![o] = id] /\ inputs' = Told
        /\ todo' = <<>> /\ flushing' = FALSE /\ want' = Closed
        /\ UNCHANGED <<content, seen, fresh, client, aborted, viewed, sought>>
    BY <1>2, <2>1, <2>2, <2>3, <2>4, <2>5, <2>6 DEF Answered
  <2>8. /\ seen \in [Files -> Nat \cup {-1}] /\ table \in [Ids -> Files \cup Outputs \cup {Closed}]
        /\ outs \in [Outputs -> Ids \cup {Closed}] /\ written \in [Outputs \cup {Stdout} -> Nat]
    BY <2>2 DEF Typed
  <2>9. /\ inputs' \in [Handles -> InputType \cup {Closed}]
        /\ \A g \in Handles : /\ IsOpen(g) <=> IsOpen(g)'
                              /\ IsOpen(g) => Same(inputs'[g], inputs[g])
    BY <2>2, <2>7, ToldSame DEF IsOpen
  <2>10. /\ table' \in [Ids -> Files \cup Outputs \cup {Closed}]
         /\ \A x \in Ids : x # id => table'[x] = table[x]
         /\ outs' \in [Outputs -> Ids \cup {Closed}] /\ written' \in [Outputs \cup {Stdout} -> Nat]
         /\ outs'[o] = id /\ \A p \in Outputs : p # o => outs'[p] = outs[p]
    BY <2>7, <2>8
  <2>11. \A g \in Handles : IsOpen(g)' => inputs'[g].used <= Len(inputs'[g].buf)
    BY <2>2, <2>9 DEF Same, Typed
  <2>12. Typed'
    BY <<>> \in Seq(Messages), <2>2, <2>6, <2>7, <2>9, <2>10, <2>11 DEF Typed
  <2>13. Ended' /\ FlushInv' /\ TodoInv'
    BY <2>3, <2>7 DEF Inv, Ended, FlushInv, TodoInv, Orderly
  <2>14. \A g \in Handles : IsOpen(g) =>
           /\ inputs'[g].id = inputs[g].id /\ inputs'[g].file = inputs[g].file
           /\ At(inputs'[g]) = At(inputs[g])
           /\ inputs[g].id \in allocated /\ inputs[g].id \in Ids /\ inputs[g].id # id
    BY <2>2, <2>4, <2>6, <2>9, OpenInput DEF Same, At, Inv, IdsInv, InputType
  <2>15. IdsInv'
    <3>1. ASSUME NEW g \in Handles, IsOpen(g)'
          PROVE  /\ inputs'[g].id \in allocated' /\ table'[inputs'[g].id] = inputs'[g].file
                 /\ seen'[inputs'[g].file] >= 0
      <4>1. IsOpen(g) /\ inputs'[g].id = inputs[g].id /\ inputs'[g].file = inputs[g].file
        BY <3>1, <2>9, <2>14
      <4>2. table[inputs[g].id] = inputs[g].file /\ seen[inputs[g].file] >= 0
        BY <4>1 DEF Inv, IdsInv
      <4> QED
        BY <4>1, <4>2, <2>7, <2>10, <2>14
    <3>2. \A g, k \in Handles : IsOpen(g)' /\ IsOpen(k)' /\ inputs'[g].id = inputs'[k].id => g = k
      BY <2>9, <2>14 DEF Inv, IdsInv
    <3>3. ASSUME NEW p \in Outputs, outs'[p] # Closed
          PROVE  outs'[p] \in allocated' /\ \A g \in Handles : IsOpen(g)' => inputs'[g].id # outs'[p]
      <4>1. CASE p = o
        BY <4>1, <2>7, <2>9, <2>10, <2>14
      <4>2. CASE p # o
        <5>1. outs'[p] = outs[p] /\ outs[p] # Closed
          BY <4>2, <3>3, <2>10
        <5> QED
          BY <5>1, <2>7, <2>9, <2>14 DEF Inv, IdsInv
      <4> QED
        BY <4>1, <4>2
    <3> QED
      BY <3>1, <3>2, <3>3 DEF IdsInv
  <2>16. BufInv'
    <3> SUFFICES ASSUME NEW g \in Handles, IsOpen(g)', inputs'[g].current PROVE Holds(inputs[g])'
      BY DEF BufInv
    <3>1. Holds(Told[g]) /\ inputs'[g] = Told[g]
      BY <2>2, <2>7, <2>9, ToldHolds DEF Inv
    <3> QED
      BY <3>1, <2>7 DEF Holds
  <2>17. \A g \in Files : \A n \in Int : Reported(g, n) => Reported(g, n)'
    BY <2>3, <2>7 DEF Reported
  <2>18. SeenInv'
    BY <2>2, <2>3, <2>7, <2>9, <2>14, <2>17, SeenKept DEF Inv
  <2>19. (Interrupts \/ ObservedCurrent)'
    BY <2>7 DEF Inv, ObservedCurrent
  <2> QED
    BY <2>12, <2>13, <2>15, <2>16, <2>18, <2>19 DEF Inv
<1> QED
  BY <1>1, <1>2 DEF AnswerOpenWrite

LEMMA AnswerCloseKeeps ==
  ASSUME Inv, AnswerClose
  PROVE  Inv'
<1>1. CASE Die("closed") \/ Die("release")
  BY <1>1, DieKeeps
<1>2. CASE /\ table' = [table EXCEPT ![Head1.id] = Closed]
           /\ allocated' = IF want # Closed THEN allocated \ {Head1.id} ELSE allocated
           /\ inputs' = IF want # Closed THEN [Told EXCEPT ![want.h] = Closed] ELSE Told
           /\ Answered /\ want' = Closed
           /\ UNCHANGED <<content, seen, received, fresh, outs, client, aborted, history>>
  <2>1. PICK m : m = Head1
    OBVIOUS
  <2>2. Typed /\ todo # <<>> /\ m = Head(todo) /\ m.tag = "CLOS"
    BY <2>1 DEF AnswerClose, Answering, Head1, Inv
  <2>3. /\ client.seenPos = 0 /\ Fits(m) /\ m \in Messages /\ Tail(todo) = <<>> /\ aborted = "no"
        /\ \A f, n : Reported(f, n) => seen[f] >= n
    BY <2>2, QueryFacts DEF Queries
  <2>4. PICK id \in Ids : id = m.id
    BY <2>2, <2>3 DEF Messages
  <2>5. /\ table' = [table EXCEPT ![id] = Closed]
        /\ allocated' = IF want # Closed THEN allocated \ {id} ELSE allocated
        /\ inputs' = IF want # Closed THEN [Told EXCEPT ![want.h] = Closed] ELSE Told
        /\ todo' = <<>> /\ flushing' = FALSE /\ want' = Closed
        /\ UNCHANGED <<content, seen, fresh, outs, client, aborted, viewed, written, sought>>
    BY <1>2, <2>1, <2>2, <2>3, <2>4 DEF Answered, history
  <2>6. /\ seen \in [Files -> Nat \cup {-1}] /\ table \in [Ids -> Files \cup Outputs \cup {Closed}]
        /\ inputs \in [Handles -> InputType \cup {Closed}]
    BY <2>2 DEF Typed
  <2>7. /\ inputs' \in [Handles -> InputType \cup {Closed}]
        /\ \A g \in Handles : IsOpen(g)' =>
             IsOpen(g) /\ Same(inputs'[g], inputs[g]) /\ inputs'[g] = Told[g] /\ inputs[g].id # id
    <3>1. CASE want = Closed
      <4>1. \A g \in Handles : IsOpen(g) => inputs[g].id # id
        BY <3>1, <2>2, <2>3, <2>4 DEF Fits
      <4> QED
        BY <4>1, <3>1, <2>2, <2>5, ToldSame DEF IsOpen
    <3>2. CASE want # Closed
      <4>1. PICK h \in Handles : h = want.h
        BY <3>2, <2>2 DEF Typed, WantType
      <4>2. IsOpen(h) /\ inputs[h].id = id
        BY <3>2, <4>1, <2>2, <2>3, <2>4 DEF Fits
      <4>3. inputs' = [Told EXCEPT ![h] = Closed]
        BY <3>2, <4>1, <2>5
      <4>4. \A g \in Handles : IsOpen(g) /\ g # h => inputs[g].id # id
        BY <4>2 DEF Inv, IdsInv
      <4> QED
        BY <4>3, <4>4, <2>2, ToldSame DEF IsOpen
    <3> QED
      BY <3>1, <3>2
  <2>8. /\ table' \in [Ids -> Files \cup Outputs \cup {Closed}]
        /\ \A x \in Ids : x # id => table'[x] = table[x]
    BY <2>5, <2>6
  <2>9. \A g \in Handles : IsOpen(g)' => inputs'[g].used <= Len(inputs'[g].buf)
    BY <2>2, <2>7 DEF Same, Typed
  <2>10. allocated' \subseteq Ids /\ \A x \in allocated : x # id => x \in allocated'
    BY <2>2, <2>5 DEF Typed
  <2>11. Typed'
    BY <<>> \in Seq(Messages), <2>2, <2>5, <2>7, <2>8, <2>9, <2>10 DEF Typed
  <2>12. Ended' /\ FlushInv' /\ TodoInv'
    BY <2>3, <2>5 DEF Inv, Ended, FlushInv, TodoInv, Orderly
  <2>13. \A g \in Handles : IsOpen(g)' =>
           /\ IsOpen(g) /\ inputs[g].id \in Ids /\ inputs[g].id # id
           /\ inputs'[g].id = inputs[g].id /\ inputs'[g].file = inputs[g].file
           /\ At(inputs'[g]) = At(inputs[g])
    BY <2>2, <2>7, OpenInput DEF Same, At, InputType
  <2>14. IdsInv'
    <3>1. ASSUME NEW g \in Handles, IsOpen(g)'
          PROVE  /\ inputs'[g].id \in allocated' /\ table'[inputs'[g].id] = inputs'[g].file
                 /\ seen'[inputs'[g].file] >= 0
      BY <3>1, <2>5, <2>8, <2>10, <2>13 DEF Inv, IdsInv
    <3>2. \A g, k \in Handles : IsOpen(g)' /\ IsOpen(k)' /\ inputs'[g].id = inputs'[k].id => g = k
      BY <2>13 DEF Inv, IdsInv
    <3>3. ASSUME NEW o \in Outputs, outs'[o] # Closed
          PROVE  outs'[o] \in allocated' /\ \A g \in Handles : IsOpen(g)' => inputs'[g].id # outs'[o]
      <4>1. outs'[o] = outs[o] /\ outs[o] \in allocated
        BY <3>3, <2>5 DEF Inv, IdsInv
      <4>2. outs'[o] \in allocated'
        <5>1. CASE want = Closed
          BY <5>1, <4>1, <2>5
        <5>2. CASE want # Closed
          <6>1. PICK h \in Handles : h = want.h
            BY <5>2, <2>2 DEF Typed, WantType
          <6>2. IsOpen(h) /\ inputs[h].id = id
            BY <5>2, <6>1, <2>2, <2>3, <2>4 DEF Fits
          <6>3. outs[o] # id
            BY <6>2, <4>1, <3>3 DEF Inv, IdsInv
          <6> QED
            BY <6>3, <4>1, <2>10
        <5> QED
          BY <5>1, <5>2
      <4> QED
        BY <4>1, <4>2, <3>3, <2>13 DEF Inv, IdsInv
    <3> QED
      BY <3>1, <3>2, <3>3 DEF IdsInv
  <2>15. BufInv'
    <3> SUFFICES ASSUME NEW g \in Handles, IsOpen(g)', inputs'[g].current PROVE Holds(inputs[g])'
      BY DEF BufInv
    <3>1. Holds(Told[g]) /\ inputs'[g] = Told[g]
      BY <2>2, <2>7, ToldHolds DEF Inv
    <3> QED
      BY <3>1, <2>5 DEF Holds
  <2>16. \A g \in Files : \A n \in Int : Reported(g, n) => Reported(g, n)'
    BY <2>3, <2>5 DEF Reported
  <2>17. SeenInv'
    BY <2>2, <2>3, <2>5, <2>13, <2>16, SeenKept DEF Inv
  <2>18. (Interrupts \/ ObservedCurrent)'
    BY <2>5 DEF Inv, ObservedCurrent
  <2> QED
    BY <2>11, <2>12, <2>14, <2>15, <2>17, <2>18 DEF Inv
<1> QED
  BY <1>1, <1>2 DEF AnswerClose

LEMMA AnswerSizeKeeps ==
  ASSUME Inv, AnswerSize
  PROVE  Inv'
<1>1. PICK m : m = Head1
  OBVIOUS
<1>2. Typed /\ todo # <<>> /\ m = Head(todo) /\ m.tag = "SIZE"
  BY <1>1 DEF AnswerSize, Answering, Head1, Inv
<1>3. /\ client.seenPos = 0 /\ Fits(m) /\ m \in Messages /\ Tail(todo) = <<>> /\ aborted = "no"
      /\ \A f, n : Reported(f, n) => seen[f] >= n
  BY <1>2, QueryFacts DEF Queries
<1>4. want # Closed /\ IsOpen(want.h) /\ m.id = inputs[want.h].id
  BY <1>2, <1>3 DEF Fits
<1>5. PICK h \in Handles : h = want.h
  BY <1>2, <1>4 DEF Typed, WantType
<1>6. PICK f \in Files : f = inputs[h].file
  BY <1>2, <1>4, <1>5, OpenInput DEF InputType
<1>7. table[m.id] = f
  BY <1>4, <1>5, <1>6 DEF Inv, IdsInv
<1>8. PICK size \in Nat : size = Len(content[f])
  BY <1>2 DEF Typed
<1>9. /\ inputs' = [Told EXCEPT ![h].size = size]
      /\ todo' = <<>> /\ flushing' = FALSE /\ want' = Closed
      /\ UNCHANGED <<content, seen, table, fresh, allocated, outs, client, aborted, viewed, written, sought>>
  BY <1>1, <1>2, <1>3, <1>5, <1>7, <1>8 DEF AnswerSize, Answered, driver, history
<1>10. PICK j : j = [Told[h] EXCEPT !.size = size]
  OBVIOUS
<1>11. Told[h] \in InputType /\ Same(Told[h], inputs[h])
  BY <1>2, <1>4, <1>5, ToldSame DEF Same
<1>12. /\ j \in InputType /\ j.file = Told[h].file /\ j.id = Told[h].id /\ j.pos = Told[h].pos
       /\ j.buf = Told[h].buf /\ j.used = Told[h].used /\ j.current = Told[h].current
  BY <1>8, <1>10, <1>11 DEF InputType
<1>13. Told \in [Handles -> InputType \cup {Closed}]
  BY <1>2, ToldSame
<1>14. /\ inputs' \in [Handles -> InputType \cup {Closed}] /\ inputs'[h] = j
       /\ \A g \in Handles : g # h => inputs'[g] = Told[g]
  BY <1>9, <1>10, <1>12, <1>13
<1>15. \A g \in Handles :
         /\ IsOpen(g) <=> IsOpen(g)'
         /\ IsOpen(g) => /\ inputs'[g].id = inputs[g].id /\ inputs'[g].file = inputs[g].file
                         /\ inputs'[g].buf = inputs[g].buf /\ inputs'[g].used = inputs[g].used
                         /\ inputs'[g].pos = inputs[g].pos
                         /\ inputs'[g].current => Told[g].current
  <2> TAKE g \in Handles
  <2>1. CASE g = h
    BY <2>1, <1>4, <1>5, <1>11, <1>12, <1>14, ClosedAssumption DEF IsOpen, Same
  <2>2. CASE g # h
    BY <2>2, <1>2, <1>14, ToldSame DEF IsOpen, Same
  <2> QED
    BY <2>1, <2>2
<1>16. \A g \in Handles : IsOpen(g)' => inputs'[g].used <= Len(inputs'[g].buf)
  BY <1>2, <1>15 DEF Typed
<1>17. Typed'
  BY <<>> \in Seq(Messages), <1>2, <1>9, <1>14, <1>16 DEF Typed
<1>18. Ended' /\ FlushInv' /\ TodoInv'
  BY <1>3, <1>9 DEF Inv, Ended, FlushInv, TodoInv, Orderly
<1>19. \A g \in Files : seen'[g] >= seen[g] /\ seen'[g] \in Int
  BY <1>2, <1>9 DEF Typed
<1>20. IdsInv'
  BY <1>2, <1>9, <1>15, <1>19, IdsKept DEF Inv
<1>21. BufInv'
  <2> SUFFICES ASSUME NEW g \in Handles, IsOpen(g)', inputs'[g].current PROVE Holds(inputs[g])'
    BY DEF BufInv
  <2>1. IsOpen(g) /\ Told[g].current
    BY <1>15
  <2>2. Holds(Told[g]) /\ Same(Told[g], inputs[g])
    BY <2>1, <1>2, ToldHolds, ToldSame DEF Inv
  <2>3. /\ inputs'[g].file = Told[g].file /\ inputs'[g].pos = Told[g].pos
        /\ inputs'[g].buf = Told[g].buf
    BY <2>1, <2>2, <1>15 DEF Same
  <2> QED
    BY <2>2, <2>3, <1>9 DEF Holds
<1>22. \A g \in Files : \A n \in Int : Reported(g, n) => Reported(g, n)'
  BY <1>3, <1>9 DEF Reported
<1>23. \A g \in Handles : IsOpen(g) => At(inputs'[g]) = At(inputs[g])
  BY <1>15 DEF At
<1>24. SeenInv'
  BY <1>2, <1>3, <1>9, <1>15, <1>22, <1>23, SeenKept DEF Inv
<1>25. (Interrupts \/ ObservedCurrent)'
  BY <1>9 DEF Inv, ObservedCurrent
<1> QED
  BY <1>17, <1>18, <1>20, <1>21, <1>24, <1>25 DEF Inv

-----------------------------------------------------------------------------
(* Files that change *)

(* What was reported to the driver is not changed under the worker. *)
LEMMA UnnoticedSame ==
  ASSUME Typed, NEW f \in Files, NEW c \in Seq(Data), Unnoticed(f, c), NEW p \in Nat,
         NEW v, v = (IF p < Len(content[f]) THEN content[f][p + 1] ELSE Eof),
         seen[f] >= (IF v = Eof THEN p ELSE p + 1)
  PROVE  v = IF p < Len(c) THEN c[p + 1] ELSE Eof
<1>1. content[f] \in Seq(Data) /\ seen[f] \in Int
  BY DEF Typed
<1>2. CASE c = content[f]
  BY <1>2
<1>3. CASE FirstDiff(content[f], c) > seen[f]
  <2>1. PICK s \in Seq(Data) : s = content[f]
    BY <1>1
  <2>2. PICK d \in 0..Len(s) : d = FirstDiff(s, c) /\ d <= Len(c) /\ \A k \in 1..d : s[k] = c[k]
    BY DiffAgrees
  <2>3. d > seen[f]
    BY <1>3, <2>1, <2>2
  <2>4. CASE p < Len(s)
    <3>1. v = s[p + 1] /\ s[p + 1] \in Data /\ v # Eof
      BY <2>1, <2>4, WorkerIOAssumption
    <3>2. p + 1 \in 1..d
      BY <3>1, <2>2, <2>3, <1>1
    <3>3. s[p + 1] = c[p + 1] /\ p < Len(c)
      BY <3>2, <2>2
    <3> QED
      BY <3>1, <3>3
  <2>5. CASE ~(p < Len(s))
    <3>1. v = Eof /\ seen[f] >= p
      BY <2>1, <2>5
    <3> QED
      BY <3>1, <2>2, <2>3, <2>5, <1>1
  <2> QED
    BY <2>4, <2>5
<1> QED
  BY <1>2, <1>3 DEF Unnoticed

(* Nothing that TeX knows changes when the driver knows all it has read. *)
LEMMA ObservedKept ==
  ASSUME Typed, ObservedCurrent, viewed' = viewed,
         \A f \in Files : \A p \in DOMAIN viewed[f] : seen[f] >= (IF viewed[f][p] = Eof THEN p ELSE p + 1),
         \A f \in Files : content'[f] \in Seq(Data) /\ Unnoticed(f, content'[f])
  PROVE  ObservedCurrent'
<1> SUFFICES ASSUME NEW f \in Files, NEW p \in DOMAIN viewed[f]
             PROVE  viewed[f][p] = IF p < Len(content'[f]) THEN content'[f][p + 1] ELSE Eof
  BY DEF ObservedCurrent
<1>1. PICK c \in Seq(Data) : c = content'[f]
  OBVIOUS
<1>2. p \in Nat
  BY DEF Typed
<1>3. PICK v : v = viewed[f][p]
  OBVIOUS
<1>4. v = (IF p < Len(content[f]) THEN content[f][p + 1] ELSE Eof)
  BY <1>3 DEF ObservedCurrent
<1>5. Unnoticed(f, c)
  BY <1>1
<1>6. seen[f] >= (IF v = Eof THEN p ELSE p + 1)
  BY <1>3
<1>7. v = IF p < Len(c) THEN c[p + 1] ELSE Eof
  BY <1>2, <1>4, <1>5, <1>6, UnnoticedSame
<1> QED
  BY <1>1, <1>3, <1>7

LEMMA AnswerForkKeeps ==
  ASSUME Inv, AnswerFork
  PROVE  Inv'
<1>1. PICK m : m = Head1
  OBVIOUS
<1>2. Typed /\ todo # <<>> /\ m = Head(todo) /\ m.tag = "READ"
  BY <1>1 DEF AnswerFork, Answering, Head1, Inv
<1>3. /\ client.seenPos = 0 /\ aborted = "no"
      /\ \A f, n : Reported(f, n) => seen[f] >= n
  BY <1>2, QueryFacts DEF Queries
<1>4. /\ content' \in [Files -> UNION {Versions[f] \cup {content[f]} : f \in Files}]
      /\ \A f \in Files : content'[f] \in Versions[f] \cup {content[f]} /\ Unnoticed(f, content'[f])
      /\ inputs' = Bumped(inputs) /\ flushing' = FALSE
      /\ fresh' \subseteq fresh
      /\ UNCHANGED <<seen, table, allocated, outs, client, todo, want, aborted, viewed, written, sought>>
  BY DEF AnswerFork
<1>5. \A f \in Files : content'[f] \in Seq(Data)
  <2> TAKE f \in Files
  <2>1. Versions[f] \subseteq Seq(Data) /\ content[f] \in Seq(Data)
    BY <1>2, WorkerIOAssumption DEF Typed
  <2> QED
    BY <2>1, <1>4
<1>6. content' \in [Files -> Seq(Data)]
  BY <1>4, <1>5
<1>7. /\ inputs' \in [Handles -> InputType \cup {Closed}]
      /\ \A h \in Handles : /\ IsOpen(h) <=> IsOpen(h)'
                            /\ IsOpen(h) => Same(inputs'[h], inputs[h]) /\ ~inputs'[h].current
  BY <1>2, <1>4, BumpedSame, ClosedAssumption DEF IsOpen, Same
<1>8. \A h \in Handles : IsOpen(h) =>
        /\ inputs'[h].id = inputs[h].id /\ inputs'[h].file = inputs[h].file
        /\ inputs'[h].buf = inputs[h].buf /\ inputs'[h].used = inputs[h].used
        /\ At(inputs'[h]) = At(inputs[h])
  BY <1>7 DEF Same, At
<1>9. \A h \in Handles : IsOpen(h)' => inputs'[h].used <= Len(inputs'[h].buf)
  BY <1>2, <1>7, <1>8 DEF Typed
<1>10. Typed'
  BY <1>2, <1>4, <1>6, <1>7, <1>9 DEF Typed
<1>11. Ended' /\ FlushInv'
  BY <1>3, <1>4 DEF Inv, Ended, FlushInv
<1>12. TodoInv'
  <2>1. ASSUME NEW k \in 1..Len(todo), todo[k].tag \in Queries
        PROVE  Fits(todo[k])'
    <3>1. PICK q : q = todo[k]
      OBVIOUS
    <3>2. Fits(q)
      BY <2>1, <3>1 DEF Inv, TodoInv
    <3>3. Fits(q)'
      BY <3>2, <1>2, <1>4, <1>7, <1>8, FitsKept
    <3> QED
      BY <3>1, <3>3, <1>4
  <2>2. want # Closed /\ want.op = "more" => IsOpen(want.h)' /\ want.left >= 0
    <3> SUFFICES ASSUME want # Closed, want.op = "more" PROVE IsOpen(want.h)' /\ want.left >= 0
      OBVIOUS
    <3>1. PICK h \in Handles : h = want.h
      BY <1>2 DEF Typed, WantType
    <3>2. IsOpen(h)'
      BY <3>1, <1>7 DEF Inv, TodoInv
    <3> QED
      BY <3>1, <3>2, <1>4 DEF Inv, TodoInv, IsOpen
  <2> QED
    BY <2>1, <2>2, <1>4 DEF Inv, TodoInv, Orderly
<1>13. \A f \in Files : seen'[f] >= seen[f] /\ seen'[f] \in Int
  BY <1>2, <1>4 DEF Typed
<1>14. IdsInv'
  BY <1>2, <1>4, <1>7, <1>8, <1>13, IdsKept DEF Inv
<1>15. BufInv'
  BY <1>7 DEF BufInv
<1>16. \A g \in Files : \A n \in Int : Reported(g, n) => Reported(g, n)'
  BY <1>3, <1>4 DEF Reported
<1>17. SeenInv'
  BY <1>2, <1>3, <1>4, <1>7, <1>8, <1>16, SeenKept DEF Inv
<1>18. (Interrupts \/ ObservedCurrent)'
  <2>1. \A f \in Files : \A p \in DOMAIN viewed[f] : seen[f] >= (IF viewed[f][p] = Eof THEN p ELSE p + 1)
    BY <1>3 DEF Inv, SeenInv
  <2>2. ObservedCurrent => ObservedCurrent'
    BY <2>1, <1>2, <1>4, <1>5, ObservedKept
  <2> QED
    BY <2>2 DEF Inv
<1> QED
  BY <1>10, <1>11, <1>12, <1>14, <1>15, <1>17, <1>18 DEF Inv

LEMMA ChangeKeeps ==
  ASSUME Inv, NEW f \in Files, NEW c \in Versions[f], Change(f, c)
  PROVE  Inv'
<1>1. Typed /\ c \in Seq(Data)
  BY WorkerIOAssumption DEF Inv
<1>2. /\ todo # <<>> /\ Head(todo).tag # "SEEN" /\ (Interrupts \/ client.seenPos = 0)
      /\ Unnoticed(f, c) /\ content' = [content EXCEPT ![f] = c] /\ flushing' = TRUE
      /\ UNCHANGED <<seen, table, fresh, allocated, inputs, outs, client, todo, want, aborted, viewed,
                     written, sought>>
  BY DEF Change, Head1, ids
<1>3. aborted = "no" /\ Head(todo) = todo[1]
  BY <1>1, <1>2 DEF Inv, Ended, Typed
<1>4. /\ content \in [Files -> Seq(Data)] /\ content' \in [Files -> Seq(Data)] /\ content'[f] = c
      /\ \A g \in Files : g # f => content'[g] = content[g]
  BY <1>1, <1>2 DEF Typed
<1>5. Typed'
  BY <1>1, <1>2, <1>4 DEF Typed, IsOpen
<1>6. Ended' /\ FlushInv' /\ BufInv'
  BY <1>2, <1>3 DEF Inv, Ended, FlushInv, BufInv
<1>7. TodoInv'
  BY <1>2 DEF Inv, TodoInv, Orderly, Fits, IsOpen
<1>8. IdsInv'
  BY <1>2 DEF Inv, IdsInv, IsOpen
<1>9. SeenInv'
  BY <1>2 DEF Inv, SeenInv, Reported, IsOpen, At
<1>10. (Interrupts \/ ObservedCurrent)'
  <2>1. CASE Interrupts
    BY <2>1
  <2>2. CASE ~Interrupts
    <3>1. \A g, n : Reported(g, n) => seen[g] >= n
      BY <2>2, <1>2, <1>3 DEF Reported
    <3>2. \A g \in Files : \A p \in DOMAIN viewed[g] : seen[g] >= (IF viewed[g][p] = Eof THEN p ELSE p + 1)
      BY <3>1, <1>3 DEF Inv, SeenInv
    <3>3. \A g \in Files : content'[g] \in Seq(Data) /\ Unnoticed(g, content'[g])
      BY <1>2, <1>4 DEF Unnoticed
    <3>4. ObservedCurrent /\ viewed' = viewed
      BY <2>2, <1>2 DEF Inv
    <3>5. ObservedCurrent'
      BY <3>2, <3>3, <3>4, <1>1, ObservedKept
    <3> QED
      BY <3>5
  <2> QED
    BY <2>1, <2>2
<1> QED
  BY <1>5, <1>6, <1>7, <1>8, <1>9, <1>10 DEF Inv

-----------------------------------------------------------------------------
(* READ *)

(* What TeX takes of n bytes that it obtains *)
Taken(n) == IF want.op = "getc" THEN Min({1, n}) ELSE n

LEMMA TakenType ==
  ASSUME NEW n \in Nat
  PROVE  Taken(n) \in 0..n /\ (n > 0 => Taken(n) > 0) /\ (want.op # "getc" => Taken(n) = n)
<1>1. Min({1, n}) = IF 1 <= n THEN 1 ELSE n
  BY MinOfTwo
<1> QED
  BY <1>1 DEF Taken

(* The input is where the bytes that were taken end, and its buffer holds   *)
(* what the file does.                                                      *)
LEMMA ObtainedShape ==
  ASSUME NEW i \in InputType, i.buf = <<>>, i.used = 0, want.op \in {"getc", "read"},
         NEW size, NEW n \in Nat, NEW bytes \in Seq(Data), Len(bytes) = n,
         i.pos + n <= Len(content[i.file]),
         \A k \in 1..n : bytes[k] = content[i.file][i.pos + k]
  PROVE  LET j == Obtained(i, want.op, size, bytes)
         IN /\ j \in InputType /\ j.used <= Len(j.buf) /\ Holds(j)
            /\ j.id = i.id /\ j.file = i.file /\ j.current = i.current
            /\ At(j) = i.pos + Taken(n)
<1> DEFINE j == Obtained(i, want.op, size, bytes)
<1>1. /\ Taken(n) \in Nat /\ Taken(n) <= n /\ (want.op # "getc" => Taken(n) = n)
      /\ i.pos \in Nat
  BY TakenType DEF InputType
<1>2. CASE want.op = "getc" \/ (want.op = "read" /\ size < BufSize)
  <2>1. j = [i EXCEPT !.buf = bytes, !.used = Taken(n)]
    <3>1. CASE want.op = "getc"
      BY <3>1 DEF Obtained, Taken
    <3>2. CASE want.op = "read" /\ size < BufSize
      BY <3>2 DEF Obtained, Taken
    <3> QED
      BY <1>2, <3>1, <3>2
  <2>2. /\ j \in InputType /\ j.id = i.id /\ j.file = i.file /\ j.pos = i.pos /\ j.buf = bytes
        /\ j.used = Taken(n) /\ j.current = i.current
    BY <2>1, <1>1 DEF InputType
  <2> HIDE DEF j
  <2>3. Holds(j)
    BY <2>2 DEF Holds
  <2> QED
    BY <2>2, <2>3, <1>1 DEF j, At
<1>3. CASE ~(want.op = "getc" \/ (want.op = "read" /\ size < BufSize))
  <2>1. j = Emptied(i, i.pos + n) /\ Taken(n) = n
    BY <1>1, <1>3 DEF Obtained
  <2>2. /\ j \in InputType /\ j.id = i.id /\ j.file = i.file /\ j.pos = i.pos + n /\ j.buf = <<>>
        /\ j.used = 0 /\ j.current = i.current
    <3>1. i.pos + n \in Nat /\ 0 \in Nat /\ <<>> \in Seq(Data)
      BY <1>1
    <3> QED
      BY <2>1, <3>1 DEF Emptied, InputType
  <2> HIDE DEF j
  <2>3. Holds(j)
    BY <2>2 DEF Holds
  <2> QED
    BY <2>1, <2>2, <2>3, <1>1 DEF j, At
<1> QED
  BY <1>2, <1>3

(* The answer to a READ, with the query m, the handle h, the file f, and   *)
(* the position pos.                                                       *)
ReadAnswered(n, m, h, f, pos) ==
  LET i == Told[h]
      size == m.arg
      rest == Len(content[f]) - pos
      bytes == SubSeq(content[f], pos + 1, pos + n)
      kept == Obtained(i, want.op, size, bytes)
      taken == IF want.op = "getc" THEN SubSeq(bytes, 1, Min({1, n})) ELSE bytes
  IN /\ n <= Min({size, rest})
     /\ n = 0 => size = 0 \/ rest = 0
     /\ inputs' = [Told EXCEPT ![h] = kept]
     /\ flushing' = FALSE
     /\ fresh' = fresh \ {f}
     /\ IF size = 0 \/ Unreported(n) THEN UNCHANGED viewed
                                     ELSE Viewing(h, pos, taken)
     /\ IF want.op = "getc" /\ n = 0
        THEN todo' = <<>> /\ UNCHANGED client
        ELSE Sending(Seen(client, i.id, At(kept)))
     /\ want' = IF want.op = "getc" \/ n = 0 THEN Closed
                ELSE [want EXCEPT !.op = "more", !.left = @ - n]
     /\ UNCHANGED <<content, seen, table, allocated, outs, aborted, written, sought>>

(* The query that is answered *)
ReadAsked(m, h, f, pos) ==
  /\ Typed /\ aborted = "no" /\ client.seenPos = 0
  /\ want # Closed /\ h = want.h /\ IsOpen(h)
  /\ m.arg \in Nat /\ want.op \in {"getc", "read"} /\ (want.op = "read" => m.arg = want.left)
  /\ f = inputs[h].file /\ f = table[inputs[h].id] /\ pos = inputs[h].pos
  /\ inputs[h].buf = <<>> /\ inputs[h].used = 0
  /\ \A g, n : Reported(g, n) => seen[g] >= n

(* The input h is now kept, and the t bytes taken were given to TeX. *)
ReadShaped(n, m, h, f, pos, kept, taken, t) ==
  /\ n <= m.arg /\ pos + n <= Len(content[f])
  /\ n = 0 => m.arg = 0 \/ pos = Len(content[f])
  /\ t \in 0..n /\ (n > 0 => t > 0) /\ (want.op # "getc" => t = n)
  /\ kept \in InputType /\ kept.used <= Len(kept.buf) /\ Holds(kept)
  /\ kept.id = inputs[h].id /\ kept.file = f /\ At(kept) = pos + t
  /\ taken \in Seq(Data) /\ Len(taken) = t /\ (t > 0 => taken # <<>>) /\ (t = 0 => taken = <<>>)
  /\ \A k \in 1..t : taken[k] = content[f][pos + k]
  /\ inputs' \in [Handles -> InputType \cup {Closed}] /\ inputs'[h] = kept
  /\ \A g \in Handles : g # h => inputs'[g] = Told[g]
  /\ IF m.arg = 0 \/ Unreported(n) THEN UNCHANGED viewed ELSE Viewing(h, pos, taken)
  /\ IF want.op = "getc" /\ n = 0
     THEN todo' = <<>> /\ UNCHANGED client
     ELSE Sending(Seen(client, inputs[h].id, pos + t))

LEMMA ReadQuery ==
  ASSUME Inv, NEW n \in Nat, AnswerRead(n)
  PROVE  \/ Die("early") \/ Die("past")
         \/ \E m : \E h \in Handles, f \in Files, pos \in Nat :
              ReadAsked(m, h, f, pos) /\ ReadAnswered(n, m, h, f, pos)
<1>1. PICK m : m = Head1
  OBVIOUS
<1>2. Typed /\ todo # <<>> /\ m = Head(todo) /\ m.tag = "READ"
  BY <1>1 DEF AnswerRead, Answering, Head1, Inv
<1>3. /\ client.seenPos = 0 /\ Fits(m) /\ m \in Messages /\ aborted = "no"
      /\ \A f, x : Reported(f, x) => seen[f] >= x
  BY <1>2, QueryFacts DEF Queries
<1>4. /\ want # Closed /\ IsOpen(want.h) /\ m.id = inputs[want.h].id
      /\ want.op \in {"getc", "read"} /\ (want.op = "read" => m.arg = want.left)
      /\ inputs[want.h].buf = <<>> /\ inputs[want.h].used = 0
  BY <1>2, <1>3 DEF Fits
<1>5. PICK h \in Handles : h = want.h
  BY <1>2, <1>4 DEF Typed, WantType
<1>6. inputs[h] \in InputType
  BY <1>2, <1>4, <1>5, OpenInput
<1>7. PICK f \in Files : f = inputs[h].file
  BY <1>6 DEF InputType
<1>8. PICK pos \in Nat : pos = inputs[h].pos
  BY <1>6 DEF InputType
<1>9. table[m.id] = f
  BY <1>4, <1>5, <1>7 DEF Inv, IdsInv
<1>10. m.arg \in Nat
  BY <1>2, <1>3 DEF Messages
<1>11. ReadAsked(m, h, f, pos)
  BY <1>2, <1>3, <1>4, <1>5, <1>7, <1>8, <1>9, <1>10 DEF ReadAsked
<1>12. Told[h].pos = pos
  BY <1>2, <1>4, <1>5, <1>8, ToldSame DEF Same
<1>13. Die("early") \/ Die("past") \/ ReadAnswered(n, m, h, f, pos)
  BY <1>1, <1>5, <1>9, <1>12, Zenon DEF AnswerRead, ReadAnswered
<1> QED
  BY <1>11, <1>13

LEMMA ReadShape ==
  ASSUME Inv, NEW n \in Nat, NEW m, NEW h \in Handles, NEW f \in Files, NEW pos \in Nat,
         ReadAsked(m, h, f, pos), ReadAnswered(n, m, h, f, pos)
  PROVE  \E kept, taken, t : ReadShaped(n, m, h, f, pos, kept, taken, t)
<1>1. PICK size \in Nat : size = m.arg
  BY DEF ReadAsked
<1>2. PICK i : i = Told[h]
  OBVIOUS
<1>3. PICK text \in Seq(Data) : text = content[f]
  BY DEF ReadAsked, Typed
<1>4. PICK bytes : bytes = SubSeq(text, pos + 1, pos + n)
  OBVIOUS
<1>5. PICK kept : kept = Obtained(i, want.op, size, bytes)
  OBVIOUS
<1>6. PICK taken : taken = IF want.op = "getc" THEN SubSeq(bytes, 1, Min({1, n})) ELSE bytes
  OBVIOUS
<1>7. /\ n <= Min({size, Len(text) - pos})
      /\ n = 0 => size = 0 \/ Len(text) - pos = 0
      /\ inputs' = [Told EXCEPT ![h] = kept] /\ flushing' = FALSE /\ fresh' = fresh \ {f}
      /\ IF size = 0 \/ Unreported(n) THEN UNCHANGED viewed ELSE Viewing(h, pos, taken)
      /\ IF want.op = "getc" /\ n = 0
         THEN todo' = <<>> /\ UNCHANGED client
         ELSE Sending(Seen(client, i.id, At(kept)))
      /\ want' = IF want.op = "getc" \/ n = 0 THEN Closed
                 ELSE [want EXCEPT !.op = "more", !.left = @ - n]
      /\ UNCHANGED <<content, seen, table, allocated, outs, aborted, written, sought>>
  BY <1>1, <1>2, <1>3, <1>4, <1>5, <1>6, Zenon DEF ReadAnswered
<1>8. /\ Typed /\ aborted = "no" /\ client.seenPos = 0
      /\ want # Closed /\ h = want.h /\ IsOpen(h) /\ aborted = "no"
      /\ want.op \in {"getc", "read"} /\ (want.op = "read" => size = want.left)
      /\ f = inputs[h].file /\ f = table[inputs[h].id] /\ pos = inputs[h].pos
      /\ inputs[h].buf = <<>> /\ inputs[h].used = 0
      /\ \A g, x : Reported(g, x) => seen[g] >= x
  BY <1>1 DEF ReadAsked
<1>9. /\ i \in InputType /\ i.file = f /\ i.id = inputs[h].id /\ i.pos = pos /\ i.buf = <<>>
      /\ i.used = 0
  BY <1>2, <1>8, ToldSame DEF Same
<1>10. n <= size /\ pos + n <= Len(text)
  <2>0. Len(text) \in Nat
    BY <1>3
  <2>1. PICK rest \in Int : rest = Len(text) - pos
    BY <2>0
  <2>2. n <= Min({size, rest})
    BY <1>7, <2>1
  <2>3. Min({size, rest}) = IF size <= rest THEN size ELSE rest
    BY MinOfTwo
  <2>4. n <= size /\ n <= rest
    BY <2>2, <2>3
  <2> QED
    BY <2>1, <2>4, <1>3
<1>11. /\ bytes \in Seq(Data) /\ Len(bytes) = n /\ (n > 0 => bytes # <<>>) /\ (n = 0 => bytes = <<>>)
       /\ \A k \in 1..n : bytes[k] = text[pos + k]
  BY <1>4, <1>10, Slice
<1>12. PICK t \in 0..n : t = Taken(n) /\ (n > 0 => t > 0) /\ (want.op # "getc" => t = n)
  BY TakenType
<1>13. /\ kept \in InputType /\ kept.used <= Len(kept.buf) /\ Holds(kept)
       /\ kept.id = i.id /\ kept.file = f /\ kept.current = i.current
       /\ At(kept) = pos + t
  <2>1. content[i.file] = text /\ i.pos + n <= Len(content[i.file])
    BY <1>3, <1>9, <1>10
  <2>2. \A k \in 1..n : bytes[k] = content[i.file][i.pos + k]
    BY <2>1, <1>9, <1>11
  <2>3. PICK b \in Seq(Data) : b = bytes
    BY <1>11
  <2>4. Len(b) = n /\ \A k \in 1..n : b[k] = content[i.file][i.pos + k]
    BY <2>2, <2>3, <1>11
  <2>5. PICK j \in InputType : j = i
    BY <1>9
  <2>6. /\ j.buf = <<>> /\ j.used = 0 /\ want.op \in {"getc", "read"}
        /\ j.pos + n <= Len(content[j.file])
        /\ \A k \in 1..n : b[k] = content[j.file][j.pos + k]
    BY <2>1, <2>4, <2>5, <1>8, <1>9
  <2> DEFINE o == Obtained(j, want.op, size, b)
  <2>7. /\ o \in InputType /\ o.used <= Len(o.buf) /\ Holds(o)
        /\ o.id = j.id /\ o.file = j.file /\ o.current = j.current
        /\ At(o) = j.pos + Taken(n)
    BY <2>4, <2>6, ObtainedShape
  <2>8. kept = o
    BY <1>5, <2>3, <2>5
  <2> HIDE DEF o
  <2> QED
    BY <2>5, <2>7, <2>8, <1>9, <1>12
<1>14. /\ taken \in Seq(Data) /\ Len(taken) = t /\ (t > 0 => taken # <<>>) /\ (t = 0 => taken = <<>>)
       /\ \A k \in 1..t : taken[k] = text[pos + k]
  <2>1. CASE want.op = "getc"
    <3>1. taken = SubSeq(bytes, 0 + 1, 0 + t)
      <4>1. t = Min({1, n}) /\ 0 + 1 = 1 /\ 0 + t = t
        BY <2>1, <1>12 DEF Taken
      <4>2. taken = SubSeq(bytes, 1, Min({1, n}))
        BY <2>1, <1>6
      <4> QED
        BY <4>1, <4>2
    <3>2. 0 \in Nat /\ t \in Nat /\ 0 + t <= Len(bytes) /\ \A k \in 1..t : k \in 1..n
      BY <1>11, <1>12
    <3>3. /\ taken \in Seq(Data) /\ Len(taken) = t /\ (t > 0 => taken # <<>>) /\ (t = 0 => taken = <<>>)
          /\ \A k \in 1..t : taken[k] = bytes[0 + k]
      <4>1. PICK a \in Nat : a = 0
        OBVIOUS
      <4>2. PICK b \in Seq(Data) : b = bytes
        BY <1>11
      <4>3. PICK u \in Nat : u = t
        BY <3>2
      <4>4. taken = SubSeq(b, a + 1, a + u) /\ a + u <= Len(b)
        BY <4>1, <4>2, <4>3, <3>1, <3>2
      <4>5. /\ SubSeq(b, a + 1, a + u) \in Seq(Data) /\ Len(SubSeq(b, a + 1, a + u)) = u
            /\ u > 0 => SubSeq(b, a + 1, a + u) # <<>>
            /\ u = 0 => SubSeq(b, a + 1, a + u) = <<>>
            /\ \A k \in 1..u : SubSeq(b, a + 1, a + u)[k] = b[a + k]
        BY <4>4, Slice
      <4>6. PICK x : x = SubSeq(b, a + 1, a + u)
        OBVIOUS
      <4>7. /\ x \in Seq(Data) /\ Len(x) = u /\ (u > 0 => x # <<>>) /\ (u = 0 => x = <<>>)
            /\ \A k \in 1..u : x[k] = b[a + k]
        BY <4>5, <4>6
      <4> QED
        BY <4>1, <4>2, <4>3, <4>4, <4>6, <4>7
    <3> QED
      BY <3>2, <3>3, <1>11
  <2>2. CASE want.op # "getc"
    BY <2>2, <1>6, <1>11, <1>12
  <2> QED
    BY <2>1, <2>2
<1>15. Told \in [Handles -> InputType \cup {Closed}]
  BY <1>8, ToldSame
<1>16. /\ inputs' \in [Handles -> InputType \cup {Closed}] /\ inputs'[h] = kept
       /\ \A g \in Handles : g # h => inputs'[g] = Told[g]
  BY <1>7, <1>13, <1>15
<1>17. /\ n = 0 => size = 0 \/ pos = Len(text)
       /\ inputs[h].id = i.id
       /\ IF want.op = "getc" /\ n = 0
          THEN todo' = <<>> /\ UNCHANGED client
          ELSE Sending(Seen(client, i.id, pos + t))
  BY <1>3, <1>7, <1>9, <1>13
<1>18. ReadShaped(n, m, h, f, pos, kept, taken, t)
  BY <1>1, <1>3, <1>7, <1>9, <1>10, <1>12, <1>13, <1>14, <1>16, <1>17, Zenon DEF ReadShaped
<1> QED
  BY <1>18

LEMMA AnswerReadKeeps ==
  ASSUME Inv, NEW n \in Nat, NEW m, NEW h \in Handles, NEW f \in Files, NEW pos \in Nat,
         ReadAsked(m, h, f, pos), ReadAnswered(n, m, h, f, pos)
  PROVE  Inv'
<1>1. PICK size \in Nat : size = m.arg
  BY DEF ReadAsked
<1>2. PICK kept, taken, t : ReadShaped(n, m, h, f, pos, kept, taken, t)
  BY ReadShape
<1>3. PICK text \in Seq(Data) : text = content[f]
  BY DEF ReadAsked, Typed
<1>4. /\ Typed /\ aborted = "no" /\ client.seenPos = 0
      /\ want # Closed /\ h = want.h /\ IsOpen(h) /\ aborted = "no"
      /\ want.op \in {"getc", "read"} /\ (want.op = "read" => size = want.left)
      /\ f = inputs[h].file /\ f = table[inputs[h].id] /\ pos = inputs[h].pos
      /\ inputs[h].buf = <<>> /\ inputs[h].used = 0
      /\ \A g, x : Reported(g, x) => seen[g] >= x
  BY <1>1 DEF ReadAsked
<1>5. PICK i \in InputType : i = inputs[h]
  BY <1>4, OpenInput
<1>6. n <= size /\ pos + n <= Len(text) /\ (n = 0 => size = 0 \/ pos = Len(text))
  BY <1>1, <1>2, <1>3 DEF ReadShaped
<1>7. t \in 0..n /\ (n > 0 => t > 0) /\ (want.op # "getc" => t = n)
  BY <1>2 DEF ReadShaped
<1>8. /\ kept \in InputType /\ kept.used <= Len(kept.buf) /\ Holds(kept)
      /\ kept.id = i.id /\ kept.file = f /\ At(kept) = pos + t
  BY <1>2, <1>5 DEF ReadShaped
<1>9. /\ taken \in Seq(Data) /\ Len(taken) = t /\ (t > 0 => taken # <<>>) /\ (t = 0 => taken = <<>>)
      /\ \A k \in 1..t : taken[k] = text[pos + k]
  BY <1>2, <1>3 DEF ReadShaped
<1>10. /\ inputs' \in [Handles -> InputType \cup {Closed}] /\ inputs'[h] = kept
       /\ \A g \in Handles : g # h => inputs'[g] = Told[g]
  BY <1>2 DEF ReadShaped
<1>11. /\ flushing' = FALSE /\ fresh' = fresh \ {f}
       /\ IF size = 0 \/ Unreported(n) THEN UNCHANGED viewed ELSE Viewing(h, pos, taken)
       /\ IF want.op = "getc" /\ n = 0
          THEN todo' = <<>> /\ UNCHANGED client
          ELSE Sending(Seen(client, i.id, pos + t))
       /\ want' = IF want.op = "getc" \/ n = 0 THEN Closed
                  ELSE [want EXCEPT !.op = "more", !.left = @ - n]
       /\ UNCHANGED <<content, seen, table, allocated, outs, aborted, written, sought>>
  <2>1. /\ IF size = 0 \/ Unreported(n) THEN UNCHANGED viewed ELSE Viewing(h, pos, taken)
        /\ IF want.op = "getc" /\ n = 0
           THEN todo' = <<>> /\ UNCHANGED client
           ELSE Sending(Seen(client, i.id, pos + t))
    BY <1>1, <1>2, <1>5, Zenon DEF ReadShaped
  <2>2. /\ flushing' = FALSE /\ fresh' = fresh \ {f}
        /\ want' = IF want.op = "getc" \/ n = 0 THEN Closed
                   ELSE [want EXCEPT !.op = "more", !.left = @ - n]
        /\ UNCHANGED <<content, seen, table, allocated, outs, aborted, written, sought>>
    BY Zenon DEF ReadAnswered
  <2> QED
    BY <2>1, <2>2
<1>12. \A g \in Handles :
         /\ IsOpen(g) <=> IsOpen(g)'
         /\ IsOpen(g) => inputs'[g].id = inputs[g].id /\ inputs'[g].file = inputs[g].file
         /\ IsOpen(g) => inputs'[g].used <= Len(inputs'[g].buf)
         /\ IsOpen(g) /\ g # h => At(inputs'[g]) = At(inputs[g])
  <2> TAKE g \in Handles
  <2>1. CASE g = h
    BY <2>1, <1>4, <1>5, <1>8, <1>10, ClosedAssumption DEF IsOpen
  <2>2. CASE g # h
    <3>1. IsOpen(g) => inputs[g].used <= Len(inputs[g].buf)
      BY <1>4 DEF Typed
    <3> QED
      BY <2>2, <3>1, <1>4, <1>10, ToldSame DEF IsOpen, Same, At
  <2> QED
    BY <2>1, <2>2
<1>13. /\ client \in ClientType /\ FitsClient(client) /\ i.id \in Ids /\ pos + t \in Nat
  BY <1>4, <1>5, <1>7 DEF Typed, InputType
<1>14. PICK r : r = Seen(client, i.id, pos + t)
  OBVIOUS
<1>15. Forwards(client, r) /\ r.client.seenFile = i.id /\ r.client.seenPos >= pos + t
  BY <1>13, <1>14, SeenForwards
<1>16. /\ todo' \in Seq(Messages) /\ client' \in ClientType /\ FitsClient(client')
       /\ Orderly' /\ \A k \in 1..Len(todo') : todo'[k].tag \notin Queries
       /\ \/ want.op = "getc" /\ n = 0
          \/ client'.seenFile = i.id /\ client'.seenPos >= pos + t
  <2>1. CASE want.op = "getc" /\ n = 0
    <3>1. todo' = <<>> /\ client' = client
      BY <1>11, <2>1
    <3> QED
      BY <2>1, <3>1, <1>13, <<>> \in Seq(Messages) DEF Orderly
  <2>2. CASE ~(want.op = "getc" /\ n = 0)
    <3>1. Sending(r)
      BY <1>11, <1>8, <1>14, <2>2
    <3> QED
      BY <3>1, <1>15, SendSends DEF Sending
  <2> QED
    BY <2>1, <2>2
<1>17. \A g, x : Reported(g, x) => Reported(g, x)'
  BY <1>11, <1>4 DEF Reported
<1>18. seen[f] >= 0 /\ seen[f] \in Int
  BY <1>4 DEF Inv, IdsInv, Typed
<1>19. ~(want.op = "getc" /\ n = 0) => \A x \in Int : x <= pos + t => Reported(f, x)'
  <2> SUFFICES ASSUME ~(want.op = "getc" /\ n = 0), NEW x \in Int, x <= pos + t
               PROVE  Reported(f, x)'
    OBVIOUS
  <2>1. client'.seenFile = i.id /\ client'.seenPos >= pos + t /\ client'.seenPos \in Nat
    BY <1>16 DEF ClientType
  <2>2. table'[client'.seenFile] = f /\ seen'[f] = seen[f]
    BY <2>1, <1>11, <1>4, <1>5
  <2>3. CASE x <= 0
    BY <2>2, <2>3, <1>18 DEF Reported
  <2>4. CASE x > 0
    BY <2>1, <2>2, <2>4, <1>13 DEF Reported
  <2> QED
    BY <2>3, <2>4
<1>20. want.op = "getc" /\ n = 0 /\ h \notin sought => Reported(f, pos)'
  <2> SUFFICES ASSUME h \notin sought PROVE Reported(f, pos)'
    OBVIOUS
  <2>1. At(inputs[h]) = pos
    BY <1>4 DEF At
  <2>2. Reported(f, pos)
    BY <2>1, <1>4 DEF Inv, SeenInv
  <2> QED
    BY <2>2, <1>17
<1>21. h \notin sought' => Reported(inputs[h].file, At(inputs[h]))'
  <2> SUFFICES ASSUME h \notin sought PROVE Reported(inputs[h].file, At(inputs[h]))'
    BY <1>11
  <2>1. PICK x \in Int : x = pos + t
    BY <1>13
  <2>2. Reported(f, x)'
    <3>1. CASE want.op = "getc" /\ n = 0
      <4>1. x = pos
        BY <3>1, <2>1, <1>7
      <4> QED
        BY <4>1, <3>1, <1>20
    <3>2. CASE ~(want.op = "getc" /\ n = 0)
      BY <3>2, <2>1, <1>19
    <3> QED
      BY <3>1, <3>2
  <2>3. f = inputs'[h].file /\ x = At(inputs'[h])
    BY <2>1, <1>8, <1>10
  <2> QED
    BY <2>2, <2>3
<1>22. /\ DOMAIN viewed' = Files
       /\ \A g \in Files : g # f => viewed'[g] = viewed[g]
       /\ \A p \in DOMAIN viewed'[f] :
            \/ p \in DOMAIN viewed[f] /\ viewed'[f][p] = viewed[f][p]
            \/ /\ ~(size = 0 \/ Unreported(n)) /\ taken = <<>> /\ p = pos /\ viewed'[f][p] = Eof
            \/ /\ taken # <<>> /\ p \in pos..(pos + Len(taken) - 1)
               /\ viewed'[f][p] = taken[p - pos + 1]
  <2>1. CASE size = 0 \/ Unreported(n)
    BY <2>1, <1>11, <1>4 DEF Typed
  <2>2. CASE ~(size = 0 \/ Unreported(n))
    <3>1. Viewing(h, pos, taken)
      BY <2>2, <1>11
    <3>2. /\ DOMAIN viewed' = Files
          /\ \A g \in Files : g # f => viewed'[g] = viewed[g]
          /\ \A p \in DOMAIN viewed'[f] :
               \/ p \in DOMAIN viewed[f] /\ viewed'[f][p] = viewed[f][p]
               \/ taken = <<>> /\ p = pos /\ viewed'[f][p] = Eof
               \/ /\ taken # <<>> /\ p \in pos..(pos + Len(taken) - 1)
                  /\ viewed'[f][p] = taken[p - pos + 1]
      <4>1. PICK b \in Seq(Data) : b = taken
        BY <1>9
      <4>2. Viewing(h, pos, b) /\ f = inputs[h].file /\ Typed
        BY <3>1, <4>1, <1>4
      <4>3. /\ DOMAIN viewed' = Files
            /\ \A g \in Files : g # f => viewed'[g] = viewed[g]
            /\ \A p \in DOMAIN viewed'[f] :
                 \/ p \in DOMAIN viewed[f] /\ viewed'[f][p] = viewed[f][p]
                 \/ b = <<>> /\ p = pos /\ viewed'[f][p] = Eof
                 \/ /\ b # <<>> /\ p \in pos..(pos + Len(b) - 1)
                    /\ viewed'[f][p] = b[p - pos + 1]
        BY <4>2, ViewingShape
      <4> QED
        BY <4>1, <4>3
    <3> QED
      BY <2>2, <3>2
  <2> QED
    BY <2>1, <2>2
<1>23. \A g \in Files : \A p \in DOMAIN viewed'[g] :
         \/ p \in DOMAIN viewed[g] /\ viewed'[g][p] = viewed[g][p]
         \/ /\ p \in Nat /\ viewed'[g][p] \in Data \cup {Eof}
            /\ viewed'[g][p] = IF p < Len(content[g]) THEN content[g][p + 1] ELSE Eof
            /\ Reported(g, IF viewed[g][p] = Eof THEN p ELSE p + 1)'
  <2> SUFFICES ASSUME NEW p \in DOMAIN viewed'[f]
               PROVE  \/ p \in DOMAIN viewed[f] /\ viewed'[f][p] = viewed[f][p]
                      \/ /\ p \in Nat /\ viewed'[f][p] \in Data \cup {Eof}
                         /\ viewed'[f][p] = IF p < Len(content[f]) THEN content[f][p + 1] ELSE Eof
                         /\ Reported(f, IF viewed[f][p] = Eof THEN p ELSE p + 1)'
    BY <1>22
  <2>1. CASE ~(size = 0 \/ Unreported(n)) /\ taken = <<>> /\ p = pos /\ viewed'[f][p] = Eof
    <3>1. t = 0 /\ n = 0
      BY <2>1, <1>7, <1>9
    <3>2. Len(text) = pos
      BY <2>1, <3>1, <1>6
    <3>3. Reported(f, pos)'
      <4>1. CASE want.op = "getc"
        <5>1. h \notin sought
          BY <2>1, <3>1, <4>1, <1>4 DEF Unreported
        <5> QED
          BY <5>1, <4>1, <3>1, <1>20
      <4>2. CASE want.op # "getc"
        BY <4>2, <3>1, <1>19
      <4> QED
        BY <4>1, <4>2
    <3>4. Reported(f, IF viewed[f][p] = Eof THEN p ELSE p + 1)'
      <4>1. pos = IF viewed'[f][p] = Eof THEN p ELSE p + 1
        BY <2>1
      <4> QED
        BY <3>3, <4>1
    <3> QED
      BY <2>1, <3>2, <3>4, <1>3
  <2>2. CASE taken # <<>> /\ p \in pos..(pos + Len(taken) - 1) /\ viewed'[f][p] = taken[p - pos + 1]
    <3>1. t > 0 /\ Len(taken) = t /\ n > 0
      BY <2>2, <1>7, <1>9
    <3>2. PICK k \in 1..t : k = p - pos + 1 /\ pos + k = p + 1 /\ p \in Nat /\ p + 1 <= pos + t
      BY <2>2, <3>1
    <3>3. viewed'[f][p] = text[p + 1]
      BY <2>2, <3>2, <1>9
    <3>4. p < Len(text)
      BY <3>2, <1>3, <1>6, <1>7
    <3>5. text[p + 1] \in Data
      BY <3>2, <3>4, <1>3
    <3>6. Reported(f, p + 1)'
      BY <3>1, <3>2, <1>19
    <3>7. Reported(f, IF viewed[f][p] = Eof THEN p ELSE p + 1)'
      <4>1. p + 1 = IF viewed'[f][p] = Eof THEN p ELSE p + 1
        BY <3>3, <3>5, WorkerIOAssumption
      <4>2. PICK x : x = p + 1
        OBVIOUS
      <4>3. Reported(f, x)'
        BY <3>6, <4>2
      <4> QED
        BY <4>1, <4>2, <4>3
    <3> QED
      BY <3>2, <3>3, <3>4, <3>5, <3>7, <1>3
  <2> QED
    BY <2>1, <2>2, <1>22
<1>24. /\ want' \in WantType \cup {Closed}
       /\ want' # Closed /\ want'.op = "more" => IsOpen(want.h)' /\ want'.left >= 0
  <2>1. CASE want.op = "getc" \/ n = 0
    BY <2>1, <1>11
  <2>2. CASE ~(want.op = "getc" \/ n = 0)
    <3>1. want' = [want EXCEPT !.op = "more", !.left = @ - n] /\ want \in WantType
      BY <2>2, <1>11, <1>4 DEF Typed
    <3>2. want.left - n \in Nat /\ want.h = h
      BY <2>2, <1>4, <1>6
    <3>3. want' \in WantType /\ want'.h = h /\ want'.left >= 0
      <4>1. PICK l \in Nat : l = want.left - n
        BY <3>2
      <4>2. want' = [want EXCEPT !.op = "more", !.left = l]
        BY <3>1, <4>1
      <4>3. want' = [op |-> "more", h |-> h, left |-> l]
        BY <4>2, <3>1, <3>2 DEF WantType
      <4> QED
        BY <4>1, <4>3 DEF WantType
    <3> QED
      BY <3>3, <1>4, <1>12 DEF IsOpen
  <2> QED
    BY <2>1, <2>2
<1>25. Typed'
  <2>1. \A g \in Handles : IsOpen(g)' => inputs'[g].used <= Len(inputs'[g].buf)
    BY <1>12
  <2>2. \A g \in Files : \A p \in DOMAIN viewed'[g] : p \in Nat /\ viewed'[g][p] \in Data \cup {Eof}
    BY <1>4, <1>23 DEF Typed
  <2>3. fresh' \subseteq Files /\ flushing' \in BOOLEAN
    BY <1>11, <1>4 DEF Typed
  <2> QED
    BY <2>1, <2>2, <2>3, <1>11, <1>4, <1>10, <1>16, <1>22, <1>24 DEF Typed
<1>26. Ended' /\ FlushInv' /\ TodoInv'
  BY <1>11, <1>4, <1>16, <1>24 DEF Ended, FlushInv, TodoInv
<1>27. \A g \in Files : seen'[g] >= seen[g] /\ seen'[g] \in Int
  BY <1>11, <1>4 DEF Typed
<1>28. IdsInv'
  BY <1>11, <1>4, <1>12, <1>27, IdsKept DEF Inv
<1>29. BufInv'
  <2> SUFFICES ASSUME NEW g \in Handles, IsOpen(g)', inputs'[g].current PROVE Holds(inputs[g])'
    BY DEF BufInv
  <2>1. Holds(inputs'[g])
    <3>1. CASE g = h
      BY <3>1, <1>8, <1>10
    <3>2. CASE g # h
      BY <3>2, <1>4, <1>10, <1>12, ToldHolds DEF Inv
    <3> QED
      BY <3>1, <3>2
  <2> QED
    BY <2>1, <1>11 DEF Holds
<1>30. ASSUME NEW g \in Handles \ sought', IsOpen(g)'
       PROVE  \/ /\ IsOpen(g) /\ g \notin sought
                 /\ inputs'[g].file = inputs[g].file /\ At(inputs'[g]) = At(inputs[g])
              \/ Reported(inputs[g].file, At(inputs[g]))'
  <2>1. CASE g = h
    BY <2>1, <1>21, <1>30
  <2>2. CASE g # h
    BY <2>2, <1>11, <1>12, <1>30
  <2> QED
    BY <2>1, <2>2
<1>31. SeenInv'
  <2>1. \A g \in Files : \A x \in Int : Reported(g, x) => Reported(g, x)'
    BY <1>17
  <2>2. \A g \in Files : \A p \in DOMAIN viewed'[g] :
           \/ p \in DOMAIN viewed[g] /\ viewed'[g][p] = viewed[g][p]
           \/ Reported(g, IF viewed[g][p] = Eof THEN p ELSE p + 1)'
    BY <1>23
  <2>3. \A g \in Handles \ sought' : IsOpen(g)' =>
           \/ /\ IsOpen(g) /\ g \notin sought
              /\ inputs'[g].file = inputs[g].file /\ At(inputs'[g]) = At(inputs[g])
           \/ Reported(inputs[g].file, At(inputs[g]))'
    BY <1>30
  <2> QED
    BY <2>1, <2>2, <2>3, <1>4, SeenKept DEF Inv
<1>32. (Interrupts \/ ObservedCurrent)'
  <2>1. ObservedCurrent => ObservedCurrent'
    BY <1>11, <1>23 DEF ObservedCurrent
  <2> QED
    BY <2>1 DEF Inv
<1> QED
  BY <1>25, <1>26, <1>28, <1>29, <1>31, <1>32 DEF Inv

(* ttstub_input_getc and internal_input_read, once answered *)
LEMMA ReadAnswerKeeps ==
  ASSUME Inv, NEW n \in Nat, AnswerRead(n)
  PROVE  Inv'
<1>1. CASE Die("early") \/ Die("past")
  BY <1>1, DieKeeps
<1>2. CASE \E m : \E h \in Handles, f \in Files, pos \in Nat :
             ReadAsked(m, h, f, pos) /\ ReadAnswered(n, m, h, f, pos)
  <2>1. PICK m : \E h \in Handles, f \in Files, pos \in Nat :
                   ReadAsked(m, h, f, pos) /\ ReadAnswered(n, m, h, f, pos)
    BY <1>2
  <2>2. PICK h \in Handles, f \in Files, pos \in Nat :
          ReadAsked(m, h, f, pos) /\ ReadAnswered(n, m, h, f, pos)
    BY <2>1
  <2> QED
    BY <2>2, AnswerReadKeeps
<1> QED
  BY <1>1, <1>2, ReadQuery

-----------------------------------------------------------------------------
(* The invariant holds *)

LEMMA InitInv == Init => Inv
<1> SUFFICES ASSUME Init PROVE Inv
  OBVIOUS
<1> USE DEF Init
<1>1. /\ todo = <<>> /\ want = Closed /\ flushing = FALSE /\ aborted = "no"
      /\ seen = [f \in Files |-> -1] /\ sought = {}
  OBVIOUS
<1>2. \A h \in Handles : ~IsOpen(h)
  BY DEF IsOpen
<1>3. \A o \in Outputs : outs[o] = Closed
  OBVIOUS
<1>4. DOMAIN viewed = Files /\ \A f \in Files : DOMAIN viewed[f] = {}
  OBVIOUS
<1>5. client \in ClientType /\ FitsClient(client)
  <2>1. client = [seenFile |-> 0, seenPos |-> 0, appendFile |-> 0, append |-> <<>>, stdout |-> <<>>]
    OBVIOUS
  <2>2. 0 \in Ids /\ 0 \in Nat /\ <<>> \in Seq(Nat) /\ Len(<<>>) = 0 /\ PendSize \in Nat
    BY IdsNat, WorkerIOAssumption
  <2> QED
    BY <2>1, <2>2 DEF ClientType, FitsClient
<1>6. content \in [Files -> Seq(Data)] /\ fresh \subseteq Files /\ allocated \subseteq Ids
  BY WorkerIOAssumption
<1>7. /\ seen \in [Files -> Nat \cup {-1}]
      /\ table \in [Ids -> Files \cup Outputs \cup {Closed}]
      /\ inputs \in [Handles -> InputType \cup {Closed}]
      /\ outs \in [Outputs -> Ids \cup {Closed}]
      /\ written \in [Outputs \cup {Stdout} -> Nat]
  OBVIOUS
<1>8. todo \in Seq(Messages)
  BY <1>1, <<>> \in Seq(Messages)
<1>9. Typed
  BY <1>1, <1>2, <1>4, <1>5, <1>6, <1>7, <1>8 DEF Typed
<1>10. Ended /\ FlushInv /\ BufInv
  BY <1>1, <1>2 DEF Ended, FlushInv, BufInv
<1>11. IdsInv
  BY <1>2, <1>3 DEF IdsInv
<1>12. TodoInv
  BY <1>1 DEF TodoInv, Orderly
<1>13. SeenInv
  BY <1>2, <1>4 DEF SeenInv
<1>14. ObservedCurrent
  BY <1>4 DEF ObservedCurrent
<1> QED
  BY <1>9, <1>10, <1>11, <1>12, <1>13, <1>14 DEF Inv

LEMMA StutterKeeps ==
  ASSUME Inv, UNCHANGED vars
  PROVE  Inv'
<1>1. /\ UNCHANGED <<content, seen, table, fresh, allocated, inputs, outs, client, todo, want>>
      /\ UNCHANGED <<flushing, aborted, viewed, written, sought>>
  BY DEF vars, driver, ids, call, history
<1> QED
  BY <1>1 DEF Inv, Typed, Ended, IdsInv, TodoInv, Orderly, Fits, FlushInv, BufInv, Holds, SeenInv,
              Reported, IsOpen, At, ObservedCurrent

LEMMA NextKeeps ==
  ASSUME Inv, [Next]_vars
  PROVE  Inv'
<1>1. \A h \in Handles, f \in Files : Open(h, f) => Inv'
  BY OpenKeeps
<1>2. \A h \in Handles, n \in Reads : Read(h, n) => Inv'
  BY ReadKeeps
<1>3. \A h \in Handles, n \in Seeks : Seek(h, n) => Inv'
  BY SeekKeeps, WorkerIOAssumption
<1>4. \A h \in Handles : Close(h) \/ GetC(h) \/ GetSize(h) \/ SeekEnd(h) \/ Ungetc(h) => Inv'
  BY CloseKeeps, GetCKeeps, GetSizeKeeps, SeekEndKeeps, UngetcKeeps
<1>5. ReadMore => Inv'
  BY ReadMoreKeeps
<1>6. \A o \in Outputs : OpenWrite(o) \/ CloseWrite(o) => Inv'
  BY OpenWriteKeeps, CloseWriteKeeps
<1>7. \A o \in Outputs \cup {Stdout} : PutC(o) => Inv'
  BY PutCKeeps
<1>8. \A o \in Outputs \cup {Stdout}, n \in Writes : Write(o, n) => Inv'
  BY WriteKeeps
<1>9. Flush => Inv'
  BY FlushKeeps
<1>10. AnswerSeen \/ AnswerAppend \/ AnswerOpen \/ AnswerOpenWrite \/ AnswerClose \/ AnswerSize => Inv'
  BY AnswerSeenKeeps, AnswerAppendKeeps, AnswerOpenKeeps, AnswerOpenWriteKeeps, AnswerCloseKeeps,
     AnswerSizeKeeps
<1>11. \A n \in UNION {0..size : size \in Reads \cup {BufSize}} : AnswerRead(n) => Inv'
  <2>1. UNION {0..size : size \in Reads \cup {BufSize}} \subseteq Nat
    BY WorkerIOAssumption
  <2> QED
    BY <2>1, ReadAnswerKeeps
<1>12. AnswerFork => Inv'
  BY AnswerForkKeeps
<1>13. \A f \in Files : \A c \in Versions[f] : Change(f, c) => Inv'
  BY ChangeKeeps
<1>14. UNCHANGED vars => Inv'
  BY StutterKeeps
<1> QED
  BY <1>1, <1>2, <1>3, <1>4, <1>5, <1>6, <1>7, <1>8, <1>9, <1>10, <1>11, <1>12, <1>13, <1>14, Zenon
     DEF Next

LEMMA InvHolds == Spec => []Inv
BY InitInv, NextKeeps, PTL DEF Spec

-----------------------------------------------------------------------------
(* Results *)

(* An input is read at a place inside its buffer, what is pending fits its *)
(* buffer, and an id that is in use is one the table has a bit for.        *)
THEOREM WorkerTyped == Spec => []TypeOK
<1>1. Inv => TypeOK
  <2> SUFFICES ASSUME Inv PROVE TypeOK
    OBVIOUS
  <2>1. Typed
    BY DEF Inv
  <2>2. \A h \in Handles : IsOpen(h) => inputs[h] \in InputType /\ inputs[h].used <= Len(inputs[h].buf)
    BY <2>1, OpenInput DEF Typed
  <2>3. /\ client.seenFile \in Ids /\ client.seenPos \in Nat /\ client.appendFile \in Ids \cup {-1}
        /\ Len(client.append) <= PendSize /\ Len(client.stdout) <= PendSize
    BY <2>1 DEF Typed, ClientType, FitsClient
  <2>4. want # Closed => want.op \in {"open", "close", "getc", "read", "more", "size"} /\ want.h \in Handles
    BY <2>1 DEF Typed, WantType
  <2> QED
    BY <2>1, <2>2, <2>3, <2>4 DEF Typed, TypeOK
<1> QED
  BY <1>1, InvHolds, PTL

(* When no file changes while what TeX just read is being reported, the    *)
(* driver changes files under a worker only where TeX has not looked: all  *)
(* that TeX has read, and each end of file it has met, is what the files   *)
(* hold, through the buffers of txp_input, the lazy SEEN of txp_seen, the  *)
(* generations bumped by a FLSH, and a fork with the death of its child.   *)
THEOREM ReadsStayTrue == ~Interrupts => (Spec => []ObservedCurrent)
<1> SUFFICES ASSUME ~Interrupts PROVE Spec => []ObservedCurrent
  OBVIOUS
<1>1. Inv => ObservedCurrent
  BY DEF Inv
<1> QED
  BY <1>1, InvHolds, PTL

(* The same while such changes happen, for what was reported: what is read  *)
(* is never past what the driver was told, or is about to be told.          *)
THEOREM ReadsReported == Spec => []SeenInv
<1>1. Inv => SeenInv
  BY DEF Inv
<1> QED
  BY <1>1, InvHolds, PTL

-----------------------------------------------------------------------------
(* Why a worker gives up *)

(* An id that is free names nothing, and an id that names something is that *)
(* of an input or of an output, or it is being closed.                      *)
Unused == \A id \in Ids \ allocated : table[id] = Closed
OutputsKnown == \A o \in Outputs : outs[o] # Closed => table[outs[o]] = o
Owned(id) ==
  \/ \E h \in Handles : IsOpen(h) /\ inputs[h].id = id
  \/ \E o \in Outputs : outs[o] = id
  \/ \E k \in 1..Len(todo) : todo[k].tag = "CLOS" /\ todo[k].id = id

(* A message is about what the driver knows. *)
Named(m) ==
  /\ m.tag = "SEEN" => table[m.id] # Closed
  /\ m.tag = "APND" => m.id = -1 \/ table[m.id] \in Outputs
  /\ m.tag = "CLOS" => table[m.id] # Closed /\ \A o \in Outputs : outs[o] # m.id
  /\ m.tag = "OPWR" => outs[m.arg] = Closed

ClientNamed(c) ==
  /\ c.seenPos > 0 => table[c.seenFile] # Closed
  /\ c.append # <<>> => c.appendFile = -1 \/ table[c.appendFile] \in Outputs

(* What is pending was sent before a query. *)
Flat == \A k \in 1..Len(todo) : todo[k].tag \in Queries => client.append = <<>>

NamesInv ==
  /\ Unused /\ OutputsKnown /\ DOMAIN received = Outputs \cup {Stdout}
  /\ \A id \in Ids : table[id] # Closed => Owned(id)
  /\ \A k \in 1..Len(todo) : Named(todo[k])
  /\ ClientNamed(client) /\ Flat

(* An input that did not move by itself is inside its file, and it is at    *)
(* the beginning of a file that was never read.                             *)
Placed(i) ==
  /\ At(i) <= Len(content[i.file])
  /\ i.pos > 0 \/ i.buf # <<>> => i.file \notin fresh

PlaceInv == \A h \in Handles \ sought : IsOpen(h) => Placed(inputs[h])

(* The messages of a call are about what the driver knows, and so is what   *)
(* remains with the client; none of them is a query.                        *)
Tidy(r) ==
  /\ ClientNamed(r.client)
  /\ \A k \in 1..Len(r.msgs) : Named(r.msgs[k]) /\ r.msgs[k].tag \notin Queries

LEMMA PendingNamed ==
  ASSUME NEW c \in ClientType, ClientNamed(c)
  PROVE  \A k \in 1..Len(Pending(c)) : Named(Pending(c)[k]) /\ Pending(c)[k].tag \notin Queries
<1> DEFINE a == SeenPending(c)
           b == NoneIf(c.stdout = <<>>, Msg("APND", -1, c.stdout))
           d == NoneIf(c.append = <<>>, Msg("APND", c.appendFile, c.append))
           Good(m) == Named(m) /\ m.tag \notin Queries
<1>1. Pending(c) = a \o (b \o d)
  BY DEF Pending, OutputPending
<1>0. \A s, t : (s \in Seq(Messages) /\ t \in Seq(Messages)) =>
        (s \o t \in Seq(Messages)
         /\ ((\A k \in 1..Len(s) : Good(s[k])) /\ (\A k \in 1..Len(t) : Good(t[k]))
             => \A k \in 1..Len(s \o t) : Good((s \o t)[k])))
  <2> SUFFICES ASSUME NEW s \in Seq(Messages), NEW t \in Seq(Messages),
                      \A k \in 1..Len(s) : Good(s[k]), \A k \in 1..Len(t) : Good(t[k]),
                      NEW k \in 1..Len(s \o t)
               PROVE  Good((s \o t)[k])
    OBVIOUS
  <2> HIDE DEF Good
  <2>1. Len(s \o t) = Len(s) + Len(t) /\ Len(s) \in Nat /\ Len(t) \in Nat
    OBVIOUS
  <2>2. CASE k <= Len(s)
    <3>1. (s \o t)[k] = s[k] /\ k \in 1..Len(s)
      BY <2>1, <2>2
    <3> QED
      BY <3>1
  <2>3. CASE k > Len(s)
    <3>1. (s \o t)[k] = t[k - Len(s)] /\ k - Len(s) \in 1..Len(t)
      BY <2>1, <2>3
    <3> QED
      BY <3>1
  <2> QED
    BY <2>1, <2>2, <2>3
<1>2. /\ Msg("SEEN", c.seenFile, c.seenPos) \in Messages
      /\ Msg("APND", -1, c.stdout) \in Messages
      /\ Msg("APND", c.appendFile, c.append) \in Messages
  BY DEF ClientType, Messages, Msg
<1>3. /\ c.seenPos # 0 => Good(Msg("SEEN", c.seenFile, c.seenPos))
      /\ Good(Msg("APND", -1, c.stdout))
      /\ c.append # <<>> => Good(Msg("APND", c.appendFile, c.append))
  BY DEF ClientNamed, Named, Msg, Queries, ClientType
<1> HIDE DEF Good
<1>4. \A m \in Messages : <<m>> \in Seq(Messages) /\ Len(<<m>>) = 1 /\ <<m>>[1] = m
  OBVIOUS
<1>5. <<>> \in Seq(Messages) /\ Len(<<>>) = 0
  OBVIOUS
<1>6. a \in Seq(Messages) /\ \A k \in 1..Len(a) : Good(a[k])
  BY <1>2, <1>3, <1>4, <1>5 DEF SeenPending, NoneIf
<1>7. b \in Seq(Messages) /\ \A k \in 1..Len(b) : Good(b[k])
  BY <1>2, <1>3, <1>4, <1>5 DEF NoneIf
<1>8. d \in Seq(Messages) /\ \A k \in 1..Len(d) : Good(d[k])
  BY <1>2, <1>3, <1>4, <1>5 DEF NoneIf
<1> HIDE DEF a, b, d
<1>9. b \o d \in Seq(Messages) /\ \A k \in 1..Len(b \o d) : Good((b \o d)[k])
  BY <1>0, <1>7, <1>8, Zenon
<1>10. \A k \in 1..Len(a \o (b \o d)) : Good((a \o (b \o d))[k])
  BY <1>0, <1>6, <1>9, Zenon
<1> QED
  BY <1>1, <1>10 DEF Good

LEMMA FlushedNamed ==
  ASSUME NEW c \in ClientType
  PROVE  ClientNamed(Flushed(c))
BY FlushedType DEF ClientNamed

LEMMA QuietTidy ==
  ASSUME NEW c, ClientNamed(c)
  PROVE  Tidy(Quiet(c))
BY DEF Tidy, Quiet

LEMMA FlushingTidy ==
  ASSUME NEW c \in ClientType, ClientNamed(c), NEW d, ClientNamed(d)
  PROVE  Tidy(Flushing(c, d))
BY PendingNamed DEF Tidy, Flushing

LEMMA SeenTidy ==
  ASSUME NEW c \in ClientType, ClientNamed(c), NEW id \in Ids, table[id] # Closed, NEW pos \in Nat
  PROVE  Tidy(Seen(c, id, pos))
<1>1. CASE c.seenFile = id
  <2>1. ClientNamed([c EXCEPT !.seenPos = Max({@, pos})])
    BY <1>1 DEF ClientNamed, ClientType
  <2> QED
    BY <2>1, <1>1, QuietTidy DEF Seen
<1>2. CASE c.seenFile # id
  <2>1. Flushed(c) \in ClientType /\ Flushed(c).append = <<>>
    BY FlushedType
  <2>2. ClientNamed([Flushed(c) EXCEPT !.seenFile = id, !.seenPos = pos])
    BY <2>1 DEF ClientNamed, ClientType
  <2> QED
    BY <2>2, <1>2, FlushingTidy DEF Seen
<1> QED
  BY <1>1, <1>2

(* An id that output goes to *)
OutputId(id) == id = -1 \/ (id \in Ids /\ table[id] \in Outputs)

LEMMA AppendTidy ==
  ASSUME NEW c \in ClientType, ClientNamed(c), NEW id, OutputId(id), NEW data
  PROVE  Tidy(AppendTo(c, id, data))
<1>0. Flushed(c) \in ClientType /\ Flushed(c).seenPos = 0 /\ ClientNamed(Flushed(c))
  BY FlushedType, FlushedNamed
<1>1. CASE c.appendFile = id /\ Len(c.append) + Len(data) <= PendSize
  <2>1. ClientNamed([c EXCEPT !.append = @ \o data])
    BY <1>1 DEF ClientNamed, ClientType, OutputId
  <2> QED
    BY <2>1, <1>1, QuietTidy DEF AppendTo
<1>2. CASE ~(c.appendFile = id /\ Len(c.append) + Len(data) <= PendSize) /\ Len(data) <= PendSize
  <2>1. ClientNamed([Flushed(c) EXCEPT !.appendFile = id, !.append = data])
    BY <1>0 DEF ClientNamed, ClientType, OutputId
  <2> QED
    BY <2>1, <1>2, FlushingTidy DEF AppendTo
<1>3. CASE ~(c.appendFile = id /\ Len(c.append) + Len(data) <= PendSize) /\ ~(Len(data) <= PendSize)
  <2>1. PICK m : m = Msg("APND", id, data)
    OBVIOUS
  <2>2. Named(m) /\ m.tag \notin Queries
    BY <2>1 DEF Named, Msg, Queries, OutputId
  <2>3. PICK p \in Seq(Messages) : p = Pending(c)
    BY PendingPlain DEF Plain
  <2>4. Len(Append(p, m)) = Len(p) + 1 /\ Append(p, m)[Len(p) + 1] = m
        /\ \A k \in 1..Len(p) : Append(p, m)[k] = p[k]
    BY <2>3
  <2>5. \A k \in 1..Len(p) : Named(p[k]) /\ p[k].tag \notin Queries
    BY <2>3, PendingNamed
  <2>6. \A k \in 1..Len(Append(p, m)) : k \in 1..Len(p) \/ k = Len(p) + 1
    BY <2>3, <2>4
  <2>7. \A k \in 1..Len(Append(p, m)) : Named(Append(p, m)[k]) /\ Append(p, m)[k].tag \notin Queries
    BY <2>2, <2>4, <2>5, <2>6, Zenon
  <2>8. AppendTo(c, id, data) = [client |-> Flushed(c), msgs |-> Append(p, m)]
    BY <2>1, <2>3, <1>3 DEF AppendTo
  <2> QED
    BY <2>7, <2>8, <1>0 DEF Tidy
<1> QED
  BY <1>1, <1>2, <1>3

LEMMA PutTidy ==
  ASSUME NEW c \in ClientType, ClientNamed(c), NEW id, OutputId(id), NEW byte
  PROVE  Tidy(PutTo(c, id, byte))
<1>0. Flushed(c) \in ClientType /\ Flushed(c).seenPos = 0
  BY FlushedType
<1>1. CASE id = -1 /\ Len(c.stdout) < PendSize
  <2>1. ClientNamed([c EXCEPT !.stdout = Append(@, byte)])
    BY <1>1 DEF ClientNamed, ClientType
  <2> QED
    BY <2>1, <1>1, QuietTidy DEF PutTo
<1>2. CASE ~(id = -1 /\ Len(c.stdout) < PendSize) /\ c.appendFile = id /\ Len(c.append) < PendSize
  <2>1. ClientNamed([c EXCEPT !.append = Append(@, byte)])
    BY <1>2 DEF ClientNamed, ClientType, OutputId
  <2> QED
    BY <2>1, <1>2, QuietTidy DEF PutTo
<1>3. CASE ~(id = -1 /\ Len(c.stdout) < PendSize) /\ ~(c.appendFile = id /\ Len(c.append) < PendSize)
  <2>1. ClientNamed([Flushed(c) EXCEPT !.appendFile = id, !.append = <<byte>>])
    BY <1>0 DEF ClientNamed, ClientType, OutputId
  <2> QED
    BY <2>1, <1>3, FlushingTidy DEF PutTo
<1> QED
  BY <1>1, <1>2, <1>3

-----------------------------------------------------------------------------
(* Names are kept *)

(* Inputs keep their ids, and none is opened or closed. *)
Tracks ==
  \A g \in Handles : /\ IsOpen(g) <=> IsOpen(g)'
                     /\ IsOpen(g) => inputs'[g].id = inputs[g].id

(* What is closed remains to be told. *)
LEMMA NamesKept ==
  ASSUME NamesInv, UNCHANGED <<table, allocated>>, DOMAIN received' = DOMAIN received, Tracks,
         \A o \in Outputs : \/ outs'[o] = outs[o]
                            \/ /\ outs'[o] = Closed
                               /\ \E k \in 1..Len(todo') : todo'[k].tag = "CLOS" /\ todo'[k].id = outs[o],
         \A k \in 1..Len(todo) : todo[k].tag = "CLOS" =>
           \E j \in 1..Len(todo') : todo'[j].tag = "CLOS" /\ todo'[j].id = todo[k].id,
         \A k \in 1..Len(todo') : Named(todo[k])', ClientNamed(client)', Flat'
  PROVE  NamesInv'
<1>1. Unused' /\ OutputsKnown'
  BY DEF NamesInv, Unused, OutputsKnown
<1>2. ASSUME NEW id \in Ids, table'[id] # Closed
      PROVE  Owned(id)'
  <2>0. Owned(id)
    BY <1>2 DEF NamesInv
  <2>1. CASE \E h \in Handles : IsOpen(h) /\ inputs[h].id = id
    BY <2>1 DEF Owned, Tracks
  <2>2. CASE \E o \in Outputs : outs[o] = id
    BY <2>2 DEF Owned
  <2>3. CASE \E k \in 1..Len(todo) : todo[k].tag = "CLOS" /\ todo[k].id = id
    BY <2>3 DEF Owned
  <2> QED
    BY <2>0, <2>1, <2>2, <2>3 DEF Owned
<1>3. DOMAIN received' = Outputs \cup {Stdout}
  BY DEF NamesInv
<1> QED
  BY <1>1, <1>2, <1>3 DEF NamesInv

LEMMA AskNames ==
  ASSUME Inv, NamesInv, todo = <<>>, NEW q \in Messages, q.tag \in Queries, Ask(q), Named(q)',
         UNCHANGED <<table, allocated, received>>, Tracks,
         \A o \in Outputs : \/ outs'[o] = outs[o]
                            \/ outs'[o] = Closed /\ q.tag = "CLOS" /\ q.id = outs[o]
  PROVE  NamesInv'
<1>1. client \in ClientType /\ ClientNamed(client)
  BY DEF Inv, Typed, NamesInv
<1>2. PICK p \in Seq(Messages) : p = Pending(client)
  BY <1>1, PendingPlain DEF Plain
<1>3. \A k \in 1..Len(p) : Named(p[k]) /\ p[k].tag \notin Queries
  BY <1>1, <1>2, PendingNamed
<1>4. todo' = Append(p, q) /\ client' = Flushed(client)
  BY <1>2 DEF Ask
<1>5. /\ Len(todo') = Len(p) + 1 /\ todo'[Len(p) + 1] = q /\ \A k \in 1..Len(p) : todo'[k] = p[k]
      /\ Len(p) + 1 \in 1..Len(todo')
      /\ \A k \in 1..Len(todo') : k \in 1..Len(p) \/ k = Len(p) + 1
  BY <1>2, <1>4
<1>6. \A m : Named(m) /\ m.tag \notin Queries => Named(m)'
  BY DEF Named, Queries
<1>7. \A k \in 1..Len(todo') : Named(todo[k])'
  <2> SUFFICES ASSUME NEW k \in 1..Len(todo') PROVE Named(todo[k])'
    OBVIOUS
  <2>1. CASE k \in 1..Len(p)
    <3>1. PICK m : m = p[k]
      OBVIOUS
    <3>2. Named(m)'
      BY <2>1, <3>1, <1>3, <1>6
    <3>3. todo'[k] = m
      BY <2>1, <3>1, <1>5
    <3> QED
      BY <3>2, <3>3 DEF Named
  <2>2. CASE k = Len(p) + 1
    <3>1. todo'[k] = q
      BY <2>2, <1>5
    <3> QED
      BY <3>1 DEF Named
  <2> QED
    BY <2>1, <2>2, <1>5
<1>8. ClientNamed(client)' /\ client'.append = <<>>
  BY <1>1, <1>4, FlushedType DEF ClientNamed
<1>9. Flat'
  BY <1>8 DEF Flat
<1>10. q.tag = "CLOS" => \E k \in 1..Len(todo') : todo'[k].tag = "CLOS" /\ todo'[k].id = q.id
  BY <1>5
<1>11. \A o \in Outputs : \/ outs'[o] = outs[o]
                          \/ /\ outs'[o] = Closed
                             /\ \E k \in 1..Len(todo') : todo'[k].tag = "CLOS" /\ todo'[k].id = outs[o]
  BY <1>10
<1>12. Len(todo) = 0
  OBVIOUS
<1> QED
  BY <1>7, <1>8, <1>9, <1>11, <1>12, NamesKept

LEMMA SendNames ==
  ASSUME NamesInv, todo = <<>>, NEW r, Tidy(r), Sending(r),
         UNCHANGED <<table, allocated, received, outs>>, Tracks
  PROVE  NamesInv'
<1>1. client' = r.client /\ todo' = r.msgs
  BY DEF Sending
<1>2. \A m : Named(m) <=> Named(m)'
  BY DEF Named
<1>3. \A k \in 1..Len(todo') : Named(todo[k])'
  <2> SUFFICES ASSUME NEW k \in 1..Len(todo') PROVE Named(todo[k])'
    OBVIOUS
  <2>1. PICK m : m = todo'[k]
    OBVIOUS
  <2>2. Named(m)'
    BY <2>1, <1>1, <1>2 DEF Tidy
  <2> QED
    BY <2>1, <2>2 DEF Named
<1>4. ClientNamed(client)'
  BY <1>1 DEF Tidy, ClientNamed
<1>5. Flat'
  BY <1>1 DEF Tidy, Flat
<1>6. Len(todo) = 0
  OBVIOUS
<1> QED
  BY <1>3, <1>4, <1>5, <1>6, NamesKept

(* A position moves, and nothing is sent. *)
LEMMA StillNames ==
  ASSUME NamesInv, UNCHANGED <<table, allocated, received, outs, todo, client>>, Tracks
  PROVE  NamesInv'
<1>2. \A k \in 1..Len(todo') : Named(todo[k])'
  BY DEF Named, NamesInv
<1>3. ClientNamed(client)' /\ Flat'
  BY DEF ClientNamed, Flat, NamesInv
<1> QED
  BY <1>2, <1>3, NamesKept

-----------------------------------------------------------------------------
(* Places are kept *)

(* One input is changed, and keeps its id. *)
Shifts(h, j) ==
  /\ j \in InputType /\ j.id = inputs[h].id
  /\ inputs' = [inputs EXCEPT ![h] = j]

LEMMA ShiftsTracks ==
  ASSUME Typed, NEW h \in Handles, IsOpen(h), NEW j, Shifts(h, j)
  PROVE  Tracks /\ inputs'[h] = j /\ \A g \in Handles : g # h => inputs'[g] = inputs[g]
<1>1. inputs \in [Handles -> InputType \cup {Closed}] /\ j # Closed
  BY ClosedAssumption DEF Typed, Shifts
<1>2. inputs'[h] = j /\ \A g \in Handles : g # h => inputs'[g] = inputs[g]
  BY <1>1 DEF Shifts
<1>3. \A g \in Handles : IsOpen(g) <=> IsOpen(g)'
  BY <1>1, <1>2 DEF IsOpen
<1>4. inputs'[h].id = inputs[h].id
  BY <1>2 DEF Shifts
<1> QED
  BY <1>2, <1>3, <1>4 DEF Tracks

LEMMA ShiftsPlaced ==
  ASSUME Typed, PlaceInv, NEW h \in Handles, IsOpen(h), NEW j, Shifts(h, j),
         content' = content, fresh' = fresh, sought \subseteq sought',
         h \in sought' \/ Placed(j)
  PROVE  PlaceInv'
<1>1. Tracks /\ inputs'[h] = j /\ \A g \in Handles : g # h => inputs'[g] = inputs[g]
  BY ShiftsTracks
<1> SUFFICES ASSUME NEW g \in Handles, g \notin sought', IsOpen(g)' PROVE Placed(inputs[g])'
  BY DEF PlaceInv
<1>2. CASE g = h
  BY <1>1, <1>2 DEF Placed
<1>3. CASE g # h
  <2>1. inputs'[g] = inputs[g] /\ IsOpen(g) /\ g \notin sought
    BY <1>1, <1>3 DEF Tracks
  <2>2. Placed(inputs[g])
    BY <2>1 DEF PlaceInv
  <2> QED
    BY <2>1, <2>2 DEF Placed
<1> QED
  BY <1>2, <1>3

LEMMA StillPlaced ==
  ASSUME PlaceInv, UNCHANGED <<inputs, content, fresh, sought>>
  PROVE  PlaceInv' /\ Tracks
BY DEF PlaceInv, Placed, IsOpen, Tracks

LEMMA SyncedPlaced ==
  ASSUME NEW i \in InputType, i.used <= Len(i.buf), Placed(i)
  PROVE  Placed(Synced(i))
<1>1. CASE i.current
  BY <1>1 DEF Synced
<1>2. CASE ~i.current
  <2>0. i.pos \in Nat /\ i.used \in Nat /\ i.buf \in Seq(Data)
    BY DEF InputType
  <2>1. /\ Synced(i).buf = <<>> /\ Synced(i).used = 0 /\ Synced(i).pos = i.pos + i.used
        /\ Synced(i).file = i.file
    BY <1>2, <2>0 DEF Synced, Emptied, At, InputType
  <2>2. At(Synced(i)) = At(i)
    BY <2>0, <2>1 DEF At
  <2>3. i.pos + i.used > 0 => i.pos > 0 \/ i.buf # <<>>
    BY <2>0
  <2> QED
    BY <2>1, <2>2, <2>3 DEF Placed
<1> QED
  BY <1>1, <1>2

LEMMA RefilledPlaced ==
  ASSUME NEW i \in InputType, i.used = Len(i.buf), Placed(i)
  PROVE  Placed(Refilling(i))
<1>0. i.pos \in Nat /\ i.used \in Nat /\ i.buf \in Seq(Data)
  BY DEF InputType
<1>1. /\ Refilling(i).buf = <<>> /\ Refilling(i).used = 0 /\ Refilling(i).pos = i.pos + i.used
      /\ Refilling(i).file = i.file
  BY <1>0 DEF Refilling, Emptied, InputType
<1>2. At(Refilling(i)) = At(i)
  BY <1>0, <1>1 DEF At
<1>3. i.pos + i.used > 0 => i.pos > 0 \/ i.buf # <<>>
  BY <1>0
<1> QED
  BY <1>1, <1>2, <1>3 DEF Placed

LEMMA TakenPlaced ==
  ASSUME Typed, NEW i \in InputType, NEW n \in Nat, n > 0, i.used + n <= Len(i.buf), Holds(i), Placed(i)
  PROVE  /\ [i EXCEPT !.used = @ + n] \in InputType
         /\ [i EXCEPT !.used = @ + n].id = i.id
         /\ Placed([i EXCEPT !.used = @ + n])
<1> DEFINE j == [i EXCEPT !.used = @ + n]
<1>0. /\ i.pos \in Nat /\ i.used \in Nat /\ i.buf \in Seq(Data) /\ i.file \in Files
      /\ content[i.file] \in Seq(Data)
  BY DEF InputType, Typed
<1>1. /\ j \in InputType /\ j.id = i.id /\ j.pos = i.pos /\ j.buf = i.buf /\ j.file = i.file
      /\ j.used = i.used + n
  BY <1>0 DEF InputType
<1>2. i.buf # <<>>
  BY <1>0
<1>3. i.pos + Len(i.buf) <= Len(content[i.file]) /\ i.file \notin fresh
  BY <1>2 DEF Holds, Placed
<1>4. At(j) = i.pos + (i.used + n)
  BY <1>1 DEF At
<1>5. At(j) <= Len(content[j.file])
  BY <1>0, <1>1, <1>3, <1>4
<1> QED
  BY <1>1, <1>3, <1>5 DEF Placed

-----------------------------------------------------------------------------
(* Calls of TeX *)

Continues == aborted' = aborted /\ NamesInv' /\ PlaceInv'

LEMMA InputKnown ==
  ASSUME Inv, NEW h \in Handles, IsOpen(h)
  PROVE  /\ inputs[h] \in InputType /\ inputs[h].id \in Ids /\ inputs[h].used <= Len(inputs[h].buf)
         /\ inputs[h].file \in Files /\ table[inputs[h].id] = inputs[h].file
         /\ inputs[h].file # Closed
BY OpenInput, WorkerIOAssumption DEF Inv, IdsInv, InputType

(* A query about nothing that is closed *)
LEMMA AskContinues ==
  ASSUME Inv, NamesInv, PlaceInv, todo = <<>>, NEW q \in Messages, q.tag \in Queries, q.tag # "CLOS",
         Named(q), Ask(q), UNCHANGED <<driver, ids, aborted, sought>>
  PROVE  Continues
<1>1. /\ UNCHANGED <<content, received, table, fresh, allocated, inputs, outs>>
  BY DEF driver, ids
<1>2. Named(q)'
  BY <1>1 DEF Named, Queries
<1>3. PlaceInv' /\ Tracks
  BY <1>1, StillPlaced
<1>4. NamesInv'
  BY <1>1, <1>2, <1>3, AskNames
<1> QED
  BY <1>3, <1>4 DEF Continues

LEMMA OpenContinues ==
  ASSUME Inv, NamesInv, PlaceInv, NEW h \in Handles, NEW f \in Files, Open(h, f)
  PROVE  Continues \/ (Free = {} /\ Die("ids"))
<1>0. todo = <<>>
  BY ReadyFacts DEF Open
<1>1. CASE Free # {} /\ Ask(Msg("OPRD", NextId, f))
           /\ UNCHANGED <<driver, ids, aborted, sought>>
  <2>1. PICK q : q = Msg("OPRD", NextId, f)
    OBVIOUS
  <2>2. q \in Messages /\ q.tag = "OPRD" /\ q.tag \in Queries /\ Named(q)
    BY <2>1, <1>1, NextIdFree DEF Msg, Messages, Queries, Named
  <2> QED
    BY <2>1, <2>2, <1>0, <1>1, AskContinues
<1> QED
  BY <1>1 DEF Open

LEMMA OpenWriteContinues ==
  ASSUME Inv, NamesInv, PlaceInv, NEW o \in Outputs, OpenWrite(o)
  PROVE  Continues \/ (Free = {} /\ Die("ids"))
<1>0. todo = <<>> /\ outs[o] = Closed
  BY ReadyFacts DEF OpenWrite
<1>1. CASE Free # {} /\ Ask(Msg("OPWR", NextId, o))
           /\ UNCHANGED <<driver, ids, aborted, sought>>
  <2>1. PICK q : q = Msg("OPWR", NextId, o)
    OBVIOUS
  <2>2. q \in Messages /\ q.tag = "OPWR" /\ q.tag \in Queries /\ Named(q)
    BY <2>1, <1>0, <1>1, NextIdFree DEF Msg, Messages, Queries, Named
  <2> QED
    BY <2>1, <2>2, <1>0, <1>1, AskContinues
<1> QED
  BY <1>1 DEF OpenWrite

LEMMA GetSizeContinues ==
  ASSUME Inv, NamesInv, PlaceInv, NEW h \in Handles, GetSize(h)
  PROVE  Continues
<1>0. todo = <<>> /\ IsOpen(h)
  BY ReadyFacts DEF GetSize
<1>1. PICK q : q = Msg("SIZE", inputs[h].id, 0)
  OBVIOUS
<1>2. q \in Messages /\ q.tag = "SIZE" /\ q.tag \in Queries /\ Named(q)
  BY <1>0, <1>1, InputKnown DEF Msg, Messages, Queries, Named
<1>3. Ask(q) /\ UNCHANGED <<driver, ids, aborted, sought>>
  BY <1>1 DEF GetSize
<1> QED
  BY <1>0, <1>2, <1>3, AskContinues

LEMMA CloseContinues ==
  ASSUME Inv, NamesInv, PlaceInv, NEW h \in Handles, Close(h)
  PROVE  Continues
<1>0. todo = <<>> /\ IsOpen(h)
  BY ReadyFacts DEF Close
<1>1. PICK q : q = Msg("CLOS", inputs[h].id, 0)
  OBVIOUS
<1>2. q \in Messages /\ q.tag = "CLOS" /\ q.tag \in Queries /\ q.id = inputs[h].id
  BY <1>0, <1>1, InputKnown DEF Msg, Messages, Queries
<1>3. Ask(q) /\ aborted' = aborted
      /\ UNCHANGED <<content, received, table, fresh, allocated, inputs, outs, sought>>
  BY <1>1 DEF Close, driver, ids, history
<1>4. table[q.id] # Closed
  BY <1>0, <1>2, InputKnown
<1>5. \A o \in Outputs : outs[o] # q.id
  BY <1>0, <1>2, <1>4, InputKnown, WorkerIOAssumption DEF Inv, IdsInv
<1>6. Named(q)'
  BY <1>2, <1>3, <1>4, <1>5 DEF Named
<1>7. PlaceInv' /\ Tracks
  BY <1>3, StillPlaced
<1>8. NamesInv'
  BY <1>0, <1>2, <1>3, <1>6, <1>7, AskNames
<1> QED
  BY <1>3, <1>7, <1>8 DEF Continues

LEMMA CloseWriteContinues ==
  ASSUME Inv, NamesInv, PlaceInv, NEW o \in Outputs, CloseWrite(o)
  PROVE  Continues
<1>0. todo = <<>> /\ outs[o] # Closed
  BY ReadyFacts DEF CloseWrite
<1>1. PICK q : q = Msg("CLOS", outs[o], 0)
  OBVIOUS
<1>2. outs \in [Outputs -> Ids \cup {Closed}] /\ Closed \notin Outputs /\ Closed \notin Ids
  BY WorkerIOAssumption DEF Inv, Typed
<1>3. q \in Messages /\ q.tag = "CLOS" /\ q.tag \in Queries /\ q.id = outs[o] /\ q.id \in Ids
  BY <1>0, <1>1, <1>2 DEF Msg, Messages, Queries
<1>4. Ask(q) /\ aborted' = aborted /\ outs' = [outs EXCEPT ![o] = Closed]
      /\ UNCHANGED <<content, received, table, fresh, allocated, inputs, sought>>
  BY <1>1 DEF CloseWrite, driver
<1>5. table[q.id] = o /\ table[q.id] # Closed
  BY <1>0, <1>2, <1>3 DEF NamesInv, OutputsKnown
<1>6. outs'[o] = Closed /\ \A p \in Outputs : p # o => outs'[p] = outs[p]
  BY <1>2, <1>4
<1>7. \A p \in Outputs : outs'[p] # q.id
  <2> SUFFICES ASSUME NEW p \in Outputs, outs'[p] = q.id PROVE FALSE
    OBVIOUS
  <2>1. p # o /\ outs[p] = q.id /\ outs[p] # Closed
    BY <1>2, <1>3, <1>6
  <2>2. table[q.id] = p
    BY <2>1 DEF NamesInv, OutputsKnown
  <2> QED
    BY <2>1, <2>2, <1>5
<1>8. Named(q)'
  BY <1>3, <1>4, <1>5, <1>7 DEF Named
<1>9. PlaceInv' /\ Tracks
  BY <1>4, StillPlaced
<1>10. NamesInv'
  BY <1>0, <1>3, <1>4, <1>6, <1>8, <1>9, AskNames
<1> QED
  BY <1>4, <1>9, <1>10 DEF Continues

(* What was not sought before is placed. *)
LEMMA SyncedInput ==
  ASSUME Inv, PlaceInv, ~flushing, NEW h \in Handles, IsOpen(h)
  PROVE  LET i == Synced(inputs[h])
         IN /\ i \in InputType /\ i.used <= Len(i.buf) /\ Holds(i)
            /\ i.id = inputs[h].id /\ i.id \in Ids /\ table[i.id] # Closed
            /\ h \in sought \/ Placed(i)
<1>1. /\ Synced(inputs[h]) \in InputType /\ Synced(inputs[h]).used <= Len(Synced(inputs[h]).buf)
      /\ Holds(Synced(inputs[h])) /\ Synced(inputs[h]).id = inputs[h].id
  BY SyncedHolds DEF Inv
<1>2. h \notin sought => Placed(Synced(inputs[h]))
  BY InputKnown, SyncedPlaced DEF PlaceInv
<1> QED
  BY <1>1, <1>2, InputKnown

LEMMA TakeContinues ==
  ASSUME Inv, NamesInv, PlaceInv, todo = <<>>, aborted = "no", NEW h \in Handles, IsOpen(h),
         NEW i, i = Synced(inputs[h]), NEW n \in Nat, n > 0, i.used + n <= Len(i.buf), Take(h, i, n)
  PROVE  Continues
<1>0. ~flushing /\ Typed
  BY DEF Inv, FlushInv
<1>1. /\ i \in InputType /\ Holds(i) /\ i.id = inputs[h].id /\ i.id \in Ids /\ table[i.id] # Closed
      /\ h \in sought \/ Placed(i)
  BY <1>0, SyncedInput
<1>2. PICK j : j = [i EXCEPT !.used = @ + n]
  OBVIOUS
<1>3. /\ inputs' = [inputs EXCEPT ![h] = j]
      /\ Sending(Seen(client, i.id, At(i) + n)) /\ aborted' = aborted
      /\ UNCHANGED <<content, received, table, fresh, allocated, outs, sought>>
  BY <1>2 DEF Take, Set, driver
<1>4. At(i) + n \in Nat
  BY <1>1 DEF InputType, At
<1>5. j \in InputType /\ j.id = i.id
  <2>1. i.used \in Nat /\ i.used + n \in Nat
    BY <1>1 DEF InputType
  <2>2. PICK u \in Nat : u = i.used + n
    BY <2>1
  <2>3. j = [i EXCEPT !.used = u]
    BY <1>2, <2>2
  <2> QED
    BY <1>1, <2>3 DEF InputType
<1>6. Shifts(h, j)
  BY <1>1, <1>3, <1>5 DEF Shifts
<1>7. h \in sought' \/ Placed(j)
  BY <1>0, <1>1, <1>2, <1>3, TakenPlaced
<1>8. PlaceInv' /\ Tracks
  BY <1>0, <1>3, <1>6, <1>7, ShiftsPlaced, ShiftsTracks
<1>9. client \in ClientType /\ ClientNamed(client)
  BY <1>0 DEF Typed, NamesInv
<1>10. PICK r : r = Seen(client, i.id, At(i) + n)
  OBVIOUS
<1>11. Tidy(r) /\ Sending(r)
  BY <1>1, <1>3, <1>4, <1>9, <1>10, SeenTidy
<1>12. NamesInv'
  BY <1>3, <1>8, <1>11, SendNames
<1> QED
  BY <1>3, <1>8, <1>12 DEF Continues

LEMMA RefillContinues ==
  ASSUME Inv, NamesInv, PlaceInv, todo = <<>>, aborted = "no", NEW h \in Handles, IsOpen(h),
         NEW i, i = Synced(inputs[h]), i.used = Len(i.buf), NEW size \in Nat, NEW left,
         Refill(h, i, size, left)
  PROVE  Continues
<1>0. ~flushing /\ Typed
  BY DEF Inv, FlushInv
<1>1. /\ i \in InputType /\ i.id = inputs[h].id /\ i.id \in Ids
      /\ h \in sought \/ Placed(i)
  BY <1>0, SyncedInput
<1>2. PICK j : j = Refilling(i)
  OBVIOUS
<1>3. j \in InputType /\ j.id = i.id
  <2>1. i.pos + Len(i.buf) \in Nat /\ <<>> \in Seq(Data)
    BY <1>1 DEF InputType
  <2> QED
    BY <2>1, <1>1, <1>2 DEF Refilling, Emptied, InputType
<1>4. PICK q : q = Msg("READ", i.id, size)
  OBVIOUS
<1>5. /\ inputs' = [inputs EXCEPT ![h] = j] /\ Ask(q) /\ aborted' = aborted
      /\ UNCHANGED <<content, received, table, fresh, allocated, outs, sought>>
  BY <1>2, <1>4 DEF Refill, Set, driver, history
<1>6. Shifts(h, j)
  BY <1>1, <1>3, <1>5 DEF Shifts
<1>7. h \in sought' \/ Placed(j)
  BY <1>1, <1>2, <1>5, RefilledPlaced
<1>8. PlaceInv' /\ Tracks
  BY <1>0, <1>5, <1>6, <1>7, ShiftsPlaced, ShiftsTracks
<1>9. q \in Messages /\ q.tag = "READ" /\ q.tag \in Queries
  BY <1>1, <1>4 DEF Msg, Messages, Queries
<1>10. Named(q)'
  BY <1>9 DEF Named
<1>11. NamesInv'
  BY <1>5, <1>8, <1>9, <1>10, AskNames
<1> QED
  BY <1>5, <1>8, <1>11 DEF Continues

LEMMA GetCContinues ==
  ASSUME Inv, NamesInv, PlaceInv, NEW h \in Handles, GetC(h)
  PROVE  Continues
<1>0. todo = <<>> /\ aborted = "no" /\ IsOpen(h)
  BY ReadyFacts DEF GetC
<1>1. ~flushing
  BY <1>0 DEF Inv, FlushInv
<1>2. PICK i : i = Synced(inputs[h])
  OBVIOUS
<1>3. i \in InputType /\ i.used <= Len(i.buf)
  BY <1>0, <1>1, <1>2, SyncedInput
<1>4. CASE i.used < Len(i.buf) /\ Take(h, i, 1)
  <2>1. i.used + 1 <= Len(i.buf)
    BY <1>3, <1>4 DEF InputType
  <2> QED
    BY <2>1, <1>0, <1>2, <1>4, TakeContinues
<1>5. CASE i.used = Len(i.buf) /\ Refill(h, i, BufSize, -1)
  BY <1>0, <1>2, <1>5, WorkerIOAssumption, RefillContinues
<1> QED
  BY <1>2, <1>4, <1>5 DEF GetC

LEMMA InternalReadContinues ==
  ASSUME Inv, NamesInv, PlaceInv, todo = <<>>, aborted = "no", NEW h \in Handles, IsOpen(h),
         NEW left \in Nat, InternalRead(h, left)
  PROVE  Continues
<1>1. ~flushing /\ Typed
  BY DEF Inv, FlushInv
<1>2. PICK i : i = Synced(inputs[h])
  OBVIOUS
<1>3. /\ i \in InputType /\ i.used <= Len(i.buf) /\ i.id = inputs[h].id /\ i.id \in Ids
      /\ table[i.id] # Closed
      /\ h \in sought \/ Placed(i)
  BY <1>1, <1>2, SyncedInput
<1>4. i.used \in Nat /\ Len(i.buf) \in Nat /\ i.pos \in Nat
  BY <1>3 DEF InputType
<1>5. PICK n : n = Min({left, Len(i.buf) - i.used})
  OBVIOUS
<1>6. n \in Nat /\ n <= Len(i.buf) - i.used
  <2>1. n = IF left <= Len(i.buf) - i.used THEN left ELSE Len(i.buf) - i.used
    BY <1>4, <1>5, MinOfTwo
  <2> QED
    BY <2>1, <1>3, <1>4
<1>7. CASE n > 0 /\ Take(h, i, n)
  <2>1. i.used + n <= Len(i.buf)
    BY <1>4, <1>6
  <2> QED
    BY <2>1, <1>2, <1>6, <1>7, TakeContinues
<1>8. CASE /\ Set(h, i)
           /\ Sending(Seen(client, i.id, At(i)))
           /\ UNCHANGED <<driver, allocated, outs, flushing, aborted, history>>
  <2>1. /\ inputs' = [inputs EXCEPT ![h] = i] /\ aborted' = aborted
        /\ UNCHANGED <<content, received, table, fresh, allocated, outs, sought>>
    BY <1>8 DEF Set, driver, history
  <2>2. Shifts(h, i)
    BY <1>3, <2>1 DEF Shifts
  <2>3. PlaceInv' /\ Tracks
    BY <1>1, <1>3, <2>1, <2>2, ShiftsPlaced, ShiftsTracks
  <2>4. client \in ClientType /\ ClientNamed(client) /\ At(i) \in Nat
    BY <1>1, <1>4 DEF Typed, NamesInv, At
  <2>5. PICK r : r = Seen(client, i.id, At(i))
    OBVIOUS
  <2>6. Tidy(r) /\ Sending(r)
    BY <1>3, <1>8, <2>4, <2>5, SeenTidy
  <2>7. NamesInv'
    BY <2>1, <2>3, <2>6, SendNames
  <2> QED
    BY <2>1, <2>3, <2>7 DEF Continues
<1>9. CASE i.used = Len(i.buf) /\ Refill(h, i, left, left)
  BY <1>2, <1>9, RefillContinues
<1> QED
  BY <1>2, <1>5, <1>7, <1>8, <1>9, Zenon DEF InternalRead

LEMMA ReadingContinues ==
  ASSUME Inv, NamesInv, PlaceInv, ReadMore \/ \E h \in Handles, n \in Reads : Read(h, n)
  PROVE  Continues
<1>1. CASE ReadMore
  <2>1. want # Closed /\ want.op = "more" /\ todo = <<>> /\ InternalRead(want.h, want.left)
    BY <1>1 DEF ReadMore
  <2>2. aborted = "no" /\ want \in WantType /\ IsOpen(want.h) /\ want.left >= 0
    BY <2>1 DEF Inv, Ended, Typed, TodoInv
  <2>3. PICK h \in Handles : h = want.h
    BY <2>2 DEF WantType
  <2>4. PICK left \in Nat : left = want.left
    BY <2>2 DEF WantType
  <2> QED
    BY <2>1, <2>2, <2>3, <2>4, InternalReadContinues
<1>2. CASE \E h \in Handles, n \in Reads : Read(h, n)
  <2>1. PICK h \in Handles, n \in Reads : Read(h, n)
    BY <1>2
  <2>2. n \in Nat
    BY WorkerIOAssumption
  <2> QED
    BY <2>1, <2>2, ReadyFacts, InternalReadContinues DEF Read
<1> QED
  BY <1>1, <1>2

LEMMA SeekContinues ==
  ASSUME Inv, NamesInv, PlaceInv, NEW h \in Handles, NEW ofs \in Nat, Seek(h, ofs)
  PROVE  Continues
<1>0. IsOpen(h) /\ Typed
  BY DEF Seek, Inv
<1>1. PICK i : i = inputs[h]
  OBVIOUS
<1>2. PICK j : j = IF ofs - i.pos \in 1..Len(i.buf) THEN [i EXCEPT !.used = ofs - i.pos]
                                                   ELSE Emptied(i, ofs)
  OBVIOUS
<1>3. i \in InputType
  BY <1>0, <1>1, InputKnown
<1>4. j \in InputType /\ j.id = i.id
  <2>1. CASE ofs - i.pos \in 1..Len(i.buf)
    <3>1. ofs - i.pos \in Nat
      BY <2>1, <1>3 DEF InputType
    <3> QED
      BY <3>1, <2>1, <1>2, <1>3 DEF InputType
  <2>2. CASE ~(ofs - i.pos \in 1..Len(i.buf))
    <3>1. j = Emptied(i, ofs)
      BY <2>2, <1>2
    <3> QED
      BY <3>1, <1>3, <<>> \in Seq(Data) DEF InputType, Emptied
  <2> QED
    BY <2>1, <2>2
<1>5. /\ inputs' = [inputs EXCEPT ![h] = j] /\ sought' = sought \cup {h} /\ aborted' = aborted
      /\ UNCHANGED <<content, received, table, fresh, allocated, outs, todo, client>>
  BY <1>1, <1>2 DEF Seek, Set, driver, call
<1>6. Shifts(h, j)
  BY <1>1, <1>4, <1>5 DEF Shifts
<1>7. PlaceInv' /\ Tracks
  BY <1>0, <1>5, <1>6, ShiftsPlaced, ShiftsTracks
<1>8. NamesInv'
  BY <1>5, <1>7, StillNames
<1> QED
  BY <1>5, <1>7, <1>8 DEF Continues

LEMMA SeekEndContinues ==
  ASSUME Inv, NamesInv, PlaceInv, NEW h \in Handles, SeekEnd(h)
  PROVE  Continues
<1>1. IsOpen(h) /\ inputs[h].size # -1 /\ Seek(h, inputs[h].size)
  BY DEF SeekEnd
<1>2. PICK ofs \in Nat : ofs = inputs[h].size
  BY <1>1, InputKnown DEF InputType
<1> QED
  BY <1>1, <1>2, SeekContinues

LEMMA UngetcContinues ==
  ASSUME Inv, NamesInv, PlaceInv, NEW h \in Handles, Ungetc(h)
  PROVE  Continues
<1>0. IsOpen(h) /\ inputs[h].used > 0 /\ Typed
  BY DEF Ungetc, Inv
<1>1. PICK i : i = inputs[h]
  OBVIOUS
<1>2. PICK j : j = [i EXCEPT !.used = @ - 1]
  OBVIOUS
<1>3. i \in InputType /\ i.used \in Nat /\ i.used - 1 \in Nat /\ i.pos \in Nat /\ i.file \in Files
  BY <1>0, <1>1, InputKnown DEF InputType
<1>4. /\ j \in InputType /\ j.id = i.id /\ j.file = i.file /\ j.buf = i.buf /\ j.pos = i.pos
      /\ j.used = i.used - 1
  BY <1>2, <1>3 DEF InputType
<1>5. /\ inputs' = [inputs EXCEPT ![h] = j] /\ sought' = sought /\ aborted' = aborted
      /\ UNCHANGED <<content, received, table, fresh, allocated, outs, todo, client>>
  BY <1>1, <1>2 DEF Ungetc, Set, driver, call
<1>6. Shifts(h, j)
  BY <1>1, <1>4, <1>5 DEF Shifts
<1>7. h \notin sought => Placed(j)
  <2> SUFFICES ASSUME h \notin sought PROVE Placed(j)
    OBVIOUS
  <2>1. Placed(i)
    BY <1>0, <1>1 DEF PlaceInv
  <2>2. content[i.file] \in Seq(Data)
    BY <1>0, <1>3 DEF Typed
  <2>3. i.pos + (i.used - 1) <= Len(content[i.file])
    BY <2>1, <2>2, <1>3 DEF Placed, At
  <2> QED
    BY <2>1, <2>3, <1>4 DEF Placed, At
<1>8. PlaceInv' /\ Tracks
  BY <1>0, <1>5, <1>6, <1>7, ShiftsPlaced, ShiftsTracks
<1>9. NamesInv'
  BY <1>5, <1>8, StillNames
<1> QED
  BY <1>5, <1>8, <1>9 DEF Continues

(* Output goes to a file that is open, or to stdout. *)
LEMMA OutputNamed ==
  ASSUME Inv, NamesInv, NEW o \in Outputs \cup {Stdout}, NEW n, Writable(o, n)
  PROVE  OutputId(IdOf(o))
<1>1. CASE o = Stdout
  BY <1>1 DEF OutputId, IdOf
<1>2. CASE o # Stdout
  <2>1. o \in Outputs /\ outs[o] # Closed /\ outs[o] \in Ids
    BY <1>2 DEF Writable, Inv, Typed
  <2> QED
    BY <2>1, <1>2 DEF OutputId, IdOf, NamesInv, OutputsKnown
<1> QED
  BY <1>1, <1>2

LEMMA SentContinues ==
  ASSUME NamesInv, PlaceInv, todo = <<>>, NEW r, Tidy(r), Sending(r),
         UNCHANGED <<driver, ids, aborted, sought>>
  PROVE  Continues
<1>1. UNCHANGED <<content, received, table, fresh, allocated, inputs, outs>>
  BY DEF driver, ids
<1>2. PlaceInv' /\ Tracks
  BY <1>1, StillPlaced
<1>3. NamesInv'
  BY <1>1, <1>2, SendNames
<1> QED
  BY <1>2, <1>3 DEF Continues

LEMMA OutputContinues ==
  ASSUME Inv, NamesInv, PlaceInv, NEW o \in Outputs \cup {Stdout},
         PutC(o) \/ \E n \in Writes : Write(o, n)
  PROVE  Continues
<1>0. client \in ClientType /\ ClientNamed(client)
  BY DEF Inv, Typed, NamesInv
<1>1. CASE PutC(o)
  <2>1. Writable(o, 1) /\ todo = <<>>
    BY <1>1 DEF PutC, Writable, Ready
  <2>2. Tidy(PutTo(client, IdOf(o), written[o] + 1))
    BY <1>0, <2>1, OutputNamed, PutTidy
  <2> QED
    BY <1>1, <2>1, <2>2, SentContinues DEF PutC
<1>2. CASE \E n \in Writes : Write(o, n)
  <2>0. PICK n \in Writes : Write(o, n)
    BY <1>2
  <2>1. Writable(o, n) /\ todo = <<>>
    BY <2>0 DEF Write, Writable, Ready
  <2>2. Tidy(AppendTo(client, IdOf(o), NextBytes(o, n)))
    BY <1>0, <2>1, OutputNamed, AppendTidy
  <2> QED
    BY <2>0, <2>1, <2>2, SentContinues DEF Write
<1> QED
  BY <1>1, <1>2

LEMMA FlushContinues ==
  ASSUME Inv, NamesInv, PlaceInv, Flush
  PROVE  Continues
<1>0. client \in ClientType /\ ClientNamed(client) /\ todo = <<>>
  BY ReadyFacts DEF Inv, Typed, NamesInv, Flush
<1>1. Tidy(Flushing(client, Flushed(client)))
  BY <1>0, FlushedNamed, FlushingTidy
<1> QED
  BY <1>0, <1>1, SentContinues DEF Flush

-----------------------------------------------------------------------------
(* Answers of the driver *)

(* A message is handled, the rest is still to be. *)
LEMMA TailNames ==
  ASSUME Typed, TodoInv, NamesInv, todo # <<>>, todo' = Tail(todo), todo[1].tag # "CLOS",
         UNCHANGED <<table, allocated, outs, client>>, DOMAIN received' = DOMAIN received, Tracks
  PROVE  NamesInv'
<1>1. todo \in Seq(Messages) /\ Len(todo) \in Nat /\ Len(todo') = Len(todo) - 1
  BY DEF Typed
<1>2. \A k \in 1..Len(todo') : k + 1 \in 1..Len(todo) /\ todo'[k] = todo[k + 1]
  BY TailSends
<1>3. \A k \in 1..Len(todo') : \E j \in 1..Len(todo) : todo'[k] = todo[j]
  BY <1>2
<1>4. \A k \in 1..Len(todo) : k = 1 \/ \E j \in 1..Len(todo') : todo'[j] = todo[k]
  <2> SUFFICES ASSUME NEW k \in 1..Len(todo), k # 1
               PROVE  \E j \in 1..Len(todo') : todo'[j] = todo[k]
    OBVIOUS
  <2>1. k - 1 \in 1..Len(todo') /\ (k - 1) + 1 = k
    BY <1>1
  <2>2. todo'[k - 1] = todo[(k - 1) + 1]
    BY <2>1, <1>2
  <2>3. todo'[k - 1] = todo[k]
    BY <2>1, <2>2
  <2> QED
    BY <2>1, <2>3
<1>5. \A k \in 1..Len(todo') : Named(todo[k])'
  BY <1>3 DEF NamesInv, Named
<1>6. ClientNamed(client)'
  BY DEF NamesInv, ClientNamed
<1>7. Flat'
  BY <1>3 DEF NamesInv, Flat
<1>8. \A k \in 1..Len(todo) : todo[k].tag = "CLOS" =>
        \E j \in 1..Len(todo') : todo'[j].tag = "CLOS" /\ todo'[j].id = todo[k].id
  BY <1>4
<1>9. \A o \in Outputs : outs'[o] = outs[o]
  OBVIOUS
<1> QED
  BY <1>5, <1>6, <1>7, <1>8, <1>9, NamesKept, Zenon

(* The head of the queue *)
LEMMA HeadNamed ==
  ASSUME Inv, NamesInv, todo # <<>>
  PROVE  Head(todo) = todo[1] /\ Named(Head(todo)) /\ Head(todo) \in Messages /\ aborted = "no"
<1>1. todo \in Seq(Messages) /\ aborted = "no"
  BY DEF Inv, Typed, Ended
<1>2. Head(todo) = todo[1] /\ 1 \in 1..Len(todo) /\ todo[1] \in Messages
  BY <1>1
<1> QED
  BY <1>1, <1>2 DEF NamesInv

(* Inputs that stay where they are, in files that stay what they are *)
LEMMA SamePlaced ==
  ASSUME PlaceInv, content' = content, fresh' \subseteq fresh, sought' = sought,
         \A g \in Handles : /\ IsOpen(g) <=> IsOpen(g)'
                            /\ IsOpen(g) => /\ inputs'[g].file = inputs[g].file
                                            /\ inputs'[g].pos = inputs[g].pos
                                            /\ inputs'[g].used = inputs[g].used
                                            /\ inputs'[g].buf = inputs[g].buf
  PROVE  PlaceInv'
BY DEF PlaceInv, Placed, At

LEMMA ToldTracks ==
  ASSUME Typed, inputs' = Told
  PROVE  /\ Tracks
         /\ \A g \in Handles : /\ IsOpen(g) <=> IsOpen(g)'
                               /\ IsOpen(g) => /\ inputs'[g].file = inputs[g].file
                                               /\ inputs'[g].pos = inputs[g].pos
                                               /\ inputs'[g].used = inputs[g].used
                                               /\ inputs'[g].buf = inputs[g].buf
BY ToldSame DEF Tracks, Same, IsOpen

LEMMA AnswerSeenContinues ==
  ASSUME Inv, NamesInv, PlaceInv, AnswerSeen
  PROVE  Continues
<1>1. PICK m : m = Head1
  OBVIOUS
<1>2. todo # <<>> /\ m.tag = "SEEN" /\ m = todo[1] /\ Named(m)
  BY <1>1, HeadNamed DEF AnswerSeen, Answering, Head1
<1>3. table[m.id] # Closed
  BY <1>2 DEF Named
<1>4. /\ todo' = Tail(todo) /\ aborted' = aborted
      /\ UNCHANGED <<content, received, table, fresh, allocated, inputs, outs, client, sought>>
  BY <1>1, <1>3 DEF AnswerSeen, ids, history
<1>5. PlaceInv' /\ Tracks
  BY <1>4, StillPlaced
<1>6. NamesInv'
  BY <1>2, <1>4, <1>5, TailNames DEF Inv
<1> QED
  BY <1>4, <1>5, <1>6 DEF Continues

LEMMA AnswerAppendContinues ==
  ASSUME Inv, NamesInv, PlaceInv, AnswerAppend
  PROVE  Continues
<1>1. PICK m : m = Head1
  OBVIOUS
<1>2. todo # <<>> /\ m.tag = "APND" /\ m = todo[1] /\ Named(m)
  BY <1>1, HeadNamed DEF AnswerAppend, Answering, Head1
<1>3. PICK o : o = IF m.id = -1 THEN Stdout ELSE table[m.id]
  OBVIOUS
<1>4. o \in DOMAIN received
  BY <1>2, <1>3 DEF Named, NamesInv
<1>5. /\ received' = [received EXCEPT ![o] = @ \o m.arg] /\ Answered /\ inputs' = Told
      /\ UNCHANGED <<content, table, fresh, allocated, outs, client, aborted, history>>
  BY <1>1, <1>3, <1>4 DEF AnswerAppend
<1>6. todo' = Tail(todo) /\ DOMAIN received' = DOMAIN received /\ sought' = sought
  BY <1>5 DEF Answered, history
<1>7. Tracks /\ PlaceInv'
  BY <1>5, <1>6, ToldTracks, SamePlaced DEF Inv
<1>8. NamesInv'
  BY <1>2, <1>5, <1>6, <1>7, TailNames DEF Inv
<1> QED
  BY <1>5, <1>7, <1>8 DEF Continues

LEMMA AnswerSizeContinues ==
  ASSUME Inv, NamesInv, PlaceInv, AnswerSize
  PROVE  Continues
<1>1. todo # <<>> /\ todo[1].tag = "SIZE" /\ Head(todo) = todo[1]
  BY HeadNamed DEF AnswerSize, Answering, Head1
<1>2. Typed /\ Fits(todo[1])
  BY <1>1, QueryFacts DEF Inv, Queries
<1>3. want # Closed /\ IsOpen(want.h)
  BY <1>1, <1>2 DEF Fits
<1>4. PICK h \in Handles : h = want.h
  BY <1>2, <1>3 DEF Typed, WantType
<1>5. PICK size : size = Len(content[table[Head1.id]])
  OBVIOUS
<1>6. size \in Nat /\ inputs' = [Told EXCEPT ![h].size = size]
  <2>1. inputs[h].id = todo[1].id /\ table[inputs[h].id] \in Files
    BY <1>1, <1>2, <1>3, <1>4, InputKnown DEF Fits
  <2>2. content[table[Head1.id]] \in Seq(Data)
    BY <2>1, <1>1, <1>2 DEF Typed, Head1
  <2> QED
    BY <2>2, <1>4, <1>5 DEF AnswerSize
<1>7. /\ todo' = Tail(todo) /\ aborted' = aborted
      /\ UNCHANGED <<content, received, table, fresh, allocated, outs, client, sought>>
  BY DEF AnswerSize, Answered, driver, history
<1>8. Told \in [Handles -> InputType \cup {Closed}] /\ IsOpen(h)
  BY <1>2, <1>3, <1>4, ToldSame
<1>9. \A g \in Handles : /\ IsOpen(g) <=> IsOpen(g)'
                         /\ IsOpen(g) => /\ inputs'[g].file = inputs[g].file
                                         /\ inputs'[g].id = inputs[g].id
                                         /\ inputs'[g].pos = inputs[g].pos
                                         /\ inputs'[g].used = inputs[g].used
                                         /\ inputs'[g].buf = inputs[g].buf
  <2> TAKE g \in Handles
  <2>1. CASE g # h
    BY <2>1, <1>2, <1>6, <1>8, ToldSame DEF Same, IsOpen
  <2>2. CASE g = h
    <3>1. Told[h] \in InputType /\ Same(Told[h], inputs[h])
      BY <1>2, <1>8, ToldSame DEF Same
    <3>2. inputs'[h] = [Told[h] EXCEPT !.size = size]
      BY <1>6, <1>8
    <3>3. /\ inputs'[h].file = Told[h].file /\ inputs'[h].pos = Told[h].pos
          /\ inputs'[h].used = Told[h].used /\ inputs'[h].buf = Told[h].buf
          /\ inputs'[h].id = Told[h].id
      BY <3>1, <3>2 DEF InputType
    <3>4. inputs'[h] \in InputType
      BY <3>1, <3>2, <1>6 DEF InputType
    <3>5. IsOpen(h)'
      BY <3>4, ClosedAssumption DEF IsOpen
    <3> QED
      BY <2>2, <3>1, <3>3, <3>5, <1>8 DEF Same
  <2> QED
    BY <2>1, <2>2
<1>10. Tracks /\ PlaceInv'
  BY <1>7, <1>9, SamePlaced DEF Tracks
<1>11. NamesInv'
  BY <1>1, <1>2, <1>7, <1>10, TailNames DEF Inv
<1> QED
  BY <1>7, <1>10, <1>11 DEF Continues

(* Files change where no input has been yet. *)
LEMMA ChangedPlaced ==
  ASSUME Inv, PlaceInv, aborted = "no", \A f, n : Reported(f, n) => seen[f] >= n,
         \A f \in Files : content'[f] \in Seq(Data) /\ Unnoticed(f, content'[f]),
         fresh' \subseteq fresh, sought' = sought,
         \A g \in Handles : /\ IsOpen(g) <=> IsOpen(g)'
                            /\ IsOpen(g) => /\ inputs'[g].file = inputs[g].file
                                            /\ inputs'[g].pos = inputs[g].pos
                                            /\ inputs'[g].used = inputs[g].used
                                            /\ inputs'[g].buf = inputs[g].buf
  PROVE  PlaceInv'
<1> SUFFICES ASSUME NEW g \in Handles, g \notin sought', IsOpen(g)' PROVE Placed(inputs[g])'
  BY DEF PlaceInv
<1>1. IsOpen(g) /\ Placed(inputs[g])
  BY DEF PlaceInv
<1>2. PICK f \in Files : f = inputs[g].file
  BY <1>1, InputKnown
<1>3. PICK n \in Nat : n = At(inputs[g])
  BY <1>1, InputKnown DEF At, InputType
<1>4. Reported(f, n)
  BY <1>1, <1>2, <1>3 DEF Inv, SeenInv
<1>5. PICK c \in Seq(Data) : c = content'[f]
  OBVIOUS
<1>6. PICK s \in Seq(Data) : s = content[f]
  BY DEF Inv, Typed
<1>7. seen[f] \in Int /\ seen[f] >= n
  BY <1>4 DEF Inv, Typed
<1>8. n <= Len(s)
  BY <1>1, <1>2, <1>3, <1>6 DEF Placed
<1>9. c = s \/ FirstDiff(s, c) > seen[f]
  BY <1>5, <1>6 DEF Unnoticed
<1>10. n <= Len(c)
  <2>1. CASE c = s
    BY <2>1, <1>8
  <2>2. CASE FirstDiff(s, c) > seen[f]
    <3>1. FirstDiff(s, c) \in Nat /\ FirstDiff(s, c) <= Len(c)
      BY DiffAgrees
    <3> QED
      BY <3>1, <2>2, <1>7
  <2> QED
    BY <2>1, <2>2, <1>9
<1>11. At(inputs'[g]) = n /\ inputs'[g].file = f
  BY <1>1, <1>2, <1>3 DEF At
<1> QED
  BY <1>1, <1>5, <1>10, <1>11 DEF Placed

LEMMA AnswerForkContinues ==
  ASSUME Inv, NamesInv, PlaceInv, AnswerFork
  PROVE  Continues
<1>1. Typed /\ todo # <<>> /\ Head(todo).tag \in Queries
  BY DEF AnswerFork, Answering, Head1, Inv, Queries
<1>2. aborted = "no" /\ \A f, n : Reported(f, n) => seen[f] >= n
  BY <1>1, QueryFacts
<1>3. /\ \A f \in Files : content'[f] \in Versions[f] \cup {content[f]} /\ Unnoticed(f, content'[f])
      /\ inputs' = Bumped(inputs) /\ fresh' \subseteq fresh /\ aborted' = aborted
      /\ UNCHANGED <<received, table, allocated, outs, client, todo, sought>>
  BY DEF AnswerFork
<1>4. \A f \in Files : content'[f] \in Seq(Data)
  <2> TAKE f \in Files
  <2>1. Versions[f] \subseteq Seq(Data) /\ content[f] \in Seq(Data)
    BY <1>1, WorkerIOAssumption DEF Typed
  <2> QED
    BY <2>1, <1>3
<1>5. \A g \in Handles : /\ IsOpen(g) <=> IsOpen(g)'
                         /\ IsOpen(g) => /\ inputs'[g].file = inputs[g].file
                                         /\ inputs'[g].pos = inputs[g].pos
                                         /\ inputs'[g].used = inputs[g].used
                                         /\ inputs'[g].buf = inputs[g].buf
                                         /\ inputs'[g].id = inputs[g].id
  BY <1>1, <1>3, BumpedSame, ClosedAssumption DEF IsOpen, Same
<1>6. PlaceInv' /\ Tracks
  BY <1>2, <1>3, <1>4, <1>5, ChangedPlaced DEF Tracks
<1>7. NamesInv'
  BY <1>3, <1>6, StillNames
<1> QED
  BY <1>3, <1>6, <1>7 DEF Continues

LEMMA ChangeContinues ==
  ASSUME Inv, NamesInv, PlaceInv, ~Interrupts, NEW f \in Files, NEW c \in Versions[f], Change(f, c)
  PROVE  Continues
<1>1. Typed /\ c \in Seq(Data)
  BY WorkerIOAssumption DEF Inv
<1>2. /\ todo # <<>> /\ Head(todo).tag # "SEEN" /\ client.seenPos = 0 /\ aborted' = aborted
      /\ Unnoticed(f, c) /\ content' = [content EXCEPT ![f] = c]
      /\ UNCHANGED <<received, table, fresh, allocated, inputs, outs, client, todo, sought>>
  BY DEF Change, Head1, ids
<1>3. aborted = "no" /\ Head(todo) = todo[1]
  BY <1>2, HeadNamed
<1>4. \A g, n : Reported(g, n) => seen[g] >= n
  BY <1>2, <1>3 DEF Reported
<1>5. \A g \in Files : content'[g] \in Seq(Data) /\ Unnoticed(g, content'[g])
  <2> TAKE g \in Files
  <2>1. content \in [Files -> Seq(Data)]
    BY <1>1 DEF Typed
  <2>2. CASE g = f
    BY <2>1, <2>2, <1>1, <1>2
  <2>3. CASE g # f
    <3>1. content'[g] = content[g]
      BY <2>1, <2>3, <1>2
    <3> QED
      BY <2>1, <3>1 DEF Unnoticed
  <2> QED
    BY <2>2, <2>3
<1>6. Tracks
  BY <1>2 DEF Tracks, IsOpen
<1>7. PlaceInv'
  BY <1>2, <1>3, <1>4, <1>5, ChangedPlaced DEF IsOpen
<1>8. NamesInv'
  BY <1>2, <1>6, StillNames
<1> QED
  BY <1>2, <1>7, <1>8 DEF Continues

(* A query is the last message; nothing waits to be sent. *)
LEMMA QueryDone ==
  ASSUME Inv, NamesInv, todo # <<>>, Head(todo).tag \in Queries
  PROVE  /\ client.seenPos = 0 /\ client.append = <<>> /\ aborted = "no"
         /\ \A k \in 1..Len(todo) : k = 1
         /\ Fits(Head(todo)) /\ Head(todo) \in Messages /\ Named(Head(todo)) /\ todo[1] = Head(todo)
         /\ Tail(todo) = <<>>
<1>1. /\ client.seenPos = 0 /\ Fits(Head(todo)) /\ Head(todo) \in Messages
      /\ Tail(todo) = <<>> /\ aborted = "no" /\ todo[1] = Head(todo)
  BY QueryFacts
<1>2. PICK s \in Seq(Messages) : s = todo /\ s # <<>>
  BY DEF Inv, Typed
<1>3. 1 \in 1..Len(s) /\ \A k \in 1..Len(s) : s[k].tag \in Queries => k = Len(s)
  BY <1>2 DEF Inv, TodoInv, Orderly
<1>4. Len(s) = 1
  BY <1>1, <1>2, <1>3
<1>5. client.append = <<>>
  BY <1>1, <1>2, <1>3 DEF NamesInv, Flat
<1> QED
  BY <1>1, <1>2, <1>4, <1>5, HeadNamed

(* Nothing is left to send. *)
LEMMA DoneNamed ==
  ASSUME client.seenPos = 0, client.append = <<>>, client' = client, todo' = <<>>
  PROVE  ClientNamed(client)' /\ Flat' /\ \A k \in 1..Len(todo') : Named(todo[k])'
<1>1. Len(todo') = 0
  OBVIOUS
<1>2. ClientNamed(client)'
  BY DEF ClientNamed
<1> QED
  BY <1>1, <1>2 DEF Flat

LEMMA AnswerOpenContinues ==
  ASSUME Inv, NamesInv, PlaceInv, AnswerOpen
  PROVE  Continues
<1>1. PICK m : m = Head1
  OBVIOUS
<1>2. Typed /\ todo # <<>> /\ m = Head(todo) /\ m.tag = "OPRD"
  BY <1>1 DEF AnswerOpen, Answering, Head1, Inv
<1>3. /\ client.seenPos = 0 /\ client.append = <<>> /\ Tail(todo) = <<>> /\ todo[1] = m
      /\ Fits(m) /\ m \in Messages /\ \A k \in 1..Len(todo) : k = 1
  BY <1>2, QueryDone DEF Queries
<1>4. want # Closed /\ ~IsOpen(want.h) /\ m.id \notin allocated
  BY <1>2, <1>3 DEF Fits
<1>5. PICK h \in Handles : h = want.h
  BY <1>2, <1>4 DEF Typed, WantType
<1>6. PICK f \in Files : f = m.arg
  BY <1>2, <1>3 DEF Messages
<1>7. PICK id \in Ids : id = m.id
  BY <1>2, <1>3 DEF Messages
<1>8. table[id] = Closed
  BY <1>4, <1>7 DEF NamesInv, Unused
<1>9. PICK j : j = Opened(f, id)
  OBVIOUS
<1>10. /\ table' = [table EXCEPT ![id] = f] /\ allocated' = allocated \cup {id}
       /\ inputs' = [Told EXCEPT ![h] = j] /\ sought' = sought \ {h} /\ todo' = <<>>
       /\ aborted' = aborted /\ UNCHANGED <<content, received, fresh, outs, client>>
  BY <1>1, <1>2, <1>3, <1>5, <1>6, <1>7, <1>8, <1>9 DEF AnswerOpen, Answered
<1>11. j.file = f /\ j.id = id /\ j.pos = 0 /\ j.buf = <<>> /\ At(j) = 0 /\ j # Closed
  <2>1. j = [file |-> f, id |-> id, pos |-> 0, buf |-> <<>>, used |-> 0, size |-> -1, current |-> TRUE]
    BY <1>9 DEF Opened
  <2>2. j \in InputType
    BY <2>1, <<>> \in Seq(Data) DEF InputType
  <2>3. j # Closed
    BY <2>2, ClosedAssumption
  <2>4. j.file = f /\ j.id = id /\ j.pos = 0 /\ j.buf = <<>> /\ j.used = 0
    BY <2>1
  <2> QED
    BY <2>3, <2>4 DEF At
<1>12. /\ inputs'[h] = j /\ IsOpen(h)'
       /\ \A g \in Handles : g # h => /\ IsOpen(g) <=> IsOpen(g)'
                                      /\ IsOpen(g) => Same(inputs'[g], inputs[g])
  BY <1>2, <1>10, <1>11, ToldSame DEF IsOpen
<1>13. table \in [Ids -> Files \cup Outputs \cup {Closed}] /\ outs \in [Outputs -> Ids \cup {Closed}]
  BY <1>2 DEF Typed
<1>14. table'[id] = f /\ \A x \in Ids : x # id => table'[x] = table[x]
  BY <1>10, <1>13
<1>15. Unused'
  BY <1>10, <1>14 DEF NamesInv, Unused
<1>16. OutputsKnown'
  <2> SUFFICES ASSUME NEW o \in Outputs, outs'[o] # Closed PROVE table'[outs'[o]] = o
    BY DEF OutputsKnown
  <2>1. outs'[o] = outs[o] /\ outs[o] \in Ids /\ outs[o] \in allocated /\ table[outs[o]] = o
    BY <1>10, <1>13 DEF Inv, IdsInv, NamesInv, OutputsKnown
  <2> QED
    BY <2>1, <1>4, <1>7, <1>14
<1>17. ASSUME NEW x \in Ids, table'[x] # Closed
       PROVE  Owned(x)'
  <2>1. CASE x = id
    BY <2>1, <1>11, <1>12 DEF Owned
  <2>2. CASE x # id
    <3>1. Owned(x)
      BY <2>2, <1>14, <1>17 DEF NamesInv
    <3>2. CASE \E g \in Handles : IsOpen(g) /\ inputs[g].id = x
      <4>1. PICK g \in Handles : IsOpen(g) /\ inputs[g].id = x
        BY <3>2
      <4>2. g # h
        BY <4>1, <1>4, <1>5 DEF IsOpen
      <4>3. IsOpen(g)' /\ inputs'[g].id = x
        BY <4>1, <4>2, <1>12 DEF Same
      <4> QED
        BY <4>3 DEF Owned
    <3>3. CASE \E o \in Outputs : outs[o] = x
      BY <3>3, <1>10 DEF Owned
    <3>4. CASE \E k \in 1..Len(todo) : todo[k].tag = "CLOS" /\ todo[k].id = x
      BY <3>4, <1>2, <1>3
    <3> QED
      BY <3>1, <3>2, <3>3, <3>4 DEF Owned
  <2> QED
    BY <2>1, <2>2
<1>18. ClientNamed(client)' /\ Flat' /\ \A k \in 1..Len(todo') : Named(todo[k])'
  BY <1>3, <1>10, DoneNamed
<1>19. NamesInv'
  BY <1>10, <1>15, <1>16, <1>17, <1>18 DEF NamesInv
<1>20. PlaceInv'
  <2> SUFFICES ASSUME NEW g \in Handles, g \notin sought', IsOpen(g)' PROVE Placed(inputs[g])'
    BY DEF PlaceInv
  <2>1. CASE g = h
    <3>1. content[f] \in Seq(Data)
      BY <1>2 DEF Typed
    <3>2. 0 <= Len(content[f])
      BY <3>1
    <3> QED
      BY <2>1, <3>2, <1>10, <1>11, <1>12 DEF Placed
  <2>2. CASE g # h
    <3>1. IsOpen(g) /\ g \notin sought /\ Same(inputs'[g], inputs[g])
      BY <2>2, <1>10, <1>12
    <3>2. Placed(inputs[g])
      BY <3>1 DEF PlaceInv
    <3> QED
      BY <3>1, <3>2, <1>10 DEF Placed, Same, At
  <2> QED
    BY <2>1, <2>2
<1> QED
  BY <1>10, <1>19, <1>20 DEF Continues

LEMMA AnswerOpenWriteContinues ==
  ASSUME Inv, NamesInv, PlaceInv, AnswerOpenWrite
  PROVE  Continues
<1>1. PICK m : m = Head1
  OBVIOUS
<1>2. Typed /\ todo # <<>> /\ m = Head(todo) /\ m.tag = "OPWR"
  BY <1>1 DEF AnswerOpenWrite, Answering, Head1, Inv
<1>3. /\ client.seenPos = 0 /\ client.append = <<>> /\ Tail(todo) = <<>> /\ todo[1] = m
      /\ Fits(m) /\ m \in Messages /\ Named(m) /\ \A k \in 1..Len(todo) : k = 1
  BY <1>2, QueryDone DEF Queries
<1>4. m.id \notin allocated
  BY <1>2, <1>3 DEF Fits
<1>5. PICK o \in Outputs : o = m.arg
  BY <1>2, <1>3 DEF Messages
<1>6. outs[o] = Closed
  BY <1>2, <1>3, <1>5 DEF Named
<1>7. PICK id \in Ids : id = m.id
  BY <1>2, <1>3 DEF Messages
<1>8. table[id] = Closed
  BY <1>4, <1>7 DEF NamesInv, Unused
<1>10. /\ table' = [table EXCEPT ![id] = o] /\ allocated' = allocated \cup {id}
       /\ received' = [received EXCEPT ![o] = <<>>] /\ outs' = [outs EXCEPT ![o] = id]
       /\ inputs' = Told /\ todo' = <<>> /\ sought' = sought
       /\ aborted' = aborted /\ UNCHANGED <<content, fresh, client>>
  BY <1>1, <1>2, <1>3, <1>5, <1>7, <1>8 DEF AnswerOpenWrite, Answered
<1>12. Tracks /\ PlaceInv'
  BY <1>2, <1>10, ToldTracks, SamePlaced
<1>13. /\ table \in [Ids -> Files \cup Outputs \cup {Closed}] /\ outs \in [Outputs -> Ids \cup {Closed}]
       /\ Closed \notin Ids
  BY <1>2, WorkerIOAssumption DEF Typed
<1>14. /\ table'[id] = o /\ \A x \in Ids : x # id => table'[x] = table[x]
       /\ outs'[o] = id /\ \A p \in Outputs : p # o => outs'[p] = outs[p]
  BY <1>10, <1>13
<1>15. Unused'
  BY <1>10, <1>14 DEF NamesInv, Unused
<1>16. OutputsKnown'
  <2> SUFFICES ASSUME NEW p \in Outputs, outs'[p] # Closed PROVE table'[outs'[p]] = p
    BY DEF OutputsKnown
  <2>1. CASE p = o
    BY <2>1, <1>14
  <2>2. CASE p # o
    <3>1. outs'[p] = outs[p] /\ outs[p] \in Ids /\ outs[p] \in allocated /\ table[outs[p]] = p
      BY <2>2, <1>13, <1>14 DEF Inv, IdsInv, NamesInv, OutputsKnown
    <3> QED
      BY <3>1, <1>4, <1>7, <1>14
  <2> QED
    BY <2>1, <2>2
<1>17. ASSUME NEW x \in Ids, table'[x] # Closed
       PROVE  Owned(x)'
  <2>1. CASE x = id
    BY <2>1, <1>14 DEF Owned
  <2>2. CASE x # id
    <3>1. Owned(x)
      BY <2>2, <1>14, <1>17 DEF NamesInv
    <3>2. CASE \E g \in Handles : IsOpen(g) /\ inputs[g].id = x
      BY <3>2, <1>12 DEF Owned, Tracks
    <3>3. CASE \E p \in Outputs : outs[p] = x
      <4>1. PICK p \in Outputs : outs[p] = x
        BY <3>3
      <4>2. p # o
        BY <4>1, <1>6, <1>13
      <4> QED
        BY <4>1, <4>2, <1>14 DEF Owned
    <3>4. CASE \E k \in 1..Len(todo) : todo[k].tag = "CLOS" /\ todo[k].id = x
      BY <3>4, <1>2, <1>3
    <3> QED
      BY <3>1, <3>2, <3>3, <3>4 DEF Owned
  <2> QED
    BY <2>1, <2>2
<1>18. ClientNamed(client)' /\ Flat' /\ \A k \in 1..Len(todo') : Named(todo[k])'
  BY <1>3, <1>10, DoneNamed
<1>19. DOMAIN received' = Outputs \cup {Stdout}
  BY <1>10 DEF NamesInv
<1>20. NamesInv'
  BY <1>15, <1>16, <1>17, <1>18, <1>19 DEF NamesInv
<1> QED
  BY <1>10, <1>12, <1>20 DEF Continues

LEMMA AnswerCloseContinues ==
  ASSUME Inv, NamesInv, PlaceInv, AnswerClose
  PROVE  \/ Continues
         \/ Die("release") /\ \E h \in Handles : IsOpen(h) /\ ReleaseAborts(inputs[h].id)
<1>1. PICK m : m = Head1
  OBVIOUS
<1>2. Typed /\ todo # <<>> /\ m = Head(todo) /\ m.tag = "CLOS"
  BY <1>1 DEF AnswerClose, Answering, Head1, Inv
<1>3. /\ client.seenPos = 0 /\ client.append = <<>> /\ Tail(todo) = <<>> /\ todo[1] = m
      /\ Fits(m) /\ m \in Messages /\ Named(m) /\ \A k \in 1..Len(todo) : k = 1
  BY <1>2, QueryDone DEF Queries
<1>4. PICK id \in Ids : id = m.id
  BY <1>2, <1>3 DEF Messages
<1>5. table[id] # Closed /\ \A o \in Outputs : outs[o] # id
  BY <1>2, <1>3, <1>4 DEF Named
<1>6. CASE want # Closed /\ ReleaseAborts(id) /\ Die("release")
  <2>1. PICK h \in Handles : h = want.h
    BY <1>2, <1>6 DEF Typed, WantType
  <2>2. IsOpen(h) /\ inputs[h].id = id
    BY <2>1, <1>2, <1>3, <1>4, <1>6 DEF Fits
  <2> QED
    BY <2>2, <1>6
<1>7. CASE /\ table' = [table EXCEPT ![id] = Closed]
           /\ allocated' = IF want # Closed THEN allocated \ {id} ELSE allocated
           /\ inputs' = IF want # Closed THEN [Told EXCEPT ![want.h] = Closed] ELSE Told
           /\ Answered
           /\ UNCHANGED <<content, seen, received, fresh, outs, client, aborted, history>>
  <2>1. /\ table' = [table EXCEPT ![id] = Closed]
        /\ allocated' = IF want # Closed THEN allocated \ {id} ELSE allocated
        /\ inputs' = IF want # Closed THEN [Told EXCEPT ![want.h] = Closed] ELSE Told
        /\ todo' = <<>>
        /\ UNCHANGED <<content, received, fresh, outs, client, aborted, sought>>
    BY <1>3, <1>7 DEF Answered, history
  <2>2. \A g \in Handles :
          /\ IsOpen(g)' => IsOpen(g) /\ Same(inputs'[g], inputs[g])
          /\ IsOpen(g) /\ inputs[g].id # id => IsOpen(g)'
    <3>1. CASE want = Closed
      BY <3>1, <1>2, <2>1, ToldSame DEF IsOpen
    <3>2. CASE want # Closed
      <4>1. PICK h \in Handles : h = want.h
        BY <3>2, <1>2 DEF Typed, WantType
      <4>2. IsOpen(h) /\ inputs[h].id = id
        BY <3>2, <4>1, <1>2, <1>3, <1>4 DEF Fits
      <4>3. inputs' = [Told EXCEPT ![h] = Closed]
        BY <3>2, <4>1, <2>1
      <4> QED
        BY <4>2, <4>3, <1>2, ToldSame DEF IsOpen
    <3> QED
      BY <3>1, <3>2
  <2>3. table \in [Ids -> Files \cup Outputs \cup {Closed}] /\ outs \in [Outputs -> Ids \cup {Closed}]
    BY <1>2 DEF Typed
  <2>4. table'[id] = Closed /\ \A x \in Ids : x # id => table'[x] = table[x]
    BY <2>1, <2>3
  <2>5. Unused'
    <3> SUFFICES ASSUME NEW x \in Ids, x \notin allocated' PROVE table'[x] = Closed
      BY DEF Unused
    <3>1. x = id \/ x \notin allocated
      BY <2>1
    <3> QED
      BY <3>1, <2>4 DEF NamesInv, Unused
  <2>6. OutputsKnown'
    <3> SUFFICES ASSUME NEW o \in Outputs, outs'[o] # Closed PROVE table'[outs'[o]] = o
      BY DEF OutputsKnown
    <3>1. outs'[o] = outs[o] /\ outs[o] \in Ids /\ table[outs[o]] = o /\ outs[o] # id
      BY <1>5, <2>1, <2>3 DEF NamesInv, OutputsKnown
    <3> QED
      BY <3>1, <2>4
  <2>7. ASSUME NEW x \in Ids, table'[x] # Closed
        PROVE  Owned(x)'
    <3>1. x # id /\ Owned(x)
      BY <2>4, <2>7 DEF NamesInv
    <3>2. CASE \E g \in Handles : IsOpen(g) /\ inputs[g].id = x
      <4>1. PICK g \in Handles : IsOpen(g) /\ inputs[g].id = x
        BY <3>2
      <4>2. IsOpen(g)' /\ inputs'[g].id = x
        BY <4>1, <3>1, <2>2 DEF Same
      <4> QED
        BY <4>2 DEF Owned
    <3>3. CASE \E o \in Outputs : outs[o] = x
      BY <3>3, <2>1 DEF Owned
    <3>4. CASE \E k \in 1..Len(todo) : todo[k].tag = "CLOS" /\ todo[k].id = x
      BY <3>1, <3>4, <1>3, <1>4
    <3> QED
      BY <3>1, <3>2, <3>3, <3>4 DEF Owned
  <2>8. ClientNamed(client)' /\ Flat' /\ \A k \in 1..Len(todo') : Named(todo[k])'
    BY <1>3, <2>1, DoneNamed
  <2>9. NamesInv'
    BY <2>1, <2>5, <2>6, <2>7, <2>8 DEF NamesInv
  <2>10. PlaceInv'
    <3> SUFFICES ASSUME NEW g \in Handles, g \notin sought', IsOpen(g)' PROVE Placed(inputs[g])'
      BY DEF PlaceInv
    <3>1. IsOpen(g) /\ g \notin sought /\ Same(inputs'[g], inputs[g])
      BY <2>1, <2>2
    <3>2. Placed(inputs[g])
      BY <3>1 DEF PlaceInv
    <3> QED
      BY <3>1, <3>2, <2>1 DEF Placed, Same, At
  <2> QED
    BY <2>1, <2>9, <2>10 DEF Continues
<1>8. Head1.id = id
  BY <1>1, <1>4
<1> QED
  BY <1>5, <1>6, <1>7, <1>8, Zenon DEF AnswerClose

LEMMA AnswerReadContinues ==
  ASSUME Inv, NamesInv, PlaceInv, NEW n \in Nat, AnswerRead(n)
  PROVE  Continues \/ ((Die("early") \/ Die("past")) /\ sought # {})
<1>1. todo # <<>> /\ Head(todo).tag \in Queries /\ Head(todo).tag = "READ" /\ Head1 = Head(todo)
  BY DEF AnswerRead, Answering, Head1, Queries
<1>2. client.append = <<>> /\ client.seenPos = 0 /\ Fits(Head(todo)) /\ aborted = "no"
      /\ \A k \in 1..Len(todo) : k = 1 /\ todo[1] = Head(todo)
  BY <1>1, QueryDone
<1>3. want # Closed /\ IsOpen(want.h) /\ Head(todo).id = inputs[want.h].id
      /\ inputs[want.h].used = 0
  BY <1>1, <1>2 DEF Fits
<1>4. PICK h \in Handles : h = want.h
  BY <1>3 DEF Inv, Typed, WantType
<1>5. Typed /\ IsOpen(h) /\ Same(Told[h], inputs[h]) /\ table[Head1.id] = inputs[h].file
  BY <1>1, <1>3, <1>4, ToldSame, InputKnown DEF Inv
<1>6. CASE Die("early") \/ Die("past")
  <2>1. SUFFICES ASSUME sought = {} PROVE FALSE
    BY <1>6
  <2>2. Placed(inputs[h]) /\ inputs[h] \in InputType
    BY <2>1, <1>5, InputKnown DEF PlaceInv
  <2>3. PICK pos \in Nat : pos = inputs[h].pos /\ pos = Told[h].pos
    BY <2>2, <1>5 DEF InputType, Same
  <2>4. PICK f \in Files : f = inputs[h].file
    BY <2>2 DEF InputType
  <2>5. pos <= Len(content[f]) /\ (pos > 0 => f \notin fresh) /\ content[f] \in Seq(Data)
    BY <2>2, <2>3, <2>4, <1>3, <1>4, <1>5 DEF Placed, At, Typed
  <2>6. ~Early(f, pos) /\ ~(Len(content[f]) - pos < 0)
    BY <2>5 DEF Early
  <2>7. aborted' # aborted
    BY <1>2, <1>6 DEF Die
  <2>8. \/ n = 0 /\ Early(f, pos)
        \/ n = 0 /\ ~Early(f, pos) /\ Len(content[f]) - pos < 0
        \/ UNCHANGED aborted
    <3>1. Told[want.h].pos = pos /\ table[Head1.id] = f
      BY <2>3, <2>4, <1>4, <1>5
    <3> QED
      BY <3>1, Zenon DEF AnswerRead
  <2> QED
    BY <2>6, <2>7, <2>8
<1>7. CASE ~(Die("early") \/ Die("past"))
  <2>0. PICK m : \E g \in Handles, f \in Files, pos \in Nat :
                   ReadAsked(m, g, f, pos) /\ ReadAnswered(n, m, g, f, pos)
    BY <1>7, ReadQuery
  <2>1. PICK g \in Handles, f \in Files, pos \in Nat :
          ReadAsked(m, g, f, pos) /\ ReadAnswered(n, m, g, f, pos)
    BY <2>0
  <2>2. PICK kept, taken, t : ReadShaped(n, m, g, f, pos, kept, taken, t)
    BY <2>1, ReadShape
  <2>3. g = h /\ f = inputs[h].file /\ pos = inputs[h].pos
    BY <2>1, <1>4 DEF ReadAsked
  <2>4. /\ kept \in InputType /\ kept.id = inputs[h].id /\ kept.file = f
        /\ At(kept) = pos + t /\ t \in 0..n /\ pos + n <= Len(content[f])
        /\ inputs'[h] = kept /\ \A x \in Handles : x # h => inputs'[x] = Told[x]
    BY <2>2, <2>3 DEF ReadShaped
  <2>5. /\ fresh' = fresh \ {f} /\ UNCHANGED <<content, table, allocated, outs, aborted, sought>>
    BY <2>1, Zenon DEF ReadAnswered
  <2>6. received' = received
    BY <1>7 DEF AnswerRead
  <2>7. \A x \in Handles : /\ IsOpen(x) <=> IsOpen(x)'
                           /\ IsOpen(x) => inputs'[x].id = inputs[x].id
                           /\ IsOpen(x) /\ x # h => Same(inputs'[x], inputs[x])
    BY <1>5, <2>4, ToldSame, ClosedAssumption DEF IsOpen, Same
  <2>8. PlaceInv'
    <3> SUFFICES ASSUME NEW x \in Handles, x \notin sought', IsOpen(x)' PROVE Placed(inputs[x])'
      BY DEF PlaceInv
    <3>1. CASE x = h
      <4>1. content[f] \in Seq(Data)
        BY <1>5 DEF Typed
      <4>2. pos + t <= Len(content[f])
        BY <4>1, <2>4
      <4> QED
        BY <3>1, <4>2, <2>4, <2>5 DEF Placed
    <3>2. CASE x # h
      <4>1. IsOpen(x) /\ x \notin sought /\ Same(inputs'[x], inputs[x])
        BY <3>2, <2>5, <2>7
      <4>2. Placed(inputs[x])
        BY <4>1 DEF PlaceInv
      <4> QED
        BY <4>1, <4>2, <2>5 DEF Placed, Same, At
    <3> QED
      BY <3>1, <3>2
  <2>9. Tracks
    BY <2>7 DEF Tracks
  <2>10. IF want.op = "getc" /\ n = 0
         THEN todo' = <<>> /\ UNCHANGED client
         ELSE Sending(Seen(client, inputs[h].id, pos + t))
    BY <2>2, <2>3, Zenon DEF ReadShaped
  <2>11. /\ \A k \in 1..Len(todo') : Named(todo[k])'
         /\ ClientNamed(client)' /\ Flat'
    <3>1. CASE want.op = "getc" /\ n = 0
      BY <3>1, <2>10, <1>2, DoneNamed
    <3>2. CASE ~(want.op = "getc" /\ n = 0)
      <4>1. PICK r : r = Seen(client, inputs[h].id, pos + t)
        OBVIOUS
      <4>2. client \in ClientType /\ ClientNamed(client) /\ pos + t \in Nat
        BY <2>4, <1>5 DEF Typed, NamesInv
      <4>3. Tidy(r) /\ client' = r.client /\ todo' = r.msgs
        BY <4>1, <4>2, <3>2, <2>10, <1>5, InputKnown, SeenTidy DEF Sending
      <4>4. \A k \in 1..Len(todo') : Named(todo'[k]) /\ todo'[k].tag \notin Queries
        BY <4>3 DEF Tidy
      <4>5. \A k \in 1..Len(todo') : Named(todo[k])'
        BY <4>4, <2>5 DEF Named
      <4>6. ClientNamed(client)'
        BY <4>3, <2>5 DEF Tidy, ClientNamed
      <4> QED
        BY <4>4, <4>5, <4>6 DEF Flat
    <3> QED
      BY <3>1, <3>2
  <2>12. \A k \in 1..Len(todo) : todo[k].tag # "CLOS"
    BY <1>1, <1>2
  <2>13. NamesInv'
    BY <2>5, <2>6, <2>9, <2>11, <2>12, NamesKept
  <2> QED
    BY <2>5, <2>8, <2>13 DEF Continues
<1> QED
  BY <1>6, <1>7

-----------------------------------------------------------------------------
(* Steps *)

(* Something is left to be opened. *)
SomeClosed == (\E h \in Handles : ~IsOpen(h)) \/ (\E o \in Outputs : outs[o] = Closed)

(* A step goes on, or gives up for a reason. *)
LEMMA StepContinues ==
  ASSUME Inv, NamesInv, PlaceInv, ~Interrupts, Next
  PROVE  \/ Continues
         \/ Free = {} /\ Die("ids") /\ todo = <<>> /\ SomeClosed
         \/ Die("release") /\ \E h \in Handles : IsOpen(h) /\ ReleaseAborts(inputs[h].id)
         \/ (Die("early") \/ Die("past")) /\ sought # {}
<1> DEFINE Reason ==
             \/ Continues
             \/ Free = {} /\ Die("ids") /\ todo = <<>> /\ SomeClosed
             \/ Die("release") /\ \E h \in Handles : IsOpen(h) /\ ReleaseAborts(inputs[h].id)
             \/ (Die("early") \/ Die("past")) /\ sought # {}
<1>0. Continues => Reason
  OBVIOUS
<1>1. \A h \in Handles, f \in Files : Open(h, f) => Reason
  BY OpenContinues, ReadyFacts DEF Open, SomeClosed
<1>2. \A h \in Handles, n \in Reads : Read(h, n) => Continues
  BY ReadingContinues
<1>3. \A h \in Handles, n \in Seeks : Seek(h, n) => Continues
  BY SeekContinues, WorkerIOAssumption
<1>4. \A h \in Handles : Close(h) \/ GetC(h) \/ GetSize(h) \/ SeekEnd(h) \/ Ungetc(h) => Continues
  BY CloseContinues, GetCContinues, GetSizeContinues, SeekEndContinues, UngetcContinues
<1>5. ReadMore => Continues
  BY ReadingContinues
<1>6. \A o \in Outputs : OpenWrite(o) => Reason
  BY OpenWriteContinues, ReadyFacts DEF OpenWrite, SomeClosed
<1>7. \A o \in Outputs : CloseWrite(o) => Continues
  BY CloseWriteContinues
<1>8. \A o \in Outputs \cup {Stdout} : PutC(o) \/ (\E n \in Writes : Write(o, n)) => Continues
  BY OutputContinues
<1>9. Flush => Continues
  BY FlushContinues
<1>10. AnswerSeen \/ AnswerAppend \/ AnswerOpen \/ AnswerOpenWrite \/ AnswerSize \/ AnswerFork => Continues
  BY AnswerSeenContinues, AnswerAppendContinues, AnswerOpenContinues, AnswerOpenWriteContinues,
     AnswerSizeContinues, AnswerForkContinues
<1>11. AnswerClose => Reason
  BY AnswerCloseContinues
<1>12. \A n \in UNION {0..size : size \in Reads \cup {BufSize}} : AnswerRead(n) => Reason
  <2>1. UNION {0..size : size \in Reads \cup {BufSize}} \subseteq Nat
    BY WorkerIOAssumption
  <2> QED
    BY <2>1, AnswerReadContinues
<1>13. \A f \in Files : \A c \in Versions[f] : Change(f, c) => Continues
  BY ChangeContinues
<1> HIDE DEF Reason
<1>14. Reason
  BY <1>0, <1>1, <1>2, <1>3, <1>4, <1>5, <1>6, <1>7, <1>8, <1>9, <1>10, <1>11, <1>12, <1>13, Zenon
     DEF Next
<1> QED
  BY <1>14 DEF Reason

(* What gave up takes no step. *)
LEMMA NextNotAborted ==
  ASSUME Inv, Next
  PROVE  aborted = "no"
<1>1. aborted # "no" => todo = <<>> /\ want = Closed
  BY DEF Inv, Ended
<1>2. Ready => aborted = "no"
  BY DEF Ready
<1>3. \A h \in Handles, f \in Files : Open(h, f) => Ready
  BY DEF Open
<1>4. \A h \in Handles, n \in Reads \cup Seeks : Read(h, n) \/ Seek(h, n) => Ready
  BY DEF Read, Seek
<1>5. \A h \in Handles : Close(h) \/ GetC(h) \/ GetSize(h) \/ SeekEnd(h) \/ Ungetc(h) => Ready
  BY DEF Close, GetC, GetSize, SeekEnd, Seek, Ungetc
<1>6. ReadMore => aborted = "no"
  BY <1>1 DEF ReadMore
<1>7. \A o \in Outputs : OpenWrite(o) \/ CloseWrite(o) => Ready
  BY DEF OpenWrite, CloseWrite
<1>8. \A o \in Outputs \cup {Stdout} : PutC(o) \/ (\E n \in Writes : Write(o, n)) => Ready
  BY DEF PutC, Write, Writable
<1>9. Flush => Ready
  BY DEF Flush
<1>10. AnswerSeen \/ AnswerAppend \/ AnswerOpen \/ AnswerOpenWrite \/ AnswerClose \/ AnswerSize
       \/ AnswerFork => aborted = "no"
  BY <1>1 DEF AnswerSeen, AnswerAppend, AnswerOpen, AnswerOpenWrite, AnswerClose, AnswerSize,
              AnswerFork, Answering
<1>11. \A n \in UNION {0..size : size \in Reads \cup {BufSize}} : AnswerRead(n) => aborted = "no"
  BY <1>1 DEF AnswerRead, Answering
<1>12. \A f \in Files : \A c \in Versions[f] : Change(f, c) => aborted = "no"
  BY <1>1 DEF Change
<1> QED
  BY <1>2, <1>3, <1>4, <1>5, <1>6, <1>7, <1>8, <1>9, <1>10, <1>11, <1>12, Zenon DEF Next

-----------------------------------------------------------------------------
(* Reasons *)

(* There are as many ids as what can be open at once. *)
Roomy ==
  /\ IsFiniteSet(Outputs)
  /\ Cardinality(Handles) + Cardinality(Outputs) <= Cells * CellBits

(* When no id is free for what is being opened, some are held by what was   *)
(* closed.                                                                  *)
LEMMA IdHeld ==
  ASSUME Inv, NamesInv, Roomy, Free = {}, todo = <<>>, SomeClosed
  PROVE  \E id \in allocated : table[id] = Closed
<1> SUFFICES ASSUME \A id \in allocated : table[id] # Closed PROVE FALSE
  OBVIOUS
<1> DEFINE HS == {h \in Handles : IsOpen(h)}
           OS == {o \in Outputs : outs[o] # Closed}
           Named1 == {inputs[h].id : h \in HS}
           Named2 == {outs[o] : o \in OS}
           F1 == [h \in HS |-> inputs[h].id]
           F2 == [o \in OS |-> outs[o]]
<1>1. \A id \in Ids : id \in allocated
  BY DEF Free
<1>2. \A id \in Ids : \/ \E h \in HS : inputs[h].id = id
                      \/ \E o \in OS : outs[o] = id
  BY <1>1, WorkerIOAssumption DEF NamesInv, Owned
<1>3. F1 \in Surjection(HS, Named1)
  BY DEF Surjection
<1>4. F2 \in Surjection(OS, Named2)
  BY DEF Surjection
<1>5. IsFiniteSet(Handles) /\ IsFiniteSet(Outputs)
  BY WorkerIOAssumption DEF Roomy
<1>18. /\ IsFiniteSet(HS) /\ Cardinality(HS) <= Cardinality(Handles)
       /\ IsFiniteSet(OS) /\ Cardinality(OS) <= Cardinality(Outputs)
  BY <1>5, FS_Subset
<1>6. IsFiniteSet(Named1) /\ Cardinality(Named1) <= Cardinality(HS)
  BY <1>3, <1>18, FS_Surjection, Zenon DEF ExistsSurjection
<1>7. IsFiniteSet(Named2) /\ Cardinality(Named2) <= Cardinality(OS)
  BY <1>4, <1>18, FS_Surjection, Zenon DEF ExistsSurjection
<1>8. Ids \subseteq Named1 \cup Named2
  BY <1>2
<1> HIDE DEF Named1, Named2
<1>16. /\ Cardinality(Named1) \in Nat /\ Cardinality(Named2) \in Nat
       /\ Cardinality(HS) \in Nat /\ Cardinality(OS) \in Nat
       /\ Cardinality(Handles) \in Nat /\ Cardinality(Outputs) \in Nat
  BY <1>5, <1>6, <1>7, <1>18, FS_CardinalityType
<1>19. Cardinality(HS) + Cardinality(OS) < Cardinality(Handles) + Cardinality(Outputs)
  <2>1. CASE \E h \in Handles : ~IsOpen(h)
    <3>1. PICK h \in Handles : ~IsOpen(h)
      BY <2>1
    <3>2. /\ IsFiniteSet(Handles \ {h})
          /\ Cardinality(Handles \ {h}) = Cardinality(Handles) - 1
      BY <3>1, <1>5, FS_RemoveElement
    <3>3. HS \subseteq Handles \ {h}
      BY <3>1
    <3>4. Cardinality(HS) <= Cardinality(Handles \ {h})
      BY <3>2, <3>3, FS_Subset
    <3> HIDE DEF HS, OS
    <3> QED
      BY <3>2, <3>4, <1>16, <1>18
  <2>2. CASE \E o \in Outputs : outs[o] = Closed
    <3>1. PICK o \in Outputs : outs[o] = Closed
      BY <2>2
    <3>2. /\ IsFiniteSet(Outputs \ {o})
          /\ Cardinality(Outputs \ {o}) = Cardinality(Outputs) - 1
      BY <3>1, <1>5, FS_RemoveElement
    <3>3. OS \subseteq Outputs \ {o}
      BY <3>1
    <3>4. Cardinality(OS) <= Cardinality(Outputs \ {o})
      BY <3>2, <3>3, FS_Subset
    <3> HIDE DEF HS, OS
    <3> QED
      BY <3>2, <3>4, <1>16, <1>18
  <2> QED
    BY <2>1, <2>2 DEF SomeClosed
<1> HIDE DEF HS, OS
<1>9. /\ IsFiniteSet(Named1 \cup Named2)
      /\ Cardinality(Named1 \cup Named2)
           = Cardinality(Named1) + Cardinality(Named2) - Cardinality(Named1 \cap Named2)
  BY <1>6, <1>7, FS_Union
<1>10. Cardinality(Ids) <= Cardinality(Named1 \cup Named2)
  BY <1>8, <1>9, FS_Subset
<1>11. IsFiniteSet(Named1 \cap Named2) /\ Cardinality(Named1 \cap Named2) \in Nat
  BY <1>6, FS_Subset, FS_CardinalityType
<1>12. PICK c : c = Cells * CellBits
  OBVIOUS
<1>13. c \in Nat
  <2>1. Cells \in Nat /\ CellBits \in Nat
    BY WorkerIOAssumption
  <2> QED
    BY <2>1, <1>12
<1>14. Cardinality(0..(c - 1)) = c
  BY <1>13, FS_Interval
<1>15. Cardinality(Ids) = c
  BY <1>12, <1>14 DEF Ids
<1>17. Cardinality(Handles) + Cardinality(Outputs) <= c
  BY <1>12 DEF Roomy
<1> QED
  BY <1>6, <1>7, <1>9, <1>10, <1>11, <1>13, <1>15, <1>16, <1>17, <1>19

(* The bit of an id that an int has is the one that is tested. *)
LEMMA ReleaseFar ==
  ASSUME NEW id \in Ids, id \in allocated, ReleaseAborts(id)
  PROVE  id % CellBits >= IntBits
<1>1. /\ CellBits \in Nat /\ CellBits > 0 /\ IntBits \in Nat /\ IntBits > 0 /\ IntBits <= CellBits
      /\ id \in Nat
  BY WorkerIOAssumption, IdsNat
<1>2. PICK b \in 0..(CellBits - 1) : b = id % CellBits
  BY <1>1
<1>3. Cell(id) * CellBits + b = id
  <2>1. id = CellBits * (id \div CellBits) + (id % CellBits)
    BY <1>1
  <2>2. CellBits * (id \div CellBits) = (id \div CellBits) * CellBits
    BY <1>1
  <2> QED
    BY <2>1, <2>2, <1>2 DEF Cell
<1>4. b < IntBits => b \in Shifted(b)
  <2> SUFFICES ASSUME b < IntBits PROVE b \in Shifted(b)
    OBVIOUS
  <2>1. b % IntBits = b
    BY <1>1, <1>2
  <2>2. b \in b..(CellBits - 1)
    BY <1>1, <1>2
  <2> QED
    BY <2>1, <2>2 DEF Shifted
<1>5. b < IntBits => FALSE
  BY <1>2, <1>3, <1>4 DEF ReleaseAborts
<1> QED
  BY <1>1, <1>2, <1>5

Explained == (aborted = "no" => NamesInv /\ PlaceInv) /\ AbortsExplained

LEMMA InitExplained == Init => Explained
<1> SUFFICES ASSUME Init PROVE Explained
  OBVIOUS
<1>1. Len(todo) = 0 /\ aborted = "no" /\ client.seenPos = 0 /\ client.append = <<>>
      /\ \A h \in Handles : ~IsOpen(h)
  BY DEF Init, IsOpen
<1>2. \A o \in Outputs : outs[o] = Closed
  BY DEF Init
<1>3. \A id \in Ids : table[id] = Closed
  BY DEF Init
<1>4. DOMAIN received = Outputs \cup {Stdout}
  BY DEF Init
<1>5. NamesInv
  BY <1>1, <1>2, <1>3, <1>4 DEF NamesInv, Unused, OutputsKnown, ClientNamed, Flat
<1>6. PlaceInv
  BY <1>1 DEF PlaceInv
<1>7. AbortsExplained
  BY <1>1 DEF AbortsExplained
<1> QED
  BY <1>5, <1>6, <1>7 DEF Explained

LEMMA NextExplained ==
  ASSUME Inv, Explained, ~Interrupts, Roomy, [Next]_vars
  PROVE  Explained'
<1>1. CASE UNCHANGED vars
  <2>1. UNCHANGED <<content, received, table, fresh, allocated, inputs, outs, client, todo, aborted, sought>>
    BY <1>1 DEF vars, driver, ids, call, history
  <2>2. AbortsExplained'
    BY <2>1 DEF Explained, AbortsExplained, IsOpen
  <2>3. aborted = "no" => Tracks /\ PlaceInv'
    BY <2>1, StillPlaced DEF Explained
  <2>4. aborted = "no" => NamesInv'
    BY <2>1, <2>3, StillNames DEF Explained
  <2> QED
    BY <2>1, <2>2, <2>3, <2>4 DEF Explained
<1>2. CASE Next
  <2>1. aborted = "no" /\ NamesInv /\ PlaceInv
    BY <1>2, NextNotAborted DEF Explained
  <2>2. CASE Continues
    BY <2>1, <2>2 DEF Continues, Explained, AbortsExplained
  <2>3. \A why : Die(why) => /\ aborted' = why
                             /\ UNCHANGED <<table, allocated, inputs, sought>>
    BY DEF Die, driver, ids, history
  <2>4. CASE Free = {} /\ Die("ids") /\ todo = <<>> /\ SomeClosed
    <3>1. \E id \in allocated : table[id] = Closed
      BY <2>1, <2>4, IdHeld DEF Explained
    <3> QED
      BY <3>1, <2>3, <2>4 DEF Explained, AbortsExplained
  <2>5. CASE Die("release") /\ \E h \in Handles : IsOpen(h) /\ ReleaseAborts(inputs[h].id)
    <3>1. PICK h \in Handles : IsOpen(h) /\ ReleaseAborts(inputs[h].id)
      BY <2>5
    <3>2. inputs[h].id \in Ids /\ inputs[h].id \in allocated
      BY <3>1, InputKnown DEF Inv, IdsInv
    <3>3. inputs[h].id % CellBits >= IntBits
      BY <3>1, <3>2, ReleaseFar
    <3>4. aborted' = "release" /\ inputs' = inputs
      BY <2>3, <2>5
    <3> QED
      BY <3>1, <3>3, <3>4 DEF Explained, AbortsExplained, IsOpen
  <2>6. CASE (Die("early") \/ Die("past")) /\ sought # {}
    BY <2>3, <2>6 DEF Explained, AbortsExplained
  <2> QED
    BY <2>1, <2>2, <2>4, <2>5, <2>6, <1>2, StepContinues
<1> QED
  BY <1>1, <1>2

(* When no file changes while what TeX just read is being reported, and the *)
(* table has an id for all that TeX has open at once, the driver never      *)
(* refuses an id, and a worker only gives up when outputs it closed hold    *)
(* ids (ttstub_output_close releases none), when an id is beyond what its   *)
(* shift reaches (release_id), or after a seek.                             *)
THEOREM WorkerAbortsExplained == ~Interrupts /\ Roomy => (Spec => []AbortsExplained)
<1> SUFFICES ASSUME ~Interrupts, Roomy PROVE Spec => []AbortsExplained
  OBVIOUS
<1>1. Inv /\ Explained /\ [Next]_vars => Explained'
  BY NextExplained
<1>2. Explained => AbortsExplained
  BY DEF Explained
<1> QED
  BY <1>1, <1>2, InitExplained, InvHolds, PTL DEF Spec
-----------------------------------------------------------------------------
(* WorkerIO implements OpenFiles: with buffers, lazy reports, ids, messages, *)
(* and forks, TeX reads what the files hold, as if it had them to itself.    *)

-----------------------------------------------------------------------------
(* Positions *)

(* Nothing moves, in the files that TeX knows. *)
Still == UNCHANGED <<content, Positions, sought, viewed>>

Place(f, p) == [file |-> f, pos |-> p]

LEMMA PositionOf ==
  ASSUME Typed, NEW h \in Handles
  PROVE  /\ ~IsOpen(h) => Positions[h] = Closed
         /\ IsOpen(h) => /\ Positions[h] = Place(inputs[h].file, At(inputs[h]))
                         /\ inputs[h].file \in Files /\ At(inputs[h]) \in Nat
                         /\ Positions[h] # Closed
<1>1. CASE ~IsOpen(h)
  BY <1>1 DEF Positions, At, IsOpen
<1>2. CASE IsOpen(h)
  <2>1. Positions[h] = Place(inputs[h].file, At(inputs[h]))
    BY <1>2 DEF Positions, Place, At, IsOpen
  <2>2. inputs[h].file \in Files /\ At(inputs[h]) \in Nat
    BY <1>2, OpenInput DEF InputType, At
  <2>3. Positions[h] \in PlaceType
    BY <2>1, <2>2 DEF Place, PlaceType
  <2> QED
    BY <2>1, <2>2, <2>3, <1>2, ClosedAssumption
<1> QED
  BY <1>1, <1>2

LEMMA SamePositions ==
  ASSUME \A g \in Handles : /\ IsOpen(g) <=> IsOpen(g)'
                            /\ IsOpen(g) => /\ inputs'[g].file = inputs[g].file
                                            /\ At(inputs'[g]) = At(inputs[g])
  PROVE  Positions' = Positions
<1>1. \A g \in Handles : Positions'[g] = Positions[g]
  BY DEF Positions, At, IsOpen
<1>2. /\ Positions = [g \in Handles |-> Positions[g]]
      /\ Positions' = [g \in Handles |-> Positions'[g]]
  BY DEF Positions, At, IsOpen
<1> QED
  BY <1>1, <1>2

LEMMA SameInputs ==
  ASSUME inputs' = inputs
  PROVE  Positions' = Positions
BY DEF Positions, At, IsOpen

(* A FLSH moves no input. *)
LEMMA ToldPlace ==
  ASSUME Typed, NEW g \in Handles, inputs'[g] = Told[g]
  PROVE  /\ IsOpen(g) <=> IsOpen(g)'
         /\ IsOpen(g) => /\ inputs'[g].file = inputs[g].file
                         /\ At(inputs'[g]) = At(inputs[g])
<1>1. CASE IsOpen(g)
  BY <1>1, ToldSame DEF Same, At, IsOpen
<1>2. CASE ~IsOpen(g)
  BY <1>2, ToldSame DEF IsOpen
<1> QED
  BY <1>1, <1>2

LEMMA ToldPositions ==
  ASSUME Typed, inputs' = Told
  PROVE  Positions' = Positions
<1>1. \A g \in Handles : inputs'[g] = Told[g]
  OBVIOUS
<1> QED
  BY <1>1, ToldPlace, SamePositions

(* One input goes to x, in f. *)
LEMMA NewPosition ==
  ASSUME Typed, NEW h \in Handles, NEW f \in Files, NEW x \in Nat, IsOpen(h)',
         inputs'[h].file = f, At(inputs'[h]) = x,
         \A g \in Handles : g # h => inputs'[g] = inputs[g] \/ inputs'[g] = Told[g]
  PROVE  Positions' = [Positions EXCEPT ![h] = Place(f, x)]
<1>1. Positions'[h] = Place(f, x)
  BY DEF Positions, Place, At, IsOpen
<1>2. ASSUME NEW g \in Handles, g # h
      PROVE  Positions'[g] = Positions[g]
  <2>1. /\ IsOpen(g) <=> IsOpen(g)'
        /\ IsOpen(g) => /\ inputs'[g].file = inputs[g].file
                        /\ At(inputs'[g]) = At(inputs[g])
    <3>1. CASE inputs'[g] = inputs[g]
      BY <3>1 DEF IsOpen
    <3>2. CASE inputs'[g] = Told[g]
      BY <3>2, ToldPlace
    <3> QED
      BY <1>2, <3>1, <3>2
  <2> QED
    BY <2>1 DEF Positions, At, IsOpen
<1>3. /\ Positions = [g \in Handles |-> Positions[g]]
      /\ Positions' = [g \in Handles |-> Positions'[g]]
  BY DEF Positions, At, IsOpen
<1> QED
  BY <1>1, <1>2, <1>3

-----------------------------------------------------------------------------
(* Reads *)

(* Where n bytes are read at p *)
Reading(p, n) == IF n = 0 THEN {p} ELSE p..(p + n - 1)

NowKnown(f, p, n) == viewed' = [viewed EXCEPT ![f] = Abstract!Views(f, Reading(p, n))]

(* What was given to TeX is what the file holds. *)
LEMMA ViewingHeld ==
  ASSUME Typed, NEW h \in Handles, NEW f \in Files, f = inputs[h].file, NEW p \in Nat, NEW n \in Nat,
         NEW bytes \in Seq(Data), Len(bytes) = n, (n = 0 => bytes = <<>>), (n > 0 => bytes # <<>>),
         p + n <= Len(content[f]), n = 0 => p = Len(content[f]),
         \A k \in 1..n : bytes[k] = content[f][p + k],
         Viewing(h, p, bytes)
  PROVE  NowKnown(f, p, n)
<1> DEFINE there == IF bytes = <<>> THEN {p} ELSE p..(p + Len(bytes) - 1)
           known == [q \in DOMAIN viewed[f] \cup there |->
                       IF q \notin there THEN viewed[f][q]
                       ELSE IF bytes = <<>> THEN Eof ELSE bytes[q - p + 1]]
           held == [q \in DOMAIN viewed[f] \cup Reading(p, n) |->
                       IF q \in Reading(p, n) THEN Abstract!Byte(f, q) ELSE viewed[f][q]]
<1>1. viewed' = [viewed EXCEPT ![f] = known]
  BY Zenon DEF Viewing
<1>2. there = Reading(p, n)
  BY DEF Reading
<1>3. ASSUME NEW q \in Reading(p, n)
      PROVE  Abstract!Byte(f, q) = IF bytes = <<>> THEN Eof ELSE bytes[q - p + 1]
  <2>0. Len(content[f]) \in Nat
    BY DEF Typed
  <2>1. CASE n = 0
    <3>1. q = p /\ ~(q < Len(content[f]))
      BY <2>0, <2>1, <1>3 DEF Reading
    <3> QED
      BY <2>1, <3>1 DEF Abstract!Byte
  <2>2. CASE n > 0
    <3>1. PICK k \in 1..n : k = q - p + 1 /\ p + k = q + 1 /\ q < Len(content[f])
      BY <2>0, <2>2, <1>3 DEF Reading
    <3>2. bytes[k] = content[f][q + 1]
      BY <3>1
    <3> QED
      BY <2>2, <3>1, <3>2 DEF Abstract!Byte
  <2> QED
    BY <2>1, <2>2
<1> HIDE DEF there
<1>4. known = held
  BY <1>2, <1>3
<1>5. held = Abstract!Views(f, Reading(p, n))
  BY DEF Abstract!Views
<1> QED
  BY <1>1, <1>4, <1>5 DEF NowKnown

(* A read in the worker is one of OpenFiles. *)
LEMMA ReadStep ==
  ASSUME NEW h \in Handles, NEW f \in Files, NEW p \in Nat, NEW n \in Nat, NEW x, x = p + n,
         Positions[h] = Place(f, p), Positions[h] # Closed, content[f] \in Seq(Data),
         Positions' = [Positions EXCEPT ![h] = Place(f, x)],
         n <= Len(content[f]), n = 0 => p = Len(content[f]),
         \/ NowKnown(f, p, n)
         \/ n = 0 /\ h \in sought /\ viewed' = viewed,
         content' = content, sought' = sought
  PROVE  Abstract!Next
<1>1. Positions[h].file = f /\ Positions[h].pos = p
  BY DEF Place
<1>2. Positions' = [Positions EXCEPT ![h].pos = p + n]
  <2>1. [Positions[h] EXCEPT !.pos = p + n] = Place(f, x)
    BY DEF Place
  <2>2. [Positions EXCEPT ![h].pos = p + n] = [Positions EXCEPT ![h] = [Positions[h] EXCEPT !.pos = p + n]]
    OBVIOUS
  <2> QED
    BY <2>1, <2>2
<1>3. n = 0 => Abstract!Byte(f, p) = Eof
  <2>1. Len(content[f]) \in Nat
    OBVIOUS
  <2> QED
    BY <2>1 DEF Abstract!Byte
<1>4. n \in 0..Len(content[Positions[h].file])
  BY <1>1
<1>5. \/ viewed' = [viewed EXCEPT ![f] = Abstract!Views(f, IF n = 0 THEN {p} ELSE p..(p + n - 1))]
      \/ n = 0 /\ h \in sought /\ UNCHANGED viewed
  BY DEF NowKnown, Reading
<1>6. Abstract!Read(h, n)
  BY <1>1, <1>2, <1>3, <1>5, Zenon DEF Abstract!Read
<1> QED
  BY <1>4, <1>6 DEF Abstract!Next
-----------------------------------------------------------------------------
(* Calls of TeX *)

LEMMA StillInputs ==
  ASSUME UNCHANGED <<content, inputs, viewed, sought>>
  PROVE  Still
BY SameInputs DEF Still

LEMMA DieStill ==
  ASSUME NEW why, Die(why)
  PROVE  Still
BY StillInputs DEF Die, driver, ids, history

LEMMA CallsStill ==
  ASSUME \/ \E h \in Handles, f \in Files : Open(h, f)
         \/ \E h \in Handles : Close(h) \/ GetSize(h)
         \/ \E o \in Outputs : OpenWrite(o) \/ CloseWrite(o)
         \/ \E o \in Outputs \cup {Stdout} : PutC(o) \/ \E n \in Writes : Write(o, n)
         \/ Flush
  PROVE  Still
<1> USE StillInputs DEF driver, ids, history
<1>1. \A h \in Handles, f \in Files : Open(h, f) => Still
  BY DieStill DEF Open
<1>2. \A h \in Handles : Close(h) \/ GetSize(h) => Still
  BY DEF Close, GetSize
<1>3. \A o \in Outputs : OpenWrite(o) \/ CloseWrite(o) => Still
  BY DieStill DEF OpenWrite, CloseWrite
<1>4. \A o \in Outputs \cup {Stdout} : PutC(o) \/ (\E n \in Writes : Write(o, n)) => Still
  BY DEF PutC, Write
<1>5. Flush => Still
  BY DEF Flush
<1> QED
  BY <1>1, <1>2, <1>3, <1>4, <1>5, Zenon

(* Bytes of the buffer are what the file holds. *)
LEMMA TakeStep ==
  ASSUME Inv, todo = <<>>, aborted = "no", NEW h \in Handles, IsOpen(h),
         NEW i, i = Synced(inputs[h]), NEW n \in Nat, n > 0, n <= Len(i.buf) - i.used,
         Take(h, i, n)
  PROVE  Abstract!Next
<1>1. ~flushing /\ Typed /\ BufInv
  BY DEF Inv, FlushInv
<1>2. /\ i \in InputType /\ i.used <= Len(i.buf) /\ Holds(i)
      /\ i.id = inputs[h].id /\ i.file = inputs[h].file /\ At(i) = At(inputs[h])
  BY <1>1, SyncedHolds
<1>3. PICK f \in Files : f = inputs[h].file
  BY <1>2 DEF InputType
<1>4. PICK b \in Seq(Data) : b = i.buf
  BY <1>2 DEF InputType
<1>5. PICK u \in Nat : u = i.used
  BY <1>2 DEF InputType
<1>6. PICK start \in Nat : start = i.pos
  BY <1>2 DEF InputType
<1>7. PICK p \in Nat : p = start + u
  OBVIOUS
<1>8. p = At(i) /\ Len(b) \in Nat /\ u + n <= Len(b)
  BY <1>4, <1>5, <1>6, <1>7 DEF At
<1>9. /\ start + Len(b) <= Len(content[f])
      /\ \A k \in 1..Len(b) : b[k] = content[f][start + k]
  <2>1. b # <<>>
    BY <1>8
  <2> QED
    BY <2>1, <1>2, <1>3, <1>4, <1>6 DEF Holds
<1>10. content[f] \in Seq(Data) /\ Len(content[f]) \in Nat
  BY <1>1 DEF Typed
<1>11. PICK bytes \in Seq(Data) : bytes = SubSeq(b, u + 1, u + n)
  BY <1>8, Slice
<1>12. /\ Len(bytes) = n /\ bytes # <<>>
       /\ \A k \in 1..n : bytes[k] = b[u + k]
  <2>0. b \in Seq(Data) /\ u \in Nat /\ n \in Nat /\ u + n <= Len(b) /\ n > 0
    BY <1>8
  <2>1. /\ Len(SubSeq(b, u + 1, u + n)) = n /\ SubSeq(b, u + 1, u + n) # <<>>
        /\ \A k \in 1..n : SubSeq(b, u + 1, u + n)[k] = b[u + k]
    BY <2>0, Slice, ZenonT(30)
  <2> QED
    BY <2>1, <1>11
<1>13. \A k \in 1..n : bytes[k] = content[f][p + k]
  <2> TAKE k \in 1..n
  <2>1. u + k \in 1..Len(b) /\ start + (u + k) = p + k
    BY <1>7, <1>8
  <2> QED
    BY <2>1, <1>9, <1>12
<1>14. p + n <= Len(content[f])
  BY <1>7, <1>8, <1>9, <1>10
<1>15. /\ inputs' = [inputs EXCEPT ![h] = [i EXCEPT !.used = @ + n]] /\ Viewing(h, p, bytes)
       /\ content' = content /\ sought' = sought
  BY <1>4, <1>5, <1>8, <1>11 DEF Take, Set, driver
<1>16. PICK j : j = [i EXCEPT !.used = u + n]
  OBVIOUS
<1>17. /\ j \in InputType /\ j.file = f /\ j.pos = start /\ j.used = u + n
  <2>1. u + n \in Nat
    OBVIOUS
  <2> QED
    BY <2>1, <1>2, <1>3, <1>6, <1>16 DEF InputType
<1>18. inputs' = [inputs EXCEPT ![h] = j] /\ inputs \in [Handles -> InputType \cup {Closed}]
  BY <1>1, <1>5, <1>15, <1>16 DEF Typed
<1>19. PICK x \in Nat : x = p + n
  OBVIOUS
<1>20. At(j) = x
  BY <1>7, <1>17, <1>19 DEF At
<1>21. inputs'[h] = j /\ IsOpen(h)' /\ \A g \in Handles : g # h => inputs'[g] = inputs[g]
  BY <1>17, <1>18, ClosedAssumption DEF IsOpen
<1>22. Positions' = [Positions EXCEPT ![h] = Place(f, x)]
  BY <1>1, <1>17, <1>20, <1>21, NewPosition
<1>23. Positions[h] = Place(f, p) /\ Positions[h] # Closed
  BY <1>1, <1>2, <1>3, <1>8, PositionOf
<1>24. NowKnown(f, p, n)
  <2>1. /\ Typed /\ f = inputs[h].file /\ Len(bytes) = n /\ (n = 0 => bytes = <<>>)
        /\ n > 0 => bytes # <<>>
        /\ p + n <= Len(content[f]) /\ (n = 0 => p = Len(content[f]))
        /\ \A k \in 1..n : bytes[k] = content[f][p + k]
        /\ Viewing(h, p, bytes)
    BY <1>1, <1>3, <1>12, <1>13, <1>14, <1>15
  <2> QED
    BY <2>1, <1>3, <1>7, <1>11, ViewingHeld
<1>25. n <= Len(content[f])
  BY <1>10, <1>14
<1>26. n = 0 => p = Len(content[f])
  OBVIOUS
<1> QED
  BY <1>10, <1>15, <1>19, <1>22, <1>23, <1>24, <1>25, <1>26, ReadStep

(* A buffer is dropped, or emptied for another, where the input is. *)
LEMMA RefillStill ==
  ASSUME Inv, todo = <<>>, aborted = "no", NEW h \in Handles, IsOpen(h),
         NEW i, i = Synced(inputs[h]), NEW j,
         j = i \/ (i.used = Len(i.buf) /\ j = Refilling(i)),
         Set(h, j), UNCHANGED <<content, viewed, sought>>
  PROVE  Still
<1>1. ~flushing /\ Typed /\ BufInv
  BY DEF Inv, FlushInv
<1>2. /\ i \in InputType /\ i.file = inputs[h].file /\ At(i) = At(inputs[h])
  BY <1>1, SyncedHolds
<1>3. j \in InputType /\ j.file = i.file /\ At(j) = At(i)
  <2>1. CASE j = i
    BY <2>1, <1>2
  <2>2. CASE i.used = Len(i.buf) /\ j = Refilling(i)
    <3>1. i.pos + Len(i.buf) \in Nat /\ <<>> \in Seq(Data) /\ 0 \in Nat /\ i.pos \in Nat
      BY <1>2 DEF InputType
    <3>2. j \in InputType /\ j.file = i.file /\ j.pos = i.pos + Len(i.buf) /\ j.used = 0
      BY <2>2, <3>1, <1>2 DEF Refilling, Emptied, InputType
    <3> QED
      BY <2>2, <3>1, <3>2 DEF At
  <2> QED
    BY <2>1, <2>2
<1>4. inputs' = [inputs EXCEPT ![h] = j] /\ inputs \in [Handles -> InputType \cup {Closed}]
  BY <1>1 DEF Set, Typed
<1>5. \A g \in Handles : /\ IsOpen(g) <=> IsOpen(g)'
                         /\ IsOpen(g) => /\ inputs'[g].file = inputs[g].file
                                         /\ At(inputs'[g]) = At(inputs[g])
  <2> TAKE g \in Handles
  <2>1. CASE g = h
    BY <2>1, <1>2, <1>3, <1>4, ClosedAssumption DEF IsOpen
  <2>2. CASE g # h
    BY <2>2, <1>4 DEF IsOpen
  <2> QED
    BY <2>1, <2>2
<1> QED
  BY <1>5, SamePositions DEF Still

(* ttstub_input_getc *)
LEMMA GetCStep ==
  ASSUME Inv, NEW h \in Handles, GetC(h)
  PROVE  Abstract!Next \/ Still
<1>1. todo = <<>> /\ want = Closed /\ aborted = "no" /\ IsOpen(h)
  BY ReadyFacts DEF GetC
<1>2. ~flushing /\ Typed /\ BufInv
  BY <1>1 DEF Inv, FlushInv
<1>3. PICK i : i = Synced(inputs[h])
  OBVIOUS
<1>4. i \in InputType /\ i.used <= Len(i.buf)
  BY <1>1, <1>2, <1>3, SyncedHolds
<1>5. CASE i.used < Len(i.buf) /\ Take(h, i, 1)
  <2>1. 1 <= Len(i.buf) - i.used
    BY <1>4, <1>5 DEF InputType
  <2> QED
    BY <2>1, <1>1, <1>3, <1>5, TakeStep
<1>6. CASE i.used = Len(i.buf) /\ Refill(h, i, BufSize, -1)
  <2>1. Set(h, Refilling(i)) /\ UNCHANGED <<content, viewed, sought>>
    BY <1>6 DEF Refill, driver, history
  <2> QED
    BY <2>1, <1>1, <1>3, <1>6, RefillStill
<1> QED
  BY <1>3, <1>5, <1>6 DEF GetC

(* internal_input_read *)
LEMMA InternalReadStep ==
  ASSUME Inv, todo = <<>>, aborted = "no", NEW h \in Handles, IsOpen(h), NEW left \in Nat,
         InternalRead(h, left)
  PROVE  Abstract!Next \/ Still
<1>1. ~flushing /\ Typed /\ BufInv
  BY DEF Inv, FlushInv
<1>2. PICK i : i = Synced(inputs[h])
  OBVIOUS
<1>3. i \in InputType /\ i.used <= Len(i.buf)
  BY <1>1, <1>2, SyncedHolds
<1>4. i.used \in Nat /\ Len(i.buf) \in Nat
  BY <1>3 DEF InputType
<1>5. PICK n : n = Min({left, Len(i.buf) - i.used})
  OBVIOUS
<1>6. n \in Nat /\ n <= Len(i.buf) - i.used
  <2>1. Len(i.buf) - i.used \in Int /\ Len(i.buf) - i.used >= 0
    BY <1>3, <1>4
  <2>2. n = IF left <= Len(i.buf) - i.used THEN left ELSE Len(i.buf) - i.used
    BY <2>1, <1>5, MinOfTwo
  <2> QED
    BY <2>1, <2>2
<1>7. CASE n > 0 /\ Take(h, i, n)
  BY <1>2, <1>6, <1>7, TakeStep
<1>8. CASE Set(h, i) /\ UNCHANGED <<driver, history>>
  <2>1. Set(h, i) /\ UNCHANGED <<content, viewed, sought>>
    BY <1>8 DEF driver, history
  <2> QED
    <3>1. PICK j : j = i
      OBVIOUS
    <3>2. j = i \/ (i.used = Len(i.buf) /\ j = Refilling(i))
      BY <3>1
    <3>3. Set(h, j)
      BY <2>1, <3>1
    <3> QED
      BY <2>1, <3>2, <3>3, <1>2, RefillStill
<1>9. CASE i.used = Len(i.buf) /\ Refill(h, i, left, left)
  <2>1. Set(h, Refilling(i)) /\ UNCHANGED <<content, viewed, sought>>
    BY <1>9 DEF Refill, driver, history
  <2> QED
    BY <2>1, <1>2, <1>9, RefillStill
<1> QED
  BY <1>2, <1>5, <1>7, <1>8, <1>9, Zenon DEF InternalRead
LEMMA ReadingStep ==
  ASSUME Inv, ReadMore \/ \E h \in Handles : \E n \in Reads : Read(h, n)
  PROVE  Abstract!Next \/ Still
<1>1. CASE ReadMore
  <2>1. want # Closed /\ want.op = "more" /\ todo = <<>> /\ InternalRead(want.h, want.left)
    BY <1>1 DEF ReadMore
  <2>2. aborted = "no"
    BY <2>1 DEF Inv, Ended
  <2>3. want \in WantType /\ IsOpen(want.h) /\ want.left >= 0
    BY <2>1 DEF Inv, Typed, TodoInv
  <2>4. PICK h \in Handles : h = want.h
    BY <2>3 DEF WantType
  <2>5. PICK left \in Nat : left = want.left
    BY <2>3 DEF WantType
  <2> QED
    BY <2>1, <2>2, <2>3, <2>4, <2>5, InternalReadStep
<1>2. ASSUME NEW h \in Handles, NEW n \in Reads, Read(h, n)
      PROVE  Abstract!Next \/ Still
  <2>1. n \in Nat
    BY WorkerIOAssumption
  <2> QED
    BY <2>1, <1>2, ReadyFacts, InternalReadStep DEF Read
<1> QED
  BY <1>1, <1>2

(* ttstub_input_seek *)
LEMMA SeekStep ==
  ASSUME Inv, NEW h \in Handles, NEW ofs \in Nat, Seek(h, ofs)
  PROVE  Abstract!Next
<1>1. Typed /\ IsOpen(h)
  BY DEF Inv, Seek
<1>2. PICK i \in InputType : i = inputs[h]
  BY <1>1, OpenInput
<1>3. PICK f \in Files : f = i.file
  BY <1>2 DEF InputType
<1>4. PICK j : j = IF ofs - i.pos \in 1..Len(i.buf) THEN [i EXCEPT !.used = ofs - i.pos]
                                                   ELSE Emptied(i, ofs)
  OBVIOUS
<1>5. j \in InputType /\ j.file = f /\ At(j) = ofs
  <2>0. i.pos \in Nat
    BY <1>2 DEF InputType
  <2>1. CASE ofs - i.pos \in 1..Len(i.buf)
    <3>1. PICK u \in Nat : u = ofs - i.pos
      BY <2>0, <2>1
    <3>2. j = [i EXCEPT !.used = u]
      BY <2>1, <3>1, <1>4
    <3>3. j \in InputType /\ j.file = f /\ j.pos = i.pos /\ j.used = u
      BY <3>1, <3>2, <1>2, <1>3 DEF InputType
    <3> QED
      BY <3>1, <3>3, <2>0 DEF At
  <2>2. CASE ~(ofs - i.pos \in 1..Len(i.buf))
    <3>1. j = Emptied(i, ofs)
      BY <2>2, <1>4
    <3>2. j \in InputType /\ j.file = f /\ j.pos = ofs /\ j.used = 0
      BY <3>1, <1>2, <1>3, <<>> \in Seq(Data) DEF InputType, Emptied
    <3> QED
      BY <3>2 DEF At
  <2> QED
    BY <2>1, <2>2
<1>6. inputs' = [inputs EXCEPT ![h] = j] /\ inputs \in [Handles -> InputType \cup {Closed}]
  BY <1>1, <1>2, <1>4 DEF Seek, Set, Typed
<1>7. inputs'[h] = j /\ IsOpen(h)' /\ \A g \in Handles : g # h => inputs'[g] = inputs[g]
  BY <1>5, <1>6, ClosedAssumption DEF IsOpen
<1>8. Positions' = [Positions EXCEPT ![h] = Place(f, ofs)]
  BY <1>1, <1>5, <1>7, NewPosition
<1>9. Positions[h] = Place(f, At(i)) /\ Positions[h] # Closed
  BY <1>1, <1>2, <1>3, PositionOf
<1>10. DOMAIN Positions = Handles
  BY DEF Positions, At, IsOpen
<1>11. Positions'[h] = Place(f, ofs)
  BY <1>8, <1>10
<1>12. Positions'[h].pos = ofs /\ [Positions[h] EXCEPT !.pos = ofs] = Place(f, ofs)
  BY <1>9, <1>11 DEF Place
<1>13. content' = content /\ viewed' = viewed /\ sought' = sought \cup {h}
  BY DEF Seek, driver
<1>14. Abstract!Seek(h)
  BY <1>8, <1>12, <1>13 DEF Abstract!Seek, Abstract!Move
<1> QED
  BY <1>9, <1>14 DEF Abstract!Next

LEMMA SeekEndStep ==
  ASSUME Inv, NEW h \in Handles, SeekEnd(h)
  PROVE  Abstract!Next
<1>1. IsOpen(h) /\ inputs[h].size # -1 /\ Seek(h, inputs[h].size)
  BY DEF SeekEnd
<1>2. PICK ofs \in Nat : ofs = inputs[h].size
  BY <1>1, OpenInput DEF Inv, InputType
<1> QED
  BY <1>1, <1>2, SeekStep

(* ttstub_input_ungetc *)
LEMMA UngetcStep ==
  ASSUME Inv, NEW h \in Handles, Ungetc(h)
  PROVE  Abstract!Next
<1>1. Typed /\ IsOpen(h) /\ inputs[h].used > 0
  BY DEF Inv, Ungetc
<1>2. PICK i \in InputType : i = inputs[h]
  BY <1>1, OpenInput
<1>3. PICK f \in Files : f = i.file
  BY <1>2 DEF InputType
<1>4. PICK j : j = [i EXCEPT !.used = @ - 1]
  OBVIOUS
<1>5. PICK p \in Nat : p = At(i) - 1 /\ At(i) > 0
  BY <1>1, <1>2 DEF InputType, At
<1>6. j \in InputType /\ j.file = f /\ At(j) = p
  <2>1. PICK u \in Nat : u = i.used - 1
    BY <1>1, <1>2 DEF InputType
  <2>2. j = [i EXCEPT !.used = u]
    BY <2>1, <1>4
  <2>3. j \in InputType /\ j.file = f /\ j.pos = i.pos /\ j.used = u /\ i.pos \in Nat /\ i.used \in Nat
    BY <2>1, <2>2, <1>2, <1>3 DEF InputType
  <2> QED
    BY <2>1, <2>3, <1>5 DEF At
<1>7. inputs' = [inputs EXCEPT ![h] = j] /\ inputs \in [Handles -> InputType \cup {Closed}]
  BY <1>1, <1>2, <1>4 DEF Ungetc, Set, Typed
<1>8. inputs'[h] = j /\ IsOpen(h)' /\ \A g \in Handles : g # h => inputs'[g] = inputs[g]
  BY <1>6, <1>7, ClosedAssumption DEF IsOpen
<1>9. Positions' = [Positions EXCEPT ![h] = Place(f, p)]
  BY <1>1, <1>5, <1>6, <1>8, NewPosition
<1>10. Positions[h] = Place(f, At(i)) /\ Positions[h] # Closed
  BY <1>1, <1>2, <1>3, PositionOf
<1>11. /\ Positions[h].pos > 0
       /\ [Positions[h] EXCEPT !.pos = @ - 1] = Place(f, p)
  BY <1>5, <1>10 DEF Place
<1>12. content' = content /\ viewed' = viewed /\ sought' = sought
  BY DEF Ungetc, driver
<1>13. Abstract!Unget(h)
  BY <1>9, <1>11, <1>12 DEF Abstract!Unget, Abstract!Move
<1> QED
  BY <1>10, <1>13 DEF Abstract!Next
-----------------------------------------------------------------------------
(* Answers of the driver *)

LEMMA AnswersStill ==
  ASSUME Inv, AnswerSeen \/ AnswerAppend \/ AnswerOpenWrite
  PROVE  Still
<1>1. Typed
  BY DEF Inv
<1>2. CASE AnswerSeen
  BY <1>2, DieStill, StillInputs DEF AnswerSeen, ids, history
<1>3. CASE AnswerAppend
  <2>1. CASE Die("closed")
    BY <2>1, DieStill
  <2>2. CASE inputs' = Told /\ UNCHANGED <<content, history>>
    BY <2>2, <1>1, ToldPositions DEF Still, history
  <2> QED
    BY <1>3, <2>1, <2>2, Zenon DEF AnswerAppend
<1>4. CASE AnswerOpenWrite
  <2>1. CASE Die("busy")
    BY <2>1, DieStill
  <2>2. CASE inputs' = Told /\ UNCHANGED <<content, viewed, sought>>
    BY <2>2, <1>1, ToldPositions DEF Still
  <2> QED
    BY <1>4, <2>1, <2>2 DEF AnswerOpenWrite
<1> QED
  BY <1>2, <1>3, <1>4

(* ttstub_input_open, once answered *)
LEMMA AnswerOpenStep ==
  ASSUME Inv, AnswerOpen
  PROVE  Abstract!Next \/ Still
<1>1. CASE Die("busy")
  BY <1>1, DieStill
<1>2. CASE /\ inputs' = [Told EXCEPT ![want.h] = Opened(Head1.arg, Head1.id)]
           /\ sought' = sought \ {want.h}
           /\ UNCHANGED <<content, viewed>>
  <2>1. PICK m : m = Head1
    OBVIOUS
  <2>2. Typed /\ todo # <<>> /\ m = Head(todo) /\ m.tag = "OPRD"
    BY <2>1 DEF AnswerOpen, Answering, Head1, Inv
  <2>3. Fits(m) /\ m \in Messages
    BY <2>2, QueryFacts DEF Queries
  <2>4. want # Closed /\ ~IsOpen(want.h)
    BY <2>2, <2>3 DEF Fits
  <2>5. PICK h \in Handles : h = want.h
    BY <2>2, <2>4 DEF Typed, WantType
  <2>6. PICK f \in Files : f = m.arg
    BY <2>2, <2>3 DEF Messages
  <2>7. PICK id \in Ids : id = m.id
    BY <2>2, <2>3 DEF Messages
  <2>8. PICK j : j = Opened(f, id)
    OBVIOUS
  <2>9. j \in InputType /\ j.file = f /\ At(j) = 0 /\ j # Closed
    <3>1. <<>> \in Seq(Data) /\ 0 \in Nat /\ -1 \in Nat \cup {-1}
      OBVIOUS
    <3>2. j = [file |-> f, id |-> id, pos |-> 0, buf |-> <<>>, used |-> 0, size |-> -1, current |-> TRUE]
      BY <2>8 DEF Opened
    <3>3. j \in InputType
      BY <3>1, <3>2 DEF InputType
    <3>4. j.file = f /\ j.pos = 0 /\ j.used = 0
      BY <3>2
    <3> QED
      BY <3>3, <3>4, ClosedAssumption DEF At
  <2>10. inputs' = [Told EXCEPT ![h] = j] /\ sought' = sought \ {h}
    BY <1>2, <2>1, <2>5, <2>6, <2>7, <2>8
  <2>11. Told \in [Handles -> InputType \cup {Closed}]
    BY <2>2, ToldSame
  <2>12. inputs'[h] = j /\ IsOpen(h)' /\ \A g \in Handles : g # h => inputs'[g] = Told[g]
    BY <2>9, <2>10, <2>11 DEF IsOpen
  <2>13. Positions' = [Positions EXCEPT ![h] = Place(f, 0)]
    BY <2>2, <2>9, <2>12, NewPosition
  <2>14. Positions[h] = Closed
    BY <2>2, <2>4, <2>5, PositionOf
  <2>15. Abstract!Open(h, f)
    BY <1>2, <2>10, <2>13 DEF Abstract!Open, Abstract!Move, Place
  <2> QED
    BY <2>14, <2>15 DEF Abstract!Next
<1> QED
  BY <1>1, <1>2 DEF AnswerOpen

(* ttstub_input_close and ttstub_output_close, once answered *)
LEMMA AnswerCloseStep ==
  ASSUME Inv, AnswerClose
  PROVE  Abstract!Next \/ Still
<1>1. CASE Die("closed") \/ Die("release")
  BY <1>1, DieStill
<1>2. CASE /\ inputs' = IF want # Closed THEN [Told EXCEPT ![want.h] = Closed] ELSE Told
           /\ UNCHANGED <<content, history>>
  <2>1. PICK m : m = Head1
    OBVIOUS
  <2>2. Typed /\ todo # <<>> /\ m = Head(todo) /\ m.tag = "CLOS"
    BY <2>1 DEF AnswerClose, Answering, Head1, Inv
  <2>3. Fits(m)
    BY <2>2, QueryFacts DEF Queries
  <2>4. content' = content /\ viewed' = viewed /\ sought' = sought
    BY <1>2 DEF history
  <2>5. CASE want = Closed
    BY <2>2, <2>4, <2>5, <1>2, ToldPositions DEF Still
  <2>6. CASE want # Closed
    <3>1. PICK h \in Handles : h = want.h
      BY <2>6, <2>2 DEF Typed, WantType
    <3>2. IsOpen(h)
      BY <2>2, <2>3, <2>6, <3>1 DEF Fits
    <3>3. inputs' = [Told EXCEPT ![h] = Closed] /\ Told \in [Handles -> InputType \cup {Closed}]
      BY <2>2, <2>6, <3>1, <1>2, ToldSame
    <3>4. inputs'[h] = Closed /\ \A g \in Handles : g # h => inputs'[g] = Told[g]
      BY <3>3
    <3>5. Positions'[h] = Closed
      BY <3>4 DEF Positions, At, IsOpen
    <3>6. ASSUME NEW g \in Handles, g # h
          PROVE  Positions'[g] = Positions[g]
      <4>1. /\ IsOpen(g) <=> IsOpen(g)'
            /\ IsOpen(g) => /\ inputs'[g].file = inputs[g].file
                            /\ At(inputs'[g]) = At(inputs[g])
        BY <2>2, <3>4, <3>6, ToldPlace
      <4> QED
        BY <4>1 DEF Positions, At, IsOpen
    <3>7. /\ Positions = [g \in Handles |-> Positions[g]]
          /\ Positions' = [g \in Handles |-> Positions'[g]]
      BY DEF Positions, At, IsOpen
    <3>8. Positions' = [Positions EXCEPT ![h] = Closed]
      BY <3>5, <3>6, <3>7
    <3>9. Positions[h] # Closed
      BY <2>2, <3>2, PositionOf
    <3>10. Abstract!Close(h)
      BY <2>4, <3>8 DEF Abstract!Close, Abstract!Move
    <3> QED
      BY <3>9, <3>10 DEF Abstract!Next
  <2> QED
    BY <2>5, <2>6
<1> QED
  BY <1>1, <1>2, Zenon DEF AnswerClose

(* ttstub_input_get_size, once answered *)
LEMMA AnswerSizeStill ==
  ASSUME Inv, AnswerSize
  PROVE  Still
<1>1. PICK m : m = Head1
  OBVIOUS
<1>2. Typed /\ todo # <<>> /\ m = Head(todo) /\ m.tag = "SIZE"
  BY <1>1 DEF AnswerSize, Answering, Head1, Inv
<1>3. want # Closed /\ IsOpen(want.h) /\ m.id = inputs[want.h].id
  BY <1>2, QueryFacts DEF Queries, Fits
<1>4. PICK h \in Handles : h = want.h
  BY <1>2, <1>3 DEF Typed, WantType
<1>5. PICK f \in Files : f = inputs[h].file
  BY <1>2, <1>3, <1>4, OpenInput DEF InputType
<1>6. table[m.id] = f
  BY <1>3, <1>4, <1>5 DEF Inv, IdsInv
<1>7. PICK size \in Nat : size = Len(content[f])
  BY <1>2 DEF Typed
<1>8. /\ inputs' = [Told EXCEPT ![h].size = size] /\ Told \in [Handles -> InputType \cup {Closed}]
      /\ content' = content /\ viewed' = viewed /\ sought' = sought
  BY <1>1, <1>2, <1>4, <1>6, <1>7, ToldSame DEF AnswerSize, driver, history
<1>9. PICK i \in InputType : i = Told[h]
  BY <1>2, <1>3, <1>4, ToldSame DEF Same
<1>10. PICK j : j = [i EXCEPT !.size = size]
  OBVIOUS
<1>11. inputs'[h] = j /\ \A g \in Handles : g # h => inputs'[g] = Told[g]
  BY <1>8, <1>9, <1>10
<1>12. j \in InputType /\ j.file = i.file /\ j.pos = i.pos /\ j.used = i.used
  BY <1>9, <1>10 DEF InputType
<1>13. IsOpen(h) /\ i.file = inputs[h].file /\ At(i) = At(inputs[h]) /\ At(j) = At(i)
  BY <1>2, <1>3, <1>4, <1>9, <1>12, ToldSame DEF Same, At
<1>14. \A g \in Handles : /\ IsOpen(g) <=> IsOpen(g)'
                          /\ IsOpen(g) => /\ inputs'[g].file = inputs[g].file
                                          /\ At(inputs'[g]) = At(inputs[g])
  <2> TAKE g \in Handles
  <2>1. CASE g = h
    BY <2>1, <1>11, <1>12, <1>13, ClosedAssumption DEF IsOpen
  <2>2. CASE g # h
    BY <2>2, <1>2, <1>11, ToldPlace
  <2> QED
    BY <2>1, <2>2
<1> QED
  BY <1>8, <1>14, SamePositions DEF Still
(* READ, once answered: what TeX gets is what the file holds, even of a    *)
(* read that a fence cut short.                                            *)
LEMMA ReadAnswerStep ==
  ASSUME Inv, NEW n \in Nat, NEW m, NEW h \in Handles, NEW f \in Files, NEW p \in Nat,
         ReadAsked(m, h, f, p), ReadAnswered(n, m, h, f, p)
  PROVE  Abstract!Next \/ Still
<1>1. PICK kept, taken, t : ReadShaped(n, m, h, f, p, kept, taken, t)
  BY ReadShape
<1>2. /\ Typed /\ h = want.h /\ IsOpen(h)
      /\ f = inputs[h].file /\ p = inputs[h].pos /\ inputs[h].used = 0
  BY DEF ReadAsked
<1>3. content' = content /\ sought' = sought
  BY Zenon DEF ReadAnswered
<1>4. PICK size \in Nat : size = m.arg
  BY DEF ReadAsked
<1>5. content[f] \in Seq(Data) /\ Len(content[f]) \in Nat
  BY <1>2 DEF Typed
<1>6. /\ n <= size /\ p + n <= Len(content[f]) /\ (n = 0 => size = 0 \/ p = Len(content[f]))
      /\ t \in 0..n /\ (n > 0 => t > 0)
      /\ kept \in InputType /\ kept.file = f /\ At(kept) = p + t
      /\ taken \in Seq(Data) /\ Len(taken) = t /\ (t > 0 => taken # <<>>) /\ (t = 0 => taken = <<>>)
      /\ \A k \in 1..t : taken[k] = content[f][p + k]
      /\ inputs'[h] = kept /\ \A g \in Handles : g # h => inputs'[g] = Told[g]
  BY <1>1, <1>4 DEF ReadShaped
<1>7. IF size = 0 \/ Unreported(n) THEN viewed' = viewed ELSE Viewing(h, p, taken)
  BY <1>1, <1>4, Zenon DEF ReadShaped
<1>8. PICK x \in Nat : x = p + t
  BY <1>6
<1>9. Positions' = [Positions EXCEPT ![h] = Place(f, x)]
  <2>1. IsOpen(h)'
    BY <1>6, ClosedAssumption DEF IsOpen
  <2> QED
    BY <2>1, <1>2, <1>6, <1>8, NewPosition, SMTT(30)
<1>10. Positions[h] = Place(f, p) /\ Positions[h] # Closed
  <2>1. At(inputs[h]) = p
    BY <1>2 DEF At
  <2> QED
    BY <2>1, <1>2, PositionOf
<1>11. CASE size = 0
  <2>1. x = p
    BY <1>6, <1>8, <1>11
  <2>2. Positions = [g \in Handles |-> Positions[g]]
    BY DEF Positions, At, IsOpen
  <2>3. Positions' = Positions
    BY <2>1, <2>2, <1>9, <1>10
  <2> QED
    BY <2>3, <1>3, <1>7, <1>11 DEF Still
<1>12. CASE size # 0
  <2>1. PICK r \in Nat : r = t
    BY <1>6
  <2>2. /\ p + r <= Len(content[f]) /\ r <= Len(content[f]) /\ (r = 0 => p = Len(content[f]))
        /\ x = p + r
    BY <2>1, <1>5, <1>6, <1>8, <1>12
  <2>3. \/ NowKnown(f, p, r)
        \/ r = 0 /\ h \in sought /\ viewed' = viewed
    <3>1. CASE Unreported(n)
      <4>1. n = 0 /\ h \in sought
        BY <3>1, <1>2 DEF Unreported
      <4> QED
        BY <3>1, <4>1, <2>1, <1>6, <1>7
    <3>2. CASE ~Unreported(n)
      <4>1. PICK b \in Seq(Data) : b = taken
        BY <1>6
      <4>2. Viewing(h, p, b)
        BY <3>2, <4>1, <1>7, <1>12
      <4>3. /\ Len(b) = r /\ (r = 0 => b = <<>>) /\ (r > 0 => b # <<>>)
            /\ \A k \in 1..r : b[k] = content[f][p + k]
        BY <4>1, <2>1, <1>6
      <4>4. /\ Typed /\ f = inputs[h].file /\ r \in Nat /\ b \in Seq(Data) /\ Len(b) = r
            /\ (r = 0 => b = <<>>) /\ (r > 0 => b # <<>>)
            /\ p + r <= Len(content[f]) /\ (r = 0 => p = Len(content[f]))
            /\ \A k \in 1..r : b[k] = content[f][p + k]
            /\ Viewing(h, p, b)
        BY <4>1, <4>2, <4>3, <2>1, <2>2, <1>2
      <4>5. NowKnown(f, p, r)
        BY <4>4, ViewingHeld
      <4> QED
        BY <4>5
    <3> QED
      BY <3>1, <3>2
  <2> QED
    BY <2>1, <2>2, <2>3, <1>3, <1>5, <1>9, <1>10, ReadStep
<1> QED
  BY <1>4, <1>11, <1>12

LEMMA AnswerReadStep ==
  ASSUME Inv, NEW n \in Nat, AnswerRead(n)
  PROVE  Abstract!Next \/ Still
<1>1. CASE Die("early") \/ Die("past")
  BY <1>1, DieStill
<1>2. CASE \E m : \E h \in Handles, f \in Files, pos \in Nat :
             ReadAsked(m, h, f, pos) /\ ReadAnswered(n, m, h, f, pos)
  <2>1. PICK m : \E h \in Handles, f \in Files, pos \in Nat :
                   ReadAsked(m, h, f, pos) /\ ReadAnswered(n, m, h, f, pos)
    BY <1>2
  <2>2. PICK h \in Handles, f \in Files, pos \in Nat :
          ReadAsked(m, h, f, pos) /\ ReadAnswered(n, m, h, f, pos)
    BY <2>1
  <2> QED
    BY <2>2, ReadAnswerStep
<1> QED
  BY <1>1, <1>2, ReadQuery

(* Files change where TeX has not looked. *)
LEMMA ChangedStep ==
  ASSUME Inv', ~Interrupts, Positions' = Positions, UNCHANGED <<viewed, sought>>
  PROVE  Abstract!Next
<1>1. Typed' /\ ObservedCurrent'
  BY DEF Inv
<1>2. \A f \in Files : content'[f] \in Seq(Data)
  BY <1>1 DEF Typed
<1>3. \A f \in Files : \A p \in DOMAIN viewed[f] :
        viewed[f][p] = IF p < Len(content'[f]) THEN content'[f][p + 1] ELSE Eof
  BY <1>1 DEF ObservedCurrent
<1>4. Abstract!Change
  BY <1>2, <1>3 DEF Abstract!Change, Abstract!Byte
<1> QED
  BY <1>4 DEF Abstract!Next

LEMMA ChangesStep ==
  ASSUME Inv, Inv', ~Interrupts,
         AnswerFork \/ \E f \in Files : \E c \in Versions[f] : Change(f, c)
  PROVE  Abstract!Next
<1>1. CASE AnswerFork
  <2>1. inputs' = Bumped(inputs) /\ UNCHANGED <<viewed, sought>>
    BY <1>1 DEF AnswerFork
  <2>2. Typed
    BY DEF Inv
  <2>3. \A g \in Handles : /\ IsOpen(g) <=> IsOpen(g)'
                           /\ IsOpen(g) => /\ inputs'[g].file = inputs[g].file
                                           /\ At(inputs'[g]) = At(inputs[g])
    BY <2>1, <2>2, BumpedSame, ClosedAssumption DEF IsOpen, Same, At
  <2> QED
    BY <2>1, <2>3, SamePositions, ChangedStep
<1>2. CASE \E f \in Files : \E c \in Versions[f] : Change(f, c)
  <2>1. inputs' = inputs /\ UNCHANGED <<viewed, sought>>
    BY <1>2 DEF Change, ids
  <2> QED
    BY <2>1, SameInputs, ChangedStep
<1> QED
  BY <1>1, <1>2

-----------------------------------------------------------------------------
(* The refinement *)

LEMMA InitStep == Init => Abstract!Init
<1> SUFFICES ASSUME Init PROVE Abstract!Init
  OBVIOUS
<1>1. Positions = [h \in Handles |-> Closed]
  BY DEF Init, Positions, At, IsOpen
<1> QED
  BY <1>1 DEF Init, Abstract!Init

LEMMA NextStep ==
  ASSUME Inv, Inv', ~Interrupts, [Next]_vars
  PROVE  Abstract!Next \/ Still
<1>1. CASE \/ \E h \in Handles, f \in Files : Open(h, f)
           \/ \E h \in Handles : Close(h) \/ GetSize(h)
           \/ \E o \in Outputs : OpenWrite(o) \/ CloseWrite(o)
           \/ \E o \in Outputs \cup {Stdout} : PutC(o) \/ \E n \in Writes : Write(o, n)
           \/ Flush
  BY <1>1, CallsStill
<1>2. CASE ReadMore \/ \E h \in Handles : \E n \in Reads : Read(h, n)
  BY <1>2, ReadingStep
<1>3. CASE \E h \in Handles : \E n \in Seeks : Seek(h, n)
  <2>1. Seeks \subseteq Nat
    BY WorkerIOAssumption
  <2> QED
    BY <2>1, <1>3, SeekStep
<1>4. CASE \E h \in Handles : GetC(h) \/ SeekEnd(h) \/ Ungetc(h)
  BY <1>4, GetCStep, SeekEndStep, UngetcStep
<1>5. CASE AnswerSeen \/ AnswerAppend \/ AnswerOpenWrite
  BY <1>5, AnswersStill
<1>6. CASE AnswerOpen \/ AnswerClose \/ AnswerSize
  BY <1>6, AnswerOpenStep, AnswerCloseStep, AnswerSizeStill
<1>7. CASE \E n \in UNION {0..size : size \in Reads \cup {BufSize}} : AnswerRead(n)
  <2>1. UNION {0..size : size \in Reads \cup {BufSize}} \subseteq Nat
    BY WorkerIOAssumption
  <2> QED
    BY <2>1, <1>7, AnswerReadStep
<1>8. CASE AnswerFork \/ \E f \in Files : \E c \in Versions[f] : Change(f, c)
  BY <1>8, ChangesStep
<1>9. CASE UNCHANGED vars
  BY <1>9, StillInputs DEF vars, driver, ids, history
<1> QED
  BY <1>1, <1>2, <1>3, <1>4, <1>5, <1>6, <1>7, <1>8, <1>9, Zenon DEF Next

(* Through its buffers, its lazy reports, its ids, the messages of the     *)
(* socket, and forks, a worker gives TeX what its files hold, as OpenFiles *)
(* does, when no file changes while what TeX just read is being reported.  *)
THEOREM WorkerImplementsFiles == ~Interrupts => (Spec => ImplementsFiles)
<1> SUFFICES ASSUME ~Interrupts PROVE Spec => ImplementsFiles
  OBVIOUS
<1>1. Init => Abstract!Init
  BY InitStep
<1>2. Inv /\ Inv' /\ [Next]_vars => [Abstract!Next]_(Abstract!vars)
  BY NextStep DEF Still, Abstract!vars
<1> QED
  BY <1>1, <1>2, InvHolds, PTL DEF Spec, ImplementsFiles, Abstract!Spec
=============================================================================
