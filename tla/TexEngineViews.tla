---------------------------- MODULE TexEngineViews ----------------------------
(* Proof that the workers of TexEngine only know what the files hold: outside *)
(* of the transactions, what any process of the stack has observed of an      *)
(* input is the beginning of what the input holds now, for any document, any  *)
(* files, any changes and any sizes.                                          *)
EXTENDS TexEngineProofs

-----------------------------------------------------------------------------
(* What the proof assumes of a session: each hypothesis excludes a run that   *)
(* loses the property (MCResumeInBatch, MCRerunOverrun, MCPromisedOpen and    *)
(* MCPictureSize).                                                            *)
PlainSession ==
  /\ ~ResumeInBatch /\ ~RerunEnabled
  /\ Promised = {}
  /\ \A p \in Programs : \A k \in DOMAIN p : p[k].op # "picture"

(* A change finds at most one report of the worker that was not read          *)
(* (MCPendingSeen has two).                                                   *)
OnePending == changing /\ Top > 0 => Len(procs[Top].out) <= 2

(* The files that the document does not write, and what they hold *)
Inputs == Entries \ {prog[i].file : i \in {i \in DOMAIN prog : prog[i].op = "create"}}
Contents == [f \in Entries |-> InputData(f)]

-----------------------------------------------------------------------------
(* Views *)

Observation == Bytes \cup {Opened, Absent, Eof}

(* What there is to observe of a file that holds d, one after the other *)
Sights(d) == IF d = Null THEN 1 ELSE Len(d) + 2
Sight(d, k) ==
  IF d = Null THEN Absent
  ELSE IF k = 1 THEN Opened
  ELSE IF k <= Len(d) + 1 THEN d[k - 1] ELSE Eof

Shows(v, d) == Len(v) <= Sights(d) /\ \A k \in 1..Len(v) : v[k] = Sight(d, k)

(* The bytes of buf are those of d from pos on. *)
BytesOf(buf, d, pos) ==
  Len(buf) = 0 \/ /\ d # Null /\ pos + Len(buf) <= Len(d)
                  /\ \A k \in 1..Len(buf) : buf[k] = d[pos + k]

(* The first n bytes of d and d2 are the same. *)
Agree(d, d2, n) ==
  n = 0 \/ /\ d # Null /\ d2 # Null /\ n <= Len(d) /\ n <= Len(d2)
           /\ \A k \in 1..n : d[k] = d2[k]

(* The file was found to be missing at first: nothing notifies the driver     *)
(* when such a file appears on the disk.                                      *)
Fresh(v) == Len(v) > 0 /\ v[1] = Absent
Excused(f, v) == f \in DiskFiles /\ Fresh(v)

(* v was observed of a file that holds d, at level lv of the entry. *)
Account(f, d, v, lv) ==
  /\ Shows(v, d) \/ Excused(f, v)
  /\ lv # "none" => d # Null

(* The position s that the driver remembers is one of the view v. *)
Known(v, lv, s) ==
  /\ Len(v) = 0 <=> s = -1
  /\ Len(v) > 0 => s >= 0
  /\ Len(v) > 0 /\ v[1] = Opened /\ s > 0 => s + 1 <= Len(v) /\ v[s + 1] \in Bytes
  /\ lv = "none" => Len(v) = 0 \/ (Len(v) = 1 /\ v[1] = Absent /\ s = IntMax)
  /\ Len(v) = 0 => lv = "none"

(* The driver knows of every byte of v. *)
Told(v, s) == \A k \in 1..Len(v) : v[k] \in Bytes => k - 1 <= s

(* It knows of it, or the report is on its way. *)
Pending(p) ==
  {m \in {p.out[i] : i \in DOMAIN p.out} \cup {p.unsent[i] : i \in DOMAIN p.unsent} :
     m.tag = "SEEN"}
Reporting(p, f, s) ==
  \A k \in 1..Len(p.view[f]) :
    p.view[f][k] \in Bytes =>
      k - 1 <= s \/ \E m \in Pending(p) : m.file = f /\ k - 1 <= m.arg

(* The reports are about bytes that were observed. *)
Reports(inputs, p) ==
  \A m \in Pending(p) : m.file \in inputs =>
    m.arg > 0 /\ m.arg <= p.pos[m.file] /\ p.view[m.file][m.arg + 1] \in Bytes

(* What was read ahead is what the file holds there. *)
Ahead(f, d, v, pos, buf, lv) ==
  /\ BytesOf(buf, d, pos) \/ Excused(f, v)
  /\ lv = "none" => Len(buf) = 0

Shape(f, v, pos, buf) ==
  /\ v \in Seq(Observation) /\ buf \in Seq(Bytes)
  /\ Len(v) = 0 => pos = 0 /\ Len(buf) = 0
  /\ Len(v) > 0 => pos + 1 <= Len(v)
  /\ Fresh(v) => f \in DiskFiles \/ Disk[f] = Null

-----------------------------------------------------------------------------
(* The inductive invariant.  Reference is the length of the trace that seen   *)
(* is about: inside of a transaction, where it goes back.                     *)

Entry(f, d, v, lv, s) == Account(f, d, v, lv) /\ Known(v, lv, s) /\ Told(v, s)

(* The snapshots that the transaction keeps *)
Snapshots(inputs, D, ps, sn, tr, n) ==
  \A i \in 1..(Len(ps) - 1) : ps[i].len <= n =>
    \A f \in inputs :
      Entry(f, D[f], ps[i].view[f], ps[i].copy[f].level, Reverted(sn, tr, ps[i].len, n)[f])

(* Positions only grow along the trace. *)
Grows(inputs, sn, tr, n) ==
  \A f \in inputs : \A j, k \in 0..n :
    j <= k => Reverted(sn, tr, j, n)[f] <= Reverted(sn, tr, k, n)[f]

Chain(inputs, D, ps, sn, tr, n) ==
  Snapshots(inputs, D, ps, sn, tr, n) /\ Grows(inputs, sn, tr, n)

(* What runs, as long as no change concerns it *)
Runs(inputs, D, p, sv, sn, flushed) ==
  /\ \A f \in inputs :
       /\ Account(f, D[f], p.view[f], sv[f].level)
       /\ Known(p.view[f], sv[f].level, sn[f])
       /\ Reporting(p, f, sn[f])
       /\ \/ ~p.fd \/ flushed \/ p.flush
          \/ Ahead(f, D[f], p.view[f], p.pos[f], p.buf[f], sv[f].level)
  /\ Reports(inputs, p)
  /\ ~p.fd \/ flushed => p.asked /\ Pending(p) = {}

Innocent == Top > 0 /\ Reference = Len(trace) /\ ~procs[Top].killed

(* Where the contents come from *)
Sources ==
  /\ stash = {} /\ deferred = Null
  /\ Top = 0 => trace = <<>>
  /\ \A f \in Entries \ DiskFiles : disk[f] = Disk[f] /\ fs[f] \in {Null, Disk[f]}

(* A transaction goes back only if there was a worker when it began. *)
Recording == changing /\ Top > 0 => rollback.len # NotInTransaction

(* An entry of an input: once loaded, it is for the processes above as well *)
Plain(e) == e \in [level : {"none", "read"}, data : {Null}]
Levels(inputs, ps, sv) ==
  /\ DOMAIN sv = Entries /\ \A i \in 1..(Len(ps) - 1) : DOMAIN ps[i].copy = Entries
  /\ \A f \in inputs :
       /\ Plain(sv[f])
       /\ \A i \in 1..(Len(ps) - 1) :
            /\ Plain(ps[i].copy[f])
            /\ ps[i].copy[f].level # "none" => sv[f].level # "none"
            /\ \A j \in i..(Len(ps) - 1) :
                 ps[i].copy[f].level # "none" => ps[j].copy[f].level # "none"

Shapes(inputs, ps) ==
  \A i \in 1..Len(ps) :
    /\ DOMAIN ps[i].view = Entries /\ DOMAIN ps[i].buf = Entries
    /\ ps[i].flush => ps[i].asked
    /\ \A f \in inputs : Shape(f, ps[i].view[f], ps[i].pos[f], ps[i].buf[f])

Views ==
  /\ Shapes(Inputs, procs)
  /\ Sources /\ Recording
  /\ Levels(Inputs, procs, saved)
  /\ Chain(Inputs, Contents, procs, seen, trace, Reference)
  /\ Innocent => Runs(Inputs, Contents, procs[Top], saved, seen, rollback.flush)

ViewsInv == aborted = "no" => Views
-----------------------------------------------------------------------------
(* Lemmas about views *)

LEMMA ObservationsDiffer ==
  /\ Opened \notin Bytes /\ Absent \notin Bytes /\ Eof \notin Bytes
  /\ Opened # Absent /\ Opened # Eof /\ Absent # Eof
<1>1. {Opened, Absent, Eof} \cap Bytes = {} /\ Cardinality({Opened, Absent, Eof}) = 3
  BY TexEngineAssumption
<1>2. ASSUME NEW x, NEW y PROVE Cardinality({x, y}) # 3
  <2>1. IsFiniteSet({x}) /\ Cardinality({x}) = 1 /\ {x, y} = {x} \cup {y}
    BY FS_Singleton
  <2>2. CASE y \in {x}
    <3>1. {x} \cup {y} = {x}
      BY <2>2
    <3> QED
      BY <2>1, <3>1
  <2>3. CASE y \notin {x}
    <3>1. Cardinality({x} \cup {y}) = Cardinality({x}) + 1
      BY <2>1, <2>3, FS_AddElement
    <3> QED
      BY <2>1, <3>1
  <2> QED
    BY <2>2, <2>3
<1>3. ASSUME NEW x, NEW y, {Opened, Absent, Eof} = {x, y} PROVE FALSE
  <2>1. Cardinality({Opened, Absent, Eof}) = 3
    BY <1>1
  <2>2. Cardinality({x, y}) = 3
    BY <2>1, <1>3
  <2> QED
    BY <2>2, <1>2
<1>4. Opened # Absent
  <2>1. Opened = Absent => {Opened, Absent, Eof} = {Opened, Eof}
    OBVIOUS
  <2> QED
    BY <2>1, <1>3
<1>5. Opened # Eof
  <2>1. Opened = Eof => {Opened, Absent, Eof} = {Opened, Absent}
    OBVIOUS
  <2> QED
    BY <2>1, <1>3
<1>6. Absent # Eof
  <2>1. Absent = Eof => {Opened, Absent, Eof} = {Opened, Absent}
    OBVIOUS
  <2> QED
    BY <2>1, <1>3
<1> QED
  BY <1>1, <1>4, <1>5, <1>6

Stored == Seq(Bytes) \cup {Null}

LEMMA NullIsNoData ==
  /\ \A d \in Stored : d # Null => d \in Seq(Bytes) /\ Len(d) \in Nat
  /\ Null \in Stored /\ Null \notin Seq(Bytes)
BY TexEngineAssumption DEF Stored

(* A view that stops before offset holds as well after a change from offset on. *)
LEMMA Diverges ==
  ASSUME NEW f, NEW d \in Stored, NEW d2 \in Stored, NEW v \in Seq(Observation), NEW lv,
         NEW s \in Int, NEW offset \in Nat,
         Account(f, d, v, lv), Known(v, lv, s), Told(v, s), Agree(d, d2, offset), s < offset
  PROVE  Account(f, d2, v, lv)
<1>1. CASE Len(v) = 0
  <2>1. lv = "none"
    BY <1>1 DEF Known
  <2>2. Shows(v, d2)
    BY <1>1, NullIsNoData DEF Shows, Sights
  <2> QED
    BY <2>1, <2>2 DEF Account
<1>2. CASE Len(v) # 0
  <2>1. Len(v) \in Nat /\ Len(v) > 0 /\ s >= 0 /\ offset > 0
    BY <1>2 DEF Known
  <2>2. /\ d # Null /\ d2 # Null /\ offset <= Len(d) /\ offset <= Len(d2)
        /\ \A k \in 1..offset : d[k] = d2[k]
        /\ d \in Seq(Bytes) /\ d2 \in Seq(Bytes) /\ Len(d) \in Nat /\ Len(d2) \in Nat
    BY <2>1, NullIsNoData DEF Agree
  <2>3. CASE Shows(v, d)
    <3>1. Len(v) <= Len(d) + 2 /\ \A k \in 1..Len(v) : v[k] = Sight(d, k)
      BY <2>2, <2>3 DEF Shows, Sights
    <3>2. Len(v) <= s + 1
      <4>1. SUFFICES ASSUME Len(v) > s + 1 PROVE FALSE
        BY <2>1
      <4>2. s + 2 \in 1..Len(v) /\ s + 2 > 1 /\ s + 2 <= Len(d) + 1
        BY <4>1, <2>1, <2>2
      <4>3. v[s + 2] = d[s + 1]
        BY <4>2, <3>1, <2>2 DEF Sight
      <4>4. v[s + 2] \in Bytes
        BY <4>2, <4>3, <2>2
      <4> QED
        BY <4>2, <4>4 DEF Told
    <3>3. ASSUME NEW k \in 1..Len(v) PROVE Sight(d, k) = Sight(d2, k)
      <4>1. k <= offset
        BY <3>2, <2>1
      <4>2. k = 1 \/ k - 1 \in 1..offset
        BY <4>1
      <4> QED
        BY <4>1, <4>2, <2>2 DEF Sight
    <3>4. Shows(v, d2)
      BY <3>1, <3>2, <3>3, <2>1, <2>2 DEF Shows, Sights
    <3> QED
      BY <3>4, <2>2 DEF Account
  <2>4. CASE Excused(f, v)
    BY <2>2, <2>4 DEF Account
  <2> QED
    BY <2>3, <2>4 DEF Account
<1> QED
  BY <1>1, <1>2

(* What is reported, when no report is pending *)
LEMMA ReportedTold ==
  ASSUME NEW p, NEW f, NEW s, Reporting(p, f, s), Pending(p) = {}
  PROVE  Told(p.view[f], s)
BY DEF Reporting, Told

LEMMA ToldReported ==
  ASSUME NEW p, NEW f, NEW s, Told(p.view[f], s)
  PROVE  Reporting(p, f, s)
BY DEF Reporting, Told

-----------------------------------------------------------------------------
(* Lemmas about what the trace tells of the snapshots *)

Lengths(ps) == Len(ps) \in Nat /\ \A i \in 1..(Len(ps) - 1) : ps[i].len \in Nat

LEMMA RevertedHere ==
  ASSUME NEW sn, NEW tr, NEW n \in Nat, NEW g \in Entries
  PROVE  Reverted(sn, tr, n, n)[g] = sn[g]
<1>1. NoEntry(tr, n, n, g)
  BY DEF NoEntry
<1> QED
  BY <1>1, RevertedNone

(* Going back from n to b *)
LEMMA ChainRewound ==
  ASSUME NEW inputs, inputs \subseteq Entries, NEW D, NEW ps, Lengths(ps), NEW sn, NEW tr,
         NEW n \in Nat, NEW c \in Nat, c <= n, Chain(inputs, D, ps, sn, tr, n)
  PROVE  Chain(inputs, D, ps, Reverted(sn, tr, c, n), tr, c)
<1>1. PICK mid : mid = Reverted(sn, tr, c, n)
  OBVIOUS
<1>2. ASSUME NEW k \in Nat, k <= c, NEW g \in inputs
      PROVE  Reverted(mid, tr, k, c)[g] = Reverted(sn, tr, k, n)[g]
  <2>1. Reverted(Reverted(sn, tr, c, n), tr, k, c)[g] = Reverted(sn, tr, k, n)[g]
    BY <1>2, RevertedTwice
  <2> QED
    BY <1>1, <2>1
<1>3. Snapshots(inputs, D, ps, mid, tr, c)
  <2>1. SUFFICES ASSUME NEW i \in 1..(Len(ps) - 1), ps[i].len <= c, NEW g \in inputs
                 PROVE  Entry(g, D[g], ps[i].view[g], ps[i].copy[g].level,
                              Reverted(mid, tr, ps[i].len, c)[g])
    BY DEF Snapshots
  <2>2. ps[i].len \in Nat /\ ps[i].len <= n
    BY <2>1 DEF Lengths
  <2>3. Entry(g, D[g], ps[i].view[g], ps[i].copy[g].level, Reverted(sn, tr, ps[i].len, n)[g])
    BY <2>1, <2>2 DEF Chain, Snapshots
  <2> QED
    BY <2>1, <2>2, <2>3, <1>2
<1>4. Grows(inputs, mid, tr, c)
  <2>1. SUFFICES ASSUME NEW g \in inputs, NEW j \in 0..c, NEW k \in 0..c, j <= k
                 PROVE  Reverted(mid, tr, j, c)[g] <= Reverted(mid, tr, k, c)[g]
    BY DEF Grows
  <2>2. Reverted(sn, tr, j, n)[g] <= Reverted(sn, tr, k, n)[g]
    <3>1. j \in 0..n /\ k \in 0..n
      OBVIOUS
    <3> QED
      BY <2>1, <3>1 DEF Chain, Grows
  <2>3. j \in Nat /\ k \in Nat /\ j <= c /\ k <= c
    OBVIOUS
  <2> QED
    BY <2>2, <2>3, <1>2
<1> QED
  BY <1>1, <1>3, <1>4 DEF Chain

(* A change of f from offset on, that no snapshot that remains observed *)
LEMMA ChainDiverges ==
  ASSUME NEW inputs, inputs \subseteq Entries, NEW D, NEW D2, NEW ps, Lengths(ps),
         NEW sn \in [Entries -> Int], NEW tr \in Seq(TraceEntry), NEW n \in Nat, n <= Len(tr),
         Shapes(inputs, ps), Chain(inputs, D, ps, sn, tr, n),
         NEW f \in Entries, NEW offset \in Nat, sn[f] < offset,
         D[f] \in Stored, D2[f] \in Stored, Agree(D[f], D2[f], offset),
         \A g \in Entries : g # f => D2[g] = D[g]
  PROVE  Chain(inputs, D2, ps, sn, tr, n)
<1>1. SUFFICES ASSUME NEW i \in 1..(Len(ps) - 1), ps[i].len <= n, NEW g \in inputs
               PROVE  Entry(g, D2[g], ps[i].view[g], ps[i].copy[g].level,
                            Reverted(sn, tr, ps[i].len, n)[g])
  BY DEF Chain, Snapshots
<1>2. PICK s : s = Reverted(sn, tr, ps[i].len, n)[g]
  OBVIOUS
<1>3. ps[i].len \in Nat /\ n \in Int
  BY DEF Lengths
<1>4. Reverted(sn, tr, ps[i].len, n) \in [Entries -> Int]
  BY <1>3, RevertedTyped
<1>5. s \in Int
  BY <1>2, <1>4
<1>6. Entry(g, D[g], ps[i].view[g], ps[i].copy[g].level, s)
  BY <1>1, <1>2 DEF Chain, Snapshots
<1>7. CASE g # f
  BY <1>2, <1>6, <1>7
<1>8. CASE g = f
  <2>1. s < offset
    <3>1. ps[i].len \in 0..n /\ n \in 0..n
      BY <1>1, <1>3
    <3>2. Reverted(sn, tr, ps[i].len, n)[g] <= Reverted(sn, tr, n, n)[g]
      BY <1>1, <3>1 DEF Chain, Grows
    <3>3. Reverted(sn, tr, n, n)[g] = sn[g]
      BY RevertedHere
    <3> QED
      BY <1>2, <1>5, <1>8, <3>2, <3>3
  <2>2. ps[i].view[g] \in Seq(Observation)
    <3>1. i \in 1..Len(ps)
      BY DEF Lengths
    <3> QED
      BY <3>1 DEF Shapes, Shape
  <2>3. Account(g, D2[g], ps[i].view[g], ps[i].copy[g].level)
    BY <1>5, <1>6, <1>8, <2>1, <2>2, Diverges DEF Entry
  <2> QED
    BY <1>2, <1>6, <2>3 DEF Entry
<1> QED
  BY <1>7, <1>8

(* Other processes, of which the trace says as much *)
LEMMA ChainPart ==
  ASSUME NEW inputs, inputs \subseteq Entries, NEW D, NEW ps, NEW ps2, Lengths(ps),
         NEW sn, NEW tr, NEW tr2, NEW n \in Nat, Chain(inputs, D, ps, sn, tr, n),
         Len(ps2) \in Nat, Len(ps2) <= Len(ps),
         \A i \in 1..(Len(ps2) - 1) : ps2[i] = ps[i], \A k \in 1..n : tr2[k] = tr[k]
  PROVE  Chain(inputs, D, ps2, sn, tr2, n)
<1>1. ASSUME NEW k \in Nat, NEW g \in inputs
      PROVE  Reverted(sn, tr2, k, n)[g] = Reverted(sn, tr, k, n)[g]
  <2>1. \A j \in (k + 1)..n : tr2[j] = tr[j]
    OBVIOUS
  <2> QED
    BY <2>1, RevertedSame
<1>2. Snapshots(inputs, D, ps2, sn, tr2, n)
  <2>1. SUFFICES ASSUME NEW i \in 1..(Len(ps2) - 1), ps2[i].len <= n, NEW g \in inputs
                 PROVE  Entry(g, D[g], ps2[i].view[g], ps2[i].copy[g].level,
                              Reverted(sn, tr2, ps2[i].len, n)[g])
    BY DEF Snapshots
  <2>2. i \in 1..(Len(ps) - 1) /\ ps2[i] = ps[i] /\ ps[i].len \in Nat
    BY DEF Lengths
  <2>3. Entry(g, D[g], ps[i].view[g], ps[i].copy[g].level, Reverted(sn, tr, ps[i].len, n)[g])
    BY <2>1, <2>2 DEF Chain, Snapshots
  <2> QED
    BY <2>2, <2>3, <1>1
<1>3. Grows(inputs, sn, tr2, n)
  <2>1. SUFFICES ASSUME NEW g \in inputs, NEW j \in 0..n, NEW k \in 0..n, j <= k
                 PROVE  Reverted(sn, tr2, j, n)[g] <= Reverted(sn, tr2, k, n)[g]
    BY DEF Grows
  <2>2. Reverted(sn, tr, j, n)[g] <= Reverted(sn, tr, k, n)[g]
    BY <2>1 DEF Chain, Grows
  <2> QED
    BY <2>2, <1>1
<1> QED
  BY <1>2, <1>3 DEF Chain

(* What is recorded is not about the snapshots. *)
LEMMA RecordedBefore ==
  ASSUME Typed, NEW sn \in [Entries -> Int], NEW f \in Entries, NEW pos, NEW a \in Nat,
         a < Len(Recorded(trace, sn, f)), NEW g \in Entries
  PROVE  Reverted([sn EXCEPT ![f] = pos], Recorded(trace, sn, f), a,
                  Len(Recorded(trace, sn, f)))[g]
           = Reverted(sn, trace, a, Len(trace))[g]
<1>1. PICK n \in Nat : n = Len(trace)
  BY StackTyped
<1>2. PICK tr : tr = Recorded(trace, sn, f)
  OBVIOUS
<1>3. PICK sn2 : sn2 = [sn EXCEPT ![f] = pos]
  OBVIOUS
<1>4. CASE tr = trace
  <2>1. RevertsTo(a)
    BY <1>1, <1>2, <1>4 DEF RevertsTo
  <2> QED
    BY <2>1, RecordedReverted, ZenonT(30)
<1>5. CASE tr # trace
  <2>1. PICK e : e = [entry |-> f, seen |-> sn[f]]
    OBVIOUS
  <2>2. tr = Append(trace, e)
    BY <1>2, <1>5, <2>1 DEF Recorded
  <2>3. e \in TraceEntry
    BY <2>1 DEF TraceEntry
  <2>4. PICK c \in Nat : c = n + 1
    OBVIOUS
  <2>5. Len(tr) = c /\ tr[c] = e /\ (\A k \in 1..n : tr[k] = trace[k]) /\ Follows(c, n)
    BY <1>1, <2>2, <2>3, <2>4, LastOfTrace DEF Follows
  <2>6. a <= n /\ \A k \in (a + 1)..n : tr[k] = trace[k]
    BY <1>2, <2>4, <2>5
  <2>7. Appends(tr[c], sn, sn2, g)
    BY <1>3, <2>1, <2>5 DEF Appends
  <2>8. Reverted(sn2, tr, a, c)[g] = Reverted(sn, trace, a, n)[g]
    <3>1. PICK old : old = trace
      OBVIOUS
    <3>2. PICK sm : sm = sn
      OBVIOUS
    <3>3. \A k \in (a + 1)..n : tr[k] = old[k]
      BY <2>6, <3>1
    <3>4. Follows(c, n) /\ Appends(tr[c], sm, sn2, g)
      BY <2>5, <2>7, <3>2
    <3>5. a <= n
      BY <2>6
    <3>6. Reverted(sn2, tr, a, c)[g] = Reverted(sm, old, a, n)[g]
      BY <3>3, <3>4, <3>5, RevertedAppended
    <3> QED
      BY <3>1, <3>2, <3>6
  <2> QED
    BY <1>1, <1>2, <1>3, <2>5, <2>8
<1> QED
  BY <1>4, <1>5

(* The processes below the top one *)
LEMMA LengthsOfProcs ==
  ASSUME Inv
  PROVE  Lengths(procs) /\ Top = Len(procs) /\ \A i \in 1..(Top - 1) : procs[i].len <= Len(trace)
<1>1. Top \in Nat /\ Top = Len(procs)
  BY StackTyped DEF Inv, Top
<1>2. ASSUME NEW i \in 1..(Top - 1) PROVE procs[i].len \in Nat
  <2>1. i \in 1..Top
    BY <1>1
  <2> QED
    BY <2>1 DEF Inv, StackInv, Wellformed
<1> QED
  BY <1>1, <1>2 DEF Inv, StackInv, Lengths

(* A position that grows is recorded. *)
LEMMA ChainRecorded ==
  ASSUME Inv, NEW inputs, inputs \subseteq Entries, NEW D,
         Chain(inputs, D, procs, seen, trace, Len(trace)),
         NEW f \in Entries, NEW pos \in Int, f \in inputs => seen[f] <= pos
  PROVE  Chain(inputs, D, procs, [seen EXCEPT ![f] = pos], Recorded(trace, seen, f),
               Len(Recorded(trace, seen, f)))
<1>1. PICK n \in Nat : n = Len(trace)
  BY StackTyped DEF Inv
<1>2. PICK tr : tr = Recorded(trace, seen, f)
  OBVIOUS
<1>3. PICK sn2 : sn2 = [seen EXCEPT ![f] = pos]
  OBVIOUS
<1>4. Typed /\ seen \in [Entries -> Int] /\ Top \in Nat
  BY StackTyped DEF Inv, Typed
<1>5. PICK c \in Nat : c = Len(tr) /\ n <= c /\ c <= n + 1 /\ tr \in Seq(TraceEntry)
  <2>1. tr \in Seq(TraceEntry) /\ Len(tr) >= n
    BY <1>1, <1>2, <1>4, RecordedTyped
  <2>2. Len(tr) <= n + 1
    <3>1. CASE tr = trace
      BY <3>1, <1>1
    <3>2. CASE tr # trace
      <4>1. PICK e \in TraceEntry : e = [entry |-> f, seen |-> seen[f]]
        BY <1>4 DEF TraceEntry
      <4>2. tr = Append(trace, e)
        BY <1>2, <3>2, <4>1 DEF Recorded
      <4> QED
        BY <1>1, <1>4, <4>2, LastOfTrace
    <3> QED
      BY <3>1, <3>2
  <2> QED
    BY <2>1, <2>2
<1>6. ASSUME NEW a \in Nat, a < c, NEW g \in inputs
      PROVE  Reverted(sn2, tr, a, c)[g] = Reverted(seen, trace, a, n)[g]
  <2>1. a < Len(Recorded(trace, seen, f)) /\ g \in Entries /\ Typed /\ seen \in [Entries -> Int]
    BY <1>2, <1>4, <1>5, <1>6
  <2>2. Reverted([seen EXCEPT ![f] = pos], Recorded(trace, seen, f), a,
                 Len(Recorded(trace, seen, f)))[g]
          = Reverted(seen, trace, a, Len(trace))[g]
    BY <2>1, RecordedBefore, ZenonT(180)
  <2> QED
    BY <2>2, <1>1, <1>2, <1>3, <1>5
<1>7. ASSUME NEW i \in 1..(Len(procs) - 1)
      PROVE  procs[i].len \in Nat /\ procs[i].len < c
  <2>1. /\ i \in 1..(Top - 1) /\ procs[i].len \in Nat /\ procs[i].len <= n
        /\ Top - 1 \in 1..(Top - 1) /\ procs[Top - 1].len \in Nat
        /\ procs[i].len <= procs[Top - 1].len
    <3>1. i \in 1..(Top - 1) /\ Top - 1 \in 1..(Top - 1) /\ i <= Top - 1
      BY <1>4, LengthsOfProcs
    <3>2. procs[i].len <= procs[Top - 1].len
      BY <3>1 DEF Inv, StackInv
    <3>3. procs[i].len \in Nat /\ procs[Top - 1].len \in Nat /\ procs[i].len <= n
      BY <3>1, <1>1, LengthsOfProcs DEF Lengths
    <3> QED
      BY <3>1, <3>2, <3>3
  <2>2. CASE tr = trace
    <3>1. Append(trace, [entry |-> f, seen |-> seen[f]]) # trace
      <4>1. PICK e \in TraceEntry : e = [entry |-> f, seen |-> seen[f]]
        BY <1>4 DEF TraceEntry
      <4>2. Len(Append(trace, e)) = Len(trace) + 1
        BY <1>4, LastOfTrace
      <4> QED
        BY <1>1, <4>1, <4>2
    <3>2. Top <= 1 \/ procs[Top - 1].len # Len(trace)
      BY <1>2, <2>2, <3>1 DEF Recorded
    <3>3. procs[Top - 1].len # n /\ c = n
      BY <1>1, <1>4, <1>5, <2>1, <2>2, <3>2
    <3>4. procs[Top - 1].len <= n
      BY <2>1, <1>1, LengthsOfProcs
    <3> QED
      BY <2>1, <3>3, <3>4
  <2>3. CASE tr # trace
    <3>1. c = n + 1
      <4>1. PICK e \in TraceEntry : e = [entry |-> f, seen |-> seen[f]]
        BY <1>4 DEF TraceEntry
      <4>2. tr = Append(trace, e)
        BY <1>2, <2>3, <4>1 DEF Recorded
      <4> QED
        BY <1>1, <1>4, <1>5, <4>2, LastOfTrace
    <3> QED
      BY <2>1, <3>1
  <2> QED
    BY <2>2, <2>3
<1>8. Snapshots(inputs, D, procs, sn2, tr, c)
  <2>1. SUFFICES ASSUME NEW i \in 1..(Len(procs) - 1), NEW g \in inputs
                 PROVE  Entry(g, D[g], procs[i].view[g], procs[i].copy[g].level,
                              Reverted(sn2, tr, procs[i].len, c)[g])
    BY DEF Snapshots
  <2>2. procs[i].len \in Nat /\ procs[i].len < c /\ procs[i].len <= n
    BY <1>7, <1>5
  <2>3. Entry(g, D[g], procs[i].view[g], procs[i].copy[g].level,
              Reverted(seen, trace, procs[i].len, n)[g])
    BY <1>1, <2>2 DEF Chain, Snapshots
  <2> QED
    BY <2>2, <2>3, <1>6
<1>9. Grows(inputs, sn2, tr, c)
  <2>1. SUFFICES ASSUME NEW g \in inputs, NEW j \in 0..c, NEW k \in 0..c, j <= k
                 PROVE  Reverted(sn2, tr, j, c)[g] <= Reverted(sn2, tr, k, c)[g]
    BY DEF Grows
  <2>2. \A h \in 0..n, m \in 0..n :
          h <= m => Reverted(seen, trace, h, n)[g] <= Reverted(seen, trace, m, n)[g]
    BY <1>1 DEF Chain, Grows
  <2>3. j \in Nat /\ k \in Nat /\ g \in Entries /\ n \in 0..n
    OBVIOUS
  <2>4. CASE k < c
    <3>1. j \in 0..n /\ k \in 0..n /\ j < c
      BY <1>5, <2>1, <2>3, <2>4
    <3>2. Reverted(seen, trace, j, n)[g] <= Reverted(seen, trace, k, n)[g]
      BY <2>1, <2>2, <3>1
    <3> QED
      BY <2>3, <2>4, <3>1, <3>2, <1>6
  <2>5. CASE k = c /\ j < c
    <3>1. j \in 0..n
      BY <1>5, <2>3, <2>5
    <3>2. Reverted(seen, trace, j, n)[g] <= Reverted(seen, trace, n, n)[g]
      BY <2>2, <2>3, <3>1
    <3>3. Reverted(seen, trace, n, n)[g] = seen[g] /\ Reverted(sn2, tr, k, c)[g] = sn2[g]
      BY <2>3, <2>5, RevertedHere
    <3>4. seen[g] <= sn2[g] /\ seen[g] \in Int /\ sn2[g] \in Int
      BY <1>3, <1>4, <2>3
    <3>5. Reverted(sn2, tr, j, c)[g] = Reverted(seen, trace, j, n)[g]
      BY <2>3, <2>5, <1>6
    <3>6. Reverted(seen, trace, j, n) \in [Entries -> Int]
      <4>1. trace \in Seq(TraceEntry) /\ n \in Int /\ n <= Len(trace)
        BY <1>1, <1>4 DEF Typed
      <4> QED
        BY <4>1, <1>4, <2>3, RevertedTyped
    <3>7. Reverted(seen, trace, j, n)[g] \in Int
      BY <2>3, <3>6
    <3> QED
      BY <3>2, <3>3, <3>4, <3>5, <3>7
  <2>6. CASE k = c /\ j = c
    <3>1. sn2[g] \in Int
      BY <1>3, <1>4, <2>3
    <3>2. Reverted(sn2, tr, c, c)[g] = sn2[g]
      BY <2>3, RevertedHere
    <3> QED
      BY <2>6, <3>1, <3>2
  <2> QED
    BY <2>1, <2>3, <2>4, <2>5, <2>6
<1> QED
  BY <1>2, <1>3, <1>5, <1>8, <1>9 DEF Chain

LEMMA EmptyShows ==
  ASSUME NEW v, Len(v) = 0, NEW d \in Stored
  PROVE  Shows(v, d)
BY NullIsNoData DEF Shows, Sights

(* A file is loaded, that no process has opened. *)
LEMMA ChainLoaded ==
  ASSUME NEW inputs, inputs \subseteq Entries, NEW D, NEW D2, NEW ps, Lengths(ps), NEW sv,
         NEW sn, NEW tr, NEW n \in Nat, Chain(inputs, D, ps, sn, tr, n),
         Levels(inputs, ps, sv), Shapes(inputs, ps),
         \A g \in inputs : D2[g] \in Stored,
         \A g \in inputs : \/ D2[g] = D[g]
                           \/ sv[g].level = "none" /\ (g \in DiskFiles \/ Disk[g] # Null)
  PROVE  Chain(inputs, D2, ps, sn, tr, n)
<1>1. SUFFICES ASSUME NEW i \in 1..(Len(ps) - 1), ps[i].len <= n, NEW g \in inputs
               PROVE  Entry(g, D2[g], ps[i].view[g], ps[i].copy[g].level,
                            Reverted(sn, tr, ps[i].len, n)[g])
  BY DEF Chain, Snapshots
<1>2. PICK v, lv, s : v = ps[i].view[g] /\ lv = ps[i].copy[g].level
                      /\ s = Reverted(sn, tr, ps[i].len, n)[g]
  OBVIOUS
<1>3. Entry(g, D[g], v, lv, s)
  BY <1>1, <1>2 DEF Chain, Snapshots
<1>4. CASE D2[g] = D[g]
  BY <1>2, <1>3, <1>4
<1>5. CASE sv[g].level = "none" /\ (g \in DiskFiles \/ Disk[g] # Null)
  <2>1. lv = "none"
    BY <1>2, <1>5 DEF Levels
  <2>2. Len(v) = 0 \/ (Len(v) = 1 /\ v[1] = Absent)
    BY <1>3, <2>1 DEF Entry, Known
  <2>3. CASE Len(v) = 0
    <3>1. Shows(v, D2[g])
      BY <2>3, EmptyShows
    <3>2. Account(g, D2[g], v, lv)
      BY <2>1, <3>1 DEF Account
    <3> QED
      BY <1>2, <1>3, <3>2 DEF Entry
  <2>4. CASE Len(v) = 1 /\ v[1] = Absent
    <3>1. Fresh(v)
      BY <2>4 DEF Fresh
    <3>2. g \in DiskFiles
      <4>1. i \in 1..Len(ps)
        BY DEF Lengths
      <4> QED
        BY <1>2, <1>5, <3>1, <4>1 DEF Shapes, Shape
    <3>3. Account(g, D2[g], v, lv)
      BY <2>1, <3>1, <3>2 DEF Account, Excused
    <3> QED
      BY <1>2, <1>3, <3>3 DEF Entry
  <2> QED
    BY <2>2, <2>3, <2>4
<1> QED
  BY <1>4, <1>5

-----------------------------------------------------------------------------
(* Lemmas about the messages *)

LEMMA OneMessage ==
  ASSUME NEW g, NEW p, Wellformed(g, p), p.out # <<>>, Tail(p.out) = <<>>
  PROVE  p.out = <<Head(p.out)>>
<1>1. CASE p.out = <<ChildMessage>>
  BY <1>1
<1>2. ASSUME NEW u \in Seq(SeenMessage), NEW q, p.out = u \o <<q>>
      PROVE  p.out = <<Head(p.out)>>
  <2>1. CASE u = <<>>
    <3>1. p.out = <<q>>
      BY <1>2, <2>1, Parts
    <3> QED
      BY <3>1
  <2>2. CASE u # <<>>
    <3>1. Tail(p.out) = Tail(u) \o <<q>> /\ Tail(u) \in Seq(SeenMessage)
      BY <1>2, <2>2, Parts
    <3>2. Tail(u) \o <<q>> # <<>>
      BY <3>1, Parts
    <3> QED
      BY <3>1, <3>2
  <2> QED
    BY <2>1, <2>2
<1> QED
  BY <1>1, <1>2 DEF Wellformed, Speaking

LEMMA PendingOne ==
  ASSUME NEW p, NEW m, p.out = <<m>>, m.tag # "SEEN", p.unsent = <<>>
  PROVE  Pending(p) = {}
<1>1. DOMAIN p.out = {1} /\ p.out[1] = m /\ DOMAIN p.unsent = {}
  OBVIOUS
<1> QED
  BY <1>1 DEF Pending

LEMMA PendingNone ==
  ASSUME NEW p, p.out = <<>>, p.unsent = <<>>
  PROVE  Pending(p) = {}
<1>1. DOMAIN p.out = {} /\ DOMAIN p.unsent = {}
  OBVIOUS
<1> QED
  BY <1>1 DEF Pending

(* When the driver reads a query, it has read every report. *)
LEMMA QueryQuiet ==
  ASSUME Inv, NEW tag \in Answerable, Receive(tag)
  PROVE  Pending(procs[Top]) = {} /\ procs[Top].asked /\ procs[Top].unsent = <<>>
<1>1. PICK p : p = procs[Top]
  OBVIOUS
<1>2. /\ Wellformed(prog, p) /\ p.out # <<>> /\ Tail(p.out) = <<>>
      /\ Head(p.out).tag = tag
  BY <1>1, QueryRead, Zenon DEF Receive, Message
<1>3. p.out = <<Head(p.out)>>
  BY <1>2, OneMessage
<1>4. p.asked /\ p.unsent = <<>>
  BY <1>2 DEF Wellformed
<1>5. tag # "SEEN"
  BY DEF Answerable
<1>6. PICK m : m = Head(p.out)
  OBVIOUS
<1>7. p.out = <<m>> /\ m.tag # "SEEN"
  BY <1>2, <1>3, <1>5, <1>6
<1>8. Pending(p) = {}
  BY <1>4, <1>7, PendingOne
<1> QED
  BY <1>1, <1>4, <1>8

-----------------------------------------------------------------------------
(* The invariant outside of the transactions *)

LEMMA SameInputs ==
  ASSUME prog' = prog
  PROVE  Inputs' = Inputs
BY DEF Inputs

LEMMA InputsEntries ==
  Inputs \subseteq Entries
BY DEF Inputs

LEMMA ContentsStored ==
  ASSUME FilesInv, NEW f \in Entries
  PROVE  Contents[f] \in Stored /\ Contents[f] = InputData(f)
BY DEF Contents, InputData, FilesInv, Files, Stored

LEMMA ReferenceTyped ==
  ASSUME Inv
  PROVE  Reference \in Nat /\ Reference <= Len(trace) /\ (~changing => Reference = Len(trace))
<1>1. Len(trace) \in Nat /\ rollback.len \in Nat \cup {NotInTransaction} /\ Typed
  BY StackTyped DEF Inv
<1>2. ~changing => rollback.len = NotInTransaction
  BY ClosedTransaction DEF Inv, RollbackInv
<1>3. rollback.len <= Len(trace)
  BY DEF Inv, RollbackInv
<1> QED
  BY <1>1, <1>2, <1>3 DEF Reference

(* Outside of the transactions, what runs has its account. *)
LEMMA RunsNow ==
  ASSUME Inv, Views, ~changing, Top > 0
  PROVE  /\ Innocent /\ Reference = Len(trace) /\ ~rollback.flush
         /\ Runs(Inputs, Contents, procs[Top], saved, seen, FALSE)
<1>1. Reference = Len(trace)
  BY ReferenceTyped
<1>2. rollback = Closed /\ ~procs[Top].killed
  BY DEF Inv, RollbackInv
<1>3. rollback.flush = FALSE
  BY <1>2 DEF Closed
<1>4. Innocent
  BY <1>1, <1>2 DEF Innocent
<1> QED
  BY <1>1, <1>3, <1>4 DEF Views

-----------------------------------------------------------------------------
(* The answers *)

(* What the process on top has of a file once its query is answered *)
Fits(f, d, v, pos, buf, lv, s) ==
  /\ Shape(f, v, pos, buf) /\ Account(f, d, v, lv) /\ Known(v, lv, s) /\ Told(v, s)
  /\ Ahead(f, d, v, pos, buf, lv)

Loads ==
  \A f \in Entries :
    \/ fs'[f] = fs[f]
    \/ fs'[f] = disk[f] /\ disk[f] # Null /\ saved[f].level = "none"

SavedGrows ==
  /\ DOMAIN saved' = Entries
  /\ \A f \in Inputs :
       Plain(saved'[f]) /\ (saved[f].level # "none" => saved'[f].level # "none")

SeenGrows ==
  \/ UNCHANGED <<seen, trace>>
  \/ \E f \in Entries : \E pos \in Int :
       RecordSeen(seen, f, pos) /\ (f \in Inputs => seen[f] <= pos)

LEMMA LevelsGrow ==
  ASSUME NEW inputs, NEW ps, NEW ps2, NEW sv, NEW sv2, Levels(inputs, ps, sv),
         Len(ps2) = Len(ps), \A i \in 1..(Len(ps) - 1) : ps2[i] = ps[i],
         DOMAIN sv2 = Entries,
         \A f \in inputs :
           Plain(sv2[f]) /\ (sv[f].level # "none" => sv2[f].level # "none")
  PROVE  Levels(inputs, ps2, sv2)
BY DEF Levels

LEMMA ChainGrows ==
  ASSUME Inv, NEW D, Chain(Inputs, D, procs, seen, trace, Len(trace)), SeenGrows
  PROVE  Chain(Inputs, D, procs, seen', trace', Len(trace'))
<1>1. CASE UNCHANGED <<seen, trace>>
  BY <1>1
<1>2. ASSUME NEW f \in Entries, NEW pos \in Int, RecordSeen(seen, f, pos),
             f \in Inputs => seen[f] <= pos
      PROVE  Chain(Inputs, D, procs, seen', trace', Len(trace'))
  <2>1. PICK inputs : inputs = Inputs /\ inputs \subseteq Entries
    BY InputsEntries
  <2>2. Chain(inputs, D, procs, seen, trace, Len(trace)) /\ (f \in inputs => seen[f] <= pos)
    BY <1>2, <2>1
  <2>3. Chain(inputs, D, procs, [seen EXCEPT ![f] = pos], Recorded(trace, seen, f),
              Len(Recorded(trace, seen, f)))
    BY <2>1, <2>2, ChainRecorded
  <2> QED
    BY <1>2, <2>1, <2>3 DEF RecordSeen
<1> QED
  BY <1>1, <1>2 DEF SeenGrows

LEMMA AnswerViews ==
  ASSUME Inv, TraceInv, TraceInv', Views, ~changing, Top > 0, SameBelow,
         UNCHANGED <<prog, disk, edit, stash, changing, rollback, deferred>>,
         NEW n, NEW v, NEW ps, NEW b,
         Replied(procs[Top], procs'[Top], n, v, ps, b), procs[Top].unsent = <<>>, procs[Top].fd,
         DOMAIN v = Entries, DOMAIN b = Entries, Loads, SavedGrows, SeenGrows,
         \A f \in Inputs : Fits(f, Contents'[f], v[f], ps[f], b[f], saved'[f].level, seen'[f])
  PROVE  Views'
<1>1. PICK inputs : inputs = Inputs /\ inputs = Inputs' /\ inputs \subseteq Entries
  BY SameInputs, InputsEntries
<1>2. PICK D2 : D2 = Contents'
  OBVIOUS
<1>3. /\ Top' = Top /\ Len(procs') = Len(procs) /\ Top = Len(procs) /\ Top \in Nat
      /\ \A i \in 1..(Len(procs) - 1) : procs'[i] = procs[i]
  BY StackTyped DEF SameBelow, Top, Inv
<1>4. Shapes(inputs, procs')
  <2>1. ASSUME NEW i \in 1..Len(procs')
        PROVE  /\ DOMAIN procs'[i].view = Entries /\ DOMAIN procs'[i].buf = Entries
               /\ procs'[i].flush => procs'[i].asked
               /\ \A f \in inputs : Shape(f, procs'[i].view[f], procs'[i].pos[f], procs'[i].buf[f])
    <3>1. CASE i = Top
      BY <1>1, <3>1 DEF Replied, Fits
    <3>2. CASE i # Top
      <4>1. procs'[i] = procs[i] /\ i \in 1..Len(procs)
        BY <1>3, <3>2
      <4> QED
        BY <1>1, <4>1 DEF Views, Shapes
    <3> QED
      BY <3>1, <3>2
  <2> QED
    BY <2>1 DEF Shapes
<1>5. Sources' /\ Recording'
  <2>1. \A f \in Entries \ DiskFiles : disk'[f] = Disk[f] /\ fs'[f] \in {Null, Disk[f]}
    BY DEF Loads, Views, Sources
  <2> QED
    BY <1>3, <2>1 DEF Views, Sources, Recording
<1>6. Levels(inputs, procs', saved')
  BY <1>1, <1>3, LevelsGrow DEF SavedGrows, Views
<1>7. Chain(inputs, D2, procs', seen', trace', Len(trace')) /\ Len(trace') \in Nat
  <2>1. Lengths(procs)
    BY LengthsOfProcs
  <2>2. Chain(inputs, Contents, procs, seen, trace, Reference) /\ Reference = Len(trace)
    BY <1>1, RunsNow DEF Views
  <2>3. Chain(inputs, Contents, procs, seen', trace', Len(trace'))
    BY <1>1, <2>2, ChainGrows
  <2>4. Len(trace') \in Nat
    <3>1. Len(trace) \in Nat
      BY StackTyped DEF Inv
    <3>2. ASSUME NEW f \in Entries, NEW pos \in Int, RecordSeen(seen, f, pos)
          PROVE  Len(trace') \in Nat
      <4>1. trace' \in Seq(TraceEntry)
        BY <3>2, RecordTyped DEF Inv, Typed
      <4> QED
        BY <4>1
    <3> QED
      BY <3>1, <3>2 DEF SeenGrows
  <2>5. ASSUME NEW g \in inputs
        PROVE  /\ D2[g] \in Stored
               /\ \/ D2[g] = Contents[g]
                  \/ saved[g].level = "none" /\ (g \in DiskFiles \/ Disk[g] # Null)
    <3>1. FilesInv /\ FilesInv' /\ g \in Entries
      BY <1>1 DEF TraceInv
    <3>2. Contents'[g] \in Stored /\ Contents'[g] = InputData(g)'
      BY <3>1 DEF Contents, InputData, FilesInv, Files, Stored
    <3>3. Contents[g] = InputData(g)
      BY <3>1, ContentsStored
    <3>4. CASE fs'[g] = fs[g]
      BY <1>2, <3>2, <3>3, <3>4 DEF InputData
    <3>5. CASE fs'[g] # fs[g]
      <4>1. disk[g] # Null /\ saved[g].level = "none"
        BY <3>1, <3>5 DEF Loads
      <4>2. g \in DiskFiles \/ disk[g] = Disk[g]
        BY <3>1 DEF Views, Sources
      <4> QED
        BY <1>2, <3>2, <4>1, <4>2
    <3> QED
      BY <3>4, <3>5
  <2>6. Levels(inputs, procs, saved) /\ Shapes(inputs, procs)
    BY <1>1 DEF Views
  <2>7. Chain(inputs, D2, procs, seen', trace', Len(trace'))
    BY <1>1, <2>1, <2>3, <2>4, <2>5, <2>6, ChainLoaded
  <2> QED
    BY <1>1, <1>3, <2>1, <2>4, <2>7, ChainPart
<1>8. Reference' = Len(trace') /\ rollback'.flush = FALSE
  <2>1. rollback' = Closed
    BY DEF Inv, RollbackInv
  <2> QED
    BY <2>1, ClosedTransaction DEF Reference, Closed
<1>9. Runs(inputs, D2, procs'[Top], saved', seen', FALSE)
  <2>1. PICK q : q = procs'[Top]
    OBVIOUS
  <2>2. q.out = <<>> /\ q.unsent = <<>> /\ q.view = v /\ q.pos = ps /\ q.buf = b /\ q.fd = procs[Top].fd
    BY <2>1 DEF Replied
  <2>3. Pending(q) = {}
    BY <2>2, PendingNone
  <2>4. ASSUME NEW f \in inputs
        PROVE  /\ Account(f, D2[f], q.view[f], saved'[f].level)
               /\ Known(q.view[f], saved'[f].level, seen'[f])
               /\ Reporting(q, f, seen'[f])
               /\ Ahead(f, D2[f], q.view[f], q.pos[f], q.buf[f], saved'[f].level)
    BY <1>1, <1>2, <2>2, ToldReported DEF Fits
  <2>5. Reports(inputs, q)
    BY <2>3 DEF Reports
  <2>6. q.fd
    BY <2>2
  <2> QED
    BY <2>1, <2>3, <2>4, <2>5, <2>6 DEF Runs
<1> QED
  BY <1>1, <1>2, <1>3, <1>4, <1>5, <1>6, <1>7, <1>8, <1>9 DEF Views

(* Outside of a transaction *)
LEMMA ReceivesOutside ==
  ASSUME PlainSession, Inv, NEW tag \in Answerable, Receive(tag)
  PROVE  /\ ~changing /\ aborted = "no" /\ deferred = Null
         /\ Top > 0 /\ procs[Top].fd /\ procs[Top].pc \in 1..Len(prog)
BY QueryRead DEF PlainSession, Receive, Stepping

(* What the answer is not about stays. *)
LEMMA SameFits ==
  ASSUME Inv, Views, ~changing, NEW tag \in Answerable, Receive(tag), NEW f \in Inputs
  PROVE  Fits(f, Contents[f], procs[Top].view[f], procs[Top].pos[f],
              FreshBuffers(procs[Top])[f], saved[f].level, seen[f])
<1>1. PICK p : p = procs[Top]
  OBVIOUS
<1>2. Top > 0 /\ p.fd /\ Pending(p) = {} /\ Top \in 1..Len(procs)
  BY <1>1, QueryRead, QueryQuiet, StackTyped DEF Inv, Top
<1>3. Runs(Inputs, Contents, p, saved, seen, FALSE)
  BY <1>1, <1>2, RunsNow
<1>4. Shape(f, p.view[f], p.pos[f], p.buf[f])
  BY <1>1, <1>2 DEF Views, Shapes
<1>5. Told(p.view[f], seen[f])
  BY <1>2, <1>3, ReportedTold DEF Runs
<1>6. CASE p.flush
  <2>1. PICK b : b = FreshBuffers(p)[f]
    OBVIOUS
  <2>2. b = <<>>
    BY <1>6, <2>1, InputsEntries DEF FreshBuffers, NoBuffers
  <2>3. b \in Seq(Bytes) /\ Len(b) = 0
    BY <2>2
  <2> QED
    BY <1>1, <1>3, <1>4, <1>5, <2>1, <2>3 DEF Fits, Runs, Shape, BytesOf, Ahead
<1>7. CASE ~p.flush
  BY <1>1, <1>2, <1>3, <1>4, <1>5, <1>7 DEF Fits, Runs, FreshBuffers
<1> QED
  BY <1>6, <1>7

LEMMA SameContents ==
  ASSUME NEW f \in Entries, fs'[f] = fs[f], edit'[f] = edit[f]
  PROVE  Contents'[f] = Contents[f]
BY DEF Contents, InputData

LEMMA TopDomains ==
  ASSUME Inv, Views, Top > 0
  PROVE  /\ DOMAIN procs[Top].view = Entries /\ DOMAIN procs[Top].buf = Entries
         /\ DOMAIN FreshBuffers(procs[Top]) = Entries /\ DOMAIN saved = Entries
         /\ procs[Top].flush => procs[Top].asked
         /\ \A f \in Inputs :
              Shape(f, procs[Top].view[f], procs[Top].pos[f], procs[Top].buf[f])
<1>1. Top \in 1..Len(procs)
  BY StackTyped DEF Inv, Top
<1>2. DOMAIN NoBuffers = Entries
  BY DEF NoBuffers
<1> QED
  BY <1>1, <1>2 DEF Views, Shapes, Levels, FreshBuffers

(* Answers that tell nothing of the inputs *)
LEMMA PlainAnswerViews ==
  ASSUME Inv, TraceInv, TraceInv', Views, ~changing, NEW tag \in Answerable, Receive(tag),
         SetTop(StepDone(Answered(procs[Top]))),
         UNCHANGED <<prog, disk, fs, edit, stash, changing, rollback, deferred>>,
         SeenGrows, DOMAIN saved' = Entries,
         \A g \in Inputs : saved'[g] = saved[g] /\ seen'[g] = seen[g]
  PROVE  Views'
<1>1. PICK p : p = procs[Top]
  OBVIOUS
<1>2. /\ Top > 0 /\ p.fd /\ p.pc \in 1..Len(prog) /\ p.unsent = <<>>
  BY <1>1, QueryRead, QueryQuiet
<1>3. PICK v, ps, b : v = p.view /\ ps = p.pos /\ b = FreshBuffers(p)
  OBVIOUS
<1>4. SameBelow /\ \E m \in 1..(Len(prog) + 1) : Replied(p, procs'[Top], m, v, ps, b)
  BY <1>1, <1>2, <1>3, PlainReplies
<1>5. ASSUME NEW f \in Inputs
      PROVE  Fits(f, Contents'[f], v[f], ps[f], b[f], saved'[f].level, seen'[f])
  <2>1. Contents'[f] = Contents[f]
    BY InputsEntries, SameContents
  <2> QED
    BY <1>1, <1>3, <2>1, SameFits
<1>6. Loads /\ SavedGrows
  BY DEF Loads, SavedGrows, Views, Levels
<1>7. DOMAIN v = Entries /\ DOMAIN b = Entries
  BY <1>1, <1>2, <1>3, TopDomains
<1> QED
  BY <1>1, <1>2, <1>4, <1>5, <1>6, <1>7, AnswerViews

LEMMA CloseViews ==
  ASSUME PlainSession, Inv, TraceInv, TraceInv', Views, NEW f \in Entries, Close(f)
  PROVE  Views'
<1>1. Receive("CLOS") /\ "CLOS" \in Answerable
  BY DEF Close, Answerable
<1>2. ~changing
  BY <1>1, ReceivesOutside
<1>3. SetTop(StepDone(Answered(procs[Top])))
  BY DEF Close
<1>4. UNCHANGED <<prog, disk, fs, edit, stash, changing, rollback, deferred, seen, trace, saved>>
  BY DEF Close, vfs
<1> QED
  BY <1>1, <1>2, <1>3, <1>4, PlainAnswerViews DEF SeenGrows, Views, Levels

LEMMA KeepPictureViews ==
  ASSUME PlainSession, Inv, TraceInv, TraceInv', Views, NEW f \in Entries, KeepPicture(f)
  PROVE  Views'
<1>1. Receive("SPIC") /\ "SPIC" \in Answerable
  BY DEF KeepPicture, Answerable
<1>2. ~changing
  BY <1>1, ReceivesOutside
<1>3. SetTop(StepDone(Answered(procs[Top])))
  BY DEF KeepPicture
<1>4. UNCHANGED <<prog, disk, fs, edit, stash, changing, rollback, deferred, seen, trace, saved>>
  BY DEF KeepPicture
<1> QED
  BY <1>1, <1>2, <1>3, <1>4, PlainAnswerViews DEF SeenGrows, Views, Levels

LEMMA PictureViews ==
  ASSUME PlainSession, Inv, NEW f \in Entries, Picture(f)
  PROVE  FALSE
<1>1. Receive("GPIC") /\ "GPIC" \in Answerable
  BY DEF Picture, Answerable
<1>2. procs[Top].pc \in 1..Len(prog) /\ TagOf[prog[procs[Top].pc].op] = "GPIC"
  BY <1>1, QueryRead
<1>3. /\ prog[procs[Top].pc].op \in {"open", "read", "close", "create", "append", "keep", "picture"}
      /\ prog[procs[Top].pc].op # "picture"
  BY <1>2, ProgTyped DEF PlainSession, Inv, Typed
<1> QED
  BY <1>2, <1>3 DEF TagOf

(* The files that are written are not inputs. *)
LEMMA Written ==
  ASSUME Inv, NEW tag \in {"OPWR", "APND"}, Receive(tag)
  PROVE  tag \in Answerable /\ Message.file \notin Inputs
<1>1. tag \in Answerable
  BY DEF Answerable
<1>2. PICK k : k = procs[Top].pc
  OBVIOUS
<1>3. k \in 1..Len(prog) /\ TagOf[prog[k].op] = tag /\ Message.file = prog[k].file
  BY <1>1, <1>2, QueryRead
<1>4. prog[k].op \in {"open", "read", "close", "create", "append", "keep", "picture"}
      /\ DOMAIN prog = 1..Len(prog) /\ prog \in Programs
  BY <1>3, ProgTyped DEF Inv, Typed
<1>5. \E j \in DOMAIN prog : prog[j].op = "create" /\ prog[j].file = Message.file
  <2>1. CASE tag = "OPWR"
    <3>1. prog[k].op = "create"
      BY <1>3, <1>4, <2>1 DEF TagOf
    <3> QED
      BY <1>3, <1>4, <3>1
  <2>2. CASE tag = "APND"
    <3>1. prog[k].op = "append"
      BY <1>3, <1>4, <2>2 DEF TagOf
    <3>2. PICK j \in 1..k : prog[j].op = "create" /\ prog[j].file = prog[k].file
      BY <1>3, <1>4, <3>1, ProgramsAssumption
    <3>3. j \in DOMAIN prog
      BY <1>3, <1>4, ProgTyped DEF Inv
    <3> QED
      BY <1>3, <3>2, <3>3
  <2> QED
    BY <2>1, <2>2
<1> QED
  BY <1>1, <1>5 DEF Inputs

LEMMA AppendViews ==
  ASSUME PlainSession, Inv, TraceInv, TraceInv', Views, NEW f \in Entries, Append_(f)
  PROVE  Views'
<1>1. Receive("APND") /\ "APND" \in Answerable /\ f \notin Inputs
  BY Written DEF Append_
<1>2. ~changing
  BY <1>1, ReceivesOutside
<1>3. SetTop(StepDone(Answered(procs[Top])))
  BY DEF Append_
<1>4. UNCHANGED <<prog, disk, fs, edit, stash, changing, rollback, deferred, seen, trace>>
  BY DEF Append_, vfs
<1>5. DOMAIN saved' = Entries /\ \A g \in Inputs : saved'[g] = saved[g]
  BY <1>1 DEF Append_, Views, Levels
<1> QED
  BY <1>1, <1>2, <1>3, <1>4, <1>5, PlainAnswerViews DEF SeenGrows

LEMMA OpenWriteViews ==
  ASSUME PlainSession, Inv, TraceInv, TraceInv', Views, NEW f \in Entries, OpenWrite(f)
  PROVE  Views'
<1>1. Receive("OPWR") /\ "OPWR" \in Answerable /\ f \notin Inputs
  BY Written DEF OpenWrite
<1>2. ~changing
  BY <1>1, ReceivesOutside
<1>3. SetTop(StepDone(Answered(procs[Top])))
  BY DEF OpenWrite
<1>4. UNCHANGED <<prog, disk, fs, edit, stash, changing, rollback, deferred>>
  BY DEF OpenWrite, vfs
<1>5. SeenGrows /\ \A g \in Inputs : saved'[g] = saved[g] /\ seen'[g] = seen[g]
  <2>1. \A g \in Inputs : saved'[g] = saved[g]
    BY <1>1 DEF OpenWrite
  <2>2. CASE seen[f] < 0
    <3>1. RecordSeen(seen, f, 0)
      BY <2>2 DEF OpenWrite
    <3>2. \E pos \in Int : RecordSeen(seen, f, pos) /\ (f \in Inputs => seen[f] <= pos)
      <4>1. 0 \in Int /\ RecordSeen(seen, f, 0) /\ (f \in Inputs => seen[f] <= 0)
        BY <1>1, <3>1
      <4> QED
        BY <4>1
    <3>3. SeenGrows
      BY <3>2 DEF SeenGrows
    <3>4. \A g \in Inputs : seen'[g] = seen[g]
      BY <1>1, <3>1 DEF RecordSeen
    <3> QED
      BY <2>1, <3>3, <3>4
  <2>3. CASE ~(seen[f] < 0)
    BY <1>1, <2>3 DEF SeenGrows, OpenWrite
  <2> QED
    BY <2>2, <2>3
<1>6. DOMAIN saved' = Entries
  BY DEF OpenWrite, Views, Levels
<1> QED
  BY <1>1, <1>2, <1>3, <1>4, <1>5, <1>6, PlainAnswerViews

(* Q_OPRD: the file is there. *)
LEMMA OpenFits ==
  ASSUME NEW f, NEW d \in Stored, NEW d2 \in Stored, NEW v, NEW pos, NEW buf, NEW lv, NEW s \in Int,
         Fits(f, d, v, pos, buf, lv, s), d2 # Null,
         d2 = d \/ (lv = "none" /\ (f \in DiskFiles \/ Disk[f] # Null))
  PROVE  Fits(f, d2, IF v = <<>> THEN <<Opened>> ELSE v, 0, <<>>, "read",
              IF s < 0 THEN 0 ELSE s)
<1>1. PICK b : b = <<>>
  OBVIOUS
<1>2. b \in Seq(Bytes) /\ Len(b) = 0
  BY <1>1
<1>3. v \in Seq(Observation) /\ Len(v) \in Nat /\ (v = <<>> <=> Len(v) = 0)
  BY DEF Fits, Shape
<1>4. CASE Len(v) = 0
  <2>1. PICK w : w = <<Opened>>
    OBVIOUS
  <2>2. w \in Seq(Observation) /\ Len(w) = 1 /\ w[1] = Opened
    BY <2>1 DEF Observation
  <2>3. Opened \notin Bytes /\ Opened # Absent
    BY ObservationsDiffer
  <2>4. s = -1
    BY <1>4 DEF Fits, Known
  <2>5. Shape(f, w, 0, b)
    BY <1>2, <2>2, <2>3 DEF Shape, Fresh
  <2>6. Shows(w, d2)
    BY <2>2, NullIsNoData DEF Shows, Sights, Sight
  <2>7. Account(f, d2, w, "read")
    BY <2>6 DEF Account
  <2>8. Known(w, "read", 0) /\ Told(w, 0)
    BY <2>2, <2>3 DEF Known, Told
  <2>9. Ahead(f, d2, w, 0, b, "read")
    BY <1>2 DEF Ahead, BytesOf
  <2>10. Fits(f, d2, w, 0, b, "read", 0)
    BY <2>5, <2>7, <2>8, <2>9 DEF Fits
  <2> QED
    BY <1>1, <1>3, <1>4, <2>1, <2>4, <2>10
<1>5. CASE Len(v) # 0
  <2>1. Len(v) > 0 /\ s >= 0 /\ Known(v, lv, s)
    BY <1>3, <1>5 DEF Fits, Known
  <2>2. Shape(f, v, 0, b)
    BY <1>2, <1>3, <2>1 DEF Fits, Shape
  <2>3. Account(f, d2, v, "read")
    <3>1. CASE d2 = d
      BY <3>1 DEF Fits, Account
    <3>2. CASE lv = "none" /\ (f \in DiskFiles \/ Disk[f] # Null)
      <4>1. Fresh(v)
        BY <2>1, <3>2 DEF Known, Fresh
      <4>2. f \in DiskFiles
        BY <3>2, <4>1 DEF Fits, Shape
      <4> QED
        BY <4>1, <4>2 DEF Account, Excused
    <3> QED
      BY <3>1, <3>2
  <2>4. Known(v, "read", s) /\ Told(v, s)
    BY <2>1 DEF Known, Fits
  <2>5. Ahead(f, d2, v, 0, b, "read")
    BY <1>2 DEF Ahead, BytesOf
  <2>6. Fits(f, d2, v, 0, b, "read", s)
    BY <2>2, <2>3, <2>4, <2>5 DEF Fits
  <2> QED
    BY <1>1, <1>3, <1>5, <2>1, <2>6
<1> QED
  BY <1>4, <1>5

LEMMA LoadViews ==
  ASSUME TraceInv, TraceInv', Views, NEW f \in Entries, Load(f), edit' = edit,
         \/ OnDisk(f)
         \/ edit[f] # Null
         \/ saved[f].level # "none",
         f \in Inputs /\ saved[f].level # "none" => Contents[f] # Null
  PROVE  /\ Loads /\ SavedGrows
         /\ \A g \in Inputs : g # f => saved'[g] = saved[g] /\ Contents'[g] = Contents[g]
         /\ f \in Inputs =>
              /\ saved'[f].level = "read" /\ Contents'[f] # Null
              /\ \/ Contents'[f] = Contents[f]
                 \/ saved[f].level = "none" /\ (f \in DiskFiles \/ Disk[f] # Null)
<1>1. /\ FilesInv /\ FilesInv' /\ DOMAIN saved = Entries /\ DOMAIN fs = Entries
      /\ Inputs \subseteq Entries
  BY InputsEntries DEF TraceInv, FilesInv, Files, Views, Levels
<1>2. \A g \in Inputs : Plain(saved[g])
  BY DEF Views, Levels
<1>3. CASE saved[f].level # "none"
  <2>1. fs' = fs /\ saved' = saved
    BY <1>3 DEF Load
  <2>2. \A g \in Entries : Contents'[g] = Contents[g]
    BY <2>1, SameContents
  <2>3. Loads /\ SavedGrows
    BY <1>1, <1>2, <2>1 DEF Loads, SavedGrows
  <2>4. ASSUME f \in Inputs PROVE saved[f].level = "read" /\ Contents[f] # Null
    BY <1>2, <1>3, <2>4 DEF Plain
  <2> QED
    BY <1>1, <2>1, <2>2, <2>3, <2>4
<1>4. CASE saved[f].level = "none"
  <2>1. saved' = [saved EXCEPT ![f].level = "read"]
    BY <1>4 DEF Load
  <2>2. /\ DOMAIN saved' = Entries /\ \A g \in Inputs : g # f => saved'[g] = saved[g]
        /\ f \in Inputs => saved'[f].level = "read" /\ Plain(saved'[f])
    BY <1>1, <1>2, <2>1 DEF Plain
  <2>3. SavedGrows
    BY <1>2, <1>4, <2>2 DEF SavedGrows
  <2>4. CASE OnDisk(f) /\ ~(StreamMode /\ edit[f] # Null)
    <3>1. fs' = [fs EXCEPT ![f] = disk[f]] /\ disk[f] # Null
      BY <1>4, <2>4 DEF Load, OnDisk
    <3>2. Loads
      BY <1>1, <1>4, <3>1 DEF Loads
    <3>3. \A g \in Inputs : g # f => Contents'[g] = Contents[g]
      BY <1>1, <3>1, SameContents
    <3>4. Contents'[f] # Null
      BY <1>1, <3>1 DEF Contents, InputData
    <3>5. f \in DiskFiles \/ Disk[f] # Null
      BY <3>1 DEF Views, Sources
    <3> QED
      BY <1>4, <2>2, <2>3, <3>2, <3>3, <3>4, <3>5
  <2>5. CASE ~(OnDisk(f) /\ ~(StreamMode /\ edit[f] # Null))
    <3>1. fs' = fs /\ edit[f] # Null
      BY <1>4, <2>5 DEF Load
    <3>2. \A g \in Entries : Contents'[g] = Contents[g]
      BY <3>1, SameContents
    <3>3. Contents[f] # Null
      BY <3>1 DEF Contents, InputData
    <3> QED
      BY <1>1, <2>2, <2>3, <3>1, <3>2, <3>3 DEF Loads
  <2> QED
    BY <2>4, <2>5
<1> QED
  BY <1>3, <1>4

LEMMA OpenFoundViews ==
  ASSUME PlainSession, Inv, TraceInv, TraceInv', Views, NEW f \in Entries, OpenFound(f)
  PROVE  Views'
<1>1. Receive("OPRD") /\ "OPRD" \in Answerable /\ Found(f, seen) /\ deferred' = deferred
  BY DEF OpenFound, Answerable
<1>2. PICK p : p = procs[Top]
  OBVIOUS
<1>3. ~changing /\ Top > 0 /\ p.fd /\ p.pc \in 1..Len(prog) /\ p.unsent = <<>>
  BY <1>1, <1>2, ReceivesOutside, QueryQuiet
<1>4. seen \in [Entries -> Int] /\ FilesInv /\ FilesInv' /\ Inputs \subseteq Entries
  BY InputsEntries DEF Inv, Typed, TraceInv
<1>5. PICK v, ps, b : /\ v = SeenOpen(p.view, f) /\ ps = [p.pos EXCEPT ![f] = 0]
                      /\ b = [FreshBuffers(p) EXCEPT ![f] = <<>>]
  OBVIOUS
<1>6. SameBelow /\ \E m \in 1..(Len(prog) + 1) : Replied(p, procs'[Top], m, v, ps, b)
  BY <1>1, <1>2, <1>3, <1>4, <1>5, FoundReplies
<1>7. /\ DOMAIN p.view = Entries /\ DOMAIN FreshBuffers(p) = Entries
      /\ p.pos \in [Entries -> Nat]
  BY <1>2, <1>3, TopDomains, PosTyped
<1>8. /\ v[f] = IF p.view[f] = <<>> THEN <<Opened>> ELSE p.view[f]
      /\ ps[f] = 0 /\ b[f] = <<>> /\ DOMAIN v = Entries /\ DOMAIN b = Entries
      /\ \A g \in Entries : g # f => v[g] = p.view[g] /\ ps[g] = p.pos[g] /\ b[g] = FreshBuffers(p)[g]
  BY <1>5, <1>7 DEF SeenOpen
<1>9. /\ SeenGrows /\ seen'[f] = (IF seen[f] < 0 THEN 0 ELSE seen[f])
      /\ \A g \in Entries : g # f => seen'[g] = seen[g]
  <2>1. CASE seen[f] < 0
    <3>1. RecordSeen(seen, f, 0) /\ 0 \in Int /\ seen[f] <= 0
      BY <1>1, <1>4, <2>1 DEF Found
    <3>2. SeenGrows
      BY <3>1 DEF SeenGrows
    <3>3. seen' = [seen EXCEPT ![f] = 0]
      BY <3>1 DEF RecordSeen
    <3> QED
      BY <1>4, <2>1, <3>2, <3>3
  <2>2. CASE ~(seen[f] < 0)
    BY <1>1, <2>2 DEF Found, SeenGrows
  <2> QED
    BY <2>1, <2>2
<1>10. UNCHANGED <<prog, disk, edit, stash, changing, rollback, deferred>>
  BY <1>1 DEF Found
<1>11. \A g \in Inputs : Fits(g, Contents[g], p.view[g], p.pos[g], FreshBuffers(p)[g],
                              saved[g].level, seen[g])
  BY <1>1, <1>2, <1>3, SameFits
<1>12. /\ Loads /\ SavedGrows
       /\ \A g \in Inputs : g # f => saved'[g] = saved[g] /\ Contents'[g] = Contents[g]
       /\ f \in Inputs =>
            /\ saved'[f].level = "read" /\ Contents'[f] # Null
            /\ \/ Contents'[f] = Contents[f]
               \/ saved[f].level = "none" /\ (f \in DiskFiles \/ Disk[f] # Null)
  <2>1. Load(f) /\ edit' = edit
    BY <1>1, <1>10 DEF Found
  <2>2. OnDisk(f) \/ edit[f] # Null \/ saved[f].level # "none"
    BY DEF OpenFound
  <2>3. f \in Inputs /\ saved[f].level # "none" => Contents[f] # Null
    BY <1>11 DEF Fits, Account
  <2> QED
    BY <2>1, <2>2, <2>3, LoadViews
<1>13. ASSUME NEW g \in Inputs
       PROVE  Fits(g, Contents'[g], v[g], ps[g], b[g], saved'[g].level, seen'[g])
  <2>1. CASE g # f
    BY <1>4, <1>8, <1>9, <1>11, <1>12, <2>1
  <2>2. CASE g = f
    <3>1. Contents[f] \in Stored /\ Contents'[f] \in Stored
      BY <1>4, <2>2 DEF Contents, InputData, FilesInv, Files, Stored
    <3>2. seen[f] \in Int
      BY <1>4
    <3>3. PICK d, d2, w, ps0, b0, lv, s : /\ d = Contents[f] /\ d2 = Contents'[f] /\ w = p.view[f]
            /\ ps0 = p.pos[f] /\ b0 = FreshBuffers(p)[f] /\ lv = saved[f].level /\ s = seen[f]
      OBVIOUS
    <3>4. Fits(f, d, w, ps0, b0, lv, s)
      BY <1>11, <2>2, <3>3
    <3>5. d2 # Null /\ (d2 = d \/ (lv = "none" /\ (f \in DiskFiles \/ Disk[f] # Null)))
      BY <1>12, <2>2, <3>3
    <3>6. Fits(f, d2, IF w = <<>> THEN <<Opened>> ELSE w, 0, <<>>, "read",
               IF s < 0 THEN 0 ELSE s)
      BY <3>1, <3>2, <3>3, <3>4, <3>5, OpenFits
    <3> QED
      BY <1>8, <1>9, <1>12, <2>2, <3>3, <3>6
  <2> QED
    BY <2>1, <2>2
<1> QED
  BY <1>2, <1>3, <1>6, <1>8, <1>9, <1>10, <1>12, <1>13, AnswerViews

(* A_PASS: the file is missing. *)
LEMMA PassFits ==
  ASSUME NEW f, NEW d, NEW v, NEW pos \in Nat, NEW buf, NEW s \in Int,
         Fits(f, d, v, pos, buf, "none", s),
         f \in DiskFiles \/ (d = Null /\ Disk[f] = Null)
  PROVE  Fits(f, d, <<Absent>>, pos, buf, "none", IntMax) /\ s <= IntMax
<1>1. PICK w : w = <<Absent>>
  OBVIOUS
<1>2. w \in Seq(Observation) /\ Len(w) = 1 /\ w[1] = Absent
  BY <1>1 DEF Observation
<1>3. Absent \notin Bytes /\ Opened # Absent /\ IntMax \in Nat
  BY ObservationsDiffer, TexEngineAssumption
<1>4. /\ v \in Seq(Observation) /\ Len(v) \in Nat
      /\ Len(v) = 0 \/ (Len(v) = 1 /\ v[1] = Absent /\ s = IntMax)
      /\ Len(v) = 0 => s = -1 /\ pos = 0
      /\ Len(v) > 0 => pos + 1 <= Len(v)
      /\ Len(buf) = 0 /\ buf \in Seq(Bytes)
  BY DEF Fits, Known, Shape, Ahead
<1>5. pos = 0 /\ s <= IntMax
  <2>1. CASE Len(v) = 0
    BY <1>3, <1>4, <2>1
  <2>2. CASE Len(v) # 0
    <3>1. s = IntMax /\ Len(v) = 1
      BY <1>4, <2>2
    <3>2. pos + 1 <= Len(v)
      BY <1>4, <3>1
    <3> QED
      BY <1>3, <3>1, <3>2
  <2> QED
    BY <2>1, <2>2
<1>6. Shape(f, w, pos, buf)
  BY <1>2, <1>4, <1>5 DEF Shape
<1>7. Account(f, d, w, "none")
  <2>1. CASE f \in DiskFiles
    BY <1>2, <2>1 DEF Account, Excused, Fresh
  <2>2. CASE d = Null
    BY <1>2, <2>2 DEF Account, Shows, Sights, Sight
  <2> QED
    BY <2>1, <2>2
<1>8. Known(w, "none", IntMax) /\ Told(w, IntMax)
  BY <1>2, <1>3 DEF Known, Told
<1>9. Ahead(f, d, w, pos, buf, "none")
  BY <1>4 DEF Ahead, BytesOf
<1>10. Fits(f, d, w, pos, buf, "none", IntMax)
  BY <1>6, <1>7, <1>8, <1>9 DEF Fits
<1> QED
  BY <1>1, <1>5, <1>10

LEMMA PassViews ==
  ASSUME PlainSession, Inv, TraceInv, TraceInv', Views, NEW f \in Entries, Receive("OPRD"), Pass(f),
         UNCHANGED <<disk, fs, edit, stash>>,
         f \in Inputs =>
           /\ saved[f].level = "none"
           /\ f \in DiskFiles \/ (Contents[f] = Null /\ Disk[f] = Null)
  PROVE  Views'
<1>1. "OPRD" \in Answerable
  BY DEF Answerable
<1>2. PICK p : p = procs[Top]
  OBVIOUS
<1>3. ~changing /\ Top > 0 /\ p.fd /\ p.pc \in 1..Len(prog) /\ p.unsent = <<>>
  BY <1>1, <1>2, ReceivesOutside, QueryQuiet
<1>4. seen \in [Entries -> Int] /\ Inputs \subseteq Entries /\ IntMax \in Int
  BY InputsEntries, TexEngineAssumption DEF Inv, Typed
<1>5. PICK v, ps, b : v = [p.view EXCEPT ![f] = <<Absent>>] /\ ps = p.pos /\ b = FreshBuffers(p)
  OBVIOUS
<1>6. SameBelow /\ \E m \in 1..(Len(prog) + 1) : Replied(p, procs'[Top], m, v, ps, b)
  BY <1>2, <1>3, <1>5, PassReplies
<1>7. /\ DOMAIN p.view = Entries /\ DOMAIN b = Entries /\ DOMAIN saved = Entries
      /\ ps \in [Entries -> Nat]
  BY <1>2, <1>3, <1>5, TopDomains, PosTyped
<1>8. /\ v[f] = <<Absent>> /\ DOMAIN v = Entries
      /\ \A g \in Entries : g # f => v[g] = p.view[g]
  BY <1>5, <1>7
<1>9. RecordSeen(seen, f, IntMax) /\ saved' = saved
      /\ UNCHANGED <<prog, changing, rollback, deferred>>
  BY DEF Pass
<1>10. seen'[f] = IntMax /\ \A g \in Entries : g # f => seen'[g] = seen[g]
  BY <1>4, <1>9 DEF RecordSeen
<1>11. \A g \in Inputs : Fits(g, Contents[g], p.view[g], ps[g], b[g], saved[g].level, seen[g])
  BY <1>1, <1>2, <1>3, <1>5, SameFits
<1>12. \A g \in Inputs : Contents'[g] = Contents[g]
  BY <1>4, SameContents
<1>13. f \in Inputs => Fits(f, Contents[f], <<Absent>>, ps[f], b[f], "none", IntMax)
                       /\ seen[f] <= IntMax
  <2>1. SUFFICES ASSUME f \in Inputs
                 PROVE  Fits(f, Contents[f], <<Absent>>, ps[f], b[f], "none", IntMax)
                        /\ seen[f] <= IntMax
    OBVIOUS
  <2>2. Fits(f, Contents[f], p.view[f], ps[f], b[f], "none", seen[f])
    BY <2>1, <1>11
  <2>3. ps[f] \in Nat /\ seen[f] \in Int
    BY <1>4, <1>7
  <2> QED
    BY <2>1, <2>2, <2>3, PassFits
<1>14. SeenGrows
  BY <1>4, <1>9, <1>13 DEF SeenGrows
<1>15. Loads /\ SavedGrows
  BY <1>7, <1>9 DEF Loads, SavedGrows, Views, Levels
<1>16. \A g \in Inputs : Fits(g, Contents'[g], v[g], ps[g], b[g], saved'[g].level, seen'[g])
  BY <1>4, <1>8, <1>9, <1>10, <1>11, <1>12, <1>13
<1> QED
  BY <1>2, <1>3, <1>6, <1>7, <1>8, <1>9, <1>14, <1>15, <1>16, AnswerViews

LEMMA OpenMissingViews ==
  ASSUME PlainSession, Inv, TraceInv, TraceInv', Views, NEW f \in Entries, OpenMissing(f)
  PROVE  Views'
<1>1. Receive("OPRD") /\ Pass(f) /\ EntryData(f) = Null /\ ~OnDisk(f) /\ "OPRD" \in Answerable
  BY DEF OpenMissing, Answerable
<1>2. UNCHANGED <<disk, fs, edit, stash>>
  BY <1>1 DEF Pass, vfs
<1>3. ASSUME f \in Inputs
      PROVE  /\ saved[f].level = "none"
             /\ f \in DiskFiles \/ (Contents[f] = Null /\ Disk[f] = Null)
  <2>1. Plain(saved[f])
    BY <1>3 DEF Views, Levels
  <2>2. Contents[f] = Null
    BY <1>1, <2>1 DEF EntryData, Plain, Contents
  <2>3. ~changing
    BY <1>1, ReceivesOutside
  <2>4. saved[f].level = "none"
    BY <1>1, <1>3, <2>2, <2>3, SameFits DEF Fits, Account
  <2>5. f \in DiskFiles \/ Disk[f] = Null
    BY <1>1 DEF Views, Sources, OnDisk
  <2> QED
    BY <2>2, <2>4, <2>5
<1> QED
  BY <1>1, <1>2, <1>3, PassViews

LEMMA OpenVanishedViews ==
  ASSUME PlainSession, Inv, TraceInv, TraceInv', Views, NEW f \in Entries, OpenVanished(f)
  PROVE  ViewsInv'
<1>1. /\ Receive("OPRD") /\ EntryData(f) # Null /\ ~OnDisk(f) /\ edit[f] = Null
      /\ saved[f].level = "none"
      /\ Pass(f) \/ Abort("vanished")
  BY DEF OpenVanished
<1>2. CASE Abort("vanished")
  BY <1>2 DEF Abort, ViewsInv
<1>3. CASE Pass(f)
  <2>1. UNCHANGED <<disk, fs, edit, stash>>
    BY <1>3 DEF Pass, vfs
  <2>2. ASSUME f \in Inputs
        PROVE  f \in DiskFiles
    <3>1. Plain(saved[f])
      BY <2>2 DEF Views, Levels
    <3>2. fs[f] # Null
      BY <1>1, <3>1 DEF EntryData, Plain, InputData
    <3> QED
      BY <1>1, <3>2 DEF OnDisk, Views, Sources
  <2>3. Views'
    BY <1>1, <1>3, <2>1, <2>2, PassViews
  <2> QED
    BY <2>3 DEF ViewsInv
<1> QED
  BY <1>1, <1>2, <1>3

(* Another thing is observed, after position pos. *)
LEMMA ObservingIs ==
  ASSUME NEW v \in Seq(Observation), NEW pos \in Nat, pos + 1 <= Len(v), NEW x \in Observation
  PROVE  \E w \in Seq(Observation) :
           /\ w = Observing(v, pos, x) /\ Len(w) >= pos + 2 /\ w[pos + 2] = x
           /\ w = v \/ Len(w) = pos + 2
           /\ \A k \in 1..(pos + 1) : w[k] = v[k]
<1>1. PICK w : w = Observing(v, pos, x)
  OBVIOUS
<1>2. PICK n \in Nat : n = pos + 1 /\ n <= Len(v) /\ Len(v) \in Nat
  OBVIOUS
<1>3. CASE pos + 1 < Len(v) /\ v[pos + 2] = x
  <2>1. w = v
    BY <1>1, <1>3 DEF Observing
  <2> QED
    BY <1>1, <1>2, <1>3, <2>1
<1>4. CASE ~(pos + 1 < Len(v) /\ v[pos + 2] = x)
  <2>1. w = Append(SubSeq(v, 1, n), x)
    BY <1>1, <1>2, <1>4 DEF Observing
  <2>2. PICK u : u = SubSeq(v, 1, n)
    OBVIOUS
  <2>3. u \in Seq(Observation) /\ Len(u) = n /\ \A i \in 1..n : u[i] = v[i]
    BY <1>2, <2>2, CutSequence
  <2>4. /\ Append(u, x) \in Seq(Observation) /\ Len(Append(u, x)) = n + 1
        /\ Append(u, x)[n + 1] = x /\ \A i \in 1..n : Append(u, x)[i] = u[i]
    BY <2>3, AppendProperties
  <2> QED
    <3>1. w \in Seq(Observation) /\ Len(w) = n + 1 /\ w[n + 1] = x /\ \A i \in 1..n : w[i] = v[i]
      BY <2>1, <2>2, <2>3, <2>4
    <3> QED
      BY <1>1, <1>2, <3>1
<1> QED
  BY <1>3, <1>4

(* w is v after x is found at position pos. *)
Extends(f, d, v, pos, x, lv, s, w) ==
  /\ w \in Seq(Observation) /\ Account(f, d, w, lv) /\ Known(w, lv, s)
  /\ Len(w) >= pos + 2 /\ w[pos + 2] = x /\ \A k \in 1..(pos + 1) : w[k] = v[k]
  /\ \A k \in 1..Len(w) : k # pos + 2 => k \in 1..Len(v) /\ w[k] = v[k]
  /\ Fresh(w) <=> Fresh(v)

LEMMA ObservingFits ==
  ASSUME NEW f, NEW d \in Stored, NEW v \in Seq(Observation), NEW pos \in Nat, pos + 1 <= Len(v),
         NEW x \in Observation, NEW lv, lv # "none", NEW s \in Int,
         Account(f, d, v, lv), Known(v, lv, s),
         Excused(f, v) \/ (pos + 2 <= Sights(d) /\ Sight(d, pos + 2) = x)
  PROVE  Extends(f, d, v, pos, x, lv, s, Observing(v, pos, x))
<1>1. PICK w : w = Observing(v, pos, x)
  OBVIOUS
<1>2. /\ w \in Seq(Observation) /\ Len(w) >= pos + 2 /\ w[pos + 2] = x
      /\ w = v \/ Len(w) = pos + 2
      /\ \A k \in 1..(pos + 1) : w[k] = v[k]
      /\ Len(w) \in Nat /\ Len(v) \in Nat
  <2>1. \E u \in Seq(Observation) :
          /\ u = Observing(v, pos, x) /\ Len(u) >= pos + 2 /\ u[pos + 2] = x
          /\ u = v \/ Len(u) = pos + 2
          /\ \A k \in 1..(pos + 1) : u[k] = v[k]
    BY ObservingIs
  <2>2. PICK u \in Seq(Observation) :
          /\ u = Observing(v, pos, x) /\ Len(u) >= pos + 2 /\ u[pos + 2] = x
          /\ u = v \/ Len(u) = pos + 2
          /\ \A k \in 1..(pos + 1) : u[k] = v[k]
    BY <2>1
  <2>3. u = w
    BY <1>1, <2>2
  <2> QED
    BY <2>2, <2>3
<1>3. \A k \in 1..Len(w) : k # pos + 2 => k \in 1..Len(v) /\ w[k] = v[k]
  <2>1. CASE w = v
    BY <2>1
  <2>2. CASE Len(w) = pos + 2
    BY <1>2, <2>2
  <2> QED
    BY <1>2, <2>1, <2>2
<1>4. w[1] = v[1] /\ (Fresh(w) <=> Fresh(v))
  <2>1. 1 \in 1..(pos + 1) /\ Len(w) > 0 /\ Len(v) > 0
    BY <1>2
  <2> QED
    BY <1>2, <2>1 DEF Fresh
<1>5. Account(f, d, w, lv)
  <2>1. CASE Excused(f, v)
    BY <1>4, <2>1 DEF Account, Excused
  <2>2. CASE ~Excused(f, v)
    <3>1. Shows(v, d) /\ pos + 2 <= Sights(d) /\ Sight(d, pos + 2) = x /\ Sights(d) \in Nat
      BY <2>2, NullIsNoData DEF Account, Sights
    <3>2. Len(w) <= Sights(d)
      BY <1>2, <3>1 DEF Shows
    <3>3. ASSUME NEW k \in 1..Len(w) PROVE w[k] = Sight(d, k)
      <4>1. CASE k = pos + 2
        BY <1>2, <3>1, <4>1
      <4>2. CASE k # pos + 2
        BY <1>3, <3>1, <4>2 DEF Shows
      <4> QED
        BY <4>1, <4>2
    <3>4. Shows(w, d)
      BY <3>2, <3>3 DEF Shows
    <3> QED
      BY <3>4 DEF Account
  <2> QED
    BY <2>1, <2>2
<1>6. Known(w, lv, s)
  <2>1. s >= 0 /\ Len(w) > 0 /\ Len(v) > 0
    BY <1>2 DEF Known
  <2>2. ASSUME w[1] = Opened, s > 0
        PROVE  s + 1 <= Len(w) /\ w[s + 1] \in Bytes
    <3>1. s + 1 <= Len(v) /\ v[s + 1] \in Bytes
      BY <1>4, <2>1, <2>2 DEF Known
    <3>2. CASE w = v
      BY <3>1, <3>2
    <3>3. CASE w # v
      <4>1. ~Excused(f, v)
        <5>1. Opened # Absent
          BY ObservationsDiffer
        <5> QED
          BY <5>1, <1>4, <2>2 DEF Excused, Fresh
      <4>2. Shows(v, d) /\ Sight(d, pos + 2) = x
        BY <4>1 DEF Account
      <4>3. ~(pos + 1 < Len(v))
        <5>1. SUFFICES ASSUME pos + 1 < Len(v) PROVE FALSE
          OBVIOUS
        <5>2. v[pos + 2] = x
          <6>1. pos + 2 \in 1..Len(v)
            BY <5>1, <1>2
          <6> QED
            BY <6>1, <4>2 DEF Shows
        <5>3. w = v
          BY <1>1, <5>1, <5>2 DEF Observing
        <5> QED
          BY <5>3, <3>3
      <4>4. s + 1 \in 1..(pos + 1)
        BY <3>1, <4>3, <2>1, <1>2
      <4> QED
        BY <1>2, <3>1, <4>4
    <3> QED
      BY <3>2, <3>3
  <2> QED
    BY <2>1, <2>2 DEF Known
<1> QED
  BY <1>1, <1>2, <1>3, <1>4, <1>5, <1>6 DEF Extends

(* The end of the file is read. *)
LEMMA EndFits ==
  ASSUME NEW f, NEW d \in Stored, d # Null, NEW v, NEW buf, NEW lv, lv # "none", NEW s \in Int,
         NEW pos \in Nat, pos = Len(d), Fits(f, d, v, pos, buf, lv, s)
  PROVE  Fits(f, d, Observing(v, pos, Eof), pos, buf, lv, s)
<1>1. PICK x \in Observation : x = Eof
  BY DEF Observation
<1>2. /\ v \in Seq(Observation) /\ pos + 1 <= Len(v)
      /\ Account(f, d, v, lv) /\ Known(v, lv, s) /\ Told(v, s)
  BY DEF Fits, Shape, Known
<1>3. pos + 2 <= Sights(d) /\ Sight(d, pos + 2) = x
  BY <1>1, NullIsNoData DEF Sights, Sight
<1>4. PICK w : w = Observing(v, pos, x)
  OBVIOUS
<1>5. Extends(f, d, v, pos, x, lv, s, w)
  BY <1>2, <1>3, <1>4, ObservingFits
<1>6. Len(w) \in Nat
  BY <1>5 DEF Extends
<1>7. Shape(f, w, pos, buf)
  BY <1>6, <1>5 DEF Extends, Fits, Shape
<1>8. Told(w, s)
  <2>1. Eof \notin Bytes
    BY ObservationsDiffer
  <2> QED
    BY <1>1, <1>2, <1>5, <2>1 DEF Told, Extends
<1>9. Ahead(f, d, w, pos, buf, lv)
  BY <1>5 DEF Fits, Ahead, Excused, Extends
<1> QED
  BY <1>1, <1>4, <1>7, <1>8, <1>9, <1>5 DEF Fits, Extends

(* Some bytes of it are read ahead. *)
LEMMA BytesFit ==
  ASSUME NEW f, NEW d \in Seq(Bytes), NEW v, NEW buf, NEW lv, lv # "none", NEW s \in Int,
         NEW pos \in Nat, NEW n \in Nat, pos + n <= Len(d), Fits(f, d, v, pos, buf, lv, s)
  PROVE  Fits(f, d, v, pos, SubSeq(d, pos + 1, pos + n), lv, s)
<1>1. PICK b : b = SubSeq(d, pos + 1, pos + n)
  OBVIOUS
<1>2. b \in Seq(Bytes) /\ Len(b) = n /\ \A k \in 1..n : b[k] = d[pos + k]
  <2>1. \A i \in (pos + 1)..(pos + n) : d[i] \in Bytes
    OBVIOUS
  <2>2. b \in Seq(Bytes)
    BY <1>1, <2>1, SubSeqProperties
  <2> QED
    BY <1>1, <2>2
<1>3. d # Null
  BY NullIsNoData
<1>4. BytesOf(b, d, pos)
  BY <1>2, <1>3 DEF BytesOf
<1>5. Shape(f, v, pos, b)
  <2>1. Len(v) > 0
    BY DEF Fits, Known, Shape
  <2> QED
    BY <1>2, <2>1 DEF Fits, Shape
<1> QED
  BY <1>1, <1>4, <1>5 DEF Fits, Ahead

-----------------------------------------------------------------------------
(* The fences *)

FencesInv ==
  /\ fences \in Seq([entry : Entries, position : Int]) /\ Len(fences) <= MaxFences
  /\ rollback.offset \in Int

LEMMA FencesMade ==
  ASSUME Inv, NEW back \in Nat, back > 0, back < Len(trace), NEW offset \in Int,
         NEW fs2 \in Fences(back, offset)
  PROVE  fs2 \in Seq([entry : Entries, position : Int]) /\ Len(fs2) <= MaxFences
<1>1. PICK S : S = [entry : Entries, position : Int]
  OBVIOUS
<1>2. /\ Len(trace) \in Nat /\ \A k \in 1..Len(trace) : trace[k] \in TraceEntry
      /\ MaxFences \in Nat /\ Align \in Nat \ {0}
  BY StackTyped, TexEngineAssumption DEF Inv
<1>3. PICK first : first = FirstFence(back, offset)
  OBVIOUS
<1>4. first \in S
  <2>1. trace[back + 1] \in TraceEntry
    BY <1>2
  <2>2. PICK x, y : x = RoundedDown(offset) /\ y = trace[back + 1].seen
    OBVIOUS
  <2>3. x \in Int /\ y \in Int
    BY <1>2, <2>1, <2>2 DEF RoundedDown, TraceEntry
  <2>4. PICK b \in Int : x <= b /\ y <= b /\ 0 <= b
    <3>1. CASE x >= y /\ x >= 0
      BY <2>3, <3>1
    <3>2. CASE y >= x /\ y >= 0
      BY <2>3, <3>2
    <3>3. CASE 0 >= x /\ 0 >= y
      <4>1. 0 \in Int /\ x <= 0 /\ y <= 0 /\ 0 <= 0
        BY <2>3, <3>3
      <4> QED
        BY <4>1
    <3> QED
      BY <2>3, <3>1, <3>2, <3>3
  <2>5. Max({x, y, 0}) \in {x, y, 0}
    <3>1. {x, y, 0} \subseteq Int /\ {x, y, 0} # {} /\ \A z \in {x, y, 0} : z <= b
      BY <2>3, <2>4
    <3> QED
      BY <2>4, <3>1, MaxIn
  <2>6. PICK m \in Int : m = Max({x, y, 0})
    BY <2>3, <2>5
  <2>7. first = [entry |-> trace[back + 1].entry, position |-> m]
    BY <1>3, <2>2, <2>6 DEF FirstFence
  <2> QED
    BY <1>1, <2>1, <2>7 DEF TraceEntry
<1>5. PICK ks : /\ ks \in SUBSET {k \in (ResumePoint(back) + 2)..back : PossibleFence(trace[k])}
                /\ Cardinality(ks) < MaxFences
                /\ fs2 = <<first>> \o [i \in 1..Cardinality(ks) |->
                             LET e == trace[Nth(ks, Cardinality(ks) + 1 - i)]
                             IN  [entry |-> e.entry, position |-> e.seen]]
  BY <1>3 DEF Fences
<1>6. ks \subseteq 1..back
  <2>1. ResumePoint(back) \in Int /\ ResumePoint(back) >= -1
    <3>1. PICK points : points = {-1} \cup {TraceLen(i) : i \in {j \in 1..Top : TraceLen(j) <= back}}
      OBVIOUS
    <3>2. \A i \in 1..Top : TraceLen(i) \in Nat
      BY SettledStack, StackTyped DEF TraceLen, Inv
    <3>3. points \subseteq Int /\ -1 \in points
      BY <3>1, <3>2
    <3>4. ASSUME NEW x \in points PROVE x <= back
      <4>1. CASE x = -1
        BY <4>1
      <4>2. CASE x # -1
        <5>1. PICK i \in {j \in 1..Top : TraceLen(j) <= back} : x = TraceLen(i)
          BY <3>1, <4>2
        <5> QED
          BY <5>1, Zenon
      <4> QED
        BY <4>1, <4>2
    <3>5. ResumePoint(back) = Max(points)
      BY <3>1 DEF ResumePoint
    <3>6. back \in Int /\ points # {}
      BY <3>3
    <3>7. Max(points) \in points /\ \A x \in points : x <= Max(points)
      BY <3>3, <3>4, <3>6, MaxIn
    <3> QED
      BY <3>3, <3>5, <3>7
  <2> QED
    BY <1>5, <2>1
<1>7. PICK n \in Nat : n = Cardinality(ks) /\ n < MaxFences
  BY <1>5, <1>6, UpToFinite
<1>8. PICK rest : rest = [i \in 1..n |-> LET e == trace[Nth(ks, n + 1 - i)]
                                         IN  [entry |-> e.entry, position |-> e.seen]]
  OBVIOUS
<1>9. rest \in Seq(S) /\ Len(rest) = n
  <2>1. ASSUME NEW i \in 1..n
        PROVE  rest[i] \in S
    <3>1. n + 1 - i \in 1..n
      OBVIOUS
    <3>2. PICK k : k = Nth(ks, n + 1 - i)
      OBVIOUS
    <3>3. k \in ks
      BY <1>6, <1>7, <3>1, <3>2, NthIn
    <3>4. trace[k] \in TraceEntry
      BY <1>2, <1>6, <3>3
    <3>5. rest[i] = [entry |-> trace[k].entry, position |-> trace[k].seen]
      BY <1>8, <3>2
    <3> QED
      BY <1>1, <3>4, <3>5 DEF TraceEntry
  <2>2. DOMAIN rest = 1..n /\ rest = [i \in 1..n |-> rest[i]]
    BY <1>8
  <2>3. rest \in [1..n -> S]
    BY <2>1, <2>2
  <2> QED
    BY <2>2, <2>3
<1>10. <<first>> \in Seq(S) /\ Len(<<first>>) = 1
  BY <1>4
<1>11. fs2 = <<first>> \o rest
  BY <1>5, <1>7, <1>8
<1>12. PICK one : one = <<first>>
  OBVIOUS
<1>13. one \o rest \in Seq(S) /\ Len(one \o rest) = 1 + n
  BY <1>9, <1>10, <1>12, ConcatProperties
<1> QED
  BY <1>1, <1>2, <1>7, <1>11, <1>12, <1>13

LEMMA FencesSame ==
  ASSUME FencesInv, UNCHANGED <<fences, rollback>>
  PROVE  FencesInv'
BY DEF FencesInv

LEMMA RewindFences ==
  ASSUME Inv, NEW f, NEW offset \in Int, NEW sn, NEW tr, NEW len, NEW flush,
         rollback.offset \in Int, Rewind(f, offset, sn, tr, len, flush)
  PROVE  rollback'.offset \in Int
<1>1. \/ rollback' = [rollback EXCEPT !.flush = flush]
      \/ \E m : rollback' = [len |-> m, offset |-> offset, flush |-> flush]
  BY Zenon DEF Rewind
<1> QED
  BY <1>1, TransactionTyped DEF Transaction

LEMMA AddChangeFences ==
  ASSUME Inv, FencesInv, NEW f, NEW offset \in Int, AddChange(f, offset), fences' = fences
  PROVE  FencesInv'
<1>1. \/ rollback' = rollback
      \/ \E sn, tr, len, flush : Rewind(f, offset, sn, tr, len, flush)
      \/ rollback' = [rollback EXCEPT !.flush = TRUE]
      \/ \E n : rollback' = [rollback EXCEPT !.len = n, !.flush = TRUE]
  BY Zenon DEF AddChange, Synchronize
<1>2. rollback'.offset \in Int
  BY <1>1, TransactionTyped, RewindFences DEF FencesInv, Transaction
<1> QED
  BY <1>2 DEF FencesInv

LEMMA ChangeFences ==
  ASSUME Inv, TraceInv, FencesInv, Change
  PROVE  FencesInv'
<1>1. /\ EditorFiles \subseteq Entries /\ DiskFiles \subseteq Entries
      /\ \A f \in Entries : NewContents[f] \subseteq Seq(Bytes)
      /\ FilesInv
  BY TexEngineAssumption DEF TraceInv
<1>2. ASSUME NEW f \in EditorFiles, NEW data \in NewContents[f], EditorOpen(f, data)
      PROVE  FencesInv'
  <2>1. \/ edit[f] # Null /\ AddChange(f, FirstDiff(edit[f], data))
        \/ fs[f] # Null /\ AddChange(f, FirstDiff(fs[f], data))
        \/ AddChange(f, 0)
        \/ UNCHANGED <<seen, trace, procs, rollback, aborted>>
    BY <1>2, Zenon DEF EditorOpen
  <2>2. f \in Entries /\ data \in Seq(Bytes)
    BY <1>1
  <2>3. /\ edit[f] # Null => FirstDiff(edit[f], data) \in Int
        /\ fs[f] # Null => FirstDiff(fs[f], data) \in Int
    BY <1>1, <2>2, ContentsTyped, FirstDiffTyped
  <2>4. 0 \in Int /\ fences' = fences
    BY <1>2 DEF EditorOpen, Changing
  <2>5. (\E offset \in Int : AddChange(f, offset)) \/ rollback' = rollback
    BY <2>1, <2>3, <2>4, Zenon
  <2> QED
    BY <2>4, <2>5, AddChangeFences, FencesSame
<1>3. ASSUME NEW f \in EditorFiles, NEW data \in NewContents[f], EditorChange(f, data)
      PROVE  FencesInv'
  <2>1. /\ edit[f] # Null /\ fences' = fences
        /\ \E offset \in 0..FirstDiff(edit[f], data) : AddChange(f, offset)
    BY <1>3, Zenon DEF EditorChange, Changing
  <2>2. \E offset \in Int : AddChange(f, offset)
    BY <2>1
  <2> QED
    BY <2>1, <2>2, AddChangeFences
<1>4. ASSUME NEW f \in EditorFiles, EditorClose(f)
      PROVE  FencesInv'
  <2>1. /\ edit[f] # Null /\ fences' = fences
        /\ AddChange(f, IF fs[f] = Null THEN 0 ELSE FirstDiff(fs[f], edit[f]))
    BY <1>4, Zenon DEF EditorClose, Changing
  <2>2. fs[f] # Null => FirstDiff(fs[f], edit[f]) \in Int
    <3>1. f \in Entries
      BY <1>1
    <3> QED
      BY <3>1, <1>1, <2>1, ContentsTyped, FirstDiffTyped
  <2>3. (IF fs[f] = Null THEN 0 ELSE FirstDiff(fs[f], edit[f])) \in Int
    BY <2>2
  <2> QED
    BY <2>1, <2>3, AddChangeFences
<1>5. ASSUME NEW f, NEW data, DiskChange(f, data)
      PROVE  FencesInv'
  BY <1>5, FencesSame DEF DiskChange
<1>7. ASSUME NEW f, ScanSame(f)
      PROVE  FencesInv'
  BY <1>7, FencesSame DEF ScanSame
<1>6. ASSUME NEW f \in DiskFiles, Scan(f)
      PROVE  FencesInv'
  <2>1. /\ f \in statted /\ disk[f] # Null /\ fences' = fences
        /\ AddChange(f, FirstDiff(fs[f], disk[f]))
    BY <1>6, Zenon DEF Scan, OnDisk
  <2>2. FirstDiff(fs[f], disk[f]) \in Int
    <3>1. fs[f] # Null /\ f \in Entries
      BY <1>1, <2>1 DEF FilesInv
    <3> QED
      BY <3>1, <1>1, <2>1, ContentsTyped, FirstDiffTyped
  <2> QED
    BY <2>1, <2>2, AddChangeFences
<1> QED
  BY <1>2, <1>3, <1>4, <1>5, <1>6, <1>7 DEF Change

LEMMA EndChangesFences ==
  ASSUME Inv, FencesInv, EndChanges
  PROVE  FencesInv'
<1>1. rollback' = Closed /\ rollback'.offset \in Int
  BY DEF EndChanges, Closed
<1>2. ASSUME fences' = fences PROVE FencesInv'
  BY <1>1, <1>2 DEF FencesInv
<1>3. CASE EndUnchanged \/ EndFlush
  BY <1>2, <1>3 DEF EndUnchanged, EndFlush
<1>4. CASE EndRollback
  <2>1. PICK back : back = IF Flushing THEN Max({0, rollback.len - 1}) ELSE rollback.len
    OBVIOUS
  <2>2. PICK offset : offset = IF Flushing /\ back > 0 THEN trace[back + 1].seen ELSE rollback.offset
    OBVIOUS
  <2>3. \/ back <= 0 /\ fences' = <<>>
        \/ fences' = fences
        \/ ~(back <= 0) /\ ~(Len(trace) <= back) /\ fences' \in Fences(back, offset)
    BY <1>4, <2>1, <2>2, Zenon DEF EndRollback
  <2>4. CASE fences' = <<>>
    <3>1. fences' \in Seq([entry : Entries, position : Int]) /\ Len(fences') = 0
      BY <2>4
    <3> QED
      BY <1>1, <3>1, TexEngineAssumption, SMTT(30) DEF FencesInv
  <2>5. CASE ~(back <= 0) /\ ~(Len(trace) <= back) /\ fences' \in Fences(back, offset)
    <3>1. rollback.len \in Nat /\ Len(trace) \in Nat
      BY <1>4, StackTyped DEF EndRollback, Inv
    <3>2. back \in Nat
      <4>1. CASE Flushing
        <5>1. PICK m \in Int : m = rollback.len - 1
          BY <3>1
        <5>2. Max({0, m}) \in {0, m} /\ \A x \in {0, m} : x <= Max({0, m})
          <6>1. rollback.len \in Int /\ {0, m} \subseteq Int /\ {0, m} # {}
                /\ \A x \in {0, m} : x <= rollback.len
            BY <5>1, <3>1
          <6> QED
            BY <6>1, MaxIn
        <5> QED
          BY <4>1, <5>1, <5>2, <2>1
      <4>2. CASE ~Flushing
        BY <4>2, <2>1, <3>1
      <4> QED
        BY <4>1, <4>2
    <3>3. offset \in Int
      <4>1. back > 0 => trace[back + 1] \in TraceEntry
        BY <2>5, <3>1, <3>2, StackTyped DEF Inv
      <4> QED
        BY <2>2, <4>1 DEF FencesInv, TraceEntry
    <3>4. PICK made : made = fences'
      OBVIOUS
    <3>5. back > 0 /\ back < Len(trace) /\ made \in Fences(back, offset)
      BY <2>5, <3>1, <3>2, <3>4
    <3>6. made \in Seq([entry : Entries, position : Int]) /\ Len(made) <= MaxFences
      BY <3>2, <3>3, <3>5, FencesMade
    <3> QED
      BY <1>1, <3>4, <3>6 DEF FencesInv
  <2> QED
    BY <2>3, <2>4, <2>5, <1>2
<1> QED
  BY <1>3, <1>4 DEF EndChanges

LEMMA ReadFences ==
  ASSUME FencesInv, NEW f, Read(f)
  PROVE  FencesInv'
<1>1. CASE UNCHANGED <<fences, rollback>>
  BY <1>1, FencesSame
<1>2. CASE rollback' = rollback /\ fences' = FencesLeft /\ fences # <<>>
  <2>1. PICK S : S = [entry : Entries, position : Int]
    OBVIOUS
  <2>2. fences \in Seq(S) /\ Len(fences) \in Nat /\ Len(fences) > 0
    BY <1>2, <2>1 DEF FencesInv
  <2>3. PICK n \in Nat : n = Len(fences) - 1
    BY <2>2
  <2>4. SubSeq(fences, 1, n) \in Seq(S) /\ Len(SubSeq(fences, 1, n)) = n
    BY <2>2, <2>3, CutSequence
  <2>5. fences' = SubSeq(fences, 1, n)
    BY <1>2, <2>3 DEF FencesLeft, Front
  <2> QED
    BY <1>2, <2>1, <2>2, <2>3, <2>4, <2>5, TexEngineAssumption, SMTT(30) DEF FencesInv
<1>3. \/ UNCHANGED <<fences, rollback>>
      \/ rollback' = rollback /\ fences' = FencesLeft /\ fences # <<>>
  BY Zenon DEF Read, Abort, Data, Fork, FenceBefore
<1> QED
  BY <1>1, <1>2, <1>3

LEMMA NextFences ==
  ASSUME Inv, TraceInv, FencesInv, [Next]_vars
  PROVE  FencesInv'
<1>1. CASE UNCHANGED vars
  BY <1>1, FencesSame DEF vars
<1>2. CASE Consume \/ Ask
  BY <1>2, FencesSame DEF Consume, Ask
<1>3. ASSUME NEW f \in Entries,
             OpenFound(f) \/ OpenVanished(f) \/ OpenMissing(f) \/ OpenDeferred(f) \/ OpenPromised(f)
      PROVE  FencesInv'
  BY <1>3, FencesSame DEF OpenFound, OpenVanished, OpenMissing, OpenDeferred, OpenPromised, Found,
                          Pass, Abort
<1>4. ASSUME NEW f \in Entries,
             OpenWrite(f) \/ Append_(f) \/ Close(f) \/ Picture(f) \/ KeepPicture(f)
      PROVE  FencesInv'
  BY <1>4, FencesSame DEF OpenWrite, Append_, Close, Picture, KeepPicture
<1>5. ASSUME NEW f \in Entries, Seen(f)
      PROVE  FencesInv'
  BY <1>5, FencesSame DEF Seen, Abort
<1>6. CASE Child \/ Exit \/ Prepare
  BY <1>6, FencesSame DEF Child, Exit, Prepare
<1>7. CASE BeginChanges
  <2>1. rollback'.offset \in Int /\ fences' = fences
    BY <1>7 DEF BeginChanges, Closed
  <2> QED
    BY <2>1 DEF FencesInv
<1>8. CASE StartFinishing \/ FinishConverged \/ FinishAgain
  BY <1>8, FencesSame DEF StartFinishing, FinishConverged, FinishAgain, Finish
<1> QED
  BY <1>1, <1>2, <1>3, <1>4, <1>5, <1>6, <1>7, <1>8, ReadFences, ChangeFences, EndChangesFences
     DEF Next, Step

-----------------------------------------------------------------------------
(* Q_READ *)

(* What the entry of an input holds is what the file holds. *)
LEMMA ReadsContents ==
  ASSUME Views, NEW f \in Inputs
  PROVE  EntryData(f) = Contents[f]
<1>1. saved[f].data = Null /\ f \in Entries
  BY InputsEntries DEF Views, Levels, Plain
<1> QED
  BY <1>1 DEF EntryData, Contents

LEMMA DataFits ==
  ASSUME NEW f, NEW d \in Stored, d # Null, NEW v, NEW buf, NEW lv, lv # "none", NEW s \in Int,
         NEW pos \in Nat, NEW n \in Nat, pos + n <= Len(d), n = 0 => pos = Len(d),
         Fits(f, d, v, pos, buf, lv, s), NEW v2, NEW buf2,
         \/ n = 0 /\ v2 = Observing(v, pos, Eof) /\ buf2 = buf
         \/ n # 0 /\ v2 = v /\ buf2 = SubSeq(d, pos + 1, pos + n)
  PROVE  Fits(f, d, v2, pos, buf2, lv, s)
<1>1. d \in Seq(Bytes)
  BY NullIsNoData
<1>2. CASE n = 0
  <2>1. pos = Len(d)
    BY <1>2
  <2>2. Fits(f, d, Observing(v, pos, Eof), pos, buf, lv, s)
    BY <2>1, EndFits
  <2> QED
    BY <1>2, <2>2
<1>3. CASE n # 0
  <2>1. Fits(f, d, v, pos, SubSeq(d, pos + 1, pos + n), lv, s)
    BY <1>1, BytesFit
  <2> QED
    BY <1>3, <2>1
<1> QED
  BY <1>2, <1>3

LEMMA DataViews ==
  ASSUME PlainSession, Inv, TraceInv, TraceInv', Views, NEW f \in Entries,
         Receive("READ"), Message.file = f, saved[f].level # "none", EntryData(f) # Null,
         NEW pos, pos = Message.arg, NEW n,
         f \in Inputs => /\ n \in Nat /\ pos + n <= Len(EntryData(f))
                        /\ (n = 0 => pos = Len(EntryData(f))),
         Data(f, pos, n)
  PROVE  Views'
<1>1. "READ" \in Answerable
  BY DEF Answerable
<1>2. PICK p : p = procs[Top]
  OBVIOUS
<1>3. /\ ~changing /\ Top > 0 /\ p.fd /\ p.pc \in 1..Len(prog) /\ p.unsent = <<>>
      /\ Wellformed(prog, p) /\ pos = p.pos[f] /\ Typed
  BY <1>1, <1>2, ReceivesOutside, QueryQuiet, QueryRead DEF Inv
<1>4. /\ UNCHANGED <<prog, disk, fs, edit, stash, changing, rollback, deferred, seen, trace, saved>>
  BY DEF Data, vfs
<1>5. PICK read : read = SubSeq(EntryData(f), pos + 1, pos + n)
  OBVIOUS
<1>6. PICK r : r = IF n = 0 THEN [Answered(p) EXCEPT !.view[f] = Observing(@, pos, Eof)]
                            ELSE [Answered(p) EXCEPT !.buf[f] = read]
  OBVIOUS
<1>7. SetTop(Settled(r))
  BY <1>2, <1>5, <1>6, Zenon DEF Data
<1>8. PICK v, ps, b : v = r.view /\ ps = p.pos /\ b = r.buf
  OBVIOUS
<1>9. PICK k \in 1..(Len(prog) + 1) : k = p.pc
  BY <1>3, ProgTyped
<1>10. Replied(p, Answered(p), p.pc, p.view, p.pos, FreshBuffers(p))
  BY <1>3, AnsweredReplied DEF Wellformed
<1>11. Replied(p, r, k, v, ps, b)
  BY <1>6, <1>8, <1>9, <1>10 DEF Replied, Fields
<1>12. PICK q : q = Settled(r)
  OBVIOUS
<1>13. PICK m \in k..(Len(prog) + 1) : Replied(p, q, m, v, ps, b)
  BY <1>3, <1>11, <1>12, SettledReplied
<1>14. SameBelow /\ procs'[Top] = q
  BY <1>3, <1>7, <1>12, TopSet
<1>15. /\ DOMAIN p.view = Entries /\ DOMAIN FreshBuffers(p) = Entries /\ DOMAIN saved = Entries
       /\ ps \in [Entries -> Nat]
  BY <1>2, <1>3, <1>8, TopDomains, PosTyped
<1>16. /\ DOMAIN v = Entries /\ DOMAIN b = Entries
       /\ \A g \in Entries : g # f => v[g] = p.view[g] /\ b[g] = FreshBuffers(p)[g]
       /\ \/ n = 0 /\ v[f] = Observing(p.view[f], pos, Eof) /\ b[f] = FreshBuffers(p)[f]
          \/ n # 0 /\ v[f] = p.view[f] /\ b[f] = read
  <2>1. /\ Answered(p).view = p.view /\ Answered(p).buf = FreshBuffers(p)
        /\ "view" \in DOMAIN Answered(p) /\ "buf" \in DOMAIN Answered(p)
    BY <1>10 DEF Replied, Fields
  <2>2. CASE n = 0
    <3>1. r = [Answered(p) EXCEPT !.view[f] = Observing(@, pos, Eof)]
      BY <1>6, <2>2
    <3>2. v = [p.view EXCEPT ![f] = Observing(@, pos, Eof)] /\ b = FreshBuffers(p)
      BY <1>8, <2>1, <3>1
    <3> QED
      BY <1>15, <2>2, <3>2
  <2>3. CASE n # 0
    <3>1. r = [Answered(p) EXCEPT !.buf[f] = read]
      BY <1>6, <2>3
    <3>2. v = p.view /\ b = [FreshBuffers(p) EXCEPT ![f] = read]
      BY <1>8, <2>1, <3>1
    <3> QED
      BY <1>15, <2>3, <3>2
  <2> QED
    BY <2>2, <2>3
<1>17. \A g \in Inputs : Fits(g, Contents[g], p.view[g], p.pos[g], FreshBuffers(p)[g],
                              saved[g].level, seen[g])
  BY <1>1, <1>2, <1>3, SameFits
<1>18. f \in Inputs => Fits(f, Contents[f], v[f], ps[f], b[f], saved[f].level, seen[f])
  <2>1. SUFFICES ASSUME f \in Inputs
                 PROVE  Fits(f, Contents[f], v[f], ps[f], b[f], saved[f].level, seen[f])
    OBVIOUS
  <2>2. PICK d, v0, b0, lv, s, v2, b2 :
          /\ d = Contents[f] /\ v0 = p.view[f] /\ b0 = FreshBuffers(p)[f]
          /\ lv = saved[f].level /\ s = seen[f] /\ v2 = v[f] /\ b2 = b[f]
    OBVIOUS
  <2>3. d \in Stored /\ d # Null /\ d = EntryData(f)
    BY <2>1, <2>2, ReadsContents, ContentsStored DEF TraceInv
  <2>4. s \in Int /\ pos \in Nat /\ lv # "none" /\ ps[f] = pos
    BY <1>3, <1>8, <1>15, <2>2 DEF Typed
  <2>5. n \in Nat /\ pos + n <= Len(d) /\ (n = 0 => pos = Len(d))
    BY <2>1, <2>3
  <2>6. Fits(f, d, v0, pos, b0, lv, s)
    BY <1>3, <1>17, <2>1, <2>2
  <2>7. \/ n = 0 /\ v2 = Observing(v0, pos, Eof) /\ b2 = b0
        \/ n # 0 /\ v2 = v0 /\ b2 = SubSeq(d, pos + 1, pos + n)
    BY <1>5, <1>16, <2>2, <2>3
  <2>8. Fits(f, d, v2, pos, b2, lv, s)
    BY <2>3, <2>4, <2>5, <2>6, <2>7, DataFits
  <2> QED
    BY <2>2, <2>4, <2>8
<1>19. ASSUME NEW g \in Inputs
       PROVE  Fits(g, Contents'[g], v[g], ps[g], b[g], saved'[g].level, seen'[g])
  <2>1. g \in Entries /\ Contents'[g] = Contents[g]
    BY <1>4, InputsEntries, SameContents
  <2>2. CASE g = f
    BY <1>4, <1>18, <2>1, <2>2
  <2>3. CASE g # f
    BY <1>4, <1>8, <1>16, <1>17, <2>1, <2>3
  <2> QED
    BY <2>2, <2>3
<1>20. Loads /\ SavedGrows /\ SeenGrows
  BY <1>4 DEF Loads, SavedGrows, SeenGrows, Views, Levels
<1> QED
  BY <1>2, <1>3, <1>4, <1>13, <1>14, <1>16, <1>19, <1>20, AnswerViews

-----------------------------------------------------------------------------
(* What the worker on top does by itself *)

LEMMA TopViews ==
  ASSUME Inv, Views, SameBelow,
         UNCHANGED <<prog, disk, fs, edit, stash, changing, rollback, deferred, saved, seen, trace>>,
         NEW q, q = procs'[Top], DOMAIN q.view = Entries, DOMAIN q.buf = Entries,
         q.flush => q.asked,
         \A f \in Inputs : Shape(f, q.view[f], q.pos[f], q.buf[f]),
         q.killed = procs[Top].killed,
         Innocent => Runs(Inputs, Contents, q, saved, seen, rollback.flush)
  PROVE  Views'
<1>1. PICK inputs : inputs = Inputs /\ inputs = Inputs' /\ inputs \subseteq Entries
  BY SameInputs, InputsEntries
<1>2. PICK D : D = Contents /\ D = Contents'
  BY DEF Contents, InputData
<1>3. /\ Top' = Top /\ Len(procs') = Len(procs) /\ Top = Len(procs) /\ Top \in Nat
      /\ \A i \in 1..(Len(procs) - 1) : procs'[i] = procs[i]
  BY StackTyped DEF SameBelow, Top, Inv
<1>4. Shapes(inputs, procs')
  <2>1. ASSUME NEW i \in 1..Len(procs')
        PROVE  /\ DOMAIN procs'[i].view = Entries /\ DOMAIN procs'[i].buf = Entries
               /\ procs'[i].flush => procs'[i].asked
               /\ \A f \in inputs : Shape(f, procs'[i].view[f], procs'[i].pos[f], procs'[i].buf[f])
    <3>1. CASE i = Top
      BY <1>1, <3>1
    <3>2. CASE i # Top
      <4>1. procs'[i] = procs[i] /\ i \in 1..Len(procs)
        BY <1>3, <3>2
      <4> QED
        BY <1>1, <4>1 DEF Views, Shapes
    <3> QED
      BY <3>1, <3>2
  <2> QED
    BY <2>1 DEF Shapes
<1>5. Sources' /\ Recording'
  BY <1>3 DEF Views, Sources, Recording
<1>6. Levels(inputs, procs', saved)
  <2>1. Levels(inputs, procs, saved)
    BY <1>1 DEF Views
  <2> QED
    BY <1>3, <2>1 DEF Levels
<1>7. Reference' = Reference /\ Reference \in Nat
  BY ReferenceTyped DEF Reference
<1>8. Chain(inputs, D, procs', seen, trace, Reference)
  <2>1. Chain(inputs, D, procs, seen, trace, Reference) /\ Lengths(procs)
    BY <1>1, <1>2, LengthsOfProcs DEF Views
  <2>2. Len(procs') \in Nat /\ Len(procs') <= Len(procs)
    BY <1>3
  <2> QED
    BY <1>1, <1>3, <1>7, <2>1, <2>2, ChainPart
<1>9. Innocent' => Innocent
  BY <1>3, <1>7 DEF Innocent
<1> QED
  BY <1>1, <1>2, <1>3, <1>4, <1>5, <1>6, <1>7, <1>8, <1>9 DEF Views

(* A_FORK *)
LEMMA ForkViews ==
  ASSUME PlainSession, Inv, TraceInv, Views, Receive("READ"), Fork
  PROVE  Views'
<1>1. "READ" \in Answerable
  BY DEF Answerable
<1>2. PICK p : p = procs[Top]
  OBVIOUS
<1>3. /\ ~changing /\ Top > 0 /\ p.fd /\ p.unsent = <<>> /\ p.asked /\ Wellformed(prog, p) /\ Typed
  BY <1>1, <1>2, ReceivesOutside, QueryQuiet, QueryRead DEF Inv
<1>4. PICK q : q = [p EXCEPT !.out = <<ChildMessage>>, !.buf = NoBuffers, !.flush = FALSE]
  OBVIOUS
<1>5. SetTop(q)
  BY <1>2, <1>4 DEF Fork, ChildMessage
<1>6. SameBelow /\ procs'[Top] = q
  BY <1>3, <1>5, TopSet
<1>7. /\ q.out = <<ChildMessage>> /\ q.buf = NoBuffers /\ ~q.flush /\ q.fd /\ q.asked
      /\ q.view = p.view /\ q.pos = p.pos /\ q.unsent = <<>> /\ q.killed = p.killed
  BY <1>3, <1>4 DEF Wellformed, Fields
<1>8. PICK m : m = ChildMessage
  OBVIOUS
<1>9. Pending(q) = {}
  <2>1. q.out = <<m>> /\ m.tag # "SEEN"
    BY <1>7, <1>8 DEF ChildMessage
  <2> QED
    BY <1>7, <2>1, PendingOne
<1>10. DOMAIN p.view = Entries /\ \A f \in Inputs : Shape(f, p.view[f], p.pos[f], p.buf[f])
  BY <1>2, <1>3, TopDomains
<1>11. /\ DOMAIN q.buf = Entries
       /\ \A f \in Inputs : q.buf[f] \in Seq(Bytes) /\ Len(q.buf[f]) = 0
  <2>1. \A f \in Entries : NoBuffers[f] = <<>>
    BY DEF NoBuffers
  <2>2. PICK e : e = <<>>
    OBVIOUS
  <2>3. e \in Seq(Bytes) /\ Len(e) = 0
    BY <2>2
  <2>4. \A f \in Inputs : q.buf[f] = e
    BY <1>7, <2>1, <2>2, InputsEntries
  <2>5. DOMAIN q.buf = Entries
    BY <1>7 DEF NoBuffers
  <2> QED
    BY <2>3, <2>4, <2>5
<1>12. \A f \in Inputs : Shape(f, q.view[f], q.pos[f], q.buf[f])
  BY <1>7, <1>10, <1>11 DEF Shape
<1>13. Runs(Inputs, Contents, q, saved, seen, rollback.flush)
  <2>1. Runs(Inputs, Contents, p, saved, seen, FALSE) /\ ~rollback.flush
    BY <1>2, <1>3, RunsNow
  <2>2. Pending(p) = {}
    BY <1>1, <1>2, QueryQuiet
  <2>3. ASSUME NEW f \in Inputs
        PROVE  /\ Reporting(q, f, seen[f])
               /\ Ahead(f, Contents[f], q.view[f], q.pos[f], q.buf[f], saved[f].level)
    <3>1. Told(p.view[f], seen[f])
      BY <2>1, <2>2, ReportedTold DEF Runs
    <3>2. Told(q.view[f], seen[f])
      BY <1>7, <3>1
    <3> QED
      BY <1>11, <3>2, ToldReported DEF Ahead, BytesOf
  <2>4. Reports(Inputs, q)
    BY <1>9 DEF Reports
  <2> QED
    BY <1>7, <1>9, <2>1, <2>3, <2>4 DEF Runs
<1>14. UNCHANGED <<prog, disk, fs, edit, stash, changing, rollback, deferred, saved, seen, trace>>
  BY DEF Fork, vfs
<1> QED
  BY <1>2, <1>6, <1>7, <1>10, <1>11, <1>12, <1>13, <1>14, TopViews

LEMMA AbortViews ==
  ASSUME NEW reason, reason # "no", Abort(reason)
  PROVE  ViewsInv'
BY DEF Abort, ViewsInv

LEMMA FencePosition ==
  ASSUME FencesInv, NEW f, NEW pos, FenceBefore(f, pos)
  PROVE  Last(fences).position \in Int
<1>1. PICK S : S = [entry : Entries, position : Int]
  OBVIOUS
<1>2. fences # <<>> /\ fences \in Seq(S)
  BY <1>1 DEF FenceBefore, FencesInv
<1>3. fences[Len(fences)] \in S
  BY <1>2
<1> QED
  BY <1>1, <1>3 DEF Last

(* Q_READ *)
LEMMA ReadViews ==
  ASSUME PlainSession, Inv, TraceInv, TraceInv', FencesInv, Views, NEW f \in Entries, Read(f)
  PROVE  ViewsInv'
<1>1. Receive("READ") /\ Message.file = f /\ "READ" \in Answerable
  BY DEF Read, Answerable
<1>2. PICK pos, d, size, room :
        /\ pos = Message.arg /\ d = EntryData(f) /\ size = Min({ReadSize, Len(d) - pos})
        /\ room = Last(fences).position - pos
  OBVIOUS
<1>3. /\ Top > 0 /\ procs[Top].fd /\ pos = procs[Top].pos[f] /\ pos \in Nat
  <2>1. Top > 0 /\ procs[Top].fd /\ pos = procs[Top].pos[f]
    BY <1>1, <1>2, QueryRead
  <2> QED
    BY <2>1, PosTyped
<1>4. \/ \E reason \in {"nodata", "past end", "fence"} : Abort(reason)
      \/ /\ saved[f].level # "none" /\ d # Null /\ ~(pos > Len(d))
         /\ \/ Fork
            \/ FenceBefore(f, pos + size) /\ room > 0 /\ Data(f, pos, room)
            \/ Data(f, pos, size)
  <2>1. CASE saved[f].level = "none" \/ d = Null \/ pos > Len(d)
    <3>1. CASE saved[f].level = "none" \/ d = Null
      BY <1>2, <2>1, <3>1, Zenon DEF Read
    <3>2. CASE pos > Len(d)
      BY <1>2, <2>1, <3>2, Zenon DEF Read
    <3> QED
      BY <2>1, <3>1, <3>2
  <2>2. CASE ~(saved[f].level = "none" \/ d = Null \/ pos > Len(d)) /\ ~FenceBefore(f, pos + size)
    <3>1. Data(f, pos, size) \/ Fork
      BY <1>2, <2>2 DEF Read
    <3> QED
      BY <2>2, <3>1
  <2>3. CASE ~(saved[f].level = "none" \/ d = Null \/ pos > Len(d)) /\ FenceBefore(f, pos + size)
    <3>1. \/ room < 0 /\ Abort("fence")
          \/ room = 0 /\ Fork
          \/ room > 0 /\ Data(f, pos, room)
          \/ ~(room < 0) /\ ~(room = 0) /\ ~(room > 0)
      BY <1>2, <2>3 DEF Read
    <3>2. room \in Int
      BY <1>2, <1>3, <2>3, FencePosition
    <3>3. ~(~(room < 0) /\ ~(room = 0) /\ ~(room > 0))
      BY <3>2
    <3> QED
      BY <2>3, <3>1, <3>3
  <2> QED
    BY <2>1, <2>2, <2>3
<1>5. CASE \E reason \in {"nodata", "past end", "fence"} : Abort(reason)
  BY <1>5, AbortViews
<1>6. CASE Fork
  BY <1>1, <1>6, ForkViews DEF ViewsInv
<1>7. ASSUME f \in Inputs, saved[f].level # "none", d # Null, ~(pos > Len(d))
      PROVE  /\ Len(d) \in Nat /\ size \in Nat /\ pos + size <= Len(d)
             /\ size = 0 => pos = Len(d)
  <2>1. d \in Stored
    BY <1>2, <1>7, ReadsContents, InputsEntries, ContentsStored DEF TraceInv
  <2>2. Len(d) \in Nat /\ ReadSize \in Nat /\ ReadSize > 0
    BY <1>7, <2>1, NullIsNoData, TexEngineAssumption
  <2>3. PICK left \in Nat : left = Len(d) - pos
    BY <1>3, <1>7, <2>2
  <2>4. Min({ReadSize, left}) \in {ReadSize, left} /\ \A m \in {ReadSize, left} : Min({ReadSize, left}) <= m
    BY <2>2, MinIn
  <2> QED
    BY <1>2, <1>3, <2>2, <2>3, <2>4
<1>8. Data(f, pos, room) /\ FenceBefore(f, pos + size) /\ room > 0
      /\ saved[f].level # "none" /\ d # Null /\ ~(pos > Len(d)) => Views'
  <2>1. SUFFICES ASSUME Data(f, pos, room), FenceBefore(f, pos + size), room > 0,
                        saved[f].level # "none", d # Null, ~(pos > Len(d))
                 PROVE  Views'
    OBVIOUS
  <2>2. Last(fences).position \in Int
    BY <2>1, FencePosition
  <2>3. room \in Nat /\ room # 0
    BY <1>2, <1>3, <2>1, <2>2
  <2>4. f \in Inputs => pos + room <= Len(d)
    <3>1. SUFFICES ASSUME f \in Inputs PROVE pos + room <= Len(d)
      OBVIOUS
    <3>2. Len(d) \in Nat /\ size \in Nat /\ pos + size <= Len(d)
      BY <1>7, <2>1, <3>1
    <3>3. Last(fences).position < pos + size
      BY <2>1 DEF FenceBefore
    <3> QED
      BY <1>2, <1>3, <2>2, <3>2, <3>3
  <2> QED
    BY <1>1, <1>2, <2>1, <2>3, <2>4, DataViews
<1>9. Data(f, pos, size) /\ saved[f].level # "none" /\ d # Null /\ ~(pos > Len(d)) => Views'
  <2>1. SUFFICES ASSUME Data(f, pos, size), saved[f].level # "none", d # Null, ~(pos > Len(d))
                 PROVE  Views'
    OBVIOUS
  <2>2. CASE f \in Inputs
    BY <1>1, <1>2, <1>7, <2>1, <2>2, DataViews
  <2>3. CASE f \notin Inputs
    BY <1>1, <1>2, <2>1, <2>3, DataViews
  <2> QED
    BY <2>2, <2>3
<1> QED
  BY <1>4, <1>5, <1>6, <1>8, <1>9 DEF ViewsInv

-----------------------------------------------------------------------------
(* Q_SEEN *)

(* The driver knows more of what the worker on top has observed. *)
LEMMA GrowViews ==
  ASSUME Inv, Views, ~changing, Top > 0, SameBelow,
         UNCHANGED <<prog, disk, fs, edit, stash, changing, rollback, deferred, saved>>,
         SeenGrows, NEW q, q = procs'[Top], DOMAIN q.view = Entries, DOMAIN q.buf = Entries,
         q.flush => q.asked,
         \A f \in Inputs : Shape(f, q.view[f], q.pos[f], q.buf[f]),
         Runs(Inputs, Contents, q, saved, seen', FALSE)
  PROVE  Views'
<1>1. PICK inputs : inputs = Inputs /\ inputs = Inputs' /\ inputs \subseteq Entries
  BY SameInputs, InputsEntries
<1>2. PICK D : D = Contents /\ D = Contents'
  BY DEF Contents, InputData
<1>3. /\ Top' = Top /\ Len(procs') = Len(procs) /\ Top = Len(procs) /\ Top \in Nat
      /\ \A i \in 1..(Len(procs) - 1) : procs'[i] = procs[i]
  BY StackTyped DEF SameBelow, Top, Inv
<1>4. Shapes(inputs, procs')
  <2>1. ASSUME NEW i \in 1..Len(procs')
        PROVE  /\ DOMAIN procs'[i].view = Entries /\ DOMAIN procs'[i].buf = Entries
               /\ procs'[i].flush => procs'[i].asked
               /\ \A f \in inputs : Shape(f, procs'[i].view[f], procs'[i].pos[f], procs'[i].buf[f])
    <3>1. CASE i = Top
      BY <1>1, <3>1
    <3>2. CASE i # Top
      <4>1. procs'[i] = procs[i] /\ i \in 1..Len(procs)
        BY <1>3, <3>2
      <4> QED
        BY <1>1, <4>1 DEF Views, Shapes
    <3> QED
      BY <3>1, <3>2
  <2> QED
    BY <2>1 DEF Shapes
<1>5. Sources' /\ Recording'
  BY <1>3 DEF Views, Sources, Recording
<1>6. Levels(inputs, procs', saved)
  <2>1. Levels(inputs, procs, saved)
    BY <1>1 DEF Views
  <2> QED
    BY <1>3, <2>1 DEF Levels
<1>7. Reference' = Len(trace') /\ rollback'.flush = FALSE
  <2>1. rollback' = Closed
    BY DEF Inv, RollbackInv
  <2> QED
    BY <2>1, ClosedTransaction DEF Reference, Closed
<1>8. Chain(inputs, D, procs', seen', trace', Len(trace'))
  <2>1. Lengths(procs)
    BY LengthsOfProcs
  <2>2. Chain(inputs, D, procs, seen, trace, Len(trace))
    BY <1>1, <1>2, RunsNow DEF Views
  <2>3. Chain(inputs, D, procs, seen', trace', Len(trace'))
    BY <1>1, <2>2, ChainGrows
  <2>4. Len(trace') \in Nat
    <3>1. Len(trace) \in Nat
      BY StackTyped DEF Inv
    <3>2. ASSUME NEW f \in Entries, NEW pos \in Int, RecordSeen(seen, f, pos)
          PROVE  Len(trace') \in Nat
      <4>1. trace' \in Seq(TraceEntry)
        BY <3>2, RecordTyped DEF Inv, Typed
      <4> QED
        BY <4>1
    <3> QED
      BY <3>1, <3>2 DEF SeenGrows
  <2>5. Len(procs') \in Nat /\ Len(procs') <= Len(procs)
    BY <1>3
  <2> QED
    BY <1>1, <1>3, <2>1, <2>3, <2>4, <2>5, ChainPart
<1> QED
  BY <1>1, <1>2, <1>3, <1>4, <1>5, <1>6, <1>7, <1>8 DEF Views

(* What is pending once the first message was read *)
LEMMA PendingTail ==
  ASSUME NEW p, NEW q, NEW S, p.out \in Seq(S), p.out # <<>>, q.out = Tail(p.out),
         q.unsent = p.unsent
  PROVE  Pending(q) \subseteq Pending(p) /\ Pending(p) \subseteq Pending(q) \cup {Head(p.out)}
<1>1. PICK s, u : s = p.out /\ u = p.unsent
  OBVIOUS
<1>2. /\ s \in Seq(S) /\ s # <<>> /\ Len(s) \in Nat /\ Len(s) > 0
      /\ DOMAIN s = 1..Len(s) /\ DOMAIN Tail(s) = 1..(Len(s) - 1)
      /\ \A i \in 1..(Len(s) - 1) : Tail(s)[i] = s[i + 1]
      /\ Head(s) = s[1]
  BY <1>1
<1>3. \A i \in DOMAIN Tail(s) : \E j \in DOMAIN s : Tail(s)[i] = s[j]
  <2>1. TAKE i \in DOMAIN Tail(s)
  <2>2. i + 1 \in DOMAIN s /\ Tail(s)[i] = s[i + 1]
    BY <1>2, <2>1
  <2> QED
    BY <2>2
<1>4. \A j \in DOMAIN s : s[j] = Head(s) \/ \E i \in DOMAIN Tail(s) : s[j] = Tail(s)[i]
  <2>1. TAKE j \in DOMAIN s
  <2>2. CASE j = 1
    BY <1>2, <2>2
  <2>3. CASE j # 1
    <3>1. j - 1 \in DOMAIN Tail(s) /\ s[j] = Tail(s)[j - 1]
      BY <1>2, <2>1, <2>3
    <3> QED
      BY <3>1
  <2> QED
    BY <2>2, <2>3
<1>5. Pending(q) = {m \in {Tail(s)[i] : i \in DOMAIN Tail(s)} \cup {u[i] : i \in DOMAIN u} :
                      m.tag = "SEEN"}
  BY <1>1 DEF Pending
<1>6. Pending(p) = {m \in {s[i] : i \in DOMAIN s} \cup {u[i] : i \in DOMAIN u} : m.tag = "SEEN"}
  BY <1>1 DEF Pending
<1>7. Pending(q) \subseteq Pending(p)
  BY <1>3, <1>5, <1>6
<1>8. Pending(p) \subseteq Pending(q) \cup {Head(s)}
  BY <1>4, <1>5, <1>6
<1> QED
  BY <1>1, <1>7, <1>8

(* The same, as far as what is observed is concerned *)
SameWorker(p, q) ==
  /\ q.view = p.view /\ q.pos = p.pos /\ q.buf = p.buf /\ q.unsent = p.unsent
  /\ q.fd = p.fd /\ q.flush = p.flush /\ q.asked = p.asked

(* What a report that is beyond what the driver knew tells *)
LEMMA ReportKnown ==
  ASSUME NEW f, NEW v, NEW pos \in Nat, NEW buf, Shape(f, v, pos, buf), NEW lv, NEW s,
         Known(v, lv, s), NEW n \in Nat, n > 0, n <= pos, v[n + 1] \in Bytes
  PROVE  Known(v, lv, n)
<1>1. v \in Seq(Observation) /\ Len(v) \in Nat /\ (Len(v) = 0 => pos = 0)
      /\ (Len(v) > 0 => pos + 1 <= Len(v))
  BY DEF Shape
<1>2. Len(v) > 0 /\ n + 1 <= Len(v) /\ Len(v) # 1
  BY <1>1
<1>3. lv # "none"
  BY <1>2 DEF Known
<1>4. n # -1 /\ n >= 0
  OBVIOUS
<1> QED
  BY <1>2, <1>3, <1>4 DEF Known

LEMMA ReportRead ==
  ASSUME NEW inputs, inputs \subseteq Entries, NEW D, NEW p, NEW q, NEW sv,
         NEW sn \in [Entries -> Int], NEW sn2, NEW m \in SeenMessage, NEW S,
         p.out \in Seq(S), p.out # <<>>, m = Head(p.out), q.out = Tail(p.out), SameWorker(p, q),
         p.pos \in [Entries -> Nat], \A f \in inputs : Shape(f, p.view[f], p.pos[f], p.buf[f]),
         p.fd, Runs(inputs, D, p, sv, sn, FALSE),
         \/ m.arg > sn[m.file] /\ sn2 = [sn EXCEPT ![m.file] = m.arg]
         \/ m.arg <= sn[m.file] /\ sn2 = sn
  PROVE  Runs(inputs, D, q, sv, sn2, FALSE)
<1>1. Pending(q) \subseteq Pending(p) /\ Pending(p) \subseteq Pending(q) \cup {m}
  BY PendingTail DEF SameWorker
<1>2. m \in Pending(p)
  <2>1. PICK s : s = p.out
    OBVIOUS
  <2>2. 1 \in DOMAIN s /\ m = s[1] /\ m.tag = "SEEN"
    BY <2>1 DEF SeenMessage
  <2> QED
    BY <2>1, <2>2 DEF Pending
<1>3. m.file \in Entries /\ m.arg \in Nat
  BY DEF SeenMessage
<1>4. Reports(inputs, p)
  BY DEF Runs
<1>5. Reports(inputs, q)
  BY <1>1, <1>4 DEF Reports, SameWorker
<1>6. ASSUME NEW f \in inputs
      PROVE  /\ Account(f, D[f], q.view[f], sv[f].level)
             /\ Known(q.view[f], sv[f].level, sn2[f])
             /\ Reporting(q, f, sn2[f])
             /\ \/ q.flush
                \/ Ahead(f, D[f], q.view[f], q.pos[f], q.buf[f], sv[f].level)
  <2>1. PICK v, s, s2, lv : v = p.view[f] /\ s = sn[f] /\ s2 = sn2[f] /\ lv = sv[f].level
    OBVIOUS
  <2>2. f \in Entries /\ s \in Int /\ v = q.view[f]
    BY <2>1 DEF SameWorker
  <2>3. /\ Account(f, D[f], v, lv) /\ Known(v, lv, s) /\ Reporting(p, f, s)
        /\ p.flush \/ Ahead(f, D[f], v, p.pos[f], p.buf[f], lv)
    BY <2>1 DEF Runs
  <2>4. /\ s2 \in Int /\ s <= s2
        /\ m.file = f => m.arg <= s2
        /\ s2 = s \/ (m.file = f /\ s2 = m.arg)
    BY <1>3, <2>1, <2>2
  <2>5. Known(v, lv, s2)
    <3>1. CASE s2 = s
      BY <2>3, <3>1
    <3>2. CASE m.file = f /\ s2 = m.arg
      <4>1. m.arg > 0 /\ m.arg <= p.pos[f] /\ v[m.arg + 1] \in Bytes
        BY <1>2, <1>4, <2>1, <3>2 DEF Reports
      <4>2. Shape(f, v, p.pos[f], p.buf[f]) /\ p.pos[f] \in Nat
        BY <2>1, <2>2
      <4> QED
        BY <1>3, <2>3, <3>2, <4>1, <4>2, ReportKnown
    <3> QED
      BY <2>4, <3>1, <3>2
  <2>6. Reporting(q, f, s2)
    <3>1. ASSUME NEW k \in 1..Len(v), v[k] \in Bytes
          PROVE  k - 1 <= s2 \/ \E r \in Pending(q) : r.file = f /\ k - 1 <= r.arg
      <4>1. k - 1 <= s \/ \E r \in Pending(p) : r.file = f /\ k - 1 <= r.arg
        BY <2>1, <2>3, <3>1 DEF Reporting
      <4>2. CASE k - 1 <= s
        <5>1. k \in Int
          OBVIOUS
        <5> QED
          BY <2>2, <2>4, <4>2, <5>1
      <4>3. ASSUME NEW r \in Pending(p), r.file = f, k - 1 <= r.arg
            PROVE  k - 1 <= s2 \/ \E r2 \in Pending(q) : r2.file = f /\ k - 1 <= r2.arg
        <5>1. CASE r = m
          <6>1. k \in Int
            OBVIOUS
          <6> QED
            BY <1>3, <2>4, <4>3, <5>1, <6>1
        <5>2. CASE r # m
          BY <1>1, <4>3, <5>2
        <5> QED
          BY <5>1, <5>2
      <4> QED
        BY <4>1, <4>2, <4>3
    <3> QED
      BY <2>2, <3>1 DEF Reporting
  <2> QED
    BY <2>1, <2>2, <2>3, <2>5, <2>6 DEF SameWorker
<1>7. q.fd
  BY DEF SameWorker
<1> QED
  BY <1>5, <1>6, <1>7 DEF Runs

(* What a worker says is a sequence. *)
LEMMA OutSequence ==
  ASSUME NEW g, NEW p, Wellformed(g, p)
  PROVE  \E S : p.out \in Seq(S)
<1>1. CASE p.out = <<>>
  <2>1. PICK s : s = p.out
    OBVIOUS
  <2>2. s \in Seq({0})
    BY <1>1, <2>1
  <2> QED
    BY <2>1, <2>2
<1>2. CASE p.out = <<ChildMessage>>
  <2>1. PICK s, m : s = p.out /\ m = ChildMessage
    OBVIOUS
  <2>2. s \in Seq({m})
    BY <1>2, <2>1
  <2> QED
    BY <2>1, <2>2
<1>3. ASSUME NEW u \in Seq(SeenMessage), NEW q, p.out = u \o <<q>>
      PROVE  \E S : p.out \in Seq(S)
  <2>1. PICK s, S : s = p.out /\ S = SeenMessage \cup {q}
    OBVIOUS
  <2>2. u \in Seq(S) /\ <<q>> \in Seq(S)
    BY <2>1
  <2>3. s \in Seq(S)
    BY <1>3, <2>1, <2>2
  <2> QED
    BY <2>1, <2>3
<1> QED
  BY <1>1, <1>2, <1>3 DEF Wellformed, Speaking

LEMMA SeenViews ==
  ASSUME PlainSession, Inv, Views, NEW f \in Entries, Seen(f)
  PROVE  ViewsInv'
<1>1. Receive("SEEN") /\ Message.file = f
  BY DEF Seen
<1>2. PICK p : p = procs[Top]
  OBVIOUS
<1>3. /\ ~changing /\ Top > 0 /\ p.fd /\ p.out # <<>> /\ Message = Head(p.out)
      /\ Head(p.out).tag = "SEEN" /\ Typed
  BY <1>1, <1>2 DEF Receive, Stepping, Running, Alive, Message, PlainSession, Inv
<1>4. Wellformed(prog, p) /\ DOMAIN p = Fields
  BY <1>2, <1>3, TopWellformed
<1>5. PICK m : m = Head(p.out)
  OBVIOUS
<1>6. m \in SeenMessage /\ m = Message /\ m.file = f /\ m.arg \in Nat
  BY <1>1, <1>3, <1>4, <1>5, SeenRead DEF SeenMessage
<1>7. PICK S : p.out \in Seq(S)
  BY <1>3, <1>4, OutSequence
<1>8. CASE Abort("fence")
  BY <1>8, AbortViews
<1>9. CASE ~FenceBefore(f, m.arg)
  <2>1. PICK q : q = [p EXCEPT !.out = Tail(@)]
    OBVIOUS
  <2>2. /\ IF m.arg > seen[f] THEN RecordSeen(seen, f, m.arg) ELSE UNCHANGED <<seen, trace>>
        /\ SetTop(q)
        /\ UNCHANGED <<prog, vfs, saved, fences, changing, rollback, deferred,
                       auxDirty, finishing, aborted, changes>>
    BY <1>2, <1>6, <1>9, <2>1 DEF Seen
  <2>3. SameBelow /\ procs'[Top] = q
    BY <1>3, <2>2, TopSet
  <2>4. SameWorker(p, q) /\ q.out = Tail(p.out)
    BY <1>4, <2>1 DEF SameWorker, Fields
  <2>5. /\ p.pos \in [Entries -> Nat] /\ DOMAIN p.view = Entries /\ DOMAIN p.buf = Entries
        /\ (p.flush => p.asked) /\ \A g \in Inputs : Shape(g, p.view[g], p.pos[g], p.buf[g])
    BY <1>2, <1>3, PosTyped, TopDomains
  <2>6. Runs(Inputs, Contents, p, saved, seen, FALSE)
    BY <1>2, <1>3, RunsNow
  <2>7. PICK sn2 : sn2 = seen'
    OBVIOUS
  <2>8. seen \in [Entries -> Int] /\ seen[f] \in Int
    BY <1>3 DEF Typed
  <2>9. \/ m.arg > seen[m.file] /\ sn2 = [seen EXCEPT ![m.file] = m.arg]
        \/ m.arg <= seen[m.file] /\ sn2 = seen
    BY <1>6, <2>2, <2>7, <2>8 DEF RecordSeen
  <2>10. Runs(Inputs, Contents, q, saved, sn2, FALSE)
    BY <1>3, <1>5, <1>6, <1>7, <2>4, <2>5, <2>6, <2>8, <2>9, ReportRead, InputsEntries
  <2>11. SeenGrows
    BY <1>6, <2>2, <2>8 DEF SeenGrows
  <2>12. UNCHANGED <<prog, disk, fs, edit, stash, changing, rollback, deferred, saved>>
    BY <2>2 DEF vfs
  <2>13. /\ DOMAIN q.view = Entries /\ DOMAIN q.buf = Entries /\ (q.flush => q.asked)
         /\ \A g \in Inputs : Shape(g, q.view[g], q.pos[g], q.buf[g])
    BY <2>4, <2>5 DEF SameWorker
  <2> QED
    BY <1>3, <2>3, <2>7, <2>10, <2>11, <2>12, <2>13, GrowViews DEF ViewsInv
<1> QED
  BY <1>6, <1>8, <1>9 DEF Seen

-----------------------------------------------------------------------------
(* The worker ends, asks and consumes. *)

LEMMA ExitViews ==
  ASSUME PlainSession, Inv, Views, Exit
  PROVE  Views'
<1>1. PICK p : p = procs[Top]
  OBVIOUS
<1>2. /\ ~changing /\ Top > 0 /\ p.fd /\ p.out # <<>> /\ Head(p.out).tag = "EXIT" /\ Typed
  BY <1>1 DEF Exit, Receive, Stepping, Running, Alive, Message, PlainSession, Inv
<1>3. Wellformed(prog, p) /\ DOMAIN p = Fields
  BY <1>1, <1>2, TopWellformed
<1>4. PICK m : m = Head(p.out)
  OBVIOUS
<1>5. p.asked /\ Tail(p.out) = <<>> /\ p.unsent = <<>>
  <2>1. m \notin SeenMessage
    BY <1>2, <1>4 DEF SeenMessage
  <2>2. p.asked /\ Tail(p.out) = <<>>
    BY <1>2, <1>3, <1>4, <2>1, MessageRead
  <2> QED
    BY <1>3, <2>2 DEF Wellformed
<1>6. Pending(p) = {}
  <2>1. p.out = <<m>>
    BY <1>2, <1>3, <1>4, <1>5, OneMessage
  <2> QED
    BY <1>2, <1>4, <1>5, <2>1, PendingOne
<1>7. PICK q : q = [p EXCEPT !.fd = FALSE, !.out = <<>>]
  OBVIOUS
<1>8. SetTop(q) /\ UNCHANGED <<prog, disk, fs, edit, stash, changing, rollback, deferred, saved,
                               seen, trace>>
  BY <1>1, <1>7 DEF Exit, vfs
<1>9. SameBelow /\ procs'[Top] = q
  BY <1>2, <1>8, TopSet
<1>10. /\ q.out = <<>> /\ q.unsent = <<>> /\ ~q.fd /\ q.asked /\ q.flush = p.flush
       /\ q.view = p.view /\ q.pos = p.pos /\ q.buf = p.buf /\ q.killed = p.killed
  BY <1>3, <1>5, <1>7 DEF Fields
<1>11. Pending(q) = {}
  BY <1>10, PendingNone
<1>12. /\ DOMAIN p.view = Entries /\ DOMAIN p.buf = Entries
       /\ \A f \in Inputs : Shape(f, p.view[f], p.pos[f], p.buf[f])
  BY <1>1, <1>2, TopDomains
<1>13. Runs(Inputs, Contents, q, saved, seen, rollback.flush)
  <2>1. Runs(Inputs, Contents, p, saved, seen, FALSE) /\ ~rollback.flush
    BY <1>1, <1>2, RunsNow
  <2>2. ASSUME NEW f \in Inputs
        PROVE  Reporting(q, f, seen[f])
    <3>1. Told(p.view[f], seen[f])
      BY <1>6, <2>1, ReportedTold DEF Runs
    <3>2. Told(q.view[f], seen[f])
      BY <1>10, <3>1
    <3> QED
      BY <3>2, ToldReported
  <2>3. Reports(Inputs, q)
    BY <1>11 DEF Reports
  <2> QED
    BY <1>10, <1>11, <2>1, <2>2, <2>3 DEF Runs
<1> QED
  BY <1>1, <1>8, <1>9, <1>10, <1>12, <1>13, TopViews

(* The pending reports leave with the query. *)
LEMMA PendingAsked ==
  ASSUME NEW p, NEW q, NEW m, p.out = <<>>, p.unsent \in Seq(SeenMessage), m.tag # "SEEN",
         q.out = p.unsent \o <<m>>, q.unsent = <<>>
  PROVE  Pending(q) = Pending(p)
<1>1. PICK u : u = p.unsent
  OBVIOUS
<1>2. PICK n \in Nat : n = Len(u)
  BY <1>1
<1>3. PICK w : w = u \o <<m>>
  OBVIOUS
<1>4. /\ DOMAIN w = 1..(n + 1) /\ DOMAIN u = 1..n
      /\ (\A i \in 1..n : w[i] = u[i]) /\ w[n + 1] = m
  <2>1. u \in Seq(SeenMessage \cup {m}) /\ <<m>> \in Seq(SeenMessage \cup {m})
    BY <1>1
  <2> QED
    BY <1>2, <1>3, <2>1
<1>5. Pending(p) = {r \in {u[i] : i \in DOMAIN u} : r.tag = "SEEN"}
  <2>1. DOMAIN p.out = {}
    OBVIOUS
  <2> QED
    BY <1>1, <2>1 DEF Pending
<1>6. Pending(q) = {r \in {w[i] : i \in DOMAIN w} : r.tag = "SEEN"}
  <2>1. DOMAIN q.unsent = {} /\ q.out = w
    BY <1>1, <1>3
  <2> QED
    BY <2>1 DEF Pending
<1>7. \A i \in DOMAIN u : i \in DOMAIN w /\ w[i] = u[i]
  BY <1>4
<1>8. \A i \in DOMAIN w : w[i] = m \/ (i \in DOMAIN u /\ w[i] = u[i])
  <2>1. TAKE i \in DOMAIN w
  <2>2. CASE i = n + 1
    BY <1>4, <2>2
  <2>3. CASE i # n + 1
    BY <1>4, <2>1, <2>3
  <2> QED
    BY <2>2, <2>3
<1> QED
  BY <1>5, <1>6, <1>7, <1>8

LEMMA AskViews ==
  ASSUME Inv, Views, Ask
  PROVE  Views'
<1>1. PICK p : p = procs[Top]
  OBVIOUS
<1>2. Top > 0 /\ p.fd /\ ~p.asked /\ Typed
  BY <1>1 DEF Ask, Running, Alive, Inv
<1>3. Wellformed(prog, p) /\ DOMAIN p = Fields
  BY <1>1, <1>2, TopWellformed
<1>4. PICK m : m = Query(p)
  OBVIOUS
<1>5. m.tag # "SEEN"
  <2>1. Asks(prog, p, m) /\ p.pc \in 1..(Len(prog) + 1)
    BY <1>2, <1>3, <1>4, QueryAsks DEF Wellformed
  <2>2. CASE p.pc > Len(prog)
    BY <2>1, <2>2 DEF Asks
  <2>3. CASE ~(p.pc > Len(prog))
    <3>1. Len(prog) \in Nat
      BY <1>2, ProgTyped
    <3>2. p.pc \in 1..Len(prog)
      BY <2>1, <2>3, <3>1
    <3>3. m.tag = TagOf[prog[p.pc].op]
      BY <2>1, <2>3 DEF Asks
    <3> QED
      BY <1>2, <3>2, <3>3, ProgTyped, TagsAnswerable
  <2> QED
    BY <2>2, <2>3
<1>6. PICK q : q = [p EXCEPT !.out = p.unsent \o <<Query(p)>>, !.unsent = <<>>, !.asked = TRUE]
  OBVIOUS
<1>7. SetTop(q) /\ UNCHANGED <<prog, disk, fs, edit, stash, changing, rollback, deferred, saved,
                               seen, trace>>
  BY <1>1, <1>6, Zenon DEF Ask, vfs
<1>8. SameBelow /\ procs'[Top] = q
  BY <1>2, <1>7, TopSet
<1>9. /\ q.out = p.unsent \o <<m>> /\ q.unsent = <<>> /\ q.fd = p.fd /\ q.asked /\ q.flush = p.flush
      /\ q.view = p.view /\ q.pos = p.pos /\ q.buf = p.buf /\ q.killed = p.killed
  BY <1>3, <1>4, <1>6 DEF Fields
<1>10. Pending(q) = Pending(p)
  <2>1. p.out = <<>> /\ p.unsent \in Seq(SeenMessage)
    BY <1>2, <1>3 DEF Wellformed
  <2> QED
    BY <1>5, <1>9, <2>1, PendingAsked
<1>11. /\ DOMAIN p.view = Entries /\ DOMAIN p.buf = Entries
       /\ \A f \in Inputs : Shape(f, p.view[f], p.pos[f], p.buf[f])
  BY <1>1, <1>2, TopDomains
<1>12. ASSUME Innocent
       PROVE  Runs(Inputs, Contents, q, saved, seen, rollback.flush)
  <2>1. Runs(Inputs, Contents, p, saved, seen, rollback.flush)
    BY <1>1, <1>12 DEF Views
  <2>2. ~rollback.flush
    BY <1>2, <2>1 DEF Runs
  <2>3. ASSUME NEW f \in Inputs
        PROVE  Reporting(q, f, seen[f])
    BY <1>9, <1>10, <2>1, <2>3 DEF Runs, Reporting
  <2>4. Reports(Inputs, q)
    BY <1>9, <1>10, <2>1 DEF Runs, Reports
  <2> QED
    BY <1>2, <1>9, <2>1, <2>2, <2>3, <2>4 DEF Runs
<1> QED
  BY <1>1, <1>7, <1>8, <1>9, <1>11, <1>12, TopViews

(* The reports after one more *)
Renews(s, t, f, n) ==
  /\ \E i \in DOMAIN t : t[i].tag = "SEEN" /\ t[i].file = f /\ t[i].arg = n
  /\ \A i \in DOMAIN t : \/ t[i].tag = "SEEN" /\ t[i].file = f /\ t[i].arg = n
                         \/ \E j \in DOMAIN s : t[i] = s[j]
  /\ \A j \in DOMAIN s : s[j].file = f \/ \E i \in DOMAIN t : s[j] = t[i]

LEMMA ReportedRenews ==
  ASSUME NEW s \in Seq(SeenMessage), NEW f \in Entries, NEW n \in Nat
  PROVE  Renews(s, Reported(s, f, n), f, n)
<1>1. PICK m : m = [tag |-> "SEEN", file |-> f, arg |-> n]
  OBVIOUS
<1>2. m.tag = "SEEN" /\ m.file = f /\ m.arg = n /\ m \in SeenMessage
  BY <1>1 DEF SeenMessage
<1>3. PICK t : t = Reported(s, f, n)
  OBVIOUS
<1>4. Len(s) \in Nat /\ DOMAIN s = 1..Len(s)
  OBVIOUS
<1>5. CASE s # <<>> /\ Last(s).file = f
  <2>1. t = SubSeq(s, 1, Len(s) - 1) \o <<m>> /\ s[Len(s)].file = f /\ Len(s) > 0
    BY <1>1, <1>3, <1>5 DEF Reported, Front, Last
  <2>2. PICK c \in Nat : Len(s) = c + 1
    <3>1. PICK k \in Nat : k = Len(s) /\ k > 0
      BY <1>4, <2>1
    <3>2. k - 1 \in Nat /\ k = (k - 1) + 1
      BY <3>1
    <3> QED
      BY <3>1, <3>2
  <2>3. PICK u : u = SubSeq(s, 1, c)
    OBVIOUS
  <2>4. u \in Seq(SeenMessage) /\ Len(u) = c /\ \A i \in 1..c : u[i] = s[i]
    BY <2>2, <2>3, CutSequence
  <2>5. t = u \o <<m>>
    BY <2>1, <2>2, <2>3
  <2>6. /\ DOMAIN t = 1..(c + 1)
        /\ \A i \in 1..c : t[i] = s[i]
        /\ t[c + 1] = m
    BY <1>2, <2>4, <2>5, SMTT(30)
  <2>7. \A i \in DOMAIN t : t[i] = m \/ (i \in DOMAIN s /\ t[i] = s[i])
    <3>1. TAKE i \in DOMAIN t
    <3>2. CASE i = c + 1
      BY <2>6, <3>2
    <3>3. CASE i # c + 1
      <4>1. i \in 1..c
        BY <2>6, <3>1, <3>3
      <4> QED
        BY <1>4, <2>2, <2>6, <4>1
    <3> QED
      BY <3>2, <3>3
  <2>8. \A j \in DOMAIN s : s[j].file = f \/ (j \in DOMAIN t /\ s[j] = t[j])
    <3>1. TAKE j \in DOMAIN s
    <3>2. CASE j = c + 1
      BY <2>1, <2>2, <3>2
    <3>3. CASE j # c + 1
      <4>1. j \in 1..c
        BY <1>4, <2>2, <3>1, <3>3
      <4> QED
        BY <2>6, <4>1
    <3> QED
      BY <3>2, <3>3
  <2>9. c + 1 \in DOMAIN t
    BY <2>6
  <2> QED
    BY <1>2, <1>3, <2>6, <2>7, <2>8, <2>9 DEF Renews
<1>6. CASE ~(s # <<>> /\ Last(s).file = f)
  <2>1. t = Append(s, m)
    BY <1>1, <1>3, <1>6 DEF Reported
  <2>2. /\ DOMAIN t = 1..(Len(s) + 1)
        /\ \A i \in 1..Len(s) : t[i] = s[i]
        /\ t[Len(s) + 1] = m
    BY <1>2, <1>4, <2>1
  <2>3. \A i \in DOMAIN t : t[i] = m \/ (i \in DOMAIN s /\ t[i] = s[i])
    BY <1>4, <2>2
  <2>4. \A j \in DOMAIN s : j \in DOMAIN t /\ s[j] = t[j]
    BY <1>4, <2>2
  <2>5. Len(s) + 1 \in DOMAIN t
    BY <1>4, <2>2
  <2> QED
    BY <1>2, <1>3, <2>2, <2>3, <2>4, <2>5 DEF Renews
<1> QED
  BY <1>5, <1>6

RenewsPending(p, q, f, n) ==
  /\ \E m \in Pending(q) : m.file = f /\ m.arg = n
  /\ \A m \in Pending(q) : (m.file = f /\ m.arg = n) \/ m \in Pending(p)
  /\ \A m \in Pending(p) : m.file = f \/ m \in Pending(q)

LEMMA PendingRenewed ==
  ASSUME NEW p, NEW q, p.out = <<>>, q.out = <<>>, NEW f, NEW n,
         Renews(p.unsent, q.unsent, f, n)
  PROVE  RenewsPending(p, q, f, n)
<1>1. PICK s, t : s = p.unsent /\ t = q.unsent
  OBVIOUS
<1>2. DOMAIN p.out = {} /\ DOMAIN q.out = {}
  OBVIOUS
<1>3. Pending(p) = {r \in {s[i] : i \in DOMAIN s} : r.tag = "SEEN"}
  BY <1>1, <1>2 DEF Pending
<1>4. Pending(q) = {r \in {t[i] : i \in DOMAIN t} : r.tag = "SEEN"}
  BY <1>1, <1>2 DEF Pending
<1> QED
  BY <1>1, <1>3, <1>4 DEF Renews, RenewsPending

(* A byte that is consumed *)
LEMMA ConsumedShape ==
  ASSUME NEW f, NEW v, NEW pos \in Nat, NEW buf, Shape(f, v, pos, buf), buf # <<>>
  PROVE  /\ Shape(f, Observing(v, pos, Head(buf)), pos + 1, Tail(buf))
         /\ Head(buf) \in Bytes /\ v \in Seq(Observation) /\ pos + 1 <= Len(v)
<1>1. /\ v \in Seq(Observation) /\ Len(v) \in Nat /\ buf \in Seq(Bytes)
      /\ (Len(v) = 0 => pos = 0 /\ Len(buf) = 0) /\ (Len(v) > 0 => pos + 1 <= Len(v))
      /\ (Fresh(v) => f \in DiskFiles \/ Disk[f] = Null)
  BY DEF Shape
<1>2. Head(buf) \in Bytes /\ Tail(buf) \in Seq(Bytes) /\ pos + 1 <= Len(v)
  BY <1>1
<1>3. Head(buf) \in Observation
  BY <1>2 DEF Observation
<1>4. PICK w \in Seq(Observation) :
        /\ w = Observing(v, pos, Head(buf)) /\ Len(w) >= pos + 2
        /\ \A k \in 1..(pos + 1) : w[k] = v[k]
  BY <1>1, <1>2, <1>3, ObservingIs
<1>5. Len(w) \in Nat /\ Len(w) > 0 /\ Len(v) > 0 /\ w[1] = v[1]
  BY <1>1, <1>2, <1>4
<1>6. Fresh(w) => Fresh(v)
  BY <1>5 DEF Fresh
<1>7. Shape(f, w, pos + 1, Tail(buf))
  BY <1>1, <1>2, <1>4, <1>5, <1>6 DEF Shape
<1> QED
  BY <1>1, <1>2, <1>4, <1>7

(* What is consumed of a file, as long as the buffer is what the file holds *)
LEMMA ConsumedFits ==
  ASSUME NEW f, NEW d \in Stored, NEW v, NEW pos \in Nat, NEW buf, Shape(f, v, pos, buf), buf # <<>>,
         NEW lv, NEW s \in Int, Account(f, d, v, lv), Known(v, lv, s), Ahead(f, d, v, pos, buf, lv),
         NEW w, w = Observing(v, pos, Head(buf))
  PROVE  /\ Extends(f, d, v, pos, Head(buf), lv, s, w)
         /\ Ahead(f, d, w, pos + 1, Tail(buf), lv)
<1>1. Head(buf) \in Bytes /\ v \in Seq(Observation) /\ pos + 1 <= Len(v)
  BY ConsumedShape
<1>2. /\ buf \in Seq(Bytes) /\ Len(buf) \in Nat /\ Len(buf) > 0
      /\ Len(Tail(buf)) = Len(buf) - 1 /\ Head(buf) = buf[1]
      /\ \A k \in 1..(Len(buf) - 1) : Tail(buf)[k] = buf[k + 1]
  BY DEF Shape
<1>3. lv # "none"
  BY <1>2 DEF Ahead
<1>4. Head(buf) \in Observation
  BY <1>1 DEF Observation
<1>5. CASE Excused(f, v)
  <2>1. Extends(f, d, v, pos, Head(buf), lv, s, w)
    BY <1>1, <1>3, <1>4, <1>5, ObservingFits
  <2>2. Excused(f, w)
    BY <1>5, <2>1 DEF Extends, Excused
  <2> QED
    BY <1>3, <2>1, <2>2 DEF Ahead
<1>6. CASE BytesOf(buf, d, pos)
  <2>1. d # Null /\ pos + Len(buf) <= Len(d) /\ \A k \in 1..Len(buf) : buf[k] = d[pos + k]
    BY <1>2, <1>6 DEF BytesOf
  <2>2. d \in Seq(Bytes) /\ Len(d) \in Nat
    BY <2>1, NullIsNoData
  <2>3. Head(buf) = d[pos + 1] /\ pos + 1 <= Len(d)
    BY <1>2, <2>1, <2>2
  <2>4. pos + 2 <= Sights(d) /\ Sight(d, pos + 2) = Head(buf)
    BY <2>1, <2>2, <2>3 DEF Sights, Sight
  <2>5. Extends(f, d, v, pos, Head(buf), lv, s, w)
    BY <1>1, <1>3, <1>4, <2>4, ObservingFits
  <2>6. BytesOf(Tail(buf), d, pos + 1)
    <3>1. PICK u : u = Tail(buf)
      OBVIOUS
    <3>2. Len(u) = Len(buf) - 1 /\ \A k \in 1..(Len(buf) - 1) : u[k] = buf[k + 1]
      BY <1>2, <3>1
    <3>3. pos + 1 + Len(u) <= Len(d)
      BY <1>2, <2>1, <2>2, <3>2
    <3>4. ASSUME NEW k \in 1..Len(u)
          PROVE  u[k] = d[pos + 1 + k]
      <4>1. k + 1 \in 1..Len(buf) /\ k \in 1..(Len(buf) - 1) /\ pos + (k + 1) = pos + 1 + k
        BY <1>2, <3>2
      <4> QED
        BY <2>1, <3>2, <4>1
    <3> QED
      BY <2>1, <3>1, <3>3, <3>4 DEF BytesOf
  <2> QED
    BY <1>3, <2>5, <2>6 DEF Ahead
<1> QED
  BY <1>5, <1>6 DEF Ahead

LEMMA PendingTyped ==
  ASSUME NEW p, p.out = <<>>, p.unsent \in Seq(SeenMessage)
  PROVE  \A m \in Pending(p) : m \in SeenMessage /\ m.arg \in Nat
<1>1. PICK u : u = p.unsent
  OBVIOUS
<1>2. \A i \in DOMAIN u : u[i] \in SeenMessage
  BY <1>1
<1>3. DOMAIN p.out = {}
  OBVIOUS
<1>4. \A m \in Pending(p) : m \in SeenMessage
  BY <1>1, <1>2, <1>3 DEF Pending
<1>5. \A m \in SeenMessage : m.arg \in Nat
  BY DEF SeenMessage
<1> QED
  BY <1>4, <1>5

(* From p to q, a byte of f was consumed. *)
Consumes(inputs, p, q, f) ==
  /\ p.out = <<>> /\ q.out = <<>> /\ p.buf[f] # <<>>
  /\ \A g \in inputs : g # f =>
       q.view[g] = p.view[g] /\ q.pos[g] = p.pos[g] /\ q.buf[g] = p.buf[g]
  /\ q.view[f] = Observing(p.view[f], p.pos[f], Head(p.buf[f]))
  /\ q.pos[f] = p.pos[f] + 1 /\ q.buf[f] = Tail(p.buf[f])
  /\ Renews(p.unsent, q.unsent, f, p.pos[f] + 1)

(* What runs after a byte of f was consumed *)
LEMMA ConsumedRuns ==
  ASSUME NEW inputs, NEW D, NEW p, NEW q, NEW sv, NEW sn \in [Entries -> Int],
         inputs \subseteq Entries, \A g \in inputs : D[g] \in Stored,
         p.unsent \in Seq(SeenMessage), p.pos \in [Entries -> Nat], ~p.flush, p.fd, q.fd,
         \A g \in inputs : Shape(g, p.view[g], p.pos[g], p.buf[g]),
         NEW f, Consumes(inputs, p, q, f), Runs(inputs, D, p, sv, sn, FALSE)
  PROVE  Runs(inputs, D, q, sv, sn, FALSE)
<1>1. RenewsPending(p, q, f, p.pos[f] + 1)
  <2>1. p.out = <<>> /\ q.out = <<>> /\ Renews(p.unsent, q.unsent, f, p.pos[f] + 1)
    BY DEF Consumes
  <2> QED
    BY <2>1, PendingRenewed
<1>2. /\ \E m \in Pending(q) : m.file = f /\ m.arg = p.pos[f] + 1
      /\ \A m \in Pending(q) : (m.file = f /\ m.arg = p.pos[f] + 1) \/ m \in Pending(p)
      /\ \A m \in Pending(p) : m.file = f \/ m \in Pending(q)
  BY <1>1 DEF RenewsPending
<1>3. Reports(inputs, p)
  BY DEF Runs
<1>4. ASSUME NEW g \in inputs, g # f
      PROVE  /\ Account(g, D[g], q.view[g], sv[g].level)
             /\ Known(q.view[g], sv[g].level, sn[g])
             /\ Reporting(q, g, sn[g])
             /\ Ahead(g, D[g], q.view[g], q.pos[g], q.buf[g], sv[g].level)
  <2>1. /\ Account(g, D[g], p.view[g], sv[g].level)
        /\ Known(p.view[g], sv[g].level, sn[g])
        /\ Reporting(p, g, sn[g])
        /\ Ahead(g, D[g], p.view[g], p.pos[g], p.buf[g], sv[g].level)
    BY DEF Runs
  <2>2. Reporting(q, g, sn[g])
    <3>1. q.view[g] = p.view[g]
      BY <1>4 DEF Consumes
    <3> QED
      BY <1>2, <1>4, <2>1, <3>1 DEF Reporting
  <2> QED
    BY <1>4, <2>1, <2>2 DEF Consumes
<1>5. ASSUME f \in inputs
      PROVE  /\ Account(f, D[f], q.view[f], sv[f].level)
             /\ Known(q.view[f], sv[f].level, sn[f])
             /\ Reporting(q, f, sn[f])
             /\ Ahead(f, D[f], q.view[f], q.pos[f], q.buf[f], sv[f].level)
             /\ q.view[f][p.pos[f] + 2] \in Bytes
             /\ \A k \in 1..(p.pos[f] + 1) : q.view[f][k] = p.view[f][k]
  <2>1. PICK v, w, pos, buf, lv, s, d :
          /\ v = p.view[f] /\ w = q.view[f] /\ pos = p.pos[f] /\ buf = p.buf[f]
          /\ lv = sv[f].level /\ s = sn[f] /\ d = D[f]
    OBVIOUS
  <2>2. /\ f \in Entries /\ s \in Int /\ pos \in Nat /\ d \in Stored /\ buf # <<>>
        /\ Shape(f, v, pos, buf) /\ w = Observing(v, pos, Head(buf))
    BY <1>5, <2>1 DEF Consumes
  <2>3. /\ Account(f, d, v, lv) /\ Known(v, lv, s) /\ Reporting(p, f, s)
        /\ Ahead(f, d, v, pos, buf, lv)
    BY <1>5, <2>1 DEF Runs
  <2>4. /\ Extends(f, d, v, pos, Head(buf), lv, s, w)
        /\ Ahead(f, d, w, pos + 1, Tail(buf), lv)
    BY <2>2, <2>3, ConsumedFits
  <2>5. Head(buf) \in Bytes
    BY <2>2, ConsumedShape
  <2>6. ASSUME NEW k \in 1..Len(w), w[k] \in Bytes
        PROVE  k - 1 <= s \/ \E r \in Pending(q) : r.file = f /\ k - 1 <= r.arg
    <3>1. k \in Int
      OBVIOUS
    <3>2. CASE k = pos + 2
      <4>1. PICK m \in Pending(q) : m.file = f /\ m.arg = pos + 1
        BY <1>2, <2>1
      <4>2. k - 1 <= m.arg
        BY <2>2, <3>2, <4>1
      <4> QED
        BY <4>1, <4>2
    <3>3. CASE k # pos + 2
      <4>1. k \in 1..Len(v) /\ v[k] \in Bytes
        BY <2>4, <2>6, <3>3 DEF Extends
      <4>2. k - 1 <= s \/ \E r \in Pending(p) : r.file = f /\ k - 1 <= r.arg
        BY <2>1, <2>3, <4>1 DEF Reporting
      <4>3. ASSUME NEW r \in Pending(p), r.file = f, k - 1 <= r.arg
            PROVE  \E r2 \in Pending(q) : r2.file = f /\ k - 1 <= r2.arg
        <5>1. r.arg <= pos
          BY <1>3, <1>5, <2>1, <4>3 DEF Reports
        <5>2. PICK m \in Pending(q) : m.file = f /\ m.arg = pos + 1
          BY <1>2, <2>1
        <5>3. r.arg \in Int
          BY <4>3, PendingTyped DEF Consumes
        <5>4. k - 1 <= m.arg
          BY <2>2, <3>1, <4>3, <5>1, <5>2, <5>3
        <5> QED
          BY <5>2, <5>4
      <4> QED
        BY <4>2, <4>3
    <3> QED
      BY <3>2, <3>3
  <2>7. Reporting(q, f, s)
    BY <2>1, <2>6 DEF Reporting
  <2>8. q.pos[f] = pos + 1 /\ q.buf[f] = Tail(buf)
    BY <1>5, <2>1 DEF Consumes
  <2> QED
    BY <2>1, <2>4, <2>5, <2>7, <2>8 DEF Extends
<1>6. Reports(inputs, q)
  <2>1. ASSUME NEW m \in Pending(q), m.file \in inputs
        PROVE  m.arg > 0 /\ m.arg <= q.pos[m.file] /\ q.view[m.file][m.arg + 1] \in Bytes
    <3>1. CASE m.file = f /\ m.arg = p.pos[f] + 1
      <4>1. PICK pos \in Nat : pos = p.pos[f]
        BY <2>1, <3>1
      <4>2. q.pos[f] = pos + 1 /\ q.view[f][pos + 2] \in Bytes /\ pos + 1 + 1 = pos + 2
        BY <1>5, <2>1, <3>1, <4>1 DEF Consumes
      <4> QED
        BY <3>1, <4>1, <4>2
    <3>2. CASE m \in Pending(p)
      <4>1. m.arg > 0 /\ m.arg <= p.pos[m.file] /\ p.view[m.file][m.arg + 1] \in Bytes
        BY <1>3, <2>1, <3>2 DEF Reports
      <4>2. CASE m.file # f
        BY <2>1, <4>1, <4>2 DEF Consumes
      <4>3. CASE m.file = f
        <5>1. PICK pos \in Nat : pos = p.pos[f]
          BY <2>1, <4>3
        <5>2. q.pos[f] = pos + 1 /\ \A k \in 1..(pos + 1) : q.view[f][k] = p.view[f][k]
          BY <1>5, <2>1, <4>3, <5>1 DEF Consumes
        <5>3. m.arg \in Int
          BY PendingTyped, <3>2 DEF Consumes
        <5>4. m.arg + 1 \in 1..(pos + 1)
          BY <4>1, <4>3, <5>1, <5>3
        <5>5. q.view[f][m.arg + 1] \in Bytes
          BY <4>1, <4>3, <5>2, <5>4
        <5> QED
          BY <4>1, <4>3, <5>1, <5>2, <5>3, <5>5
      <4> QED
        BY <4>2, <4>3
    <3> QED
      BY <1>2, <3>1, <3>2
  <2> QED
    BY <2>1 DEF Reports
<1> QED
  BY <1>4, <1>5, <1>6 DEF Runs

LEMMA ConsumeViews ==
  ASSUME Inv, TraceInv, Views, Consume
  PROVE  Views'
<1>1. PICK p, f : p = procs[Top] /\ f = prog[p.pc].file
  OBVIOUS
<1>2. Top > 0 /\ p.fd /\ ~p.asked /\ Typed /\ p.pc <= Len(prog) /\ p.buf[f] # <<>>
  BY <1>1, Zenon DEF Consume, Running, Alive, Inv
<1>3. Wellformed(prog, p) /\ DOMAIN p = Fields /\ p.pos \in [Entries -> Nat]
  BY <1>1, <1>2, TopWellformed, PosTyped
<1>4. /\ p.out = <<>> /\ p.unsent \in Seq(SeenMessage) /\ p.pc \in 1..(Len(prog) + 1)
  BY <1>2, <1>3 DEF Wellformed
<1>5. f \in Entries
  <2>1. p.pc \in 1..Len(prog)
    BY <1>2, <1>4, ProgTyped
  <2> QED
    BY <1>1, <1>2, <2>1, ProgTyped
<1>6. PICK w, b, n, u :
        /\ w = Observing(p.view[f], p.pos[f], Head(p.buf[f])) /\ b = Tail(p.buf[f])
        /\ n = p.pos[f] + 1 /\ u = Reported(p.unsent, f, p.pos[f] + 1)
  OBVIOUS
<1>7. PICK r : r = [p EXCEPT !.view[f] = w, !.buf[f] = b, !.pos[f] = n, !.unsent = u]
  OBVIOUS
<1>8. /\ SetTop(Settled(r))
      /\ UNCHANGED <<prog, disk, fs, edit, stash, changing, rollback, deferred, saved,
                     seen, trace>>
  BY <1>1, <1>6, <1>7, Zenon DEF Consume, vfs
<1>9. /\ r.pc = p.pc /\ r.view = [p.view EXCEPT ![f] = w] /\ r.buf = [p.buf EXCEPT ![f] = b]
      /\ r.pos = [p.pos EXCEPT ![f] = n] /\ r.unsent = u
      /\ r.out = p.out /\ r.fd = p.fd /\ r.killed = p.killed /\ r.flush = p.flush
      /\ r.asked = p.asked /\ DOMAIN r = Fields
  BY <1>3, <1>7 DEF Fields
<1>10. PICK k \in p.pc..(Len(prog) + 1) : Settled(r) = [r EXCEPT !.pc = k]
  <2>1. r.pc \in 1..(Len(prog) + 1)
    BY <1>4, <1>9
  <2> QED
    BY <1>2, <1>9, <2>1, SettledMoves
<1>11. PICK q : q = Settled(r)
  OBVIOUS
<1>12. /\ q.view = r.view /\ q.buf = r.buf /\ q.pos = r.pos /\ q.unsent = u /\ q.out = <<>>
       /\ q.fd = p.fd /\ q.killed = p.killed /\ q.flush = p.flush /\ q.asked = p.asked
  BY <1>4, <1>9, <1>10, <1>11 DEF Fields
<1>13. SameBelow /\ procs'[Top] = q
  BY <1>2, <1>8, <1>11, TopSet
<1>14. /\ DOMAIN p.view = Entries /\ DOMAIN p.buf = Entries /\ ~p.flush
       /\ \A g \in Inputs : Shape(g, p.view[g], p.pos[g], p.buf[g])
  BY <1>1, <1>2, TopDomains
<1>15. /\ DOMAIN q.view = Entries /\ DOMAIN q.buf = Entries
       /\ \A g \in Entries : g # f =>
            q.view[g] = p.view[g] /\ q.pos[g] = p.pos[g] /\ q.buf[g] = p.buf[g]
       /\ q.view[f] = w /\ q.pos[f] = n /\ q.buf[f] = b
  BY <1>3, <1>5, <1>9, <1>12, <1>14
<1>16. ASSUME NEW g \in Inputs
       PROVE  Shape(g, q.view[g], q.pos[g], q.buf[g])
  <2>1. CASE g # f
    BY <1>14, <1>15, <2>1, InputsEntries
  <2>2. CASE g = f
    <3>1. Shape(f, p.view[f], p.pos[f], p.buf[f]) /\ p.pos[f] \in Nat
      BY <1>3, <1>5, <1>14, <2>2
    <3>2. Shape(f, w, n, b)
      BY <1>2, <1>6, <3>1, ConsumedShape
    <3> QED
      BY <1>15, <2>2, <3>2
  <2> QED
    BY <2>1, <2>2
<1>17. ASSUME Innocent
       PROVE  Runs(Inputs, Contents, q, saved, seen, rollback.flush)
  <2>1. Runs(Inputs, Contents, p, saved, seen, rollback.flush)
    BY <1>1, <1>17 DEF Views
  <2>2. rollback.flush = FALSE
    BY <1>2, <2>1, StackTyped DEF Runs
  <2>3. Renews(p.unsent, q.unsent, f, p.pos[f] + 1)
    BY <1>3, <1>4, <1>5, <1>6, <1>12, ReportedRenews
  <2>4. \A g \in Inputs : Contents[g] \in Stored
    BY ContentsStored, InputsEntries DEF TraceInv
  <2>5. seen \in [Entries -> Int]
    BY <1>2 DEF Typed
  <2>6. /\ p.out = <<>> /\ q.out = <<>> /\ p.pos \in [Entries -> Nat]
        /\ p.unsent \in Seq(SeenMessage) /\ p.buf[f] # <<>> /\ ~p.flush /\ p.fd /\ q.fd
    BY <1>2, <1>3, <1>4, <1>12, <1>14
  <2>7. PICK inputs, D : inputs = Inputs /\ D = Contents /\ inputs \subseteq Entries
    BY InputsEntries
  <2>8. \A g \in inputs : g # f =>
          q.view[g] = p.view[g] /\ q.pos[g] = p.pos[g] /\ q.buf[g] = p.buf[g]
    BY <1>15, <2>7
  <2>9. /\ q.view[f] = Observing(p.view[f], p.pos[f], Head(p.buf[f]))
        /\ q.pos[f] = p.pos[f] + 1 /\ q.buf[f] = Tail(p.buf[f])
    BY <1>6, <1>15
  <2>10. /\ \A g \in inputs : D[g] \in Stored
         /\ \A g \in inputs : Shape(g, p.view[g], p.pos[g], p.buf[g])
         /\ Runs(inputs, D, p, saved, seen, FALSE)
    BY <1>14, <2>1, <2>2, <2>4, <2>7
  <2>11. Consumes(inputs, p, q, f)
    BY <2>3, <2>6, <2>8, <2>9 DEF Consumes
  <2>12. Runs(inputs, D, q, saved, seen, FALSE)
    BY <2>5, <2>6, <2>7, <2>10, <2>11, ConsumedRuns
  <2> QED
    BY <2>2, <2>7, <2>12
<1> QED
  BY <1>1, <1>2, <1>8, <1>12, <1>13, <1>14, <1>15, <1>16, <1>17, TopViews

-----------------------------------------------------------------------------
(* Q_CHLD *)

(* What the snapshot keeps of what runs *)
LEMMA ParentEntry ==
  ASSUME NEW inputs, NEW D, NEW p, NEW q, NEW sv, NEW sn, Runs(inputs, D, p, sv, sn, FALSE),
         Pending(p) = {}, q.view = p.view, q.pos = p.pos, Pending(q) = {}, q.fd,
         q.buf = NoBuffers, inputs \subseteq Entries
  PROVE  /\ Runs(inputs, D, q, sv, sn, FALSE)
         /\ \A f \in inputs : Entry(f, D[f], q.view[f], sv[f].level, sn[f])
<1>1. ASSUME NEW f \in inputs
      PROVE  /\ Account(f, D[f], q.view[f], sv[f].level)
             /\ Known(q.view[f], sv[f].level, sn[f])
             /\ Told(q.view[f], sn[f])
             /\ Reporting(q, f, sn[f])
             /\ Ahead(f, D[f], q.view[f], q.pos[f], q.buf[f], sv[f].level)
  <2>1. /\ Account(f, D[f], p.view[f], sv[f].level)
        /\ Known(p.view[f], sv[f].level, sn[f])
        /\ Reporting(p, f, sn[f])
    BY DEF Runs
  <2>2. Told(p.view[f], sn[f])
    BY <2>1, ReportedTold
  <2>3. Told(q.view[f], sn[f])
    BY <2>2
  <2>4. Reporting(q, f, sn[f])
    BY <2>3, ToldReported
  <2>5. Len(q.buf[f]) = 0
    BY DEF NoBuffers
  <2> QED
    BY <2>1, <2>3, <2>4, <2>5 DEF Ahead, BytesOf
<1>2. Reports(inputs, q)
  BY DEF Reports
<1> QED
  BY <1>1, <1>2 DEF Runs, Entry

LEMMA ChildViews ==
  ASSUME PlainSession, Inv, Views, Child
  PROVE  Views'
<1>1. /\ Receive("CHLD")
      /\ UNCHANGED <<prog, disk, fs, edit, stash, changing, rollback, deferred, saved,
                     seen, trace>>
  BY Zenon DEF Child, vfs
<1>2. PICK p : p = procs[Top]
  OBVIOUS
<1>3. /\ ~changing /\ Top > 0 /\ p.fd /\ p.out # <<>> /\ Head(p.out).tag = "CHLD" /\ Typed
      /\ Top \in Nat /\ Len(trace) \in Nat /\ DOMAIN procs = 1..Top /\ Top = Len(procs)
  BY <1>1, <1>2, StackTyped DEF Receive, Stepping, Running, Alive, Message, PlainSession, Inv, Top
<1>4. /\ \A a \in 1..Top : a # Top => a \in 1..(Len(procs) - 1) /\ a \in 1..(Top - 1)
      /\ \A a, b \in 1..Top : a <= b => (a = Top => b = Top)
      /\ Top \in 1..Top /\ Top \in 1..Len(procs) /\ Len(procs) = Top
  <2>1. PICK n \in Nat : n = Top /\ n = Len(procs) /\ n > 0
    BY <1>3
  <2>2. /\ \A a \in 1..n : a # n => a \in 1..(n - 1)
        /\ \A a, b \in 1..n : a <= b => (a = n => b = n)
        /\ n \in 1..n
    BY <2>1
  <2> QED
    BY <2>1, <2>2
<1>5. Wellformed(prog, p) /\ DOMAIN p = Fields /\ p.asked /\ p.buf = NoBuffers
  BY <1>1, <1>2, <1>3, TopWellformed, ForkRead
<1>6. PICK parent : parent = [p EXCEPT !.out = <<>>, !.asked = FALSE, !.flush = FALSE,
                                       !.len = Len(trace), !.copy = saved]
  OBVIOUS
<1>7. /\ parent.fd /\ ~parent.asked /\ ~parent.flush /\ parent.out = <<>>
      /\ parent.view = p.view /\ parent.pos = p.pos /\ parent.unsent = <<>>
      /\ parent.buf = NoBuffers /\ parent.len = Len(trace) /\ parent.copy = saved
  BY <1>3, <1>5, <1>6 DEF Wellformed, Fields
<1>8. PICK ps : ps = [procs EXCEPT ![Top] = parent]
  OBVIOUS
<1>9. PICK below, m : below = Decimated(ps) /\ m = Len(below)
  OBVIOUS
<1>10. procs' = Append(below, parent)
  BY <1>2, <1>6, <1>8, <1>9, Zenon DEF Child
<1>11. PICK S : S = {procs[i] : i \in 1..Len(procs)} \cup {parent}
  OBVIOUS
<1>12. /\ ps \in Seq(S) /\ Len(ps) = Top
       /\ ps[Top] = parent /\ \A i \in 1..(Top - 1) : ps[i] = procs[i]
  <2>1. procs \in Seq(S) /\ Top \in 1..Len(procs) /\ parent \in S
    BY <1>3, <1>11, <1>4, SeqMonotonic DEF Typed
  <2>2. /\ ps \in Seq(S) /\ Len(ps) = Len(procs)
        /\ \A j \in 1..Len(procs) : ps[j] = IF j = Top THEN parent ELSE procs[j]
    BY <1>8, <2>1, ExceptSeq
  <2>3. \A i \in 1..(Top - 1) : i \in 1..Top /\ i # Top
    <3>1. PICK n \in Nat : n = Top
      BY <1>3
    <3>2. \A i \in 1..(n - 1) : i \in 1..n /\ i # n
      OBVIOUS
    <3> QED
      BY <3>1, <3>2
  <2> QED
    BY <1>4, <2>1, <2>2, <2>3
<1>13. /\ below \in Seq(S) /\ m \in Nat
       /\ \A i, j \in 1..m :
            i <= j => \E a, b \in 1..Top : a <= b /\ below[i] = ps[a] /\ below[j] = ps[b]
  <2>1. PICK k : k = Top
    OBVIOUS
  <2>2. ps \in Seq(S) /\ Len(ps) = k
    BY <1>12, <2>1
  <2>3. /\ Decimated(ps) \in Seq(S)
        /\ \A i, j \in 1..Len(Decimated(ps)) :
             i <= j => \E a, b \in 1..Len(ps) :
                         a <= b /\ Decimated(ps)[i] = ps[a] /\ Decimated(ps)[j] = ps[b]
    BY <2>2, DecimatedOrdered, Zenon
  <2>4. below \in Seq(S) /\ m \in Nat
    BY <1>9, <2>3
  <2> QED
    BY <1>9, <2>1, <2>2, <2>3, <2>4
<1>14. /\ Len(procs') = m + 1 /\ procs'[m + 1] = parent /\ \A i \in 1..m : procs'[i] = below[i]
  BY <1>9, <1>10, <1>11, <1>13, AppendProperties
<1>15. \A i \in 1..(m + 1) : \E a \in 1..Top : procs'[i] = ps[a]
  <2>1. TAKE i \in 1..(m + 1)
  <2>2. CASE i = m + 1
    BY <1>3, <1>12, <1>14, <2>2
  <2>3. CASE i # m + 1
    <3>1. i \in 1..m /\ i <= i
      BY <1>13, <2>1, <2>3
    <3> QED
      BY <1>13, <1>14, <3>1
  <2> QED
    BY <2>2, <2>3
<1>16. PICK inputs, D : inputs = Inputs /\ inputs = Inputs' /\ inputs \subseteq Entries
                        /\ D = Contents /\ D = Contents'
  BY <1>1, SameInputs, InputsEntries DEF Contents, InputData
<1>17. /\ DOMAIN p.view = Entries /\ DOMAIN NoBuffers = Entries
       /\ \A f \in inputs : Shape(f, p.view[f], p.pos[f], NoBuffers[f])
  BY <1>2, <1>3, <1>5, <1>16, TopDomains DEF NoBuffers
<1>18. Shapes(inputs, procs')
  <2>1. ASSUME NEW a \in 1..Top
        PROVE  /\ DOMAIN ps[a].view = Entries /\ DOMAIN ps[a].buf = Entries
               /\ ps[a].flush => ps[a].asked
               /\ \A f \in inputs : Shape(f, ps[a].view[f], ps[a].pos[f], ps[a].buf[f])
    <3>1. CASE a = Top
      BY <1>7, <1>12, <1>17, <3>1
    <3>2. CASE a # Top
      <4>1. ps[a] = procs[a] /\ a \in 1..Len(procs)
        BY <1>4, <1>12, <3>2
      <4>2. Shapes(inputs, procs)
        BY <1>16 DEF Views
      <4> QED
        BY <4>1, <4>2 DEF Shapes
    <3> QED
      BY <3>1, <3>2
  <2> QED
    BY <1>14, <1>15, <2>1 DEF Shapes
<1>19. Levels(inputs, procs', saved)
  <2>1. Levels(inputs, procs, saved)
    BY <1>16 DEF Views
  <2>2. \A a \in 1..Top : DOMAIN ps[a].copy = Entries
    <3>1. TAKE a \in 1..Top
    <3>2. CASE a = Top
      BY <1>7, <1>12, <2>1, <3>2 DEF Levels
    <3>3. CASE a # Top
      <4>1. a \in 1..(Len(procs) - 1) /\ ps[a] = procs[a]
        BY <1>4, <1>12, <3>1, <3>3
      <4> QED
        BY <2>1, <4>1 DEF Levels
    <3> QED
      BY <3>2, <3>3
  <2>3. ASSUME NEW f \in inputs, NEW a \in 1..Top, NEW b \in 1..Top, a <= b
        PROVE  /\ Plain(ps[a].copy[f])
               /\ ps[a].copy[f].level # "none" => saved[f].level # "none"
               /\ ps[a].copy[f].level # "none" => ps[b].copy[f].level # "none"
    <3>1. CASE a = Top
      <4>1. b = Top /\ ps[a].copy = saved
        BY <1>4, <1>7, <1>12, <2>3, <3>1
      <4> QED
        BY <2>1, <3>1, <4>1 DEF Levels
    <3>2. CASE a # Top
      <4>1. a \in 1..(Len(procs) - 1) /\ ps[a] = procs[a]
        BY <1>4, <1>12, <3>2
      <4>2. /\ Plain(ps[a].copy[f])
            /\ ps[a].copy[f].level # "none" => saved[f].level # "none"
        BY <2>1, <4>1 DEF Levels
      <4>3. CASE b = Top
        BY <1>7, <1>12, <4>2, <4>3
      <4>4. CASE b # Top
        <5>1. b \in a..(Len(procs) - 1) /\ ps[b] = procs[b]
          BY <1>3, <1>12, <2>3, <4>1, <4>4
        <5>2. procs[a].copy[f].level # "none" => procs[b].copy[f].level # "none"
          BY <2>1, <4>1, <5>1 DEF Levels
        <5> QED
          BY <4>1, <4>2, <5>1, <5>2
      <4> QED
        BY <4>3, <4>4
    <3> QED
      BY <3>1, <3>2
  <2>4. Len(procs') - 1 = m
    BY <1>13, <1>14
  <2>5. \A i \in 1..m : DOMAIN procs'[i].copy = Entries
    <3>1. TAKE i \in 1..m
    <3>2. i \in 1..(m + 1)
      BY <1>13, <3>1
    <3> QED
      BY <1>15, <2>2, <3>2
  <2>6. ASSUME NEW f \in inputs, NEW i \in 1..m, NEW j \in i..m
        PROVE  /\ Plain(procs'[i].copy[f])
               /\ procs'[i].copy[f].level # "none" => saved[f].level # "none"
               /\ procs'[i].copy[f].level # "none" => procs'[j].copy[f].level # "none"
    <3>1. j \in 1..m /\ i <= j
      BY <1>13, <2>6
    <3>2. PICK a \in 1..Top, b \in 1..Top : a <= b /\ below[i] = ps[a] /\ below[j] = ps[b]
      BY <1>13, <3>1
    <3> QED
      BY <1>14, <2>3, <3>1, <3>2
  <2>7. \A f \in inputs : \A i \in 1..m :
          /\ Plain(procs'[i].copy[f])
          /\ procs'[i].copy[f].level # "none" => saved[f].level # "none"
          /\ \A j \in i..m : procs'[i].copy[f].level # "none" => procs'[j].copy[f].level # "none"
    <3>1. TAKE f \in inputs
    <3>2. TAKE i \in 1..m
    <3>3. i \in i..m
      BY <1>13, <3>2
    <3> QED
      BY <2>6, <3>1, <3>2, <3>3
  <2> QED
    BY <2>1, <2>4, <2>5, <2>7 DEF Levels
<1>20. Pending(p) = {}
  <2>1. PICK c : c = Head(p.out)
    OBVIOUS
  <2>2. Tail(p.out) = <<>> /\ p.unsent = <<>>
    <3>1. c \notin SeenMessage
      BY <1>3, <2>1 DEF SeenMessage
    <3> QED
      BY <1>3, <1>5, <2>1, <3>1, MessageRead DEF Wellformed
  <2>3. p.out = <<c>>
    BY <1>3, <1>5, <2>1, <2>2, OneMessage
  <2> QED
    BY <1>3, <2>1, <2>2, <2>3, PendingOne
<1>21. /\ Runs(inputs, D, parent, saved, seen, FALSE)
       /\ \A f \in inputs : Entry(f, D[f], parent.view[f], saved[f].level, seen[f])
  <2>1. Runs(inputs, D, p, saved, seen, FALSE)
    BY <1>2, <1>3, <1>16, RunsNow
  <2>2. Pending(parent) = {}
    BY <1>7, PendingNone
  <2> QED
    BY <1>7, <1>16, <1>20, <2>1, <2>2, ParentEntry
<1>22. PICK n \in Nat : n = Len(trace) /\ n = Reference /\ n = Reference'
  BY <1>1, <1>3, RunsNow DEF Reference
<1>23. Chain(inputs, D, procs', seen, trace, n)
  <2>1. Chain(inputs, D, procs, seen, trace, n)
    BY <1>16, <1>22 DEF Views
  <2>2. ASSUME NEW a \in 1..Top, ps[a].len <= n, NEW f \in inputs
        PROVE  Entry(f, D[f], ps[a].view[f], ps[a].copy[f].level,
                     Reverted(seen, trace, ps[a].len, n)[f])
    <3>1. CASE a = Top
      <4>1. Reverted(seen, trace, n, n)[f] = seen[f]
        BY <1>16, RevertedHere
      <4>2. ps[a].len = n /\ ps[a].view = parent.view /\ ps[a].copy = saved
        BY <1>7, <1>12, <1>22, <3>1
      <4> QED
        BY <1>21, <4>1, <4>2
    <3>2. CASE a # Top
      <4>1. a \in 1..(Len(procs) - 1) /\ ps[a] = procs[a]
        BY <1>4, <1>12, <3>2
      <4> QED
        BY <2>1, <2>2, <4>1 DEF Chain, Snapshots
    <3> QED
      BY <3>1, <3>2
  <2>3. Len(procs') - 1 = m /\ \A i \in 1..m : i \in 1..(m + 1)
    BY <1>13, <1>14
  <2>4. Snapshots(inputs, D, procs', seen, trace, n)
    BY <1>15, <2>2, <2>3 DEF Snapshots
  <2> QED
    BY <2>1, <2>4 DEF Chain
<1>24. Top' = m + 1 /\ procs'[Top'] = parent
  BY <1>14 DEF Top
<1>25. rollback'.flush = FALSE
  <2>1. rollback = Closed
    BY <1>3 DEF Inv, RollbackInv
  <2> QED
    BY <1>1, <2>1 DEF Closed
<1>26. Sources' /\ Recording'
  BY <1>1, <1>3, <1>13, <1>24 DEF Views, Sources, Recording
<1> QED
  BY <1>1, <1>16, <1>18, <1>19, <1>21, <1>22, <1>23, <1>24, <1>25, <1>26 DEF Views

-----------------------------------------------------------------------------
(* prepare_process, the beginning of a transaction, a change on the disk *)

LEMMA PrepareViews ==
  ASSUME PlainSession, Inv, TraceInv, Views, Prepare
  PROVE  Views'
<1>1. /\ Top = 0 /\ ~changing /\ procs' = <<Launched>> /\ saved' = Restart /\ deferred' = Null
      /\ UNCHANGED <<prog, disk, fs, edit, stash, changing, rollback, seen, trace>>
  BY DEF Prepare, vfs, PlainSession
<1>2. PICK q : q = Launched
  OBVIOUS
<1>3. /\ q.fd /\ ~q.flush /\ ~q.asked /\ ~q.killed /\ q.view = NoBuffers /\ q.buf = NoBuffers
      /\ q.pos = [f \in Entries |-> 0] /\ q.unsent = <<>> /\ q.out = <<>>
  BY <1>2 DEF Launched
<1>4. Len(procs') = 1 /\ procs'[1] = q /\ Top' = 1 /\ Len(procs) = 0
  <2>1. PICK s : s = procs'
    OBVIOUS
  <2>2. s = <<q>> /\ Len(s) = 1 /\ s[1] = q
    BY <1>1, <1>2, <2>1
  <2> QED
    BY <1>1, <2>1, <2>2 DEF Top
<1>5. PICK inputs, D : inputs = Inputs /\ inputs = Inputs' /\ inputs \subseteq Entries
                       /\ D = Contents /\ D = Contents'
  BY <1>1, SameInputs, InputsEntries DEF Contents, InputData
<1>6. Reference = Len(trace) /\ Reference' = Reference /\ Reference \in Nat /\ trace = <<>>
  BY <1>1, ReferenceTyped DEF Views, Sources, Reference
<1>7. PICK n \in Nat : n = Reference /\ n = 0
  <2>1. PICK t : t = trace
    OBVIOUS
  <2>2. Len(t) = 0
    BY <1>6, <2>1
  <2> QED
    BY <1>6, <2>1, <2>2
<1>8. \A f \in inputs : seen[f] = -1
  <2>1. TAKE f \in inputs
  <2>2. f \in Entries
    BY <1>5
  <2>3. Reverted(seen, trace, 0, 0)[f] = -1
    BY <1>6, <1>7, <2>2 DEF TraceInv, Forgets
  <2> QED
    BY <2>2, <2>3, RevertedHere
<1>9. PICK e : e = <<>>
  OBVIOUS
<1>10. /\ DOMAIN q.view = Entries /\ DOMAIN q.buf = Entries
       /\ \A f \in inputs : q.view[f] = e /\ q.buf[f] = e /\ q.pos[f] = 0 /\ Restart[f].level = "none"
       /\ Len(e) = 0 /\ e \in Seq(Observation) /\ e \in Seq(Bytes)
  <2>1. Len(e) = 0 /\ e \in Seq(Observation) /\ e \in Seq(Bytes)
    BY <1>9
  <2>2. \A f \in Entries : NoBuffers[f] = e /\ Restart[f].level = "none"
    BY <1>9 DEF NoBuffers, Restart
  <2>3. DOMAIN NoBuffers = Entries
    BY DEF NoBuffers
  <2> QED
    BY <1>3, <1>5, <2>1, <2>2, <2>3
<1>11. ~Fresh(e)
  BY <1>10 DEF Fresh
<1>12. Shapes(inputs, procs')
  <2>1. ASSUME NEW f \in inputs
        PROVE  Shape(f, q.view[f], q.pos[f], q.buf[f])
    <3>1. e \in Seq(Observation) /\ e \in Seq(Bytes) /\ Len(e) = 0
      BY <1>10
    <3>2. Shape(f, e, 0, e)
      BY <1>11, <3>1 DEF Shape
    <3> QED
      BY <1>10, <3>2
  <2>2. \A i \in 1..Len(procs') : procs'[i] = q
    BY <1>4
  <2> QED
    BY <1>3, <1>10, <2>1, <2>2 DEF Shapes
<1>13. Levels(inputs, procs', saved')
  <2>1. Len(procs') - 1 = 0
    BY <1>4
  <2>2. DOMAIN saved' = Entries /\ \A f \in inputs : Plain(saved'[f])
    BY <1>1, <1>5 DEF Restart, Plain
  <2>3. 1..0 = {}
    OBVIOUS
  <2> QED
    BY <2>1, <2>2, <2>3 DEF Levels
<1>14. Chain(inputs, D, procs', seen, trace, n)
  <2>1. Chain(inputs, D, procs, seen, trace, n)
    BY <1>5, <1>7 DEF Views
  <2>2. Len(procs') - 1 = 0 /\ 1..0 = {}
    BY <1>4
  <2> QED
    BY <2>1, <2>2 DEF Chain, Snapshots
<1>15. Runs(inputs, D, q, saved', seen, rollback.flush)
  <2>1. Pending(q) = {}
    BY <1>3, PendingNone
  <2>2. rollback.flush = FALSE
    <3>1. rollback = Closed
      BY <1>1 DEF Inv, RollbackInv
    <3> QED
      BY <3>1 DEF Closed
  <2>3. ASSUME NEW f \in inputs
        PROVE  /\ Account(f, D[f], q.view[f], saved'[f].level)
               /\ Known(q.view[f], saved'[f].level, seen[f])
               /\ Reporting(q, f, seen[f])
               /\ Ahead(f, D[f], q.view[f], q.pos[f], q.buf[f], saved'[f].level)
    <3>1. D[f] \in Stored
      BY <1>5, ContentsStored DEF TraceInv
    <3>2. Shows(e, D[f])
      BY <1>10, <3>1, EmptyShows
    <3>3. Account(f, D[f], e, "none")
      BY <3>2 DEF Account
    <3>4. Known(e, "none", -1)
      BY <1>10 DEF Known
    <3>5. 1..Len(q.view[f]) = {}
      BY <1>10
    <3>6. Reporting(q, f, seen[f])
      BY <3>5 DEF Reporting
    <3>7. Ahead(f, D[f], q.view[f], q.pos[f], q.buf[f], saved'[f].level)
      BY <1>10 DEF Ahead, BytesOf
    <3> QED
      BY <1>1, <1>8, <1>10, <3>3, <3>4, <3>6, <3>7
  <2>4. Reports(inputs, q)
    BY <2>1 DEF Reports
  <2> QED
    BY <1>3, <2>2, <2>3, <2>4 DEF Runs
<1>16. Sources' /\ Recording'
  BY <1>1, <1>4 DEF Views, Sources, Recording
<1> QED
  BY <1>1, <1>4, <1>5, <1>6, <1>7, <1>12, <1>13, <1>14, <1>15, <1>16 DEF Views

LEMMA BeginChangesViews ==
  ASSUME Inv, Views, BeginChanges
  PROVE  Views'
<1>1. /\ ~changing /\ changing' = TRUE
      /\ rollback' = IF Top = 0 THEN Closed ELSE [Closed EXCEPT !.len = Len(trace)]
      /\ UNCHANGED <<prog, disk, fs, edit, stash, saved, seen, trace, procs, deferred>>
  BY DEF BeginChanges, vfs
<1>2. rollback = Closed
  BY <1>1 DEF Inv, RollbackInv
<1>3. rollback'.flush = FALSE /\ rollback'.len = IF Top = 0 THEN NotInTransaction ELSE Len(trace)
  BY <1>1 DEF Closed
<1>4. Reference = Len(trace) /\ Reference \in Nat
  BY <1>1, ReferenceTyped
<1>5. Reference' = Reference
  <2>1. CASE Top = 0
    BY <1>1, <1>3, <1>4, <2>1 DEF Reference
  <2>2. CASE Top # 0
    <3>1. rollback'.len = Len(trace)
      BY <1>3, <2>2
    <3>2. Reference' = IF rollback'.len = NotInTransaction THEN Len(trace) ELSE rollback'.len
      BY <1>1 DEF Reference
    <3> QED
      BY <1>4, <3>1, <3>2
  <2> QED
    BY <2>1, <2>2
<1>6. /\ Inputs' = Inputs /\ Contents' = Contents /\ Top' = Top
  BY <1>1, SameInputs DEF Contents, InputData, Top
<1>7. Recording'
  <2>1. ASSUME Top > 0
        PROVE  Len(trace) # NotInTransaction /\ Top # 0
    BY <1>4, <2>1, StackTyped DEF NotInTransaction, Inv
  <2> QED
    BY <1>1, <1>3, <1>6, <2>1 DEF Recording
<1>8. Sources'
  BY <1>1, <1>6 DEF Views, Sources
<1>9. Innocent' => Innocent
  BY <1>1, <1>5, <1>6 DEF Innocent
<1>10. rollback.flush = FALSE
  BY <1>2 DEF Closed
<1> QED
  BY <1>1, <1>3, <1>5, <1>6, <1>7, <1>8, <1>9, <1>10 DEF Views

LEMMA ScanSameViews ==
  ASSUME Views, NEW f, ScanSame(f)
  PROVE  Views'
<1>1. UNCHANGED <<prog, disk, fs, edit, stash, saved, seen, trace, procs, changing, rollback, deferred>>
  BY DEF ScanSame
<1>2. Inputs' = Inputs /\ Contents' = Contents /\ Top' = Top /\ Reference' = Reference
  BY <1>1, SameInputs DEF Contents, InputData, Top, Reference
<1>3. Innocent' = Innocent /\ Recording'
  BY <1>1, <1>2 DEF Innocent, Recording, Views
<1>4. Sources'
  BY <1>1, <1>2 DEF Views, Sources
<1> QED
  BY <1>1, <1>2, <1>3, <1>4 DEF Views

LEMMA DiskChangeViews ==
  ASSUME Views, NEW f \in DiskFiles, NEW data, DiskChange(f, data)
  PROVE  Views'
<1>1. /\ disk' = [disk EXCEPT ![f] = data]
      /\ UNCHANGED <<prog, fs, edit, stash, saved, seen, trace, procs, changing, rollback, deferred>>
  BY DEF DiskChange
<1>2. Inputs' = Inputs /\ Contents' = Contents /\ Top' = Top /\ Reference' = Reference
  BY <1>1, SameInputs DEF Contents, InputData, Top, Reference
<1>3. Innocent' = Innocent /\ Recording'
  BY <1>1, <1>2 DEF Innocent, Recording, Views
<1>4. \A g \in Entries \ DiskFiles : disk'[g] = disk[g]
  BY <1>1
<1>5. Sources'
  BY <1>1, <1>2, <1>4 DEF Views, Sources
<1> QED
  BY <1>1, <1>2, <1>3, <1>5 DEF Views

-----------------------------------------------------------------------------
(* Changes of the files *)

(* What find_diff returns: the contents are the same up to there. *)
LEMMA FirstDiffAgrees ==
  ASSUME NEW s \in Seq(Bytes), NEW t \in Seq(Bytes), NEW n \in 0..FirstDiff(s, t)
  PROVE  Agree(s, t, n) /\ Agree(t, s, n) /\ n \in Nat
<1>1. PICK ks : ks = {k \in 0..Len(s) : k <= Len(t) /\ SubSeq(s, 1, k) = SubSeq(t, 1, k)}
  OBVIOUS
<1>2. ks \subseteq 0..Len(s)
  BY <1>1, Zenon
<1>3. 0 \in ks
  <2>1. SubSeq(s, 1, 0) = <<>> /\ SubSeq(t, 1, 0) = <<>>
    OBVIOUS
  <2>2. 0 \in 0..Len(s) /\ 0 <= Len(t)
    OBVIOUS
  <2> QED
    BY <1>1, <2>1, <2>2
<1>4. ks \subseteq Int /\ ks # {} /\ Len(s) \in Int /\ \A x \in ks : x <= Len(s)
  BY <1>2, <1>3
<1>5. Max(ks) \in ks
  BY <1>4, MaxIn
<1>6. PICK k \in 0..Len(s) : k = FirstDiff(s, t) /\ k \in ks
  BY <1>1, <1>2, <1>5 DEF FirstDiff
<1>7. k \in Nat /\ k <= Len(s) /\ k <= Len(t) /\ SubSeq(s, 1, k) = SubSeq(t, 1, k)
  BY <1>1, <1>6
<1>8. \A j \in 1..k : s[j] = t[j]
  <2>1. TAKE j \in 1..k
  <2>2. SubSeq(s, 1, k)[j] = s[j]
    BY <1>7, CutSequence
  <2>3. SubSeq(t, 1, k)[j] = t[j]
    BY <1>7, CutSequence
  <2> QED
    BY <1>7, <2>2, <2>3
<1>9. n \in Nat /\ n <= k
  BY <1>6, <1>7
<1>10. \A j \in 1..n : s[j] = t[j]
  BY <1>7, <1>8, <1>9
<1>11. s # Null /\ t # Null /\ n <= Len(s) /\ n <= Len(t)
  BY <1>7, <1>9, NullIsNoData
<1> QED
  BY <1>9, <1>10, <1>11 DEF Agree

(* A change beyond what the driver knows does not concern what runs, as long *)
(* as it knows everything.                                                   *)
LEMMA RunsDiverges ==
  ASSUME NEW inputs, inputs \subseteq Entries, NEW D, NEW D2, NEW p, NEW sv,
         NEW sn \in [Entries -> Int], NEW flushed \in BOOLEAN, NEW f \in Entries, NEW offset \in Nat,
         D[f] \in Stored, D2[f] \in Stored, Agree(D[f], D2[f], offset),
         \A g \in Entries : g # f => D2[g] = D[g], sn[f] < offset,
         \A g \in inputs : Shape(g, p.view[g], p.pos[g], p.buf[g]),
         Runs(inputs, D, p, sv, sn, flushed), ~p.fd \/ flushed \/ sn[f] < 0
  PROVE  Runs(inputs, D2, p, sv, sn, flushed)
<1>1. ASSUME NEW g \in inputs
      PROVE  /\ Account(g, D2[g], p.view[g], sv[g].level)
             /\ \/ ~p.fd \/ flushed \/ p.flush
                \/ Ahead(g, D2[g], p.view[g], p.pos[g], p.buf[g], sv[g].level)
  <2>1. /\ Account(g, D[g], p.view[g], sv[g].level)
        /\ Known(p.view[g], sv[g].level, sn[g])
        /\ Reporting(p, g, sn[g])
        /\ \/ ~p.fd \/ flushed \/ p.flush
           \/ Ahead(g, D[g], p.view[g], p.pos[g], p.buf[g], sv[g].level)
    BY DEF Runs
  <2>2. CASE g # f
    <3>1. D2[g] = D[g]
      BY <2>2
    <3> QED
      BY <2>1, <3>1
  <2>3. CASE g = f
    <3>1. PICK v, lv, s : v = p.view[f] /\ lv = sv[f].level /\ s = sn[f]
      OBVIOUS
    <3>2. s \in Int /\ s < offset /\ v \in Seq(Observation) /\ Known(v, lv, s)
          /\ Account(f, D[f], v, lv)
      BY <2>1, <2>3, <3>1 DEF Shape
    <3>3. CASE ~p.fd \/ flushed
      <4>1. Pending(p) = {}
        BY <3>3 DEF Runs
      <4>2. Told(v, s)
        BY <2>1, <2>3, <3>1, <4>1, ReportedTold
      <4>3. Account(f, D2[f], v, lv)
        BY <3>2, <4>2, Diverges
      <4> QED
        BY <2>3, <3>1, <3>3, <4>3
    <3>4. CASE s < 0
      <4>1. Len(v) = 0
        BY <3>2, <3>4 DEF Known
      <4>2. 1..Len(v) = {}
        BY <4>1
      <4>3. Told(v, s)
        BY <4>2 DEF Told
      <4>4. Account(f, D2[f], v, lv)
        BY <3>2, <4>3, Diverges
      <4>5. Len(p.buf[f]) = 0
        BY <2>3, <3>1, <4>1 DEF Shape
      <4>6. Ahead(f, D2[f], v, p.pos[f], p.buf[f], lv)
        BY <4>5 DEF Ahead, BytesOf
      <4> QED
        BY <2>3, <3>1, <4>4, <4>6
    <3> QED
      BY <3>1, <3>3, <3>4
  <2> QED
    BY <2>2, <2>3
<1> QED
  BY <1>1 DEF Runs

(* What a change leaves as it is in a worker *)
SameWorkerView(p, q) ==
  q.view = p.view /\ q.pos = p.pos /\ q.buf = p.buf /\ q.flush = p.flush /\ q.asked = p.asked

(* One change of a file: the trace was reverted if it went that far. *)
LEMMA ChangeViews ==
  ASSUME Inv, Inv', TraceInv, TraceInv', Views, changing,
         UNCHANGED <<prog, disk, saved, changing, stash, deferred>>,
         \A g \in Entries \ DiskFiles : fs'[g] \in {Null, Disk[g]},
         NEW f \in Entries, NEW offset \in Nat,
         \A g \in Entries : g # f => Contents'[g] = Contents[g],
         Agree(Contents[f], Contents'[f], offset), Top = 0 \/ seen'[f] < offset,
         Top' = Top, Top = 0 => trace' = trace, \A i \in 1..(Top - 1) : procs'[i] = procs[i],
         Top > 0 => SameWorkerView(procs[Top], procs'[Top]),
         Chain(Inputs, Contents, procs, seen', trace', Reference'), Recording',
         Innocent' => Runs(Inputs, Contents', procs'[Top], saved, seen', rollback'.flush)
  PROVE  Views'
<1>1. PICK inputs : inputs = Inputs /\ inputs = Inputs' /\ inputs \subseteq Entries
  BY SameInputs, InputsEntries
<1>2. PICK D, D2 : D = Contents /\ D2 = Contents'
  OBVIOUS
<1>3. PICK N \in Nat : N = Top /\ N = Len(procs) /\ N = Len(procs')
  BY StackTyped DEF Inv, Top
<1>4. Shapes(inputs, procs')
  <2>1. ASSUME NEW i \in 1..N
        PROVE  /\ DOMAIN procs'[i].view = Entries /\ DOMAIN procs'[i].buf = Entries
               /\ procs'[i].flush => procs'[i].asked
               /\ \A g \in inputs : Shape(g, procs'[i].view[g], procs'[i].pos[g], procs'[i].buf[g])
    <3>1. /\ DOMAIN procs[i].view = Entries /\ DOMAIN procs[i].buf = Entries
          /\ procs[i].flush => procs[i].asked
          /\ \A g \in inputs : Shape(g, procs[i].view[g], procs[i].pos[g], procs[i].buf[g])
      BY <1>1, <1>3 DEF Views, Shapes
    <3>2. CASE i = N
      <4>1. SameWorkerView(procs[i], procs'[i])
        BY <1>3, <3>2
      <4> QED
        BY <3>1, <4>1 DEF SameWorkerView
    <3>3. CASE i # N
      <4>1. i \in 1..(N - 1)
        BY <3>3
      <4> QED
        BY <1>3, <3>1, <4>1
    <3> QED
      BY <3>2, <3>3
  <2> QED
    BY <1>3, <2>1 DEF Shapes
<1>5. Sources'
  BY DEF Views, Sources
<1>6. Levels(inputs, procs', saved')
  <2>1. Levels(inputs, procs, saved)
    BY <1>1 DEF Views
  <2>2. \A i \in 1..(N - 1) : procs'[i] = procs[i]
    BY <1>3
  <2> QED
    BY <1>3, <2>1, <2>2, SMTT(30) DEF Levels
<1>7. PICK sn, tr, n : sn = seen' /\ tr = trace' /\ n = Reference'
  OBVIOUS
<1>8. sn \in [Entries -> Int] /\ tr \in Seq(TraceEntry) /\ n \in Nat /\ n <= Len(tr)
  <2>1. sn \in [Entries -> Int] /\ tr \in Seq(TraceEntry) /\ Len(tr) \in Nat
    BY <1>7 DEF Inv, Typed
  <2>2. rollback'.len \in Nat \cup {NotInTransaction} /\ rollback'.len <= Len(tr)
    BY <1>7 DEF Inv, Typed, RollbackInv
  <2>3. n = IF rollback'.len = NotInTransaction THEN Len(tr) ELSE rollback'.len
    BY <1>7 DEF Reference
  <2> QED
    BY <2>1, <2>2, <2>3
<1>9. D[f] \in Stored /\ D2[f] \in Stored
  <2>1. D[f] \in Stored
    BY <1>2, ContentsStored DEF TraceInv
  <2>2. FilesInv'
    BY DEF TraceInv
  <2>3. Contents'[f] \in Stored
    BY <2>2 DEF Contents, InputData, FilesInv, Files, Stored
  <2> QED
    BY <1>2, <2>1, <2>3
<1>10. Chain(inputs, D2, procs, sn, tr, n) /\ Lengths(procs)
  <2>1. Lengths(procs)
    BY LengthsOfProcs
  <2>2. Chain(inputs, D, procs, sn, tr, n) /\ Shapes(inputs, procs)
    BY <1>1, <1>2, <1>7 DEF Views
  <2>3. CASE N = 0
    <3>1. 1..(Len(procs) - 1) = {}
      BY <1>3, <2>3
    <3> QED
      BY <2>1, <2>2, <3>1 DEF Chain, Snapshots
  <2>4. CASE N # 0
    <3>1. sn[f] < offset
      BY <1>3, <1>7, <2>4
    <3>2. Agree(D[f], D2[f], offset) /\ \A g \in Entries : g # f => D2[g] = D[g]
      BY <1>2
    <3> QED
      BY <1>1, <1>8, <1>9, <2>1, <2>2, <3>1, <3>2, ChainDiverges
  <2> QED
    BY <2>3, <2>4
<1>11. Chain(inputs, D2, procs', sn, tr, n)
  <2>1. Len(procs') \in Nat /\ Len(procs') <= Len(procs)
        /\ \A i \in 1..(Len(procs') - 1) : procs'[i] = procs[i]
    BY <1>3
  <2> QED
    BY <1>1, <1>8, <1>10, <2>1, ChainPart
<1> QED
  BY <1>1, <1>2, <1>4, <1>5, <1>6, <1>7, <1>11 DEF Views

(* What rollback_add_change does, with what the files held before the change *)
Settles(f, offset) ==
  /\ Top' = Top /\ (Top = 0 => trace' = trace)
  /\ \A i \in 1..(Top - 1) : procs'[i] = procs[i]
  /\ Top > 0 => SameWorkerView(procs[Top], procs'[Top])
  /\ Top = 0 \/ seen'[f] < offset
  /\ Chain(Inputs, Contents, procs, seen', trace', Reference')
  /\ Recording'
  /\ Innocent' => /\ Runs(Inputs, Contents, procs'[Top], saved, seen', rollback'.flush)
                  /\ ~procs'[Top].fd \/ rollback'.flush \/ seen'[f] < 0

LEMMA RewindSettles ==
  ASSUME NEW inputs, inputs \subseteq Entries, NEW D, Inv, NEW f, NEW offset, NEW sn, NEW tr,
         NEW len \in Nat, NEW flush, Rewind(f, offset, sn, tr, len, flush), aborted' # "trace",
         Chain(inputs, D, procs, sn, tr, len)
  PROVE  /\ rollback'.len \in Nat /\ rollback'.len < len /\ seen'[f] < offset
         /\ Chain(inputs, D, procs, seen', tr, rollback'.len)
<1>1. PICK points : points = {k \in 0..(len - 1) : Reverted(sn, tr, k, len)[f] < offset}
  OBVIOUS
<1>2. /\ points # {} /\ seen' = Reverted(sn, tr, Max(points), len)
      /\ rollback' = [len |-> Max(points), offset |-> offset, flush |-> flush]
  BY <1>1, Zenon DEF Rewind
<1>3. points \subseteq 0..(len - 1)
  BY <1>1, Zenon
<1>4. Max(points) \in points
  <2>1. points \subseteq Int /\ len \in Int /\ \A x \in points : x <= len
    BY <1>3
  <2> QED
    BY <1>2, <2>1, MaxIn
<1>5. PICK m \in Nat : m = Max(points) /\ m < len /\ Reverted(sn, tr, m, len)[f] < offset
  <2>1. PICK m : m = Max(points)
    OBVIOUS
  <2>2. m \in points /\ m \in 0..(len - 1)
    BY <1>3, <1>4, <2>1
  <2>3. Reverted(sn, tr, m, len)[f] < offset
    BY <1>1, <2>2
  <2> QED
    BY <2>1, <2>2, <2>3
<1>6. Lengths(procs)
  BY LengthsOfProcs
<1>7. Chain(inputs, D, procs, Reverted(sn, tr, m, len), tr, m)
  BY <1>5, <1>6, ChainRewound
<1> QED
  BY <1>2, <1>5, <1>7

(* A query is not a report. *)
LEMMA AskedNotSeen ==
  ASSUME Typed, NEW p, Wellformed(prog, p), NEW m, Asks(prog, p, m)
  PROVE  m.tag # "SEEN"
<1>1. p.pc \in 1..(Len(prog) + 1) /\ Len(prog) \in Nat
  BY ProgTyped DEF Wellformed
<1>2. CASE p.pc > Len(prog)
  BY <1>2 DEF Asks
<1>3. CASE ~(p.pc > Len(prog))
  <2>1. p.pc \in 1..Len(prog)
    BY <1>1, <1>3
  <2>2. m.tag = TagOf[prog[p.pc].op]
    BY <1>3 DEF Asks
  <2> QED
    BY <2>1, <2>2, ProgTyped, TagsAnswerable
<1> QED
  BY <1>2, <1>3

(* When one report at most was left to read, there is none left. *)
LEMMA LastReport ==
  ASSUME Typed, NEW p, Wellformed(prog, p), p.out # <<>>, Head(p.out).tag = "SEEN",
         Len(p.out) <= 2, NEW q, q.out = Tail(p.out), q.unsent = p.unsent
  PROVE  Pending(q) = {}
<1>1. PICK s, t : s = p.out /\ t = Tail(p.out)
  OBVIOUS
<1>2. p.asked /\ \E u \in Seq(SeenMessage) : \E w : t = u \o <<w>> /\ Asks(prog, p, w)
  BY <1>1, SeenRead
<1>3. PICK u \in Seq(SeenMessage) : \E w : t = u \o <<w>> /\ Asks(prog, p, w)
  BY <1>2
<1>4. PICK w : t = u \o <<w>> /\ Asks(prog, p, w)
  BY <1>3
<1>5. Len(t) <= 1
  <2>1. PICK S : s \in Seq(S)
    BY <1>1, OutSequence
  <2>2. Len(Tail(s)) = Len(s) - 1 /\ Len(s) \in Nat /\ Len(s) <= 2
    BY <1>1, <2>1
  <2> QED
    BY <1>1, <2>2
<1>6. u = <<>> /\ t = <<w>>
  <2>1. Len(t) = Len(u) + 1 /\ Len(u) \in Nat
    BY <1>4, Parts
  <2>2. Len(u) = 0
    BY <1>5, <2>1
  <2>3. u = <<>>
    BY <2>2
  <2> QED
    BY <1>4, <2>3, Parts
<1>7. w.tag # "SEEN"
  BY <1>4, AskedNotSeen
<1>8. p.unsent = <<>>
  BY <1>2 DEF Wellformed
<1> QED
  BY <1>1, <1>6, <1>7, <1>8, PendingOne

(* Once it has none left, the worker cannot be concerned by a change beyond *)
(* what the driver knows.                                                   *)
LEMMA RunsFlushed ==
  ASSUME NEW inputs, NEW D, NEW p, NEW sv, NEW sn, Runs(inputs, D, p, sv, sn, FALSE),
         p.asked, Pending(p) = {}
  PROVE  Runs(inputs, D, p, sv, sn, TRUE)
BY DEF Runs

LEMMA SynchronizeSettles ==
  ASSUME Inv, Views, OnePending, changing, aborted = "no", rollback.len = Len(trace),
         ~rollback.flush, Alive(Top), NEW f \in Entries, NEW offset \in Nat, seen[f] < offset,
         Synchronize(f, offset), changing' = changing, aborted' = "no"
  PROVE  Settles(f, offset)
<1>1. PICK p : p = procs[Top]
  OBVIOUS
<1>2. PICK n \in Nat : n = Len(trace)
  BY StackTyped DEF Inv
<1>3. /\ Typed /\ Top > 0 /\ Top \in Nat /\ Transaction(rollback) /\ p.fd /\ ~p.killed
      /\ seen \in [Entries -> Int] /\ rollback.len = n /\ rollback.len # NotInTransaction
      /\ Reference = n
  <2>1. Typed /\ Transaction(rollback) /\ Top \in Nat /\ rollback.len = n
        /\ rollback.len # NotInTransaction
    BY <1>2, TransactionTyped, StackTyped DEF Inv, NotInTransaction
  <2>2. Top > 0 /\ ~p.killed /\ p.fd
    BY <1>1, <2>1 DEF Inv, RollbackInv, Alive
  <2> QED
    BY <2>1, <2>2 DEF Typed, Reference
<1>4. Wellformed(prog, p) /\ DOMAIN p = Fields
  BY <1>1, <1>3, TopWellformed
<1>5. PICK inputs, D : inputs = Inputs /\ inputs \subseteq Entries /\ D = Contents
  BY InputsEntries
<1>6. /\ Chain(inputs, D, procs, seen, trace, n) /\ Runs(inputs, D, p, saved, seen, FALSE)
  <2>1. Innocent
    BY <1>1, <1>2, <1>3 DEF Innocent
  <2>2. rollback.flush = FALSE
    BY <1>3 DEF Transaction
  <2> QED
    BY <1>1, <1>3, <1>5, <2>1, <2>2 DEF Views
<1>7. /\ p.pos \in [Entries -> Nat] /\ \A g \in inputs : Shape(g, p.view[g], p.pos[g], p.buf[g])
  BY <1>1, <1>3, <1>5, PosTyped, TopDomains
<1>8. ASSUME rollback' = [rollback EXCEPT !.flush = TRUE]
      PROVE  rollback'.len = n /\ rollback'.flush = TRUE
  BY <1>3, <1>8 DEF Transaction
<1>9. ASSUME NEW q, procs'[Top] = q, SameBelow, SameWorkerView(p, q), NEW sn, sn = seen',
             NEW c \in Nat, rollback'.len = c, Chain(inputs, D, procs, sn, trace', c),
             sn[f] < offset,
             \/ q.killed \/ c # Len(trace')
             \/ rollback'.flush = TRUE /\ Runs(inputs, D, q, saved, sn, TRUE)
      PROVE  Settles(f, offset)
  <2>1. Reference' = c /\ rollback'.len # NotInTransaction
    BY <1>9 DEF Reference, NotInTransaction
  <2>2. Top' = Top /\ \A i \in 1..(Top - 1) : procs'[i] = procs[i]
    BY <1>9 DEF SameBelow
  <2>3. Recording'
    BY <2>1 DEF Recording
  <2>4. Innocent' => rollback'.flush = TRUE /\ Runs(inputs, D, q, saved, sn, TRUE)
    BY <1>9, <2>1, <2>2 DEF Innocent
  <2>5. Chain(Inputs, Contents, procs, seen', trace', Reference')
    BY <1>5, <1>9, <2>1
  <2>6. SameWorkerView(procs[Top], procs'[Top])
    BY <1>1, <1>9, <2>2
  <2>7. seen'[f] < offset
    BY <1>9
  <2>8. Innocent' => /\ Runs(Inputs, Contents, procs'[Top], saved, seen', rollback'.flush)
                     /\ ~procs'[Top].fd \/ rollback'.flush \/ seen'[f] < 0
    BY <1>5, <1>9, <2>4
  <2>9. Top # 0
    BY <1>3
  <2> QED
    BY <2>2, <2>3, <2>5, <2>6, <2>7, <2>8, <2>9 DEF Settles
<1>10. CASE p.out = <<>>
  <2>1. PICK q : q = [p EXCEPT !.fd = FALSE, !.killed = TRUE]
    OBVIOUS
  <2>2. SetTop(q) /\ rollback' = [rollback EXCEPT !.flush = TRUE] /\ seen' = seen /\ trace' = trace
    BY <1>1, <1>10, <2>1, Zenon DEF Synchronize
  <2>3. SameBelow /\ procs'[Top] = q
    BY <1>3, <2>2, TopSet
  <2>4. q.killed /\ SameWorkerView(p, q)
    BY <1>4, <2>1 DEF Fields, SameWorkerView
  <2> QED
    BY <1>6, <1>8, <1>9, <2>2, <2>3, <2>4
<1>11. CASE p.out # <<>> /\ Head(p.out).tag = "EXIT"
  <2>1. aborted' = "closed"
    BY <1>1, <1>11, Zenon DEF Synchronize
  <2> QED
    BY <2>1
<1>12. CASE p.out # <<>> /\ Head(p.out).tag \notin {"SEEN", "EXIT"}
  <2>1. rollback' = [rollback EXCEPT !.flush = TRUE] /\ UNCHANGED <<seen, trace, procs>>
    BY <1>1, <1>12 DEF Synchronize
  <2>2. SameBelow
    BY <1>3, <2>1, StackTyped DEF SameBelow, Top, Typed
  <2>3. p.asked /\ Pending(p) = {}
    <3>1. PICK c : c = Head(p.out)
      OBVIOUS
    <3>2. c \notin SeenMessage
      BY <1>12, <3>1 DEF SeenMessage
    <3>3. p.asked /\ Tail(p.out) = <<>> /\ p.unsent = <<>>
      BY <1>4, <1>12, <3>1, <3>2, MessageRead DEF Wellformed
    <3>4. p.out = <<c>>
      BY <1>4, <1>12, <3>1, <3>3, OneMessage
    <3> QED
      BY <1>12, <3>1, <3>3, <3>4, PendingOne
  <2>4. Runs(inputs, D, p, saved, seen, TRUE)
    BY <1>6, <2>3, RunsFlushed
  <2>5. SameWorkerView(p, p) /\ procs'[Top] = p
    BY <1>1, <2>1 DEF SameWorkerView
  <2> QED
    BY <1>6, <1>8, <1>9, <2>1, <2>2, <2>4, <2>5
<1>13. CASE p.out # <<>> /\ Head(p.out).tag = "SEEN"
  <2>1. PICK m : m = Head(p.out)
    OBVIOUS
  <2>2. m \in SeenMessage /\ m.file \in Entries /\ m.arg \in Nat /\ p.asked
    BY <1>3, <1>4, <1>13, <2>1, SeenRead DEF SeenMessage
  <2>3. PICK sn : sn = [seen EXCEPT ![m.file] = m.arg]
    OBVIOUS
  <2>4. PICK tr : tr = Recorded(trace, seen, m.file)
    OBVIOUS
  <2>5. PICK q : q = [p EXCEPT !.out = Tail(@)]
    OBVIOUS
  <2>6. /\ SetTop(q)
        /\ \/ aborted' = "fence"
           \/ /\ m.arg <= seen[m.file]
              /\ rollback' = [rollback EXCEPT !.flush = TRUE] /\ UNCHANGED <<seen, trace>>
           \/ /\ ~(m.arg <= seen[m.file]) /\ trace' = tr
              /\ sn[f] >= offset /\ Rewind(f, offset, sn, tr, Len(tr), TRUE)
           \/ /\ ~(m.arg <= seen[m.file]) /\ trace' = tr
              /\ ~(sn[f] >= offset) /\ seen' = sn
              /\ rollback' = [rollback EXCEPT !.len = Len(tr), !.flush = TRUE]
    BY <1>1, <1>13, <2>1, <2>3, <2>4, <2>5, Zenon DEF Synchronize
  <2>7. SameBelow /\ procs'[Top] = q
    BY <1>3, <2>6, TopSet
  <2>8. q.out = Tail(p.out) /\ SameWorker(p, q) /\ SameWorkerView(p, q) /\ q.asked
    BY <1>4, <2>2, <2>5 DEF Fields, SameWorker, SameWorkerView
  <2>9. Pending(q) = {}
    <3>1. Len(p.out) <= 2
      BY <1>1, <1>3 DEF OnePending
    <3> QED
      BY <1>3, <1>4, <1>13, <2>8, <3>1, LastReport DEF SameWorker
  <2>10. PICK S : p.out \in Seq(S)
    BY <1>4, OutSequence
  <2>11. ASSUME NEW sn2, \/ m.arg > seen[m.file] /\ sn2 = [seen EXCEPT ![m.file] = m.arg]
                         \/ m.arg <= seen[m.file] /\ sn2 = seen
         PROVE  Runs(inputs, D, q, saved, sn2, TRUE)
    <3>1. Runs(inputs, D, q, saved, sn2, FALSE)
      BY <1>3, <1>5, <1>6, <1>7, <1>13, <2>1, <2>2, <2>8, <2>10, <2>11, ReportRead
    <3> QED
      BY <2>8, <2>9, <3>1, RunsFlushed
  <2>12. seen[m.file] \in Int /\ sn \in [Entries -> Int] /\ seen[f] \in Int
    BY <1>3, <2>2, <2>3
  <2>13. CASE /\ m.arg <= seen[m.file]
              /\ rollback' = [rollback EXCEPT !.flush = TRUE] /\ UNCHANGED <<seen, trace>>
    <3>1. Runs(inputs, D, q, saved, seen, TRUE)
      BY <2>11, <2>13
    <3> QED
      BY <1>6, <1>8, <1>9, <2>7, <2>8, <2>13, <3>1
  <2>14. ASSUME ~(m.arg <= seen[m.file])
         PROVE  /\ Chain(inputs, D, procs, sn, tr, Len(tr)) /\ tr \in Seq(TraceEntry)
                /\ Runs(inputs, D, q, saved, sn, TRUE)
    <3>1. m.arg > seen[m.file] /\ seen[m.file] <= m.arg /\ m.arg \in Int
      BY <2>2, <2>12, <2>14
    <3>2. Chain(inputs, D, procs, [seen EXCEPT ![m.file] = m.arg], Recorded(trace, seen, m.file),
                Len(Recorded(trace, seen, m.file)))
      BY <1>2, <1>5, <1>6, <2>2, <3>1, ChainRecorded
    <3>3. tr \in Seq(TraceEntry)
      BY <1>3, <2>2, <2>4, RecordedTyped
    <3> QED
      BY <2>3, <2>4, <2>11, <3>1, <3>2, <3>3
  <2>15. CASE /\ ~(m.arg <= seen[m.file]) /\ trace' = tr
              /\ sn[f] >= offset /\ Rewind(f, offset, sn, tr, Len(tr), TRUE)
    <3>1. PICK l \in Nat : l = Len(tr)
      BY <2>14, <2>15
    <3>2. /\ rollback'.len \in Nat /\ rollback'.len < l /\ seen'[f] < offset
          /\ Chain(inputs, D, procs, seen', tr, rollback'.len)
      BY <1>5, <2>14, <2>15, <3>1, RewindSettles
    <3>3. PICK c \in Nat : c = rollback'.len /\ c # Len(trace')
      BY <2>15, <3>1, <3>2
    <3> QED
      BY <1>9, <2>7, <2>8, <2>15, <3>2, <3>3
  <2>16. CASE /\ ~(m.arg <= seen[m.file]) /\ trace' = tr
              /\ ~(sn[f] >= offset) /\ seen' = sn
              /\ rollback' = [rollback EXCEPT !.len = Len(tr), !.flush = TRUE]
    <3>1. PICK l \in Nat : l = Len(tr)
      BY <2>14, <2>16
    <3>2. rollback' = [rollback EXCEPT !.len = l, !.flush = TRUE]
      BY <2>16, <3>1
    <3>3. rollback'.len = l /\ rollback'.flush = TRUE
      BY <1>3, <3>2 DEF Transaction
    <3>4. sn[f] < offset
      BY <2>12, <2>16
    <3> QED
      BY <1>9, <2>7, <2>8, <2>14, <2>16, <3>1, <3>3, <3>4
  <2> QED
    BY <2>6, <2>13, <2>15, <2>16
<1> QED
  BY <1>10, <1>11, <1>12, <1>13

(* rollback_add_change *)
LEMMA AddChangeSettles ==
  ASSUME Inv, TraceInv, Views, OnePending, changing, aborted = "no",
         NEW f \in Entries, NEW offset \in Nat, AddChange(f, offset),
         changing' = changing, saved' = saved, aborted' = "no"
  PROVE  Settles(f, offset)
<1>1. /\ Typed /\ Top \in Nat /\ Transaction(rollback) /\ seen \in [Entries -> Int]
      /\ seen[f] \in Int /\ offset \in Int /\ rollback.len <= Len(trace) /\ Len(trace) \in Nat
  BY TransactionTyped, StackTyped DEF Inv, Typed, RollbackInv
<1>2. Chain(Inputs, Contents, procs, seen, trace, Reference) /\ Recording
  BY DEF Views
<1>3. ASSUME procs' = procs
      PROVE  /\ Top' = Top /\ \A i \in 1..(Top - 1) : procs'[i] = procs[i]
             /\ Top > 0 => SameWorkerView(procs[Top], procs'[Top])
             /\ procs'[Top] = procs[Top]
  BY <1>3 DEF Top, SameWorkerView
<1>4. CASE rollback.len = NotInTransaction
  <2>1. Top = 0
    BY <1>1, <1>2, <1>4 DEF Recording
  <2>2. UNCHANGED <<seen, trace, procs, rollback, aborted>>
    BY <1>4 DEF AddChange
  <2>3. Top' = 0 /\ ~Innocent'
    BY <1>3, <2>1, <2>2 DEF Innocent
  <2>4. Reference' = Reference /\ Recording'
    BY <2>2, <2>3 DEF Reference, Recording
  <2>5. Chain(Inputs, Contents, procs, seen', trace', Reference')
    BY <1>2, <2>2, <2>4
  <2> QED
    BY <1>3, <2>1, <2>2, <2>3, <2>4, <2>5 DEF Settles
<1>5. CASE rollback.len # NotInTransaction /\ seen[f] >= offset
  <2>1. Rewind(f, offset, seen, trace, rollback.len, rollback.flush) /\ UNCHANGED <<trace, procs>>
    BY <1>5 DEF AddChange
  <2>2. PICK len \in Nat : len = rollback.len /\ len = Reference /\ len <= Len(trace)
    BY <1>1, <1>5 DEF Reference, Transaction
  <2>3. /\ rollback'.len \in Nat /\ rollback'.len < len /\ seen'[f] < offset
        /\ Chain(Inputs, Contents, procs, seen', trace, rollback'.len)
    BY <1>2, <2>1, <2>2, InputsEntries, RewindSettles
  <2>4. PICK c \in Nat : c = rollback'.len /\ c < Len(trace)
    BY <1>1, <2>2, <2>3
  <2>5. Reference' = c /\ c # NotInTransaction
    BY <2>4 DEF Reference, NotInTransaction
  <2>6. ~Innocent' /\ Recording'
    BY <1>1, <2>1, <2>4, <2>5 DEF Innocent, Recording
  <2>7. Chain(Inputs, Contents, procs, seen', trace', Reference')
    BY <2>1, <2>3, <2>4, <2>5
  <2> QED
    BY <1>3, <2>1, <2>3, <2>6, <2>7 DEF Settles
<1>6. CASE /\ rollback.len # NotInTransaction /\ ~(seen[f] >= offset)
           /\ rollback.len = Len(trace) /\ ~rollback.flush /\ Alive(Top) /\ trace # <<>>
  <2>1. Synchronize(f, offset)
    BY <1>6 DEF AddChange
  <2>2. seen[f] < offset
    BY <1>1, <1>6
  <2> QED
    BY <1>6, <2>1, <2>2, SynchronizeSettles
<1>7. CASE /\ rollback.len # NotInTransaction /\ ~(seen[f] >= offset)
           /\ ~(/\ rollback.len = Len(trace) /\ ~rollback.flush /\ Alive(Top) /\ trace # <<>>)
  <2>1. UNCHANGED <<seen, trace, procs, rollback, aborted>>
    BY <1>7 DEF AddChange
  <2>2. Reference' = Reference /\ Recording'
    BY <1>7, <2>1 DEF Reference, Recording
  <2>3. Chain(Inputs, Contents, procs, seen', trace', Reference')
    BY <1>2, <2>1, <2>2
  <2>4. Innocent' => /\ Runs(Inputs, Contents, procs'[Top], saved, seen', rollback'.flush)
                     /\ ~procs'[Top].fd \/ rollback'.flush \/ seen'[f] < 0
    <3>1. Innocent' <=> Innocent
      BY <1>3, <2>1, <2>2 DEF Innocent
    <3>2. Innocent => Runs(Inputs, Contents, procs[Top], saved, seen, rollback.flush)
      BY DEF Views
    <3>3. ASSUME Innocent
          PROVE  ~procs[Top].fd \/ rollback.flush \/ seen[f] < 0
      <4>1. rollback.len = Len(trace) /\ Reference = Len(trace)
        BY <1>7, <3>3 DEF Innocent, Reference
      <4>2. CASE trace = <<>>
        <5>1. Reference = 0
          BY <4>1, <4>2
        <5>2. Reverted(seen, trace, 0, 0)[f] = -1
          BY <5>1 DEF TraceInv, Forgets
        <5>3. seen[f] = -1
          BY <5>2, RevertedHere
        <5> QED
          BY <5>3
      <4> QED
        BY <1>7, <4>1, <4>2 DEF Alive
    <3> QED
      BY <1>3, <2>1, <3>1, <3>2, <3>3
  <2> QED
    BY <1>1, <1>3, <1>7, <2>1, <2>2, <2>3, <2>4 DEF Settles
<1> QED
  BY <1>4, <1>5, <1>6, <1>7

(* One file differs from an offset on, which rollback_add_change was told. *)
LEMMA SettlesViews ==
  ASSUME Inv, Inv', TraceInv, TraceInv', Views, changing,
         UNCHANGED <<prog, disk, saved, changing, stash, deferred>>,
         \A g \in Entries \ DiskFiles : fs'[g] \in {Null, Disk[g]},
         NEW f \in Entries, NEW offset \in Nat,
         \A g \in Entries : g # f => Contents'[g] = Contents[g],
         Agree(Contents[f], Contents'[f], offset), Settles(f, offset)
  PROVE  Views'
<1>1. /\ Top' = Top /\ (Top = 0 => trace' = trace)
      /\ \A i \in 1..(Top - 1) : procs'[i] = procs[i]
      /\ Top > 0 => SameWorkerView(procs[Top], procs'[Top])
      /\ Top = 0 \/ seen'[f] < offset
      /\ Chain(Inputs, Contents, procs, seen', trace', Reference')
      /\ Recording'
  BY DEF Settles
<1>2. ASSUME Innocent'
      PROVE  Runs(Inputs, Contents', procs'[Top], saved, seen', rollback'.flush)
  <2>1. /\ Runs(Inputs, Contents, procs'[Top], saved, seen', rollback'.flush)
        /\ ~procs'[Top].fd \/ rollback'.flush \/ seen'[f] < 0
    BY <1>2 DEF Settles
  <2>2. Top \in Nat /\ Top > 0 /\ seen' \in [Entries -> Int] /\ rollback'.flush \in BOOLEAN
        /\ seen'[f] < offset
    BY <1>1, <1>2, StackTyped, SMTT(30) DEF Innocent, Inv, Typed
  <2>3. PICK inputs, D, D2, p, q, sn, flushed :
          /\ inputs = Inputs /\ inputs \subseteq Entries /\ D = Contents /\ D2 = Contents'
          /\ p = procs[Top] /\ q = procs'[Top] /\ sn = seen' /\ flushed = rollback'.flush
    BY InputsEntries
  <2>4. \A g \in inputs : Shape(g, q.view[g], q.pos[g], q.buf[g])
    <3>1. \A g \in inputs : Shape(g, p.view[g], p.pos[g], p.buf[g])
      BY <2>2, <2>3, TopDomains
    <3>2. q.view = p.view /\ q.pos = p.pos /\ q.buf = p.buf
      BY <1>1, <2>2, <2>3 DEF SameWorkerView
    <3> QED
      BY <3>1, <3>2
  <2>5. D[f] \in Stored /\ D2[f] \in Stored
    <3>1. D[f] \in Stored
      BY <2>3, ContentsStored DEF TraceInv
    <3>2. FilesInv'
      BY DEF TraceInv
    <3>3. Contents'[f] \in Stored
      BY <3>2 DEF Contents, InputData, FilesInv, Files, Stored
    <3> QED
      BY <2>3, <3>1, <3>3
  <2>6. Runs(inputs, D2, q, saved, sn, flushed)
    BY <2>1, <2>2, <2>3, <2>4, <2>5, RunsDiverges
  <2> QED
    BY <2>3, <2>6
<1> QED
  BY <1>1, <1>2, ChangeViews

LEMMA OthersKeep ==
  ASSUME NEW f \in Entries, \A g \in Entries : g # f => fs'[g] = fs[g] /\ edit'[g] = edit[g]
  PROVE  \A g \in Entries : g # f => Contents'[g] = Contents[g]
BY SameContents

LEMMA AddChangeViews ==
  ASSUME Inv, Inv', TraceInv, TraceInv', Views, OnePending, changing, aborted = "no", aborted' = "no",
         UNCHANGED <<prog, disk, saved, changing, stash, deferred>>,
         \A g \in Entries \ DiskFiles : fs'[g] \in {Null, Disk[g]},
         NEW f \in Entries, NEW offset \in Nat, AddChange(f, offset),
         \A g \in Entries : g # f => fs'[g] = fs[g] /\ edit'[g] = edit[g],
         Agree(Contents[f], Contents'[f], offset)
  PROVE  Views'
<1>1. Settles(f, offset)
  BY AddChangeSettles
<1>2. \A g \in Entries : g # f => Contents'[g] = Contents[g]
  BY OthersKeep
<1> QED
  BY <1>1, <1>2, SettlesViews

(* Nothing of the file was observed. *)
LEMMA UnseenSettles ==
  ASSUME Inv, Views, NEW f \in Entries, seen[f] < 0,
         UNCHANGED <<seen, trace, procs, rollback, changing, saved>>
  PROVE  Settles(f, 0)
<1>1. Top' = Top /\ Reference' = Reference
  BY DEF Top, Reference
<1>2. Recording' /\ (Innocent' <=> Innocent)
  BY <1>1 DEF Views, Recording, Innocent
<1>3. Chain(Inputs, Contents, procs, seen', trace', Reference')
  BY <1>1 DEF Views
<1>4. Innocent' => Runs(Inputs, Contents, procs'[Top], saved, seen', rollback'.flush)
  BY <1>2 DEF Views
<1>5. \A i \in 1..(Top - 1) : procs'[i] = procs[i]
  OBVIOUS
<1>6. SameWorkerView(procs[Top], procs'[Top])
  BY DEF SameWorkerView
<1> QED
  BY <1>1, <1>2, <1>3, <1>4, <1>5, <1>6 DEF Settles

LEMMA EditorOpenViews ==
  ASSUME PlainSession, Inv, Inv', TraceInv, TraceInv', ViewsInv, OnePending, NEW f \in Entries,
         NEW data \in Seq(Bytes), EditorOpen(f, data)
  PROVE  ViewsInv'
<1> SUFFICES ASSUME aborted' = "no"
             PROVE  Views'
  BY DEF ViewsInv
<1>1. /\ changing /\ aborted = "no" /\ edit' = [edit EXCEPT ![f] = data]
      /\ UNCHANGED <<prog, disk, saved, changing, stash, deferred, fs>>
  BY Zenon DEF EditorOpen, Changing
<1>2. Views /\ FilesInv
  BY <1>1 DEF ViewsInv, TraceInv
<1>3. \A g \in Entries \ DiskFiles : fs'[g] \in {Null, Disk[g]}
  BY <1>1, <1>2 DEF Views, Sources
<1>4. /\ \A g \in Entries : g # f => fs'[g] = fs[g] /\ edit'[g] = edit[g]
      /\ edit'[f] = data
  BY <1>1, <1>2 DEF FilesInv, Files
<1>5. Contents'[f] = data /\ data # Null
  <2>1. data # Null
    BY NullIsNoData
  <2> QED
    BY <1>4, <2>1 DEF Contents, InputData
<1>6. Contents[f] = IF edit[f] # Null THEN edit[f] ELSE fs[f]
  BY DEF Contents, InputData
<1>7. ASSUME NEW offset \in Nat, AddChange(f, offset), Agree(Contents[f], data, offset)
      PROVE  Views'
  BY <1>1, <1>2, <1>3, <1>4, <1>5, <1>7, AddChangeViews
<1>8. ASSUME NEW s \in Seq(Bytes), Contents[f] = s, AddChange(f, FirstDiff(s, data))
      PROVE  Views'
  <2>1. FirstDiff(s, data) \in Nat
    BY FirstDiffTyped
  <2>2. PICK n \in Nat : n = FirstDiff(s, data) /\ n \in 0..FirstDiff(s, data)
    BY <2>1
  <2>3. Agree(s, data, n)
    BY <2>2, FirstDiffAgrees
  <2> QED
    BY <1>7, <1>8, <2>2, <2>3
<1>9. Agree(Contents[f], data, 0)
  BY DEF Agree
<1>10. CASE edit[f] # Null
  <2>1. AddChange(f, FirstDiff(edit[f], data))
    BY <1>10, Zenon DEF EditorOpen
  <2>2. edit[f] \in Seq(Bytes) /\ Contents[f] = edit[f]
    BY <1>2, <1>6, <1>10, ContentsTyped
  <2> QED
    BY <1>8, <2>1, <2>2
<1>11. f \notin Promised
  BY DEF PlainSession
<1>12. CASE edit[f] = Null /\ fs[f] # Null
  <2>1. AddChange(f, FirstDiff(fs[f], data))
    BY <1>11, <1>12, Zenon DEF EditorOpen
  <2>2. fs[f] \in Seq(Bytes) /\ Contents[f] = fs[f]
    BY <1>2, <1>6, <1>12, ContentsTyped
  <2> QED
    BY <1>8, <2>1, <2>2
<1>13. CASE edit[f] = Null /\ fs[f] = Null /\ seen[f] >= 0
  <2>1. AddChange(f, 0)
    BY <1>11, <1>13, Zenon DEF EditorOpen
  <2> QED
    BY <1>7, <1>9, <2>1
<1>14. CASE edit[f] = Null /\ fs[f] = Null /\ ~(seen[f] >= 0)
  <2>1. UNCHANGED <<seen, trace, procs, rollback, aborted>>
    BY <1>14, Zenon DEF EditorOpen
  <2>2. seen[f] < 0
    BY <1>14 DEF Inv, Typed
  <2>3. Settles(f, 0)
    BY <1>1, <1>2, <2>1, <2>2, UnseenSettles
  <2>4. \A g \in Entries : g # f => Contents'[g] = Contents[g]
    BY <1>4, OthersKeep
  <2> QED
    BY <1>1, <1>2, <1>3, <1>5, <1>9, <2>3, <2>4, SettlesViews
<1> QED
  BY <1>10, <1>12, <1>13, <1>14

LEMMA EditorChangeViews ==
  ASSUME Inv, Inv', TraceInv, TraceInv', ViewsInv, OnePending, NEW f \in Entries,
         NEW data \in Seq(Bytes), EditorChange(f, data)
  PROVE  ViewsInv'
<1> SUFFICES ASSUME aborted' = "no"
             PROVE  Views'
  BY DEF ViewsInv
<1>1. /\ changing /\ aborted = "no" /\ edit' = [edit EXCEPT ![f] = data] /\ edit[f] # Null
      /\ UNCHANGED <<prog, disk, saved, changing, stash, deferred, fs>>
  BY Zenon DEF EditorChange, Changing
<1>2. Views /\ FilesInv
  BY <1>1 DEF ViewsInv, TraceInv
<1>3. \A g \in Entries \ DiskFiles : fs'[g] \in {Null, Disk[g]}
  BY <1>1, <1>2 DEF Views, Sources
<1>4. /\ \A g \in Entries : g # f => fs'[g] = fs[g] /\ edit'[g] = edit[g]
      /\ edit'[f] = data
  BY <1>1, <1>2 DEF FilesInv, Files
<1>5. Contents'[f] = data /\ data # Null
  <2>1. data # Null
    BY NullIsNoData
  <2> QED
    BY <1>4, <2>1 DEF Contents, InputData
<1>6. PICK s \in Seq(Bytes) : s = edit[f] /\ Contents[f] = s
  BY <1>1, <1>2, ContentsTyped DEF Contents, InputData
<1>7. PICK offset \in 0..FirstDiff(s, data) : AddChange(f, offset)
  BY <1>6, Zenon DEF EditorChange
<1>8. Agree(s, data, offset) /\ offset \in Nat
  BY <1>7, FirstDiffAgrees
<1> QED
  BY <1>1, <1>2, <1>3, <1>4, <1>5, <1>6, <1>7, <1>8, AddChangeViews

LEMMA EditorCloseViews ==
  ASSUME Inv, Inv', TraceInv, TraceInv', ViewsInv, OnePending, NEW f \in Entries, EditorClose(f)
  PROVE  ViewsInv'
<1> SUFFICES ASSUME aborted' = "no"
             PROVE  Views'
  BY DEF ViewsInv
<1>1. /\ changing /\ aborted = "no" /\ edit' = [edit EXCEPT ![f] = Null] /\ edit[f] # Null
      /\ UNCHANGED <<prog, disk, saved, changing, stash, deferred, fs>>
      /\ AddChange(f, IF fs[f] = Null THEN 0 ELSE FirstDiff(fs[f], edit[f]))
  BY Zenon DEF EditorClose, Changing
<1>2. Views /\ FilesInv
  BY <1>1 DEF ViewsInv, TraceInv
<1>3. \A g \in Entries \ DiskFiles : fs'[g] \in {Null, Disk[g]}
  BY <1>1, <1>2 DEF Views, Sources
<1>4. /\ \A g \in Entries : g # f => fs'[g] = fs[g] /\ edit'[g] = edit[g]
      /\ edit'[f] = Null
  BY <1>1, <1>2 DEF FilesInv, Files
<1>5. Contents'[f] = fs[f]
  BY <1>1, <1>4 DEF Contents, InputData
<1>6. PICK s \in Seq(Bytes) : s = edit[f] /\ Contents[f] = s
  BY <1>1, <1>2, ContentsTyped DEF Contents, InputData
<1>7. PICK offset \in Nat : AddChange(f, offset) /\ Agree(s, fs[f], offset)
  <2>1. CASE fs[f] = Null
    <3>1. AddChange(f, 0)
      BY <1>1, <2>1
    <3>2. Agree(s, fs[f], 0)
      BY DEF Agree
    <3> QED
      BY <3>1, <3>2
  <2>2. CASE fs[f] # Null
    <3>1. PICK t \in Seq(Bytes) : t = fs[f]
      BY <1>2, <2>2, ContentsTyped
    <3>2. AddChange(f, FirstDiff(t, s)) /\ FirstDiff(t, s) \in Nat
      BY <1>1, <1>6, <2>2, <3>1, FirstDiffTyped
    <3>3. PICK n \in Nat : n = FirstDiff(t, s) /\ n \in 0..FirstDiff(t, s)
      BY <3>2
    <3>4. Agree(s, t, n)
      BY <3>3, FirstDiffAgrees
    <3> QED
      BY <3>1, <3>2, <3>3, <3>4
  <2> QED
    BY <2>1, <2>2
<1> QED
  BY <1>1, <1>2, <1>3, <1>4, <1>5, <1>6, <1>7, AddChangeViews

LEMMA ScanViews ==
  ASSUME Inv, Inv', TraceInv, TraceInv', ViewsInv, OnePending, NEW f \in DiskFiles, Scan(f)
  PROVE  ViewsInv'
<1> SUFFICES ASSUME aborted' = "no"
             PROVE  Views'
  BY DEF ViewsInv
<1>1. /\ changing /\ aborted = "no" /\ fs' = [fs EXCEPT ![f] = disk[f]] /\ edit[f] = Null
      /\ UNCHANGED <<prog, disk, saved, changing, stash, deferred, edit>>
      /\ f \in statted /\ disk[f] # Null /\ AddChange(f, FirstDiff(fs[f], disk[f]))
  BY Zenon DEF Scan, OnDisk
<1>2. Views /\ FilesInv /\ f \in Entries
  BY <1>1, TexEngineAssumption DEF ViewsInv, TraceInv
<1>3. /\ \A g \in Entries : g # f => fs'[g] = fs[g] /\ edit'[g] = edit[g]
      /\ fs'[f] = disk[f] /\ edit'[f] = Null
  BY <1>1, <1>2 DEF FilesInv, Files
<1>4. \A g \in Entries \ DiskFiles : fs'[g] \in {Null, Disk[g]}
  BY <1>2, <1>3 DEF Views, Sources
<1>5. PICK s \in Seq(Bytes) : s = fs[f] /\ Contents[f] = s
  <2>1. fs[f] # Null
    BY <1>1, <1>2 DEF FilesInv
  <2> QED
    BY <1>1, <1>2, <2>1, ContentsTyped DEF Contents, InputData
<1>6. PICK t \in Seq(Bytes) : t = disk[f] /\ Contents'[f] = t
  BY <1>1, <1>2, <1>3, ContentsTyped DEF Contents, InputData
<1>7. PICK n \in Nat : n = FirstDiff(s, t) /\ n \in 0..FirstDiff(s, t)
  <2>1. FirstDiff(s, t) \in Nat
    BY FirstDiffTyped
  <2> QED
    BY <2>1
<1>8. Agree(s, t, n) /\ AddChange(f, n)
  BY <1>1, <1>5, <1>6, <1>7, FirstDiffAgrees
<1> QED
  BY <1>1, <1>2, <1>3, <1>4, <1>5, <1>6, <1>7, <1>8, AddChangeViews

(* A process that a fork left behind runs again as it was. *)
LEMMA ParkedRuns ==
  ASSUME NEW inputs, inputs \subseteq Entries, NEW D, NEW p, Wellformed(prog, p), Parked(p), NEW sv, NEW sn,
         \A f \in inputs : Entry(f, D[f], p.view[f], sv[f].level, sn[f])
  PROVE  Runs(inputs, D, p, sv, sn, FALSE)
<1>1. Pending(p) = {}
  <2>1. p.out = <<>> /\ p.unsent = <<>>
    BY DEF Parked, Wellformed
  <2> QED
    BY <2>1, PendingNone
<1>2. ASSUME NEW f \in inputs
      PROVE  /\ Account(f, D[f], p.view[f], sv[f].level)
             /\ Known(p.view[f], sv[f].level, sn[f])
             /\ Reporting(p, f, sn[f])
             /\ Ahead(f, D[f], p.view[f], p.pos[f], p.buf[f], sv[f].level)
  <2>1. /\ Account(f, D[f], p.view[f], sv[f].level)
        /\ Known(p.view[f], sv[f].level, sn[f]) /\ Told(p.view[f], sn[f])
    BY <1>2 DEF Entry
  <2>2. Reporting(p, f, sn[f])
    BY <2>1, ToldReported
  <2>3. Len(p.buf[f]) = 0
    <3>1. f \in Entries /\ p.buf = NoBuffers
      BY DEF Parked
    <3> QED
      BY <3>1 DEF NoBuffers
  <2> QED
    BY <2>1, <2>2, <2>3 DEF Ahead, BytesOf
<1>3. Reports(inputs, p)
  BY <1>1 DEF Reports
<1>4. p.fd
  BY DEF Parked
<1> QED
  BY <1>2, <1>3, <1>4 DEF Runs

(* What is left when the processes above n are gone *)
Resumes(n, len, back, sn) ==
  /\ n \in Nat /\ n < Top /\ len \in Nat /\ len <= back
  /\ procs' = SubSeq(procs, 1, n) /\ trace' = SubSeq(trace, 1, len)
  /\ seen' = Reverted(sn, trace, len, back)
  /\ saved' = IF n = 0 THEN Restart ELSE procs[n].copy
  /\ n = 0 => len = 0
  /\ n > 0 => len = procs[n].len

LEMMA RollbackResumes ==
  ASSUME Inv, NEW back \in Nat, NEW sn, NEW target \in Int, target <= back,
         Top > 0, Gone(Top, target), Rollback(back, sn, target)
  PROVE  /\ \E n, len : Resumes(n, len, back, sn)
         /\ edit' = [f \in Entries |-> IF f \in stash THEN Null ELSE edit[f]]
         /\ stash' = {f \in stash : edit[f] = Null}
         /\ deferred' = Null
<1>1. /\ Top \in Nat /\ \A i \in 1..Top : TraceLen(i) \in Nat
  BY StackTyped, SettledStack DEF Inv, Typed, TraceLen
<1>2. PICK kept : kept = {0} \cup {i \in 1..Top : ~Gone(i, target)}
  OBVIOUS
<1>3. PICK n \in kept : n = Max(kept)
  <2>1. kept \subseteq {0} \cup 1..Top /\ 0 \in kept
    BY <1>2
  <2>2. kept \subseteq Int /\ kept # {} /\ Top \in Int /\ \A x \in kept : x <= Top
    BY <2>1, <1>1
  <2> QED
    BY <2>2, MaxIn
<1>4. PICK len : len = IF n = 0 THEN 0 ELSE TraceLen(n)
  OBVIOUS
<1>5. n \in Nat /\ n < Top
  <2>1. n \in {0} \cup 1..Top /\ n # Top
    BY <1>1, <1>2
  <2> QED
    BY <1>1, <2>1
<1>6. /\ procs' = SubSeq(procs, 1, n) /\ trace' = SubSeq(trace, 1, len)
      /\ seen' = Reverted(sn, trace, len, back)
      /\ saved' = (IF n = Top THEN saved ELSE IF n = 0 THEN Restart ELSE procs[n].copy)
      /\ edit' = [f \in Entries |-> IF f \in stash THEN Null ELSE edit[f]]
      /\ stash' = {f \in stash : edit[f] = Null}
      /\ deferred' = Null
  BY <1>2, <1>3, <1>4, Zenon DEF Rollback
<1>7. n # Top /\ (n = 0 => len = 0) /\ (n > 0 => len = procs[n].len)
  <2>1. n # Top
    BY <1>1, <1>5
  <2> QED
    BY <1>4, <2>1 DEF TraceLen
<1>8. len \in Nat /\ len <= back
  <2>1. CASE n = 0
    BY <2>1, <1>4
  <2>2. CASE n # 0
    <3>1. n \in 1..Top /\ ~Gone(n, target)
      BY <2>2, <1>2
    <3>2. TraceLen(n) \in Nat /\ ~(TraceLen(n) > target)
      BY <3>1, <1>1 DEF Gone
    <3> QED
      BY <2>2, <3>2, <1>4
  <2> QED
    BY <2>1, <2>2
<1> QED
  BY <1>5, <1>6, <1>7, <1>8 DEF Resumes

LEMMA RollbackViews ==
  ASSUME Inv, Inv', Views, NEW back \in Nat, back <= Len(trace), NEW sn,
         Chain(Inputs, Contents, procs, sn, trace, back), NEW target \in Int, target <= back,
         Top > 0, Gone(Top, target), Rollback(back, sn, target),
         UNCHANGED <<prog, disk, fs>>, changing' = FALSE, rollback' = Closed
  PROVE  Views'
<1>1. PICK n, len : Resumes(n, len, back, sn)
  BY RollbackResumes
<1>2. /\ edit' = [f \in Entries |-> IF f \in stash THEN Null ELSE edit[f]]
      /\ stash' = {f \in stash : edit[f] = Null} /\ deferred' = Null
  BY RollbackResumes
<1>3. PICK m \in Nat, l \in Nat : m = n /\ l = len
  BY <1>1 DEF Resumes
<1>4. PICK N \in Nat : N = Top /\ N = Len(procs) /\ m < N
  BY <1>1, <1>3, StackTyped DEF Inv, Top, Resumes
<1>5. /\ procs' = SubSeq(procs, 1, m) /\ trace' = SubSeq(trace, 1, l) /\ l <= back
      /\ seen' = Reverted(sn, trace, l, back)
      /\ saved' = (IF m = 0 THEN Restart ELSE procs[m].copy)
      /\ m = 0 => l = 0
      /\ m > 0 => l = procs[m].len
  BY <1>1, <1>3 DEF Resumes
<1>6. /\ Len(procs') = m /\ Top' = m /\ \A i \in 1..m : procs'[i] = procs[i]
      /\ Len(trace') = l /\ \A k \in 1..l : trace'[k] = trace[k]
  <2>1. PICK S : procs \in Seq(S)
    BY DEF Inv, Typed
  <2>2. Len(SubSeq(procs, 1, m)) = m /\ \A i \in 1..m : SubSeq(procs, 1, m)[i] = procs[i]
    BY <1>4, <2>1, CutSequence
  <2>3. trace \in Seq(TraceEntry) /\ l <= Len(trace)
    BY <1>5 DEF Inv, Typed
  <2>4. Len(SubSeq(trace, 1, l)) = l /\ \A k \in 1..l : SubSeq(trace, 1, l)[k] = trace[k]
    BY <2>3, CutSequence
  <2> QED
    BY <1>5, <2>2, <2>4 DEF Top
<1>7. PICK inputs, D : /\ inputs = Inputs /\ inputs = Inputs' /\ inputs \subseteq Entries
                       /\ D = Contents /\ D = Contents'
  <2>1. stash = {}
    BY DEF Views, Sources
  <2>2. \A g \in Entries : fs'[g] = fs[g] /\ edit'[g] = edit[g]
    BY <1>2, <2>1
  <2>3. \A g \in Entries : InputData(g)' = InputData(g)
    BY <2>2 DEF InputData
  <2>4. Contents' = Contents
    BY <2>3 DEF Contents
  <2> QED
    BY <2>4, SameInputs, InputsEntries
<1>8. Shapes(inputs, procs')
  <2>1. Shapes(inputs, procs)
    BY <1>7 DEF Views
  <2>2. \A i \in 1..m : i \in 1..N
    BY <1>4
  <2> QED
    BY <1>4, <1>6, <2>1, <2>2 DEF Shapes
<1>9. Sources'
  <2>1. stash' = {}
    BY <1>2 DEF Views, Sources
  <2>2. Top' = 0 => trace' = <<>>
    <3>1. ASSUME m = 0
          PROVE  trace' = <<>>
      BY <1>5, <3>1
    <3> QED
      BY <1>6, <3>1
  <2> QED
    BY <1>2, <2>1, <2>2 DEF Views, Sources
<1>10. Recording'
  BY DEF Recording
<1>11. Levels(inputs, procs', saved')
  <2>1. Levels(inputs, procs, saved)
    BY <1>7 DEF Views
  <2>2. CASE m = 0
    <3>1. 1..(Len(procs') - 1) = {}
      BY <1>6, <2>2
    <3>2. saved' = Restart
      BY <1>5, <2>2
    <3>3. DOMAIN saved' = Entries /\ \A f \in inputs : Plain(saved'[f])
      BY <1>7, <3>2 DEF Restart, Plain
    <3> QED
      BY <3>1, <3>3 DEF Levels
  <2>3. CASE m > 0
    <3>1. saved' = procs[m].copy /\ m \in 1..(N - 1)
      BY <1>4, <1>5, <2>3
    <3>2. DOMAIN saved' = Entries
      BY <1>4, <2>1, <3>1 DEF Levels
    <3>3. \A i \in 1..(m - 1) : i \in 1..(N - 1) /\ m \in i..(N - 1) /\ procs'[i] = procs[i]
      BY <1>4, <1>6
    <3>4. \A i \in 1..(m - 1) : \A j \in i..(m - 1) : j \in i..(N - 1) /\ procs'[j] = procs[j]
      BY <1>4, <1>6
    <3>5. DOMAIN procs[m].copy = Entries
      BY <3>1, <3>2
    <3>6. \A i \in 1..(m - 1) : DOMAIN procs'[i].copy = Entries
      BY <1>4, <2>1, <3>3 DEF Levels
    <3>7. ASSUME NEW f \in inputs
          PROVE  /\ Plain(saved'[f])
                 /\ \A i \in 1..(m - 1) :
                      /\ Plain(procs'[i].copy[f])
                      /\ procs'[i].copy[f].level # "none" => saved'[f].level # "none"
                      /\ \A j \in i..(m - 1) :
                           procs'[i].copy[f].level # "none" => procs'[j].copy[f].level # "none"
      <4>1. \A i \in 1..(N - 1) :
              /\ Plain(procs[i].copy[f])
              /\ \A j \in i..(N - 1) :
                   procs[i].copy[f].level # "none" => procs[j].copy[f].level # "none"
        BY <1>4, <2>1 DEF Levels
      <4> QED
        BY <3>1, <3>3, <3>4, <4>1
    <3> QED
      BY <1>6, <3>2, <3>6, <3>7 DEF Levels
  <2> QED
    BY <2>2, <2>3
<1>12. PICK sn2 : sn2 = seen' /\ sn2 = Reverted(sn, trace, l, back)
  BY <1>5
<1>13. /\ Chain(inputs, D, procs', sn2, trace', l)
  <2>1. Lengths(procs)
    BY LengthsOfProcs
  <2>2. Chain(inputs, D, procs, sn2, trace, l)
    BY <1>5, <1>7, <1>12, <2>1, ChainRewound
  <2>3. PICK ps, tr : ps = procs' /\ tr = trace'
    OBVIOUS
  <2>4. /\ Len(ps) \in Nat /\ Len(ps) <= Len(procs)
        /\ \A i \in 1..(Len(ps) - 1) : ps[i] = procs[i] /\ \A k \in 1..l : tr[k] = trace[k]
    BY <1>4, <1>6, <2>3
  <2>5. \A k \in 1..l : tr[k] = trace[k]
    BY <1>6, <2>3
  <2>6. Chain(inputs, D, ps, sn2, tr, l)
    BY <1>7, <2>1, <2>2, <2>4, <2>5, ChainPart
  <2> QED
    BY <2>3, <2>6
<1>14. Reference' = l /\ rollback'.flush = FALSE
  BY <1>6, ClosedTransaction DEF Reference, Closed
<1>15. Innocent' => Runs(inputs, D, procs'[m], saved', sn2, FALSE)
  <2>1. CASE m = 0
    BY <1>6, <2>1 DEF Innocent
  <2>2. CASE m # 0
    <3>1. m > 0
      BY <2>2
    <3>2. PICK p : p = procs[m] /\ p = procs'[m]
      BY <1>6, <3>1
    <3>3. m \in 1..(Top - 1) /\ m \in 1..Top /\ m \in 1..(Len(procs) - 1)
      BY <1>4, <3>1
    <3>4. Wellformed(prog, p) /\ Parked(p)
      BY <3>2, <3>3 DEF Inv, StackInv
    <3>5. saved' = p.copy /\ l = p.len /\ l <= back
      BY <1>5, <3>1, <3>2
    <3>6. Snapshots(inputs, D, procs, sn, trace, back)
      BY <1>7 DEF Chain
    <3>7. \A f \in inputs : Entry(f, D[f], p.view[f], p.copy[f].level, sn2[f])
      BY <1>12, <3>2, <3>3, <3>5, <3>6 DEF Snapshots
    <3>8. PICK sv : sv = saved' /\ sv = p.copy
      BY <3>5
    <3>9. Runs(inputs, D, p, sv, sn2, FALSE)
      BY <1>7, <3>4, <3>7, <3>8, ParkedRuns
    <3> QED
      BY <3>2, <3>8, <3>9
  <2> QED
    BY <2>1, <2>2, Zenon
<1> QED
  BY <1>6, <1>7, <1>8, <1>9, <1>10, <1>11, <1>12, <1>13, <1>14, <1>15 DEF Views

LEMMA EndRollbackViews ==
  ASSUME Inv, Inv', Views, EndRollback, prog' = prog, changing' = FALSE, rollback' = Closed
  PROVE  Views'
<1>1. PICK back \in Nat, sn \in [Entries -> Int], target \in Int :
        /\ sn = Reverted(seen, trace, back, rollback.len)
        /\ rollback.len \in Nat /\ back <= rollback.len /\ back <= Len(trace)
        /\ target <= back /\ Top > 0 /\ Gone(Top, target)
        /\ Rollback(back, sn, target) /\ aborted' = aborted
  BY EndRollbackGoes
<1>2. PICK r \in Nat : r = rollback.len /\ r = Reference
  BY <1>1 DEF Reference, NotInTransaction
<1>3. UNCHANGED <<disk, fs>>
  BY Zenon DEF EndRollback
<1>4. PICK inputs, D : inputs = Inputs /\ inputs \subseteq Entries /\ D = Contents
  BY InputsEntries
<1>5. Chain(inputs, D, procs, seen, trace, r) /\ Lengths(procs)
  BY <1>2, <1>4, LengthsOfProcs DEF Views
<1>6. Chain(inputs, D, procs, sn, trace, back)
  BY <1>1, <1>2, <1>4, <1>5, ChainRewound
<1> QED
  BY <1>1, <1>3, <1>4, <1>6, RollbackViews

SameObservations(p, q) == q.view = p.view /\ q.pos = p.pos /\ q.buf = p.buf

(* What the end of a transaction leaves of the stack, when it goes nowhere *)
LEMMA EndsViews ==
  ASSUME Inv, Inv', Views, UNCHANGED <<prog, vfs, saved, seen, trace, deferred>>,
         Top' = Top, \A i \in 1..(Top - 1) : procs'[i] = procs[i],
         changing' = FALSE, rollback' = Closed, Reference = Len(trace),
         Top > 0 => SameObservations(procs[Top], procs'[Top]),
         Top > 0 => (procs'[Top].flush => procs'[Top].asked),
         Innocent' => Runs(Inputs, Contents, procs'[Top], saved, seen, FALSE)
  PROVE  Views'
<1>1. PICK inputs, D : /\ inputs = Inputs /\ inputs = Inputs' /\ inputs \subseteq Entries
                       /\ D = Contents /\ D = Contents'
  BY SameInputs, InputsEntries DEF vfs, Contents, InputData
<1>2. PICK N \in Nat : N = Top /\ N = Len(procs) /\ N = Len(procs') /\ N = Top'
  BY StackTyped DEF Inv, Top
<1>3. \A i \in 1..(N - 1) : procs'[i] = procs[i]
  BY <1>2
<1>4. Shapes(inputs, procs')
  <2>1. ASSUME NEW i \in 1..N
        PROVE  /\ DOMAIN procs'[i].view = Entries /\ DOMAIN procs'[i].buf = Entries
               /\ procs'[i].flush => procs'[i].asked
               /\ \A g \in inputs : Shape(g, procs'[i].view[g], procs'[i].pos[g], procs'[i].buf[g])
    <3>1. /\ DOMAIN procs[i].view = Entries /\ DOMAIN procs[i].buf = Entries
          /\ procs[i].flush => procs[i].asked
          /\ \A g \in inputs : Shape(g, procs[i].view[g], procs[i].pos[g], procs[i].buf[g])
      BY <1>1, <1>2 DEF Views, Shapes
    <3>2. CASE i = N
      <4>1. SameObservations(procs[i], procs'[i]) /\ (procs'[i].flush => procs'[i].asked)
        BY <1>2, <3>2
      <4> QED
        BY <3>1, <4>1 DEF SameObservations
    <3>3. CASE i # N
      <4>1. i \in 1..(N - 1)
        BY <3>3
      <4> QED
        BY <1>3, <3>1, <4>1
    <3> QED
      BY <3>2, <3>3
  <2> QED
    BY <1>2, <2>1 DEF Shapes
<1>5. Sources'
  <2>1. Top' = 0 => trace' = <<>>
    BY <1>2 DEF Views, Sources
  <2> QED
    BY <2>1 DEF Views, Sources, vfs
<1>6. Levels(inputs, procs', saved')
  <2>1. Levels(inputs, procs, saved)
    BY <1>1 DEF Views
  <2>2. DOMAIN saved = Entries /\ \A f \in inputs : Plain(saved[f])
    BY <2>1 DEF Levels
  <2> QED
    BY <1>2, <1>3, <2>1, <2>2, LevelsGrow
<1>7. Recording'
  BY DEF Recording
<1>8. Reference' = Reference /\ rollback'.flush = FALSE
  BY ClosedTransaction DEF Reference, Closed
<1>9. Chain(inputs, D, procs', seen', trace', Reference')
  <2>1. Chain(inputs, D, procs, seen, trace, Reference)
    BY <1>1 DEF Views
  <2>2. PICK n \in Nat : n = Reference
    BY ReferenceTyped
  <2>3. PICK ps : ps = procs'
    OBVIOUS
  <2>4. /\ Len(ps) \in Nat /\ Len(ps) <= Len(procs)
        /\ \A i \in 1..(Len(ps) - 1) : ps[i] = procs[i]
    <3>1. Len(ps) = Len(procs')
      BY <2>3, Zenon
    <3>2. Len(procs') = N /\ Len(procs) = N
      BY <1>2, Zenon
    <3>3. Len(ps) = N /\ Len(procs) = N /\ N <= N
      BY <3>1, <3>2
    <3>4. \A i \in 1..(N - 1) : ps[i] = procs[i]
      BY <1>3, <2>3
    <3> QED
      BY <3>3, <3>4
  <2>5. Lengths(procs)
    BY LengthsOfProcs
  <2>6. Chain(inputs, D, ps, seen, trace, n)
    BY <1>1, <2>1, <2>2, <2>4, <2>5, ChainPart
  <2> QED
    BY <1>8, <2>2, <2>6, <2>3
<1>10. Innocent' => Runs(inputs, D, procs'[N], saved', seen', FALSE)
  BY <1>1, <1>2
<1> QED
  BY <1>1, <1>2, <1>4, <1>5, <1>6, <1>7, <1>8, <1>9, <1>10 DEF Views

LEMMA EndUnchangedViews ==
  ASSUME Inv, Inv', Views, EndUnchanged, changing, prog' = prog, changing' = FALSE, rollback' = Closed
  PROVE  Views'
<1>1. UNCHANGED <<prog, vfs, saved, seen, trace, procs, deferred>>
  BY DEF EndUnchanged
<1>2. Top' = Top /\ Top \in Nat /\ \A i \in 1..(Top - 1) : procs'[i] = procs[i]
  BY <1>1, StackTyped DEF Top, Inv
<1>3. Reference = Len(trace) /\ (Top > 0 => ~rollback.flush /\ Reference = Len(trace))
  BY <1>2 DEF EndUnchanged, Reference, Flushing, Views, Recording
<1>4. Top > 0 => SameObservations(procs[Top], procs'[Top])
  BY <1>1, <1>2 DEF SameObservations
<1>5. Top > 0 => (procs'[Top].flush => procs'[Top].asked)
  BY <1>1, <1>2, TopDomains
<1>6. Innocent' => Runs(Inputs, Contents, procs'[Top], saved, seen, FALSE)
  <2>1. ASSUME Innocent'
        PROVE  Innocent /\ rollback.flush = FALSE
    <3>1. Top > 0 /\ ~procs[Top].killed
      BY <1>1, <1>2, <2>1 DEF Innocent
    <3>2. rollback.flush \in BOOLEAN
      BY DEF Inv, Typed
    <3> QED
      BY <1>3, <3>1, <3>2 DEF Innocent
  <2> QED
    BY <1>1, <2>1 DEF Views
<1> QED
  BY <1>1, <1>2, <1>3, <1>4, <1>5, <1>6, EndsViews

LEMMA EndFlushViews ==
  ASSUME Inv, Inv', Views, EndFlush, aborted' = "no", prog' = prog, changing' = FALSE,
         rollback' = Closed
  PROVE  Views'
<1>1. PICK p : p = procs[Top]
  OBVIOUS
<1>2. PICK q : q = [p EXCEPT !.flush = TRUE]
  OBVIOUS
<1>3. /\ UNCHANGED <<vfs, saved, seen, trace, deferred>> /\ SetTop(q)
      /\ rollback.len = Len(trace) /\ rollback.flush /\ p.fd
  BY <1>1, <1>2 DEF EndFlush, Flushing, Alive
<1>4. /\ Typed /\ Top \in Nat /\ Top > 0 /\ Reference = Len(trace) /\ ~p.killed /\ rollback.flush = TRUE
  <2>1. Top \in Nat /\ Typed /\ rollback.flush = TRUE /\ Len(trace) \in Nat
    BY <1>3, StackTyped DEF Inv, Typed
  <2>2. rollback.len # NotInTransaction
    BY <1>3, <2>1 DEF NotInTransaction
  <2> QED
    BY <1>1, <1>3, <2>1, <2>2 DEF Inv, RollbackInv, Reference
<1>5. /\ procs'[Top] = q /\ Top' = Top /\ \A i \in 1..(Top - 1) : procs'[i] = procs[i]
  BY <1>3, <1>4, TopSet DEF SameBelow
<1>6. DOMAIN p = Fields
  BY <1>1, <1>4, TopWellformed DEF Wellformed
<1>7. /\ SameObservations(p, q) /\ q.asked = p.asked /\ q.flush = TRUE /\ q.fd = p.fd
      /\ q.out = p.out /\ q.unsent = p.unsent
  BY <1>2, <1>6 DEF Fields, SameObservations
<1>8. Runs(Inputs, Contents, p, saved, seen, TRUE)
  BY <1>1, <1>4 DEF Innocent, Views
<1>9. p.asked /\ Pending(p) = {} /\ Pending(q) = {}
  BY <1>7, <1>8 DEF Runs, Pending
<1>10. Runs(Inputs, Contents, q, saved, seen, FALSE)
  <2>1. PICK inputs, D : inputs = Inputs /\ D = Contents
    OBVIOUS
  <2>2. ASSUME NEW f \in inputs
        PROVE  /\ Account(f, D[f], q.view[f], saved[f].level)
               /\ Known(q.view[f], saved[f].level, seen[f])
               /\ Reporting(q, f, seen[f])
    <3>1. /\ Account(f, D[f], p.view[f], saved[f].level)
          /\ Known(p.view[f], saved[f].level, seen[f])
          /\ Reporting(p, f, seen[f])
      BY <1>8, <2>1 DEF Runs
    <3>2. q.view[f] = p.view[f] /\ Told(q.view[f], seen[f])
      BY <1>7, <1>9, <3>1, ReportedTold DEF SameObservations
    <3>3. Reporting(q, f, seen[f])
      BY <3>2, ToldReported
    <3> QED
      BY <3>1, <3>2, <3>3
  <2>3. Reports(inputs, q)
    BY <1>9 DEF Reports
  <2> QED
    BY <1>3, <1>7, <2>1, <2>2, <2>3 DEF Runs
<1> QED
  BY <1>1, <1>3, <1>4, <1>5, <1>7, <1>9, <1>10, EndsViews

LEMMA EndChangesViews ==
  ASSUME Inv, Inv', ViewsInv, EndChanges
  PROVE  ViewsInv'
<1> SUFFICES ASSUME aborted' = "no"
             PROVE  Views'
  BY DEF ViewsInv
<1>1. /\ Views /\ changing /\ prog' = prog /\ changing' = FALSE /\ rollback' = Closed
      /\ EndUnchanged \/ EndFlush \/ EndRollback
  BY DEF EndChanges, ViewsInv
<1> QED
  BY <1>1, EndUnchangedViews, EndFlushViews, EndRollbackViews

-----------------------------------------------------------------------------
(* The engine *)

(* Nothing is waited for when nothing is promised. *)
LEMMA NothingPromised ==
  ASSUME PlainSession, Sources, NEW f \in Entries
  PROVE  ~OpenDeferred(f) /\ ~OpenPromised(f)
<1>1. f # Null /\ deferred = Null /\ f \notin Promised
  BY TexEngineAssumption DEF Sources, PlainSession
<1> QED
  BY <1>1, Zenon DEF OpenDeferred, OpenPromised

LEMMA StepViews ==
  ASSUME PlainSession, Inv, Inv', TraceInv, TraceInv', FencesInv, ViewsInv, Step
  PROVE  ViewsInv'
<1>1. Views
  BY StepHarmless DEF Outside, ViewsInv
<1>2. Sources
  BY <1>1 DEF Views
<1>3. ASSUME Views'
      PROVE  ViewsInv'
  BY <1>3 DEF ViewsInv
<1>4. ASSUME NEW f \in Entries,
             OpenFound(f) \/ OpenMissing(f) \/ OpenWrite(f) \/ Append_(f) \/ Close(f) \/ KeepPicture(f)
      PROVE  ViewsInv'
  <2>1. Views'
    BY <1>1, <1>4, OpenFoundViews, OpenMissingViews, OpenWriteViews, AppendViews, CloseViews,
       KeepPictureViews
  <2> QED
    BY <1>3, <2>1
<1>5. ASSUME NEW f \in Entries, OpenVanished(f) \/ Read(f) \/ Seen(f)
      PROVE  ViewsInv'
  BY <1>1, <1>5, OpenVanishedViews, ReadViews, SeenViews
<1>6. ASSUME NEW f \in Entries, OpenDeferred(f) \/ OpenPromised(f) \/ Picture(f)
      PROVE  ViewsInv'
  BY <1>2, <1>6, NothingPromised, PictureViews
<1>7. CASE Child \/ Exit
  <2>1. Views'
    BY <1>1, <1>7, ChildViews, ExitViews
  <2> QED
    BY <1>3, <2>1
<1> QED
  BY <1>4, <1>5, <1>6, <1>7, Zenon DEF Step

LEMMA SomeChangeViews ==
  ASSUME PlainSession, OnePending, Inv, Inv', TraceInv, TraceInv', ViewsInv, Change
  PROVE  ViewsInv'
<1>1. /\ EditorFiles \subseteq Entries /\ DiskFiles \subseteq Entries
      /\ \A f \in Entries : NewContents[f] \subseteq Seq(Bytes)
  BY TexEngineAssumption
<1>2. ASSUME NEW f \in EditorFiles, NEW data \in NewContents[f],
             EditorOpen(f, data) \/ EditorChange(f, data)
      PROVE  ViewsInv'
  <2>1. f \in Entries /\ data \in Seq(Bytes)
    BY <1>1
  <2> QED
    BY <1>2, <2>1, EditorOpenViews, EditorChangeViews
<1>3. ASSUME NEW f \in EditorFiles, EditorClose(f)
      PROVE  ViewsInv'
  BY <1>1, <1>3, EditorCloseViews
<1>4. ASSUME NEW f \in DiskFiles, NEW data, DiskChange(f, data)
      PROVE  ViewsInv'
  <2>1. aborted = "no"
    BY <1>4 DEF DiskChange
  <2>2. Views'
    BY <1>4, <2>1, DiskChangeViews DEF ViewsInv
  <2> QED
    BY <2>2 DEF ViewsInv
<1>5. ASSUME NEW f \in DiskFiles, Scan(f)
      PROVE  ViewsInv'
  BY <1>5, ScanViews
<1>6. ASSUME NEW f \in DiskFiles, ScanSame(f)
      PROVE  ViewsInv'
  <2>1. aborted = "no"
    BY <1>6 DEF ScanSame
  <2>2. Views'
    BY <1>6, <2>1, ScanSameViews DEF ViewsInv
  <2> QED
    BY <2>2 DEF ViewsInv
<1> QED
  BY <1>2, <1>3, <1>4, <1>5, <1>6, Zenon DEF Change

LEMMA NextViews ==
  ASSUME PlainSession, OnePending, Inv, TraceInv, FencesInv, ViewsInv, [Next]_vars
  PROVE  ViewsInv'
<1>1. Inv' /\ TraceInv'
  BY NextKeeps, NextForgets DEF PlainSession
<1>2. ASSUME aborted = "no"
      PROVE  Views
  BY <1>2 DEF ViewsInv
<1>3. ASSUME Views'
      PROVE  ViewsInv'
  BY <1>3 DEF ViewsInv
<1>4. CASE Consume \/ Ask
  <2>1. aborted' = aborted
    BY <1>4, Zenon DEF Consume, Ask
  <2>2. CASE aborted = "no"
    <3>1. Views'
      BY <1>2, <1>4, <2>2, ConsumeViews, AskViews
    <3> QED
      BY <1>3, <3>1
  <2>3. CASE aborted # "no"
    BY <2>1, <2>3 DEF ViewsInv
  <2> QED
    BY <2>2, <2>3
<1>5. CASE Step
  BY <1>1, <1>5, StepViews
<1>6. CASE Prepare
  <2>1. aborted = "no"
    BY <1>6 DEF Prepare
  <2> QED
    BY <1>2, <1>3, <1>6, <2>1, PrepareViews
<1>7. CASE BeginChanges
  <2>1. aborted = "no"
    BY <1>7 DEF BeginChanges
  <2> QED
    BY <1>2, <1>3, <1>7, <2>1, BeginChangesViews
<1>8. CASE Change
  BY <1>1, <1>8, SomeChangeViews
<1>9. CASE EndChanges
  BY <1>1, <1>9, EndChangesViews
<1>10. CASE StartFinishing \/ FinishConverged \/ FinishAgain
  <2>1. ~RerunEnabled /\ ~finishing
    BY DEF PlainSession, TraceInv
  <2> QED
    BY <1>10, <2>1, Zenon DEF StartFinishing, FinishConverged, FinishAgain, Finish
<1>11. CASE UNCHANGED vars
  <2>1. ViewsInv' <=> ViewsInv
    <3>1. /\ prog' = prog /\ disk' = disk /\ fs' = fs /\ edit' = edit /\ stash' = stash
          /\ saved' = saved /\ seen' = seen /\ trace' = trace /\ procs' = procs
          /\ changing' = changing /\ rollback' = rollback /\ deferred' = deferred
          /\ aborted' = aborted
      BY <1>11 DEF vars
    <3>2. /\ Inputs' = Inputs /\ Contents' = Contents /\ Reference' = Reference /\ Top' = Top
      BY <3>1 DEF Inputs, Contents, InputData, Reference, Top
    <3>3. (Innocent' <=> Innocent) /\ (Sources' <=> Sources) /\ (Recording' <=> Recording)
      BY <3>1, <3>2 DEF Innocent, Sources, Recording
    <3> QED
      BY <3>1, <3>2, <3>3 DEF ViewsInv, Views
  <2> QED
    BY <2>1
<1> QED
  BY <1>4, <1>5, <1>6, <1>7, <1>8, <1>9, <1>10, <1>11 DEF Next

LEMMA InitViews ==
  ASSUME Init
  PROVE  FencesInv /\ ViewsInv
<1>1. /\ procs = <<>> /\ trace = <<>> /\ rollback = Closed /\ changing = FALSE /\ stash = {}
      /\ deferred = Null /\ saved = Restart /\ seen = Unobserved /\ fences = <<>>
      /\ disk = Disk /\ fs = [f \in Entries |-> Null]
  BY DEF Init
<1>2. Top = 0 /\ Len(procs) = 0 /\ Len(trace) = 0 /\ Reference = 0
  BY <1>1 DEF Top, Reference, Closed
<1>3. FencesInv
  BY <1>1, TexEngineAssumption, SMTT(30) DEF FencesInv, Closed
<1>4. 1..Len(procs) = {} /\ 1..(Len(procs) - 1) = {}
  BY <1>2
<1>5. Shapes(Inputs, procs)
  BY <1>4 DEF Shapes
<1>6. Sources
  BY <1>1 DEF Sources
<1>7. Recording /\ ~Innocent
  BY <1>1, <1>2 DEF Recording, Innocent
<1>8. Levels(Inputs, procs, saved)
  <2>1. DOMAIN saved = Entries /\ \A f \in Inputs : Plain(saved[f])
    BY <1>1, InputsEntries DEF Restart, Plain
  <2> QED
    BY <1>4, <2>1 DEF Levels
<1>9. Chain(Inputs, Contents, procs, seen, trace, 0)
  <2>1. Snapshots(Inputs, Contents, procs, seen, trace, 0)
    BY <1>4 DEF Snapshots
  <2>2. ASSUME NEW f \in Inputs, NEW j \in 0..0, NEW k \in 0..0
        PROVE  Reverted(seen, trace, j, 0)[f] <= Reverted(seen, trace, k, 0)[f]
    <3>1. f \in Entries /\ j = 0 /\ k = 0
      BY InputsEntries
    <3>2. Reverted(seen, trace, 0, 0)[f] = seen[f]
      BY <3>1, RevertedHere
    <3>3. seen[f] = -1
      BY <1>1, <3>1 DEF Unobserved
    <3> QED
      BY <3>1, <3>2, <3>3
  <2> QED
    BY <2>1, <2>2 DEF Chain, Grows
<1> QED
  BY <1>2, <1>3, <1>5, <1>6, <1>7, <1>8, <1>9 DEF ViewsInv, Views

-----------------------------------------------------------------------------
(* What the properties say of a view *)

LEMMA PrefixIs ==
  ASSUME NEW S, NEW T, NEW s \in Seq(S), NEW t \in Seq(T)
  PROVE  IsPrefix(s, t) <=> Len(s) <= Len(t) /\ \A i \in 1..Len(s) : s[i] = t[i]
BY DEF IsPrefix

LEMMA HistoryIs ==
  ASSUME NEW f, NEW d \in Stored, d = InputData(f)
  PROVE  /\ History(f) \in Seq(Observation) /\ Len(History(f)) = Sights(d)
         /\ \A k \in 1..Sights(d) : History(f)[k] = Sight(d, k)
<1>1. CASE d = Null
  <2>1. History(f) = <<Absent>>
    BY <1>1 DEF History
  <2> QED
    BY <1>1, <2>1 DEF Sights, Sight, Observation
<1>2. CASE d # Null
  <2>1. History(f) = <<Opened>> \o d \o <<Eof>>
    BY <1>2 DEF History
  <2>2. d \in Seq(Observation) /\ Len(d) \in Nat
    BY <1>2, NullIsNoData DEF Observation
  <2>3. <<Opened>> \in Seq(Observation) /\ <<Eof>> \in Seq(Observation)
    BY DEF Observation
  <2>4. PICK s : s = <<Opened>> \o d /\ s \in Seq(Observation)
    <3>1. PICK o : o = <<Opened>> /\ o \in Seq(Observation)
      BY <2>3
    <3>2. o \o d \in Seq(Observation)
      BY <2>2, <3>1
    <3> QED
      BY <3>1, <3>2
  <2>5. Len(s) = Len(d) + 1 /\ s[1] = Opened /\ \A k \in 2..(Len(d) + 1) : s[k] = d[k - 1]
    BY <2>2, <2>4
  <2>6. PICK t : t = s \o <<Eof>> /\ t = History(f)
    BY <2>1, <2>4
  <2>7. /\ t \in Seq(Observation) /\ Len(t) = Len(d) + 2 /\ t[Len(d) + 2] = Eof
        /\ \A k \in 1..(Len(d) + 1) : t[k] = s[k]
    BY <2>2, <2>3, <2>4, <2>5, <2>6
  <2>8. Sights(d) = Len(d) + 2
    BY <1>2 DEF Sights
  <2>9. ASSUME NEW k \in 1..(Len(d) + 2)
        PROVE  t[k] = Sight(d, k)
    <3>1. CASE k = 1
      BY <1>2, <2>2, <2>5, <2>7, <3>1 DEF Sight
    <3>2. CASE k # 1 /\ k <= Len(d) + 1
      <4>1. k \in 2..(Len(d) + 1) /\ k \in 1..(Len(d) + 1)
        BY <2>2, <3>2
      <4>2. t[k] = d[k - 1]
        BY <2>5, <2>7, <4>1
      <4> QED
        BY <1>2, <3>2, <4>2 DEF Sight
    <3>3. CASE ~(k <= Len(d) + 1)
      <4>1. k = Len(d) + 2 /\ k # 1
        BY <2>2, <3>3
      <4> QED
        BY <1>2, <2>7, <3>3, <4>1 DEF Sight
    <3> QED
      BY <3>1, <3>2, <3>3
  <2> QED
    BY <2>6, <2>7, <2>8, <2>9
<1> QED
  BY <1>1, <1>2

LEMMA ShowsPrefix ==
  ASSUME NEW f, NEW d \in Stored, d = InputData(f), NEW v \in Seq(Observation), Shows(v, d)
  PROVE  IsPrefix(v, History(f))
<1>1. PICK h \in Seq(Observation) : h = History(f) /\ Len(h) = Sights(d)
                                    /\ \A k \in 1..Sights(d) : h[k] = Sight(d, k)
  BY HistoryIs
<1>2. Len(v) \in Nat /\ Len(h) \in Nat /\ Len(v) <= Len(h)
  BY <1>1 DEF Shows
<1>3. \A k \in 1..Len(v) : v[k] = h[k]
  <2>1. \A k \in 1..Len(v) : k \in 1..Len(h)
    BY <1>2
  <2> QED
    BY <1>1, <2>1 DEF Shows
<1> QED
  BY <1>1, <1>2, <1>3, PrefixIs

LEMMA FreshPrefix ==
  ASSUME NEW v \in Seq(Observation), Fresh(v)
  PROVE  IsPrefix(<<Absent>>, v)
<1>1. PICK s : s = <<Absent>>
  OBVIOUS
<1>2. s \in Seq({Absent}) /\ Len(s) = 1 /\ s[1] = Absent
  BY <1>1
<1>3. Len(s) <= Len(v) /\ \A k \in 1..Len(s) : s[k] = v[k]
  BY <1>2 DEF Fresh
<1>4. IsPrefix(s, v)
  BY <1>2, <1>3, PrefixIs
<1> QED
  BY <1>1, <1>4

(* Outside of the transactions the invariant is about every process. *)
LEMMA EachEntry ==
  ASSUME Inv, ViewsInv, ~changing, aborted = "no", NEW i \in 1..Top, NEW f \in Inputs
  PROVE  /\ f \in Entries /\ procs[i].view[f] \in Seq(Observation)
         /\ \E lv : Account(f, InputData(f), procs[i].view[f], lv)
<1>1. PICK N \in Nat : N = Top /\ N = Len(procs) /\ i \in 1..N
  BY StackTyped DEF Inv, Top
<1>2. Views /\ f \in Entries
  BY InputsEntries DEF ViewsInv
<1>3. Contents[f] = InputData(f)
  BY <1>2 DEF Contents
<1>4. procs[i].view[f] \in Seq(Observation)
  BY <1>1, <1>2 DEF Views, Shapes, Shape
<1>5. CASE i = N
  <2>1. Runs(Inputs, Contents, procs[Top], saved, seen, FALSE)
    <3>1. Top > 0
      BY <1>1
    <3> QED
      BY <1>2, <3>1, RunsNow
  <2>2. Account(f, Contents[f], procs[i].view[f], saved[f].level)
    BY <1>1, <1>5, <2>1 DEF Runs
  <2> QED
    BY <1>2, <1>3, <1>4, <2>2
<1>6. CASE i # N
  <2>1. i \in 1..(N - 1)
    BY <1>1, <1>6
  <2>2. Reference = Len(trace) /\ procs[i].len <= Len(trace)
    BY <1>1, <2>1, ReferenceTyped, LengthsOfProcs
  <2>3. Snapshots(Inputs, Contents, procs, seen, trace, Reference)
    BY <1>2 DEF Views, Chain
  <2>4. Account(f, Contents[f], procs[i].view[f], procs[i].copy[f].level)
    BY <1>1, <2>1, <2>2, <2>3 DEF Snapshots, Entry
  <2> QED
    BY <1>2, <1>3, <1>4, <2>4
<1> QED
  BY <1>5, <1>6

LEMMA ViewsAreCurrent ==
  ASSUME Inv, TraceInv, ViewsInv
  PROVE  InputsCurrent
<1> SUFFICES ASSUME ~changing, aborted = "no", NEW i \in 1..Top, NEW f \in Inputs
             PROVE  \/ IsPrefix(procs[i].view[f], History(f))
                    \/ f \in DiskFiles /\ IsPrefix(<<Absent>>, procs[i].view[f])
  BY DEF InputsCurrent, Inputs
<1>1. PICK d, v, lv : /\ d = InputData(f) /\ v = procs[i].view[f] /\ v \in Seq(Observation)
                      /\ f \in Entries /\ Account(f, d, v, lv)
  BY EachEntry
<1>2. d \in Stored
  BY <1>1, ContentsStored DEF TraceInv
<1>3. CASE Shows(v, d)
  BY <1>1, <1>2, <1>3, ShowsPrefix
<1>4. CASE Excused(f, v)
  BY <1>1, <1>4, FreshPrefix DEF Excused
<1> QED
  BY <1>1, <1>3, <1>4 DEF Account

-----------------------------------------------------------------------------
(* Sessions where every file is an input that only the editor changes *)

EditorSession ==
  /\ PlainSession
  /\ DiskFiles = {}
  /\ \A p \in Programs : \A k \in DOMAIN p : p[k].op # "create"

LEMMA AllInputs ==
  ASSUME Inv, EditorSession
  PROVE  Inputs = Entries
<1>1. {prog[i].file : i \in {i \in DOMAIN prog : prog[i].op = "create"}} = {}
  <2>1. prog \in Programs
    BY DEF Inv, Typed
  <2>2. \A k \in DOMAIN prog : prog[k].op # "create"
    BY <2>1 DEF EditorSession
  <2> QED
    BY <2>2
<1> QED
  BY <1>1 DEF Inputs

LEMMA EditorViewsAreCurrent ==
  ASSUME EditorSession, Inv, TraceInv, ViewsInv
  PROVE  ViewsCurrent
<1> SUFFICES ASSUME ~changing, aborted = "no", NEW i \in 1..Top, NEW f \in Entries
             PROVE  IsPrefix(procs[i].view[f], History(f))
  BY DEF ViewsCurrent
<1>1. f \in Inputs
  BY AllInputs
<1>2. PICK d, v, lv : /\ d = InputData(f) /\ v = procs[i].view[f] /\ v \in Seq(Observation)
                      /\ Account(f, d, v, lv)
  BY <1>1, EachEntry
<1>3. d \in Stored
  BY <1>2, ContentsStored DEF TraceInv
<1>4. Shows(v, d)
  BY <1>2 DEF Account, Excused, EditorSession
<1> QED
  BY <1>2, <1>3, <1>4, ShowsPrefix

Joins(S, u, t, w) ==
  /\ w \in Seq(S) /\ Len(w) = Len(u) + Len(t)
  /\ \A k \in 1..Len(u) : w[k] = u[k]
  /\ \A k \in 1..Len(t) : w[Len(u) + k] = t[k]

LEMMA Joined ==
  ASSUME NEW S, NEW u \in Seq(S), NEW t \in Seq(S)
  PROVE  Joins(S, u, t, u \o t)
BY DEF Joins

(* What was observed, followed by what was read ahead *)
LEMMA AheadPrefix ==
  ASSUME NEW f, NEW d \in Stored, d = InputData(f), NEW v \in Seq(Observation), Shows(v, d),
         NEW pos \in Nat, pos + 1 <= Len(v), NEW buf \in Seq(Bytes), BytesOf(buf, d, pos)
  PROVE  buf = <<>> \/ IsPrefix(SubSeq(v, 1, pos + 1) \o buf, History(f))
<1> SUFFICES ASSUME buf # <<>>
             PROVE  IsPrefix(SubSeq(v, 1, pos + 1) \o buf, History(f))
  OBVIOUS
<1>1. Len(buf) \in Nat /\ Len(buf) # 0
  OBVIOUS
<1>2. d \in Seq(Bytes) /\ d # Null /\ Len(d) \in Nat /\ pos + Len(buf) <= Len(d)
      /\ \A k \in 1..Len(buf) : buf[k] = d[pos + k]
  BY <1>1, NullIsNoData DEF BytesOf
<1>3. PICK u : u = SubSeq(v, 1, pos + 1)
  OBVIOUS
<1>4. u \in Seq(Observation) /\ Len(u) = pos + 1 /\ \A k \in 1..(pos + 1) : u[k] = v[k]
  <2>1. PICK m \in Nat : m = pos + 1
    OBVIOUS
  <2>2. m <= Len(v)
    BY <2>1
  <2>3. SubSeq(v, 1, m) \in Seq(Observation) /\ Len(SubSeq(v, 1, m)) = m
        /\ \A k \in 1..m : SubSeq(v, 1, m)[k] = v[k]
    BY <2>2, CutSequence
  <2> QED
    BY <1>3, <2>1, <2>3
<1>5. PICK h \in Seq(Observation) : h = History(f) /\ Len(h) = Sights(d)
                                    /\ \A k \in 1..Sights(d) : h[k] = Sight(d, k)
  BY HistoryIs
<1>6. buf \in Seq(Observation)
  BY DEF Observation
<1>7. PICK w : w = u \o buf
  OBVIOUS
<1>8. /\ w \in Seq(Observation) /\ Len(w) = pos + 1 + Len(buf)
      /\ \A k \in 1..(pos + 1) : w[k] = u[k]
      /\ \A k \in 1..Len(buf) : w[pos + 1 + k] = buf[k]
  <2>1. /\ w \in Seq(Observation) /\ Len(w) = Len(u) + Len(buf)
        /\ \A k \in 1..Len(u) : w[k] = u[k]
        /\ \A k \in 1..Len(buf) : w[Len(u) + k] = buf[k]
    <3>1. u \in Seq(Observation)
      BY <1>4
    <3>2. Joins(Observation, u, buf, w)
      BY <1>6, <1>7, <3>1, Joined
    <3> QED
      BY <3>2, Zenon DEF Joins
  <2>2. PICK m \in Nat : m = Len(u) /\ m = pos + 1
    BY <1>4
  <2>3. /\ w \in Seq(Observation) /\ Len(w) = m + Len(buf)
        /\ \A k \in 1..m : w[k] = u[k]
        /\ \A k \in 1..Len(buf) : w[m + k] = buf[k]
    BY <2>1, <2>2
  <2> QED
    BY <2>2, <2>3
<1>9. Sights(d) = Len(d) + 2
  BY <1>2 DEF Sights
<1>10. ASSUME NEW k \in 1..Len(w)
       PROVE  w[k] = h[k]
  <2>1. k \in 1..Sights(d)
    BY <1>1, <1>2, <1>8, <1>9
  <2>2. h[k] = Sight(d, k)
    BY <1>5, <2>1
  <2>3. CASE k <= pos + 1
    <3>1. k \in 1..(pos + 1) /\ k \in 1..Len(v)
      BY <2>3
    <3>2. w[k] = v[k] /\ v[k] = Sight(d, k)
      BY <1>4, <1>8, <3>1 DEF Shows
    <3> QED
      BY <2>2, <3>2
  <2>4. CASE ~(k <= pos + 1)
    <3>1. PICK j \in 1..Len(buf) : k = pos + 1 + j
      <4>1. k - (pos + 1) \in 1..Len(buf) /\ k = pos + 1 + (k - (pos + 1))
        BY <1>1, <1>8, <2>4
      <4> QED
        BY <4>1
    <3>2. w[k] = d[pos + j]
      BY <1>2, <1>8, <3>1
    <3>3. k # 1 /\ k <= Len(d) + 1 /\ k - 1 = pos + j
      BY <1>1, <1>2, <3>1
    <3>4. Sight(d, k) = d[k - 1]
      BY <1>2, <3>3 DEF Sight
    <3> QED
      BY <2>2, <3>2, <3>3, <3>4
  <2> QED
    BY <2>3, <2>4
<1>11. Len(w) <= Len(h)
  BY <1>1, <1>2, <1>5, <1>8, <1>9
<1>12. IsPrefix(w, h)
  BY <1>5, <1>8, <1>10, <1>11, PrefixIs
<1> QED
  BY <1>3, <1>5, <1>7, <1>12

LEMMA EditorBuffersAreCurrent ==
  ASSUME EditorSession, Inv, TraceInv, ViewsInv
  PROVE  BuffersCurrent
<1> SUFFICES ASSUME ~changing, aborted = "no", NEW i \in 1..Top, Alive(i), NEW f \in Entries
             PROVE  procs[i].flush \/ procs[i].buf[f] = <<>>
                      \/ IsPrefix(SubSeq(procs[i].view[f], 1, procs[i].pos[f] + 1) \o procs[i].buf[f],
                                  History(f))
  BY DEF BuffersCurrent
<1>1. f \in Inputs /\ Views
  BY AllInputs DEF ViewsInv
<1>2. PICK N \in Nat : N = Top /\ i \in 1..N
  BY StackTyped DEF Inv
<1>3. CASE i # N
  <2>1. i \in 1..(Top - 1)
    BY <1>2, <1>3
  <2>2. procs[i].buf = NoBuffers
    BY <2>1 DEF Inv, StackInv, Parked
  <2> QED
    BY <2>2 DEF NoBuffers
<1>4. CASE i = N
  <2>1. Top > 0 /\ procs[Top] = procs[i] /\ procs[i].fd
    BY <1>2, <1>4 DEF Alive
  <2>2. Runs(Inputs, Contents, procs[i], saved, seen, FALSE)
    BY <1>1, <2>1, RunsNow
  <2>3. PICK d, v, pos, buf, lv : /\ d = InputData(f) /\ v = procs[i].view[f] /\ pos = procs[i].pos[f]
                                  /\ buf = procs[i].buf[f] /\ lv = saved[f].level
    OBVIOUS
  <2>4. d = Contents[f] /\ d \in Stored
    BY <2>3, ContentsStored DEF TraceInv
  <2>5. Account(f, d, v, lv) /\ (procs[i].flush \/ Ahead(f, d, v, pos, buf, lv))
    BY <1>1, <2>1, <2>2, <2>3, <2>4 DEF Runs
  <2>6. Shape(f, v, pos, buf) /\ pos \in Nat
    <3>1. procs[i].pos \in [Entries -> Nat]
      BY <2>1, PosTyped DEF Inv
    <3>2. Shape(f, v, pos, buf)
      BY <1>1, <2>1, <2>3, TopDomains
    <3> QED
      BY <2>3, <3>1, <3>2
  <2>7. Shows(v, d) /\ (procs[i].flush \/ BytesOf(buf, d, pos))
    BY <2>5 DEF Account, Ahead, Excused, EditorSession
  <2>8. v \in Seq(Observation) /\ buf \in Seq(Bytes)
    BY <2>6 DEF Shape
  <2>9. buf = <<>> \/ pos + 1 <= Len(v)
    <3>1. CASE Len(v) = 0
      BY <2>6, <2>8, <3>1 DEF Shape
    <3>2. CASE Len(v) # 0
      BY <2>6, <2>8, <3>2 DEF Shape
    <3> QED
      BY <3>1, <3>2
  <2>10. procs[i].flush \/ buf = <<>> \/ IsPrefix(SubSeq(v, 1, pos + 1) \o buf, History(f))
    BY <2>3, <2>4, <2>6, <2>7, <2>8, <2>9, AheadPrefix
  <2> QED
    BY <2>3, <2>10
<1> QED
  BY <1>3, <1>4

(* The number of bytes that were observed, from what was *)
LEMMA BytesObserved ==
  ASSUME NEW d \in Stored, NEW v \in Seq(Observation), Shows(v, d), v # <<>>, v # <<Absent>>,
         NEW lv, NEW s \in Int, Known(v, lv, s), Told(v, s)
  PROVE  Cardinality({k \in DOMAIN v : v[k] \in Bytes}) = s
<1>1. Len(v) \in Nat /\ Len(v) > 0 /\ DOMAIN v = 1..Len(v)
  OBVIOUS
<1>2. d # Null
  <2> SUFFICES ASSUME d = Null
               PROVE  FALSE
    OBVIOUS
  <2>1. Len(v) = 1 /\ v[1] = Absent
    BY <1>1 DEF Shows, Sights, Sight
  <2>2. v = <<Absent>>
    BY <2>1
  <2> QED
    BY <2>2
<1>3. Len(d) \in Nat /\ \A k \in 1..Len(d) : d[k] \in Bytes
  BY <1>2, NullIsNoData
<1>4. PICK n \in Nat : n = Len(d)
  BY <1>3
<1>5. PICK l \in Nat : l = Len(v) /\ l <= n + 2 /\ l > 0
  BY <1>1, <1>2, <1>4 DEF Shows, Sights
<1>6. \A k \in 1..l : v[k] = Sight(d, k)
  BY <1>5 DEF Shows
<1>7. v[1] = Opened
  BY <1>2, <1>5, <1>6 DEF Sight
<1>8. ASSUME NEW k \in 1..l
      PROVE  v[k] \in Bytes <=> k > 1 /\ k <= n + 1
  <2>1. CASE k = 1
    BY <1>7, <2>1, ObservationsDiffer
  <2>2. CASE k # 1 /\ k <= n + 1
    <3>1. v[k] = d[k - 1] /\ k - 1 \in 1..Len(d)
      BY <1>2, <1>4, <1>6, <2>2 DEF Sight
    <3> QED
      BY <1>3, <2>2, <3>1
  <2>3. CASE ~(k <= n + 1)
    <3>1. k # 1
      BY <2>3
    <3>2. v[k] = Eof
      BY <1>2, <1>4, <1>6, <2>3, <3>1 DEF Sight
    <3> QED
      BY <2>3, <3>2, ObservationsDiffer
  <2> QED
    BY <2>1, <2>2, <2>3
<1>9. s >= 0
  BY <1>5 DEF Known
<1>10. s + 1 <= l /\ s <= n
  <2>1. CASE s = 0
    BY <1>5, <2>1
  <2>2. CASE s > 0
    <3>1. s + 1 <= l /\ v[s + 1] \in Bytes
      BY <1>5, <1>7, <2>2 DEF Known
    <3>2. s + 1 \in 1..l
      BY <2>2, <3>1
    <3> QED
      BY <1>8, <3>1, <3>2
  <2> QED
    BY <1>9, <2>1, <2>2
<1>11. ASSUME NEW k \in 1..l, k > 1, k <= n + 1
       PROVE  k <= s + 1
  <2>1. v[k] \in Bytes
    BY <1>8, <1>11
  <2>2. k - 1 <= s
    BY <1>5, <2>1 DEF Told
  <2> QED
    BY <2>2
<1>12. {k \in DOMAIN v : v[k] \in Bytes} = 2..(s + 1)
  <2>1. ASSUME NEW k \in 1..l, v[k] \in Bytes
        PROVE  k \in 2..(s + 1)
    BY <1>8, <1>11, <2>1
  <2>2. ASSUME NEW k \in 2..(s + 1)
        PROVE  k \in 1..l /\ v[k] \in Bytes
    <3>1. k \in 1..l /\ k > 1 /\ k <= n + 1
      BY <1>10
    <3> QED
      BY <1>8, <3>1
  <2>3. DOMAIN v = 1..l
    BY <1>1, <1>5
  <2> QED
    BY <2>1, <2>2, <2>3
<1>13. Cardinality(2..(s + 1)) = s
  <2>1. 2 \in Int /\ s + 1 \in Int
    OBVIOUS
  <2>2. Cardinality(2..(s + 1)) = IF 2 > s + 1 THEN 0 ELSE (s + 1) - 2 + 1
    BY <2>1, FS_Interval
  <2> QED
    BY <1>9, <2>2
<1> QED
  BY <1>12, <1>13

(* What a process has told of a file, from what it has observed *)
ObservedOf(v) ==
  IF v = <<>> THEN -1
  ELSE IF v = <<Absent>> THEN IntMax
  ELSE Cardinality({k \in DOMAIN v : v[k] \in Bytes})

LEMMA ObservedTyped ==
  ASSUME NEW v \in Seq(Observation)
  PROVE  ObservedOf(v) \in Int
<1>1. Len(v) \in Nat /\ DOMAIN v = 1..Len(v)
  OBVIOUS
<1>2. IsFiniteSet(1..Len(v))
  BY <1>1, FS_Interval
<1>3. {k \in DOMAIN v : v[k] \in Bytes} \subseteq 1..Len(v)
  BY <1>1
<1>4. IsFiniteSet({k \in DOMAIN v : v[k] \in Bytes})
  BY <1>2, <1>3, FS_Subset
<1>5. Cardinality({k \in DOMAIN v : v[k] \in Bytes}) \in Nat
  BY <1>4, FS_CardinalityType
<1> QED
  BY <1>5, TexEngineAssumption DEF ObservedOf

LEMMA EntryObserved ==
  ASSUME EditorSession, NEW f, NEW d \in Stored, NEW v \in Seq(Observation), NEW lv,
         NEW s \in Int, Entry(f, d, v, lv, s)
  PROVE  ObservedOf(v) = s
<1>1. /\ Shows(v, d) /\ (lv # "none" => d # Null) /\ Known(v, lv, s) /\ Told(v, s)
  BY DEF Entry, Account, Excused, EditorSession
<1>2. CASE v = <<>>
  <2>1. s = -1
    BY <1>1, <1>2 DEF Known
  <2> QED
    BY <1>2, <2>1 DEF ObservedOf
<1>3. CASE v = <<Absent>>
  <2>1. Len(v) = 1 /\ v[1] = Absent /\ v # <<>>
    BY <1>3
  <2>2. d = Null
    <3>1. Sight(d, 1) = Absent
      BY <1>1, <2>1 DEF Shows
    <3> QED
      BY <3>1, ObservationsDiffer DEF Sight
  <2>3. s = IntMax
    BY <1>1, <2>1, <2>2 DEF Known
  <2> QED
    BY <1>3, <2>1, <2>3 DEF ObservedOf
<1>4. CASE v # <<>> /\ v # <<Absent>>
  <2>1. Cardinality({k \in DOMAIN v : v[k] \in Bytes}) = s
    BY <1>1, <1>4, BytesObserved
  <2> QED
    BY <1>4, <2>1 DEF ObservedOf
<1> QED
  BY <1>2, <1>3, <1>4

LEMMA TraceIsExact ==
  ASSUME EditorSession, Inv, TraceInv, ViewsInv
  PROVE  TraceExact
<1> SUFFICES ASSUME ~changing, aborted = "no", NEW i \in 1..(Top - 1), NEW f \in Entries
             PROVE  Reverted(seen, trace, procs[i].len, Len(trace))[f] = Observed(i, f)
  BY DEF TraceExact
<1>1. f \in Inputs /\ Views
  BY AllInputs DEF ViewsInv
<1>2. PICK N \in Nat : N = Top /\ N = Len(procs) /\ i \in 1..(N - 1)
  BY StackTyped DEF Inv, Top
<1>3. procs[i].len \in Nat /\ procs[i].len <= Len(trace) /\ Reference = Len(trace)
  <2>1. Lengths(procs) /\ procs[i].len <= Len(trace)
    BY LengthsOfProcs
  <2>2. Reference = Len(trace)
    BY ReferenceTyped
  <2> QED
    BY <1>2, <2>1, <2>2 DEF Lengths
<1>4. PICK s : s = Reverted(seen, trace, procs[i].len, Len(trace))[f]
  OBVIOUS
<1>5. PICK v, lv, d : v = procs[i].view[f] /\ lv = procs[i].copy[f].level /\ d = Contents[f]
  OBVIOUS
<1>6. Entry(f, d, v, lv, s)
  <2>1. Snapshots(Inputs, Contents, procs, seen, trace, Reference)
    BY <1>1 DEF Views, Chain
  <2> QED
    BY <1>1, <1>2, <1>3, <1>4, <1>5, <2>1 DEF Snapshots
<1>7. s \in Int
  <2>1. /\ seen \in [Entries -> Int] /\ trace \in Seq(TraceEntry) /\ Len(trace) \in Nat
    BY DEF Inv, Typed
  <2>2. PICK a \in Nat, b \in Int : a = procs[i].len /\ b = Len(trace) /\ b <= Len(trace)
    BY <1>3, <2>1
  <2>3. Reverted(seen, trace, a, b) \in [Entries -> Int]
    BY <2>1, <2>2, RevertedTyped
  <2> QED
    BY <1>4, <2>2, <2>3
<1>8. d \in Stored /\ v \in Seq(Observation)
  <2>1. v \in Seq(Observation)
    BY <1>1, <1>2, <1>5 DEF Views, Shapes, Shape
  <2>2. d \in Stored
    BY <1>5, ContentsStored DEF TraceInv
  <2> QED
    BY <2>1, <2>2
<1>9. ObservedOf(v) = s
  BY <1>6, <1>7, <1>8, EntryObserved
<1>10. Observed(i, f) = ObservedOf(v)
  BY <1>5 DEF Observed, ObservedOf
<1> QED
  BY <1>4, <1>9, <1>10

-----------------------------------------------------------------------------
LEMMA AlwaysViews ==
  ASSUME PlainSession
  PROVE  Spec /\ []OnePending => [](Inv /\ TraceInv /\ ViewsInv)
<1>1. Init => Inv /\ TraceInv /\ FencesInv /\ ViewsInv
  BY InitInv, InitTrace, InitViews
<1>2. /\ Inv /\ TraceInv /\ FencesInv /\ ViewsInv
      /\ OnePending /\ [Next]_vars
      => (Inv /\ TraceInv /\ FencesInv /\ ViewsInv)'
  <2> SUFFICES ASSUME Inv, TraceInv, FencesInv, ViewsInv, OnePending, [Next]_vars
               PROVE  (Inv /\ TraceInv /\ FencesInv /\ ViewsInv)'
    OBVIOUS
  <2>1. Inv' /\ TraceInv'
    BY NextKeeps, NextForgets DEF PlainSession
  <2> QED
    BY <2>1, NextFences, NextViews
<1> QED
  BY <1>1, <1>2, PTL DEF Spec

(* Outside of the transactions, whatever a worker of the stack has observed   *)
(* of an input file is the beginning of what the file holds now: no change of *)
(* an editor or of the disk, in any order with the messages of the workers,   *)
(* leaves behind a worker, running or parked by a fork, that has read what is *)
(* no more (rollback_add_change, rollback_end and rollback_processes drop     *)
(* enough, and C_FLSH the rest).  A file that was missing and has appeared on *)
(* the disk is excepted, as in the code.                                      *)
THEOREM WorkersReadWhatIs == PlainSession => (Spec /\ []OnePending => []InputsCurrent)
<1> SUFFICES ASSUME PlainSession
             PROVE  Spec /\ []OnePending => []InputsCurrent
  OBVIOUS
<1>1. Inv /\ TraceInv /\ ViewsInv => InputsCurrent
  BY ViewsAreCurrent
<1> QED
  BY <1>1, AlwaysViews, PTL

(* The same without exception, when the document only reads and only the      *)
(* editor changes its files.                                                  *)
THEOREM EditorWorkersReadWhatIs == EditorSession => (Spec /\ []OnePending => []ViewsCurrent)
<1> SUFFICES ASSUME EditorSession
             PROVE  Spec /\ []OnePending => []ViewsCurrent
  OBVIOUS
<1>1. Inv /\ TraceInv /\ ViewsInv => ViewsCurrent
  BY EditorViewsAreCurrent
<1>2. PlainSession
  BY DEF EditorSession
<1> QED
  BY <1>1, <1>2, AlwaysViews, PTL

(* What a live worker has read ahead (texpresso_bread) continues what it has  *)
(* observed of the file as it is now, or it was told to drop it before it     *)
(* uses it (C_FLSH of end_changes).                                           *)
THEOREM BuffersHoldWhatIs == EditorSession => (Spec /\ []OnePending => []BuffersCurrent)
<1> SUFFICES ASSUME EditorSession
             PROVE  Spec /\ []OnePending => []BuffersCurrent
  OBVIOUS
<1>1. Inv /\ TraceInv /\ ViewsInv => BuffersCurrent
  BY EditorBuffersAreCurrent
<1>2. PlainSession
  BY DEF EditorSession
<1> QED
  BY <1>1, <1>2, AlwaysViews, PTL

(* Reverting the trace down to a snapshot gives exactly what the snapshot had *)
(* observed of each file, when it was made: the trace of record_seen has      *)
(* neither lost nor merged what rollback_processes needs.                     *)
THEOREM TraceTellsSnapshots == EditorSession => (Spec /\ []OnePending => []TraceExact)
<1> SUFFICES ASSUME EditorSession
             PROVE  Spec /\ []OnePending => []TraceExact
  OBVIOUS
<1>1. Inv /\ TraceInv /\ ViewsInv => TraceExact
  BY TraceIsExact
<1>2. PlainSession
  BY DEF EditorSession
<1> QED
  BY <1>1, <1>2, AlwaysViews, PTL

-----------------------------------------------------------------------------
(* A rollback only drops what has the change in its past *)

(* The snapshots beyond length n have observed at least what the transaction *)
(* says, and the change that made it go back to n.                           *)
Reached(ps, sn, n) ==
  \A i \in 1..(Len(ps) - 1) : ps[i].len > n =>
    \A g \in Entries : ObservedOf(ps[i].view[g]) >= sn[g]

Met(ps, tr, n, offset) ==
  \A i \in 1..(Len(ps) - 1) : ps[i].len > n =>
    ObservedOf(ps[i].view[tr[n + 1].entry]) >= offset

Beyond(ps, sn, tr, n, offset) == Reached(ps, sn, n) /\ Met(ps, tr, n, offset)

DropInv ==
  aborted = "no" /\ changing /\ rollback.len # NotInTransaction =>
    Beyond(procs, seen, trace, rollback.len, rollback.offset)

LEMMA BeyondSame ==
  ASSUME NEW ps, NEW ps2, Len(ps2) = Len(ps), \A i \in 1..(Len(ps) - 1) : ps2[i] = ps[i],
         NEW sn, NEW tr, NEW n, NEW offset, Beyond(ps, sn, tr, n, offset)
  PROVE  Beyond(ps2, sn, tr, n, offset)
BY DEF Beyond, Reached, Met

(* Nothing is beyond the whole trace. *)
LEMMA NothingBeyond ==
  ASSUME Inv', rollback'.len = Len(trace')
  PROVE  DropInv'
<1>1. Top' = Len(procs') /\ Len(procs') \in Nat /\ Len(trace') \in Nat
  BY DEF Inv, Typed, Top
<1>2. ASSUME NEW i \in 1..(Len(procs') - 1)
      PROVE  ~(procs'[i].len > rollback'.len)
  <2>1. i \in 1..Top' /\ i \in 1..(Top' - 1)
    BY <1>1
  <2>2. procs'[i].len \in Nat /\ procs'[i].len <= Len(trace')
    BY <2>1 DEF Inv, StackInv, Wellformed
  <2> QED
    BY <1>1, <2>2
<1> QED
  BY <1>2 DEF DropInv, Beyond, Reached, Met

(* The entry where the position of f passes the offset is one of f. *)
LEMMA CrossingEntry ==
  ASSUME NEW sn, NEW tr, NEW m \in Nat, NEW c \in Nat, Follows(c, m), NEW n \in Nat, c <= n,
         NEW f \in Entries,
         Reverted(sn, tr, m, n)[f] # Reverted(sn, tr, c, n)[f]
  PROVE  tr[c].entry = f
<1> SUFFICES ASSUME tr[c].entry # f
             PROVE  FALSE
  OBVIOUS
<1>1. PICK mid : mid = Reverted(sn, tr, c, n)
  OBVIOUS
<1>2. m <= c
  BY DEF Follows
<1>3. Reverted(Reverted(sn, tr, c, n), tr, m, c)[f] = Reverted(sn, tr, m, n)[f]
  BY <1>2, RevertedTwice
<1>4. NoEntry(tr, m, c, f)
  BY DEF NoEntry, Follows
<1>5. Reverted(mid, tr, m, c)[f] = mid[f]
  BY <1>4, RevertedNone
<1> QED
  BY <1>1, <1>3, <1>5

(* What a snapshot that is kept has told is what the trace tells. *)
LEMMA ChainObserved ==
  ASSUME EditorSession, NEW D, \A g \in Entries : D[g] \in Stored, NEW ps, Lengths(ps),
         Shapes(Entries, ps), NEW sn \in [Entries -> Int], NEW tr \in Seq(TraceEntry),
         NEW n \in Nat, n <= Len(tr), Chain(Entries, D, ps, sn, tr, n),
         NEW i \in 1..(Len(ps) - 1), ps[i].len <= n, NEW g \in Entries
  PROVE  ObservedOf(ps[i].view[g]) = Reverted(sn, tr, ps[i].len, n)[g]
<1>1. PICK a \in Nat : a = ps[i].len
  BY DEF Lengths
<1>2. PICK s : s = Reverted(sn, tr, a, n)[g]
  OBVIOUS
<1>3. s \in Int
  <2>1. Reverted(sn, tr, a, n) \in [Entries -> Int]
    BY RevertedTyped
  <2> QED
    BY <1>2, <2>1
<1>4. PICK v, lv, d : v = ps[i].view[g] /\ lv = ps[i].copy[g].level /\ d = D[g]
  OBVIOUS
<1>5. Entry(g, d, v, lv, s)
  BY <1>1, <1>2, <1>4 DEF Chain, Snapshots
<1>6. d \in Stored /\ v \in Seq(Observation)
  <2>1. i \in 1..Len(ps)
    BY DEF Lengths
  <2>2. Shape(g, ps[i].view[g], ps[i].pos[g], ps[i].buf[g])
    BY <2>1 DEF Shapes
  <2> QED
    BY <1>4, <2>2 DEF Shape
<1>7. ObservedOf(v) = s
  BY <1>3, <1>5, <1>6, EntryObserved
<1> QED
  BY <1>1, <1>2, <1>4, <1>7

(* The loop of rollback_add_change stops at the first entry that matters. *)
LEMMA RewindBeyond ==
  ASSUME EditorSession, NEW D, \A g \in Entries : D[g] \in Stored, Lengths(procs),
         Shapes(Entries, procs), NEW sn \in [Entries -> Int], NEW tr \in Seq(TraceEntry),
         NEW len \in Nat, len <= Len(tr), Chain(Entries, D, procs, sn, tr, len),
         Reached(procs, sn, len), NEW f \in Entries, NEW offset \in Nat, sn[f] >= offset,
         NEW flush, Rewind(f, offset, sn, tr, len, flush), aborted' # "trace"
  PROVE  rollback'.offset = offset /\ Beyond(procs, seen', tr, rollback'.len, offset)
<1>1. PICK points : points = {k \in 0..(len - 1) : Reverted(sn, tr, k, len)[f] < offset}
  OBVIOUS
<1>2. /\ points # {} /\ seen' = Reverted(sn, tr, Max(points), len)
      /\ rollback' = [len |-> Max(points), offset |-> offset, flush |-> flush]
  BY <1>1, Zenon DEF Rewind
<1>3. points \subseteq 0..(len - 1)
  BY <1>1, Zenon
<1>4. Max(points) \in points /\ \A x \in points : x <= Max(points)
  <2>1. points \subseteq Int /\ len \in Int /\ \A x \in points : x <= len
    BY <1>3
  <2> QED
    BY <1>2, <2>1, MaxIn
<1>5. PICK m \in Nat : m = Max(points) /\ m < len /\ Reverted(sn, tr, m, len)[f] < offset
  <2>1. PICK m : m = Max(points)
    OBVIOUS
  <2>2. m \in points /\ m \in 0..(len - 1)
    BY <1>3, <1>4, <2>1
  <2>3. Reverted(sn, tr, m, len)[f] < offset
    BY <1>1, <2>2
  <2> QED
    BY <2>1, <2>2, <2>3
<1>6. PICK c \in Nat : Follows(c, m) /\ c = m + 1 /\ c <= len
  BY <1>5 DEF Follows
<1>7. ASSUME NEW k \in Nat, k <= len, NEW g \in Entries
      PROVE  Reverted(sn, tr, k, len)[g] \in Int
  <2>1. Reverted(sn, tr, k, len) \in [Entries -> Int]
    BY RevertedTyped
  <2> QED
    BY <2>1
<1>8. Reverted(sn, tr, c, len)[f] >= offset
  <2>1. CASE c = len
    <3>1. Reverted(sn, tr, len, len)[f] = sn[f]
      BY RevertedHere
    <3> QED
      BY <2>1, <3>1
  <2>2. CASE c # len
    <3>1. c \in 0..(len - 1)
      BY <1>6, <2>2
    <3>2. c \notin points
      BY <1>4, <1>5, <1>6
    <3>3. ~(Reverted(sn, tr, c, len)[f] < offset)
      BY <1>1, <3>1, <3>2
    <3>4. Reverted(sn, tr, c, len)[f] \in Int
      BY <1>6, <1>7
    <3> QED
      BY <3>3, <3>4
  <2> QED
    BY <2>1, <2>2
<1>9. tr[c].entry = f
  <2>1. Reverted(sn, tr, m, len)[f] \in Int /\ Reverted(sn, tr, c, len)[f] \in Int
    BY <1>5, <1>6, <1>7
  <2>2. Reverted(sn, tr, m, len)[f] # Reverted(sn, tr, c, len)[f]
    BY <1>5, <1>8, <2>1
  <2> QED
    <3>1. m \in Nat /\ c \in Nat /\ Follows(c, m) /\ len \in Nat /\ c <= len /\ f \in Entries
      BY <1>5, <1>6
    <3> QED
      BY <2>2, <3>1, CrossingEntry
<1>10. ASSUME NEW j \in Nat, NEW k \in Nat, j <= k, k <= len, NEW g \in Entries
       PROVE  Reverted(sn, tr, j, len)[g] <= Reverted(sn, tr, k, len)[g]
  <2>1. j \in 0..len /\ k \in 0..len
    BY <1>10
  <2> QED
    BY <1>10, <2>1 DEF Chain, Grows
<1>11. ASSUME NEW i \in 1..(Len(procs) - 1), procs[i].len > m
       PROVE  /\ \A g \in Entries : ObservedOf(procs[i].view[g]) >= Reverted(sn, tr, m, len)[g]
              /\ ObservedOf(procs[i].view[f]) >= offset
  <2>1. PICK a \in Nat : a = procs[i].len /\ c <= a
    BY <1>6, <1>11 DEF Lengths
  <2>2. CASE a <= len
    <3>1. ASSUME NEW g \in Entries
          PROVE  /\ ObservedOf(procs[i].view[g]) = Reverted(sn, tr, a, len)[g]
                 /\ Reverted(sn, tr, a, len)[g] \in Int
      <4>1. procs[i].len <= len
        BY <2>1, <2>2
      <4>2. ObservedOf(procs[i].view[g]) = Reverted(sn, tr, procs[i].len, len)[g]
        <5>1. /\ \A e \in Entries : D[e] \in Stored
              /\ EditorSession /\ Lengths(procs) /\ Shapes(Entries, procs)
              /\ sn \in [Entries -> Int] /\ tr \in Seq(TraceEntry) /\ len \in Nat
              /\ len <= Len(tr) /\ Chain(Entries, D, procs, sn, tr, len)
              /\ i \in 1..(Len(procs) - 1) /\ g \in Entries
          OBVIOUS
        <5> QED
          BY <4>1, <5>1, ChainObserved, SMTT(30)
      <4> QED
        BY <1>7, <2>1, <2>2, <4>2
    <3>2. ASSUME NEW g \in Entries
          PROVE  ObservedOf(procs[i].view[g]) >= Reverted(sn, tr, m, len)[g]
      <4>1. Reverted(sn, tr, m, len)[g] <= Reverted(sn, tr, a, len)[g]
        BY <1>6, <1>10, <2>1, <2>2
      <4>2. Reverted(sn, tr, m, len)[g] \in Int
        BY <1>5, <1>7
      <4> QED
        BY <3>1, <4>1, <4>2
    <3>3. ObservedOf(procs[i].view[f]) >= offset
      <4>1. Reverted(sn, tr, c, len)[f] <= Reverted(sn, tr, a, len)[f]
        BY <1>10, <2>1, <2>2
      <4>2. Reverted(sn, tr, c, len)[f] \in Int
        BY <1>6, <1>7
      <4> QED
        BY <1>8, <3>1, <4>1, <4>2
    <3> QED
      BY <3>2, <3>3
  <2>3. CASE ~(a <= len)
    <3>1. ASSUME NEW g \in Entries
          PROVE  ObservedOf(procs[i].view[g]) >= sn[g]
      BY <2>1, <2>3 DEF Reached
    <3>2. ASSUME NEW g \in Entries
          PROVE  ObservedOf(procs[i].view[g]) \in Int
      <4>1. procs[i].view[g] \in Seq(Observation)
        <5>1. i \in 1..Len(procs)
          BY DEF Lengths
        <5> QED
          BY <5>1 DEF Shapes, Shape
      <4> QED
        BY <4>1, ObservedTyped
    <3>3. ASSUME NEW g \in Entries
          PROVE  ObservedOf(procs[i].view[g]) >= Reverted(sn, tr, m, len)[g]
      <4>1. Reverted(sn, tr, m, len)[g] <= Reverted(sn, tr, len, len)[g]
        BY <1>5, <1>10
      <4>2. Reverted(sn, tr, len, len)[g] = sn[g]
        BY RevertedHere
      <4>3. Reverted(sn, tr, m, len)[g] \in Int /\ sn[g] \in Int
        BY <1>5, <1>7
      <4> QED
        BY <3>1, <3>2, <4>1, <4>2, <4>3
    <3> QED
      BY <3>1, <3>2, <3>3
  <2> QED
    BY <2>2, <2>3
<1>12. seen' = Reverted(sn, tr, m, len) /\ rollback'.len = m /\ rollback'.offset = offset
  BY <1>2, <1>5
<1>13. Reached(procs, seen', m)
  BY <1>11, <1>12 DEF Reached
<1>14. Met(procs, tr, m, offset)
  BY <1>6, <1>9, <1>11 DEF Met
<1> QED
  BY <1>12, <1>13, <1>14 DEF Beyond

(* What the whole transaction needs of the state *)
LEMMA EditorState ==
  ASSUME EditorSession, Inv, TraceInv, Views
  PROVE  /\ Inputs = Entries /\ Lengths(procs) /\ Shapes(Entries, procs)
         /\ \A g \in Entries : Contents[g] \in Stored
         /\ seen \in [Entries -> Int] /\ trace \in Seq(TraceEntry) /\ Len(trace) \in Nat
         /\ Chain(Entries, Contents, procs, seen, trace, Reference)
<1>1. Inputs = Entries
  BY AllInputs
<1>2. \A g \in Entries : Contents[g] \in Stored
  BY ContentsStored DEF TraceInv
<1> QED
  BY <1>1, <1>2, LengthsOfProcs DEF Views, Inv, Typed

LEMMA SynchronizeBeyond ==
  ASSUME EditorSession, Inv, Inv', TraceInv, Views, changing, aborted = "no",
         rollback.len = Len(trace), Alive(Top), rollback.len # NotInTransaction,
         NEW f \in Entries, NEW offset \in Nat, seen[f] < offset,
         Synchronize(f, offset), aborted' = "no"
  PROVE  DropInv'
<1>1. PICK p : p = procs[Top]
  OBVIOUS
<1>2. PICK n \in Nat : n = Len(trace)
  BY StackTyped DEF Inv
<1>3. /\ Typed /\ Top > 0 /\ Top \in Nat /\ Transaction(rollback) /\ rollback.len = n
      /\ Reference = n
  <2>1. Typed /\ Transaction(rollback) /\ Top \in Nat /\ rollback.len = n
    BY <1>2, TransactionTyped, StackTyped DEF Inv
  <2>2. Top > 0
    BY DEF Inv, RollbackInv
  <2> QED
    BY <2>1, <2>2 DEF Reference
<1>4. Wellformed(prog, p)
  BY <1>1, <1>3, TopWellformed
<1>5. ASSUME rollback' = [rollback EXCEPT !.flush = TRUE], trace' = trace
      PROVE  DropInv'
  <2>1. rollback'.len = Len(trace')
    BY <1>2, <1>3, <1>5 DEF Transaction
  <2> QED
    BY <2>1, NothingBeyond
<1>6. CASE ~(p.out # <<>> /\ Head(p.out).tag = "SEEN")
  <2>1. \/ aborted' = "closed"
        \/ rollback' = [rollback EXCEPT !.flush = TRUE] /\ trace' = trace
    BY <1>1, <1>6, Zenon DEF Synchronize
  <2> QED
    BY <1>5, <2>1
<1>7. CASE p.out # <<>> /\ Head(p.out).tag = "SEEN"
  <2>1. PICK m : m = Head(p.out)
    OBVIOUS
  <2>2. m \in SeenMessage /\ m.file \in Entries /\ m.arg \in Nat
    BY <1>3, <1>4, <1>7, <2>1, SeenRead DEF SeenMessage
  <2>3. PICK sn : sn = [seen EXCEPT ![m.file] = m.arg]
    OBVIOUS
  <2>4. PICK tr : tr = Recorded(trace, seen, m.file)
    OBVIOUS
  <2>5. PICK q : q = [p EXCEPT !.out = Tail(@)]
    OBVIOUS
  <2>6. /\ SetTop(q)
        /\ \/ aborted' = "fence"
           \/ /\ m.arg <= seen[m.file]
              /\ rollback' = [rollback EXCEPT !.flush = TRUE] /\ UNCHANGED <<seen, trace>>
           \/ /\ ~(m.arg <= seen[m.file]) /\ trace' = tr
              /\ sn[f] >= offset /\ Rewind(f, offset, sn, tr, Len(tr), TRUE)
           \/ /\ ~(m.arg <= seen[m.file]) /\ trace' = tr
              /\ ~(sn[f] >= offset) /\ seen' = sn
              /\ rollback' = [rollback EXCEPT !.len = Len(tr), !.flush = TRUE]
    BY <1>1, <1>7, <2>1, <2>3, <2>4, <2>5, Zenon DEF Synchronize
  <2>7. Len(procs') = Len(procs) /\ \A i \in 1..(Len(procs) - 1) : procs'[i] = procs[i]
    <3>1. SameBelow
      BY <1>3, <2>6, TopSet
    <3> QED
      BY <3>1 DEF SameBelow, Top
  <2>8. CASE /\ ~(m.arg <= seen[m.file]) /\ trace' = tr
             /\ ~(sn[f] >= offset) /\ seen' = sn
             /\ rollback' = [rollback EXCEPT !.len = Len(tr), !.flush = TRUE]
    <3>1. rollback'.len = Len(trace')
      <4>1. PICK l : l = Len(tr)
        OBVIOUS
      <4>2. rollback' = [rollback EXCEPT !.len = l, !.flush = TRUE]
        BY <2>8, <4>1
      <4>3. rollback'.len = l
        BY <1>3, <4>2 DEF Transaction
      <4> QED
        BY <2>8, <4>1, <4>3
    <3> QED
      BY <3>1, NothingBeyond
  <2>9. CASE /\ ~(m.arg <= seen[m.file]) /\ trace' = tr
             /\ sn[f] >= offset /\ Rewind(f, offset, sn, tr, Len(tr), TRUE)
    <3>1. PICK D : D = Contents /\ \A g \in Entries : D[g] \in Stored
      BY EditorState
    <3>2. /\ Lengths(procs) /\ Shapes(Entries, procs) /\ seen \in [Entries -> Int]
          /\ Chain(Entries, D, procs, seen, trace, Len(trace))
      BY <1>2, <1>3, <3>1, EditorState
    <3>3. seen[m.file] <= m.arg /\ m.arg \in Int /\ sn \in [Entries -> Int]
      BY <2>2, <2>3, <2>9, <3>2
    <3>4. Chain(Entries, D, procs, sn, tr, Len(tr))
      BY <2>2, <2>3, <2>4, <3>2, <3>3, ChainRecorded
    <3>5. tr \in Seq(TraceEntry) /\ Len(tr) >= n
      BY <1>2, <1>3, <2>2, <2>4, <3>2, RecordedTyped
    <3>6. PICK l \in Nat : l = Len(tr) /\ l <= Len(tr) /\ n <= l
      BY <3>5
    <3>7. Reached(procs, sn, l)
      <4>1. ASSUME NEW i \in 1..(Len(procs) - 1)
            PROVE  ~(procs[i].len > l)
        <5>1. procs[i].len <= n
          BY <1>2, LengthsOfProcs
        <5>2. procs[i].len \in Nat
          BY <3>2 DEF Lengths
        <5> QED
          BY <3>6, <5>1, <5>2
      <4> QED
        BY <4>1 DEF Reached
    <3>8. Chain(Entries, D, procs, sn, tr, l) /\ Rewind(f, offset, sn, tr, l, TRUE)
          /\ sn[f] >= offset /\ aborted' # "trace"
      BY <2>9, <3>4, <3>6
    <3>9. rollback'.offset = offset /\ Beyond(procs, seen', tr, rollback'.len, offset)
      BY <3>1, <3>2, <3>3, <3>5, <3>6, <3>7, <3>8, RewindBeyond
    <3>10. Beyond(procs', seen', trace', rollback'.len, rollback'.offset)
      BY <2>7, <2>9, <3>9, BeyondSame
    <3> QED
      BY <3>10 DEF DropInv
  <2> QED
    BY <1>5, <2>6, <2>8, <2>9
<1> QED
  BY <1>6, <1>7

LEMMA AddChangeBeyond ==
  ASSUME EditorSession, Inv, Inv', TraceInv, Views, DropInv, changing, changing' = changing,
         aborted = "no", NEW f \in Entries, NEW offset \in Nat, AddChange(f, offset),
         aborted' = "no"
  PROVE  DropInv'
<1>1. CASE UNCHANGED <<seen, trace, procs, rollback, aborted>>
  BY <1>1 DEF DropInv
<1>2. CASE /\ rollback.len # NotInTransaction /\ seen[f] >= offset
           /\ Rewind(f, offset, seen, trace, rollback.len, rollback.flush)
           /\ UNCHANGED <<trace, procs>>
  <2>1. PICK D : D = Contents /\ \A g \in Entries : D[g] \in Stored
    BY EditorState
  <2>2. PICK n \in Nat : n = rollback.len /\ n <= Len(trace) /\ n = Reference
    BY <1>2, StackTyped DEF Inv, RollbackInv, Reference
  <2>3. /\ Lengths(procs) /\ Shapes(Entries, procs) /\ seen \in [Entries -> Int]
        /\ trace \in Seq(TraceEntry) /\ Chain(Entries, D, procs, seen, trace, n)
    BY <2>1, <2>2, EditorState
  <2>4. Reached(procs, seen, n)
    BY <1>2, <2>2 DEF DropInv, Beyond
  <2>5. Rewind(f, offset, seen, trace, n, rollback.flush) /\ aborted' # "trace"
    BY <1>2, <2>2
  <2>6. rollback'.offset = offset /\ Beyond(procs, seen', trace, rollback'.len, offset)
    BY <1>2, <2>1, <2>2, <2>3, <2>4, <2>5, RewindBeyond
  <2> QED
    BY <1>2, <2>6 DEF DropInv
<1>3. CASE /\ rollback.len # NotInTransaction /\ ~(seen[f] >= offset)
           /\ rollback.len = Len(trace) /\ Alive(Top) /\ Synchronize(f, offset)
  <2>1. seen[f] < offset
    BY <1>3 DEF Inv, Typed
  <2> QED
    BY <1>3, <2>1, SynchronizeBeyond
<1> QED
  BY <1>1, <1>2, <1>3, Zenon DEF AddChange

(* A command of the editor is a change that is notified, or none. *)
LEMMA ChangeBeyond ==
  ASSUME EditorSession, Inv, Inv', TraceInv, ViewsInv, DropInv, Change, aborted' = "no"
  PROVE  DropInv'
<1>1. /\ EditorFiles \subseteq Entries /\ DiskFiles = {}
      /\ \A f \in Entries : NewContents[f] \subseteq Seq(Bytes)
  BY TexEngineAssumption DEF EditorSession
<1>2. PICK f \in EditorFiles :
        (\E data \in NewContents[f] : EditorOpen(f, data) \/ EditorChange(f, data)) \/ EditorClose(f)
  BY <1>1, Zenon DEF Change
<1>3. f \in Entries
  BY <1>1
<1>4. changing /\ changing' = changing /\ aborted = "no"
  BY <1>2, Zenon DEF EditorOpen, EditorChange, EditorClose, Changing
<1>5. Views /\ FilesInv
  BY <1>4 DEF ViewsInv, TraceInv
<1>6. ASSUME NEW offset \in Nat, AddChange(f, offset)
      PROVE  DropInv'
  BY <1>3, <1>4, <1>5, <1>6, AddChangeBeyond
<1>7. ASSUME NEW s \in Seq(Bytes), NEW t \in Seq(Bytes)
      PROVE  FirstDiff(s, t) \in Nat
  BY FirstDiffTyped
<1>8. /\ edit[f] # Null => edit[f] \in Seq(Bytes)
      /\ fs[f] # Null => fs[f] \in Seq(Bytes)
  BY <1>3, <1>5, ContentsTyped
<1>9. CASE \E data \in NewContents[f] : EditorOpen(f, data)
  <2>1. PICK data \in NewContents[f] : EditorOpen(f, data)
    BY <1>9
  <2>2. data \in Seq(Bytes)
    BY <1>1, <1>3, <2>1
  <2>3. \/ edit[f] # Null /\ AddChange(f, FirstDiff(edit[f], data))
        \/ fs[f] # Null /\ AddChange(f, FirstDiff(fs[f], data))
        \/ AddChange(f, 0)
        \/ UNCHANGED <<seen, trace, procs, rollback, aborted>>
    BY <2>1, Zenon DEF EditorOpen
  <2>4. CASE UNCHANGED <<seen, trace, procs, rollback, aborted>>
    BY <1>4, <2>4 DEF DropInv
  <2> QED
    BY <1>6, <1>7, <1>8, <2>2, <2>3, <2>4
<1>10. CASE \E data \in NewContents[f] : EditorChange(f, data)
  <2>1. PICK data \in NewContents[f] : EditorChange(f, data)
    BY <1>10
  <2>2. PICK offset \in 0..FirstDiff(edit[f], data) : AddChange(f, offset)
    BY <2>1, Zenon DEF EditorChange
  <2> QED
    BY <1>6, <2>2
<1>11. CASE EditorClose(f)
  <2>1. edit[f] # Null /\ AddChange(f, IF fs[f] = Null THEN 0 ELSE FirstDiff(fs[f], edit[f]))
    BY <1>11, Zenon DEF EditorClose
  <2>2. CASE fs[f] = Null
    BY <1>6, <2>1, <2>2
  <2>3. CASE fs[f] # Null
    BY <1>6, <1>7, <1>8, <2>1, <2>3
  <2> QED
    BY <2>2, <2>3
<1> QED
  BY <1>2, <1>9, <1>10, <1>11

LEMMA NextBeyond ==
  ASSUME EditorSession, Inv, TraceInv, ViewsInv, DropInv, [Next]_vars
  PROVE  DropInv'
<1>1. Inv' /\ ~ResumeInBatch /\ ~RerunEnabled
  BY NextKeeps DEF EditorSession, PlainSession
<1> SUFFICES ASSUME aborted' = "no", changing', rollback'.len # NotInTransaction
             PROVE  DropInv'
  BY DEF DropInv
<1>2. CASE Consume \/ Ask
  <2>1. PICK p : SetTop(p) /\ UNCHANGED <<seen, trace, changing, rollback, aborted>> /\ Running
    BY <1>2, Zenon DEF Consume, Ask
  <2>2. Typed /\ Top > 0
    BY <2>1 DEF Inv, Running
  <2>3. Len(procs') = Len(procs) /\ \A i \in 1..(Len(procs) - 1) : procs'[i] = procs[i]
    BY <2>1, <2>2, TopSet DEF SameBelow, Top
  <2>4. Beyond(procs, seen, trace, rollback.len, rollback.offset)
    BY <2>1 DEF DropInv
  <2>5. Beyond(procs', seen', trace', rollback'.len, rollback'.offset)
    BY <2>1, <2>3, <2>4, BeyondSame
  <2> QED
    BY <2>5 DEF DropInv
<1>3. CASE Step \/ Prepare
  <2>1. ~changing /\ rollback' = rollback
    BY <1>1, <1>3, StepHarmless DEF Outside, Harmless
  <2>2. rollback = Closed
    BY <2>1 DEF Inv, RollbackInv
  <2> QED
    BY <2>1, <2>2 DEF Closed
<1>4. CASE BeginChanges
  <2>1. rollback' = IF Top = 0 THEN Closed ELSE [Closed EXCEPT !.len = Len(trace)]
    BY <1>4, Zenon DEF BeginChanges
  <2>2. trace' = trace
    BY <1>4, Zenon DEF BeginChanges
  <2>3. rollback'.len = Len(trace')
    BY <2>1, <2>2 DEF Closed
  <2> QED
    BY <1>1, <2>3, NothingBeyond
<1>5. CASE Change
  BY <1>1, <1>5, ChangeBeyond
<1>6. CASE EndChanges
  BY <1>6, Zenon DEF EndChanges
<1>7. CASE StartFinishing \/ FinishConverged \/ FinishAgain
  <2>1. ~finishing
    BY DEF TraceInv
  <2> QED
    BY <1>1, <1>7, <2>1, Zenon DEF StartFinishing, FinishConverged, FinishAgain, Finish
<1>8. CASE UNCHANGED vars
  BY <1>8 DEF vars, DropInv
<1> QED
  BY <1>2, <1>3, <1>4, <1>5, <1>6, <1>7, <1>8, Zenon DEF Next

(* rollback_processes pops what has an entry beyond the ones that stay. *)
LEMMA RollbackDrops ==
  ASSUME Inv, changing, ~Flushing, EndRollback, NEW i \in (Len(procs') + 1)..(Top - 1)
  PROVE  i \in 1..(Len(procs) - 1) /\ procs[i].len > rollback.len
<1>1. /\ Typed /\ Top \in Nat /\ Top = Len(procs) /\ Len(trace) \in Nat
      /\ rollback.len \in Nat /\ \A j \in 1..Top : TraceLen(j) \in Nat
  BY StackTyped, SettledStack DEF Inv, Typed, TraceLen, Top, EndRollback
<1>2. PICK back \in Nat : back = rollback.len
  BY <1>1
<1>3. \/ procs' = procs
      \/ \E sn : back <= 0 /\ Rollback(back, sn, 0)
      \/ \E sn : Rollback(back, sn, ResumePoint(back))
  BY <1>2, Zenon DEF EndRollback
<1>4. CASE procs' = procs
  BY <1>1, <1>4
<1>5. ASSUME NEW target \in Int, NEW sn, Rollback(back, sn, target),
             \A j \in 1..Top : TraceLen(j) <= back => TraceLen(j) <= target
      PROVE  i \in 1..(Len(procs) - 1) /\ procs[i].len > rollback.len
  <2>1. PICK kept : kept = {0} \cup {j \in 1..Top : ~Gone(j, target)}
    OBVIOUS
  <2>2. kept \subseteq {0} \cup 1..Top /\ 0 \in kept
    BY <2>1
  <2>3. Max(kept) \in kept /\ \A x \in kept : x <= Max(kept)
    <3>1. kept \subseteq Int /\ kept # {} /\ Top \in Int /\ \A x \in kept : x <= Top
      BY <1>1, <2>2
    <3> QED
      BY <3>1, MaxIn
  <2>4. PICK n \in Nat : n = Max(kept) /\ n <= Top
    <3>1. PICK n : n = Max(kept)
      OBVIOUS
    <3>2. n \in {0} \cup 1..Top
      BY <2>2, <2>3, <3>1
    <3>3. n \in Nat /\ n <= Top
      BY <1>1, <3>2
    <3> QED
      BY <3>1, <3>3
  <2>5. procs' = SubSeq(procs, 1, n)
    BY <1>5, <2>1, <2>4, Zenon DEF Rollback
  <2>6. Len(procs') = n
    <3>1. procs \in Seq({procs[j] : j \in 1..Len(procs)})
      BY <1>1 DEF Typed
    <3> QED
      BY <1>1, <2>4, <2>5, <3>1, CutSequence
  <2>7. i \in 1..(Top - 1) /\ i > n
    BY <1>1, <2>4, <2>6
  <2>8. Gone(i, target)
    <3>1. i \notin kept
      BY <2>3, <2>4, <2>7
    <3>2. i \in 1..Top
      BY <1>1, <2>7
    <3> QED
      BY <2>1, <3>1, <3>2
  <2>9. Alive(i)
    BY <2>7 DEF Inv, StackInv, Parked, Alive
  <2>10. TraceLen(i) > target /\ TraceLen(i) = procs[i].len /\ TraceLen(i) \in Nat
    BY <1>1, <2>7, <2>8, <2>9 DEF Gone, TraceLen
  <2>11. ~(TraceLen(i) <= back)
    <3>1. i \in 1..Top
      BY <1>1, <2>7
    <3> QED
      BY <1>5, <2>10, <3>1
  <2> QED
    BY <1>1, <1>2, <2>7, <2>10, <2>11
<1>6. ASSUME back <= 0
      PROVE  \A j \in 1..Top : TraceLen(j) <= back => TraceLen(j) <= 0
  BY <1>1, <1>2, <1>6
<1>7. /\ ResumePoint(back) \in Int
      /\ \A j \in 1..Top : TraceLen(j) <= back => TraceLen(j) <= ResumePoint(back)
  <2>1. PICK points : points = {-1} \cup {TraceLen(j) : j \in {j \in 1..Top : TraceLen(j) <= back}}
    OBVIOUS
  <2>2. points \subseteq Int /\ points # {} /\ back \in Int /\ \A x \in points : x <= back
    BY <1>1, <1>2, <2>1
  <2>3. Max(points) \in points /\ \A x \in points : x <= Max(points)
    BY <2>2, MaxIn
  <2>4. ResumePoint(back) = Max(points)
    BY <2>1 DEF ResumePoint
  <2>5. \A j \in 1..Top : TraceLen(j) <= back => TraceLen(j) \in points
    BY <2>1
  <2> QED
    BY <2>2, <2>3, <2>4, <2>5
<1> QED
  BY <1>3, <1>4, <1>5, <1>6, <1>7

(* A driver that has stopped does nothing. *)
LEMMA AbortedStays ==
  ASSUME Inv, aborted # "no", [Next]_vars
  PROVE  UNCHANGED vars
<1>1. ~(Step \/ Prepare)
  BY StepHarmless DEF Outside
<1>2. ~(Consume \/ Ask \/ BeginChanges \/ EndChanges)
  BY Zenon DEF Consume, Ask, BeginChanges, EndChanges
<1>3. ~Change
  BY Zenon DEF Change, EditorOpen, EditorChange, EditorClose, Changing, DiskChange, Scan,
     ScanSame
<1>4. ~(StartFinishing \/ FinishConverged \/ FinishAgain)
  BY Zenon DEF StartFinishing, FinishConverged, FinishAgain, Finish
<1> QED
  BY <1>1, <1>2, <1>3, <1>4, Zenon DEF Next

LEMMA StepDrops ==
  ASSUME Inv, DropInv, [Next]_vars, EndRollback, changing, ~Flushing,
         NEW i \in (Len(procs') + 1)..(Top - 1)
  PROVE  Observed(i, trace[rollback.len + 1].entry) >= rollback.offset
<1>1. Typed /\ Top \in Nat /\ Top = Len(procs)
  BY StackTyped DEF Inv, Top
<1>2. CASE aborted = "no"
  <2>1. i \in 1..(Len(procs) - 1) /\ procs[i].len > rollback.len
    BY RollbackDrops
  <2>2. Met(procs, trace, rollback.len, rollback.offset)
    BY <1>2 DEF DropInv, Beyond, EndRollback
  <2>3. ObservedOf(procs[i].view[trace[rollback.len + 1].entry]) >= rollback.offset
    BY <2>1, <2>2 DEF Met
  <2> QED
    BY <2>3 DEF Observed, ObservedOf
<1>3. CASE aborted # "no"
  <2>1. UNCHANGED vars
    BY <1>3, AbortedStays
  <2>2. procs' = procs
    BY <2>1 DEF vars
  <2> QED
    BY <1>1, <2>2
<1> QED
  BY <1>2, <1>3

(* A rollback drops no snapshot that could have been kept: each one that it   *)
(* pops had told of the byte that the change concerns (the loops of           *)
(* rollback_add_change over several changes of several files, and             *)
(* rollback_processes).  Together with WorkersReadWhatIs: what is dropped is  *)
(* enough, and not more.                                                      *)
THEOREM RollbacksDropLittle == EditorSession => (Spec /\ []OnePending => OnlyStaleDropped)
<1> SUFFICES ASSUME EditorSession
             PROVE  Spec /\ []OnePending => OnlyStaleDropped
  OBVIOUS
<1>1. PlainSession
  BY DEF EditorSession
<1>2. Init => DropInv
  BY DEF Init, DropInv
<1>3. Inv /\ TraceInv /\ ViewsInv /\ DropInv /\ [Next]_vars => DropInv'
  BY NextBeyond
<1>4. Inv /\ DropInv /\ [Next]_vars =>
        [EndRollback /\ changing /\ ~Flushing =>
           \A i \in (Len(procs') + 1)..(Top - 1) :
             Observed(i, trace[rollback.len + 1].entry) >= rollback.offset]_vars
  BY StepDrops
<1> QED
  BY <1>1, <1>2, <1>3, <1>4, AlwaysViews, PTL DEF Spec, OnlyStaleDropped
=============================================================================
