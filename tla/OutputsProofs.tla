---------------------------- MODULE OutputsProofs ----------------------------
(* Proofs about Outputs: whatever the worker writes and however it is rolled  *)
(* back, the indexes of the pages and of SyncTeX are those of the bytes that  *)
(* are left, and the editor has the log that is left, for any documents, any  *)
(* pieces, and any number of snapshots.                                       *)
EXTENDS Outputs, SequenceTheorems, FiniteSetTheorems, WellFoundedInduction, TLAPS

-----------------------------------------------------------------------------
(* Numbers *)

(* A set of naturals that is not empty has a least element. *)
LEMMA LeastExists ==
  ASSUME NEW S, S \subseteq Nat, S # {}
  PROVE  \E n \in S : \A m \in S : n <= m
<1>1. \E n \in S : \A m \in S : ~(<<m, n>> \in OpToRel(<, Nat))
  BY WFMin, NatLessThanWellFounded, Zenon
<1>2. PICK n \in S : \A m \in S : ~(<<m, n>> \in OpToRel(<, Nat))
  BY <1>1, Zenon
<1>3. \A m \in S : ~(m < n)
  <2> SUFFICES ASSUME NEW m \in S, m < n PROVE FALSE
    OBVIOUS
  <2>1. <<m, n>> \in Nat \X Nat
    OBVIOUS
  <2>2. <<m, n>> \in OpToRel(<, Nat)
    BY <2>1, Zenon DEF OpToRel
  <2> QED
    BY <2>2, <1>2
<1> QED
  BY <1>3

(* What holds from an integer on, and below it as long as it holds above, *)
(* holds everywhere.                                                      *)
LEMMA Downward ==
  ASSUME NEW to \in Int, NEW S, \A o \in Int : o >= to => o \in S,
         \A o \in Int : o < to /\ (\A p \in Int : p > o => p \in S) => o \in S
  PROVE  \A o \in Int : o \in S
<1> SUFFICES ASSUME NEW bad \in Int, bad \notin S
             PROVE  FALSE
  OBVIOUS
<1> DEFINE T == {n \in Nat : to - n \notin S}
<1>1. to - bad \in T
  <2>1. bad < to
    OBVIOUS
  <2>2. to - bad \in Nat /\ to - (to - bad) = bad
    BY <2>1
  <2> QED
    BY <2>2
<1>2. PICK n \in T : \A m \in T : n <= m
  <2>1. T \subseteq Nat /\ T # {}
    BY <1>1
  <2> HIDE DEF T
  <2> QED
    BY <2>1, LeastExists
<1>3. n \in Nat /\ to - n \notin S
  BY <1>2
<1>4. ASSUME NEW p \in Int, p > to - n, p \notin S
      PROVE  FALSE
  <2>1. p < to
    BY <1>4
  <2>2. to - p \in Nat /\ to - (to - p) = p /\ ~(n <= to - p)
    BY <1>3, <1>4, <2>1
  <2>3. to - p \in T
    BY <1>4, <2>2
  <2> QED
    BY <1>2, <2>2, <2>3
<1>5. to - n < to
  <2>1. n # 0
    BY <1>3
  <2> QED
    BY <1>3, <2>1
<1> QED
  BY <1>3, <1>4, <1>5

(* Upwards *)
LEMMA Upward ==
  ASSUME NEW S, 0 \in S, \A n \in Nat : n \in S => n + 1 \in S
  PROVE  \A n \in Nat : n \in S
<1> SUFFICES ASSUME NEW bad \in Nat, bad \notin S
             PROVE  FALSE
  OBVIOUS
<1> DEFINE T == {n \in Nat : n \notin S}
<1>1. PICK n \in T : \A m \in T : n <= m
  <2>1. T \subseteq Nat /\ T # {}
    OBVIOUS
  <2> HIDE DEF T
  <2> QED
    BY <2>1, LeastExists
<1>2. n \in Nat /\ n \notin S /\ n # 0
  BY <1>1
<1>3. n - 1 \in Nat /\ n - 1 \in S
  BY <1>1, <1>2
<1> QED
  BY <1>2, <1>3

-----------------------------------------------------------------------------
(* The marks of pages *)

PageOps == {"bop", "eop"}

LEMMA SizeOfInstr == \A b : InstrSize(b) \in {1, 2}
BY DEF InstrSize

(* The recursive function of Marks, from an offset on *)
MarksBody(mem, to, g, o) ==
  IF o >= to THEN NoMarks(o)
  ELSE LET rest == g[o + InstrSize(mem[o + 1])]
       IN  IF OpAt(mem, o) \in {"bop", "eop"} THEN [rest EXCEPT !.pages = <<o>> \o @] ELSE rest

Scans(mem, to, g, a) == g = [o \in a..to+1 |-> MarksBody(mem, to, g, o)]

LEMMA ScanExists ==
  ASSUME NEW mem, NEW to \in Nat
  PROVE  \E g : Scans(mem, to, g, 0)
<1> DEFINE S == {a \in Int : \E g : Scans(mem, to, g, a)}
<1>1. ASSUME NEW a \in Int, a >= to
      PROVE  a \in S
  <2>1. PICK g : g = [o \in a..to+1 |-> NoMarks(o)]
    OBVIOUS
  <2>2. \A o \in a..to+1 : MarksBody(mem, to, g, o) = NoMarks(o)
    BY <1>1 DEF MarksBody
  <2>3. Scans(mem, to, g, a)
    BY <2>1, <2>2, Zenon DEF Scans
  <2> QED
    BY <2>3
<1>2. ASSUME NEW a \in Int, a < to, \A p \in Int : p > a => p \in S
      PROVE  a \in S
  <2>1. a + 1 \in S
    BY <1>2
  <2>2. PICK g : Scans(mem, to, g, a + 1)
    BY <2>1
  <2>3. PICK h : h = [o \in a..to+1 |-> IF o = a THEN MarksBody(mem, to, g, a) ELSE g[o]]
    OBVIOUS
  <2>4. ASSUME NEW o \in a..to+1
        PROVE  MarksBody(mem, to, h, o) = MarksBody(mem, to, g, o)
    <3>1. CASE o >= to
      BY <3>1 DEF MarksBody
    <3>2. CASE o < to
      <4>1. PICK next : next = o + InstrSize(mem[o + 1])
        OBVIOUS
      <4>2. next \in a..to+1 /\ next # a
        <5>1. InstrSize(mem[o + 1]) \in {1, 2}
          BY SizeOfInstr
        <5> QED
          BY <3>2, <4>1, <5>1
      <4>3. h[next] = g[next]
        BY <2>3, <4>2
      <4> QED
        BY <4>1, <4>3, Zenon DEF MarksBody
    <3> QED
      BY <3>1, <3>2
  <2>5. \A o \in a..to+1 : h[o] = MarksBody(mem, to, g, o)
    <3> SUFFICES ASSUME NEW o \in a..to+1
                 PROVE  h[o] = MarksBody(mem, to, g, o)
      OBVIOUS
    <3>1. CASE o = a
      BY <2>3, <3>1
    <3>2. CASE o # a
      <4>1. o \in a+1..to+1
        BY <3>2
      <4>2. g[o] = MarksBody(mem, to, g, o)
        BY <2>2, <4>1 DEF Scans
      <4> QED
        BY <2>3, <3>2, <4>2
    <3> QED
      BY <3>1, <3>2
  <2>6. Scans(mem, to, h, a)
    <3>1. h = [o \in a..to+1 |-> h[o]]
      BY <2>3
    <3> QED
      BY <2>4, <2>5, <3>1 DEF Scans
  <2> QED
    BY <2>6
<1>3. 0 \in S
  <2>1. to \in Int /\ 0 \in Int /\ \A o \in Int : o >= to => o \in S
    BY <1>1
  <2>2. \A o \in Int : o < to /\ (\A p \in Int : p > o => p \in S) => o \in S
    BY <1>2
  <2> HIDE DEF S
  <2> QED
    BY <2>1, <2>2, Downward
<1> QED
  BY <1>3

LEMMA MarksUnfold ==
  ASSUME NEW mem, NEW to \in Nat, NEW from \in 0..to+1
  PROVE  Marks(mem, from, to) =
           IF from >= to THEN NoMarks(from)
           ELSE LET rest == Marks(mem, from + InstrSize(mem[from + 1]), to)
                IN  IF OpAt(mem, from) \in PageOps
                    THEN [rest EXCEPT !.pages = <<from>> \o @] ELSE rest
<1> DEFINE h == CHOOSE g : Scans(mem, to, g, 0)
<1>1. Scans(mem, to, h, 0)
  BY ScanExists
<1>2. \A o : Marks(mem, o, to) = h[o]
  BY DEF Marks, Scans, MarksBody
<1> HIDE DEF h
<1>3. h[from] = MarksBody(mem, to, h, from)
  BY <1>1 DEF Scans
<1> QED
  BY <1>2, <1>3, Zenon DEF MarksBody, PageOps

(* An instruction, and what follows *)
LEMMA MarksStep ==
  ASSUME NEW mem, NEW to \in Nat, NEW o \in Nat, o < to
  PROVE  \E next \in Nat :
           /\ next = o + InstrSize(mem[o + 1]) /\ o < next /\ next <= to + 1
           /\ OpAt(mem, o) \in PageOps =>
                Marks(mem, o, to) = [Marks(mem, next, to) EXCEPT !.pages = <<o>> \o @]
           /\ OpAt(mem, o) \notin PageOps => Marks(mem, o, to) = Marks(mem, next, to)
<1>1. PICK next : next = o + InstrSize(mem[o + 1])
  OBVIOUS
<1>2. next \in Nat /\ o < next /\ next <= to + 1
  <2>1. InstrSize(mem[o + 1]) \in {1, 2}
    BY SizeOfInstr
  <2> QED
    BY <1>1, <2>1
<1>3. o \in 0..to+1 /\ ~(o >= to)
  OBVIOUS
<1> QED
  BY <1>1, <1>2, <1>3, MarksUnfold

LEMMA MarksEnd ==
  ASSUME NEW mem, NEW to \in Nat, NEW o \in to..to+1
  PROVE  Marks(mem, o, to) = NoMarks(o)
<1>1. o \in 0..to+1 /\ o >= to
  OBVIOUS
<1> QED
  BY <1>1, MarksUnfold

(* One more mark before a sequence *)
LEMMA Consed ==
  ASSUME NEW o \in Nat, NEW s \in Seq(Nat)
  PROVE  /\ <<o>> \o s \in Seq(Nat) /\ Len(<<o>> \o s) = Len(s) + 1
         /\ (<<o>> \o s)[1] = o /\ \A i \in 1..Len(s) : (<<o>> \o s)[i + 1] = s[i]
<1>1. <<o>> \in Seq(Nat) /\ Len(<<o>>) = 1 /\ <<o>>[1] = o
  OBVIOUS
<1>2. /\ <<o>> \o s \in Seq(Nat) /\ Len(<<o>> \o s) = 1 + Len(s)
      /\ \A i \in 1..1 + Len(s) : (<<o>> \o s)[i] = IF i <= 1 THEN <<o>>[1] ELSE s[i - 1]
  BY <1>1, ConcatProperties
<1>3. Len(s) \in Nat
  OBVIOUS
<1>4. ASSUME NEW i \in 1..Len(s)
      PROVE  (<<o>> \o s)[i + 1] = s[i]
  <2>1. i + 1 \in 1..1 + Len(s) /\ ~(i + 1 <= 1) /\ (i + 1) - 1 = i
    BY <1>3
  <2> QED
    BY <1>2, <2>1
<1>5. 1 \in 1..1 + Len(s)
  BY <1>3
<1> QED
  BY <1>1, <1>2, <1>3, <1>4, <1>5

LEMMA ConsCut ==
  ASSUME NEW o \in Nat, NEW s \in Seq(Nat), NEW n \in 0..Len(s)
  PROVE  SubSeq(<<o>> \o s, 1, n + 1) = <<o>> \o SubSeq(s, 1, n)
<1>1. Len(s) \in Nat /\ n \in Nat /\ n <= Len(s)
  OBVIOUS
<1>2. PICK t : t = <<o>> \o s
  OBVIOUS
<1>3. t \in Seq(Nat) /\ Len(t) = Len(s) + 1 /\ t[1] = o /\ \A i \in 1..Len(s) : t[i + 1] = s[i]
  BY <1>2, Consed
<1>4. PICK u : u = SubSeq(s, 1, n)
  OBVIOUS
<1>5. u \in Seq(Nat) /\ Len(u) = n /\ \A i \in 1..n : u[i] = s[i]
  <2>1. \A i \in 1..n : s[i] \in Nat
    BY <1>1
  <2> QED
    BY <1>1, <1>4, <2>1, SubSeqProperties
<1>6. PICK v : v = SubSeq(t, 1, n + 1)
  OBVIOUS
<1>7. v \in Seq(Nat) /\ Len(v) = n + 1 /\ \A i \in 1..n + 1 : v[i] = t[i]
  <2>1. \A i \in 1..n + 1 : t[i] \in Nat
    BY <1>1, <1>3
  <2> QED
    BY <1>1, <1>6, <2>1, SubSeqProperties
<1>8. PICK w : w = <<o>> \o u
  OBVIOUS
<1>9. w \in Seq(Nat) /\ Len(w) = n + 1 /\ w[1] = o /\ \A i \in 1..n : w[i + 1] = u[i]
  BY <1>5, <1>8, Consed
<1>10. ASSUME NEW i \in 1..n + 1
       PROVE  v[i] = w[i]
  <2>1. CASE i = 1
    BY <1>3, <1>7, <1>9, <2>1
  <2>2. CASE i # 1
    <3>1. PICK j \in 1..n : i = j + 1
      <4>1. i - 1 \in 1..n /\ i = (i - 1) + 1
        BY <1>1, <2>2
      <4> QED
        BY <4>1
    <3>2. j \in 1..Len(s)
      BY <1>1, <3>1
    <3> QED
      BY <1>3, <1>5, <1>7, <1>9, <3>1, <3>2
  <2> QED
    BY <2>1, <2>2
<1>11. v = w
  <2>1. Len(v) = Len(w) /\ \A i \in 1..Len(v) : v[i] = w[i]
    BY <1>7, <1>9, <1>10
  <2> QED
    BY <1>7, <1>9, <2>1, SeqEqual
<1> QED
  BY <1>2, <1>4, <1>6, <1>8, <1>11

Found(to, o, m) ==
  /\ m \in [pages : Seq(Nat), offset : Nat]
  /\ o <= m.offset /\ to <= m.offset /\ m.offset <= to + 1
  /\ \A i \in 1..Len(m.pages) : o <= m.pages[i] /\ m.pages[i] < to

LEMMA MarksTyped ==
  ASSUME NEW mem, NEW to \in Nat, NEW from \in 0..to+1
  PROVE  Found(to, from, Marks(mem, from, to))
<1> DEFINE S == {o \in Int : o \in 0..to+1 => Found(to, o, Marks(mem, o, to))}
<1>1. ASSUME NEW o \in Int, o >= to, o \in 0..to+1
      PROVE  Found(to, o, Marks(mem, o, to))
  <2>1. o \in to..to+1 /\ o \in Nat
    BY <1>1
  <2>2. Marks(mem, o, to) = NoMarks(o)
    BY <2>1, MarksEnd
  <2>3. Len(<<>>) = 0 /\ <<>> \in Seq(Nat)
    OBVIOUS
  <2> QED
    BY <2>1, <2>2, <2>3 DEF Found, NoMarks
<1>2. ASSUME NEW o \in Int, o < to, \A p \in Int : p > o => p \in S, o \in 0..to+1
      PROVE  Found(to, o, Marks(mem, o, to))
  <2>1. PICK next \in Nat :
           /\ next = o + InstrSize(mem[o + 1]) /\ o < next /\ next <= to + 1
           /\ OpAt(mem, o) \in PageOps =>
                Marks(mem, o, to) = [Marks(mem, next, to) EXCEPT !.pages = <<o>> \o @]
           /\ OpAt(mem, o) \notin PageOps => Marks(mem, o, to) = Marks(mem, next, to)
    <3>1. o \in Nat
      BY <1>2
    <3> QED
      BY <1>2, <3>1, MarksStep
  <2>2. PICK m : m = Marks(mem, next, to)
    OBVIOUS
  <2>3. Found(to, next, m)
    <3>1. next \in Int /\ next > o /\ next \in 0..to+1
      BY <1>2, <2>1
    <3>2. next \in S
      BY <1>2, <3>1
    <3> QED
      BY <2>2, <3>1, <3>2
  <2>4. m \in [pages : Seq(Nat), offset : Nat] /\ Len(m.pages) \in Nat /\ o \in Nat
    BY <1>2, <2>3 DEF Found
  <2>5. CASE OpAt(mem, o) \in PageOps
    <3>1. PICK pages : pages = <<o>> \o m.pages
      OBVIOUS
    <3>2. /\ pages \in Seq(Nat) /\ Len(pages) = Len(m.pages) + 1
          /\ pages[1] = o /\ \A i \in 1..Len(m.pages) : pages[i + 1] = m.pages[i]
      BY <2>4, <3>1, Consed
    <3>3. Marks(mem, o, to) = [pages |-> pages, offset |-> m.offset]
      BY <2>1, <2>2, <2>4, <2>5, <3>1
    <3>4. ASSUME NEW i \in 1..Len(pages)
          PROVE  o <= pages[i] /\ pages[i] < to
      <4>1. CASE i = 1
        BY <1>2, <3>2, <4>1
      <4>2. CASE i # 1
        <5>1. PICK j \in 1..Len(m.pages) : i = j + 1
          <6>1. i - 1 \in 1..Len(m.pages) /\ i = (i - 1) + 1
            BY <2>4, <3>2, <4>2
          <6> QED
            BY <6>1
        <5>2. pages[i] = m.pages[j] /\ m.pages[j] \in Nat
          BY <2>4, <3>2, <5>1, SMTT(40)
        <5> QED
          BY <2>1, <2>3, <5>1, <5>2, SMTT(40) DEF Found
      <4> QED
        BY <4>1, <4>2
    <3> QED
      BY <2>1, <2>3, <2>4, <3>2, <3>3, <3>4 DEF Found
  <2>6. CASE OpAt(mem, o) \notin PageOps
    <3>1. Marks(mem, o, to) = m
      BY <2>1, <2>2, <2>6
    <3>2. ASSUME NEW i \in 1..Len(m.pages)
          PROVE  o <= m.pages[i] /\ m.pages[i] < to
      <4>1. m.pages[i] \in Nat /\ next <= m.pages[i] /\ m.pages[i] < to
        BY <2>3, <2>4 DEF Found
      <4> QED
        BY <2>1, <2>4, <4>1
    <3> QED
      BY <2>1, <2>3, <2>4, <3>1, <3>2 DEF Found
  <2> QED
    BY <2>5, <2>6
<1>3. \A o \in Int : o \in S
  <2>1. to \in Int /\ \A o \in Int : o >= to => o \in S
    BY <1>1
  <2>2. \A o \in Int : o < to /\ (\A p \in Int : p > o => p \in S) => o \in S
    BY <1>2
  <2> HIDE DEF S
  <2> QED
    BY <2>1, <2>2, Downward
<1> QED
  BY <1>3

LEMMA Associative == \A s, t, u \in Seq(Nat) : (s \o t) \o u = s \o (t \o u)
BY ConcatAssociative, SMTT(40)

(* An instruction and what follows, with the types *)
LEMMA MarksRest ==
  ASSUME NEW mem, NEW to \in Nat, NEW o \in Nat, o < to
  PROVE  \E next \in 0..to+1 : \E rest \in [pages : Seq(Nat), offset : Nat] :
           /\ next = o + InstrSize(mem[o + 1]) /\ o < next
           /\ rest = Marks(mem, next, to)
           /\ Marks(mem, o, to) = IF OpAt(mem, o) \in PageOps
                                  THEN [pages |-> <<o>> \o rest.pages, offset |-> rest.offset]
                                  ELSE rest
<1>1. PICK next \in Nat :
           /\ next = o + InstrSize(mem[o + 1]) /\ o < next /\ next <= to + 1
           /\ OpAt(mem, o) \in PageOps =>
                Marks(mem, o, to) = [Marks(mem, next, to) EXCEPT !.pages = <<o>> \o @]
           /\ OpAt(mem, o) \notin PageOps => Marks(mem, o, to) = Marks(mem, next, to)
  BY MarksStep
<1>2. PICK rest : rest = Marks(mem, next, to)
  OBVIOUS
<1>3. next \in 0..to+1
  BY <1>1
<1>4. rest \in [pages : Seq(Nat), offset : Nat]
  BY <1>2, <1>3, MarksTyped DEF Found
<1>5. OpAt(mem, o) \in PageOps =>
        Marks(mem, o, to) = [pages |-> <<o>> \o rest.pages, offset |-> rest.offset]
  BY <1>1, <1>2, <1>4
<1> QED
  BY <1>1, <1>2, <1>3, <1>4, <1>5

(* Only the bytes before the end matter. *)
LEMMA MarksSame ==
  ASSUME NEW mem, NEW mem2, NEW to \in Nat, \A i \in 1..to : mem2[i] = mem[i],
         NEW from \in 0..to+1
  PROVE  Marks(mem2, from, to) = Marks(mem, from, to)
<1> DEFINE S == {o \in Int : o \in 0..to+1 => Marks(mem2, o, to) = Marks(mem, o, to)}
<1>1. ASSUME NEW o \in Int, o >= to, o \in 0..to+1
      PROVE  Marks(mem2, o, to) = Marks(mem, o, to)
  <2>1. o \in to..to+1
    BY <1>1
  <2> QED
    BY <2>1, MarksEnd
<1>2. ASSUME NEW o \in Int, o < to, \A p \in Int : p > o => p \in S, o \in 0..to+1
      PROVE  Marks(mem2, o, to) = Marks(mem, o, to)
  <2>1. o \in Nat /\ o + 1 \in 1..to
    BY <1>2
  <2>2. PICK next \in 0..to+1, rest \in [pages : Seq(Nat), offset : Nat] :
           /\ next = o + InstrSize(mem[o + 1]) /\ o < next
           /\ rest = Marks(mem, next, to)
           /\ Marks(mem, o, to) = IF OpAt(mem, o) \in PageOps
                                  THEN [pages |-> <<o>> \o rest.pages, offset |-> rest.offset]
                                  ELSE rest
    BY <1>2, <2>1, MarksRest
  <2>3. PICK next2 \in 0..to+1, rest2 \in [pages : Seq(Nat), offset : Nat] :
           /\ next2 = o + InstrSize(mem2[o + 1]) /\ o < next2
           /\ rest2 = Marks(mem2, next2, to)
           /\ Marks(mem2, o, to) = IF OpAt(mem2, o) \in PageOps
                                  THEN [pages |-> <<o>> \o rest2.pages, offset |-> rest2.offset]
                                  ELSE rest2
    BY <1>2, <2>1, MarksRest
  <2>4. next2 = next /\ OpAt(mem2, o) = OpAt(mem, o)
    BY <2>1, <2>2, <2>3 DEF OpAt
  <2>5. rest2 = rest
    <3>1. next \in Int /\ next > o
      BY <1>2, <2>2
    <3>2. next \in S
      BY <1>2, <3>1
    <3> QED
      BY <2>2, <2>3, <2>4, <3>2
  <2> QED
    BY <2>2, <2>3, <2>4, <2>5
<1>3. \A o \in Int : o \in S
  <2>1. to \in Int /\ \A o \in Int : o >= to => o \in S
    BY <1>1
  <2>2. \A o \in Int : o < to /\ (\A p \in Int : p > o => p \in S) => o \in S
    BY <1>2
  <2> HIDE DEF S
  <2> QED
    BY <2>1, <2>2, Downward
<1> QED
  BY <1>3

(* Marks up to some byte, then from the first instruction after it *)
Parts(mem, mid, to, o) ==
  LET first == Marks(mem, o, mid)
      last == Marks(mem, first.offset, to)
  IN  /\ Marks(mem, o, to).pages = first.pages \o last.pages
      /\ Marks(mem, o, to).offset = last.offset

LEMMA MarksSplit ==
  ASSUME NEW mem, NEW mid \in Nat, NEW to \in Nat, mid <= to, NEW from \in 0..mid+1,
         NEW e, e = Marks(mem, from, mid).offset
  PROVE  /\ e \in 0..to+1
         /\ Marks(mem, from, to).pages = Marks(mem, from, mid).pages \o Marks(mem, e, to).pages
         /\ Marks(mem, from, to).offset = Marks(mem, e, to).offset
<1> DEFINE S == {o \in Int : o \in 0..mid+1 => Parts(mem, mid, to, o)}
<1>1. ASSUME NEW o \in Int, o >= mid, o \in 0..mid+1
      PROVE  Parts(mem, mid, to, o)
  <2>1. o \in mid..mid+1 /\ o \in 0..to+1
    BY <1>1
  <2>2. Marks(mem, o, mid) = NoMarks(o)
    BY <2>1, MarksEnd
  <2>3. PICK m : m = Marks(mem, o, to)
    OBVIOUS
  <2>4. m.pages \in Seq(Nat)
    BY <2>1, <2>3, MarksTyped DEF Found
  <2>5. <<>> \o m.pages = m.pages
    BY <2>4, ConcatEmptySeq
  <2>6. NoMarks(o).offset = o /\ NoMarks(o).pages = <<>>
    BY DEF NoMarks
  <2> QED
    BY <2>2, <2>3, <2>5, <2>6 DEF Parts
<1>2. ASSUME NEW o \in Int, o < mid, \A p \in Int : p > o => p \in S, o \in 0..mid+1
      PROVE  Parts(mem, mid, to, o)
  <2>1. o \in Nat /\ o < to
    BY <1>2
  <2>2. PICK next \in 0..to+1, rest \in [pages : Seq(Nat), offset : Nat] :
           /\ next = o + InstrSize(mem[o + 1]) /\ o < next
           /\ rest = Marks(mem, next, to)
           /\ Marks(mem, o, to) = IF OpAt(mem, o) \in PageOps
                                  THEN [pages |-> <<o>> \o rest.pages, offset |-> rest.offset]
                                  ELSE rest
    BY <2>1, MarksRest
  <2>3. PICK next2 \in 0..mid+1, rest2 \in [pages : Seq(Nat), offset : Nat] :
           /\ next2 = o + InstrSize(mem[o + 1]) /\ o < next2
           /\ rest2 = Marks(mem, next2, mid)
           /\ Marks(mem, o, mid) = IF OpAt(mem, o) \in PageOps
                                  THEN [pages |-> <<o>> \o rest2.pages, offset |-> rest2.offset]
                                  ELSE rest2
    BY <1>2, <2>1, MarksRest
  <2>4. next2 = next
    BY <2>2, <2>3
  <2>5. PICK last : last = Marks(mem, rest2.offset, to)
    OBVIOUS
  <2>6. rest.pages = rest2.pages \o last.pages /\ rest.offset = last.offset
    <3>1. next \in Int /\ next > o /\ next \in 0..mid+1
      BY <1>2, <2>2, <2>3, <2>4
    <3>2. next \in S
      BY <1>2, <3>1
    <3> QED
      BY <2>2, <2>3, <2>4, <2>5, <3>1, <3>2 DEF Parts
  <2>7. last.pages \in Seq(Nat) /\ <<o>> \in Seq(Nat)
    <3>1. Found(mid, next, rest2)
      BY <2>3, <2>4, MarksTyped
    <3>2. rest2.offset \in 0..to+1
      BY <3>1 DEF Found
    <3> QED
      BY <2>1, <2>5, <3>2, MarksTyped DEF Found
  <2>8. CASE OpAt(mem, o) \in PageOps
    <3>1. PICK one \in Seq(Nat), p2 \in Seq(Nat), pl \in Seq(Nat) :
             one = <<o>> /\ p2 = rest2.pages /\ pl = last.pages
      BY <2>3, <2>7
    <3>2. PICK pa, pb : pa = one \o (p2 \o pl) /\ pb = one \o p2
      OBVIOUS
    <3>3. Marks(mem, o, mid) = [pages |-> pb, offset |-> rest2.offset]
      BY <2>3, <2>8, <3>1, <3>2
    <3>4. Marks(mem, o, to) = [pages |-> pa, offset |-> rest.offset]
      BY <2>2, <2>6, <2>8, <3>1, <3>2
    <3>5. pa = pb \o pl
      <4>1. (one \o p2) \o pl = one \o (p2 \o pl)
        BY <3>1, Associative, ZenonT(60)
      <4> QED
        BY <3>2, <4>1
    <3>6. /\ Marks(mem, o, mid).offset = rest2.offset /\ Marks(mem, o, mid).pages = pb
          /\ Marks(mem, o, to).offset = rest.offset /\ Marks(mem, o, to).pages = pa
      BY <3>3, <3>4
    <3> QED
      BY <2>5, <2>6, <3>1, <3>5, <3>6 DEF Parts
  <2>9. CASE OpAt(mem, o) \notin PageOps
    BY <2>2, <2>3, <2>5, <2>6, <2>9 DEF Parts
  <2> QED
    BY <2>8, <2>9
<1>3. \A o \in Int : o \in S
  <2>1. mid \in Int /\ \A o \in Int : o >= mid => o \in S
    BY <1>1
  <2>2. \A o \in Int : o < mid /\ (\A p \in Int : p > o => p \in S) => o \in S
    BY <1>2
  <2> HIDE DEF S
  <2> QED
    BY <2>1, <2>2, Downward
<1>4. Parts(mem, mid, to, from)
  BY <1>3
<1>5. e \in 0..to+1
  <2>1. Found(mid, from, Marks(mem, from, mid))
    BY MarksTyped
  <2> QED
    BY <2>1 DEF Found
<1> QED
  BY <1>4, <1>5 DEF Parts

(* The scan stops at each mark. *)
Stops(mem, a, pages) ==
  \A k \in 1..Len(pages) : /\ Marks(mem, a, pages[k]).offset = pages[k]
                           /\ Marks(mem, a, pages[k]).pages = SubSeq(pages, 1, k - 1)

LEMMA MarkReached ==
  ASSUME NEW mem, NEW to \in Nat, NEW from \in 0..to+1
  PROVE  Stops(mem, from, Marks(mem, from, to).pages)
<1> DEFINE S == {a \in Int : a \in 0..to+1 => Stops(mem, a, Marks(mem, a, to).pages)}
<1>1. ASSUME NEW a \in Int, a >= to, a \in 0..to+1
      PROVE  Stops(mem, a, Marks(mem, a, to).pages)
  <2>1. a \in to..to+1
    BY <1>1
  <2>2. Marks(mem, a, to) = NoMarks(a)
    BY <2>1, MarksEnd
  <2> QED
    BY <2>2 DEF NoMarks, Stops
<1>2. ASSUME NEW a \in Int, a < to, \A p \in Int : p > a => p \in S, a \in 0..to+1
      PROVE  Stops(mem, a, Marks(mem, a, to).pages)
  <2>1. a \in Nat
    BY <1>2
  <2>2. PICK next \in 0..to+1, rest \in [pages : Seq(Nat), offset : Nat] :
           /\ next = a + InstrSize(mem[a + 1]) /\ a < next
           /\ rest = Marks(mem, next, to)
           /\ Marks(mem, a, to) = IF OpAt(mem, a) \in PageOps
                                  THEN [pages |-> <<a>> \o rest.pages, offset |-> rest.offset]
                                  ELSE rest
    BY <1>2, <2>1, MarksRest
  <2>3. Found(to, next, rest)
    BY <2>2, MarksTyped
  <2>4. Stops(mem, next, rest.pages)
    <3>1. next \in Int /\ next > a /\ next \in 0..to+1
      BY <1>2, <2>2
    <3>2. next \in S
      BY <1>2, <3>1
    <3> QED
      BY <2>2, <3>1, <3>2
  <2>5. ASSUME NEW k \in 1..Len(rest.pages)
        PROVE  /\ rest.pages[k] \in Nat
               /\ Marks(mem, a, rest.pages[k]).offset = rest.pages[k]
               /\ Marks(mem, a, rest.pages[k]).pages =
                    IF OpAt(mem, a) \in PageOps THEN <<a>> \o SubSeq(rest.pages, 1, k - 1)
                    ELSE SubSeq(rest.pages, 1, k - 1)
    <3>1. PICK n : n = rest.pages[k]
      OBVIOUS
    <3>2. n \in Nat /\ next <= n /\ a < n
      <4>1. rest.pages \in Seq(Nat)
        BY <2>2
      <4>2. n \in Nat /\ next <= n
        BY <2>3, <3>1, <4>1 DEF Found
      <4> QED
        BY <2>1, <2>2, <4>2
    <3>3. PICK next2 \in 0..n+1, rest2 \in [pages : Seq(Nat), offset : Nat] :
             /\ next2 = a + InstrSize(mem[a + 1]) /\ a < next2
             /\ rest2 = Marks(mem, next2, n)
             /\ Marks(mem, a, n) = IF OpAt(mem, a) \in PageOps
                                   THEN [pages |-> <<a>> \o rest2.pages, offset |-> rest2.offset]
                                   ELSE rest2
      BY <2>1, <3>2, MarksRest
    <3>4. rest2 = Marks(mem, next, n)
      BY <2>2, <3>3
    <3>5. rest2.offset = n /\ rest2.pages = SubSeq(rest.pages, 1, k - 1)
      BY <2>4, <3>1, <3>4 DEF Stops
    <3>6. CASE OpAt(mem, a) \in PageOps
      <4>1. PICK pb : pb = <<a>> \o rest2.pages
        OBVIOUS
      <4>2. Marks(mem, a, n) = [pages |-> pb, offset |-> rest2.offset]
        BY <3>3, <3>6, <4>1
      <4>3. Marks(mem, a, n).pages = pb /\ Marks(mem, a, n).offset = n
        BY <3>5, <4>2
      <4> QED
        BY <3>1, <3>2, <3>5, <3>6, <4>1, <4>3
    <3>7. CASE OpAt(mem, a) \notin PageOps
      BY <3>1, <3>2, <3>3, <3>5, <3>7
    <3> QED
      BY <3>6, <3>7
  <2>6. CASE OpAt(mem, a) \notin PageOps
    BY <2>2, <2>5, <2>6 DEF Stops
  <2>7. CASE OpAt(mem, a) \in PageOps
    <3>1. PICK pages : pages = <<a>> \o rest.pages
      OBVIOUS
    <3>2. /\ pages \in Seq(Nat) /\ Len(pages) = Len(rest.pages) + 1
          /\ pages[1] = a /\ \A k \in 1..Len(rest.pages) : pages[k + 1] = rest.pages[k]
      BY <2>1, <3>1, Consed
    <3>3. Marks(mem, a, to).pages = pages /\ Len(rest.pages) \in Nat
      BY <2>2, <2>7, <3>1
    <3>4. ASSUME NEW k \in 1..Len(pages)
          PROVE  /\ Marks(mem, a, pages[k]).offset = pages[k]
                 /\ Marks(mem, a, pages[k]).pages = SubSeq(pages, 1, k - 1)
      <4>1. CASE k = 1
        <5>1. Marks(mem, a, a) = NoMarks(a)
          <6>1. a \in a..a+1
            BY <2>1
          <6> QED
            BY <2>1, <6>1, MarksEnd
        <5>2. SubSeq(pages, 1, 0) = <<>>
          BY SubSeqEmpty
        <5> QED
          <6>1. pages[k] = a /\ k - 1 = 0
            BY <3>2, <4>1
          <6>2. Marks(mem, a, a).offset = a /\ Marks(mem, a, a).pages = <<>>
            BY <5>1 DEF NoMarks
          <6> QED
            BY <5>2, <6>1, <6>2
      <4>2. CASE k # 1
        <5>1. PICK j \in 1..Len(rest.pages) : k = j + 1
          <6>1. PICK l \in Nat : l = Len(rest.pages) /\ k \in 1..l + 1
            BY <3>2, <3>3
          <6>2. k - 1 \in 1..l /\ k = (k - 1) + 1
            BY <4>2, <6>1
          <6> QED
            BY <6>1, <6>2
        <5>2. pages[k] = rest.pages[j]
          BY <3>2, <5>1
        <5>3. rest.pages \in Seq(Nat) /\ j - 1 \in 0..Len(rest.pages) /\ (j - 1) + 1 = k - 1
          BY <2>2, <3>3, <5>1
        <5>4. SubSeq(pages, 1, k - 1) = <<a>> \o SubSeq(rest.pages, 1, j - 1)
          <6>1. PICK n : n = j - 1 /\ n \in 0..Len(rest.pages) /\ n + 1 = k - 1
            BY <5>3
          <6>2. SubSeq(<<a>> \o rest.pages, 1, n + 1) = <<a>> \o SubSeq(rest.pages, 1, n)
            BY <2>1, <5>3, <6>1, ConsCut
          <6> QED
            BY <3>1, <6>1, <6>2
        <5> QED
          BY <2>5, <2>7, <5>2, <5>4
      <4> QED
        BY <4>1, <4>2
    <3> QED
      BY <3>3, <3>4 DEF Stops
  <2> QED
    BY <2>6, <2>7
<1>3. \A a \in Int : a \in S
  <2>1. to \in Int /\ \A a \in Int : a >= to => a \in S
    BY <1>1
  <2>2. \A a \in Int : a < to /\ (\A p \in Int : p > a => p \in S) => a \in S
    BY <1>2
  <2> HIDE DEF S
  <2> QED
    BY <2>1, <2>2, Downward
<1> QED
  BY <1>3

-----------------------------------------------------------------------------
(* The index is that of a text, once it was told of it. *)

LEMMA MaxIn ==
  ASSUME NEW S, S \subseteq Int, S # {}, NEW b \in Int, \A x \in S : x <= b
  PROVE  Max(S) \in S /\ \A x \in S : x <= Max(S)
<1> DEFINE T == {b - x : x \in S}
<1>1. T \subseteq Nat
  OBVIOUS
<1>2. T # {}
  <2>1. PICK x \in S : TRUE
    OBVIOUS
  <2>2. b - x \in T
    BY <2>1
  <2> QED
    BY <2>2
<1>3. PICK n \in T : \A m \in T : n <= m
  BY <1>1, <1>2, LeastExists, Zenon
<1>4. PICK x \in S : n = b - x
  BY <1>3
<1>5. \A y \in S : x >= y
  BY <1>3, <1>4
<1>6. \E z \in S : \A y \in S : z >= y
  BY <1>5
<1>7. Max(S) \in S /\ \A y \in S : Max(S) >= y
  BY <1>6, Zenon DEF Max
<1> QED
  BY <1>7

Shaped(d) == DOMAIN d = {"offset", "fontdef", "pages", "font", "linked"}

(* Nothing is read before the size of the preamble is there. *)
Indexed(d, text) ==
  /\ d.pages = DviPages(text)
  /\ \/ d.offset = 0 /\ d.pages = <<>> /\ Len(text) <= 1
     \/ d.offset # 0 /\ d.offset = Marks(text, 0, Len(text)).offset /\ 1 < Len(text)

Opens(text) == text = <<>> \/ OpAt(text, 0) = "pre"

Begins(s, t) == Len(s) <= Len(t) /\ \A i \in 1..Len(s) : s[i] = t[i]

(* The index is that of the beginning of a text, up to some byte. *)
Ready(d, text) ==
  \/ d.offset = 0 /\ d.pages = <<>>
  \/ /\ d.offset # 0 /\ 1 < Len(text)
     /\ \E mid \in 0..Len(text) : /\ d.offset = Marks(text, 0, mid).offset
                                  /\ d.pages = Marks(text, 0, mid).pages

Holds(buf, text) == buf.len = Len(text) /\ \A i \in 1..Len(text) : buf.mem[i] = text[i]

(* The first byte of a document marks no page. *)
LEMMA ShortText ==
  ASSUME NEW text \in Seq(Bytes), Opens(text), Len(text) <= 1
  PROVE  DviPages(text) = <<>>
<1>1. CASE Len(text) = 0
  <2>1. 0 \in 0..0+1
    OBVIOUS
  <2>2. Marks(text, 0, 0) = NoMarks(0)
    BY <2>1, MarksEnd
  <2> QED
    BY <1>1, <2>2 DEF DviPages, NoMarks
<1>2. CASE Len(text) = 1
  <2>1. OpAt(text, 0) = "pre" /\ OpAt(text, 0) \notin PageOps
    BY <1>2 DEF Opens, PageOps
  <2>2. InstrSize(text[1]) = 2
    BY <2>1 DEF InstrSize, OpAt
  <2>3. PICK next \in 0..1+1, rest \in [pages : Seq(Nat), offset : Nat] :
           /\ next = 0 + InstrSize(text[0 + 1]) /\ 0 < next
           /\ rest = Marks(text, next, 1)
           /\ Marks(text, 0, 1) = IF OpAt(text, 0) \in PageOps
                                  THEN [pages |-> <<0>> \o rest.pages, offset |-> rest.offset]
                                  ELSE rest
    <3>1. 1 \in Nat /\ 0 \in Nat /\ 0 < 1
      OBVIOUS
    <3> QED
      BY <3>1, MarksRest
  <2>4. next = 2 /\ 2 \in 1..1+1
    BY <2>2, <2>3
  <2>5. Marks(text, 2, 1) = NoMarks(2)
    BY <2>4, MarksEnd
  <2> QED
    BY <1>2, <2>1, <2>3, <2>4, <2>5 DEF DviPages, NoMarks
<1>3. Len(text) \in Nat
  OBVIOUS
<1> QED
  BY <1>1, <1>2, <1>3

LEMMA ReadyScanned ==
  ASSUME NEW d, Shaped(d), NEW text \in Seq(Bytes), Opens(text), NEW buf, Holds(buf, text),
         Ready(d, text)
  PROVE  /\ Indexed(Scanned(Preamble(d, buf), buf), text)
         /\ Shaped(Scanned(Preamble(d, buf), buf))
<1>1. PICK w \in Nat : w = Len(text) /\ buf.len = w
  BY DEF Holds
<1>2. PICK e : e = Preamble(d, buf)
  OBVIOUS
<1>3. PICK found : found = IF e.offset = 0 THEN NoMarks(0) ELSE Marks(buf.mem, e.offset, buf.len)
  OBVIOUS
<1>4. Shaped(e) /\ e.pages = d.pages
  BY <1>2 DEF Preamble, Shaped
<1>5. PICK r : r = Scanned(e, buf)
  OBVIOUS
<1>6. Shaped(r) /\ r.pages = e.pages \o found.pages /\ r.offset = found.offset
  <2>1. r = [e EXCEPT !.pages = @ \o found.pages, !.offset = found.offset, !.linked = Null,
                      !.fontdef = Min({@, found.offset})]
    BY <1>3, <1>5, Zenon DEF Scanned
  <2> QED
    BY <1>4, <2>1 DEF Shaped
<1>7. ASSUME NEW o \in 0..w+1
      PROVE  Marks(buf.mem, o, w) = Marks(text, o, w)
  <2>1. \A i \in 1..w : buf.mem[i] = text[i]
    BY <1>1 DEF Holds
  <2> QED
    BY <2>1, MarksSame
<1>8. CASE d.offset = 0 /\ d.pages = <<>>
  <2>1. CASE w <= 1
    <3>1. e = d
      BY <1>1, <1>2, <2>1 DEF Preamble
    <3>2. found = NoMarks(0)
      BY <1>3, <1>8, <3>1
    <3>3. DviPages(text) = <<>>
      BY <1>1, <2>1, ShortText
    <3>4. <<>> \o <<>> = <<>>
      OBVIOUS
    <3>5. r.pages = <<>> /\ r.offset = 0
      BY <1>6, <1>8, <3>1, <3>2, <3>4 DEF NoMarks
    <3> QED
      BY <1>1, <1>2, <1>5, <1>6, <2>1, <3>3, <3>5 DEF Indexed
  <2>2. CASE 1 < w
    <3>1. OpAt(text, 0) = "pre" /\ text[1] = buf.mem[1] /\ 1 \in 1..w /\ w > 0 /\ buf.len > 1
      BY <1>1, <2>2 DEF Opens, Holds
    <3>2. OpAt(buf.mem, 0) = "pre" /\ InstrSize(buf.mem[1]) = 2
      BY <3>1 DEF OpAt, InstrSize
    <3>3. e.offset = 2
      BY <1>1, <1>2, <1>8, <3>1, <3>2 DEF Preamble, Shaped
    <3>4. found = Marks(text, 2, w)
      BY <1>1, <1>3, <1>7, <3>1, <3>3
    <3>5. Marks(text, 0, w) = Marks(text, 2, w)
      <4>1. InstrSize(text[1]) = 2 /\ "pre" \notin PageOps
        BY <3>1 DEF InstrSize, OpAt, PageOps
      <4>2. PICK next \in 0..w+1, rest \in [pages : Seq(Nat), offset : Nat] :
               /\ next = 0 + InstrSize(text[0 + 1]) /\ 0 < next
               /\ rest = Marks(text, next, w)
               /\ Marks(text, 0, w) = IF OpAt(text, 0) \in PageOps
                                      THEN [pages |-> <<0>> \o rest.pages, offset |-> rest.offset]
                                      ELSE rest
        BY <3>1, MarksRest
      <4>3. next = 2
        BY <4>1, <4>2
      <4> QED
        BY <3>1, <4>1, <4>2, <4>3
    <3>6. found.pages \in Seq(Nat) /\ found.offset # 0
      <4>1. 2 \in 0..w+1
        BY <2>2
      <4> QED
        BY <3>4, <4>1, MarksTyped DEF Found
    <3>7. r.pages = found.pages
      BY <1>4, <1>6, <1>8, <3>6, ConcatEmptySeq
    <3> QED
      BY <1>1, <1>2, <1>5, <1>6, <2>2, <3>4, <3>5, <3>6, <3>7 DEF Indexed, DviPages
  <2> QED
    BY <2>1, <2>2
<1>9. CASE d.offset # 0
  <2>1. PICK mid \in 0..w : /\ d.offset = Marks(text, 0, mid).offset
                            /\ d.pages = Marks(text, 0, mid).pages
    BY <1>1, <1>9 DEF Ready
  <2>2. e = d
    BY <1>2, <1>9 DEF Preamble
  <2>3. /\ e.offset \in 0..w+1
        /\ Marks(text, 0, w).pages = Marks(text, 0, mid).pages \o Marks(text, e.offset, w).pages
        /\ Marks(text, 0, w).offset = Marks(text, e.offset, w).offset
    <3>1. mid \in Nat /\ mid <= w /\ 0 \in 0..mid+1
      BY <2>1
    <3>2. PICK x : x = Marks(text, 0, mid).offset
      OBVIOUS
    <3>3. /\ x \in 0..w+1
          /\ Marks(text, 0, w).pages = Marks(text, 0, mid).pages \o Marks(text, x, w).pages
          /\ Marks(text, 0, w).offset = Marks(text, x, w).offset
      BY <3>1, <3>2, MarksSplit, ZenonT(60)
    <3> QED
      BY <2>1, <2>2, <3>2, <3>3
  <2>4. found = Marks(text, e.offset, w)
    BY <1>1, <1>3, <1>7, <1>9, <2>2, <2>3
  <2>5. e.offset <= found.offset /\ e.offset # 0 /\ found.offset \in Nat
    BY <1>9, <2>2, <2>3, <2>4, MarksTyped DEF Found
  <2>6. r.offset # 0 /\ r.offset = Marks(text, 0, w).offset
    BY <1>6, <2>3, <2>4, <2>5
  <2>7. r.pages = Marks(text, 0, w).pages
    BY <1>6, <2>1, <2>2, <2>3, <2>4
  <2>8. 1 < w
    BY <1>1, <1>9 DEF Ready
  <2> QED
    BY <1>1, <1>2, <1>5, <1>6, <2>6, <2>7, <2>8 DEF Indexed, DviPages
<1> QED
  BY <1>8, <1>9 DEF Ready

(* What is cut, or follows *)
LEMMA TruncatedReady ==
  ASSUME NEW d, Shaped(d), NEW old \in Seq(Bytes), Opens(old), Indexed(d, old),
         NEW text \in Seq(Bytes), Begins(text, old) \/ Begins(old, text)
  PROVE  Ready(Truncated(d, Len(text)), text) /\ Shaped(Truncated(d, Len(text)))
<1>1. PICK w \in Nat, n \in Nat : w = Len(text) /\ n = Len(old)
  OBVIOUS
<1>2. PICK m : m = Marks(old, 0, n)
  OBVIOUS
<1>3. /\ Found(n, 0, m) /\ d.pages = m.pages
      /\ \/ d.offset = 0 /\ d.pages = <<>>
         \/ d.offset # 0 /\ d.offset = m.offset /\ 1 < n
  <2>1. 0 \in 0..n+1
    OBVIOUS
  <2> QED
    BY <1>1, <1>2, <2>1, MarksTyped DEF Indexed, DviPages
<1>4. m \in [pages : Seq(Nat), offset : Nat] /\ n <= m.offset
  BY <1>3 DEF Found
<1>5. ASSUME NEW mid \in Nat, mid <= w, mid <= n
      PROVE  Marks(text, 0, mid) = Marks(old, 0, mid)
  <2>1. \A i \in 1..mid : text[i] = old[i]
    BY <1>1, <1>5 DEF Begins
  <2>2. 0 \in 0..mid+1
    OBVIOUS
  <2> QED
    BY <2>1, <2>2, MarksSame
<1>6. CASE d.offset <= w
  <2>1. Truncated(d, w) = d
    BY <1>6 DEF Truncated
  <2>2. CASE d.offset = 0
    BY <1>1, <1>3, <2>1, <2>2 DEF Ready
  <2>3. CASE d.offset # 0
    <3>1. n <= w /\ 1 < w
      BY <1>3, <1>4, <1>6, <2>3
    <3>2. m = Marks(text, 0, n)
      BY <1>2, <1>5, <3>1
    <3>3. n \in 0..Len(text)
      BY <1>1, <3>1
    <3> QED
      BY <1>1, <1>3, <2>1, <2>3, <3>1, <3>2, <3>3 DEF Ready
  <2> QED
    BY <2>2, <2>3
<1>7. CASE ~(d.offset <= w)
  <2>1. PICK k : k = LastMark(d, w)
    OBVIOUS
  <2>2. PICK len \in Nat : len = Len(m.pages)
    BY <1>4
  <2>3. k \in {0} \cup {i \in 1..len : d.pages[i] < w}
    <3>1. PICK S : S = {0} \cup {i \in 1..len : d.pages[i] < w}
      OBVIOUS
    <3>2. DOMAIN d.pages = 1..len
      BY <1>3, <1>4, <2>2
    <3>3. LastMark(d, w) = Max(S)
      BY <3>1, <3>2 DEF LastMark
    <3>4. S \subseteq Int /\ S # {} /\ len \in Int /\ \A x \in S : x <= len
      BY <3>1
    <3>5. Max(S) \in S
      BY <3>4, MaxIn
    <3> QED
      BY <2>1, <3>1, <3>3, <3>5
  <2>4. CASE k = 0
    <3>1. PICK e : e = [d EXCEPT !.pages = <<>>, !.offset = 0]
      OBVIOUS
    <3>2. Truncated(d, w) = e
      BY <1>7, <2>1, <2>4, <3>1 DEF Truncated
    <3>3. e.pages = <<>> /\ e.offset = 0 /\ Shaped(e)
      BY <3>1 DEF Shaped
    <3> QED
      BY <1>1, <3>2, <3>3 DEF Ready
  <2>5. CASE k # 0
    <3>1. k \in 1..len /\ d.pages[k] < w
      BY <2>3, <2>5
    <3>2. PICK o : o = d.pages[k]
      OBVIOUS
    <3>3. PICK e : e = [d EXCEPT !.pages = SubSeq(@, 1, k - 1), !.offset = o]
      OBVIOUS
    <3>4. Truncated(d, w) = e
      BY <1>7, <2>1, <2>5, <3>2, <3>3 DEF Truncated
    <3>5. e.pages = SubSeq(m.pages, 1, k - 1) /\ e.offset = o /\ Shaped(e)
      BY <1>3, <3>3 DEF Shaped
    <3>6. /\ o \in 0..n-1 /\ Marks(old, 0, o).offset = o
          /\ Marks(old, 0, o).pages = SubSeq(m.pages, 1, k - 1)
      <4>1. 0 \in 0..n+1 /\ k \in 1..Len(m.pages) /\ o = m.pages[k]
        BY <1>3, <2>2, <3>1, <3>2
      <4> QED
        <5>1. 0 \in 0..n+1
          OBVIOUS
        <5>2. Stops(old, 0, m.pages)
          BY <1>2, <5>1, MarkReached
        <5>3. o \in Nat /\ o < n
          BY <1>3, <1>4, <4>1 DEF Found
        <5> QED
          BY <4>1, <5>2, <5>3 DEF Stops
    <3>7. o # 0
      <4>1. OpAt(old, 0) = "pre" /\ n > 0
        BY <1>1, <3>6 DEF Opens
      <4>2. InstrSize(old[1]) = 2 /\ "pre" \notin PageOps
        BY <4>1 DEF InstrSize, OpAt, PageOps
      <4>3. PICK next \in 0..n+1, rest \in [pages : Seq(Nat), offset : Nat] :
               /\ next = 0 + InstrSize(old[0 + 1]) /\ 0 < next
               /\ rest = Marks(old, next, n)
               /\ Marks(old, 0, n) = IF OpAt(old, 0) \in PageOps
                                     THEN [pages |-> <<0>> \o rest.pages, offset |-> rest.offset]
                                     ELSE rest
        BY <4>1, MarksRest
      <4>4. Found(n, next, m)
        BY <1>2, <4>1, <4>2, <4>3, MarksTyped
      <4>5. next <= o
        BY <1>3, <2>2, <3>1, <3>2, <4>4 DEF Found
      <4> QED
        BY <4>3, <4>5
    <3>8. o \in Nat /\ o <= w /\ o <= n
      BY <3>1, <3>2, <3>6
    <3>9. Marks(text, 0, o) = Marks(old, 0, o)
      BY <1>5, <3>8
    <3>10. o \in 0..Len(text) /\ 1 < Len(text)
      BY <1>1, <3>1, <3>2, <3>7, <3>8
    <3> QED
      BY <1>1, <3>4, <3>5, <3>6, <3>7, <3>9, <3>10 DEF Ready
  <2> QED
    BY <2>4, <2>5
<1> QED
  BY <1>1, <1>6, <1>7

LEMMA UpdatedIndexed ==
  ASSUME NEW d, Shaped(d), NEW old \in Seq(Bytes), Opens(old), Indexed(d, old),
         NEW text \in Seq(Bytes), Opens(text), Begins(text, old) \/ Begins(old, text),
         NEW buf, Holds(buf, text)
  PROVE  Indexed(DviUpdated(d, buf), text) /\ Shaped(DviUpdated(d, buf))
<1>1. PICK e : e = Truncated(d, buf.len)
  OBVIOUS
<1>2. Ready(e, text) /\ Shaped(e)
  BY <1>1, TruncatedReady DEF Holds
<1>3. DviUpdated(d, buf) = Scanned(Preamble(e, buf), buf)
  BY <1>1 DEF DviUpdated
<1> QED
  BY <1>2, <1>3, ReadyScanned

-----------------------------------------------------------------------------
(* The inductive invariant *)

LineErrors == {"page", "input", "close", "reopen"}

LinesTyped(s) ==
  /\ DOMAIN s = {"bol", "cur", "pages", "inputs", "closes", "bad"}
  /\ s.cur \in Nat
  /\ s.bad \subseteq LineErrors

SnapshotType == [len : [Files -> Int], log : BOOLEAN]

Typed ==
  /\ document \in Documents /\ prog \in document
  /\ out \in [Files -> Buffers \cup {Null}]
  /\ snaps \in Seq(SnapshotType)
  /\ logOpen \in BOOLEAN
  /\ Shaped(dvi)
  /\ LinesTyped(stex)

(* A buffer holds the beginning of what the worker writes. *)
Buffered(b, text) ==
  b # Null => /\ text # <<>>
              /\ b.len <= Len(text) /\ b.len <= Len(b.mem)
              /\ \A i \in 1..b.len : b.mem[i] = text[i]

TextInv == \A f \in Files : Buffered(out[f], prog[f])

LengthOf(b) == IF b = Null THEN -1 ELSE b.len

(* Outputs have only grown since the snapshots. *)
Growing(ss, o) ==
  /\ \A k \in 1..Len(ss) : \A f \in Files :
       -1 <= ss[k].len[f] /\ ss[k].len[f] <= LengthOf(o[f])
  /\ \A j, k \in 1..Len(ss) : j <= k => \A f \in Files : ss[j].len[f] <= ss[k].len[f]

EndInv == ended => \A f \in Files : prog[f] # <<>> => Written(f) = prog[f]

(* The document that the index was told of *)
Known == IF "dvi" \in behind THEN prog["dvi"] ELSE Written("dvi")

IndexInv == Going => Indexed(dvi, Known)

FailInv == (aborted \in {"render", "null"} => "dvi" \in behind) /\ aborted # "marks"

Inv == Typed /\ TextInv /\ Growing(snaps, out) /\ EndInv /\ IndexInv /\ FailInv

-----------------------------------------------------------------------------
(* Documents and what is written of them *)

LEMMA ProgramTyped ==
  ASSUME NEW d \in Documents, NEW p \in d
  PROVE  /\ p \in [Files -> Seq(Bytes)] /\ p["dvi"] \in Seq(Bytes)
         /\ Opens(p["dvi"]) /\ (p["dvi"] # <<>> => InTurn(p["dvi"], DviPages(p["dvi"])))
<1>1. p \in [Files -> Seq(Bytes)]
  BY DocumentsAssumption
<1>2. "dvi" \in Files
  BY DEF Files
<1> QED
  BY <1>1, <1>2, PagesAssumption DEF Opens

(* A part of a buffer *)
PartOf(b) == SubSeq((IF b = Null THEN NoBuffer ELSE b).mem, 1, (IF b = Null THEN NoBuffer ELSE b).len)

LEMMA WrittenIs ==
  /\ \A f : Written(f) = PartOf(out[f])
  /\ \A f : Written(f)' = PartOf(out'[f])
BY DEF Written, Buf, PartOf

LEMMA PartTyped ==
  ASSUME NEW text \in Seq(Bytes), NEW b \in Buffers \cup {Null}, Buffered(b, text)
  PROVE  /\ PartOf(b) \in Seq(Bytes) /\ Begins(PartOf(b), text)
         /\ b = Null => PartOf(b) = <<>>
         /\ b # Null => Holds(b, PartOf(b)) /\ b.len \in Nat /\ PartOf(b) = SubSeq(b.mem, 1, b.len)
<1>1. CASE b = Null
  <2>1. SubSeq(<<>>, 1, 0) = <<>>
    BY SubSeqEmpty
  <2>2. PartOf(b) = <<>>
    BY <1>1, <2>1 DEF PartOf, NoBuffer
  <2> QED
    BY <1>1, <2>2 DEF Begins
<1>2. CASE b # Null
  <2>1. b \in Buffers
    BY <1>2
  <2>2. PICK mem \in Seq(Bytes), len \in Nat : mem = b.mem /\ len = b.len
    BY <2>1 DEF Buffers
  <2>3. PICK s : s = SubSeq(mem, 1, len)
    OBVIOUS
  <2>4. PartOf(b) = s
    BY <1>2, <2>2, <2>3 DEF PartOf
  <2>5. len <= Len(mem) /\ len <= Len(text) /\ \A i \in 1..len : mem[i] = text[i]
    BY <1>2, <2>2 DEF Buffered
  <2>6. s \in Seq(Bytes) /\ Len(s) = len /\ \A i \in 1..len : s[i] = mem[i]
    <3>1. \A i \in 1..len : mem[i] \in Bytes
      BY <2>5
    <3> QED
      BY <2>3, <3>1, SubSeqProperties
  <2> QED
    BY <1>2, <2>2, <2>3, <2>4, <2>5, <2>6 DEF Begins, Holds
<1> QED
  BY <1>1, <1>2

LEMMA BeginningOpens ==
  ASSUME NEW s \in Seq(Bytes), NEW t \in Seq(Bytes), Begins(s, t), Opens(t)
  PROVE  Opens(s)
<1>1. CASE s = <<>>
  BY <1>1 DEF Opens
<1>2. CASE s # <<>>
  <2>1. Len(s) \in Nat /\ Len(t) \in Nat /\ Len(s) > 0 /\ Len(t) > 0
    BY <1>2 DEF Begins
  <2>2. 1 \in 1..Len(s) /\ t # <<>>
    BY <2>1
  <2>3. s[1] = t[1]
    BY <2>2 DEF Begins
  <2> QED
    BY <2>2, <2>3 DEF Opens, OpAt
<1> QED
  BY <1>1, <1>2

(* Two beginnings of a text *)
LEMMA BeginningsNested ==
  ASSUME NEW s \in Seq(Bytes), NEW t \in Seq(Bytes), NEW u \in Seq(Bytes),
         Begins(s, u), Begins(t, u)
  PROVE  Begins(s, t) \/ Begins(t, s)
<1>1. Len(s) \in Nat /\ Len(t) \in Nat /\ Len(u) \in Nat
  OBVIOUS
<1>2. CASE Len(s) <= Len(t)
  <2>1. \A i \in 1..Len(s) : s[i] = u[i] /\ t[i] = u[i]
    BY <1>1, <1>2 DEF Begins
  <2> QED
    BY <1>2, <2>1 DEF Begins
<1>3. CASE Len(t) <= Len(s)
  <2>1. \A i \in 1..Len(t) : s[i] = u[i] /\ t[i] = u[i]
    BY <1>1, <1>3 DEF Begins
  <2> QED
    BY <1>3, <2>1 DEF Begins
<1> QED
  BY <1>1, <1>2, <1>3

LEMMA BeginsItself == \A s \in Seq(Bytes) : Begins(s, s)
BY DEF Begins

(* The marks of a beginning, then the others *)
LEMMA MarksOnward ==
  ASSUME NEW all, NEW w \in Nat, NEW n \in Nat, w <= n
  PROVE  /\ Marks(all, 0, w).offset \in 0..n+1
         /\ Marks(all, 0, n).pages =
              Marks(all, 0, w).pages \o Marks(all, Marks(all, 0, w).offset, n).pages
<1>1. 0 \in 0..w+1
  OBVIOUS
<1>2. PICK x : x = Marks(all, 0, w).offset
  OBVIOUS
<1>3. /\ x \in 0..n+1
      /\ Marks(all, 0, n).pages = Marks(all, 0, w).pages \o Marks(all, x, n).pages
      /\ Marks(all, 0, n).offset = Marks(all, x, n).offset
  BY <1>1, <1>2, MarksSplit, ZenonT(60)
<1> QED
  BY <1>2, <1>3

(* No mark stops the driver. *)
LEMMA IndexedSound ==
  ASSUME NEW d, NEW p, NEW t, t \in Documents, p \in t, NEW text \in Seq(Bytes),
         Begins(text, p["dvi"]), NEW buf, Holds(buf, text), Indexed(d, text)
  PROVE  DviSound(d, buf)
<1>1. PICK all \in Seq(Bytes) : all = p["dvi"]
  BY ProgramTyped
<1>2. PICK w \in Nat, n \in Nat : w = Len(text) /\ n = Len(all)
  OBVIOUS
<1>3. w <= n /\ \A i \in 1..w : text[i] = all[i] /\ buf.mem[i] = all[i]
  BY <1>1, <1>2 DEF Begins, Holds
<1>4. PICK m : m = Marks(text, 0, w)
  OBVIOUS
<1>5. m = Marks(all, 0, w) /\ Found(w, 0, m) /\ 0 \in 0..w+1
  <2>1. 0 \in 0..w+1
    OBVIOUS
  <2> QED
    BY <1>3, <1>4, <2>1, MarksSame, MarksTyped
<1>6. d.pages = m.pages /\ m.pages \in Seq(Nat) /\ w <= m.offset
  BY <1>2, <1>4, <1>5 DEF Indexed, DviPages, Found
<1>7. d.offset = 0 => d.pages = <<>>
  BY DEF Indexed
<1>8. ASSUME NEW i \in DOMAIN d.pages
      PROVE  OpAt(buf.mem, d.pages[i]) = IF i % 2 = 1 THEN "bop" ELSE "eop"
  <2>1. i \in 1..Len(m.pages)
    BY <1>6
  <2>2. PICK o \in Nat : o = m.pages[i] /\ o < w
    BY <1>5, <1>6, <2>1 DEF Found
  <2>3. PICK e : e = Marks(all, 0, w).offset
    OBVIOUS
  <2>4. e \in 0..n+1 /\ DviPages(all) = m.pages \o Marks(all, e, n).pages
    <3>2. Marks(all, 0, n).pages = Marks(all, 0, w).pages \o Marks(all, e, n).pages
      BY <1>3, <2>3, MarksOnward
    <3>3. e \in 0..n+1
      BY <1>3, <2>3, MarksOnward
    <3> QED
      BY <1>2, <1>5, <3>2, <3>3 DEF DviPages
  <2>5. PICK s \in Seq(Nat) : s = Marks(all, e, n).pages
    <3>1. Found(n, e, Marks(all, e, n))
      BY <2>4, MarksTyped
    <3> QED
      BY <3>1 DEF Found
  <2>6. PICK ps : ps = m.pages \o s
    OBVIOUS
  <2>7. ps[i] = o /\ i \in DOMAIN ps
    <3>1. /\ ps \in Seq(Nat) /\ Len(ps) = Len(m.pages) + Len(s)
          /\ \A k \in 1..Len(m.pages) + Len(s) :
               ps[k] = IF k <= Len(m.pages) THEN m.pages[k] ELSE s[k - Len(m.pages)]
      BY <1>6, <2>5, <2>6, ConcatProperties
    <3>2. Len(m.pages) \in Nat /\ Len(s) \in Nat
      BY <1>6, <2>5
    <3>3. i \in 1..Len(m.pages) + Len(s) /\ i <= Len(m.pages)
      BY <2>1, <3>2
    <3> QED
      BY <2>2, <3>1, <3>3, SMTT(40)
  <2>8. all # <<>>
    BY <1>2, <1>3, <2>2
  <2>9. InTurn(all, ps)
    BY <1>1, <2>4, <2>5, <2>6, <2>8, ProgramTyped
  <2>10. OpAt(all, o) = IF i % 2 = 1 THEN "bop" ELSE "eop"
    BY <2>7, <2>9 DEF InTurn
  <2>11. OpAt(buf.mem, o) = OpAt(all, o)
    <3>1. o + 1 \in 1..w
      BY <2>2
    <3> QED
      BY <1>3, <3>1 DEF OpAt
  <2> QED
    BY <1>6, <2>2, <2>10, <2>11
<1> QED
  BY <1>7, <1>8 DEF DviSound, InTurn

-----------------------------------------------------------------------------
(* The lines that stop the driver have a name. *)

LEMMA LineReadTyped ==
  ASSUME NEW s, LinesTyped(s), NEW mem, NEW bol
  PROVE  LinesTyped(LineRead(s, mem, bol)) /\ LineRead(s, mem, bol).cur = s.cur
<1>2. ASSUME NEW v, NEW x \in {"pages", "inputs", "closes"}
      PROVE  LinesTyped([s EXCEPT ![x] = v]) /\ [s EXCEPT ![x] = v].cur = s.cur
  BY DEF LinesTyped
<1>3. ASSUME NEW e \in LineErrors
      PROVE  LinesTyped([s EXCEPT !.bad = @ \cup {e}]) /\ [s EXCEPT !.bad = @ \cup {e}].cur = s.cur
  BY DEF LinesTyped
<1>4. PICK b : b = mem[bol + 1]
  OBVIOUS
<1>5. \/ LineRead(s, mem, bol) = s
      \/ \E v : LineRead(s, mem, bol) = [s EXCEPT !.pages = v]
      \/ \E v : LineRead(s, mem, bol) = [s EXCEPT !.inputs = v]
      \/ \E u, v : LineRead(s, mem, bol) = [s EXCEPT !.inputs = u, !.closes = v]
      \/ \E e \in LineErrors : LineRead(s, mem, bol) = [s EXCEPT !.bad = @ \cup {e}]
  <2>1. CASE b.op \in {"{", "}"}
    <3>1. LineRead(s, mem, bol) \in {[s EXCEPT !.pages = Append(@, bol)],
                                     [s EXCEPT !.bad = @ \cup {"page"}]}
      BY <1>4, <2>1 DEF LineRead
    <3> QED
      BY <3>1 DEF LineErrors
  <2>2. CASE b.op = "input"
    <3>1. LineRead(s, mem, bol) \in {[s EXCEPT !.inputs = Append(@, bol)],
                                     [s EXCEPT !.bad = @ \cup {"input"}]}
      BY <1>4, <2>2 DEF LineRead
    <3> QED
      BY <3>1 DEF LineErrors
  <2>3. CASE b.op = "/"
    <3>1. LineRead(s, mem, bol) \in {[s EXCEPT !.inputs[b.tag] = -@,
                            !.closes = Append(@, [off |-> bol, input |-> b.tag])],
                                     [s EXCEPT !.bad = @ \cup {"close"}]}
      BY <1>4, <2>3 DEF LineRead
    <3> QED
      BY <3>1 DEF LineErrors
  <2>4. CASE b.op \notin {"{", "}", "input", "/"}
    BY <1>4, <2>4 DEF LineRead
  <2> QED
    BY <2>1, <2>2, <2>3, <2>4
<1> QED
  BY <1>2, <1>3, <1>5 DEF LinesTyped

(* The loop of LinesRead *)
Start(s, mem) == IF s.bol > s.cur THEN LineStart(mem, s.cur) ELSE s.bol

ByteRead(t, mem, o) ==
  IF OpAt(mem, o - 1) # "nl" THEN t
  ELSE [(IF o - 1 > t.bol THEN LineRead(t, mem, t.bol) ELSE t) EXCEPT !.bol = o]

Reading(s, mem, to, g) ==
  g = [o \in s.cur..to |-> IF o = s.cur THEN [s EXCEPT !.bol = Start(s, mem)]
                           ELSE ByteRead(g[o - 1], mem, o)]

LEMMA ReadingExists ==
  ASSUME NEW s, s.cur \in Nat, NEW mem, NEW to \in Nat, s.cur <= to
  PROVE  \E g : Reading(s, mem, to, g)
<1>1. PICK c \in Nat : c = s.cur
  OBVIOUS
<1> DEFINE S == {n \in Nat : \E g : Reading(s, mem, c + n, g)}
<1>2. 0 \in S
  <2>1. PICK g : g = [o \in c..c + 0 |-> [s EXCEPT !.bol = Start(s, mem)]]
    OBVIOUS
  <2>2. \A o \in c..c + 0 : o = s.cur
    BY <1>1
  <2>3. Reading(s, mem, c + 0, g)
    BY <1>1, <2>1, <2>2 DEF Reading
  <2> QED
    BY <2>3
<1>3. ASSUME NEW n \in Nat, n \in S
      PROVE  n + 1 \in S
  <2>1. PICK g : Reading(s, mem, c + n, g)
    BY <1>3
  <2>2. PICK last : last = c + n + 1 /\ last \in Nat /\ last # c /\ last - 1 = c + n
    OBVIOUS
  <2>3. PICK h : h = [o \in c..last |-> IF o = last THEN ByteRead(g[last - 1], mem, last) ELSE g[o]]
    OBVIOUS
  <2>4. ASSUME NEW o \in c..last
        PROVE  h[o] = IF o = s.cur THEN [s EXCEPT !.bol = Start(s, mem)]
                      ELSE ByteRead(h[o - 1], mem, o)
    <3>1. CASE o = last
      <4>1. h[last - 1] = g[last - 1]
        <5>1. last - 1 \in c..last /\ last - 1 # last
          BY <2>2
        <5> QED
          BY <2>3, <5>1
      <4> QED
        BY <1>1, <2>2, <2>3, <3>1, <4>1
    <3>2. CASE o # last
      <4>1. o \in c..c + n /\ h[o] = g[o]
        BY <2>2, <2>3, <3>2
      <4>2. g[o] = IF o = s.cur THEN [s EXCEPT !.bol = Start(s, mem)]
                   ELSE ByteRead(g[o - 1], mem, o)
        BY <1>1, <2>1, <4>1 DEF Reading
      <4>3. CASE o = c
        BY <1>1, <4>1, <4>2, <4>3
      <4>4. CASE o # c
        <5>1. o - 1 \in c..last /\ o - 1 # last
          BY <2>2, <3>2, <4>4
        <5>2. h[o - 1] = g[o - 1]
          BY <2>3, <5>1
        <5> QED
          BY <1>1, <4>1, <4>2, <4>4, <5>2
      <4> QED
        BY <4>3, <4>4
    <3> QED
      BY <3>1, <3>2
  <2>5. Reading(s, mem, c + (n + 1), h)
    <3>1. h = [o \in c..last |-> h[o]]
      BY <2>3
    <3>2. last = c + (n + 1)
      BY <2>2
    <3> QED
      BY <1>1, <2>4, <3>1, <3>2 DEF Reading
  <2> QED
    BY <2>5
<1>4. \A n \in Nat : n \in S
  <2>1. \A n \in Nat : n \in S => n + 1 \in S
    BY <1>3
  <2> HIDE DEF S
  <2> QED
    BY <1>2, <2>1, Upward
<1>5. to - c \in S
  <2>1. to - c \in Nat
    BY <1>1
  <2> QED
    BY <1>4, <2>1
<1>6. c + (to - c) = to
  BY <1>1
<1> QED
  BY <1>5, <1>6

LEMMA LinesReadIs ==
  ASSUME NEW s, s.cur \in Nat, NEW buf, buf.len \in Nat, s.cur <= buf.len
  PROVE  \E g : /\ Reading(s, buf.mem, buf.len, g)
                /\ LinesRead(s, buf) = [g[buf.len] EXCEPT !.cur = buf.len]
<1> DEFINE h == CHOOSE g : Reading(s, buf.mem, buf.len, g)
<1>1. Reading(s, buf.mem, buf.len, h)
  BY ReadingExists
<1>2. LinesRead(s, buf) = [h[buf.len] EXCEPT !.cur = buf.len]
  BY DEF LinesRead, Reading, ByteRead, Start
<1> HIDE DEF h
<1> QED
  BY <1>1, <1>2


LEMMA ByteReadTyped ==
  ASSUME NEW t, LinesTyped(t), NEW mem, NEW o
  PROVE  LinesTyped(ByteRead(t, mem, o)) /\ ByteRead(t, mem, o).cur = t.cur
<1>1. ASSUME NEW u, LinesTyped(u)
      PROVE  LinesTyped([u EXCEPT !.bol = o]) /\ [u EXCEPT !.bol = o].cur = u.cur
  BY <1>1 DEF LinesTyped
<1>2. PICK u : u = IF o - 1 > t.bol THEN LineRead(t, mem, t.bol) ELSE t
  OBVIOUS
<1>3. LinesTyped(u) /\ u.cur = t.cur
  BY <1>2, LineReadTyped
<1>4. ByteRead(t, mem, o) = IF OpAt(mem, o - 1) # "nl" THEN t ELSE [u EXCEPT !.bol = o]
  BY <1>2, Zenon DEF ByteRead
<1> QED
  BY <1>1, <1>3, <1>4

LEMMA LinesReadTyped ==
  ASSUME NEW s, LinesTyped(s), NEW buf, buf.len \in Nat, s.cur <= buf.len
  PROVE  LinesTyped(LinesRead(s, buf))
<1>1. PICK c \in Nat, to \in Nat : c = s.cur /\ to = buf.len /\ c <= to
  BY DEF LinesTyped
<1>2. PICK g : Reading(s, buf.mem, buf.len, g) /\ LinesRead(s, buf) = [g[buf.len] EXCEPT !.cur = buf.len]
  BY <1>1, LinesReadIs
<1> DEFINE S == {n \in Nat : c + n <= to => LinesTyped(g[c + n])}
<1>3. 0 \in S
  <2>1. c \in c..to
    BY <1>1
  <2>2. g[c] = [s EXCEPT !.bol = Start(s, buf.mem)]
    BY <1>1, <1>2, <2>1 DEF Reading
  <2>3. LinesTyped(g[c])
    BY <2>2 DEF LinesTyped
  <2>4. c + 0 = c
    OBVIOUS
  <2> QED
    BY <2>3, <2>4
<1>4. ASSUME NEW n \in Nat, n \in S, c + (n + 1) <= to
      PROVE  LinesTyped(g[c + (n + 1)])
  <2>1. PICK o : o = c + (n + 1) /\ o \in c..to /\ o # c /\ o - 1 = c + n /\ c + n <= to
    BY <1>4
  <2>2. g[o] = ByteRead(g[o - 1], buf.mem, o)
    BY <1>1, <1>2, <2>1 DEF Reading
  <2>3. LinesTyped(g[o - 1])
    BY <1>4, <2>1
  <2> QED
    BY <2>1, <2>2, <2>3, ByteReadTyped
<1>5. \A n \in Nat : n \in S
  <2>1. \A n \in Nat : n \in S => n + 1 \in S
    BY <1>4
  <2> HIDE DEF S
  <2> QED
    BY <1>3, <2>1, Upward
<1>6. LinesTyped(g[to])
  <2>1. to - c \in Nat /\ c + (to - c) = to
    BY <1>1
  <2>2. to - c \in S
    BY <1>5, <2>1
  <2> QED
    BY <2>1, <2>2
<1> QED
  BY <1>1, <1>2, <1>6 DEF LinesTyped

LEMMA LinesCutTyped ==
  ASSUME NEW s, LinesTyped(s), NEW offset \in Nat
  PROVE  LinesTyped(LinesCut(s, offset))
<1>1. Min({s.cur, offset}) \in Nat
  <2>1. \E x \in {s.cur, offset} : \A y \in {s.cur, offset} : x <= y
    BY DEF LinesTyped
  <2>2. Min({s.cur, offset}) \in {s.cur, offset}
    BY <2>1 DEF Min
  <2> QED
    BY <2>2 DEF LinesTyped
<1>2. \E pages, closes, inputs : \E bad \in {s.bad, s.bad \cup {"reopen"}} :
        LinesCut(s, offset) = [s EXCEPT !.pages = pages, !.closes = closes,
                                        !.cur = Min({s.cur, offset}), !.inputs = inputs, !.bad = bad]
  BY DEF LinesCut, LinesTyped
<1>3. PICK pages, closes, inputs : \E bad \in {s.bad, s.bad \cup {"reopen"}} :
        LinesCut(s, offset) = [s EXCEPT !.pages = pages, !.closes = closes,
                                        !.cur = Min({s.cur, offset}), !.inputs = inputs, !.bad = bad]
  BY <1>2
<1> QED
  BY <1>1, <1>3 DEF LinesTyped, LineErrors

LEMMA LinesUpdatedTyped ==
  ASSUME NEW s, LinesTyped(s), NEW buf, buf.len \in Nat
  PROVE  LinesTyped(LinesUpdated(s, buf))
<1>1. s.cur \in Nat
  BY DEF LinesTyped
<1>2. CASE buf.len < s.cur
  BY <1>2, LinesCutTyped DEF LinesUpdated
<1>3. CASE ~(buf.len < s.cur)
  <2>1. s.cur <= buf.len
    BY <1>1, <1>3
  <2>2. LinesTyped(LinesRead(s, buf))
    BY <2>1, LinesReadTyped
  <2> QED
    BY <1>3, <2>2 DEF LinesUpdated
<1> QED
  BY <1>2, <1>3

-----------------------------------------------------------------------------
(* What the index says of the document of a state *)

LEMMA ResetIndexed ==
  ASSUME NEW d
  PROVE  Shaped(Reset(d)) /\ Indexed(Reset(d), <<>>)
<1>1. Marks(<<>>, 0, 0) = NoMarks(0)
  <2>1. 0 \in 0..0+1
    OBVIOUS
  <2> QED
    BY <2>1, MarksEnd
<1>2. Len(<<>>) = 0
  OBVIOUS
<1>3. Reset(d).pages = <<>> /\ Reset(d).offset = 0 /\ Shaped(Reset(d))
  BY DEF Reset, NoPages, Shaped
<1> QED
  BY <1>1, <1>2, <1>3 DEF Indexed, DviPages, NoMarks

(* The index after it is told, of what the driver holds, and that nothing *)
(* stops the driver                                                       *)
LEMMA Retold ==
  ASSUME NEW d, Shaped(d), NEW old \in Seq(Bytes), Opens(old), Indexed(d, old),
         NEW t \in Documents, NEW p \in t, NEW b \in Buffers \cup {Null}, b # Null,
         Buffered(b, p["dvi"]), Begins(PartOf(b), old) \/ Begins(old, PartOf(b))
  PROVE  /\ Indexed(DviUpdated(d, b), PartOf(b)) /\ Shaped(DviUpdated(d, b))
         /\ DviSound(DviUpdated(d, b), b)
<1>1. p["dvi"] \in Seq(Bytes) /\ Opens(p["dvi"])
  BY ProgramTyped
<1>2. PICK text \in Seq(Bytes) : text = PartOf(b) /\ Begins(text, p["dvi"]) /\ Holds(b, text)
  BY <1>1, PartTyped
<1>3. Opens(text)
  BY <1>1, <1>2, BeginningOpens
<1>4. Indexed(DviUpdated(d, b), text) /\ Shaped(DviUpdated(d, b))
  BY <1>2, <1>3, UpdatedIndexed
<1>5. DviSound(DviUpdated(d, b), b)
  BY <1>2, <1>4, IndexedSound
<1> QED
  BY <1>2, <1>4, <1>5

LEMMA KnownIs ==
  ASSUME Typed, TextInv
  PROVE  /\ Known \in Seq(Bytes) /\ Opens(Known) /\ Begins(Known, prog["dvi"])
         /\ Begins(PartOf(out["dvi"]), Known)
         /\ PartOf(out["dvi"]) \in Seq(Bytes) /\ Begins(PartOf(out["dvi"]), prog["dvi"])
<1>1. prog["dvi"] \in Seq(Bytes) /\ Opens(prog["dvi"])
  BY ProgramTyped DEF Typed
<1>2. out["dvi"] \in Buffers \cup {Null} /\ Buffered(out["dvi"], prog["dvi"])
  BY DEF Typed, TextInv, Files
<1>3. PICK text \in Seq(Bytes) : text = PartOf(out["dvi"]) /\ Begins(text, prog["dvi"])
  BY <1>1, <1>2, PartTyped
<1>4. Opens(text)
  BY <1>1, <1>3, BeginningOpens
<1>5. Begins(text, text) /\ Begins(prog["dvi"], prog["dvi"])
  BY <1>1, BeginsItself
<1>6. Known \in {prog["dvi"], text}
  BY <1>3, WrittenIs DEF Known
<1> QED
  BY <1>1, <1>3, <1>4, <1>5, <1>6

-----------------------------------------------------------------------------
(* The steps of the worker *)

(* A step that leaves alone the outputs, the document and its index *)
LEMMA IndexKept ==
  ASSUME Inv, Going, dvi' = dvi, out'["dvi"] = out["dvi"], prog' = prog,
         "dvi" \in behind' <=> "dvi" \in behind
  PROVE  Indexed(dvi', Known')
<1>1. Known' = Known
  BY WrittenIs DEF Known
<1> QED
  BY <1>1 DEF Inv, IndexInv

LEMMA SnapshotTyped ==
  ASSUME NEW ss \in Seq(SnapshotType), NEW k \in 1..Len(ss)
  PROVE  ss[k].len \in [Files -> Int] /\ ss[k].log \in BOOLEAN
<1>1. ss[k] \in SnapshotType
  OBVIOUS
<1> QED
  BY <1>1 DEF SnapshotType

LEMMA GrowingKept ==
  ASSUME NEW ss \in Seq(SnapshotType), NEW o, NEW q, Growing(ss, o),
         \A f \in Files : LengthOf(o[f]) \in Int /\ LengthOf(q[f]) \in Int
                          /\ LengthOf(o[f]) <= LengthOf(q[f])
  PROVE  Growing(ss, q)
<1>1. ASSUME NEW k \in 1..Len(ss), NEW f \in Files
      PROVE  -1 <= ss[k].len[f] /\ ss[k].len[f] <= LengthOf(q[f])
  <2>1. ss[k].len[f] \in Int
    BY SnapshotTyped
  <2>2. -1 <= ss[k].len[f] /\ ss[k].len[f] <= LengthOf(o[f])
    BY DEF Growing
  <2> QED
    BY <2>1, <2>2
<1> QED
  BY <1>1 DEF Growing

LEMMA LengthsTyped ==
  ASSUME Typed
  PROVE  /\ \A f \in Files : LengthOf(out[f]) \in Int /\ -1 <= LengthOf(out[f])
         /\ Lengths = [f \in Files |-> LengthOf(out[f])]
<1>1. ASSUME NEW f \in Files
      PROVE  LengthOf(out[f]) \in Int /\ -1 <= LengthOf(out[f])
  <2>1. out[f] \in Buffers \cup {Null}
    BY DEF Typed
  <2> QED
    BY <2>1 DEF LengthOf, Buffers
<1> QED
  BY <1>1 DEF Lengths, LengthOf

LEMMA OpenInv ==
  ASSUME Inv, NEW f \in Files, Open(f)
  PROVE  Inv'
<1>1. /\ Going /\ ~ended /\ out[f] = Null /\ prog[f] # <<>>
      /\ out' = [out EXCEPT ![f] = NoBuffer]
      /\ logOpen' = (logOpen \/ f = "log")
      /\ dvi' = IF f = "dvi" THEN Reset(dvi) ELSE dvi
      /\ stex' = IF f = "stex" THEN LinesCut(stex, 0) ELSE stex
      /\ behind' = behind \ ({f} \cap {"dvi", "stex"})
      /\ UNCHANGED <<document, prog, ended, snaps, aborted>>
  BY DEF Open
<1>2. NoBuffer \in Buffers
  BY DEF NoBuffer, Buffers
<1>3. out \in [Files -> Buffers \cup {Null}] /\ prog \in [Files -> Seq(Bytes)]
  BY ProgramTyped DEF Inv, Typed
<1>4. /\ out' \in [Files -> Buffers \cup {Null}] /\ out'[f] = NoBuffer
      /\ \A g \in Files : g # f => out'[g] = out[g]
  BY <1>1, <1>2, <1>3
<1>5. Typed'
  <2>1. Shaped(dvi')
    BY <1>1, ResetIndexed DEF Inv, Typed
  <2>2. LinesTyped(stex')
    BY <1>1, LinesCutTyped DEF Inv, Typed
  <2> QED
    BY <1>1, <1>4, <2>1, <2>2 DEF Inv, Typed
<1>6. TextInv'
  <2> SUFFICES ASSUME NEW g \in Files
               PROVE  Buffered(out'[g], prog'[g])
    BY DEF TextInv
  <2>1. CASE g = f
    <3>1. NoBuffer.len = 0 /\ NoBuffer.mem = <<>> /\ prog[f] \in Seq(Bytes)
      BY <1>3 DEF NoBuffer
    <3> QED
      BY <1>1, <1>4, <2>1, <3>1 DEF Buffered
  <2>2. CASE g # f
    BY <1>1, <1>4, <2>2 DEF Inv, TextInv
  <2> QED
    BY <2>1, <2>2
<1>7. Growing(snaps, out')
  <2>1. \A g \in Files : LengthOf(out'[g]) \in Int /\ LengthOf(out[g]) <= LengthOf(out'[g])
                         /\ LengthOf(out[g]) \in Int
    <3> SUFFICES ASSUME NEW g \in Files
                 PROVE  LengthOf(out'[g]) \in Int /\ LengthOf(out[g]) <= LengthOf(out'[g])
                         /\ LengthOf(out[g]) \in Int
      OBVIOUS
    <3>1. LengthOf(out[g]) \in Int
      BY LengthsTyped DEF Inv
    <3>2. CASE g # f
      BY <1>4, <3>1, <3>2
    <3>3. CASE g = f
      <4>1. NoBuffer # Null
        BY <1>2, NullAssumption
      <4>2. LengthOf(out[g]) = -1 /\ LengthOf(out'[g]) = 0
        BY <1>1, <1>4, <3>3, <4>1 DEF LengthOf, NoBuffer
      <4> QED
        BY <4>2
    <3> QED
      BY <3>2, <3>3
  <2> QED
    BY <2>1, GrowingKept DEF Inv, Typed
<1>8. IndexInv'
  <2>1. CASE f = "dvi"
    <3>1. Known' = <<>>
      <4>1. "dvi" \notin behind'
        BY <1>1, <2>1
      <4>2. PartOf(out'["dvi"]) = <<>>
        <5>1. NoBuffer # Null
          BY <1>2, NullAssumption
        <5>2. SubSeq(<<>>, 1, 0) = <<>>
          BY SubSeqEmpty
        <5> QED
          BY <1>4, <2>1, <5>1, <5>2 DEF PartOf, NoBuffer
      <4> QED
        BY <4>1, <4>2, WrittenIs DEF Known
    <3> QED
      BY <1>1, <2>1, <3>1, ResetIndexed DEF IndexInv
  <2>2. CASE f # "dvi"
    <3>1. /\ dvi' = dvi /\ out'["dvi"] = out["dvi"] /\ prog' = prog
          /\ "dvi" \in behind' <=> "dvi" \in behind
      BY <1>1, <1>4, <2>2 DEF Files
    <3> QED
      BY <1>1, <3>1, IndexKept DEF IndexInv
  <2> QED
    BY <2>1, <2>2
<1>9. EndInv' /\ FailInv'
  BY <1>1 DEF EndInv, FailInv, Inv, Going
<1> QED
  BY <1>1, <1>5, <1>6, <1>7, <1>8, <1>9 DEF Inv

(* More is written to a buffer. *)
LEMMA GrownBuffered ==
  ASSUME Inv, NEW f \in Files, out[f] # Null, NEW n \in out[f].len + 1..Len(prog[f])
  PROVE  /\ Grown(f, n) \in Buffers /\ Grown(f, n) # Null /\ Grown(f, n).len = n
         /\ Buffered(Grown(f, n), prog[f])
<1>1. prog[f] \in Seq(Bytes) /\ out[f] \in Buffers
  BY ProgramTyped DEF Inv, Typed
<1>2. PICK text \in Seq(Bytes), mem \in Seq(Bytes), len \in Nat :
        text = prog[f] /\ mem = out[f].mem /\ len = out[f].len
  BY <1>1 DEF Buffers
<1>3. n \in Nat /\ n <= Len(text) /\ len < n
  BY <1>2
<1>4. PICK head : head = SubSeq(text, 1, n)
  OBVIOUS
<1>5. head \in Seq(Bytes) /\ Len(head) = n /\ \A i \in 1..n : head[i] = text[i]
  <2>1. \A i \in 1..n : text[i] \in Bytes
    BY <1>3
  <2> QED
    BY <1>3, <1>4, <2>1, SubSeqProperties
<1>6. PICK tail : tail = SubSeq(mem, n + 1, Len(mem))
  OBVIOUS
<1>7. tail \in Seq(Bytes) /\ Len(tail) \in Nat
  <2>1. \A i \in n + 1..Len(mem) : mem[i] \in Bytes
    BY <1>3
  <2>2. tail \in Seq(Bytes)
    BY <1>3, <1>6, <2>1, SubSeqProperties
  <2> QED
    BY <2>2
<1>8. PICK all : all = head \o tail
  OBVIOUS
<1>9. /\ all \in Seq(Bytes) /\ Len(all) = n + Len(tail)
      /\ \A i \in 1..n : all[i] = head[i]
  <2>1. /\ all \in Seq(Bytes) /\ Len(all) = Len(head) + Len(tail)
        /\ \A i \in 1..Len(head) + Len(tail) :
             all[i] = IF i <= Len(head) THEN head[i] ELSE tail[i - Len(head)]
    <3>1. head \in Seq(Bytes) /\ tail \in Seq(Bytes)
      BY <1>5, <1>7
    <3> QED
      BY <1>8, <3>1, ConcatProperties
  <2>2. ASSUME NEW i \in 1..n
        PROVE  all[i] = head[i]
    <3>1. i \in 1..Len(head) + Len(tail) /\ i <= Len(head)
      BY <1>5, <1>7
    <3> QED
      BY <2>1, <3>1
  <2> QED
    BY <1>5, <2>1, <2>2
<1>10. Grown(f, n) = [mem |-> all, len |-> n]
  BY <1>2, <1>4, <1>6, <1>8 DEF Grown
<1>11. Grown(f, n) \in Buffers /\ Grown(f, n).len = n /\ Grown(f, n).mem = all
  BY <1>3, <1>9, <1>10 DEF Buffers
<1>12. \A i \in 1..n : all[i] = text[i]
  BY <1>5, <1>9
<1>13. text # <<>> /\ n <= Len(all)
  BY <1>3, <1>7, <1>9
<1> QED
  BY <1>2, <1>3, <1>11, <1>12, <1>13, NullAssumption DEF Buffered

(* What all the outputs have in common *)
LEMMA AppendKeeps ==
  ASSUME Inv, NEW f \in Files, NEW n \in 1..Len(prog[f]), Append_(f, n)
  PROVE  /\ Going /\ out'[f] = Grown(f, n) /\ \A g \in Files : g # f => out'[g] = out[g]
         /\ out' \in [Files -> Buffers \cup {Null}]
         /\ UNCHANGED <<document, prog, logOpen, ended, snaps>>
         /\ TextInv' /\ Growing(snaps', out') /\ EndInv'
         /\ out[f] # Null /\ n \in out[f].len + 1..Len(prog[f])
<1>1. /\ Going /\ ~ended /\ out[f] # Null /\ n \in out[f].len + 1..Len(prog[f])
      /\ out' = [out EXCEPT ![f] = Grown(f, n)]
      /\ UNCHANGED <<document, prog, logOpen, ended, snaps>>
  BY DEF Append_
<1>2. Grown(f, n) \in Buffers /\ Grown(f, n) # Null /\ Grown(f, n).len = n
      /\ Buffered(Grown(f, n), prog[f])
  BY <1>1, GrownBuffered
<1>3. out \in [Files -> Buffers \cup {Null}]
  BY DEF Inv, Typed
<1>4. /\ out' \in [Files -> Buffers \cup {Null}] /\ out'[f] = Grown(f, n)
      /\ \A g \in Files : g # f => out'[g] = out[g]
  BY <1>1, <1>2, <1>3
<1>5. TextInv'
  BY <1>1, <1>2, <1>4 DEF Inv, TextInv
<1>6. Growing(snaps, out')
  <2>1. ASSUME NEW g \in Files
        PROVE  LengthOf(out'[g]) \in Int /\ LengthOf(out[g]) <= LengthOf(out'[g])
               /\ LengthOf(out[g]) \in Int
    <3>1. LengthOf(out[g]) \in Int
      BY LengthsTyped DEF Inv
    <3>2. CASE g # f
      BY <1>4, <3>1, <3>2
    <3>3. CASE g = f
      <4>1. LengthOf(out'[g]) = n /\ LengthOf(out[g]) = out[f].len
        BY <1>1, <1>2, <1>4, <3>3 DEF LengthOf
      <4>2. out[f].len \in Nat
        BY <1>1, <1>3 DEF Buffers
      <4> QED
        BY <1>1, <4>1, <4>2
    <3> QED
      BY <3>2, <3>3
  <2> QED
    BY <2>1, GrowingKept DEF Inv, Typed
<1> QED
  BY <1>1, <1>4, <1>5, <1>6 DEF EndInv

(* The assertion that stops the driver is never one of the document. *)
LEMMA FailsKept ==
  ASSUME Inv, Going, NEW reasons, reasons \subseteq LineErrors \cup {"search"}, Fails(reasons)
  PROVE  FailInv'
<1>1. aborted' \in {"no"} \cup LineErrors \cup {"search"}
  BY DEF Fails
<1> QED
  BY <1>1 DEF FailInv, LineErrors

LEMMA AppendDocumentInv ==
  ASSUME Inv, AppendDocument
  PROVE  Inv'
<1>1. PICK n \in 1..Len(prog["dvi"]) :
        /\ Append_("dvi", n)
        /\ dvi' = DviUpdated(dvi, out'["dvi"])
        /\ Fails(IF DviSound(dvi', out'["dvi"]) THEN {} ELSE {"marks"})
        /\ behind' = behind \ {"dvi"}
        /\ UNCHANGED stex
  BY DEF AppendDocument
<1>2. "dvi" \in Files
  BY DEF Files
<1>3. /\ Going /\ out'["dvi"] = Grown("dvi", n)
      /\ out' \in [Files -> Buffers \cup {Null}]
      /\ UNCHANGED <<document, prog, logOpen, ended, snaps>>
      /\ TextInv' /\ Growing(snaps', out') /\ EndInv'
      /\ out["dvi"] # Null /\ n \in out["dvi"].len + 1..Len(prog["dvi"])
  BY <1>1, <1>2, AppendKeeps
<1>4. PICK b : b = out'["dvi"]
  OBVIOUS
<1>5. b \in Buffers \cup {Null} /\ b # Null /\ Buffered(b, prog["dvi"])
  BY <1>2, <1>3, <1>4, GrownBuffered
<1>6. /\ Known \in Seq(Bytes) /\ Opens(Known) /\ Begins(Known, prog["dvi"])
      /\ prog["dvi"] \in Seq(Bytes)
  BY KnownIs, ProgramTyped DEF Inv, Typed
<1>7. Begins(PartOf(b), Known) \/ Begins(Known, PartOf(b))
  <2>1. PartOf(b) \in Seq(Bytes) /\ Begins(PartOf(b), prog["dvi"])
    BY <1>5, <1>6, PartTyped
  <2> QED
    BY <1>6, <2>1, BeginningsNested
<1>8. /\ Indexed(DviUpdated(dvi, b), PartOf(b)) /\ Shaped(DviUpdated(dvi, b))
      /\ DviSound(DviUpdated(dvi, b), b)
  <2>1. Shaped(dvi) /\ Indexed(dvi, Known) /\ document \in Documents /\ prog \in document
    BY <1>3 DEF Inv, Typed, IndexInv
  <2> QED
    BY <1>5, <1>6, <1>7, <2>1, Retold
<1>9. Known' = PartOf(b)
  BY <1>1, <1>4, WrittenIs DEF Known
<1>10. IndexInv' /\ Shaped(dvi')
  BY <1>1, <1>4, <1>8, <1>9 DEF IndexInv
<1>11. FailInv'
  <2>1. aborted' = "no"
    BY <1>1, <1>4, <1>8 DEF Fails
  <2> QED
    BY <2>1 DEF FailInv
<1>12. Typed'
  BY <1>1, <1>3, <1>10 DEF Inv, Typed
<1> QED
  BY <1>3, <1>10, <1>11, <1>12 DEF Inv

LEMMA AppendSynctexInv ==
  ASSUME Inv, AppendSynctex
  PROVE  Inv'
<1>1. PICK n \in 1..Len(prog["stex"]) :
        /\ Append_("stex", n)
        /\ stex' = LinesUpdated(stex, out'["stex"])
        /\ Fails(stex'.bad)
        /\ UNCHANGED <<dvi, behind>>
  BY DEF AppendSynctex
<1>2. "stex" \in Files /\ "dvi" \in Files
  BY DEF Files
<1>3. /\ Going /\ out'["stex"] = Grown("stex", n) /\ out'["dvi"] = out["dvi"]
      /\ out' \in [Files -> Buffers \cup {Null}]
      /\ UNCHANGED <<document, prog, logOpen, ended, snaps>>
      /\ TextInv' /\ Growing(snaps', out') /\ EndInv'
      /\ out["stex"] # Null /\ n \in out["stex"].len + 1..Len(prog["stex"])
  BY <1>1, <1>2, AppendKeeps
<1>4. LinesTyped(stex')
  <2>1. Grown("stex", n).len \in Nat
    BY <1>2, <1>3, GrownBuffered DEF Buffers
  <2> QED
    BY <1>1, <1>3, <2>1, LinesUpdatedTyped DEF Inv, Typed
<1>5. FailInv'
  BY <1>1, <1>3, <1>4, FailsKept DEF LinesTyped
<1>6. Typed'
  BY <1>1, <1>3, <1>4 DEF Inv, Typed
<1>7. IndexInv'
  BY <1>1, <1>3, IndexKept DEF IndexInv
<1> QED
  BY <1>3, <1>5, <1>6, <1>7 DEF Inv

LEMMA AppendLogInv ==
  ASSUME Inv, AppendLog
  PROVE  Inv'
<1>1. PICK n \in 1..Len(prog["log"]) :
        Append_("log", n) /\ UNCHANGED <<dvi, stex, behind, aborted>>
  BY DEF AppendLog
<1>2. "log" \in Files /\ "dvi" \in Files
  BY DEF Files
<1>3. /\ Going /\ out'["dvi"] = out["dvi"]
      /\ out' \in [Files -> Buffers \cup {Null}]
      /\ UNCHANGED <<document, prog, logOpen, ended, snaps>>
      /\ TextInv' /\ Growing(snaps', out') /\ EndInv'
  BY <1>1, <1>2, AppendKeeps
<1>4. Typed'
  BY <1>1, <1>3 DEF Inv, Typed
<1>5. FailInv'
  BY <1>1 DEF Inv, FailInv
<1>6. IndexInv'
  BY <1>1, <1>3, IndexKept DEF IndexInv
<1> QED
  BY <1>3, <1>4, <1>5, <1>6 DEF Inv

LEMMA EndLemma ==
  ASSUME Inv, End
  PROVE  Inv'
<1>1. /\ Going /\ \A f \in Files : prog[f] # <<>> => Written(f) = prog[f]
      /\ logOpen' = FALSE /\ ended' = TRUE
      /\ UNCHANGED <<document, prog, out, snaps, dvi, stex, behind, aborted>>
  BY DEF End
<1>2. Typed' /\ TextInv' /\ Growing(snaps', out') /\ FailInv'
  BY <1>1 DEF Inv, Typed, TextInv, FailInv
<1>3. EndInv'
  BY <1>1, WrittenIs DEF EndInv
<1>4. IndexInv'
  BY <1>1, IndexKept DEF IndexInv
<1> QED
  BY <1>2, <1>3, <1>4 DEF Inv

LEMMA SnapshotInv ==
  ASSUME Inv, Snapshot
  PROVE  Inv'
<1>1. /\ Going /\ ~ended /\ snaps' = Append(snaps, [len |-> Lengths, log |-> logOpen])
      /\ UNCHANGED <<document, prog, out, logOpen, ended, dvi, stex, behind, aborted>>
  BY DEF Snapshot
<1>2. PICK s : s = [len |-> Lengths, log |-> logOpen]
  OBVIOUS
<1>3. s \in SnapshotType /\ \A f \in Files : s.len[f] = LengthOf(out[f])
  BY <1>2, LengthsTyped DEF Inv, Typed, SnapshotType
<1>4. /\ snaps' \in Seq(SnapshotType) /\ Len(snaps') = Len(snaps) + 1 /\ Len(snaps) \in Nat
      /\ snaps'[Len(snaps) + 1] = s /\ \A k \in 1..Len(snaps) : snaps'[k] = snaps[k]
  BY <1>1, <1>2, <1>3 DEF Inv, Typed
<1>5. Typed' /\ TextInv' /\ FailInv' /\ EndInv'
  BY <1>1, <1>4 DEF Inv, Typed, TextInv, FailInv, EndInv
<1>6. IndexInv'
  BY <1>1, IndexKept DEF IndexInv
<1>7. Growing(snaps', out)
  <2>1. ASSUME NEW k \in 1..Len(snaps'), NEW f \in Files
        PROVE  -1 <= snaps'[k].len[f] /\ snaps'[k].len[f] <= LengthOf(out[f])
    <3>1. CASE k = Len(snaps) + 1
      BY <1>3, <1>4, <3>1, LengthsTyped DEF Inv
    <3>2. CASE k # Len(snaps) + 1
      <4>1. k \in 1..Len(snaps)
        BY <1>4, <3>2
      <4> QED
        BY <1>4, <4>1 DEF Inv, Growing
    <3> QED
      BY <3>1, <3>2
  <2>2. ASSUME NEW j \in 1..Len(snaps'), NEW k \in 1..Len(snaps'), j <= k, NEW f \in Files
        PROVE  snaps'[j].len[f] <= snaps'[k].len[f]
    <3>1. CASE k = Len(snaps) + 1
      BY <1>3, <1>4, <2>1, <3>1
    <3>2. CASE k # Len(snaps) + 1
      <4>1. k \in 1..Len(snaps) /\ j \in 1..Len(snaps)
        BY <1>4, <2>2, <3>2
      <4> QED
        BY <1>4, <2>2, <4>1 DEF Inv, Growing
    <3> QED
      BY <3>1, <3>2
  <2> QED
    BY <2>1, <2>2 DEF Growing
<1> QED
  BY <1>1, <1>5, <1>6, <1>7 DEF Inv

-----------------------------------------------------------------------------
(* The steps of the driver *)

(* After a rollback, the buffers hold the beginning of what they held. *)
Left(b, c) ==
  c # Null => /\ b # Null /\ c.len <= b.len /\ c.mem = b.mem

LEMMA PoppedKeeps ==
  ASSUME Inv, NEW k \in 0..Len(snaps), Popped(k)
  PROVE  /\ out' \in [Files -> Buffers \cup {Null}] /\ snaps' \in Seq(SnapshotType)
         /\ logOpen' \in BOOLEAN /\ ~ended'
         /\ \A f \in Files : Left(out[f], out'[f])
         /\ Growing(snaps', out')
         /\ k = 0 => \A f \in Files : out'[f] = Null
<1>1. PICK n \in Nat : n = Len(snaps) /\ k \in 0..n /\ snaps \in Seq(SnapshotType)
  BY DEF Inv, Typed
<1>2. PICK lengths : lengths = IF k = 0 THEN Nothing ELSE snaps[k].len
  OBVIOUS
<1>3. k # 0 => k \in 1..Len(snaps)
  BY <1>1
<1>4. /\ lengths \in [Files -> Int]
      /\ \A f \in Files : -1 <= lengths[f] /\ lengths[f] <= LengthOf(out[f])
      /\ k = 0 => \A f \in Files : lengths[f] = -1
  <2>1. CASE k = 0
    BY <1>2, <2>1, LengthsTyped DEF Nothing, Inv
  <2>2. CASE k # 0
    <3>1. snaps[k].len \in [Files -> Int]
      BY <1>1, <1>3, <2>2, SnapshotTyped
    <3> QED
      BY <1>2, <1>3, <2>2, <3>1 DEF Inv, Growing
  <2> QED
    BY <2>1, <2>2
<1>5. out' = Cut(lengths)
  BY <1>2 DEF Popped
<1>6. ASSUME NEW f \in Files
      PROVE  /\ out'[f] \in Buffers \cup {Null} /\ Left(out[f], out'[f])
             /\ LengthOf(out'[f]) = lengths[f]
  <2>1. out'[f] = IF lengths[f] = -1 THEN Null ELSE [out[f] EXCEPT !.len = lengths[f]]
    BY <1>5 DEF Cut
  <2>2. CASE lengths[f] = -1
    BY <2>1, <2>2 DEF Left, LengthOf
  <2>3. CASE lengths[f] # -1
    <3>1. out[f] \in Buffers /\ out[f] # Null
      BY <1>4, <2>3 DEF Inv, Typed, LengthOf
    <3>2. lengths[f] \in Nat /\ lengths[f] <= out[f].len
      BY <1>4, <2>3, <3>1 DEF LengthOf
    <3>3. out'[f] \in Buffers /\ out'[f].len = lengths[f] /\ out'[f].mem = out[f].mem
      BY <2>1, <2>3, <3>1, <3>2 DEF Buffers
    <3> QED
      BY <3>1, <3>2, <3>3, NullAssumption DEF Left, LengthOf
  <2> QED
    BY <2>2, <2>3
<1>7. out' \in [Files -> Buffers \cup {Null}]
  <2>1. out' = [f \in Files |-> out'[f]]
    BY <1>5 DEF Cut
  <2> QED
    BY <1>6, <2>1
<1>8. snaps' = SubSeq(snaps, 1, k - 1) /\ ~ended' /\ logOpen' \in BOOLEAN
  <2>1. k # 0 => snaps[k].log \in BOOLEAN
    BY <1>1, <1>3, SnapshotTyped
  <2> QED
    BY <2>1 DEF Popped
<1>9. /\ snaps' \in Seq(SnapshotType) /\ Len(snaps') <= n /\ Len(snaps') \in Nat
      /\ \A j \in 1..Len(snaps') : snaps'[j] = snaps[j] /\ j < k
  <2>1. CASE k <= 1
    <3>1. snaps' = <<>>
      BY <1>1, <1>8, <2>1, SubSeqEmpty
    <3> QED
      BY <1>1, <3>1
  <2>2. CASE k > 1
    <3>1. k - 1 \in 1..n /\ k - 1 < k
      BY <1>1, <2>2
    <3>2. \A j \in 1..k - 1 : snaps[j] \in SnapshotType
      BY <1>1, <3>1
    <3>3. /\ snaps' \in Seq(SnapshotType) /\ Len(snaps') = k - 1
          /\ \A j \in 1..k - 1 : snaps'[j] = snaps[j]
      BY <1>1, <1>8, <3>1, <3>2, SubSeqProperties
    <3> QED
      BY <1>1, <3>1, <3>3
  <2> QED
    BY <1>1, <2>1, <2>2
<1>10. Growing(snaps', out')
  <2>1. ASSUME NEW j \in 1..Len(snaps'), NEW f \in Files
        PROVE  -1 <= snaps'[j].len[f] /\ snaps'[j].len[f] <= LengthOf(out'[f])
    <3>1. snaps'[j] = snaps[j] /\ j < k /\ k # 0 /\ j \in 1..Len(snaps) /\ j <= k
      BY <1>1, <1>9
    <3>2. LengthOf(out'[f]) = snaps[k].len[f] /\ k \in 1..Len(snaps)
      BY <1>2, <1>3, <1>6, <3>1
    <3> QED
      BY <3>1, <3>2 DEF Inv, Growing
  <2>2. ASSUME NEW j \in 1..Len(snaps'), NEW i \in 1..Len(snaps'), j <= i, NEW f \in Files
        PROVE  snaps'[j].len[f] <= snaps'[i].len[f]
    <3>1. snaps'[j] = snaps[j] /\ snaps'[i] = snaps[i] /\ j \in 1..Len(snaps) /\ i \in 1..Len(snaps)
      BY <1>1, <1>9
    <3> QED
      BY <2>2, <3>1 DEF Inv, Growing
  <2> QED
    BY <2>1, <2>2 DEF Growing
<1>11. k = 0 => \A f \in Files : out'[f] = Null
  BY <1>4, <1>5 DEF Cut
<1> QED
  BY <1>6, <1>7, <1>8, <1>9, <1>10, <1>11

LEMMA BeginsTwice ==
  ASSUME NEW s \in Seq(Bytes), NEW t \in Seq(Bytes), NEW u \in Seq(Bytes),
         Begins(s, t), Begins(t, u)
  PROVE  Begins(s, u)
<1>1. Len(s) \in Nat /\ Len(t) \in Nat /\ Len(u) \in Nat
  OBVIOUS
<1> QED
  BY <1>1 DEF Begins

(* What is left begins what there was. *)
LEMMA LeftBegins ==
  ASSUME NEW text \in Seq(Bytes), NEW b \in Buffers \cup {Null}, Buffered(b, text),
         NEW c \in Buffers \cup {Null}, Left(b, c)
  PROVE  PartOf(c) \in Seq(Bytes) /\ PartOf(b) \in Seq(Bytes) /\ Begins(PartOf(c), PartOf(b))
<1>1. PartOf(b) \in Seq(Bytes)
  BY PartTyped
<1>2. CASE c = Null
  <2>1. PartOf(c) = <<>>
    <3>1. SubSeq(<<>>, 1, 0) = <<>>
      BY SubSeqEmpty
    <3> QED
      BY <1>2, <3>1 DEF PartOf, NoBuffer
  <2> QED
    BY <1>1, <2>1 DEF Begins
<1>3. CASE c # Null
  <2>1. b # Null /\ c.len <= b.len /\ c.mem = b.mem /\ b \in Buffers /\ c \in Buffers
    BY <1>3 DEF Left
  <2>2. Buffered(c, text)
    <3>1. c.len \in Nat /\ b.len \in Nat /\ Len(text) \in Nat /\ Len(b.mem) \in Nat
      BY <2>1 DEF Buffers
    <3> QED
      BY <2>1, <3>1 DEF Buffered
  <2>3. Holds(b, PartOf(b)) /\ Holds(c, PartOf(c)) /\ PartOf(c) \in Seq(Bytes)
    BY <1>3, <2>1, <2>2, PartTyped
  <2>4. Len(PartOf(c)) \in Nat /\ Len(PartOf(b)) \in Nat
    BY <1>1, <2>3
  <2> QED
    BY <1>1, <2>1, <2>3, <2>4 DEF Holds, Begins
<1> QED
  BY <1>2, <1>3

(* What the worker writes next goes on with what is left. *)
LEMMA ReprogrammedBuffered ==
  ASSUME Inv, out' \in [Files -> Buffers \cup {Null}], \A f \in Files : Left(out[f], out'[f]),
         Reprogrammed
  PROVE  prog' \in document /\ TextInv'
<1>1. prog' \in document /\ prog' \in [Files -> Seq(Bytes)]
  BY ProgramTyped DEF Reprogrammed, Inv, Typed
<1>2. ASSUME NEW f \in Files, out'[f] # Null
      PROVE  Buffered(out'[f], prog'[f])
  <2>1. /\ out[f] # Null /\ out'[f].len <= out[f].len /\ out'[f].mem = out[f].mem
        /\ out'[f] \in Buffers /\ out[f] \in Buffers
    BY <1>2 DEF Left, Inv, Typed
  <2>2. PICK mem \in Seq(Bytes), len \in Nat : mem = out'[f].mem /\ len = out'[f].len
    BY <2>1 DEF Buffers
  <2>3. len <= Len(mem)
    <3>1. out[f].len <= Len(out[f].mem) /\ out[f].len \in Nat
      BY <2>1 DEF Inv, TextInv, Buffered, Buffers
    <3> QED
      BY <2>1, <2>2, <3>1
  <2>4. PICK text \in Seq(Bytes) : text = prog'[f]
    BY <1>1
  <2>5. text # <<>> /\ IsPrefix(SubSeq(mem, 1, len), text)
    BY <1>2, <2>2, <2>4 DEF Reprogrammed
  <2>6. PICK s : s = SubSeq(mem, 1, len)
    OBVIOUS
  <2>7. s \in Seq(Bytes) /\ Len(s) = len /\ \A i \in 1..len : s[i] = mem[i]
    <3>1. \A i \in 1..len : mem[i] \in Bytes
      BY <2>3
    <3> QED
      BY <2>3, <2>6, <3>1, SubSeqProperties
  <2>8. len <= Len(text) /\ SubSeq(s, 1, len) = SubSeq(text, 1, len)
    BY <2>5, <2>6, <2>7 DEF IsPrefix
  <2>9. \A i \in 1..len : SubSeq(s, 1, len)[i] = s[i]
    <3>1. \A i \in 1..len : s[i] \in Bytes
      BY <2>7
    <3> QED
      BY <2>7, <3>1, SubSeqProperties
  <2>10. \A i \in 1..len : SubSeq(text, 1, len)[i] = text[i]
    <3>1. \A i \in 1..len : text[i] \in Bytes
      BY <2>8
    <3> QED
      BY <2>8, <3>1, SubSeqProperties
  <2>11. \A i \in 1..len : mem[i] = text[i]
    BY <2>7, <2>8, <2>9, <2>10
  <2> QED
    BY <2>2, <2>3, <2>4, <2>5, <2>8, <2>11 DEF Buffered
<1>3. TextInv'
  BY <1>2 DEF TextInv, Buffered
<1> QED
  BY <1>1, <1>3

(* Everything is told of a cut. *)
LEMMA ToldInv ==
  ASSUME Inv, Going, out' \in [Files -> Buffers \cup {Null}], snaps' \in Seq(SnapshotType),
         logOpen' \in BOOLEAN, ~ended', \A f \in Files : Left(out[f], out'[f]),
         Growing(snaps', out'), Reprogrammed, Told, "dvi" \notin behind', document' = document
  PROVE  Inv'
<1>1. prog' \in document /\ TextInv'
  BY ReprogrammedBuffered
<1>2. PICK b : b = out'["dvi"]
  OBVIOUS
<1>3. /\ document \in Documents /\ prog' \in document /\ "dvi" \in Files
      /\ b \in Buffers \cup {Null} /\ Buffered(b, prog'["dvi"]) /\ Left(out["dvi"], b)
  BY <1>1, <1>2 DEF Inv, Typed, TextInv, Files
<1>4. /\ Known \in Seq(Bytes) /\ Opens(Known) /\ Begins(PartOf(out["dvi"]), Known)
      /\ PartOf(out["dvi"]) \in Seq(Bytes)
  BY KnownIs DEF Inv
<1>5. PartOf(b) \in Seq(Bytes) /\ Begins(PartOf(b), PartOf(out["dvi"]))
  <2>1. prog["dvi"] \in Seq(Bytes) /\ out["dvi"] \in Buffers \cup {Null}
        /\ Buffered(out["dvi"], prog["dvi"])
    BY <1>3, ProgramTyped DEF Inv, Typed, TextInv
  <2> QED
    BY <1>3, <2>1, LeftBegins
<1>6. Begins(PartOf(b), Known)
  BY <1>4, <1>5, BeginsTwice
<1>7. Known' = PartOf(b)
  BY <1>2, WrittenIs DEF Known
<1>8. Shaped(dvi) /\ Indexed(dvi, Known)
  BY DEF Inv, Typed, IndexInv
<1>9. /\ Indexed(dvi', PartOf(b)) /\ Shaped(dvi')
      /\ b = Null \/ DviSound(dvi', b)
  <2>1. CASE b = Null
    <3>1. PartOf(b) = <<>>
      <4>1. SubSeq(<<>>, 1, 0) = <<>>
        BY SubSeqEmpty
      <4> QED
        BY <2>1, <4>1 DEF PartOf, NoBuffer
    <3> QED
      BY <1>2, <2>1, <3>1, ResetIndexed DEF Told
  <2>2. CASE b # Null
    <3>1. dvi' = DviUpdated(dvi, b)
      BY <1>2, <2>2 DEF Told
    <3> QED
      BY <1>3, <1>4, <1>6, <1>8, <2>2, <3>1, Retold
  <2> QED
    BY <2>1, <2>2
<1>10. LinesTyped(stex')
  <2>1. PICK c : c = out'["stex"] /\ c \in Buffers \cup {Null}
    BY DEF Files
  <2>2. c # Null => c.len \in Nat
    BY <2>1 DEF Buffers
  <2>3. stex' = IF c = Null THEN LinesCut(stex, 0)
                ELSE IF c.len < stex.cur THEN LinesCut(stex, c.len) ELSE LinesUpdated(stex, c)
    BY <2>1 DEF Told
  <2> QED
    BY <2>2, <2>3, LinesCutTyped, LinesUpdatedTyped DEF Inv, Typed
<1>11. FailInv'
  <2>1. Fails(stex'.bad \cup (IF b = Null \/ DviSound(dvi', b) THEN {} ELSE {"marks"}))
    BY <1>2 DEF Told
  <2>2. Fails(stex'.bad)
    BY <1>9, <2>1
  <2> QED
    BY <1>10, <2>2, FailsKept DEF LinesTyped
<1>12. IndexInv' /\ EndInv'
  BY <1>7, <1>9 DEF IndexInv, EndInv
<1>13. Typed'
  BY <1>1, <1>3, <1>9, <1>10 DEF Typed
<1> QED
  BY <1>1, <1>11, <1>12, <1>13 DEF Inv

LEMMA RollbackInv ==
  ASSUME Inv, Rollback
  PROVE  Inv'
<1>1. Going /\ Reprogrammed /\ Told /\ document' = document
  BY DEF Rollback
<1>2. CASE (\E k \in 0..Len(snaps) : Popped(k)) /\ behind' = {}
  <2>1. PICK k \in 0..Len(snaps) : Popped(k)
    BY <1>2
  <2>2. /\ out' \in [Files -> Buffers \cup {Null}] /\ snaps' \in Seq(SnapshotType)
        /\ logOpen' \in BOOLEAN /\ ~ended'
        /\ \A f \in Files : Left(out[f], out'[f])
        /\ Growing(snaps', out')
    BY <2>1, PoppedKeeps
  <2> QED
    BY <1>1, <1>2, <2>2, ToldInv
<1>3. CASE Kept /\ behind' = behind \cap {"stex"}
  <2>1. UNCHANGED <<out, logOpen, snaps>> /\ ~ended' /\ "dvi" \notin behind'
    BY <1>3 DEF Kept
  <2>2. /\ out' \in [Files -> Buffers \cup {Null}] /\ snaps' \in Seq(SnapshotType)
        /\ logOpen' \in BOOLEAN /\ Growing(snaps', out')
    BY <2>1 DEF Inv, Typed
  <2>3. \A f \in Files : Left(out[f], out'[f])
    BY <2>1 DEF Inv, Typed, Buffers, Left
  <2> QED
    BY <1>1, <2>1, <2>2, <2>3, ToldInv
<1> QED
  BY <1>2, <1>3 DEF Rollback

LEMMA NothingLeft == PartOf(Null) = <<>>
<1>1. SubSeq(<<>>, 1, 0) = <<>>
  BY SubSeqEmpty
<1> QED
  BY <1>1 DEF PartOf, NoBuffer

LEMMA FinishAgainInv ==
  ASSUME Inv, FinishAgain
  PROVE  Inv'
<1>1. /\ Going /\ Popped(0) /\ Reprogrammed
      /\ dvi' = Reset(dvi) /\ stex' = LinesCut(stex, 0) /\ Fails(stex'.bad)
      /\ behind' = {} /\ document' = document
  BY DEF FinishAgain
<1>2. /\ out' \in [Files -> Buffers \cup {Null}] /\ snaps' \in Seq(SnapshotType)
      /\ logOpen' \in BOOLEAN /\ ~ended'
      /\ \A f \in Files : Left(out[f], out'[f])
      /\ Growing(snaps', out')
      /\ \A f \in Files : out'[f] = Null
  <2>1. Len(snaps) \in Nat
    BY DEF Inv, Typed
  <2>2. 0 \in 0..Len(snaps)
    BY <2>1
  <2> QED
    BY <1>1, <2>2, PoppedKeeps
<1>3. prog' \in document /\ TextInv'
  BY <1>1, <1>2, ReprogrammedBuffered
<1>4. LinesTyped(stex')
  BY <1>1, LinesCutTyped DEF Inv, Typed
<1>5. Known' = <<>>
  <2>1. out'["dvi"] = Null
    BY <1>2 DEF Files
  <2> QED
    BY <1>1, <2>1, NothingLeft, WrittenIs DEF Known
<1>6. IndexInv' /\ Shaped(dvi')
  BY <1>1, <1>5, ResetIndexed DEF IndexInv
<1>7. Typed'
  BY <1>1, <1>2, <1>3, <1>4, <1>6 DEF Inv, Typed
<1>8. FailInv'
  BY <1>1, <1>4, FailsKept DEF LinesTyped
<1>9. EndInv'
  BY <1>2 DEF EndInv
<1> QED
  BY <1>2, <1>3, <1>6, <1>7, <1>8, <1>9 DEF Inv

(* A worker that ended has written all of the document. *)
LEMMA EndedKnown ==
  ASSUME Inv, ended
  PROVE  Known = prog["dvi"] /\ PartOf(out["dvi"]) = prog["dvi"]
<1>1. "dvi" \in Files
  BY DEF Files
<1>2. CASE prog["dvi"] = <<>>
  <2>1. out["dvi"] = Null
    BY <1>1, <1>2 DEF Inv, TextInv, Buffered
  <2> QED
    BY <1>2, <2>1, NothingLeft, WrittenIs DEF Known
<1>3. CASE prog["dvi"] # <<>>
  BY <1>1, <1>3, WrittenIs DEF Inv, EndInv, Known
<1> QED
  BY <1>2, <1>3

LEMMA FinishConvergedInv ==
  ASSUME Inv, FinishConverged
  PROVE  Inv'
<1>1. /\ Going /\ ended /\ snaps # <<>> /\ Popped(Len(snaps))
      /\ behind' = behind \cup {f \in Files : out'[f] # out[f]}
      /\ UNCHANGED <<document, prog, dvi, stex, aborted>>
  BY DEF FinishConverged
<1>2. /\ out' \in [Files -> Buffers \cup {Null}] /\ snaps' \in Seq(SnapshotType)
      /\ logOpen' \in BOOLEAN /\ ~ended'
      /\ \A f \in Files : Left(out[f], out'[f])
      /\ Growing(snaps', out')
  <2>1. Len(snaps) \in Nat
    BY DEF Inv, Typed
  <2>2. Len(snaps) \in 0..Len(snaps)
    BY <2>1
  <2> QED
    BY <1>1, <2>2, PoppedKeeps
<1>3. TextInv'
  <2> SUFFICES ASSUME NEW f \in Files, out'[f] # Null
               PROVE  Buffered(out'[f], prog[f])
    BY <1>1 DEF TextInv, Buffered
  <2>1. /\ out[f] # Null /\ out'[f].len <= out[f].len /\ out'[f].mem = out[f].mem
        /\ out'[f] \in Buffers /\ out[f] \in Buffers
    BY <1>2 DEF Left, Inv, Typed
  <2>2. Buffered(out[f], prog[f]) /\ prog[f] \in Seq(Bytes)
    BY ProgramTyped DEF Inv, Typed, TextInv
  <2>3. /\ out'[f].len \in Nat /\ out[f].len \in Nat
        /\ Len(prog[f]) \in Nat /\ Len(out[f].mem) \in Nat
    BY <2>1, <2>2 DEF Buffers
  <2> QED
    BY <2>1, <2>2, <2>3 DEF Buffered
<1>4. Known' = Known
  <2>1. Known = prog["dvi"] /\ PartOf(out["dvi"]) = prog["dvi"]
    BY <1>1, EndedKnown
  <2>2. CASE "dvi" \in behind'
    BY <1>1, <2>1, <2>2 DEF Known
  <2>3. CASE "dvi" \notin behind'
    <3>1. out'["dvi"] = out["dvi"]
      BY <1>1, <2>3 DEF Files
    <3> QED
      BY <2>1, <2>3, <3>1, WrittenIs DEF Known
  <2> QED
    BY <2>2, <2>3
<1>5. IndexInv' /\ Typed' /\ EndInv' /\ FailInv'
  BY <1>1, <1>2, <1>4 DEF Inv, IndexInv, Typed, EndInv, FailInv, Going
<1> QED
  BY <1>2, <1>3, <1>5 DEF Inv

LEMMA RenderedKeeps ==
  ASSUME NEW d, Shaped(d), NEW mem, NEW page
  PROVE  /\ Rendered(d, mem, page).pages = d.pages /\ Rendered(d, mem, page).offset = d.offset
         /\ Shaped(Rendered(d, mem, page))
<1>1. PICK e : e = FontsParsed(d, mem, d.pages[2 * page + 1])
  OBVIOUS
<1>2. \E v, w : e = [d EXCEPT !.fontdef = v, !.font = w]
  BY <1>1 DEF FontsParsed
<1>3. Shaped(e) /\ e.pages = d.pages /\ e.offset = d.offset
  BY <1>2 DEF Shaped
<1>4. \E v, w : Rendered(d, mem, page) = [e EXCEPT !.font = v, !.linked = w]
  BY <1>1 DEF Rendered
<1> QED
  BY <1>3, <1>4 DEF Shaped

(* A page that the index knows begins in the document. *)
LEMMA PageInDocument ==
  ASSUME Inv, Going, "dvi" \notin behind, NEW p \in 0..PageCount(dvi) - 1
  PROVE  out["dvi"] # Null /\ dvi.pages[2 * p + 1] \in Nat
         /\ ~(Buf("dvi").len <= dvi.pages[2 * p + 1])
<1>1. PICK b : b = out["dvi"]
  OBVIOUS
<1>2. PICK text \in Seq(Bytes) : text = PartOf(b)
  BY <1>1, KnownIs DEF Inv
<1>3. PICK w \in Nat : w = Len(text)
  OBVIOUS
<1>4. Known = text
  BY <1>1, <1>2, WrittenIs DEF Known
<1>5. PICK m : m = Marks(text, 0, w)
  OBVIOUS
<1>6. Found(w, 0, m) /\ dvi.pages = m.pages /\ m.pages \in Seq(Nat)
  <2>1. 0 \in 0..w+1
    OBVIOUS
  <2>2. Found(w, 0, m)
    BY <1>5, <2>1, MarksTyped
  <2> QED
    BY <1>3, <1>4, <1>5, <2>2 DEF Inv, IndexInv, Indexed, DviPages, Found
<1>7. PICK n \in Nat : n = Len(m.pages)
  BY <1>6
<1>8. 2 * p + 1 \in 1..n
  <2>1. p \in 0..(n \div 2) - 1
    BY <1>6, <1>7 DEF PageCount
  <2> QED
    BY <2>1
<1>9. dvi.pages[2 * p + 1] \in Nat /\ dvi.pages[2 * p + 1] < w
  BY <1>6, <1>7, <1>8 DEF Found
<1>10. b # Null
  <2> SUFFICES ASSUME b = Null PROVE FALSE
    OBVIOUS
  <2>1. w = 0
    BY <1>2, <1>3, NothingLeft
  <2> QED
    BY <1>9, <2>1
<1>11. Buf("dvi").len = w
  <2>1. Holds(b, text)
    BY <1>1, <1>2, <1>10, PartTyped, ProgramTyped DEF Inv, Typed, TextInv, Files
  <2> QED
    BY <1>1, <1>3, <1>10, <2>1 DEF Buf, Holds
<1> QED
  BY <1>1, <1>9, <1>10, <1>11

LEMMA RenderInv ==
  ASSUME Inv, Render
  PROVE  Inv'
<1>1. Going /\ UNCHANGED <<document, prog, out, logOpen, ended, snaps, stex, behind>>
  BY DEF Render
<1>2. PICK p \in 0..PageCount(dvi) - 1 :
        \/ out["dvi"] = Null /\ Fails({"null"}) /\ UNCHANGED dvi
        \/ Buf("dvi").len <= dvi.pages[2 * p + 1] /\ Fails({"render"}) /\ UNCHANGED dvi
        \/ dvi' = Rendered(dvi, Buf("dvi").mem, p) /\ UNCHANGED aborted
  BY DEF Render
<1>3. Known' = Known
  BY <1>1, WrittenIs DEF Known
<1>4. TextInv' /\ Growing(snaps', out') /\ EndInv'
  BY <1>1, WrittenIs DEF Inv, TextInv, EndInv
<1>5. Shaped(dvi) /\ Indexed(dvi, Known)
  BY <1>1 DEF Inv, Typed, IndexInv
<1>6. CASE UNCHANGED dvi /\ (out["dvi"] = Null \/ Buf("dvi").len <= dvi.pages[2 * p + 1])
           /\ aborted' \in {"null", "render"}
  <2>1. "dvi" \in behind
    BY <1>1, <1>6, PageInDocument
  <2>2. FailInv' /\ IndexInv'
    BY <1>1, <1>3, <1>5, <1>6, <2>1 DEF FailInv, IndexInv
  <2>3. Typed'
    BY <1>1, <1>6 DEF Inv, Typed
  <2> QED
    BY <1>4, <2>2, <2>3 DEF Inv
<1>7. CASE dvi' = Rendered(dvi, Buf("dvi").mem, p) /\ UNCHANGED aborted
  <2>1. dvi'.pages = dvi.pages /\ dvi'.offset = dvi.offset /\ Shaped(dvi')
    BY <1>5, <1>7, RenderedKeeps
  <2>2. Typed'
    BY <1>1, <2>1 DEF Inv, Typed
  <2>3. IndexInv' /\ FailInv'
    BY <1>1, <1>3, <1>5, <1>7, <2>1 DEF Inv, IndexInv, FailInv, Indexed
  <2> QED
    BY <1>4, <2>2, <2>3 DEF Inv
<1>8. Fails({"null"}) => aborted' \in {"null", "render"}
  BY DEF Fails
<1>9. Fails({"render"}) => aborted' \in {"null", "render"}
  BY DEF Fails
<1> QED
  BY <1>2, <1>6, <1>7, <1>8, <1>9

(* A step that changes the search only *)
LEMMA SearchInv ==
  ASSUME Inv, SetTarget \/ FindTarget
  PROVE  Inv'
<1>1. Going /\ UNCHANGED <<document, prog, out, logOpen, ended, snaps, dvi, stex, behind>>
  BY DEF SetTarget, FindTarget
<1>2. UNCHANGED aborted \/ Fails({"search"})
  BY DEF SetTarget, FindTarget
<1>3. FailInv'
  <2>1. CASE UNCHANGED aborted
    BY <1>1, <2>1 DEF Inv, FailInv
  <2>2. CASE Fails({"search"})
    BY <1>1, <2>2, FailsKept
  <2> QED
    BY <1>2, <2>1, <2>2
<1>4. TextInv' /\ Growing(snaps', out') /\ EndInv' /\ Typed'
  BY <1>1, WrittenIs DEF Inv, TextInv, EndInv, Typed
<1>5. IndexInv'
  BY <1>1, IndexKept DEF IndexInv
<1> QED
  BY <1>3, <1>4, <1>5 DEF Inv

-----------------------------------------------------------------------------
LEMMA InitInv == ASSUME Init PROVE Inv
<1>1. /\ document \in Documents /\ prog \in document
      /\ out = [f \in Files |-> Null] /\ logOpen = FALSE /\ ended = FALSE
      /\ snaps = <<>> /\ dvi = NoPages /\ stex = NoLines /\ behind = {} /\ aborted = "no"
  BY DEF Init
<1>2. Shaped(dvi) /\ LinesTyped(stex)
  BY <1>1 DEF Shaped, NoPages, LinesTyped, NoLines
<1>3. \A f \in Files : out[f] = Null
  BY <1>1
<1>4. Known = <<>>
  <2>1. out["dvi"] = Null
    BY <1>3 DEF Files
  <2> QED
    BY <1>1, <2>1, NothingLeft, WrittenIs DEF Known
<1>5. Indexed(dvi, <<>>)
  <2>1. NoPages = Reset(NoPages)
    BY DEF Reset, NoPages
  <2> QED
    BY <1>1, <2>1, ResetIndexed
<1>6. Typed
  <2>1. <<>> \in Seq(SnapshotType) /\ out \in [Files -> Buffers \cup {Null}]
    BY <1>1
  <2>2. logOpen \in BOOLEAN
    BY <1>1
  <2> QED
    BY <1>1, <1>2, <2>1, <2>2 DEF Typed
<1>7. TextInv /\ EndInv /\ IndexInv /\ FailInv
  BY <1>1, <1>3, <1>4, <1>5 DEF TextInv, Buffered, EndInv, IndexInv, FailInv
<1>8. Growing(snaps, out)
  BY <1>1 DEF Growing
<1> QED
  BY <1>6, <1>7, <1>8 DEF Inv

LEMMA NextInv == ASSUME Inv, [Next]_vars PROVE Inv'
<1>1. CASE UNCHANGED vars
  BY <1>1, WrittenIs DEF vars, Inv, Typed, TextInv, EndInv, IndexInv, FailInv, Known, Going
<1>2. CASE \E f \in Files : Open(f)
  BY <1>2, OpenInv
<1>3. CASE AppendDocument \/ AppendSynctex \/ AppendLog
  BY <1>3, AppendDocumentInv, AppendSynctexInv, AppendLogInv
<1>4. CASE End \/ Snapshot
  BY <1>4, EndLemma, SnapshotInv
<1>5. CASE Rollback \/ FinishAgain \/ FinishConverged
  BY <1>5, RollbackInv, FinishAgainInv, FinishConvergedInv
<1>6. CASE Render \/ SetTarget \/ FindTarget
  BY <1>6, RenderInv, SearchInv
<1> QED
  BY <1>1, <1>2, <1>3, <1>4, <1>5, <1>6 DEF Next

(* The index of the pages is the one of the bytes of the document that are   *)
(* left, whatever was written, cut by a rollback and written again, in       *)
(* whatever pieces (incdvi_update, rollback_processes); only a pass that     *)
(* converged leaves it behind, and only then may showing a page stop the     *)
(* driver; its marks never do.                                               *)
THEOREM IndexTellsThePages == Spec => []DviExact
<1>1. Init => Inv
  BY InitInv
<1>2. Inv /\ [Next]_vars => Inv'
  BY NextInv
<1>3. Inv => DviExact
  BY DEF Inv, IndexInv, FailInv, Known, Indexed, DviExact
<1> QED
  BY <1>1, <1>2, <1>3, PTL DEF Spec

-----------------------------------------------------------------------------
(* The lines of a text *)

Lines == Seq(Seq(Bytes))

(* Where the line begins, after some bytes *)
LEMMA LineStartIs ==
  ASSUME NEW mem, NEW o \in Nat
  PROVE  /\ LineStart(mem, o) \in 0..o
         /\ LineStart(mem, o) # 0 => NewLine(mem[LineStart(mem, o)])
         /\ \A q \in 1..o : NewLine(mem[q]) => q <= LineStart(mem, o)
<1> DEFINE S == {0} \cup {q \in 1..o : OpAt(mem, q - 1) = "nl"}
<1>1. S \subseteq Int /\ S # {} /\ \A x \in S : x <= o
  OBVIOUS
<1>2. Max(S) \in S /\ \A x \in S : x <= Max(S)
  <2>1. o \in Int
    OBVIOUS
  <2> HIDE DEF S
  <2> QED
    BY <1>1, <2>1, MaxIn, Zenon
<1>3. LineStart(mem, o) = Max(S)
  BY DEF LineStart
<1>4. \A q \in 1..o : OpAt(mem, q - 1) = "nl" <=> NewLine(mem[q])
  <2>1. \A q \in 1..o : q - 1 + 1 = q
    OBVIOUS
  <2> QED
    BY <2>1 DEF OpAt, NewLine
<1> QED
  BY <1>2, <1>3, <1>4

LEMMA LineStartOnly ==
  ASSUME NEW mem, NEW o \in Nat, NEW l \in 0..o, l # 0 => NewLine(mem[l]),
         \A q \in 1..o : NewLine(mem[q]) => q <= l
  PROVE  LineStart(mem, o) = l
<1>1. PICK m : m = LineStart(mem, o)
  OBVIOUS
<1>2. m \in 0..o /\ (m # 0 => NewLine(mem[m])) /\ \A q \in 1..o : NewLine(mem[q]) => q <= m
  BY <1>1, LineStartIs
<1>3. m <= l
  BY <1>2
<1>4. l <= m
  BY <1>2
<1> QED
  BY <1>1, <1>2, <1>3, <1>4

LEMMA LineStartStep ==
  ASSUME NEW mem, NEW o \in Nat, o > 0
  PROVE  LineStart(mem, o) = IF NewLine(mem[o]) THEN o ELSE LineStart(mem, o - 1)
<1>1. CASE NewLine(mem[o])
  <2>1. \A q \in 1..o : NewLine(mem[q]) => q <= o
    OBVIOUS
  <2> QED
    BY <1>1, <2>1, LineStartOnly
<1>2. CASE ~NewLine(mem[o])
  <2>1. o - 1 \in Nat
    OBVIOUS
  <2>2. PICK l : l = LineStart(mem, o - 1)
    OBVIOUS
  <2>3. l \in 0..o - 1 /\ (l # 0 => NewLine(mem[l])) /\ \A q \in 1..o - 1 : NewLine(mem[q]) => q <= l
    BY <2>1, <2>2, LineStartIs
  <2>4. l \in 0..o /\ \A q \in 1..o : NewLine(mem[q]) => q <= l
    BY <1>2, <2>3
  <2>5. LineStart(mem, o) = l
    BY <2>3, <2>4, LineStartOnly
  <2> QED
    BY <1>2, <2>2, <2>5
<1> QED
  BY <1>1, <1>2

(* The bytes of a line are not ends of lines. *)
LEMMA LineStartSame ==
  ASSUME NEW s, NEW t, NEW o \in Nat, \A i \in 1..o : s[i] = t[i]
  PROVE  LineStart(s, o) = LineStart(t, o)
<1>1. PICK l : l = LineStart(t, o)
  OBVIOUS
<1>2. l \in 0..o /\ (l # 0 => NewLine(t[l])) /\ \A q \in 1..o : NewLine(t[q]) => q <= l
  BY <1>1, LineStartIs
<1>3. (l # 0 => NewLine(s[l])) /\ \A q \in 1..o : NewLine(s[q]) => q <= l
  BY <1>2
<1> QED
  BY <1>1, <1>2, <1>3, LineStartOnly

(* The line that a byte ends *)
LineTo(text, n) == SubSeq(text, LineStart(text, n - 1) + 1, n - 1)

LEMMA LineToTyped ==
  ASSUME NEW text \in Seq(Bytes), NEW n \in 1..Len(text)
  PROVE  /\ LineTo(text, n) \in Seq(Bytes)
         /\ Len(LineTo(text, n)) = n - 1 - LineStart(text, n - 1)
         /\ LineStart(text, n - 1) \in 0..n - 1
         /\ \A i \in 1..n - 1 - LineStart(text, n - 1) :
              /\ LineTo(text, n)[i] = text[LineStart(text, n - 1) + i]
              /\ ~NewLine(LineTo(text, n)[i])
<1>1. n - 1 \in Nat /\ n <= Len(text) /\ Len(text) \in Nat
  OBVIOUS
<1>2. PICK l : l = LineStart(text, n - 1)
  OBVIOUS
<1>3. l \in 0..n - 1 /\ \A q \in 1..n - 1 : NewLine(text[q]) => q <= l
  BY <1>1, <1>2, LineStartIs
<1>4. PICK s : s = SubSeq(text, l + 1, n - 1)
  OBVIOUS
<1>5. /\ s \in Seq(Bytes) /\ Len(s) = n - 1 - l
      /\ \A i \in 1..n - 1 - l : s[i] = text[l + i]
  <2>1. \A i \in l + 1..n - 1 : text[i] \in Bytes
    BY <1>1, <1>3
  <2>2. l + 1 \in Int /\ n - 1 \in Int
    BY <1>3
  <2>3. /\ s \in Seq(Bytes) /\ Len(s) = IF l + 1 <= n - 1 THEN n - 1 - (l + 1) + 1 ELSE 0
        /\ \A i \in 1..n - 1 - (l + 1) + 1 : s[i] = text[l + 1 + i - 1]
    BY <1>4, <2>1, <2>2, SubSeqProperties
  <2>4. \A i \in 1..n - 1 - l : l + 1 + i - 1 = l + i /\ i \in 1..n - 1 - (l + 1) + 1
    BY <1>3
  <2> QED
    BY <1>3, <2>3, <2>4
<1>6. \A i \in 1..n - 1 - l : ~NewLine(s[i])
  <2> SUFFICES ASSUME NEW i \in 1..n - 1 - l
               PROVE  ~NewLine(text[l + i])
    BY <1>5
  <2>1. l + i \in 1..n - 1 /\ ~(l + i <= l)
    BY <1>3
  <2> QED
    BY <1>3, <2>1
<1> QED
  BY <1>2, <1>3, <1>4, <1>5, <1>6 DEF LineTo

LEMMA LineToSame ==
  ASSUME NEW s \in Seq(Bytes), NEW t \in Seq(Bytes), Begins(s, t), NEW n \in 1..Len(s)
  PROVE  LineTo(s, n) = LineTo(t, n)
<1>1. Len(s) \in Nat /\ Len(t) \in Nat /\ n \in 1..Len(t) /\ n - 1 \in Nat
  BY DEF Begins
<1>2. \A i \in 1..n - 1 : s[i] = t[i]
  BY <1>1 DEF Begins
<1>3. PICK l : l = LineStart(t, n - 1) /\ l = LineStart(s, n - 1)
  BY <1>1, <1>2, LineStartSame
<1>4. PICK a, b : a = LineTo(s, n) /\ b = LineTo(t, n)
  OBVIOUS
<1>5. /\ l \in 0..n - 1
      /\ a \in Seq(Bytes) /\ Len(a) = n - 1 - l /\ \A i \in 1..n - 1 - l : a[i] = s[l + i]
  BY <1>3, <1>4, LineToTyped
<1>6. b \in Seq(Bytes) /\ Len(b) = n - 1 - l /\ \A i \in 1..n - 1 - l : b[i] = t[l + i]
  BY <1>1, <1>3, <1>4, LineToTyped, SMTT(40)
<1>7. \A i \in 1..Len(a) : a[i] = b[i]
  <2> SUFFICES ASSUME NEW i \in 1..n - 1 - l
               PROVE  s[l + i] = t[l + i]
    BY <1>5, <1>6
  <2>1. l + i \in 1..n - 1
    BY <1>5
  <2> QED
    BY <1>2, <2>1
<1>8. a = b
  BY <1>5, <1>6, <1>7, SeqEqual
<1> QED
  BY <1>4, <1>8

FilledBody(text, g, n) ==
  IF n = 0 THEN <<>>
  ELSE IF NewLine(text[n]) THEN Append(g[n - 1], LineTo(text, n)) ELSE g[n - 1]

(* The complete lines of the first bytes of a text, for each number of them *)
Filling(text, to, g) == g = [n \in 0..to |-> FilledBody(text, g, n)]

LEMMA FillingExists ==
  ASSUME NEW text, NEW to \in Nat
  PROVE  \E g : Filling(text, to, g)
<1> DEFINE S == {n \in Nat : \E g : Filling(text, n, g)}
<1>1. 0 \in S
  <2>1. PICK g : g = [n \in 0..0 |-> <<>>]
    OBVIOUS
  <2>2. \A n \in 0..0 : n = 0
    OBVIOUS
  <2>3. Filling(text, 0, g)
    BY <2>1, <2>2 DEF Filling, FilledBody
  <2> QED
    BY <2>3
<1>2. ASSUME NEW k \in Nat, k \in S
      PROVE  k + 1 \in S
  <2>1. PICK g : Filling(text, k, g)
    BY <1>2
  <2>2. PICK last : last = k + 1 /\ last \in Nat /\ last # 0 /\ last - 1 = k
    OBVIOUS
  <2>3. PICK h : h = [n \in 0..last |-> IF n = last THEN FilledBody(text, g, last) ELSE g[n]]
    OBVIOUS
  <2>4. ASSUME NEW n \in 0..last
        PROVE  h[n] = FilledBody(text, h, n)
    <3>1. n # 0 => h[n - 1] = g[n - 1]
      <4>1. n # 0 => n - 1 \in 0..last /\ n - 1 # last
        BY <2>2
      <4> QED
        BY <2>3, <4>1
    <3>2. h[n] = FilledBody(text, g, n)
      <4>1. CASE n = last
        BY <2>2, <2>3, <4>1
      <4>2. CASE n # last
        <5>1. n \in 0..k /\ h[n] = g[n]
          BY <2>2, <2>3, <4>2
        <5> QED
          BY <2>1, <5>1 DEF Filling
      <4> QED
        BY <4>1, <4>2
    <3> QED
      BY <3>1, <3>2, Zenon DEF FilledBody
  <2>5. Filling(text, k + 1, h)
    <3>1. h = [n \in 0..last |-> h[n]]
      BY <2>3
    <3> QED
      BY <2>2, <2>4, <3>1 DEF Filling
  <2> QED
    BY <2>5
<1>3. \A n \in Nat : n \in S
  <2>1. \A n \in Nat : n \in S => n + 1 \in S
    BY <1>2
  <2> HIDE DEF S
  <2> QED
    BY <1>1, <2>1, Upward
<1> QED
  BY <1>3

LEMMA CompletedIs ==
  ASSUME NEW text, Len(text) \in Nat
  PROVE  \E g : Filling(text, Len(text), g) /\ Completed(text) = g[Len(text)]
<1> DEFINE h == CHOOSE g : Filling(text, Len(text), g)
<1>1. Filling(text, Len(text), h)
  BY FillingExists
<1>2. Completed(text) = h[Len(text)]
  BY DEF Completed, Filling, FilledBody, LineTo
<1> HIDE DEF h
<1> QED
  BY <1>1, <1>2

(* The ends of lines among some bytes *)
EndsUpTo(text, n) == {i \in 1..n : NewLine(text[i])}

LEMMA EndsStep ==
  ASSUME NEW text, NEW n \in Nat, n > 0
  PROVE  /\ IsFiniteSet(EndsUpTo(text, n)) /\ Cardinality(EndsUpTo(text, n)) \in Nat
         /\ Cardinality(EndsUpTo(text, n)) =
              Cardinality(EndsUpTo(text, n - 1)) + IF NewLine(text[n]) THEN 1 ELSE 0
         /\ Cardinality(EndsUpTo(text, n - 1)) \in Nat
<1>1. ASSUME NEW m \in Nat
      PROVE  IsFiniteSet(EndsUpTo(text, m)) /\ Cardinality(EndsUpTo(text, m)) \in Nat
  <2>1. IsFiniteSet(1..m)
    BY FS_Interval
  <2>2. EndsUpTo(text, m) \in SUBSET (1..m)
    BY DEF EndsUpTo
  <2>3. IsFiniteSet(EndsUpTo(text, m))
    BY <2>1, <2>2, FS_Subset
  <2> QED
    BY <2>3, FS_CardinalityType
<1>2. n - 1 \in Nat
  OBVIOUS
<1>3. CASE NewLine(text[n])
  <2>1. EndsUpTo(text, n) = EndsUpTo(text, n - 1) \cup {n} /\ n \notin EndsUpTo(text, n - 1)
    BY <1>3 DEF EndsUpTo
  <2>2. Cardinality(EndsUpTo(text, n)) = Cardinality(EndsUpTo(text, n - 1)) + 1
    BY <1>1, <1>2, <2>1, FS_AddElement
  <2> QED
    BY <1>1, <1>2, <1>3, <2>2
<1>4. CASE ~NewLine(text[n])
  <2>1. EndsUpTo(text, n) = EndsUpTo(text, n - 1)
    BY <1>4 DEF EndsUpTo
  <2> QED
    BY <1>1, <1>2, <1>4, <2>1
<1> QED
  BY <1>3, <1>4

LEMMA FillingStep ==
  ASSUME NEW text, NEW to \in Nat, NEW g, Filling(text, to, g)
  PROVE  /\ g[0] = <<>>
         /\ \A n \in 1..to : g[n] = IF NewLine(text[n]) THEN Append(g[n - 1], LineTo(text, n))
                                    ELSE g[n - 1]
<1>1. \A n \in 0..to : g[n] = FilledBody(text, g, n)
  BY DEF Filling
<1>2. 0 \in 0..to /\ \A n \in 1..to : n \in 0..to /\ n # 0
  OBVIOUS
<1> QED
  BY <1>1, <1>2 DEF FilledBody

LEMMA FillingTyped ==
  ASSUME NEW text \in Seq(Bytes), NEW g, Filling(text, Len(text), g)
  PROVE  \A n \in 0..Len(text) : g[n] \in Lines /\ Len(g[n]) = Cardinality(EndsUpTo(text, n))
<1>1. PICK to \in Nat : to = Len(text)
  OBVIOUS
<1> DEFINE S == {n \in Nat : n <= to => g[n] \in Lines /\ Len(g[n]) = Cardinality(EndsUpTo(text, n))}
<1>2. 0 \in S
  <2>1. g[0] = <<>>
    BY <1>1, FillingStep
  <2>2. EndsUpTo(text, 0) = {}
    BY DEF EndsUpTo
  <2>3. <<>> \in Lines
    BY DEF Lines
  <2> QED
    BY <2>1, <2>2, <2>3, FS_EmptySet
<1>3. ASSUME NEW n \in Nat, n \in S
      PROVE  n + 1 \in S
  <2> SUFFICES ASSUME n + 1 <= to
               PROVE  g[n + 1] \in Lines /\ Len(g[n + 1]) = Cardinality(EndsUpTo(text, n + 1))
    OBVIOUS
  <2>1. g[n] \in Lines /\ Len(g[n]) = Cardinality(EndsUpTo(text, n))
    BY <1>3
  <2>2. PICK m \in Nat : m = n + 1 /\ m > 0 /\ m - 1 = n /\ m \in 1..to
    BY <1>1
  <2>3. g[m] = IF NewLine(text[m]) THEN Append(g[n], LineTo(text, m)) ELSE g[n]
    BY <1>1, <2>2, FillingStep
  <2>4. LineTo(text, m) \in Seq(Bytes)
    BY <1>1, <2>2, LineToTyped
  <2>5. /\ Append(g[n], LineTo(text, m)) \in Lines
        /\ Len(Append(g[n], LineTo(text, m))) = Len(g[n]) + 1
    BY <2>1, <2>4, AppendProperties DEF Lines
  <2>6. /\ Cardinality(EndsUpTo(text, m)) = Cardinality(EndsUpTo(text, n)) + IF NewLine(text[m]) THEN 1 ELSE 0
        /\ Cardinality(EndsUpTo(text, n)) \in Nat
    BY <2>2, EndsStep
  <2> QED
    BY <2>1, <2>2, <2>3, <2>5, <2>6
<1>4. \A n \in Nat : n \in S
  <2>1. \A n \in Nat : n \in S => n + 1 \in S
    BY <1>3
  <2> HIDE DEF S
  <2> QED
    BY <1>2, <2>1, Upward
<1> QED
  BY <1>1, <1>4

(* More bytes, more lines *)
LEMMA FillingGrows ==
  ASSUME NEW text \in Seq(Bytes), NEW g, Filling(text, Len(text), g),
         NEW m \in 0..Len(text)
  PROVE  \A n \in m..Len(text) : Begins(g[m], g[n])
<1>1. PICK to \in Nat : to = Len(text) /\ m \in 0..to
  OBVIOUS
<1> DEFINE S == {k \in Nat : m + k <= to => Begins(g[m], g[m + k])}
<1>2. \A n \in 0..to : g[n] \in Lines
  BY <1>1, FillingTyped
<1>3. 0 \in S
  <2>1. g[m] \in Lines /\ m + 0 = m
    BY <1>1, <1>2
  <2> QED
    BY <2>1 DEF Begins, Lines
<1>4. ASSUME NEW k \in Nat, k \in S
      PROVE  k + 1 \in S
  <2> SUFFICES ASSUME m + (k + 1) <= to
               PROVE  Begins(g[m], g[m + (k + 1)])
    OBVIOUS
  <2>1. PICK n \in Nat : n = m + k /\ n \in 0..to /\ n + 1 \in 1..to /\ n + 1 - 1 = n /\ n + 1 = m + (k + 1)
    BY <1>1
  <2>2. Begins(g[m], g[n])
    BY <1>4, <2>1
  <2>3. g[n + 1] = IF NewLine(text[n + 1]) THEN Append(g[n], LineTo(text, n + 1)) ELSE g[n]
    BY <1>1, <2>1, FillingStep
  <2>4. LineTo(text, n + 1) \in Seq(Bytes)
    BY <1>1, <2>1, LineToTyped
  <2>5. g[n] \in Lines /\ g[m] \in Lines
    BY <1>1, <1>2, <2>1
  <2>6. PICK a : a = Append(g[n], LineTo(text, n + 1))
    OBVIOUS
  <2>7. Len(a) = Len(g[n]) + 1 /\ \A i \in 1..Len(g[n]) : a[i] = g[n][i]
    BY <2>4, <2>5, <2>6, AppendProperties DEF Lines
  <2>8. Len(g[n]) \in Nat /\ Len(g[m]) \in Nat
    BY <2>5 DEF Lines
  <2>9. Begins(g[m], a)
    BY <2>2, <2>7, <2>8 DEF Begins
  <2> QED
    BY <2>1, <2>2, <2>3, <2>6, <2>9
<1>5. \A k \in Nat : k \in S
  <2>1. \A k \in Nat : k \in S => k + 1 \in S
    BY <1>4
  <2> HIDE DEF S
  <2> QED
    BY <1>3, <2>1, Upward
<1>6. ASSUME NEW n \in m..Len(text)
      PROVE  Begins(g[m], g[n])
  <2>1. n - m \in Nat /\ m + (n - m) = n /\ n <= to
    BY <1>1
  <2> QED
    BY <1>5, <2>1
<1> QED
  BY <1>6

(* The lines of the beginning of a text are those of its first bytes. *)
LEMMA FillingSame ==
  ASSUME NEW s \in Seq(Bytes), NEW t \in Seq(Bytes), Begins(s, t),
         NEW g, Filling(s, Len(s), g), NEW h, Filling(t, Len(t), h)
  PROVE  \A n \in 0..Len(s) : g[n] = h[n]
<1>1. PICK to \in Nat, all \in Nat : to = Len(s) /\ all = Len(t) /\ to <= all
  BY DEF Begins
<1> DEFINE S == {n \in Nat : n <= to => g[n] = h[n]}
<1>2. 0 \in S
  <2>1. g[0] = <<>> /\ h[0] = <<>>
    BY <1>1, FillingStep
  <2> QED
    BY <2>1
<1>3. ASSUME NEW k \in Nat, k \in S
      PROVE  k + 1 \in S
  <2> SUFFICES ASSUME k + 1 <= to
               PROVE  g[k + 1] = h[k + 1]
    OBVIOUS
  <2>1. PICK n \in Nat : n = k + 1 /\ n \in 1..to /\ n \in 1..all /\ n - 1 = k
    BY <1>1
  <2>2. g[n] = IF NewLine(s[n]) THEN Append(g[k], LineTo(s, n)) ELSE g[k]
    BY <1>1, <2>1, FillingStep
  <2>3. h[n] = IF NewLine(t[n]) THEN Append(h[k], LineTo(t, n)) ELSE h[k]
    BY <1>1, <2>1, FillingStep
  <2>4. LineTo(s, n) = LineTo(t, n) /\ s[n] = t[n]
    BY <1>1, <2>1, LineToSame DEF Begins
  <2> QED
    BY <1>3, <2>1, <2>2, <2>3, <2>4
<1>4. \A k \in Nat : k \in S
  <2>1. \A k \in Nat : k \in S => k + 1 \in S
    BY <1>3
  <2> HIDE DEF S
  <2> QED
    BY <1>2, <2>1, Upward
<1> QED
  BY <1>1, <1>4

(* The complete lines of the beginning of a text *)
LEMMA CompletedBegins ==
  ASSUME NEW s \in Seq(Bytes), NEW t \in Seq(Bytes), Begins(s, t)
  PROVE  /\ Completed(s) \in Lines /\ Completed(t) \in Lines
         /\ Begins(Completed(s), Completed(t))
         /\ Len(Completed(s)) = LineEnds(s)
<1>1. Len(s) \in Nat /\ Len(t) \in Nat /\ Len(s) <= Len(t)
  BY DEF Begins
<1>2. PICK g : Filling(s, Len(s), g) /\ Completed(s) = g[Len(s)]
  BY <1>1, CompletedIs
<1>3. PICK h : Filling(t, Len(t), h) /\ Completed(t) = h[Len(t)]
  BY <1>1, CompletedIs
<1>4. Len(s) \in 0..Len(s) /\ Len(s) \in 0..Len(t) /\ Len(t) \in Len(s)..Len(t) /\ Len(t) \in 0..Len(t)
  BY <1>1
<1>5. Completed(s) = h[Len(s)]
  BY <1>2, <1>3, <1>4, FillingSame
<1>6. Begins(h[Len(s)], h[Len(t)])
  BY <1>3, <1>4, FillingGrows
<1>7. g[Len(s)] \in Lines /\ Len(g[Len(s)]) = Cardinality(EndsUpTo(s, Len(s)))
  BY <1>2, <1>4, FillingTyped
<1>8. h[Len(t)] \in Lines
  BY <1>3, <1>4, FillingTyped
<1>9. LineEnds(s) = Cardinality(EndsUpTo(s, Len(s)))
  <2>1. DOMAIN s = 1..Len(s)
    OBVIOUS
  <2> QED
    BY <2>1 DEF LineEnds, EndsUpTo
<1> QED
  BY <1>2, <1>3, <1>5, <1>6, <1>7, <1>8, <1>9

-----------------------------------------------------------------------------
(* The lines that are sent *)

SentByte(t, text, n) ==
  IF ~NewLine(text[n]) THEN t
  ELSE [lines |-> Append(t.lines, SubSeq(text, t.from + 1, n - 1)), from |-> n - 1]

(* The loop of editor_append, after each byte *)
Sending(text, pos, to, g) ==
  g = [n \in pos..to |-> IF n = pos THEN [lines |-> <<>>, from |-> LineStart(text, pos)]
                         ELSE SentByte(g[n - 1], text, n)]

LEMMA SendingExists ==
  ASSUME NEW text, NEW pos \in Nat, NEW to \in Nat, pos <= to
  PROVE  \E g : Sending(text, pos, to, g)
<1> DEFINE S == {n \in Nat : \E g : Sending(text, pos, pos + n, g)}
<1> DEFINE first == [lines |-> <<>>, from |-> LineStart(text, pos)]
<1>1. 0 \in S
  <2>1. PICK g : g = [n \in pos..pos + 0 |-> first]
    OBVIOUS
  <2>2. \A n \in pos..pos + 0 : n = pos
    OBVIOUS
  <2>3. Sending(text, pos, pos + 0, g)
    BY <2>1, <2>2 DEF Sending
  <2> QED
    BY <2>3
<1>2. ASSUME NEW k \in Nat, k \in S
      PROVE  k + 1 \in S
  <2>1. PICK g : Sending(text, pos, pos + k, g)
    BY <1>2
  <2>2. PICK last : last = pos + k + 1 /\ last \in Nat /\ last # pos /\ last - 1 = pos + k
    OBVIOUS
  <2>3. PICK h : h = [n \in pos..last |-> IF n = last THEN SentByte(g[last - 1], text, last) ELSE g[n]]
    OBVIOUS
  <2>4. ASSUME NEW n \in pos..last
        PROVE  h[n] = IF n = pos THEN first ELSE SentByte(h[n - 1], text, n)
    <3>1. n # pos => h[n - 1] = g[n - 1]
      <4>1. n # pos => n - 1 \in pos..last /\ n - 1 # last
        BY <2>2
      <4> QED
        BY <2>3, <4>1
    <3>2. CASE n = last
      <4>1. h[n] = SentByte(g[n - 1], text, n) /\ n # pos
        BY <2>2, <2>3, <3>2
      <4> QED
        BY <3>1, <4>1
    <3>3. CASE n # last
      <4>1. n \in pos..pos + k /\ h[n] = g[n]
        BY <2>2, <2>3, <3>3
      <4>2. g[n] = IF n = pos THEN first ELSE SentByte(g[n - 1], text, n)
        BY <2>1, <4>1 DEF Sending
      <4> QED
        BY <3>1, <4>1, <4>2
    <3> QED
      BY <3>2, <3>3
  <2>5. Sending(text, pos, pos + (k + 1), h)
    <3>1. h = [n \in pos..last |-> h[n]]
      BY <2>3
    <3>2. last = pos + (k + 1)
      BY <2>2
    <3> QED
      BY <2>4, <3>1, <3>2 DEF Sending
  <2> QED
    BY <2>5
<1>3. \A n \in Nat : n \in S
  <2>1. \A n \in Nat : n \in S => n + 1 \in S
    BY <1>2
  <2> HIDE DEF S
  <2> QED
    BY <1>1, <2>1, Upward
<1>4. to - pos \in Nat /\ pos + (to - pos) = to
  OBVIOUS
<1>5. to - pos \in S
  BY <1>3, <1>4
<1> QED
  BY <1>4, <1>5

LEMMA LinesAfterIs ==
  ASSUME NEW text, Len(text) \in Nat, NEW pos \in Nat, pos <= Len(text)
  PROVE  \E g : Sending(text, pos, Len(text), g) /\ LinesAfter(text, pos) = g[Len(text)].lines
<1> DEFINE h == CHOOSE g : Sending(text, pos, Len(text), g)
<1>1. Sending(text, pos, Len(text), h)
  BY SendingExists
<1>2. LinesAfter(text, pos) = h[Len(text)].lines
  BY DEF LinesAfter, Sending, SentByte
<1> HIDE DEF h
<1> QED
  BY <1>1, <1>2

(* Where the line that is sent next begins: at the line, or at the end of *)
(* the one before                                                         *)
From(text, n, from) ==
  \/ from = LineStart(text, n)
  \/ LineStart(text, n) > 0 /\ from = LineStart(text, n) - 1

(* A line that is sent is the line, with the end of the one before or not. *)
LEMMA SentBare ==
  ASSUME NEW text \in Seq(Bytes), NEW n \in 1..Len(text), NEW from, From(text, n - 1, from)
  PROVE  /\ SubSeq(text, from + 1, n - 1) \in Seq(Bytes)
         /\ Bare(SubSeq(text, from + 1, n - 1)) = LineTo(text, n)
<1>1. PICK to \in Nat : to = Len(text) /\ n \in 1..to /\ n - 1 \in Nat /\ n - 1 \in Int
  OBVIOUS
<1>2. PICK l : l = LineStart(text, n - 1)
  OBVIOUS
<1>3. l \in 0..n - 1 /\ (l # 0 => NewLine(text[l]))
  BY <1>1, <1>2, LineStartIs
<1>4. PICK line : line = LineTo(text, n)
  OBVIOUS
<1>5. /\ line \in Seq(Bytes) /\ Len(line) = n - 1 - l
      /\ \A i \in 1..n - 1 - l : line[i] = text[l + i] /\ ~NewLine(line[i])
  BY <1>2, <1>4, LineToTyped
<1>6. CASE from = l
  <2>1. SubSeq(text, from + 1, n - 1) = line
    BY <1>2, <1>4, <1>6 DEF LineTo
  <2>2. Bare(line) = line
    <3>1. CASE line = <<>>
      BY <3>1 DEF Bare
    <3>2. CASE line # <<>>
      <4>1. Len(line) \in Nat /\ Len(line) # 0 /\ 1 \in 1..n - 1 - l
        BY <1>3, <1>5, <3>2
      <4>2. Head(line) = line[1] /\ ~NewLine(line[1])
        BY <1>5, <4>1
      <4> QED
        BY <4>2 DEF Bare
    <3> QED
      BY <3>1, <3>2
  <2> QED
    BY <1>4, <1>5, <2>1, <2>2
<1>7. CASE from # l
  <2>1. l > 0 /\ from = l - 1 /\ from + 1 = l /\ l \in 1..n - 1
    BY <1>2, <1>3, <1>7 DEF From
  <2>2. PICK s : s = SubSeq(text, l, n - 1)
    OBVIOUS
  <2>3. s \in Seq(Bytes) /\ Len(s) = n - l /\ \A i \in 1..n - l : s[i] = text[l + i - 1]
    <3>1. \A i \in l..n - 1 : text[i] \in Bytes
      BY <1>1, <2>1
    <3>2. l \in Int /\ n - 1 \in Int
      BY <2>1
    <3>3. /\ s \in Seq(Bytes) /\ Len(s) = IF l <= n - 1 THEN n - 1 - l + 1 ELSE 0
          /\ \A i \in 1..n - 1 - l + 1 : s[i] = text[l + i - 1]
      BY <2>2, <3>1, <3>2, SubSeqProperties
    <3> QED
      BY <2>1, <3>3
  <2>4. s # <<>> /\ Head(s) = s[1] /\ s[1] = text[l] /\ NewLine(text[l])
    <3>1. Len(s) > 0 /\ 1 \in 1..n - l
      BY <2>1, <2>3
    <3> QED
      BY <1>3, <2>1, <2>3, <3>1
  <2>5. Bare(s) = Tail(s)
    BY <2>4 DEF Bare
  <2>6. PICK u : u = Tail(s)
    OBVIOUS
  <2>7. u \in Seq(Bytes) /\ Len(u) = Len(s) - 1 /\ \A i \in 1..Len(u) : u[i] = s[i + 1]
    BY <2>3, <2>4, <2>6, HeadTailProperties
  <2>8. Len(u) = Len(line)
    BY <1>5, <2>1, <2>3, <2>7
  <2>9. \A i \in 1..Len(u) : u[i] = line[i]
    <3> SUFFICES ASSUME NEW i \in 1..Len(u)
                 PROVE  u[i] = line[i]
      OBVIOUS
    <3>1. i + 1 \in 1..n - l /\ l + (i + 1) - 1 = l + i /\ i \in 1..n - 1 - l
      BY <2>1, <2>3, <2>7
    <3> QED
      BY <1>5, <2>3, <2>7, <3>1
  <2>10. u = line
    BY <1>5, <2>7, <2>8, <2>9, SeqEqual
  <2> QED
    BY <1>4, <2>1, <2>2, <2>3, <2>5, <2>6, <2>10
<1> QED
  BY <1>6, <1>7

(* Lines that follow some others *)
Follow(before, sent, all) ==
  /\ Begins(before, all)
  /\ Len(all) = Len(before) + Len(sent)
  /\ \A i \in 1..Len(sent) : Bare(sent[i]) = all[Len(before) + i]

LEMMA FollowStep ==
  ASSUME NEW before \in Lines, NEW sent \in Lines, NEW all \in Lines, Follow(before, sent, all),
         NEW line \in Seq(Bytes), NEW s \in Seq(Bytes), Bare(s) = line
  PROVE  Append(sent, s) \in Lines /\ Follow(before, Append(sent, s), Append(all, line))
<1>1. PICK a, b : a = Append(sent, s) /\ b = Append(all, line)
  OBVIOUS
<1>2. Len(before) \in Nat /\ Len(sent) \in Nat /\ Len(all) \in Nat
  BY DEF Lines
<1>3. /\ a \in Lines /\ Len(a) = Len(sent) + 1 /\ a[Len(sent) + 1] = s
      /\ \A i \in 1..Len(sent) : a[i] = sent[i]
  BY <1>1, AppendProperties DEF Lines
<1>4. /\ b \in Lines /\ Len(b) = Len(all) + 1 /\ b[Len(all) + 1] = line
      /\ \A i \in 1..Len(all) : b[i] = all[i]
  BY <1>1, AppendProperties DEF Lines
<1>5. Begins(before, b)
  BY <1>2, <1>4 DEF Follow, Begins
<1>6. Len(all) = Len(before) + Len(sent)
  BY DEF Follow
<1>7. ASSUME NEW i \in 1..Len(a)
      PROVE  Bare(a[i]) = b[Len(before) + i]
  <2>1. CASE i = Len(sent) + 1
    <3>1. Len(before) + i = Len(all) + 1
      BY <1>2, <1>6, <2>1
    <3> QED
      BY <1>3, <1>4, <2>1, <3>1
  <2>2. CASE i # Len(sent) + 1
    <3>1. i \in 1..Len(sent) /\ Len(before) + i \in 1..Len(all)
      BY <1>2, <1>3, <1>6, <2>2
    <3> QED
      BY <1>3, <1>4, <3>1 DEF Follow
  <2> QED
    BY <2>1, <2>2
<1>8. Follow(before, a, b)
  BY <1>2, <1>3, <1>4, <1>5, <1>6, <1>7 DEF Follow
<1> QED
  BY <1>1, <1>3, <1>8

(* The message for what follows a position has the lines it completes. *)
LEMMA SendingFollows ==
  ASSUME NEW text \in Seq(Bytes), NEW pos \in 0..Len(text),
         NEW g, Sending(text, pos, Len(text), g), NEW h, Filling(text, Len(text), h)
  PROVE  g[Len(text)].lines \in Lines /\ Follow(h[pos], g[Len(text)].lines, h[Len(text)])
<1>1. PICK to \in Nat : to = Len(text) /\ pos \in 0..to /\ pos \in Nat
  OBVIOUS
<1> DEFINE S == {k \in Nat : pos + k <= to =>
                   /\ g[pos + k].lines \in Lines
                   /\ From(text, pos + k, g[pos + k].from)
                   /\ Follow(h[pos], g[pos + k].lines, h[pos + k])}
<1>2. \A n \in 0..to : h[n] \in Lines
  BY <1>1, FillingTyped
<1>3. 0 \in S
  <2>1. pos + 0 = pos /\ pos \in pos..to
    BY <1>1
  <2>2. g[pos] = [lines |-> <<>>, from |-> LineStart(text, pos)]
    BY <1>1, <2>1 DEF Sending
  <2>3. g[pos].lines = <<>> /\ From(text, pos, g[pos].from)
    BY <2>2 DEF From
  <2>4. <<>> \in Lines
    BY DEF Lines
  <2>5. h[pos] \in Lines
    BY <1>1, <1>2
  <2>6. Follow(h[pos], <<>>, h[pos])
    BY <2>5 DEF Follow, Begins, Lines
  <2> QED
    BY <2>1, <2>3, <2>4, <2>6
<1>4. ASSUME NEW k \in Nat, k \in S
      PROVE  k + 1 \in S
  <2> SUFFICES ASSUME pos + (k + 1) <= to
               PROVE  /\ g[pos + (k + 1)].lines \in Lines
                      /\ From(text, pos + (k + 1), g[pos + (k + 1)].from)
                      /\ Follow(h[pos], g[pos + (k + 1)].lines, h[pos + (k + 1)])
    OBVIOUS
  <2>1. PICK n \in Nat : /\ n = pos + (k + 1) /\ n \in 1..to /\ n - 1 = pos + k /\ n > 0
                         /\ n \in pos..to /\ n # pos /\ pos + k \in 0..to
    BY <1>1
  <2>2. PICK p : p = g[n - 1]
    OBVIOUS
  <2>3. g[n] = SentByte(p, text, n)
    BY <1>1, <2>1, <2>2 DEF Sending
  <2>4. p.lines \in Lines /\ From(text, n - 1, p.from) /\ Follow(h[pos], p.lines, h[n - 1])
    BY <1>1, <1>4, <2>1, <2>2
  <2>5. h[n] = IF NewLine(text[n]) THEN Append(h[n - 1], LineTo(text, n)) ELSE h[n - 1]
    <3>1. \A m \in 1..to : h[m] = IF NewLine(text[m]) THEN Append(h[m - 1], LineTo(text, m))
                                  ELSE h[m - 1]
      BY <1>1, FillingStep
    <3> QED
      BY <2>1, <3>1
  <2>6. LineStart(text, n) = IF NewLine(text[n]) THEN n ELSE LineStart(text, n - 1)
    BY <2>1, LineStartStep
  <2>7. CASE NewLine(text[n])
    <3>1. PICK s : s = SubSeq(text, p.from + 1, n - 1)
      OBVIOUS
    <3>2. s \in Seq(Bytes) /\ Bare(s) = LineTo(text, n) /\ LineTo(text, n) \in Seq(Bytes)
      BY <1>1, <2>1, <2>4, <3>1, SentBare, LineToTyped
    <3>3. g[n] = [lines |-> Append(p.lines, s), from |-> n - 1]
      BY <2>3, <2>7, <3>1 DEF SentByte
    <3>4. h[n - 1] \in Lines /\ h[pos] \in Lines
      BY <1>1, <1>2, <2>1
    <3>5. Append(p.lines, s) \in Lines /\ Follow(h[pos], Append(p.lines, s), Append(h[n - 1], LineTo(text, n)))
      BY <2>4, <3>2, <3>4, FollowStep
    <3>6. From(text, n, n - 1)
      BY <2>1, <2>6, <2>7 DEF From
    <3> QED
      BY <2>1, <2>5, <2>7, <3>3, <3>5, <3>6
  <2>8. CASE ~NewLine(text[n])
    <3>1. g[n] = p
      BY <2>3, <2>8 DEF SentByte
    <3>2. From(text, n, p.from)
      BY <2>4, <2>6, <2>8 DEF From
    <3> QED
      BY <2>1, <2>4, <2>5, <2>8, <3>1, <3>2
  <2> QED
    BY <2>7, <2>8
<1>5. \A k \in Nat : k \in S
  <2>1. \A k \in Nat : k \in S => k + 1 \in S
    BY <1>4
  <2> HIDE DEF S
  <2> QED
    BY <1>3, <2>1, Upward
<1>6. to - pos \in Nat /\ pos + (to - pos) = to
  BY <1>1
<1> QED
  BY <1>1, <1>5, <1>6

-----------------------------------------------------------------------------
(* The log in the editor *)

Bared(lines) == [i \in DOMAIN lines |-> Bare(lines[i])]

(* The editor has a text, and maybe more. *)
Shows(s, text) ==
  /\ s.bytes \in Seq(Bytes) /\ s.lines \in Lines
  /\ Begins(text, s.bytes)
  /\ Begins(Completed(text), Bared(s.lines))

ShowsAll(s, text) ==
  /\ s.bytes \in Seq(Bytes) /\ s.lines \in Lines
  /\ s.bytes = text
  /\ Bared(s.lines) = Completed(text)

LEMMA BaredIs ==
  ASSUME NEW lines \in Lines
  PROVE  /\ Bared(lines) \in Lines /\ Len(Bared(lines)) = Len(lines)
         /\ \A i \in 1..Len(lines) : Bared(lines)[i] = Bare(lines[i])
<1>1. PICK n \in Nat : n = Len(lines) /\ DOMAIN lines = 1..n
  BY DEF Lines
<1>2. ASSUME NEW i \in 1..n
      PROVE  Bare(lines[i]) \in Seq(Bytes)
  <2>1. lines[i] \in Seq(Bytes)
    BY <1>1 DEF Lines
  <2>2. lines[i] # <<>> => Tail(lines[i]) \in Seq(Bytes)
    BY <2>1, HeadTailProperties
  <2> QED
    BY <2>1, <2>2 DEF Bare
<1>3. PICK b : b = Bared(lines)
  OBVIOUS
<1>4. b = [i \in 1..n |-> Bare(lines[i])]
  BY <1>1, <1>3 DEF Bared
<1>5. b \in Seq(Seq(Bytes)) /\ Len(b) = n /\ \A i \in 1..n : b[i] = Bare(lines[i])
  BY <1>2, <1>4
<1> QED
  BY <1>1, <1>3, <1>5 DEF Lines

LEMMA BeginsEqual ==
  ASSUME NEW S, NEW s \in Seq(S), NEW t \in Seq(S), Begins(s, t), Len(s) = Len(t)
  PROVE  s = t
<1>1. \A i \in 1..Len(s) : s[i] = t[i]
  BY DEF Begins
<1> QED
  BY <1>1, SeqEqual

LEMMA ShowsAllShows ==
  ASSUME NEW s, NEW text \in Seq(Bytes), ShowsAll(s, text)
  PROVE  Shows(s, text)
<1>1. Begins(text, text)
  BY BeginsItself
<1>2. Completed(text) \in Lines
  BY <1>1, CompletedBegins
<1>3. Begins(Completed(text), Completed(text))
  BY <1>2 DEF Begins, Lines
<1> QED
  BY <1>1, <1>3 DEF ShowsAll, Shows

LEMMA FirstOfIs ==
  ASSUME NEW S, NEW s \in Seq(S), NEW n \in Nat
  PROVE  /\ FirstOf(s, n) \in Seq(S)
         /\ Len(FirstOf(s, n)) = IF n <= Len(s) THEN n ELSE Len(s)
         /\ \A i \in 1..Len(FirstOf(s, n)) : FirstOf(s, n)[i] = s[i]
<1>1. Len(s) \in Nat
  OBVIOUS
<1>2. PICK m \in Nat : m = IF n <= Len(s) THEN n ELSE Len(s)
  BY <1>1
<1>3. Min({n, Len(s)}) = m
  <2>1. m \in {n, Len(s)} /\ \A y \in {n, Len(s)} : y >= m
    BY <1>1, <1>2
  <2>2. \A x \in {n, Len(s)} : (\A y \in {n, Len(s)} : y >= x) => x = m
    BY <1>1, <1>2
  <2>3. Min({n, Len(s)}) = CHOOSE x \in {n, Len(s)} : \A y \in {n, Len(s)} : x <= y
    BY DEF Min
  <2>4. \A x, y \in {n, Len(s)} : y >= x <=> x <= y
    BY <1>1
  <2>5. \E x \in {n, Len(s)} : \A y \in {n, Len(s)} : x <= y
    BY <2>1, <2>4
  <2>6. PICK c : c = CHOOSE x \in {n, Len(s)} : \A y \in {n, Len(s)} : x <= y
    OBVIOUS
  <2>7. c \in {n, Len(s)} /\ \A y \in {n, Len(s)} : c <= y
    BY <2>5, <2>6, Zenon
  <2> QED
    BY <2>2, <2>3, <2>4, <2>6, <2>7
<1>4. PICK f : f = SubSeq(s, 1, m)
  OBVIOUS
<1>5. f \in Seq(S) /\ Len(f) = m /\ \A i \in 1..m : f[i] = s[i]
  <2>1. \A i \in 1..m : s[i] \in S
    BY <1>1, <1>2
  <2> QED
    BY <1>2, <1>4, <2>1, SubSeqProperties
<1>6. FirstOf(s, n) = f
  BY <1>3, <1>4 DEF FirstOf
<1> QED
  BY <1>2, <1>5, <1>6

(* Once it was told of a cut, the editor has what is left. *)
LEMMA KeptShows ==
  ASSUME NEW s, NEW known \in Seq(Bytes), Shows(s, known),
         NEW text \in Seq(Bytes), Begins(text, known)
  PROVE  ShowsAll([bytes |-> FirstOf(s.bytes, Len(text)),
                   lines |-> FirstOf(s.lines, LineEnds(text))], text)
<1>1. PICK bytes \in Seq(Bytes), lines \in Lines : bytes = s.bytes /\ lines = s.lines
  BY DEF Shows
<1>2. Len(text) \in Nat /\ Len(known) \in Nat /\ Len(bytes) \in Nat /\ Len(lines) \in Nat
  BY DEF Lines
<1>3. PICK b : b = FirstOf(bytes, Len(text))
  OBVIOUS
<1>4. b \in Seq(Bytes) /\ Len(b) = (IF Len(text) <= Len(bytes) THEN Len(text) ELSE Len(bytes))
      /\ \A i \in 1..Len(b) : b[i] = bytes[i]
  BY <1>2, <1>3, FirstOfIs
<1>5. Begins(text, bytes)
  <2>1. Begins(known, bytes)
    BY <1>1 DEF Shows
  <2> QED
    BY <2>1, BeginsTwice
<1>6. b = text
  <2>1. Len(b) = Len(text) /\ \A i \in 1..Len(text) : text[i] = b[i]
    BY <1>2, <1>4, <1>5 DEF Begins
  <2>2. Begins(text, b)
    BY <1>2, <2>1 DEF Begins
  <2> QED
    BY <1>4, <2>1, <2>2, BeginsEqual
<1>7. /\ Completed(text) \in Lines /\ Completed(known) \in Lines
      /\ Begins(Completed(text), Completed(known)) /\ Len(Completed(text)) = LineEnds(text)
  BY CompletedBegins
<1>8. PICK c \in Lines, k \in Lines : c = Completed(text) /\ k = Completed(known)
  BY <1>7
<1>9. Begins(c, k) /\ Len(c) = LineEnds(text) /\ Begins(k, Bared(lines))
  BY <1>1, <1>7, <1>8 DEF Shows
<1>10. Len(c) \in Nat /\ Len(k) \in Nat /\ Len(Bared(lines)) = Len(lines)
       /\ \A i \in 1..Len(lines) : Bared(lines)[i] = Bare(lines[i])
  BY BaredIs DEF Lines
<1>11. Len(c) <= Len(lines) /\ \A i \in 1..Len(c) : c[i] = Bare(lines[i])
  BY <1>2, <1>9, <1>10 DEF Begins
<1>12. PICK l : l = FirstOf(lines, Len(c))
  OBVIOUS
<1>13. l \in Lines /\ Len(l) = Len(c) /\ \A i \in 1..Len(l) : l[i] = lines[i]
  BY <1>2, <1>10, <1>11, <1>12, FirstOfIs DEF Lines
<1>14. Bared(l) \in Lines /\ Len(Bared(l)) = Len(l) /\ \A i \in 1..Len(l) : Bared(l)[i] = Bare(l[i])
  BY <1>13, BaredIs
<1>15. \A i \in 1..Len(Bared(l)) : Bared(l)[i] = c[i]
  BY <1>11, <1>13, <1>14
<1>16. Bared(l) = c
  BY <1>13, <1>14, <1>15, SeqEqual DEF Lines
<1> QED
  BY <1>1, <1>3, <1>4, <1>6, <1>8, <1>9, <1>12, <1>13, <1>16 DEF ShowsAll

(* Lines that follow those that are shown *)
LEMMA LinesFollow ==
  ASSUME NEW lines \in Lines, NEW before \in Lines, NEW sent \in Lines, NEW all \in Lines,
         Bared(lines) = before, Follow(before, sent, all)
  PROVE  Bared(lines \o sent) = all
<1>1. PICK l : l = lines \o sent
  OBVIOUS
<1>2. Len(lines) \in Nat /\ Len(sent) \in Nat /\ Len(all) \in Nat /\ Len(before) \in Nat
  BY DEF Lines
<1>3. /\ l \in Lines /\ Len(l) = Len(lines) + Len(sent)
      /\ \A i \in 1..Len(lines) + Len(sent) :
           l[i] = IF i <= Len(lines) THEN lines[i] ELSE sent[i - Len(lines)]
  <2>1. lines \in Seq(Seq(Bytes)) /\ sent \in Seq(Seq(Bytes))
    BY DEF Lines
  <2> QED
    BY <1>1, <2>1, ConcatProperties DEF Lines
<1>4. Len(before) = Len(lines) /\ \A i \in 1..Len(lines) : before[i] = Bare(lines[i])
  BY BaredIs
<1>5. Bared(l) \in Lines /\ Len(Bared(l)) = Len(l) /\ \A i \in 1..Len(l) : Bared(l)[i] = Bare(l[i])
  BY <1>3, BaredIs
<1>6. ASSUME NEW i \in 1..Len(l)
      PROVE  Bare(l[i]) = all[i]
  <2>1. CASE i <= Len(lines)
    <3>1. i \in 1..Len(lines) /\ l[i] = lines[i]
      BY <1>2, <1>3, <2>1
    <3>2. before[i] = all[i]
      BY <1>2, <1>4, <3>1 DEF Follow, Begins
    <3> QED
      BY <1>4, <3>1, <3>2
  <2>2. CASE ~(i <= Len(lines))
    <3>1. PICK j : j = i - Len(lines)
      OBVIOUS
    <3>2. j \in 1..Len(sent) /\ l[i] = sent[j] /\ Len(before) + j = i
      BY <1>2, <1>3, <1>4, <2>2, <3>1
    <3> QED
      BY <3>2 DEF Follow
  <2> QED
    BY <2>1, <2>2
<1>7. Len(Bared(l)) = Len(all)
  BY <1>2, <1>3, <1>4, <1>5 DEF Follow
<1>8. \A i \in 1..Len(Bared(l)) : Bared(l)[i] = all[i]
  BY <1>5, <1>6
<1>9. Bared(l) = all
  BY <1>5, <1>7, <1>8, SeqEqual DEF Lines
<1> QED
  BY <1>1, <1>9

Extended(s, text, pos) ==
  [bytes |-> s.bytes \o SubSeq(text, pos + 1, Len(text)),
   lines |-> s.lines \o LinesAfter(text, pos)]

(* Once it was told of more, the editor has that too. *)
LEMMA AppendShows ==
  ASSUME NEW s, NEW text \in Seq(Bytes), NEW pos \in 0..Len(text),
         NEW begin \in Seq(Bytes), Begins(begin, text), Len(begin) = pos
  PROVE  /\ ShowsAll(s, begin) => ShowsAll(Extended(s, text, pos), text)
         /\ \A known \in Seq(Bytes) : Shows(s, known) => Shows(Extended(s, text, pos), known)
<1>12. PICK r : r = Extended(s, text, pos)
  OBVIOUS
<1>1. PICK to \in Nat : to = Len(text) /\ pos \in 0..to /\ pos \in Nat /\ pos <= to
  OBVIOUS
<1>2. PICK g : Sending(text, pos, Len(text), g) /\ LinesAfter(text, pos) = g[Len(text)].lines
  BY <1>1, LinesAfterIs
<1>3. PICK h : Filling(text, Len(text), h) /\ Completed(text) = h[Len(text)]
  BY <1>1, CompletedIs
<1>4. PICK sent : sent = LinesAfter(text, pos)
  OBVIOUS
<1>5. sent \in Lines /\ Follow(h[pos], sent, h[Len(text)])
  BY <1>2, <1>3, <1>4, SendingFollows
<1>6. PICK rest : rest = SubSeq(text, pos + 1, Len(text))
  OBVIOUS
<1>7. /\ rest \in Seq(Bytes) /\ Len(rest) = to - pos
      /\ \A i \in 1..to - pos : rest[i] = text[pos + i]
  <2>1. \A i \in pos + 1..Len(text) : text[i] \in Bytes
    BY <1>1
  <2>2. pos + 1 \in Int /\ Len(text) \in Int
    BY <1>1
  <2>3. /\ rest \in Seq(Bytes)
        /\ Len(rest) = IF pos + 1 <= Len(text) THEN Len(text) - (pos + 1) + 1 ELSE 0
        /\ \A i \in 1..Len(text) - (pos + 1) + 1 : rest[i] = text[pos + 1 + i - 1]
    BY <1>6, <2>1, <2>2, SubSeqProperties
  <2>4. \A i \in 1..to - pos : pos + 1 + i - 1 = pos + i /\ i \in 1..Len(text) - (pos + 1) + 1
    BY <1>1
  <2> QED
    BY <1>1, <2>3, <2>4
<1>8. r.bytes = s.bytes \o rest /\ r.lines = s.lines \o sent
  BY <1>4, <1>6, <1>12 DEF Extended
<1>9. ASSUME s.bytes \in Seq(Bytes), s.lines \in Lines
      PROVE  /\ r.bytes \in Seq(Bytes) /\ r.lines \in Lines
             /\ Begins(s.bytes, r.bytes) /\ Begins(s.lines, r.lines)
  <2>1. PICK bytes \in Seq(Bytes) : bytes = s.bytes
    BY <1>9
  <2>2. PICK lines \in Seq(Seq(Bytes)) : lines = s.lines
    BY <1>9 DEF Lines
  <2>3. sent \in Seq(Seq(Bytes))
    BY <1>5 DEF Lines
  <2>4. PICK a, b : a = bytes \o rest /\ b = lines \o sent
    OBVIOUS
  <2>5. /\ a \in Seq(Bytes) /\ Len(a) = Len(bytes) + Len(rest)
        /\ \A i \in 1..Len(bytes) + Len(rest) :
             a[i] = IF i <= Len(bytes) THEN bytes[i] ELSE rest[i - Len(bytes)]
    BY <1>7, <2>4, ConcatProperties
  <2>6. /\ b \in Seq(Seq(Bytes)) /\ Len(b) = Len(lines) + Len(sent)
        /\ \A i \in 1..Len(lines) + Len(sent) :
             b[i] = IF i <= Len(lines) THEN lines[i] ELSE sent[i - Len(lines)]
    BY <2>3, <2>4, ConcatProperties
  <2>7. Len(bytes) \in Nat /\ Len(rest) \in Nat /\ Len(lines) \in Nat /\ Len(sent) \in Nat
    BY <1>7, <2>3
  <2>8. Begins(bytes, a)
    <3>1. \A i \in 1..Len(bytes) : i \in 1..Len(bytes) + Len(rest) /\ i <= Len(bytes)
      BY <2>7
    <3>2. Len(bytes) <= Len(a) /\ \A i \in 1..Len(bytes) : bytes[i] = a[i]
      BY <2>5, <2>7, <3>1
    <3> QED
      BY <3>2 DEF Begins
  <2>9. Begins(lines, b)
    <3>1. \A i \in 1..Len(lines) : i \in 1..Len(lines) + Len(sent) /\ i <= Len(lines)
      BY <2>7
    <3>2. Len(lines) <= Len(b) /\ \A i \in 1..Len(lines) : lines[i] = b[i]
      BY <2>6, <2>7, <3>1
    <3> QED
      BY <3>2 DEF Begins
  <2> QED
    BY <1>8, <2>1, <2>2, <2>4, <2>5, <2>6, <2>8, <2>9 DEF Lines
<1>10. ASSUME ShowsAll(s, begin)
       PROVE  ShowsAll(r, text)
  <2>1. s.bytes = begin /\ s.lines \in Lines /\ Bared(s.lines) = Completed(begin)
    BY <1>10 DEF ShowsAll
  <2>2. r.bytes \in Seq(Bytes) /\ r.lines \in Lines
    BY <1>9, <2>1
  <2>3. PICK a : a = begin \o rest
    OBVIOUS
  <2>4. /\ a \in Seq(Bytes) /\ Len(a) = pos + Len(rest)
        /\ \A i \in 1..pos + Len(rest) : a[i] = IF i <= pos THEN begin[i] ELSE rest[i - pos]
    BY <1>7, <2>3, ConcatProperties, ZenonT(60)
  <2>5. \A i \in 1..Len(a) : a[i] = text[i]
    <3> SUFFICES ASSUME NEW i \in 1..Len(a)
                 PROVE  a[i] = text[i]
      OBVIOUS
    <3>1. CASE i <= pos
      <4>1. i \in 1..Len(begin) /\ i \in 1..pos + Len(rest)
        BY <1>1, <1>7, <2>4, <3>1
      <4> QED
        BY <2>4, <3>1, <4>1 DEF Begins
    <3>2. CASE ~(i <= pos)
      <4>1. PICK j : j = i - pos
        OBVIOUS
      <4>2. j \in 1..to - pos /\ pos + j = i /\ i \in 1..pos + Len(rest)
        BY <1>1, <1>7, <2>4, <3>2, <4>1
      <4> QED
        BY <1>7, <2>4, <3>2, <4>1, <4>2
    <3> QED
      BY <3>1, <3>2
  <2>6. Len(a) = Len(text)
    BY <1>1, <1>7, <2>4
  <2>7. a = text
    BY <2>4, <2>5, <2>6, SeqEqual
  <2>8. Completed(begin) = h[pos]
    <3>1. PICK f : Filling(begin, Len(begin), f) /\ Completed(begin) = f[Len(begin)]
      BY <1>1, CompletedIs
    <3>2. Len(begin) \in 0..Len(begin)
      BY <1>1
    <3> QED
      BY <1>3, <3>1, <3>2, FillingSame
  <2>9. h[pos] \in Lines /\ h[Len(text)] \in Lines
    <3>1. Len(text) \in 0..Len(text)
      BY <1>1
    <3> QED
      BY <1>3, <3>1, FillingTyped
  <2>10. Bared(s.lines \o sent) = h[Len(text)]
    BY <1>5, <2>1, <2>8, <2>9, LinesFollow
  <2> QED
    BY <1>3, <1>8, <2>1, <2>2, <2>3, <2>7, <2>10 DEF ShowsAll
<1>11. ASSUME NEW known \in Seq(Bytes), Shows(s, known)
       PROVE  Shows(r, known)
  <2>1. /\ s.bytes \in Seq(Bytes) /\ s.lines \in Lines
        /\ Begins(known, s.bytes) /\ Begins(Completed(known), Bared(s.lines))
    BY <1>11 DEF Shows
  <2>2. /\ r.bytes \in Seq(Bytes) /\ r.lines \in Lines
        /\ Begins(s.bytes, r.bytes) /\ Begins(s.lines, r.lines)
    BY <1>9, <2>1
  <2>3. Begins(known, r.bytes)
    BY <2>1, <2>2, BeginsTwice
  <2>4. PICK a \in Lines, b \in Lines : a = s.lines /\ b = r.lines
    BY <2>1, <2>2
  <2>5. /\ Len(Bared(a)) = Len(a) /\ \A i \in 1..Len(a) : Bared(a)[i] = Bare(a[i])
        /\ Len(Bared(b)) = Len(b) /\ \A i \in 1..Len(b) : Bared(b)[i] = Bare(b[i])
        /\ Len(a) \in Nat /\ Len(b) \in Nat
    BY BaredIs DEF Lines
  <2>6. PICK c : c = Completed(known)
    OBVIOUS
  <2>7. c \in Lines
    BY <2>6, BeginsItself, CompletedBegins
  <2>8. Len(c) \in Nat
    BY <2>7 DEF Lines
  <2>9. Begins(c, Bared(b))
    <3>1. Len(c) <= Len(a) /\ \A i \in 1..Len(c) : c[i] = Bare(a[i])
      <4>1. Begins(c, Bared(a))
        BY <2>1, <2>4, <2>6
      <4> QED
        BY <2>5, <2>8, <4>1 DEF Begins
    <3>2. Len(a) <= Len(b) /\ \A i \in 1..Len(a) : a[i] = b[i]
      BY <2>2, <2>4 DEF Begins
    <3>3. Len(c) <= Len(Bared(b)) /\ \A i \in 1..Len(c) : c[i] = Bared(b)[i]
      BY <2>5, <2>8, <3>1, <3>2
    <3> QED
      BY <3>3 DEF Begins
  <2> QED
    BY <2>2, <2>3, <2>4, <2>6, <2>9 DEF Shows
<1> QED
  BY <1>10, <1>11, <1>12

-----------------------------------------------------------------------------
(* The invariant of the log *)

(* The log that the editor was told of *)
KnownLog == IF "log" \in behind THEN prog["log"] ELSE Written("log")

LogInv == IF "log" \in behind THEN Shows(shown, prog["log"]) ELSE ShowsAll(shown, Written("log"))

(* The log is open as long as its file is there. *)
OpenedInv ==
  /\ ~ended => (logOpen <=> out["log"] # Null)
  /\ \A k \in 1..Len(snaps) : snaps[k].log <=> snaps[k].len["log"] # -1

LEMMA KnownLogIs ==
  ASSUME Inv, LogInv
  PROVE  /\ KnownLog \in Seq(Bytes) /\ Shows(shown, KnownLog)
         /\ prog["log"] \in Seq(Bytes)
         /\ out["log"] \in Buffers \cup {Null} /\ Buffered(out["log"], prog["log"])
         /\ PartOf(out["log"]) \in Seq(Bytes) /\ Begins(PartOf(out["log"]), prog["log"])
         /\ Begins(PartOf(out["log"]), KnownLog)
<1>1. "log" \in Files
  BY DEF Files
<1>2. prog["log"] \in Seq(Bytes)
  BY <1>1, ProgramTyped DEF Inv, Typed
<1>3. out["log"] \in Buffers \cup {Null} /\ Buffered(out["log"], prog["log"])
  BY <1>1 DEF Inv, Typed, TextInv
<1>4. PICK text \in Seq(Bytes) : text = PartOf(out["log"]) /\ Begins(text, prog["log"])
  BY <1>2, <1>3, PartTyped
<1>5. Written("log") = text
  BY <1>4, WrittenIs
<1>6. CASE "log" \in behind
  BY <1>2, <1>3, <1>4, <1>6 DEF KnownLog, LogInv
<1>7. CASE "log" \notin behind
  <2>1. ShowsAll(shown, text)
    BY <1>5, <1>7 DEF LogInv
  <2>2. Shows(shown, text) /\ Begins(text, text)
    BY <2>1, ShowsAllShows, BeginsItself
  <2> QED
    BY <1>2, <1>3, <1>4, <1>5, <1>7, <2>2 DEF KnownLog
<1> QED
  BY <1>6, <1>7

LEMMA LogKept ==
  ASSUME LogInv, shown' = shown, out'["log"] = out["log"], prog' = prog,
         "log" \in behind' <=> "log" \in behind
  PROVE  LogInv'
<1>1. Written("log")' = Written("log")
  BY WrittenIs
<1> QED
  BY <1>1 DEF LogInv

LEMMA OpenedKept ==
  ASSUME OpenedInv, out'["log"] = out["log"], logOpen' = logOpen, ended' = ended, snaps' = snaps
  PROVE  OpenedInv'
BY DEF OpenedInv

LEMMA CutLog ==
  ASSUME Inv, LogInv, out'["log"] \in Buffers \cup {Null}, Left(out["log"], out'["log"]),
         shown' = KeptBy(PartOf(out'["log"])), "log" \notin behind'
  PROVE  LogInv'
<1>1. PICK c \in Buffers \cup {Null} : c = out'["log"]
  OBVIOUS
<1>2. /\ KnownLog \in Seq(Bytes) /\ Shows(shown, KnownLog)
      /\ prog["log"] \in Seq(Bytes)
      /\ out["log"] \in Buffers \cup {Null} /\ Buffered(out["log"], prog["log"])
      /\ Begins(PartOf(out["log"]), KnownLog)
  BY KnownLogIs
<1>3. /\ PartOf(c) \in Seq(Bytes) /\ PartOf(out["log"]) \in Seq(Bytes)
      /\ Begins(PartOf(c), PartOf(out["log"]))
  BY <1>1, <1>2, LeftBegins
<1>4. Begins(PartOf(c), KnownLog)
  BY <1>2, <1>3, BeginsTwice
<1>5. PICK text \in Seq(Bytes) : text = PartOf(c)
  BY <1>3
<1>6. shown' = [bytes |-> FirstOf(shown.bytes, Len(text)),
                lines |-> FirstOf(shown.lines, LineEnds(text))]
  BY <1>1, <1>5 DEF KeptBy
<1>7. ShowsAll(shown', text)
  BY <1>2, <1>4, <1>5, <1>6, KeptShows
<1>8. Written("log")' = text
  BY <1>1, <1>5, WrittenIs
<1> QED
  BY <1>7, <1>8 DEF LogInv

(* The log that is left is open when its file is left. *)
LEMMA PoppedOpened ==
  ASSUME Inv, OpenedInv, NEW k \in 0..Len(snaps), Popped(k)
  PROVE  OpenedInv' /\ ~ended' /\ (logOpen' <=> out'["log"] # Null)
<1>1. PICK n \in Nat : n = Len(snaps) /\ k \in 0..n /\ snaps \in Seq(SnapshotType)
  BY DEF Inv, Typed
<1>2. "log" \in Files
  BY DEF Files
<1>3. /\ out' = Cut(IF k = 0 THEN Nothing ELSE snaps[k].len)
      /\ logOpen' = (IF k = 0 THEN FALSE ELSE snaps[k].log)
      /\ snaps' = SubSeq(snaps, 1, k - 1)
      /\ ended' = FALSE
  BY DEF Popped
<1>4. logOpen' <=> out'["log"] # Null
  <2>1. CASE k = 0
    <3>1. out'["log"] = Null
      BY <1>2, <1>3, <2>1 DEF Cut, Nothing
    <3> QED
      BY <1>3, <2>1, <3>1
  <2>2. CASE k # 0
    <3>1. k \in 1..Len(snaps)
      BY <1>1, <2>2
    <3>2. out'["log"] = IF snaps[k].len["log"] = -1 THEN Null
                        ELSE [out["log"] EXCEPT !.len = snaps[k].len["log"]]
      BY <1>2, <1>3, <2>2 DEF Cut
    <3>3. snaps[k].log <=> snaps[k].len["log"] # -1
      BY <3>1 DEF OpenedInv
    <3>4. snaps[k].len["log"] # -1 => out'["log"] # Null
      <4>1. HAVE snaps[k].len["log"] # -1
      <4>2. /\ snaps[k].len["log"] \in Int /\ -1 <= snaps[k].len["log"]
            /\ snaps[k].len["log"] <= LengthOf(out["log"])
        BY <1>1, <1>2, <3>1, SnapshotTyped DEF Inv, Growing
      <4>3. out["log"] # Null /\ out["log"] \in Buffers
        BY <1>2, <4>1, <4>2 DEF Inv, Typed, LengthOf
      <4>4. snaps[k].len["log"] \in Nat
        BY <4>1, <4>2
      <4>5. out'["log"] \in Buffers
        BY <3>2, <4>1, <4>3, <4>4 DEF Buffers
      <4> QED
        BY <4>5, NullAssumption
    <3> QED
      BY <1>3, <2>2, <3>2, <3>3, <3>4
  <2> QED
    BY <2>1, <2>2
<1>5. \A j \in 1..Len(snaps') : j \in 1..Len(snaps) /\ snaps'[j] = snaps[j]
  <2>1. CASE k <= 1
    <3>1. snaps' = <<>>
      BY <1>1, <1>3, <2>1, SubSeqEmpty
    <3> QED
      BY <3>1
  <2>2. CASE k > 1
    <3>1. k - 1 \in 1..n
      BY <1>1, <2>2
    <3>2. \A j \in 1..k - 1 : snaps[j] \in SnapshotType
      BY <1>1, <3>1
    <3>3. Len(snaps') = k - 1 /\ \A j \in 1..k - 1 : snaps'[j] = snaps[j]
      BY <1>1, <1>3, <3>1, <3>2, SubSeqProperties
    <3> QED
      BY <1>1, <3>1, <3>3
  <2> QED
    BY <1>1, <2>1, <2>2
<1> QED
  BY <1>3, <1>4, <1>5 DEF OpenedInv

-----------------------------------------------------------------------------
(* The steps, for the log *)

LEMMA OpenLog ==
  ASSUME Inv, OpenedInv, LogInv, NEW f \in Files, Open(f)
  PROVE  OpenedInv' /\ LogInv'
<1>1. /\ out[f] = Null /\ ~ended
      /\ out' = [out EXCEPT ![f] = NoBuffer]
      /\ logOpen' = (logOpen \/ f = "log")
      /\ behind' = behind \ ({f} \cap {"dvi", "stex"})
      /\ UNCHANGED <<prog, ended, snaps, shown>>
  BY DEF Open
<1>2. out \in [Files -> Buffers \cup {Null}] /\ "log" \in Files /\ logOpen \in BOOLEAN
  BY DEF Inv, Typed, Files
<1>3. CASE f # "log"
  <2>1. out'["log"] = out["log"] /\ logOpen' = logOpen
    BY <1>1, <1>2, <1>3
  <2> QED
    BY <1>1, <2>1, LogKept, OpenedKept
<1>4. CASE f = "log"
  <2>1. out'["log"] = NoBuffer /\ logOpen' /\ out["log"] = Null
    BY <1>1, <1>2, <1>4
  <2>2. NoBuffer # Null
    <3>1. NoBuffer \in Buffers
      BY DEF NoBuffer, Buffers
    <3> QED
      BY <3>1, NullAssumption
  <2>3. PartOf(NoBuffer) = <<>>
    <3>1. SubSeq(<<>>, 1, 0) = <<>>
      BY SubSeqEmpty
    <3> QED
      BY <2>2, <3>1 DEF PartOf, NoBuffer
  <2>4. Written("log")' = Written("log")
    BY <2>1, <2>3, NothingLeft, WrittenIs
  <2>5. LogInv'
    BY <1>1, <2>4 DEF LogInv
  <2>6. OpenedInv'
    BY <1>1, <2>1, <2>2 DEF OpenedInv
  <2> QED
    BY <2>5, <2>6
<1> QED
  BY <1>3, <1>4

LEMMA AppendLogLog ==
  ASSUME Inv, OpenedInv, LogInv, AppendLog
  PROVE  OpenedInv' /\ LogInv'
<1>1. PICK n \in 1..Len(prog["log"]) :
        /\ Append_("log", n) /\ UNCHANGED behind
        /\ shown' = Appended(SubSeq(prog["log"], 1, n), out["log"].len)
  BY DEF AppendLog
<1>2. "log" \in Files
  BY DEF Files
<1>3. /\ out["log"] # Null /\ out'["log"] = Grown("log", n)
      /\ UNCHANGED <<prog, logOpen, ended, snaps>>
      /\ n \in out["log"].len + 1..Len(prog["log"])
      /\ TextInv' /\ out' \in [Files -> Buffers \cup {Null}]
  BY <1>1, <1>2, AppendKeeps
<1>4. /\ prog["log"] \in Seq(Bytes) /\ KnownLog \in Seq(Bytes)
      /\ out["log"] \in Buffers \cup {Null} /\ Buffered(out["log"], prog["log"])
      /\ PartOf(out["log"]) \in Seq(Bytes) /\ Begins(PartOf(out["log"]), prog["log"])
  BY KnownLogIs
<1>5. /\ Grown("log", n) \in Buffers /\ Grown("log", n) # Null /\ Grown("log", n).len = n
      /\ Buffered(Grown("log", n), prog["log"])
  BY <1>2, <1>3, GrownBuffered
<1>6. PICK all \in Seq(Bytes), b \in Buffers : all = prog["log"] /\ b = out["log"]
  BY <1>3, <1>4
<1>7. PICK pos \in Nat : pos = b.len
  BY DEF Buffers
<1>8. n \in pos + 1..Len(all) /\ n \in Nat /\ Len(all) \in Nat
  BY <1>3, <1>6, <1>7
<1>9. PICK text : text = SubSeq(all, 1, n)
  OBVIOUS
<1>10. text \in Seq(Bytes) /\ Len(text) = n /\ \A i \in 1..n : text[i] = all[i]
  <2>1. \A i \in 1..n : all[i] \in Bytes
    BY <1>8
  <2> QED
    BY <1>8, <1>9, <2>1, SubSeqProperties
<1>11. PICK begin \in Seq(Bytes) : begin = PartOf(b) /\ Holds(b, begin) /\ Begins(begin, all)
  BY <1>3, <1>4, <1>6, PartTyped
<1>12. Len(begin) = pos /\ Begins(begin, text)
  <2>1. Len(begin) = pos
    BY <1>7, <1>11 DEF Holds
  <2>2. \A i \in 1..pos : begin[i] = all[i] /\ i \in 1..n
    BY <1>8, <1>11, <2>1 DEF Begins
  <2> QED
    BY <1>8, <1>10, <2>1, <2>2 DEF Begins
<1>13. shown' = Extended(shown, text, pos)
  BY <1>1, <1>6, <1>7, <1>9 DEF Appended, Extended
<1>14. pos \in 0..Len(text)
  BY <1>8, <1>10
<1>15. /\ ShowsAll(shown, begin) => ShowsAll(shown', text)
       /\ \A known \in Seq(Bytes) : Shows(shown, known) => Shows(shown', known)
  <2>1. PICK s : s = shown
    OBVIOUS
  <2>2. /\ ShowsAll(s, begin) => ShowsAll(Extended(s, text, pos), text)
        /\ \A known \in Seq(Bytes) : Shows(s, known) => Shows(Extended(s, text, pos), known)
    BY <1>10, <1>11, <1>12, <1>14, AppendShows
  <2> QED
    BY <1>13, <2>1, <2>2
<1>16. Written("log")' = text
  <2>1. PICK s \in Seq(Bytes) : s = PartOf(Grown("log", n)) /\ Begins(s, all) /\ Holds(Grown("log", n), s)
    BY <1>5, <1>6, PartTyped
  <2>2. Len(s) = n
    BY <1>5, <2>1 DEF Holds
  <2>3. \A i \in 1..Len(s) : s[i] = text[i]
    BY <1>10, <2>1, <2>2 DEF Begins
  <2>4. s = text
    BY <1>10, <2>2, <2>3, SeqEqual
  <2> QED
    BY <1>3, <2>1, <2>4, WrittenIs
<1>17. LogInv'
  <2>1. CASE "log" \in behind
    BY <1>1, <1>3, <1>4, <1>15, <2>1 DEF LogInv
  <2>2. CASE "log" \notin behind
    <3>1. ShowsAll(shown, begin)
      BY <1>6, <1>11, <2>2, WrittenIs DEF LogInv
    <3> QED
      BY <1>1, <1>15, <1>16, <2>2, <3>1 DEF LogInv
  <2> QED
    BY <2>1, <2>2
<1>18. OpenedInv'
  BY <1>3, <1>5 DEF OpenedInv
<1> QED
  BY <1>17, <1>18

LEMMA SnapshotLog ==
  ASSUME Inv, OpenedInv, LogInv, Snapshot
  PROVE  OpenedInv' /\ LogInv'
<1>1. /\ ~ended /\ snaps' = Append(snaps, [len |-> Lengths, log |-> logOpen])
      /\ UNCHANGED <<prog, out, logOpen, ended, shown, behind>>
  BY DEF Snapshot
<1>2. PICK s : s = [len |-> Lengths, log |-> logOpen]
  OBVIOUS
<1>3. s \in SnapshotType /\ s.len["log"] = LengthOf(out["log"]) /\ s.log = logOpen
  BY <1>2, LengthsTyped DEF Inv, Typed, SnapshotType, Files
<1>4. /\ Len(snaps') = Len(snaps) + 1 /\ Len(snaps) \in Nat
      /\ snaps'[Len(snaps) + 1] = s /\ \A k \in 1..Len(snaps) : snaps'[k] = snaps[k]
  BY <1>1, <1>2, <1>3 DEF Inv, Typed
<1>5. s.log <=> s.len["log"] # -1
  <2>1. out["log"] \in Buffers \cup {Null}
    BY DEF Inv, Typed, Files
  <2>2. out["log"] # Null <=> LengthOf(out["log"]) # -1
    BY <2>1 DEF LengthOf, Buffers
  <2> QED
    BY <1>1, <1>3, <2>2 DEF OpenedInv
<1>6. ASSUME NEW k \in 1..Len(snaps')
      PROVE  snaps'[k].log <=> snaps'[k].len["log"] # -1
  <2>1. CASE k = Len(snaps) + 1
    BY <1>4, <1>5, <2>1
  <2>2. CASE k # Len(snaps) + 1
    <3>1. k \in 1..Len(snaps)
      BY <1>4, <2>2
    <3> QED
      BY <1>4, <3>1 DEF OpenedInv
  <2> QED
    BY <2>1, <2>2
<1>7. OpenedInv'
  BY <1>1, <1>6 DEF OpenedInv
<1> QED
  BY <1>1, <1>7, LogKept

LEMMA RollbackLog ==
  ASSUME Inv, OpenedInv, LogInv, Rollback
  PROVE  OpenedInv' /\ LogInv'
<1>1. Told
  BY DEF Rollback
<1>2. shown' = KeptBy(IF logOpen' THEN SubSeq(out'["log"].mem, 1, out'["log"].len) ELSE <<>>)
  BY <1>1 DEF Told
<1>3. /\ OpenedInv' /\ (logOpen' <=> out'["log"] # Null)
      /\ out'["log"] \in Buffers \cup {Null} /\ Left(out["log"], out'["log"])
      /\ "log" \notin behind'
  <2>1. "log" \in Files
    BY DEF Files
  <2>2. CASE (\E k \in 0..Len(snaps) : Popped(k)) /\ behind' = {}
    <3>1. PICK k \in 0..Len(snaps) : Popped(k)
      BY <2>2
    <3>2. OpenedInv' /\ (logOpen' <=> out'["log"] # Null)
      BY <3>1, PoppedOpened
    <3>3. out' \in [Files -> Buffers \cup {Null}] /\ \A f \in Files : Left(out[f], out'[f])
      BY <3>1, PoppedKeeps
    <3> QED
      BY <2>1, <2>2, <3>2, <3>3
  <2>3. CASE ~ended /\ Kept /\ behind' = behind \cap {"stex"}
    <3>1. UNCHANGED <<out, logOpen, snaps>> /\ ~ended' /\ ~ended
      BY <2>3 DEF Kept
    <3>2. OpenedInv' /\ (logOpen' <=> out'["log"] # Null)
      BY <3>1 DEF OpenedInv
    <3>3. out["log"] \in Buffers \cup {Null}
      BY <2>1 DEF Inv, Typed
    <3>4. Left(out["log"], out'["log"])
      BY <3>1, <3>3 DEF Buffers, Left
    <3> QED
      BY <2>3, <3>1, <3>2, <3>3, <3>4
  <2> QED
    BY <2>2, <2>3 DEF Rollback
<1>4. shown' = KeptBy(PartOf(out'["log"]))
  <2>1. CASE logOpen'
    <3>1. PartOf(out'["log"]) = SubSeq(out'["log"].mem, 1, out'["log"].len)
      BY <1>3, <2>1 DEF PartOf
    <3> QED
      BY <1>2, <2>1, <3>1
  <2>2. CASE ~logOpen'
    <3>1. PartOf(out'["log"]) = <<>>
      BY <1>3, <2>2, NothingLeft
    <3> QED
      BY <1>2, <2>2, <3>1
  <2> QED
    BY <2>1, <2>2
<1> QED
  BY <1>3, <1>4, CutLog

LEMMA FinishAgainLog ==
  ASSUME Inv, OpenedInv, LogInv, FinishAgain
  PROVE  OpenedInv' /\ LogInv'
<1>1. Popped(0) /\ behind' = {} /\ shown' = KeptBy(<<>>)
  BY DEF FinishAgain
<1>2. 0 \in 0..Len(snaps) /\ "log" \in Files
  <2>1. Len(snaps) \in Nat
    BY DEF Inv, Typed
  <2> QED
    BY <2>1 DEF Files
<1>3. OpenedInv'
  BY <1>1, <1>2, PoppedOpened
<1>4. out'["log"] = Null /\ Left(out["log"], out'["log"])
  BY <1>1, <1>2, PoppedKeeps
<1>5. shown' = KeptBy(PartOf(out'["log"]))
  BY <1>1, <1>4, NothingLeft
<1> QED
  BY <1>1, <1>3, <1>4, <1>5, CutLog

(* A worker that ended has written all of the log. *)
LEMMA FinishConvergedLog ==
  ASSUME Inv, OpenedInv, LogInv, FinishConverged
  PROVE  OpenedInv' /\ LogInv'
<1>1. /\ ended /\ Popped(Len(snaps))
      /\ behind' = behind \cup {f \in Files : out'[f] # out[f]}
      /\ UNCHANGED <<prog, shown>>
  BY DEF FinishConverged
<1>2. Len(snaps) \in 0..Len(snaps) /\ "log" \in Files
  <2>1. Len(snaps) \in Nat
    BY DEF Inv, Typed
  <2> QED
    BY <2>1 DEF Files
<1>3. OpenedInv'
  BY <1>1, <1>2, PoppedOpened
<1>4. KnownLog = prog["log"]
  <2>1. CASE prog["log"] = <<>>
    <3>1. out["log"] = Null
      BY <1>2, <2>1 DEF Inv, TextInv, Buffered
    <3> QED
      BY <2>1, <3>1, NothingLeft, WrittenIs DEF KnownLog
  <2>2. CASE prog["log"] # <<>>
    BY <1>1, <1>2, <2>2 DEF Inv, EndInv, KnownLog
  <2> QED
    BY <2>1, <2>2
<1>5. Shows(shown, prog["log"])
  BY <1>4, KnownLogIs
<1>6. CASE "log" \in behind'
  BY <1>1, <1>3, <1>5, <1>6 DEF LogInv
<1>7. CASE "log" \notin behind'
  <2>1. "log" \notin behind /\ out'["log"] = out["log"]
    BY <1>1, <1>2, <1>7
  <2> QED
    BY <1>1, <1>3, <1>7, <2>1, LogKept
<1> QED
  BY <1>6, <1>7

LEMMA OthersLog ==
  ASSUME Inv, OpenedInv, LogInv,
         AppendDocument \/ AppendSynctex \/ End \/ Render \/ SetTarget \/ FindTarget
  PROVE  OpenedInv' /\ LogInv'
<1>1. CASE AppendDocument \/ AppendSynctex
  <2>1. PICK f \in {"dvi", "stex"} : \E n \in 1..Len(prog[f]) :
          Append_(f, n) /\ (behind' = behind \/ behind' = behind \ {"dvi"}) /\ shown' = shown
    BY <1>1 DEF AppendDocument, AppendSynctex
  <2>2. PICK n \in 1..Len(prog[f]) : Append_(f, n)
    BY <2>1
  <2>3. f \in Files /\ "log" \in Files /\ f # "log"
    BY <2>1 DEF Files
  <2>4. out'["log"] = out["log"] /\ UNCHANGED <<prog, logOpen, ended, snaps>>
    BY <2>2, <2>3, AppendKeeps
  <2>5. "log" \in behind' <=> "log" \in behind
    BY <2>1
  <2> QED
    BY <2>1, <2>4, <2>5, LogKept, OpenedKept
<1>2. CASE End
  <2>1. ended' = TRUE /\ UNCHANGED <<prog, out, snaps, shown, behind>>
    BY <1>2 DEF End
  <2>2. OpenedInv'
    BY <2>1 DEF OpenedInv
  <2> QED
    BY <2>1, <2>2, LogKept
<1>3. CASE Render \/ SetTarget \/ FindTarget
  <2>1. UNCHANGED <<prog, out, logOpen, ended, snaps, shown, behind>>
    BY <1>3 DEF Render, SetTarget, FindTarget
  <2> QED
    BY <2>1, LogKept, OpenedKept
<1> QED
  BY <1>1, <1>2, <1>3

LEMMA InitLog ==
  ASSUME Init
  PROVE  OpenedInv /\ LogInv
<1>1. /\ out = [f \in Files |-> Null] /\ logOpen = FALSE /\ snaps = <<>> /\ behind = {}
      /\ shown = [bytes |-> <<>>, lines |-> <<>>] /\ "log" \in Files
  BY DEF Init, Files
<1>2. Written("log") = <<>>
  BY <1>1, NothingLeft, WrittenIs
<1>3. /\ <<>> \in Seq(Bytes) /\ <<>> \in Lines
  BY DEF Lines
<1>4. Completed(<<>>) = <<>>
  <2>1. PICK e \in Seq(Bytes) : e = <<>>
    BY <1>3
  <2>2. Len(e) = 0
    BY <2>1
  <2>3. PICK g : Filling(e, Len(e), g) /\ Completed(e) = g[Len(e)]
    BY <2>2, CompletedIs
  <2>4. g[0] = <<>>
    BY <2>2, <2>3, FillingStep
  <2> QED
    BY <2>1, <2>2, <2>3, <2>4
<1>5. Bared(<<>>) = <<>>
  BY DEF Bared
<1>6. ShowsAll(shown, <<>>)
  BY <1>1, <1>3, <1>4, <1>5 DEF ShowsAll
<1>7. LogInv
  BY <1>1, <1>2, <1>6 DEF LogInv
<1>8. OpenedInv
  BY <1>1 DEF OpenedInv
<1> QED
  BY <1>7, <1>8

LEMMA NextLog ==
  ASSUME Inv, OpenedInv, LogInv, [Next]_vars
  PROVE  OpenedInv' /\ LogInv'
<1>1. CASE UNCHANGED vars
  <2>1. UNCHANGED <<prog, out, logOpen, ended, snaps, shown, behind>>
    BY <1>1 DEF vars
  <2> QED
    BY <2>1, LogKept, OpenedKept
<1>2. CASE \E f \in Files : Open(f)
  BY <1>2, OpenLog
<1>3. CASE AppendLog \/ Snapshot
  BY <1>3, AppendLogLog, SnapshotLog
<1>4. CASE Rollback \/ FinishAgain \/ FinishConverged
  BY <1>4, RollbackLog, FinishAgainLog, FinishConvergedLog
<1>5. CASE AppendDocument \/ AppendSynctex \/ End \/ Render \/ SetTarget \/ FindTarget
  BY <1>5, OthersLog
<1> QED
  BY <1>1, <1>2, <1>3, <1>4, <1>5 DEF Next

(* The editor has the log of the driver, byte by byte and in complete lines, *)
(* whatever was written, in whatever pieces, cut by a rollback and sent      *)
(* again (editor_append, editor_truncate, rollback_processes); only a pass   *)
(* that converged leaves it behind, until the next rollback.                 *)
THEOREM EditorHasTheLog == Spec => []EditorExact
<1>1. Init => Inv /\ OpenedInv /\ LogInv
  BY InitInv, InitLog
<1>2. Inv /\ OpenedInv /\ LogInv /\ [Next]_vars => Inv' /\ OpenedInv' /\ LogInv'
  BY NextInv, NextLog
<1>3. Inv /\ OpenedInv /\ LogInv => EditorExact
  BY DEF LogInv, ShowsAll, Bared, EditorExact
<1> QED
  BY <1>1, <1>2, <1>3, PTL DEF Spec

-----------------------------------------------------------------------------
(* The marks of the lines of SyncTeX *)

CloseType == [off : Nat, input : Nat]

(* An index of lines, in its types *)
Linear(s) ==
  /\ LinesTyped(s)
  /\ s.pages \in Seq(Nat) /\ s.inputs \in Seq(Int) /\ s.closes \in Seq(CloseType)

(* A number of a sequence is negated. *)
LEMMA NegatedAt ==
  ASSUME NEW s \in Seq(Int), NEW i \in 1..Len(s), NEW p, p = [s EXCEPT ![i] = -s[i]]
  PROVE  /\ p \in Seq(Int) /\ Len(p) = Len(s)
         /\ s[i] \in Int /\ p[i] = -s[i]
         /\ \A j \in 1..Len(s) : j # i => p[j] = s[j]
<1>1. PICK e \in Int : e = -s[i]
  <2>1. s[i] \in Int
    OBVIOUS
  <2> QED
    BY <2>1
<1>2. p = [s EXCEPT ![i] = e]
  BY <1>1
<1>3. p \in Seq(Int) /\ Len(p) = Len(s) /\ \A j \in 1..Len(s) : p[j] = IF j = i THEN e ELSE s[j]
  BY <1>2, ExceptSeq
<1>4. s[i] \in Int
  OBVIOUS
<1> QED
  BY <1>1, <1>3, <1>4

(* Two indexes with the same marks *)
Same(s, r) ==
  s.pages = r.pages /\ s.inputs = r.inputs /\ s.closes = r.closes /\ s.bad = r.bad

(* A line is read: its effect on the marks *)
PageLine(b, s) ==
  b.tag = Len(s.pages) \div 2 + 1 /\ (b.op = "}") = (Len(s.pages) % 2 = 1)

InputLine(b, s) == b.tag = Len(s.inputs) + 1

CloseLine(b, s) == b.tag \in DOMAIN s.inputs /\ ~IsClosed(s.inputs, b.tag)

Refused(s, r, why) ==
  /\ r.pages = s.pages /\ r.inputs = s.inputs /\ r.closes = s.closes
  /\ r.bad = s.bad \cup {why}

LEMMA LineReadPage ==
  ASSUME NEW s, Linear(s), NEW mem, NEW bol \in Nat, mem[bol + 1].op \in {"{", "}"}
  PROVE  /\ Linear(LineRead(s, mem, bol))
         /\ LineRead(s, mem, bol).bol = s.bol /\ LineRead(s, mem, bol).cur = s.cur
         /\ PageLine(mem[bol + 1], s) =>
              /\ LineRead(s, mem, bol).pages = Append(s.pages, bol)
              /\ LineRead(s, mem, bol).inputs = s.inputs
              /\ LineRead(s, mem, bol).closes = s.closes /\ LineRead(s, mem, bol).bad = s.bad
         /\ ~PageLine(mem[bol + 1], s) =>
              Refused(s, LineRead(s, mem, bol), "page")
<1>1. PICK b : b = mem[bol + 1] /\ b.op \in {"{", "}"}
  OBVIOUS
<1>2. PICK p \in Seq(Nat) : p = s.pages
  BY DEF Linear
<1>3. Append(p, bol) \in Seq(Nat)
  BY AppendProperties
<1>4. DOMAIN s = {"bol", "cur", "pages", "inputs", "closes", "bad"}
  BY DEF Linear, LinesTyped
<1>5. CASE PageLine(b, s)
  <2>1. LineRead(s, mem, bol) = [s EXCEPT !.pages = Append(p, bol)]
    BY <1>1, <1>2, <1>5 DEF LineRead, PageLine
  <2>2. PICK r : r = [s EXCEPT !.pages = Append(p, bol)]
    OBVIOUS
  <2>3. /\ DOMAIN r = DOMAIN s /\ r.pages = Append(p, bol) /\ r.inputs = s.inputs
        /\ r.closes = s.closes /\ r.bad = s.bad /\ r.cur = s.cur /\ r.bol = s.bol
    BY <1>4, <2>2
  <2>4. Linear(r)
    BY <1>3, <2>3 DEF Linear, LinesTyped
  <2> QED
    BY <1>1, <1>2, <1>5, <2>1, <2>2, <2>3, <2>4
<1>6. CASE ~PageLine(b, s)
  <2>1. LineRead(s, mem, bol) = [s EXCEPT !.bad = s.bad \cup {"page"}]
    BY <1>1, <1>6 DEF LineRead, PageLine
  <2>2. PICK r : r = [s EXCEPT !.bad = s.bad \cup {"page"}]
    OBVIOUS
  <2>3. /\ DOMAIN r = DOMAIN s /\ r.pages = s.pages /\ r.inputs = s.inputs
        /\ r.closes = s.closes /\ r.bad = s.bad \cup {"page"} /\ r.cur = s.cur /\ r.bol = s.bol
    BY <1>4, <2>2
  <2>4. Linear(r)
    BY <2>3 DEF Linear, LinesTyped, LineErrors
  <2> QED
    BY <1>1, <1>6, <2>1, <2>2, <2>3, <2>4 DEF Refused
<1> QED
  BY <1>1, <1>5, <1>6

LEMMA LineReadInput ==
  ASSUME NEW s, Linear(s), NEW mem, NEW bol \in Nat, mem[bol + 1].op = "input"
  PROVE  /\ Linear(LineRead(s, mem, bol))
         /\ LineRead(s, mem, bol).bol = s.bol /\ LineRead(s, mem, bol).cur = s.cur
         /\ InputLine(mem[bol + 1], s) =>
              /\ LineRead(s, mem, bol).inputs = Append(s.inputs, bol)
              /\ LineRead(s, mem, bol).pages = s.pages
              /\ LineRead(s, mem, bol).closes = s.closes /\ LineRead(s, mem, bol).bad = s.bad
         /\ ~InputLine(mem[bol + 1], s) =>
              Refused(s, LineRead(s, mem, bol), "input")
<1>1. PICK b : b = mem[bol + 1] /\ b.op = "input"
  OBVIOUS
<1>2. PICK p \in Seq(Int) : p = s.inputs
  BY DEF Linear
<1>3. Append(p, bol) \in Seq(Int)
  BY AppendProperties
<1>4. DOMAIN s = {"bol", "cur", "pages", "inputs", "closes", "bad"}
  BY DEF Linear, LinesTyped
<1>5. CASE InputLine(b, s)
  <2>1. LineRead(s, mem, bol) = [s EXCEPT !.inputs = Append(p, bol)]
    BY <1>1, <1>2, <1>5 DEF LineRead, InputLine
  <2>2. PICK r : r = [s EXCEPT !.inputs = Append(p, bol)]
    OBVIOUS
  <2>3. /\ DOMAIN r = DOMAIN s /\ r.inputs = Append(p, bol) /\ r.pages = s.pages
        /\ r.closes = s.closes /\ r.bad = s.bad /\ r.cur = s.cur /\ r.bol = s.bol
    BY <1>4, <2>2
  <2>4. Linear(r)
    BY <1>3, <2>3 DEF Linear, LinesTyped
  <2> QED
    BY <1>1, <1>2, <1>5, <2>1, <2>2, <2>3, <2>4
<1>6. CASE ~InputLine(b, s)
  <2>1. LineRead(s, mem, bol) = [s EXCEPT !.bad = s.bad \cup {"input"}]
    BY <1>1, <1>6 DEF LineRead, InputLine
  <2>2. PICK r : r = [s EXCEPT !.bad = s.bad \cup {"input"}]
    OBVIOUS
  <2>3. /\ DOMAIN r = DOMAIN s /\ r.pages = s.pages /\ r.inputs = s.inputs
        /\ r.closes = s.closes /\ r.bad = s.bad \cup {"input"} /\ r.cur = s.cur /\ r.bol = s.bol
    BY <1>4, <2>2
  <2>4. Linear(r)
    BY <2>3 DEF Linear, LinesTyped, LineErrors
  <2> QED
    BY <1>1, <1>6, <2>1, <2>2, <2>3, <2>4 DEF Refused
<1> QED
  BY <1>1, <1>5, <1>6

Closing(inputs, i) == [inputs EXCEPT ![i] = -inputs[i]]

LEMMA LineReadClose ==
  ASSUME NEW s, Linear(s), NEW mem, NEW bol \in Nat, mem[bol + 1].op = "/"
  PROVE  /\ Linear(LineRead(s, mem, bol))
         /\ LineRead(s, mem, bol).bol = s.bol /\ LineRead(s, mem, bol).cur = s.cur
         /\ CloseLine(mem[bol + 1], s) =>
              /\ LineRead(s, mem, bol).inputs = Closing(s.inputs, mem[bol + 1].tag)
              /\ LineRead(s, mem, bol).pages = s.pages
              /\ LineRead(s, mem, bol).closes =
                   Append(s.closes, [off |-> bol, input |-> mem[bol + 1].tag])
              /\ LineRead(s, mem, bol).bad = s.bad
         /\ ~CloseLine(mem[bol + 1], s) =>
              Refused(s, LineRead(s, mem, bol), "close")
<1>1. PICK b : b = mem[bol + 1] /\ b.op = "/"
  OBVIOUS
<1>2. PICK p \in Seq(Int), c \in Seq(CloseType) : p = s.inputs /\ c = s.closes
  BY DEF Linear
<1>4. DOMAIN s = {"bol", "cur", "pages", "inputs", "closes", "bad"}
  BY DEF Linear, LinesTyped
<1>5. CASE CloseLine(b, s)
  <2>0. PICK tag \in 1..Len(p) : tag = b.tag
    BY <1>2, <1>5 DEF CloseLine
  <2>1. PICK q, close, d : /\ q = [p EXCEPT ![tag] = -p[tag]]
                           /\ close = [off |-> bol, input |-> tag]
                           /\ d = Append(c, close)
    OBVIOUS
  <2>2. q \in Seq(Int)
    BY <2>0, <2>1, NegatedAt
  <2>3. close \in CloseType
    BY <2>0, <2>1 DEF CloseType
  <2>4. d \in Seq(CloseType)
    BY <2>1, <2>3, AppendProperties
  <2>5. LineRead(s, mem, bol) = [s EXCEPT !.inputs[tag] = -p[tag], !.closes = d]
    BY <1>1, <1>2, <1>5, <2>0, <2>1 DEF LineRead, CloseLine
  <2>6. [s EXCEPT !.inputs[tag] = -p[tag], !.closes = d] = [[s EXCEPT !.inputs = q] EXCEPT !.closes = d]
    BY <1>2, <1>4, <2>1
  <2>7. PICK r : r = [[s EXCEPT !.inputs = q] EXCEPT !.closes = d]
    OBVIOUS
  <2>8. /\ DOMAIN r = DOMAIN s /\ r.inputs = q /\ r.pages = s.pages
        /\ r.closes = d /\ r.bad = s.bad /\ r.cur = s.cur /\ r.bol = s.bol
    BY <1>4, <2>7
  <2>9. Linear(r)
    BY <2>2, <2>4, <2>8 DEF Linear, LinesTyped
  <2>10. q = Closing(s.inputs, b.tag) /\ d = Append(s.closes, [off |-> bol, input |-> b.tag])
    BY <1>2, <2>0, <2>1 DEF Closing
  <2> QED
    BY <1>1, <1>5, <2>5, <2>6, <2>7, <2>8, <2>9, <2>10
<1>6. CASE ~CloseLine(b, s)
  <2>1. LineRead(s, mem, bol) = [s EXCEPT !.bad = s.bad \cup {"close"}]
    BY <1>1, <1>6 DEF LineRead, CloseLine
  <2>2. PICK r : r = [s EXCEPT !.bad = s.bad \cup {"close"}]
    OBVIOUS
  <2>3. /\ DOMAIN r = DOMAIN s /\ r.pages = s.pages /\ r.inputs = s.inputs
        /\ r.closes = s.closes /\ r.bad = s.bad \cup {"close"} /\ r.cur = s.cur /\ r.bol = s.bol
    BY <1>4, <2>2
  <2>4. Linear(r)
    BY <2>3 DEF Linear, LinesTyped, LineErrors
  <2> QED
    BY <1>1, <1>6, <2>1, <2>2, <2>3, <2>4 DEF Refused
<1> QED
  BY <1>1, <1>5, <1>6

MarkOps == {"{", "}", "input", "/"}

LEMMA LineReadOther ==
  ASSUME NEW s, NEW mem, NEW bol, mem[bol + 1].op \notin MarkOps
  PROVE  LineRead(s, mem, bol) = s
BY DEF LineRead, MarkOps

LEMMA LineReadLinear ==
  ASSUME NEW s, Linear(s), NEW mem, NEW bol \in Nat
  PROVE  /\ Linear(LineRead(s, mem, bol)) /\ s.bad \subseteq LineRead(s, mem, bol).bad
         /\ LineRead(s, mem, bol).bol = s.bol /\ LineRead(s, mem, bol).cur = s.cur
<1>1. PICK op, r : op = mem[bol + 1].op /\ r = LineRead(s, mem, bol)
  OBVIOUS
<1>2. CASE op \in {"{", "}"}
  <2>1. Linear(r) /\ r.bol = s.bol /\ r.cur = s.cur /\ (r.bad = s.bad \/ Refused(s, r, "page"))
    BY <1>1, <1>2, LineReadPage
  <2> QED
    BY <1>1, <2>1 DEF Refused
<1>3. CASE op = "input"
  <2>1. Linear(r) /\ r.bol = s.bol /\ r.cur = s.cur /\ (r.bad = s.bad \/ Refused(s, r, "input"))
    BY <1>1, <1>3, LineReadInput
  <2> QED
    BY <1>1, <2>1 DEF Refused
<1>4. CASE op = "/"
  <2>1. Linear(r) /\ r.bol = s.bol /\ r.cur = s.cur /\ (r.bad = s.bad \/ Refused(s, r, "close"))
    BY <1>1, <1>4, LineReadClose
  <2> QED
    BY <1>1, <2>1 DEF Refused
<1>5. CASE op \notin MarkOps
  BY <1>1, <1>5, LineReadOther
<1> QED
  BY <1>2, <1>3, <1>4, <1>5 DEF MarkOps

LEMMA LineReadSame ==
  ASSUME NEW s, Linear(s), NEW r, Linear(r), Same(s, r),
         NEW mem, NEW text, NEW bol \in Nat, mem[bol + 1] = text[bol + 1]
  PROVE  Same(LineRead(s, mem, bol), LineRead(r, text, bol))
<1>1. PICK b, t, u : b = mem[bol + 1] /\ b = text[bol + 1]
                     /\ t = LineRead(s, mem, bol) /\ u = LineRead(r, text, bol)
  OBVIOUS
<1>2. s.pages = r.pages /\ s.inputs = r.inputs /\ s.closes = r.closes /\ s.bad = r.bad
  BY DEF Same
<1>3. CASE b.op \in {"{", "}"}
  <2>1. PageLine(b, s) <=> PageLine(b, r)
    BY <1>2 DEF PageLine
  <2>2. /\ PageLine(b, s) => /\ t.pages = Append(s.pages, bol) /\ t.inputs = s.inputs
                             /\ t.closes = s.closes /\ t.bad = s.bad
        /\ ~PageLine(b, s) => Refused(s, t, "page")
    BY <1>1, <1>3, LineReadPage
  <2>3. /\ PageLine(b, r) => /\ u.pages = Append(r.pages, bol) /\ u.inputs = r.inputs
                             /\ u.closes = r.closes /\ u.bad = r.bad
        /\ ~PageLine(b, r) => Refused(r, u, "page")
    BY <1>1, <1>3, LineReadPage
  <2> QED
    BY <1>1, <1>2, <2>1, <2>2, <2>3 DEF Same, Refused
<1>4. CASE b.op = "input"
  <2>1. InputLine(b, s) <=> InputLine(b, r)
    BY <1>2 DEF InputLine
  <2>2. /\ InputLine(b, s) => /\ t.inputs = Append(s.inputs, bol) /\ t.pages = s.pages
                              /\ t.closes = s.closes /\ t.bad = s.bad
        /\ ~InputLine(b, s) => Refused(s, t, "input")
    BY <1>1, <1>4, LineReadInput
  <2>3. /\ InputLine(b, r) => /\ u.inputs = Append(r.inputs, bol) /\ u.pages = r.pages
                              /\ u.closes = r.closes /\ u.bad = r.bad
        /\ ~InputLine(b, r) => Refused(r, u, "input")
    BY <1>1, <1>4, LineReadInput
  <2> QED
    BY <1>1, <1>2, <2>1, <2>2, <2>3 DEF Same, Refused
<1>5. CASE b.op = "/"
  <2>1. CloseLine(b, s) <=> CloseLine(b, r)
    BY <1>2 DEF CloseLine
  <2>2. /\ CloseLine(b, s) => /\ t.inputs = Closing(s.inputs, b.tag) /\ t.pages = s.pages
                              /\ t.closes = Append(s.closes, [off |-> bol, input |-> b.tag])
                              /\ t.bad = s.bad
        /\ ~CloseLine(b, s) => Refused(s, t, "close")
    BY <1>1, <1>5, LineReadClose
  <2>3. /\ CloseLine(b, r) => /\ u.inputs = Closing(r.inputs, b.tag) /\ u.pages = r.pages
                              /\ u.closes = Append(r.closes, [off |-> bol, input |-> b.tag])
                              /\ u.bad = r.bad
        /\ ~CloseLine(b, r) => Refused(r, u, "close")
    BY <1>1, <1>5, LineReadClose
  <2> QED
    BY <1>1, <1>2, <2>1, <2>2, <2>3 DEF Same, Refused
<1>6. CASE b.op \notin MarkOps
  BY <1>1, <1>6, LineReadOther
<1> QED
  BY <1>3, <1>4, <1>5, <1>6 DEF MarkOps

(* A line that is read twice stops the driver, when it makes a mark. *)
LEMMA ReadTwice ==
  ASSUME NEW s, Linear(s), NEW r, Linear(r), NEW mem, NEW text, NEW bol \in Nat,
         mem[bol + 1] = text[bol + 1], bol # 0 \/ mem[bol + 1].op # "input",
         Same(r, LineRead(s, text, bol)), LineRead(s, text, bol).bad = {},
         \A i \in 1..Len(s.inputs) : s.inputs[i] # 0
  PROVE  LineRead(r, mem, bol).bad # {} \/ Same(LineRead(r, mem, bol), r)
<1>1. PICK b, t, u : b = mem[bol + 1] /\ b = text[bol + 1]
                     /\ t = LineRead(s, text, bol) /\ u = LineRead(r, mem, bol)
  OBVIOUS
<1>2. t.pages = r.pages /\ t.inputs = r.inputs /\ t.closes = r.closes /\ t.bad = r.bad /\ t.bad = {}
  BY <1>1 DEF Same
<1>3. CASE b.op \in {"{", "}"}
  <2>0. /\ PageLine(b, s) => /\ t.pages = Append(s.pages, bol) /\ t.inputs = s.inputs
                             /\ t.closes = s.closes /\ t.bad = s.bad
        /\ ~PageLine(b, s) => Refused(s, t, "page")
    <3>1. text[bol + 1].op \in {"{", "}"} /\ text[bol + 1] = b
      BY <1>1, <1>3
    <3>2. t = LineRead(s, text, bol)
      BY <1>1
    <3>3. /\ PageLine(text[bol + 1], s) =>
               /\ LineRead(s, text, bol).pages = Append(s.pages, bol)
               /\ LineRead(s, text, bol).inputs = s.inputs
               /\ LineRead(s, text, bol).closes = s.closes /\ LineRead(s, text, bol).bad = s.bad
          /\ ~PageLine(text[bol + 1], s) => Refused(s, LineRead(s, text, bol), "page")
      BY <3>1, LineReadPage, ZenonT(60)
    <3> QED
      BY <3>1, <3>2, <3>3
  <2>1. PageLine(b, s) /\ t.pages = Append(s.pages, bol)
    <3>1. "page" \notin t.bad
      BY <1>2
    <3> QED
      BY <2>0, <3>1 DEF Refused
  <2>2. PICK n \in Nat : n = Len(s.pages) /\ Len(t.pages) = n + 1
    <3>1. s.pages \in Seq(Nat)
      BY DEF Linear
    <3> QED
      BY <2>1, <3>1, AppendProperties
  <2>3. (b.op = "}") = (n % 2 = 1)
    BY <2>1, <2>2 DEF PageLine
  <2>4. (n + 1) % 2 = 1 <=> ~(n % 2 = 1)
    OBVIOUS
  <2>5. ~PageLine(b, r)
    BY <1>2, <2>2, <2>3, <2>4 DEF PageLine
  <2>6. Refused(r, u, "page")
    BY <1>1, <1>3, <2>5, LineReadPage
  <2> QED
    BY <1>1, <2>6 DEF Refused
<1>4. CASE b.op = "input"
  <2>1. InputLine(b, s) /\ t.inputs = Append(s.inputs, bol)
    BY <1>1, <1>2, <1>4, LineReadInput DEF Refused
  <2>2. PICK n \in Nat : n = Len(s.inputs) /\ Len(t.inputs) = n + 1
    <3>1. s.inputs \in Seq(Int)
      BY DEF Linear
    <3> QED
      BY <2>1, <3>1, AppendProperties
  <2>3. ~InputLine(b, r)
    BY <1>2, <2>1, <2>2 DEF InputLine
  <2>4. Refused(r, u, "input")
    BY <1>1, <1>4, <2>3, LineReadInput
  <2> QED
    BY <1>1, <2>4 DEF Refused
<1>5. CASE b.op = "/"
  <2>0. /\ CloseLine(b, s) => /\ t.inputs = Closing(s.inputs, b.tag) /\ t.pages = s.pages
                              /\ t.closes = Append(s.closes, [off |-> bol, input |-> b.tag])
                              /\ t.bad = s.bad
        /\ ~CloseLine(b, s) => Refused(s, t, "close")
    BY <1>1, <1>5, LineReadClose
  <2>1. CloseLine(b, s) /\ t.inputs = Closing(s.inputs, b.tag)
    <3>1. "close" \notin t.bad
      BY <1>2
    <3> QED
      BY <2>0, <3>1 DEF Refused
  <2>2. PICK p \in Seq(Int) : p = s.inputs
    BY DEF Linear
  <2>3. PICK tag \in 1..Len(p) : tag = b.tag /\ ~(p[tag] < 0)
    BY <2>1, <2>2 DEF CloseLine, IsClosed
  <2>4. p[tag] \in Int /\ p[tag] # 0
    BY <2>2, <2>3
  <2>5. t.inputs[tag] = -p[tag]
    BY <2>1, <2>2, <2>3 DEF Closing
  <2>6. t.inputs[tag] < 0
    BY <2>3, <2>4, <2>5
  <2>7. ~CloseLine(b, r)
    BY <1>2, <2>3, <2>6 DEF CloseLine, IsClosed
  <2>8. Refused(r, u, "close")
    BY <1>1, <1>5, <2>7, LineReadClose
  <2> QED
    BY <1>1, <2>8 DEF Refused
<1>6. CASE b.op \notin MarkOps
  BY <1>1, <1>6, LineReadOther DEF Same
<1> QED
  BY <1>3, <1>4, <1>5, <1>6 DEF MarkOps

-----------------------------------------------------------------------------
(* A text of SyncTeX, read from its beginning *)

(* The index of lines, and where the line being read begins *)
Follows(s, mem, o) == Linear(s) /\ s.bol = LineStart(mem, o)

LEMMA ByteReadFollows ==
  ASSUME NEW s, NEW mem, NEW o \in Nat, o > 0, Follows(s, mem, o - 1)
  PROVE  /\ Follows(ByteRead(s, mem, o), mem, o)
         /\ ByteRead(s, mem, o).cur = s.cur /\ s.bad \subseteq ByteRead(s, mem, o).bad
         /\ ~NewLine(mem[o]) => ByteRead(s, mem, o) = s
         /\ NewLine(mem[o]) =>
              Same(ByteRead(s, mem, o), LineRead(s, mem, LineStart(mem, o - 1)))
<1>1. PICK bol, r : bol = LineStart(mem, o - 1) /\ r = ByteRead(s, mem, o)
  OBVIOUS
<1>2. o - 1 \in Nat /\ o - 1 + 1 = o
  OBVIOUS
<1>3. bol \in 0..o - 1 /\ s.bol = bol /\ Linear(s)
  BY <1>1, <1>2, LineStartIs DEF Follows
<1>4. LineStart(mem, o) = IF NewLine(mem[o]) THEN o ELSE bol
  BY <1>1, LineStartStep
<1>5. OpAt(mem, o - 1) = "nl" <=> NewLine(mem[o])
  BY <1>2 DEF OpAt, NewLine
<1>6. CASE ~NewLine(mem[o])
  <2>1. r = s
    BY <1>1, <1>5, <1>6 DEF ByteRead
  <2> QED
    BY <1>1, <1>3, <1>4, <1>6, <2>1 DEF Follows
<1>7. CASE NewLine(mem[o])
  <2>1. PICK t : t = LineRead(s, mem, bol)
    OBVIOUS
  <2>2. Linear(t) /\ s.bad \subseteq t.bad /\ t.cur = s.cur
    BY <1>3, <2>1, LineReadLinear
  <2>3. (IF o - 1 > s.bol THEN LineRead(s, mem, s.bol) ELSE s) = t
    <3>1. CASE o - 1 > bol
      BY <1>3, <2>1, <3>1
    <3>2. CASE ~(o - 1 > bol)
      <4>1. bol + 1 = o
        BY <1>3, <3>2
      <4>2. mem[bol + 1].op \notin MarkOps
        BY <1>7, <4>1 DEF NewLine, MarkOps
      <4> QED
        BY <1>3, <2>1, <3>2, <4>2, LineReadOther
    <3> QED
      BY <3>1, <3>2
  <2>4. r = [t EXCEPT !.bol = o]
    BY <1>1, <1>5, <1>7, <2>3, Zenon DEF ByteRead
  <2>5. DOMAIN t = {"bol", "cur", "pages", "inputs", "closes", "bad"}
    BY <2>2 DEF Linear, LinesTyped
  <2>6. /\ DOMAIN r = DOMAIN t /\ r.bol = o /\ r.cur = t.cur /\ r.pages = t.pages
        /\ r.inputs = t.inputs /\ r.closes = t.closes /\ r.bad = t.bad
    BY <2>4, <2>5
  <2>7. Linear(r) /\ Same(r, t)
    BY <2>2, <2>6 DEF Linear, LinesTyped, Same
  <2> QED
    BY <1>1, <1>4, <1>7, <2>1, <2>2, <2>6, <2>7 DEF Follows
<1> QED
  BY <1>6, <1>7

(* The index of the first bytes of a text *)
ReadAll(text) == CHOOSE g : Reading(NoLines, text, Len(text), g)

After(text, n) == ReadAll(text)[n]

LEMMA NoLinesLinear == Linear(NoLines) /\ NoLines.cur = 0 /\ NoLines.bol = 0 /\ NoLines.bad = {}
<1>1. <<>> \in Seq(Nat) /\ <<>> \in Seq(Int) /\ <<>> \in Seq(CloseType)
  OBVIOUS
<1>2. /\ DOMAIN NoLines = {"bol", "cur", "pages", "inputs", "closes", "bad"}
      /\ NoLines.bol = 0 /\ NoLines.cur = 0 /\ NoLines.pages = <<>> /\ NoLines.inputs = <<>>
      /\ NoLines.closes = <<>> /\ NoLines.bad = {}
  BY DEF NoLines
<1> QED
  BY <1>1, <1>2 DEF Linear, LinesTyped

LEMMA AfterIs ==
  ASSUME NEW text, Len(text) \in Nat
  PROVE  /\ After(text, 0) = NoLines
         /\ \A n \in 1..Len(text) : After(text, n) = ByteRead(After(text, n - 1), text, n)
<1>1. PICK g : g = ReadAll(text)
  OBVIOUS
<1>2. Reading(NoLines, text, Len(text), g)
  <2>1. \E h : Reading(NoLines, text, Len(text), h)
    BY NoLinesLinear, ReadingExists, SMTT(40)
  <2> QED
    BY <1>1, <2>1 DEF ReadAll
<1>3. \A n \in 0..Len(text) : g[n] = IF n = 0 THEN [NoLines EXCEPT !.bol = Start(NoLines, text)]
                                     ELSE ByteRead(g[n - 1], text, n)
  <2>1. g = [o \in 0..Len(text) |-> IF o = 0 THEN [NoLines EXCEPT !.bol = Start(NoLines, text)]
                                    ELSE ByteRead(g[o - 1], text, o)]
    BY <1>2, NoLinesLinear DEF Reading
  <2> QED
    BY <2>1
<1>4. [NoLines EXCEPT !.bol = Start(NoLines, text)] = NoLines
  <2>1. Start(NoLines, text) = 0
    BY NoLinesLinear DEF Start
  <2> QED
    BY <2>1 DEF NoLines
<1>5. g[0] = NoLines
  <2>1. 0 \in 0..Len(text)
    OBVIOUS
  <2> QED
    BY <1>3, <1>4, <2>1
<1>6. ASSUME NEW n \in 1..Len(text)
      PROVE  g[n] = ByteRead(g[n - 1], text, n)
  BY <1>3
<1> QED
  BY <1>1, <1>5, <1>6 DEF After

LEMMA AfterFollows ==
  ASSUME NEW text, Len(text) \in Nat
  PROVE  \A n \in 0..Len(text) : Follows(After(text, n), text, n)
<1> DEFINE S == {n \in Nat : n <= Len(text) => Follows(After(text, n), text, n)}
<1>1. 0 \in S
  <2>1. LineStart(text, 0) = 0
    BY LineStartIs
  <2> QED
    BY <2>1, AfterIs, NoLinesLinear DEF Follows
<1>2. ASSUME NEW n \in Nat, n \in S, n + 1 <= Len(text)
      PROVE  Follows(After(text, n + 1), text, n + 1)
  <2>1. n + 1 \in 1..Len(text) /\ n + 1 - 1 = n /\ n + 1 \in Nat /\ n + 1 > 0
    BY <1>2
  <2>2. Follows(After(text, n), text, n)
    BY <1>2, <2>1
  <2>3. After(text, n + 1) = ByteRead(After(text, n), text, n + 1)
    BY <2>1, AfterIs
  <2>4. Follows(ByteRead(After(text, n), text, n + 1), text, n + 1)
    BY <2>1, <2>2, ByteReadFollows
  <2> QED
    BY <2>3, <2>4
<1>3. \A n \in Nat : n \in S
  <2>1. \A n \in Nat : n \in S => n + 1 \in S
    BY <1>2
  <2> HIDE DEF S
  <2> QED
    BY <1>1, <2>1, Upward
<1> QED
  BY <1>3

(* A byte more *)
LEMMA AfterStep ==
  ASSUME NEW text, Len(text) \in Nat, NEW n \in 0..Len(text) - 1
  PROVE  /\ Linear(After(text, n)) /\ Linear(After(text, n + 1))
         /\ After(text, n).bad \subseteq After(text, n + 1).bad
         /\ ~NewLine(text[n + 1]) => After(text, n + 1) = After(text, n)
         /\ NewLine(text[n + 1]) =>
              Same(After(text, n + 1), LineRead(After(text, n), text, LineStart(text, n)))
<1>1. n + 1 \in 1..Len(text) /\ n + 1 - 1 = n /\ n + 1 \in Nat /\ n + 1 > 0 /\ n \in 0..Len(text)
  OBVIOUS
<1>2. Follows(After(text, n), text, n)
  BY <1>1, AfterFollows
<1>3. After(text, n + 1) = ByteRead(After(text, n), text, n + 1)
  BY <1>1, AfterIs
<1>4. PICK s, o : s = After(text, n) /\ o = n + 1
  OBVIOUS
<1>5. o \in Nat /\ o > 0 /\ o - 1 = n /\ Follows(s, text, o - 1)
  BY <1>1, <1>2, <1>4
<1>6. /\ Follows(ByteRead(s, text, o), text, o)
      /\ s.bad \subseteq ByteRead(s, text, o).bad
      /\ ~NewLine(text[o]) => ByteRead(s, text, o) = s
      /\ NewLine(text[o]) => Same(ByteRead(s, text, o), LineRead(s, text, LineStart(text, o - 1)))
  BY <1>5, ByteReadFollows
<1> QED
  BY <1>2, <1>3, <1>4, <1>5, <1>6 DEF Follows

(* Lines that stop the driver are not forgotten. *)
LEMMA AfterBad ==
  ASSUME NEW text, Len(text) \in Nat, After(text, Len(text)).bad = {}
  PROVE  \A n \in 0..Len(text) : After(text, n).bad = {}
<1> DEFINE S == {n \in Nat : n <= Len(text) => After(text, Len(text) - n).bad = {}}
<1>1. 0 \in S
  <2>1. Len(text) - 0 = Len(text)
    OBVIOUS
  <2> QED
    BY <2>1
<1>2. ASSUME NEW n \in Nat, n \in S, n + 1 <= Len(text)
      PROVE  After(text, Len(text) - (n + 1)).bad = {}
  <2>1. PICK k : k = Len(text) - (n + 1)
    OBVIOUS
  <2>2. k \in 0..Len(text) - 1 /\ k + 1 = Len(text) - n
    BY <1>2, <2>1
  <2>3. After(text, k + 1).bad = {}
    BY <1>2, <2>2
  <2> QED
    BY <2>1, <2>2, <2>3, AfterStep
<1>3. \A n \in Nat : n \in S
  <2>1. \A n \in Nat : n \in S => n + 1 \in S
    BY <1>2
  <2> HIDE DEF S
  <2> QED
    BY <1>1, <2>1, Upward
<1>4. ASSUME NEW n \in 0..Len(text)
      PROVE  After(text, n).bad = {}
  <2>1. Len(text) - n \in Nat /\ Len(text) - n <= Len(text) /\ Len(text) - (Len(text) - n) = n
    BY <1>4
  <2>2. Len(text) - n \in S
    BY <1>3, <2>1
  <2> QED
    BY <2>1, <2>2
<1> QED
  BY <1>4

(* The first bytes alone make the index. *)
LEMMA AfterSame ==
  ASSUME NEW s \in Seq(Bytes), NEW t \in Seq(Bytes), Begins(s, t)
  PROVE  \A n \in 0..Len(s) : Same(After(s, n), After(t, n))
<1>0. Len(s) \in Nat /\ Len(t) \in Nat /\ Len(s) <= Len(t) /\ \A i \in 1..Len(s) : s[i] = t[i]
  BY DEF Begins
<1> DEFINE S == {n \in Nat : n <= Len(s) => Same(After(s, n), After(t, n))}
<1>1. 0 \in S
  BY <1>0, AfterIs DEF Same
<1>2. ASSUME NEW n \in Nat, n \in S, n + 1 <= Len(s)
      PROVE  Same(After(s, n + 1), After(t, n + 1))
  <2>1. n \in 0..Len(s) - 1 /\ n \in 0..Len(t) - 1 /\ n + 1 \in 1..Len(s)
    BY <1>0, <1>2
  <2>2. PICK a, b, c, d : a = After(s, n) /\ b = After(t, n) /\ c = After(s, n + 1) /\ d = After(t, n + 1)
    OBVIOUS
  <2>3. /\ Linear(a) /\ Linear(c)
        /\ ~NewLine(s[n + 1]) => c = a
        /\ NewLine(s[n + 1]) => Same(c, LineRead(a, s, LineStart(s, n)))
    BY <1>0, <2>1, <2>2, AfterStep
  <2>4. /\ Linear(b) /\ Linear(d)
        /\ ~NewLine(t[n + 1]) => d = b
        /\ NewLine(t[n + 1]) => Same(d, LineRead(b, t, LineStart(t, n)))
    BY <1>0, <2>1, <2>2, AfterStep
  <2>5. Same(a, b)
    BY <1>2, <2>1, <2>2
  <2>6. s[n + 1] = t[n + 1]
    BY <1>0, <2>1
  <2>7. PICK l : l = LineStart(s, n)
    OBVIOUS
  <2>8. LineStart(t, n) = l /\ l \in 0..n
    <3>1. \A i \in 1..n : s[i] = t[i]
      BY <1>0, <2>1
    <3> QED
      BY <2>7, <3>1, LineStartSame, LineStartIs
  <2>9. l \in Nat /\ s[l + 1] = t[l + 1]
    <3>1. l + 1 \in 1..Len(s)
      BY <1>0, <2>1, <2>8
    <3> QED
      BY <1>0, <2>8, <3>1
  <2>10. Same(LineRead(a, s, l), LineRead(b, t, l))
    BY <2>3, <2>4, <2>5, <2>9, LineReadSame
  <2> QED
    BY <2>2, <2>3, <2>4, <2>5, <2>6, <2>7, <2>8, <2>10 DEF Same
<1>3. \A n \in Nat : n \in S
  <2>1. \A n \in Nat : n \in S => n + 1 \in S
    BY <1>2
  <2> HIDE DEF S
  <2> QED
    BY <1>1, <2>1, Upward
<1> QED
  BY <1>0, <1>3

-----------------------------------------------------------------------------
(* The marks of an index are those of lines that begin before some byte, and  *)
(* the inputs that a line closes are closed.                                  *)
Sane(s, b) ==
  /\ \A i \in 1..Len(s.pages) : s.pages[i] < b
  /\ \A i \in 1..Len(s.inputs) : s.inputs[i] # 0 /\ Abs(s.inputs[i]) < b
  /\ \A i \in 1..Len(s.closes) : s.closes[i].off < b /\ s.closes[i].input \in 1..Len(s.inputs)
                                 /\ s.inputs[s.closes[i].input] < 0

LEMMA SaneLess ==
  ASSUME NEW s, Linear(s), NEW b \in Nat, NEW c \in Nat, b <= c, Sane(s, b)
  PROVE  Sane(s, c)
<1>1. \A i \in 1..Len(s.pages) : s.pages[i] \in Nat
  BY DEF Linear
<1>2. \A i \in 1..Len(s.inputs) : s.inputs[i] \in Int /\ Abs(s.inputs[i]) \in Nat
  BY DEF Linear, Abs
<1>3. \A i \in 1..Len(s.closes) : s.closes[i].off \in Nat
  <2>1. \A i \in 1..Len(s.closes) : s.closes[i] \in CloseType
    BY DEF Linear
  <2> QED
    BY <2>1 DEF CloseType
<1> QED
  BY <1>1, <1>2, <1>3 DEF Sane

LEMMA SaneSame ==
  ASSUME NEW s, NEW r, Same(s, r), NEW b, Sane(s, b)
  PROVE  Sane(r, b)
BY DEF Same, Sane

LEMMA CloseAdded ==
  ASSUME NEW closes \in Seq(CloseType), NEW close \in CloseType
  PROVE  /\ Append(closes, close) \in Seq(CloseType)
         /\ Len(Append(closes, close)) = Len(closes) + 1
         /\ Append(closes, close)[Len(closes) + 1] = close
         /\ \A i \in 1..Len(closes) : Append(closes, close)[i] = closes[i]
BY AppendProperties

LEMMA SaneRead ==
  ASSUME NEW s, Linear(s), NEW mem, NEW bol \in Nat, Sane(s, bol),
         bol # 0 \/ mem[bol + 1].op # "input", NEW b \in Nat, bol < b
  PROVE  Sane(LineRead(s, mem, bol), b)
<1>1. PICK m, t : m = mem[bol + 1] /\ t = LineRead(s, mem, bol)
  OBVIOUS
<1>2. Sane(s, b)
  BY SaneLess
<1>3. ASSUME NEW why, Refused(s, t, why)
      PROVE  Sane(t, b)
  BY <1>2, <1>3 DEF Refused, Sane
<1>4. /\ s.pages \in Seq(Nat) /\ s.inputs \in Seq(Int) /\ s.closes \in Seq(CloseType)
      /\ Len(s.pages) \in Nat /\ Len(s.inputs) \in Nat /\ Len(s.closes) \in Nat
  BY DEF Linear
<1>5. CASE m.op \in {"{", "}"}
  <2>1. /\ PageLine(m, s) => /\ t.pages = Append(s.pages, bol) /\ t.inputs = s.inputs
                             /\ t.closes = s.closes /\ t.bad = s.bad
        /\ ~PageLine(m, s) => Refused(s, t, "page")
    BY <1>1, <1>5, LineReadPage
  <2>2. CASE PageLine(m, s)
    <3>1. PICK p : p = Append(s.pages, bol)
      OBVIOUS
    <3>2. Len(p) = Len(s.pages) + 1 /\ p[Len(s.pages) + 1] = bol /\ \A i \in 1..Len(s.pages) : p[i] = s.pages[i]
      BY <1>4, <3>1
    <3>3. \A i \in 1..Len(p) : p[i] < b
      <4>1. ASSUME NEW i \in 1..Len(p)
            PROVE  p[i] < b
        <5>1. CASE i = Len(s.pages) + 1
          BY <3>2, <5>1
        <5>2. CASE i # Len(s.pages) + 1
          <6>1. i \in 1..Len(s.pages)
            BY <1>4, <3>2, <5>2
          <6> QED
            BY <1>2, <3>2, <6>1 DEF Sane
        <5> QED
          BY <5>1, <5>2
      <4> QED
        BY <4>1
    <3>4. t.pages = p /\ t.inputs = s.inputs /\ t.closes = s.closes
      BY <2>1, <2>2, <3>1
    <3> QED
      BY <1>1, <1>2, <3>3, <3>4 DEF Sane
  <2>3. CASE ~PageLine(m, s)
    <3>1. Refused(s, t, "page")
      BY <2>1, <2>3
    <3> QED
      BY <1>1, <1>3, <3>1
  <2> QED
    BY <2>2, <2>3
<1>6. CASE m.op = "input"
  <2>1. /\ InputLine(m, s) => /\ t.inputs = Append(s.inputs, bol) /\ t.pages = s.pages
                              /\ t.closes = s.closes /\ t.bad = s.bad
        /\ ~InputLine(m, s) => Refused(s, t, "input")
    BY <1>1, <1>6, LineReadInput
  <2>2. CASE InputLine(m, s)
    <3>1. PICK p : p = Append(s.inputs, bol)
      OBVIOUS
    <3>2. /\ Len(p) = Len(s.inputs) + 1 /\ p[Len(s.inputs) + 1] = bol
          /\ \A i \in 1..Len(s.inputs) : p[i] = s.inputs[i]
      BY <1>4, <3>1
    <3>3. bol # 0 /\ Abs(bol) = bol
      BY <1>1, <1>6 DEF Abs
    <3>4. \A i \in 1..Len(p) : p[i] # 0 /\ Abs(p[i]) < b
      <4>1. ASSUME NEW i \in 1..Len(p)
            PROVE  p[i] # 0 /\ Abs(p[i]) < b
        <5>1. CASE i = Len(s.inputs) + 1
          BY <3>2, <3>3, <5>1
        <5>2. CASE i # Len(s.inputs) + 1
          <6>1. i \in 1..Len(s.inputs)
            BY <1>4, <3>2, <5>2
          <6> QED
            BY <1>2, <3>2, <6>1 DEF Sane
        <5> QED
          BY <5>1, <5>2
      <4> QED
        BY <4>1
    <3>5. ASSUME NEW i \in 1..Len(s.closes)
          PROVE  s.closes[i].input \in 1..Len(p) /\ p[s.closes[i].input] < 0
      <4>1. s.closes[i].input \in 1..Len(s.inputs) /\ s.inputs[s.closes[i].input] < 0
        BY <1>2 DEF Sane
      <4> QED
        BY <1>4, <3>2, <4>1, SMTT(40)
    <3>6. t.inputs = p /\ t.pages = s.pages /\ t.closes = s.closes
      BY <2>1, <2>2, <3>1
    <3> QED
      BY <1>1, <1>2, <3>4, <3>5, <3>6 DEF Sane
  <2>3. CASE ~InputLine(m, s)
    <3>1. Refused(s, t, "input")
      BY <2>1, <2>3
    <3> QED
      BY <1>1, <1>3, <3>1
  <2> QED
    BY <2>2, <2>3
<1>7. CASE m.op = "/"
  <2>1. /\ CloseLine(m, s) => /\ t.inputs = Closing(s.inputs, m.tag) /\ t.pages = s.pages
                              /\ t.closes = Append(s.closes, [off |-> bol, input |-> m.tag])
                              /\ t.bad = s.bad
        /\ ~CloseLine(m, s) => Refused(s, t, "close")
    BY <1>1, <1>7, LineReadClose
  <2>2. CASE CloseLine(m, s)
    <3>1. PICK tag \in 1..Len(s.inputs) : tag = m.tag /\ ~(s.inputs[tag] < 0)
      BY <1>4, <2>2 DEF CloseLine, IsClosed
    <3>2. PICK p : p = [s.inputs EXCEPT ![tag] = -s.inputs[tag]] /\ p = t.inputs
      BY <2>1, <2>2, <3>1 DEF Closing
    <3>3. p \in Seq(Int) /\ Len(p) = Len(s.inputs) /\ p[tag] = -s.inputs[tag]
          /\ \A i \in 1..Len(s.inputs) : i # tag => p[i] = s.inputs[i]
      BY <1>4, <3>1, <3>2, NegatedAt
    <3>4. s.inputs[tag] \in Int /\ s.inputs[tag] # 0 /\ Abs(s.inputs[tag]) < b
      BY <1>2, <1>4 DEF Sane
    <3>5. p[tag] < 0 /\ Abs(p[tag]) < b /\ p[tag] # 0
      BY <3>1, <3>3, <3>4 DEF Abs
    <3>6. \A i \in 1..Len(p) : p[i] # 0 /\ Abs(p[i]) < b
      BY <1>2, <3>3, <3>5 DEF Sane
    <3>7. PICK close : close = [off |-> bol, input |-> tag]
      OBVIOUS
    <3>8. PICK q : q = Append(s.closes, close) /\ q = t.closes
      BY <2>1, <2>2, <3>1, <3>7
    <3>9. Len(q) = Len(s.closes) + 1 /\ q[Len(s.closes) + 1] = close
          /\ \A i \in 1..Len(s.closes) : q[i] = s.closes[i]
      <4>1. close \in CloseType
        BY <3>1, <3>7 DEF CloseType
      <4>2. /\ Len(Append(s.closes, close)) = Len(s.closes) + 1
            /\ Append(s.closes, close)[Len(s.closes) + 1] = close
            /\ \A i \in 1..Len(s.closes) : Append(s.closes, close)[i] = s.closes[i]
        BY <1>4, <4>1, CloseAdded
      <4> QED
        BY <3>8, <4>2
    <3>10. ASSUME NEW i \in 1..Len(q)
           PROVE  q[i].off < b /\ q[i].input \in 1..Len(p) /\ p[q[i].input] < 0
      <4>1. CASE i = Len(s.closes) + 1
        BY <3>1, <3>3, <3>5, <3>7, <3>9, <4>1, SMTT(40)
      <4>2. CASE i # Len(s.closes) + 1
        <5>1. i \in 1..Len(s.closes)
          BY <1>4, <3>9, <4>2
        <5>2. s.closes[i].off < b /\ s.closes[i].input \in 1..Len(s.inputs)
              /\ s.inputs[s.closes[i].input] < 0
          BY <1>2, <5>1 DEF Sane
        <5> QED
          BY <3>1, <3>3, <3>9, <5>1, <5>2
      <4> QED
        BY <4>1, <4>2
    <3>11. t.inputs = p /\ t.closes = q /\ t.pages = s.pages
      BY <2>1, <2>2, <3>2, <3>8
    <3> QED
      BY <1>1, <1>2, <3>6, <3>10, <3>11 DEF Sane
  <2>3. CASE ~CloseLine(m, s)
    <3>1. Refused(s, t, "close")
      BY <2>1, <2>3
    <3> QED
      BY <1>1, <1>3, <3>1
  <2> QED
    BY <2>2, <2>3
<1>8. CASE m.op \notin MarkOps
  BY <1>1, <1>2, <1>8, LineReadOther
<1> QED
  BY <1>1, <1>5, <1>6, <1>7, <1>8 DEF MarkOps

(* A program of SyncTeX *)
Versioned(text) == text # <<>> => OpAt(text, 0) # "input"

LEMMA SaneAfter ==
  ASSUME NEW text \in Seq(Bytes), Versioned(text)
  PROVE  \A n \in 0..Len(text) : Sane(After(text, n), LineStart(text, n))
<1>0. Len(text) \in Nat
  OBVIOUS
<1> DEFINE S == {n \in Nat : n <= Len(text) => Sane(After(text, n), LineStart(text, n))}
<1>1. 0 \in S
  BY <1>0, AfterIs DEF Sane, NoLines
<1>2. ASSUME NEW n \in Nat, n \in S, n + 1 <= Len(text)
      PROVE  Sane(After(text, n + 1), LineStart(text, n + 1))
  <2>1. n \in 0..Len(text) - 1 /\ n + 1 \in Nat /\ n + 1 > 0 /\ n + 1 - 1 = n
    BY <1>0, <1>2
  <2>2. PICK s, t, l : s = After(text, n) /\ t = After(text, n + 1) /\ l = LineStart(text, n)
    OBVIOUS
  <2>3. /\ Linear(s) /\ Linear(t)
        /\ ~NewLine(text[n + 1]) => t = s
        /\ NewLine(text[n + 1]) => Same(t, LineRead(s, text, l))
    BY <1>0, <2>1, <2>2, AfterStep
  <2>4. LineStart(text, n + 1) = IF NewLine(text[n + 1]) THEN n + 1 ELSE l
    BY <2>1, <2>2, LineStartStep
  <2>5. l \in 0..n
    BY <2>2, LineStartIs
  <2>6. Sane(s, l)
    BY <1>2, <2>1, <2>2
  <2>7. CASE ~NewLine(text[n + 1])
    BY <2>2, <2>3, <2>4, <2>6, <2>7
  <2>8. CASE NewLine(text[n + 1])
    <3>1. l \in Nat /\ l < n + 1
      BY <2>5
    <3>2. l # 0 \/ text[l + 1].op # "input"
      <4>1. text # <<>> /\ 0 + 1 = 1
        BY <1>2
      <4> QED
        BY <4>1 DEF Versioned, OpAt
    <3>3. Sane(LineRead(s, text, l), n + 1)
      BY <2>1, <2>3, <2>6, <3>1, <3>2, SaneRead
    <3>4. Sane(t, n + 1)
      BY <2>3, <2>8, <3>3 DEF Same, Sane
    <3> QED
      BY <2>2, <2>4, <2>8, <3>4
  <2> QED
    BY <2>7, <2>8
<1>3. \A n \in Nat : n \in S
  <2>1. \A n \in Nat : n \in S => n + 1 \in S
    BY <1>2
  <2> HIDE DEF S
  <2> QED
    BY <1>1, <2>1, Upward
<1> QED
  BY <1>0, <1>3

-----------------------------------------------------------------------------
(* Marks before an offset *)

LEMMA BeforeIs ==
  ASSUME NEW marks \in Seq(Int), NEW m \in Nat
  PROVE  /\ Before(marks, m) \in 0..Len(marks)
         /\ Before(marks, m) # 0 => Abs(marks[Before(marks, m)]) < m
         /\ \A i \in 1..Len(marks) : Abs(marks[i]) < m => i <= Before(marks, m)
<1> DEFINE S == {0} \cup {i \in DOMAIN marks : Abs(marks[i]) < m}
<1>1. Len(marks) \in Nat /\ DOMAIN marks = 1..Len(marks)
  OBVIOUS
<1>2. S \subseteq Int /\ S # {} /\ \A x \in S : x <= Len(marks)
  BY <1>1
<1>3. Max(S) \in S /\ \A x \in S : x <= Max(S)
  <2>1. Len(marks) \in Int
    BY <1>1
  <2> HIDE DEF S
  <2> QED
    BY <1>2, <2>1, MaxIn, Zenon
<1>4. Before(marks, m) = Max(S)
  BY DEF Before
<1> QED
  BY <1>1, <1>3, <1>4

LEMMA BeforeOnly ==
  ASSUME NEW marks \in Seq(Int), NEW m \in Nat, NEW k \in 0..Len(marks),
         k # 0 => Abs(marks[k]) < m, \A i \in 1..Len(marks) : Abs(marks[i]) < m => i <= k
  PROVE  Before(marks, m) = k
<1>1. PICK b : b = Before(marks, m)
  OBVIOUS
<1>2. /\ b \in 0..Len(marks) /\ (b # 0 => Abs(marks[b]) < m)
      /\ \A i \in 1..Len(marks) : Abs(marks[i]) < m => i <= b
  BY <1>1, BeforeIs
<1>3. Len(marks) \in Nat
  OBVIOUS
<1>4. b <= k
  BY <1>2, <1>3
<1>5. k <= b
  BY <1>2, <1>3
<1> QED
  BY <1>1, <1>2, <1>3, <1>4, <1>5

(* Marks that are all before it, or one more that is not *)
LEMMA BeforeAll ==
  ASSUME NEW marks \in Seq(Int), NEW m \in Nat, \A i \in 1..Len(marks) : Abs(marks[i]) < m
  PROVE  Before(marks, m) = Len(marks)
<1>1. Len(marks) \in Nat /\ Len(marks) \in 0..Len(marks)
  OBVIOUS
<1>2. PICK n \in 0..Len(marks) : n = Len(marks)
  BY <1>1
<1>3. (n # 0 => Abs(marks[n]) < m) /\ \A i \in 1..Len(marks) : Abs(marks[i]) < m => i <= n
  BY <1>1, <1>2
<1>4. Before(marks, m) = n
  BY <1>3, BeforeOnly
<1> QED
  BY <1>2, <1>4

LEMMA BeforeAppend ==
  ASSUME NEW marks \in Seq(Int), NEW m \in Nat, NEW o \in Nat, m <= o
  PROVE  Before(Append(marks, o), m) = Before(marks, m)
<1>1. PICK k, p : k = Before(marks, m) /\ p = Append(marks, o)
  OBVIOUS
<1>2. Len(marks) \in Nat
  OBVIOUS
<1>3. /\ k \in 0..Len(marks) /\ (k # 0 => Abs(marks[k]) < m)
      /\ \A i \in 1..Len(marks) : Abs(marks[i]) < m => i <= k
  BY <1>1, BeforeIs
<1>4. /\ p \in Seq(Int) /\ Len(p) = Len(marks) + 1 /\ p[Len(marks) + 1] = o
      /\ \A i \in 1..Len(marks) : p[i] = marks[i]
  BY <1>1, AppendProperties
<1>5. ~(Abs(o) < m)
  BY DEF Abs
<1>6. ASSUME NEW i \in 1..Len(p), Abs(p[i]) < m
      PROVE  i <= k
  <2>1. i # Len(marks) + 1
    BY <1>4, <1>5, <1>6
  <2>2. i \in 1..Len(marks)
    BY <1>2, <1>4, <2>1
  <2> QED
    BY <1>3, <1>4, <1>6, <2>2
<1>7. k \in 0..Len(p) /\ (k # 0 => Abs(p[k]) < m)
  BY <1>2, <1>3, <1>4
<1> QED
  BY <1>1, <1>4, <1>6, <1>7, BeforeOnly

(* The same marks, opened or closed *)
LEMMA BeforeAbs ==
  ASSUME NEW marks \in Seq(Int), NEW others \in Seq(Int), Len(marks) = Len(others), NEW m \in Nat,
         \A i \in 1..Len(marks) : Abs(marks[i]) = Abs(others[i])
  PROVE  Before(marks, m) = Before(others, m)
<1>1. PICK k : k = Before(others, m)
  OBVIOUS
<1>2. /\ k \in 0..Len(others) /\ (k # 0 => Abs(others[k]) < m)
      /\ \A i \in 1..Len(others) : Abs(others[i]) < m => i <= k
  BY <1>1, BeforeIs
<1>3. Len(marks) \in Nat
  OBVIOUS
<1>4. k \in 0..Len(marks) /\ (k # 0 => Abs(marks[k]) < m)
      /\ \A i \in 1..Len(marks) : Abs(marks[i]) < m => i <= k
  BY <1>2, <1>3
<1> QED
  BY <1>1, <1>4, BeforeOnly

(* The offsets of the lines that close an input *)
Offs(closes) == [i \in DOMAIN closes |-> closes[i].off]

LEMMA OffsIs ==
  ASSUME NEW closes \in Seq(CloseType)
  PROVE  /\ Offs(closes) \in Seq(Int) /\ Len(Offs(closes)) = Len(closes)
         /\ \A i \in 1..Len(closes) : Offs(closes)[i] = closes[i].off /\ closes[i].off \in Nat
         /\ \A m : ClosesBefore(closes, m) = Before(Offs(closes), m)
<1>1. DOMAIN closes = 1..Len(closes) /\ Len(closes) \in Nat
  OBVIOUS
<1>2. \A i \in 1..Len(closes) : closes[i].off \in Nat
  <2>1. \A i \in 1..Len(closes) : closes[i] \in CloseType
    OBVIOUS
  <2> QED
    BY <2>1 DEF CloseType
<1>3. Offs(closes) = [i \in 1..Len(closes) |-> closes[i].off]
  BY <1>1 DEF Offs
<1>4. [i \in 1..Len(closes) |-> closes[i].off] \in Seq(Int)
  BY <1>1, <1>2
<1>5. Len([i \in 1..Len(closes) |-> closes[i].off]) = Len(closes)
  BY <1>1
<1>6. \A m : ClosesBefore(closes, m) = Before(Offs(closes), m)
  BY DEF ClosesBefore, Offs
<1> QED
  BY <1>2, <1>3, <1>4, <1>5, <1>6

-----------------------------------------------------------------------------
(* An index that is cut *)

(* The inputs that are opened again *)
Opened(s, m) ==
  {s.closes[i].input : i \in ClosesBefore(s.closes, m) + 1..Len(s.closes)} \cap 1..Before(s.inputs, m)

CutInputs(s, m) ==
  [i \in 1..Before(s.inputs, m) |-> IF i \in Opened(s, m) THEN -s.inputs[i] ELSE s.inputs[i]]

LEMMA BeginningOf ==
  ASSUME NEW T, NEW s \in Seq(T), NEW n \in 0..Len(s)
  PROVE  /\ SubSeq(s, 1, n) \in Seq(T) /\ Len(SubSeq(s, 1, n)) = n
         /\ \A i \in 1..n : SubSeq(s, 1, n)[i] = s[i]
<1>1. Len(s) \in Nat /\ \A i \in 1..n : s[i] \in T
  OBVIOUS
<1>2. n \in Nat /\ 1 \in Int /\ n \in Int
  BY <1>1
<1>3. CASE n = 0
  <2>1. SubSeq(s, 1, 0) = <<>>
    BY SubSeqEmpty
  <2> QED
    BY <1>3, <2>1
<1>4. CASE n # 0
  BY <1>1, <1>2, <1>4, SubSeqProperties
<1> QED
  BY <1>3, <1>4

LEMMA WholeOf ==
  ASSUME NEW T, NEW s \in Seq(T)
  PROVE  SubSeq(s, 1, Len(s)) = s
<1>1. Len(s) \in 0..Len(s) /\ Len(s) \in Nat
  OBVIOUS
<1>2. PICK t : t = SubSeq(s, 1, Len(s))
  OBVIOUS
<1>3. t \in Seq(T) /\ Len(t) = Len(s) /\ \A i \in 1..Len(s) : t[i] = s[i]
  BY <1>1, <1>2, BeginningOf
<1>4. t = s
  BY <1>3, SeqEqual
<1> QED
  BY <1>2, <1>4

LEMMA LinearMarks ==
  ASSUME NEW s, Linear(s), NEW m \in Nat
  PROVE  /\ s.pages \in Seq(Nat) /\ s.pages \in Seq(Int) /\ s.inputs \in Seq(Int)
         /\ s.closes \in Seq(CloseType)
         /\ Before(s.pages, m) \in 0..Len(s.pages)
         /\ Before(s.inputs, m) \in 0..Len(s.inputs)
         /\ ClosesBefore(s.closes, m) \in 0..Len(s.closes)
<1>1. s.pages \in Seq(Nat) /\ s.inputs \in Seq(Int) /\ s.closes \in Seq(CloseType)
  BY DEF Linear
<1>2. s.pages \in Seq(Int)
  <2>1. \A p \in Seq(Nat) : p \in Seq(Int)
    OBVIOUS
  <2> QED
    BY <1>1, <2>1
<1>3. Before(s.pages, m) \in 0..Len(s.pages) /\ Before(s.inputs, m) \in 0..Len(s.inputs)
  BY <1>1, <1>2, BeforeIs
<1>4. PICK o : o = Offs(s.closes)
  OBVIOUS
<1>5. o \in Seq(Int) /\ Len(o) = Len(s.closes) /\ ClosesBefore(s.closes, m) = Before(o, m)
  BY <1>1, <1>4, OffsIs
<1>6. Before(o, m) \in 0..Len(o)
  BY <1>5, BeforeIs
<1> QED
  BY <1>1, <1>2, <1>3, <1>5, <1>6

LEMMA CutIs ==
  ASSUME NEW s, Linear(s), NEW b, Sane(s, b), NEW m \in Nat
  PROVE  /\ Linear(LinesCut(s, m))
         /\ LinesCut(s, m).bol = s.bol /\ LinesCut(s, m).bad = s.bad
         /\ LinesCut(s, m).cur = IF s.cur <= m THEN s.cur ELSE m
         /\ LinesCut(s, m).pages = SubSeq(s.pages, 1, Before(s.pages, m))
         /\ LinesCut(s, m).closes = SubSeq(s.closes, 1, ClosesBefore(s.closes, m))
         /\ LinesCut(s, m).inputs = CutInputs(s, m)
<1>1. /\ s.pages \in Seq(Nat) /\ s.inputs \in Seq(Int) /\ s.closes \in Seq(CloseType)
      /\ Before(s.pages, m) \in 0..Len(s.pages)
      /\ Before(s.inputs, m) \in 0..Len(s.inputs)
      /\ ClosesBefore(s.closes, m) \in 0..Len(s.closes)
  BY LinearMarks
<1>2. PICK k : k = Before(s.inputs, m) /\ k \in 0..Len(s.inputs)
  BY <1>1
<1>3. PICK inputs : inputs = Below(s.inputs, m)
  OBVIOUS
<1>4. inputs \in Seq(Int) /\ Len(inputs) = k /\ \A i \in 1..k : inputs[i] = s.inputs[i]
  BY <1>1, <1>2, <1>3, BeginningOf DEF Below
<1>5. DOMAIN inputs = 1..k
  BY <1>4
<1>6. PICK opened : opened = Opened(s, m)
  OBVIOUS
<1>7. opened = {s.closes[i].input : i \in ClosesBefore(s.closes, m) + 1..Len(s.closes)} \cap DOMAIN inputs
  BY <1>2, <1>5, <1>6 DEF Opened
<1>8. \A i \in opened : IsClosed(inputs, i)
  <2> SUFFICES ASSUME NEW j \in opened
               PROVE  inputs[j] < 0
    BY DEF IsClosed
  <2>1. PICK i \in ClosesBefore(s.closes, m) + 1..Len(s.closes) : j = s.closes[i].input
    BY <1>7
  <2>2. i \in 1..Len(s.closes) /\ j \in 1..k
    BY <1>1, <1>5, <1>7, <2>1
  <2> QED
    BY <1>4, <2>1, <2>2 DEF Sane
<1>9. PICK q : q = [i \in 1..k |-> IF i \in opened THEN -s.inputs[i] ELSE s.inputs[i]]
  OBVIOUS
<1>10. q \in Seq(Int) /\ q = CutInputs(s, m)
  <2>1. k \in Nat
    BY <1>1, <1>2
  <2>2. ASSUME NEW i \in 1..k
        PROVE  (IF i \in opened THEN -s.inputs[i] ELSE s.inputs[i]) \in Int
    <3>1. s.inputs[i] \in Int
      BY <1>1, <1>2
    <3> QED
      BY <3>1
  <2> QED
    BY <1>2, <1>6, <1>9, <2>1, <2>2 DEF CutInputs
<1>11. q = [i \in DOMAIN inputs |-> IF i \in opened THEN -inputs[i] ELSE inputs[i]]
  <2>1. \A i \in 1..k : inputs[i] = s.inputs[i]
    BY <1>4
  <2> QED
    BY <1>5, <1>9, <2>1
<1>12. PICK p, c, cur : /\ p = SubSeq(s.pages, 1, Before(s.pages, m))
                        /\ c = SubSeq(s.closes, 1, ClosesBefore(s.closes, m))
                        /\ cur = Min({s.cur, m})
  OBVIOUS
<1>13. p \in Seq(Nat) /\ c \in Seq(CloseType)
  BY <1>1, <1>12, BeginningOf
<1>14. cur \in Nat /\ cur = IF s.cur <= m THEN s.cur ELSE m
  <2>1. s.cur \in Nat
    BY DEF Linear, LinesTyped
  <2>2. \E x \in {s.cur, m} : \A y \in {s.cur, m} : x <= y
    BY <2>1
  <2>3. cur \in {s.cur, m} /\ \A y \in {s.cur, m} : cur <= y
    BY <1>12, <2>2 DEF Min
  <2> QED
    BY <2>1, <2>3
<1>15. DOMAIN s = {"bol", "cur", "pages", "inputs", "closes", "bad"} /\ s.bad \subseteq LineErrors
  BY DEF Linear, LinesTyped
<1>16. LinesCut(s, m) = [s EXCEPT !.pages = p, !.closes = c, !.cur = cur, !.inputs = q, !.bad = s.bad]
  BY <1>3, <1>7, <1>8, <1>11, <1>12 DEF LinesCut, Below
<1>17. PICK r : r = LinesCut(s, m)
  OBVIOUS
<1>18. /\ DOMAIN r = DOMAIN s /\ r.pages = p /\ r.closes = c /\ r.cur = cur /\ r.inputs = q
       /\ r.bad = s.bad /\ r.bol = s.bol
  BY <1>15, <1>16, <1>17
<1>19. Linear(r)
  BY <1>10, <1>13, <1>14, <1>15, <1>18 DEF Linear, LinesTyped
<1> QED
  BY <1>10, <1>12, <1>14, <1>17, <1>18, <1>19

(* The same indexes are cut to the same. *)
LEMMA CutSame ==
  ASSUME NEW s, Linear(s), NEW r, Linear(r), NEW b, Sane(s, b), Same(s, r), NEW m \in Nat
  PROVE  Same(LinesCut(s, m), LinesCut(r, m))
<1>1. Sane(r, b)
  BY SaneSame
<1>2. s.pages = r.pages /\ s.inputs = r.inputs /\ s.closes = r.closes /\ s.bad = r.bad
  BY DEF Same
<1>3. CutInputs(s, m) = CutInputs(r, m)
  BY <1>2 DEF CutInputs, Opened
<1>4. PICK t, u : t = LinesCut(s, m) /\ u = LinesCut(r, m)
  OBVIOUS
<1>5. /\ t.bad = s.bad /\ t.pages = SubSeq(s.pages, 1, Before(s.pages, m))
      /\ t.closes = SubSeq(s.closes, 1, ClosesBefore(s.closes, m)) /\ t.inputs = CutInputs(s, m)
  BY <1>4, CutIs
<1>6. /\ u.bad = r.bad /\ u.pages = SubSeq(r.pages, 1, Before(r.pages, m))
      /\ u.closes = SubSeq(r.closes, 1, ClosesBefore(r.closes, m)) /\ u.inputs = CutInputs(r, m)
  BY <1>1, <1>4, CutIs
<1> QED
  BY <1>2, <1>3, <1>4, <1>5, <1>6 DEF Same

(* Nothing is cut of an index before its end. *)
LEMMA CutAll ==
  ASSUME NEW s, Linear(s), NEW m \in Nat, Sane(s, m)
  PROVE  Same(LinesCut(s, m), s)
<1>1. /\ s.pages \in Seq(Nat) /\ s.pages \in Seq(Int) /\ s.inputs \in Seq(Int)
      /\ s.closes \in Seq(CloseType)
  BY LinearMarks
<1>2. Before(s.pages, m) = Len(s.pages)
  <2>1. \A i \in 1..Len(s.pages) : s.pages[i] \in Nat /\ s.pages[i] < m
    BY <1>1 DEF Sane
  <2>2. \A i \in 1..Len(s.pages) : Abs(s.pages[i]) < m
    BY <2>1 DEF Abs
  <2> QED
    BY <1>1, <2>2, BeforeAll
<1>3. Before(s.inputs, m) = Len(s.inputs)
  BY <1>1, BeforeAll DEF Sane
<1>4. ClosesBefore(s.closes, m) = Len(s.closes)
  <2>1. PICK o : o = Offs(s.closes)
    OBVIOUS
  <2>2. /\ o \in Seq(Int) /\ Len(o) = Len(s.closes) /\ ClosesBefore(s.closes, m) = Before(o, m)
        /\ \A i \in 1..Len(s.closes) : o[i] = s.closes[i].off /\ s.closes[i].off \in Nat
    BY <1>1, <2>1, OffsIs
  <2>3. \A i \in 1..Len(o) : Abs(o[i]) < m
    <3>1. \A i \in 1..Len(o) : o[i] \in Nat /\ o[i] < m
      BY <2>2 DEF Sane
    <3> QED
      BY <3>1 DEF Abs
  <2> QED
    BY <2>2, <2>3, BeforeAll
<1>5. Opened(s, m) = {}
  <2>1. Len(s.closes) \in Nat
    BY <1>1
  <2>2. Len(s.closes) + 1..Len(s.closes) = {}
    BY <2>1
  <2> QED
    BY <1>4, <2>2 DEF Opened
<1>6. CutInputs(s, m) = s.inputs
  <2>1. s.inputs = [i \in 1..Len(s.inputs) |-> s.inputs[i]]
    BY <1>1
  <2> QED
    BY <1>3, <1>5, <2>1 DEF CutInputs
<1>7. SubSeq(s.pages, 1, Len(s.pages)) = s.pages /\ SubSeq(s.closes, 1, Len(s.closes)) = s.closes
  BY <1>1, WholeOf
<1>8. PICK t : t = LinesCut(s, m)
  OBVIOUS
<1>9. /\ t.bad = s.bad /\ t.pages = SubSeq(s.pages, 1, Before(s.pages, m))
      /\ t.closes = SubSeq(s.closes, 1, ClosesBefore(s.closes, m)) /\ t.inputs = CutInputs(s, m)
  BY <1>8, CutIs
<1> QED
  BY <1>2, <1>4, <1>6, <1>7, <1>8, <1>9 DEF Same

LEMMA SubSeqAppend ==
  ASSUME NEW T, NEW s \in Seq(T), NEW x \in T, NEW n \in 0..Len(s)
  PROVE  SubSeq(Append(s, x), 1, n) = SubSeq(s, 1, n)
<1>1. PICK t : t = Append(s, x)
  OBVIOUS
<1>2. t \in Seq(T) /\ Len(t) = Len(s) + 1 /\ \A i \in 1..Len(s) : t[i] = s[i]
  BY <1>1, AppendProperties
<1>3. Len(s) \in Nat /\ n \in 0..Len(t)
  BY <1>2
<1>4. PICK u, v : u = SubSeq(t, 1, n) /\ v = SubSeq(s, 1, n)
  OBVIOUS
<1>5. u \in Seq(T) /\ Len(u) = n /\ \A i \in 1..n : u[i] = t[i]
  BY <1>2, <1>3, <1>4, BeginningOf
<1>6. v \in Seq(T) /\ Len(v) = n /\ \A i \in 1..n : v[i] = s[i]
  BY <1>4, BeginningOf
<1>7. \A i \in 1..n : u[i] = v[i]
  BY <1>2, <1>3, <1>5, <1>6, SMTT(40)
<1>8. u = v
  BY <1>5, <1>6, <1>7, SeqEqual
<1> QED
  BY <1>1, <1>4, <1>8

(* A cut forgets a line that begins after it. *)
LEMMA CutForgets ==
  ASSUME NEW s, Linear(s), NEW mem, NEW bol \in Nat, Sane(s, bol),
         bol # 0 \/ mem[bol + 1].op # "input", LineRead(s, mem, bol).bad = {},
         NEW m \in Nat, m <= bol
  PROVE  Same(LinesCut(LineRead(s, mem, bol), m), LinesCut(s, m))
<1>1. PICK b, t : b = mem[bol + 1] /\ t = LineRead(s, mem, bol)
  OBVIOUS
<1>2. Linear(t) /\ s.bad \subseteq t.bad /\ t.bad = {}
  BY <1>1, LineReadLinear
<1>3. Sane(t, bol + 1)
  <2>1. bol + 1 \in Nat /\ bol < bol + 1
    OBVIOUS
  <2> QED
    BY <1>1, <2>1, SaneRead
<1>4. PICK u, v : u = LinesCut(t, m) /\ v = LinesCut(s, m)
  OBVIOUS
<1>5. /\ u.bad = t.bad /\ u.pages = SubSeq(t.pages, 1, Before(t.pages, m))
      /\ u.closes = SubSeq(t.closes, 1, ClosesBefore(t.closes, m)) /\ u.inputs = CutInputs(t, m)
  BY <1>2, <1>3, <1>4, CutIs
<1>6. /\ v.bad = s.bad /\ v.pages = SubSeq(s.pages, 1, Before(s.pages, m))
      /\ v.closes = SubSeq(s.closes, 1, ClosesBefore(s.closes, m)) /\ v.inputs = CutInputs(s, m)
  BY <1>4, CutIs
<1>7. /\ s.pages \in Seq(Nat) /\ s.pages \in Seq(Int) /\ s.inputs \in Seq(Int)
      /\ s.closes \in Seq(CloseType)
      /\ Before(s.pages, m) \in 0..Len(s.pages)
      /\ Before(s.inputs, m) \in 0..Len(s.inputs)
      /\ ClosesBefore(s.closes, m) \in 0..Len(s.closes)
  BY LinearMarks
<1>8. s.bad = t.bad
  BY <1>2
<1>9. CASE b.op \in {"{", "}"}
  <2>1. /\ PageLine(b, s) => /\ t.pages = Append(s.pages, bol) /\ t.inputs = s.inputs
                             /\ t.closes = s.closes /\ t.bad = s.bad
        /\ ~PageLine(b, s) => Refused(s, t, "page")
    <3>1. mem[bol + 1].op \in {"{", "}"}
      BY <1>1, <1>9
    <3>2. /\ Linear(LineRead(s, mem, bol))
          /\ LineRead(s, mem, bol).bol = s.bol /\ LineRead(s, mem, bol).cur = s.cur
          /\ PageLine(mem[bol + 1], s) =>
               /\ LineRead(s, mem, bol).pages = Append(s.pages, bol)
               /\ LineRead(s, mem, bol).inputs = s.inputs
               /\ LineRead(s, mem, bol).closes = s.closes /\ LineRead(s, mem, bol).bad = s.bad
          /\ ~PageLine(mem[bol + 1], s) => Refused(s, LineRead(s, mem, bol), "page")
      BY <3>1, LineReadPage
    <3> QED
      BY <1>1, <3>2
  <2>2. t.pages = Append(s.pages, bol) /\ t.inputs = s.inputs /\ t.closes = s.closes
    <3>1. "page" \notin t.bad
      BY <1>2
    <3> QED
      BY <2>1, <3>1 DEF Refused
  <2>3. Before(Append(s.pages, bol), m) = Before(s.pages, m)
    BY <1>7, BeforeAppend
  <2>4. SubSeq(Append(s.pages, bol), 1, Before(s.pages, m)) = SubSeq(s.pages, 1, Before(s.pages, m))
    BY <1>7, SubSeqAppend
  <2>5. u.pages = v.pages
    BY <1>5, <1>6, <2>2, <2>3, <2>4
  <2>6. u.inputs = v.inputs /\ u.closes = v.closes
    BY <1>5, <1>6, <2>2 DEF CutInputs, Opened
  <2> QED
    BY <1>1, <1>4, <1>5, <1>6, <1>8, <2>5, <2>6 DEF Same
<1>10. CASE b.op = "input"
  <2>1. /\ InputLine(b, s) => /\ t.inputs = Append(s.inputs, bol) /\ t.pages = s.pages
                              /\ t.closes = s.closes /\ t.bad = s.bad
        /\ ~InputLine(b, s) => Refused(s, t, "input")
    BY <1>1, <1>10, LineReadInput
  <2>2. t.inputs = Append(s.inputs, bol) /\ t.pages = s.pages /\ t.closes = s.closes
    <3>1. "input" \notin t.bad
      BY <1>2
    <3> QED
      BY <2>1, <3>1 DEF Refused
  <2>3. Before(t.inputs, m) = Before(s.inputs, m)
    BY <1>7, <2>2, BeforeAppend
  <2>4. Opened(t, m) = Opened(s, m)
    BY <2>2, <2>3 DEF Opened
  <2>5. CutInputs(t, m) = CutInputs(s, m)
    <3>1. PICK p : p = Append(s.inputs, bol)
      OBVIOUS
    <3>2. \A i \in 1..Len(s.inputs) : p[i] = s.inputs[i]
      BY <1>7, <3>1, AppendProperties
    <3>3. \A i \in 1..Before(s.inputs, m) : i \in 1..Len(s.inputs)
      BY <1>7
    <3>4. \A i \in 1..Before(s.inputs, m) : t.inputs[i] = s.inputs[i]
      BY <2>2, <3>1, <3>2, <3>3
    <3> QED
      BY <2>3, <2>4, <3>4 DEF CutInputs
  <2>6. u.pages = v.pages /\ u.inputs = v.inputs /\ u.closes = v.closes
    BY <1>5, <1>6, <2>2, <2>5
  <2> QED
    BY <1>1, <1>4, <1>5, <1>6, <1>8, <2>6 DEF Same
<1>11. CASE b.op = "/"
  <2>1. /\ CloseLine(b, s) => /\ t.inputs = Closing(s.inputs, b.tag) /\ t.pages = s.pages
                              /\ t.closes = Append(s.closes, [off |-> bol, input |-> b.tag])
                              /\ t.bad = s.bad
        /\ ~CloseLine(b, s) => Refused(s, t, "close")
    BY <1>1, <1>11, LineReadClose
  <2>2. CloseLine(b, s) /\ t.inputs = Closing(s.inputs, b.tag) /\ t.pages = s.pages
        /\ t.closes = Append(s.closes, [off |-> bol, input |-> b.tag])
    <3>1. "close" \notin t.bad
      BY <1>2
    <3> QED
      BY <2>1, <3>1 DEF Refused
  <2>3. PICK tag \in 1..Len(s.inputs) : tag = b.tag /\ ~(s.inputs[tag] < 0)
    BY <1>7, <2>2 DEF CloseLine, IsClosed
  <2>4. PICK p : p = [s.inputs EXCEPT ![tag] = -s.inputs[tag]] /\ p = t.inputs
    BY <2>2, <2>3 DEF Closing
  <2>5. p \in Seq(Int) /\ Len(p) = Len(s.inputs) /\ p[tag] = -s.inputs[tag]
        /\ s.inputs[tag] \in Int
        /\ \A i \in 1..Len(s.inputs) : i # tag => p[i] = s.inputs[i]
    BY <1>7, <2>3, <2>4, NegatedAt, SMTT(40)
  <2>6. \A i \in 1..Len(p) : Abs(p[i]) = Abs(s.inputs[i])
    <3>1. Abs(-s.inputs[tag]) = Abs(s.inputs[tag])
      BY <2>5 DEF Abs
    <3> QED
      BY <2>5, <3>1
  <2>7. Before(p, m) = Before(s.inputs, m)
    BY <1>7, <2>5, <2>6, BeforeAbs
  <2>8. PICK close, q : close = [off |-> bol, input |-> tag]
                        /\ q = Append(s.closes, close) /\ q = t.closes
    BY <2>2, <2>3
  <2>9. close \in CloseType
    BY <2>3, <2>8 DEF CloseType
  <2>10. /\ Len(Append(s.closes, close)) = Len(s.closes) + 1
         /\ Append(s.closes, close)[Len(s.closes) + 1] = close
         /\ \A i \in 1..Len(s.closes) : Append(s.closes, close)[i] = s.closes[i]
         /\ Append(s.closes, close) \in Seq(CloseType)
    BY <1>7, <2>9, CloseAdded
  <2>11. /\ q \in Seq(CloseType) /\ Len(q) = Len(s.closes) + 1 /\ q[Len(s.closes) + 1] = close
         /\ \A i \in 1..Len(s.closes) : q[i] = s.closes[i]
    BY <2>8, <2>10
  <2>12. PICK k \in 0..Len(s.closes) : k = ClosesBefore(s.closes, m)
    BY <1>7
  <2>13. ClosesBefore(q, m) = k
    <3>1. PICK o, r : o = Offs(s.closes) /\ r = Offs(q)
      OBVIOUS
    <3>2. /\ o \in Seq(Int) /\ Len(o) = Len(s.closes) /\ k = Before(o, m)
          /\ \A i \in 1..Len(s.closes) : o[i] = s.closes[i].off
      BY <1>7, <2>12, <3>1, OffsIs
    <3>3. /\ r \in Seq(Int) /\ Len(r) = Len(q) /\ ClosesBefore(q, m) = Before(r, m)
          /\ \A i \in 1..Len(q) : r[i] = q[i].off
      BY <2>11, <3>1, OffsIs
    <3>4. PICK a : a = Append(o, bol)
      OBVIOUS
    <3>5. /\ a \in Seq(Int) /\ Len(a) = Len(o) + 1 /\ a[Len(o) + 1] = bol
          /\ \A i \in 1..Len(o) : a[i] = o[i]
      BY <3>2, <3>4, AppendProperties
    <3>6. Len(s.closes) \in Nat
      BY <1>7
    <3>7. \A i \in 1..Len(r) : r[i] = a[i]
      <4>1. ASSUME NEW i \in 1..Len(r)
            PROVE  r[i] = a[i]
        <5>1. CASE i = Len(s.closes) + 1
          <6>1. close.off = bol /\ q[i] = close /\ a[i] = bol
            BY <2>8, <2>11, <3>2, <3>5, <5>1
          <6> QED
            BY <3>3, <6>1
        <5>2. CASE i # Len(s.closes) + 1
          <6>1. i \in 1..Len(s.closes)
            BY <2>11, <3>3, <3>6, <5>2
          <6> QED
            BY <2>11, <3>2, <3>3, <3>5, <6>1
        <5> QED
          BY <5>1, <5>2
      <4> QED
        BY <4>1
    <3>8. r = a
      <4>1. Len(r) = Len(a)
        BY <2>11, <3>2, <3>3, <3>5
      <4> QED
        BY <3>3, <3>5, <3>7, <4>1, SeqEqual
    <3>9. Before(Append(o, bol), m) = Before(o, m)
      BY <3>2, BeforeAppend
    <3> QED
      BY <3>2, <3>3, <3>4, <3>8, <3>9
  <2>14. u.closes = v.closes
    <3>1. SubSeq(Append(s.closes, close), 1, k) = SubSeq(s.closes, 1, k)
      BY <1>7, <2>9, <2>12, SubSeqAppend
    <3> QED
      BY <1>5, <1>6, <2>8, <2>12, <2>13, <3>1
  <2>15. PICK n \in 0..Len(s.inputs) : n = Before(s.inputs, m)
    BY <1>7
  <2>16. Opened(t, m) = Opened(s, m) \cup ({tag} \cap 1..n)
    <3>1. Len(s.closes) \in Nat /\ k + 1..Len(q) = k + 1..Len(s.closes) \cup {Len(s.closes) + 1}
      <4>1. PICK c \in Nat : c = Len(s.closes) /\ k \in 0..c
        BY <1>7, <2>12
      <4>2. k + 1..c + 1 = k + 1..c \cup {c + 1}
        BY <4>1
      <4> QED
        BY <2>11, <4>1, <4>2
    <3>2. \A i \in k + 1..Len(s.closes) : i \in 1..Len(s.closes)
      BY <2>12, <3>1
    <3>3. {q[i].input : i \in k + 1..Len(q)} = {s.closes[i].input : i \in k + 1..Len(s.closes)} \cup {tag}
      <4>1. q[Len(s.closes) + 1].input = tag
        BY <2>8, <2>11
      <4>2. \A i \in k + 1..Len(s.closes) : q[i].input = s.closes[i].input
        BY <2>11, <3>2
      <4> QED
        <5>1. {q[i].input : i \in k + 1..Len(s.closes)} = {s.closes[i].input : i \in k + 1..Len(s.closes)}
          BY <4>2
        <5>2. PICK R, last : R = k + 1..Len(s.closes) /\ last = Len(s.closes) + 1
          OBVIOUS
        <5>3. {q[i].input : i \in R \cup {last}} = {q[i].input : i \in R} \cup {q[last].input}
          OBVIOUS
        <5> QED
          BY <3>1, <4>1, <5>1, <5>2, <5>3
    <3>4. Opened(t, m) = {q[i].input : i \in k + 1..Len(q)} \cap 1..n
      BY <2>4, <2>7, <2>8, <2>13, <2>15 DEF Opened
    <3>5. Opened(s, m) = {s.closes[i].input : i \in k + 1..Len(s.closes)} \cap 1..n
      BY <2>12, <2>15 DEF Opened
    <3> QED
      BY <3>3, <3>4, <3>5
  <2>17. tag \notin Opened(s, m)
    <3> SUFFICES ASSUME tag \in Opened(s, m) PROVE FALSE
      OBVIOUS
    <3>1. PICK i \in k + 1..Len(s.closes) : tag = s.closes[i].input
      BY <2>12 DEF Opened
    <3>2. i \in 1..Len(s.closes)
      BY <1>7, <2>12
    <3>3. s.inputs[s.closes[i].input] < 0
      BY <3>2 DEF Sane
    <3> QED
      BY <2>3, <3>1, <3>3
  <2>18. ASSUME NEW i \in 1..n
         PROVE  (IF i \in Opened(t, m) THEN -t.inputs[i] ELSE t.inputs[i])
                = (IF i \in Opened(s, m) THEN -s.inputs[i] ELSE s.inputs[i])
    <3>1. i \in 1..Len(s.inputs)
      BY <1>7, <2>15
    <3>2. CASE i = tag
      <4>1. i \in Opened(t, m) /\ i \notin Opened(s, m)
        BY <2>16, <2>17, <3>2
      <4>2. t.inputs[i] = -s.inputs[i] /\ s.inputs[i] \in Int
        BY <2>4, <2>5, <3>2
      <4>3. -(-s.inputs[i]) = s.inputs[i]
        BY <4>2
      <4> QED
        BY <4>1, <4>2, <4>3
    <3>3. CASE i # tag
      <4>1. i \in Opened(t, m) <=> i \in Opened(s, m)
        BY <2>16, <3>3
      <4>2. t.inputs[i] = s.inputs[i]
        BY <2>4, <2>5, <3>1, <3>3
      <4> QED
        BY <4>1, <4>2
    <3> QED
      BY <3>2, <3>3
  <2>19. CutInputs(t, m) = CutInputs(s, m)
    <3>1. Before(t.inputs, m) = n
      BY <2>4, <2>7, <2>15
    <3> QED
      BY <2>15, <2>18, <3>1 DEF CutInputs
  <2>20. u.pages = v.pages /\ u.inputs = v.inputs
    BY <1>5, <1>6, <2>2, <2>19
  <2> QED
    BY <1>1, <1>4, <1>5, <1>6, <1>8, <2>14, <2>20 DEF Same
<1>12. CASE b.op \notin MarkOps
  <2>1. t = s
    BY <1>1, <1>12, LineReadOther
  <2> QED
    BY <1>1, <2>1 DEF Same
<1> QED
  BY <1>9, <1>10, <1>11, <1>12 DEF MarkOps

-----------------------------------------------------------------------------
(* An index near that of the first bytes of a text: a line that was cut in    *)
(* its middle may still be in it.                                             *)
Boundary(text, n) == n = 0 \/ NewLine(text[n])

NearAt(s, text, m) ==
  \E e \in m..Len(text) : (\A j \in m..e - 1 : ~Boundary(text, j)) /\ Same(s, After(text, e))

(* A text that the driver reads without stopping *)
Clean(text) == Versioned(text) /\ After(text, Len(text)).bad = {}

LEMMA NearSame ==
  ASSUME NEW s, NEW r, NEW text, NEW m, Same(s, r), NearAt(r, text, m)
  PROVE  NearAt(s, text, m)
BY DEF Same, NearAt

LEMMA NearBoundary ==
  ASSUME NEW s, NEW text, Len(text) \in Nat, NEW m \in 0..Len(text), NearAt(s, text, m),
         Boundary(text, m) \/ m = Len(text)
  PROVE  Same(s, After(text, m))
<1>1. PICK e \in m..Len(text) : (\A j \in m..e - 1 : ~Boundary(text, j)) /\ Same(s, After(text, e))
  BY DEF NearAt
<1>2. e = m
  <2> SUFFICES ASSUME e # m PROVE FALSE
    OBVIOUS
  <2>1. m \in m..e - 1 /\ m # Len(text)
    OBVIOUS
  <2> QED
    BY <1>1, <2>1
<1> QED
  BY <1>1, <1>2

LEMMA NearItself ==
  ASSUME NEW s, NEW text, Len(text) \in Nat, NEW m \in 0..Len(text), Same(s, After(text, m))
  PROVE  NearAt(s, text, m)
<1>1. m \in m..Len(text) /\ m..m - 1 = {}
  OBVIOUS
<1> QED
  BY <1>1 DEF NearAt

LEMMA AfterLinear ==
  ASSUME NEW text \in Seq(Bytes), Clean(text), NEW n \in 0..Len(text)
  PROVE  /\ Linear(After(text, n)) /\ After(text, n).bad = {}
         /\ LineStart(text, n) \in 0..n /\ Sane(After(text, n), LineStart(text, n))
<1>1. Len(text) \in Nat /\ n \in Nat
  OBVIOUS
<1>2. Linear(After(text, n))
  BY <1>1, AfterFollows DEF Follows
<1>3. After(text, n).bad = {}
  BY <1>1, AfterBad DEF Clean
<1>4. Sane(After(text, n), LineStart(text, n))
  BY SaneAfter DEF Clean
<1>5. LineStart(text, n) \in 0..n
  BY <1>1, LineStartIs
<1> QED
  BY <1>2, <1>3, <1>4, <1>5

LEMMA CutAfter ==
  ASSUME NEW text \in Seq(Bytes), Clean(text), NEW m \in 0..Len(text), NEW n \in m..Len(text)
  PROVE  NearAt(LinesCut(After(text, n), m), text, m)
<1>0. Len(text) \in Nat /\ m \in Nat
  OBVIOUS
<1> DEFINE S == {d \in Nat : m + d <= Len(text) => NearAt(LinesCut(After(text, m + d), m), text, m)}
<1>1. 0 \in S
  <2>1. PICK s, l : s = After(text, m) /\ l = LineStart(text, m)
    OBVIOUS
  <2>2. Linear(s) /\ l \in 0..m /\ Sane(s, l)
    BY <2>1, AfterLinear
  <2>3. l \in Nat /\ l <= m
    BY <2>2
  <2>4. Sane(s, m)
    BY <1>0, <2>2, <2>3, SaneLess
  <2>5. Same(LinesCut(s, m), s)
    BY <1>0, <2>2, <2>4, CutAll
  <2>6. NearAt(LinesCut(s, m), text, m)
    BY <1>0, <2>1, <2>5, NearItself
  <2>7. m + 0 = m
    BY <1>0
  <2> QED
    BY <2>1, <2>6, <2>7
<1>2. ASSUME NEW d \in Nat, d \in S, m + (d + 1) <= Len(text)
      PROVE  NearAt(LinesCut(After(text, m + (d + 1)), m), text, m)
  <2>1. PICK k : k = m + d /\ k + 1 = m + (d + 1) /\ k \in 0..Len(text) - 1 /\ m <= k
    BY <1>0, <1>2
  <2>2. k \in 0..Len(text) /\ k + 1 \in 0..Len(text) /\ k \in Nat /\ k <= Len(text)
        /\ k + 1 \in m..Len(text)
    BY <1>0, <2>1
  <2>3. PICK s, t, l : s = After(text, k) /\ t = After(text, k + 1) /\ l = LineStart(text, k)
    OBVIOUS
  <2>4. NearAt(LinesCut(s, m), text, m)
    BY <1>2, <2>1, <2>2, <2>3
  <2>5. Linear(s) /\ l \in 0..k /\ Sane(s, l)
    BY <2>2, <2>3, AfterLinear
  <2>6. Linear(t) /\ t.bad = {} /\ Sane(t, LineStart(text, k + 1))
    BY <2>2, <2>3, AfterLinear
  <2>7. /\ ~NewLine(text[k + 1]) => t = s
        /\ NewLine(text[k + 1]) => Same(t, LineRead(s, text, l))
    BY <1>0, <2>1, <2>3, AfterStep
  <2>8. CASE ~NewLine(text[k + 1])
    BY <2>1, <2>3, <2>4, <2>7, <2>8
  <2>9. CASE NewLine(text[k + 1])
    <3>1. PICK u : u = LineRead(s, text, l)
      OBVIOUS
    <3>2. l \in Nat
      BY <2>5
    <3>3. Linear(u) /\ Same(t, u) /\ u.bad = {}
      BY <2>5, <2>6, <2>7, <2>9, <3>1, <3>2, LineReadLinear DEF Same
    <3>4. l # 0 \/ text[l + 1].op # "input"
      <4>1. text # <<>> /\ 0 + 1 = 1
        BY <1>0, <2>1
      <4> QED
        BY <4>1 DEF Clean, Versioned, OpAt
    <3>5. CASE m <= l
      <4>1. Same(LinesCut(u, m), LinesCut(s, m))
        BY <1>0, <2>5, <3>1, <3>2, <3>3, <3>4, <3>5, CutForgets
      <4>2. Same(LinesCut(t, m), LinesCut(u, m))
        BY <1>0, <2>6, <3>3, CutSame
      <4>3. Same(LinesCut(t, m), LinesCut(s, m))
        BY <4>1, <4>2 DEF Same
      <4>4. NearAt(LinesCut(t, m), text, m)
        BY <2>4, <4>3, NearSame
      <4> QED
        BY <2>1, <2>3, <4>4
    <3>6. CASE l < m
      <4>1. Sane(u, m)
        BY <1>0, <2>5, <3>1, <3>2, <3>4, <3>6, SaneRead
      <4>2. Sane(t, m)
        BY <3>3, <4>1 DEF Same, Sane
      <4>3. Same(LinesCut(t, m), t)
        BY <1>0, <2>6, <4>2, CutAll
      <4>4. ASSUME NEW j \in m..k + 1 - 1
            PROVE  ~Boundary(text, j)
        <5>1. j \in 1..k /\ j # 0 /\ ~(j <= l)
          BY <1>0, <2>2, <2>5, <3>6
        <5>2. \A q \in 1..k : NewLine(text[q]) => q <= l
          BY <2>2, <2>3, LineStartIs
        <5> QED
          BY <5>1, <5>2 DEF Boundary
      <4>5. NearAt(LinesCut(t, m), text, m)
        BY <2>2, <2>3, <4>3, <4>4 DEF NearAt
      <4> QED
        BY <2>1, <2>3, <4>5
    <3>7. m <= l \/ l < m
      BY <1>0, <3>2
    <3> QED
      BY <3>5, <3>6, <3>7
  <2> QED
    BY <2>8, <2>9
<1>3. \A d \in Nat : d \in S
  <2>1. \A d \in Nat : d \in S => d + 1 \in S
    BY <1>2
  <2> HIDE DEF S
  <2> QED
    BY <1>1, <2>1, Upward
<1>4. n - m \in Nat /\ m + (n - m) = n /\ n <= Len(text)
  BY <1>0
<1>5. n - m \in S
  BY <1>3, <1>4
<1> QED
  BY <1>4, <1>5

(* A cut leaves the index near that of what is left. *)
LEMMA CutNear ==
  ASSUME NEW text \in Seq(Bytes), Clean(text), NEW s, Linear(s), NEW c \in 0..Len(text),
         NearAt(s, text, c), NEW m \in 0..c
  PROVE  /\ NearAt(LinesCut(s, m), text, m)
         /\ Linear(LinesCut(s, m)) /\ LinesCut(s, m).bol = s.bol /\ LinesCut(s, m).bad = {}
         /\ LinesCut(s, m).cur = IF s.cur <= m THEN s.cur ELSE m
<1>0. Len(text) \in Nat /\ m \in Nat /\ m \in 0..Len(text)
  OBVIOUS
<1>1. PICK e \in c..Len(text) : Same(s, After(text, e))
  BY DEF NearAt
<1>2. e \in 0..Len(text) /\ e \in m..Len(text)
  BY <1>0
<1>3. PICK r, l : r = After(text, e) /\ l = LineStart(text, e)
  OBVIOUS
<1>4. Linear(r) /\ r.bad = {} /\ Sane(r, l)
  BY <1>2, <1>3, AfterLinear
<1>5. Same(s, r) /\ Sane(s, l) /\ s.bad = {}
  BY <1>1, <1>3, <1>4 DEF Same, Sane
<1>6. Same(LinesCut(s, m), LinesCut(r, m))
  BY <1>0, <1>4, <1>5, CutSame
<1>7. NearAt(LinesCut(r, m), text, m)
  BY <1>0, <1>2, <1>3, CutAfter
<1>8. NearAt(LinesCut(s, m), text, m)
  BY <1>6, <1>7, NearSame
<1>9. /\ Linear(LinesCut(s, m)) /\ LinesCut(s, m).bol = s.bol /\ LinesCut(s, m).bad = s.bad
      /\ LinesCut(s, m).cur = IF s.cur <= m THEN s.cur ELSE m
  BY <1>0, <1>5, CutIs
<1> QED
  BY <1>5, <1>8, <1>9

(* A byte more is read. *)
LEMMA NearStep ==
  ASSUME NEW text \in Seq(Bytes), Clean(text), NEW mem, NEW o \in 1..Len(text),
         \A i \in 1..o : mem[i] = text[i], NEW t, Follows(t, mem, o - 1)
  PROVE  /\ t.bad # {} \/ NearAt(t, text, o - 1) =>
              ByteRead(t, mem, o).bad # {} \/ NearAt(ByteRead(t, mem, o), text, o)
         /\ Same(t, After(text, o - 1)) => Same(ByteRead(t, mem, o), After(text, o))
<1>0. /\ Len(text) \in Nat /\ o \in Nat /\ o > 0 /\ o - 1 \in 0..Len(text) - 1 /\ o - 1 + 1 = o
      /\ o - 1 \in Nat /\ o - 1 \in 0..Len(text) /\ o \in 0..Len(text)
  OBVIOUS
<1>1. PICK u, l : u = ByteRead(t, mem, o) /\ l = LineStart(mem, o - 1)
  OBVIOUS
<1>2. /\ Linear(t) /\ t.bad \subseteq u.bad
      /\ ~NewLine(mem[o]) => u = t
      /\ NewLine(mem[o]) => Same(u, LineRead(t, mem, l))
  BY <1>0, <1>1, ByteReadFollows DEF Follows
<1>3. l = LineStart(text, o - 1) /\ l \in 0..o - 1
  <2>1. \A i \in 1..o - 1 : mem[i] = text[i]
    BY <1>0
  <2> QED
    BY <1>0, <1>1, <2>1, LineStartSame, LineStartIs
<1>4. PICK a, b : a = After(text, o - 1) /\ b = After(text, o)
  OBVIOUS
<1>5. /\ Linear(a) /\ Linear(b)
      /\ ~NewLine(text[o]) => b = a
      /\ NewLine(text[o]) => Same(b, LineRead(a, text, l))
  <2>1. PICK n : n = o - 1 /\ n \in 0..Len(text) - 1 /\ n + 1 = o
    BY <1>0
  <2>2. /\ Linear(After(text, n)) /\ Linear(After(text, n + 1))
        /\ ~NewLine(text[n + 1]) => After(text, n + 1) = After(text, n)
        /\ NewLine(text[n + 1]) =>
             Same(After(text, n + 1), LineRead(After(text, n), text, LineStart(text, n)))
    BY <1>0, <2>1, AfterStep
  <2> QED
    BY <1>3, <1>4, <2>1, <2>2
<1>6. mem[o] = text[o] /\ l \in Nat /\ mem[l + 1] = text[l + 1]
  <2>1. l + 1 \in 1..o
    BY <1>0, <1>3
  <2> QED
    BY <1>0, <1>3, <2>1
<1>7. ASSUME Same(t, a)
      PROVE  Same(u, b)
  <2>1. CASE ~NewLine(mem[o])
    BY <1>2, <1>5, <1>6, <1>7, <2>1
  <2>2. CASE NewLine(mem[o])
    <3>1. Same(LineRead(t, mem, l), LineRead(a, text, l))
      BY <1>2, <1>5, <1>6, <1>7, LineReadSame
    <3> QED
      BY <1>2, <1>5, <1>6, <2>2, <3>1 DEF Same
  <2> QED
    BY <2>1, <2>2
<1>8. ASSUME NearAt(t, text, o - 1)
      PROVE  u.bad # {} \/ NearAt(u, text, o)
  <2>1. PICK e \in o - 1..Len(text) : /\ \A j \in o - 1..e - 1 : ~Boundary(text, j)
                                      /\ Same(t, After(text, e))
    BY <1>8 DEF NearAt
  <2>2. CASE e = o - 1
    <3>1. Same(u, b)
      BY <1>4, <1>7, <2>1, <2>2
    <3> QED
      BY <1>0, <1>4, <3>1, NearItself
  <2>3. CASE e # o - 1 /\ ~NewLine(mem[o])
    <3>1. e \in o..Len(text) /\ \A j \in o..e - 1 : j \in o - 1..e - 1
      BY <1>0, <2>3
    <3>2. u = t
      BY <1>2, <2>3
    <3> QED
      BY <2>1, <3>1, <3>2 DEF NearAt
  <2>4. CASE e # o - 1 /\ NewLine(mem[o])
    <3>1. e = o
      <4> SUFFICES ASSUME e # o PROVE FALSE
        OBVIOUS
      <4>1. o \in o - 1..e - 1
        BY <1>0, <2>4
      <4> QED
        BY <1>6, <2>1, <2>4, <4>1 DEF Boundary
    <3>2. Same(t, b)
      BY <1>4, <2>1, <3>1
    <3>3. Same(b, LineRead(a, text, l)) /\ Same(u, LineRead(t, mem, l))
      BY <1>2, <1>5, <1>6, <2>4
    <3>4. Same(t, LineRead(a, text, l))
      BY <3>2, <3>3 DEF Same
    <3>5. b.bad = {} /\ LineRead(a, text, l).bad = {}
      <4>1. b.bad = {}
        BY <1>0, <1>4, AfterLinear
      <4> QED
        BY <3>3, <4>1 DEF Same
    <3>6. l # 0 \/ mem[l + 1].op # "input"
      <4>1. text # <<>> /\ 0 + 1 = 1
        BY <1>0
      <4> QED
        BY <1>6, <4>1 DEF Clean, Versioned, OpAt
    <3>7. \A i \in 1..Len(a.inputs) : a.inputs[i] # 0
      BY <1>0, <1>4, AfterLinear DEF Sane
    <3>8. LineRead(t, mem, l).bad # {} \/ Same(LineRead(t, mem, l), t)
      BY <1>2, <1>5, <1>6, <3>4, <3>5, <3>6, <3>7, ReadTwice
    <3>9. u.bad # {} \/ Same(u, b)
      BY <3>2, <3>3, <3>8 DEF Same
    <3> QED
      BY <1>0, <1>4, <3>9, NearItself
  <2> QED
    BY <2>2, <2>3, <2>4
<1>9. t.bad # {} => u.bad # {}
  BY <1>2
<1> QED
  BY <1>1, <1>4, <1>7, <1>8, <1>9

(* The loop of the reading: the index stays near that of the bytes read, or   *)
(* a line stops the driver; and it stays that of the bytes read.              *)
LEMMA ReadNear ==
  ASSUME NEW text \in Seq(Bytes), Clean(text), NEW s, Linear(s), s.bol \in Nat,
         s.bol <= s.cur => s.bol = LineStart(text, s.cur), NearAt(s, text, s.cur),
         NEW buf, buf.len \in Nat, s.cur <= buf.len, buf.len <= Len(text),
         \A i \in 1..buf.len : buf.mem[i] = text[i]
  PROVE  /\ Linear(LinesRead(s, buf)) /\ LinesRead(s, buf).cur = buf.len
         /\ LinesRead(s, buf).bol = LineStart(text, buf.len)
         /\ LinesRead(s, buf).bad # {} \/ NearAt(LinesRead(s, buf), text, buf.len)
         /\ Same(s, After(text, s.cur)) => Same(LinesRead(s, buf), After(text, buf.len))
<1>1. PICK c \in Nat, to \in Nat : c = s.cur /\ to = buf.len /\ c <= to /\ to <= Len(text)
  BY DEF Linear, LinesTyped
<1>2. Len(text) \in Nat
  OBVIOUS
<1>3. PICK mem : mem = buf.mem /\ \A i \in 1..to : mem[i] = text[i]
  BY <1>1
<1>4. PICK g : Reading(s, mem, to, g) /\ LinesRead(s, buf) = [g[to] EXCEPT !.cur = to]
  <2>1. \E h : Reading(s, buf.mem, buf.len, h) /\ LinesRead(s, buf) = [h[buf.len] EXCEPT !.cur = buf.len]
    BY <1>1, LinesReadIs
  <2> QED
    BY <1>1, <1>3, <2>1
<1> DEFINE P(o) == /\ Follows(g[o], mem, o)
                   /\ g[o].bad # {} \/ NearAt(g[o], text, o)
                   /\ Same(s, After(text, c)) => Same(g[o], After(text, o))
<1> DEFINE S == {n \in Nat : c + n <= to => P(c + n)}
<1>5. 0 \in S
  <2>1. c \in c..to /\ c + 0 = c
    BY <1>1
  <2>2. g[c] = [s EXCEPT !.bol = Start(s, mem)]
    BY <1>1, <1>4, <2>1 DEF Reading
  <2>3. Start(s, mem) = LineStart(mem, c)
    <3>1. LineStart(mem, c) = LineStart(text, c)
      <4>1. \A i \in 1..c : mem[i] = text[i]
        BY <1>1, <1>3
      <4> QED
        BY <4>1, LineStartSame
    <3>2. CASE s.bol > c
      BY <1>1, <3>2 DEF Start
    <3>3. CASE ~(s.bol > c)
      <4>1. s.bol <= s.cur /\ c = s.cur
        BY <1>1, <3>3
      <4>2. s.bol = LineStart(text, c)
        BY <4>1
      <4> QED
        BY <1>1, <3>1, <3>3, <4>2 DEF Start
    <3> QED
      BY <3>2, <3>3
  <2>4. PICK t : t = g[c]
    OBVIOUS
  <2>5. DOMAIN s = {"bol", "cur", "pages", "inputs", "closes", "bad"}
    BY DEF Linear, LinesTyped
  <2>6. /\ DOMAIN t = DOMAIN s /\ t.bol = LineStart(mem, c) /\ t.cur = s.cur /\ t.pages = s.pages
        /\ t.inputs = s.inputs /\ t.closes = s.closes /\ t.bad = s.bad
    BY <2>2, <2>3, <2>4, <2>5
  <2>7. Linear(t) /\ Same(t, s)
    BY <2>6 DEF Linear, LinesTyped, Same
  <2>8. Follows(t, mem, c)
    BY <2>6, <2>7 DEF Follows
  <2>9. NearAt(t, text, c)
    BY <1>1, <2>7, NearSame
  <2>10. Same(s, After(text, c)) => Same(t, After(text, c))
    BY <2>7 DEF Same
  <2> QED
    BY <2>1, <2>4, <2>8, <2>9, <2>10
<1>6. ASSUME NEW n \in Nat, n \in S, c + (n + 1) <= to
      PROVE  P(c + (n + 1))
  <2>0. PICK o \in Nat : o = c + (n + 1)
    OBVIOUS
  <2>1. o = c + (n + 1) /\ o \in c..to /\ o # c /\ o - 1 = c + n /\ c + n <= to
        /\ o \in 1..Len(text) /\ o \in Nat /\ o > 0
    <3>1. PICK l \in Nat : l = Len(text)
      BY <1>2
    <3>2. o <= to /\ n \in Nat
      BY <1>6, <2>0
    <3>3. c \in Nat /\ to \in Nat /\ to <= l
      BY <1>1, <3>1
    <3>4. o \in c..to /\ o # c /\ o - 1 = c + n /\ c + n <= to /\ o > 0
      BY <2>0, <3>2, <3>3
    <3>5. o \in 1..l
      BY <2>0, <3>2, <3>3
    <3> QED
      BY <2>0, <3>1, <3>4, <3>5
  <2>2. g[o] = ByteRead(g[o - 1], mem, o)
    BY <1>1, <1>4, <2>1 DEF Reading
  <2>3. PICK t, k : t = g[o - 1] /\ k = o - 1
    OBVIOUS
  <2>4. P(k)
    BY <1>6, <2>1, <2>3
  <2>5. /\ Follows(t, mem, o - 1) /\ (t.bad # {} \/ NearAt(t, text, o - 1))
        /\ Same(s, After(text, c)) => Same(t, After(text, o - 1))
    BY <2>3, <2>4
  <2>6. \A i \in 1..o : mem[i] = text[i]
    BY <1>1, <1>3, <2>1
  <2>7. Follows(ByteRead(t, mem, o), mem, o)
    BY <2>1, <2>5, ByteReadFollows
  <2>8. /\ t.bad # {} \/ NearAt(t, text, o - 1) =>
             ByteRead(t, mem, o).bad # {} \/ NearAt(ByteRead(t, mem, o), text, o)
        /\ Same(t, After(text, o - 1)) => Same(ByteRead(t, mem, o), After(text, o))
    BY <2>1, <2>5, <2>6, NearStep
  <2>9. P(o)
    BY <2>2, <2>3, <2>5, <2>7, <2>8
  <2> QED
    BY <2>1, <2>9
<1>7. \A n \in Nat : n \in S
  <2>1. \A n \in Nat : n \in S => n + 1 \in S
    BY <1>6
  <2> HIDE DEF S
  <2> QED
    BY <1>5, <2>1, Upward
<1>8. P(to)
  <2>1. to - c \in Nat /\ c + (to - c) = to
    BY <1>1
  <2>2. to - c \in S
    BY <1>7, <2>1
  <2> QED
    BY <2>1, <2>2
<1>9. PICK t, r : t = g[to] /\ r = LinesRead(s, buf)
  OBVIOUS
<1>10. r = [t EXCEPT !.cur = to]
  BY <1>4, <1>9
<1>11. Linear(t) /\ t.bol = LineStart(mem, to)
  BY <1>8, <1>9 DEF Follows
<1>12. DOMAIN t = {"bol", "cur", "pages", "inputs", "closes", "bad"}
  BY <1>11 DEF Linear, LinesTyped
<1>13. /\ DOMAIN r = DOMAIN t /\ r.bol = t.bol /\ r.cur = to /\ r.pages = t.pages
       /\ r.inputs = t.inputs /\ r.closes = t.closes /\ r.bad = t.bad
  BY <1>10, <1>12
<1>14. Linear(r) /\ Same(r, t)
  BY <1>11, <1>13 DEF Linear, LinesTyped, Same
<1>15. LineStart(mem, to) = LineStart(text, to)
  BY <1>3, LineStartSame
<1>16. (t.bad # {} \/ NearAt(t, text, to)) /\ (Same(s, After(text, c)) => Same(t, After(text, to)))
  BY <1>8, <1>9
<1>17. r.bad # {} \/ NearAt(r, text, to)
  BY <1>13, <1>14, <1>16, NearSame
<1>18. Same(s, After(text, c)) => Same(r, After(text, to))
  BY <1>14, <1>16 DEF Same
<1> QED
  BY <1>1, <1>9, <1>11, <1>13, <1>14, <1>15, <1>17, <1>18

-----------------------------------------------------------------------------
(* The marks are those of the lines of the text *)

FoundBody(text, ops, g, n) ==
  IF n = 0 THEN <<>>
  ELSE IF NewLine(text[n]) /\ OpAt(text, LineStart(text, n - 1)) \in ops
       THEN Append(g[n - 1], LineStart(text, n - 1)) ELSE g[n - 1]

(* The lines among the first bytes of a text, for each number of them *)
Finding(text, ops, to, g) == g = [n \in 0..to |-> FoundBody(text, ops, g, n)]

LEMMA FindingExists ==
  ASSUME NEW text, NEW ops, NEW to \in Nat
  PROVE  \E g : Finding(text, ops, to, g)
<1> DEFINE S == {n \in Nat : \E g : Finding(text, ops, n, g)}
<1>1. 0 \in S
  <2>1. PICK g : g = [n \in 0..0 |-> <<>>]
    OBVIOUS
  <2>2. \A n \in 0..0 : n = 0
    OBVIOUS
  <2>3. Finding(text, ops, 0, g)
    BY <2>1, <2>2 DEF Finding, FoundBody
  <2> QED
    BY <2>3
<1>2. ASSUME NEW k \in Nat, k \in S
      PROVE  k + 1 \in S
  <2>1. PICK g : Finding(text, ops, k, g)
    BY <1>2
  <2>2. PICK last : last = k + 1 /\ last \in Nat /\ last # 0 /\ last - 1 = k
    OBVIOUS
  <2>3. PICK h : h = [n \in 0..last |-> IF n = last THEN FoundBody(text, ops, g, last) ELSE g[n]]
    OBVIOUS
  <2>4. ASSUME NEW n \in 0..last
        PROVE  h[n] = FoundBody(text, ops, h, n)
    <3>1. n # 0 => h[n - 1] = g[n - 1]
      <4>1. n # 0 => n - 1 \in 0..last /\ n - 1 # last
        BY <2>2
      <4> QED
        BY <2>3, <4>1
    <3>2. h[n] = FoundBody(text, ops, g, n)
      <4>1. CASE n = last
        BY <2>2, <2>3, <4>1
      <4>2. CASE n # last
        <5>1. n \in 0..k /\ h[n] = g[n]
          BY <2>2, <2>3, <4>2
        <5> QED
          BY <2>1, <5>1 DEF Finding
      <4> QED
        BY <4>1, <4>2
    <3> QED
      BY <3>1, <3>2, Zenon DEF FoundBody
  <2>5. Finding(text, ops, k + 1, h)
    <3>1. h = [n \in 0..last |-> h[n]]
      BY <2>3
    <3> QED
      BY <2>2, <2>4, <3>1 DEF Finding
  <2> QED
    BY <2>5
<1>3. \A n \in Nat : n \in S
  <2>1. \A n \in Nat : n \in S => n + 1 \in S
    BY <1>2
  <2> HIDE DEF S
  <2> QED
    BY <1>1, <2>1, Upward
<1> QED
  BY <1>3


LEMMA LineOffsetsIs ==
  ASSUME NEW text, NEW ops, Len(text) \in Nat
  PROVE  \E g : Finding(text, ops, Len(text), g) /\ LineOffsets(text, ops) = g[Len(text)]
<1> DEFINE h == CHOOSE g : Finding(text, ops, Len(text), g)
<1>1. Finding(text, ops, Len(text), h)
  BY FindingExists
<1>2. LineOffsets(text, ops) = h[Len(text)]
  BY DEF LineOffsets, Finding, FoundBody
<1> HIDE DEF h
<1> QED
  BY <1>1, <1>2

(* The next byte may be the end of a line that is one of them. *)
FoundAt(text, ops, g, n) ==
  g[n + 1] = IF NewLine(text[n + 1]) /\ text[LineStart(text, n) + 1].op \in ops
             THEN Append(g[n], LineStart(text, n)) ELSE g[n]

LEMMA FindingStep ==
  ASSUME NEW text, NEW ops, NEW to \in Nat, NEW g, Finding(text, ops, to, g)
  PROVE  g[0] = <<>> /\ \A n \in 0..to - 1 : FoundAt(text, ops, g, n)
<1>1. \A n \in 0..to : g[n] = FoundBody(text, ops, g, n)
  BY DEF Finding
<1>2. ASSUME NEW n \in 0..to - 1
      PROVE  FoundAt(text, ops, g, n)
  <2>1. n + 1 \in 0..to /\ n + 1 # 0 /\ n + 1 - 1 = n
    OBVIOUS
  <2>2. g[n + 1] = FoundBody(text, ops, g, n + 1)
    BY <1>1, <2>1
  <2> QED
    BY <2>1, <2>2 DEF FoundBody, OpAt, FoundAt
<1>3. g[0] = <<>>
  <2>1. 0 \in 0..to
    OBVIOUS
  <2> QED
    BY <1>1, <2>1 DEF FoundBody
<1> QED
  BY <1>2, <1>3

(* The lines of a text are found one byte after the other. *)
LEMMA LineOffsetsSteps ==
  ASSUME NEW text, NEW ops, NEW to \in Nat, to = Len(text)
  PROVE  \E g : /\ LineOffsets(text, ops) = g[to] /\ g[0] = <<>>
               /\ \A n \in 0..to - 1 : FoundAt(text, ops, g, n)
<1>1. PICK g : Finding(text, ops, to, g) /\ LineOffsets(text, ops) = g[to]
  BY LineOffsetsIs
<1>2. Finding(text, ops, to, g)
  BY <1>1
<1>3. g[0] = <<>> /\ \A n \in 0..to - 1 : FoundAt(text, ops, g, n)
  BY <1>2, FindingStep
<1> QED
  BY <1>1, <1>3

(* The inputs that are closed by some lines *)
ClosedBy(text, c) == {text[c[j] + 1].tag : j \in DOMAIN c}

(* An index has the lines of some offsets: pages, inputs and closing lines. *)
Tells(text, s, p, i, c) ==
  /\ s.pages = p /\ i \in Seq(Nat) /\ c \in Seq(Nat)
  /\ Len(s.inputs) = Len(i)
  /\ \A k \in 1..Len(i) : i[k] # 0 /\ s.inputs[k] = IF k \in ClosedBy(text, c) THEN -i[k] ELSE i[k]
  /\ ClosedBy(text, c) \subseteq 1..Len(i)

LEMMA TellsSame ==
  ASSUME NEW text, NEW s, NEW r, Same(s, r), NEW p, NEW i, NEW c, Tells(text, s, p, i, c)
  PROVE  Tells(text, r, p, i, c)
BY DEF Same, Tells

LEMMA TellsRead ==
  ASSUME NEW text, NEW s, Linear(s), NEW bol \in Nat, LineRead(s, text, bol).bad = {},
         bol # 0 \/ text[bol + 1].op # "input", NEW p, NEW i, NEW c, Tells(text, s, p, i, c)
  PROVE  Tells(text, LineRead(s, text, bol),
               IF text[bol + 1].op \in {"{", "}"} THEN Append(p, bol) ELSE p,
               IF text[bol + 1].op \in {"input"} THEN Append(i, bol) ELSE i,
               IF text[bol + 1].op \in {"/"} THEN Append(c, bol) ELSE c)
<1>1. PICK b, t : b = text[bol + 1] /\ t = LineRead(s, text, bol)
  OBVIOUS
<1>2. t.bad = {}
  BY <1>1
<1>3. /\ s.pages = p /\ i \in Seq(Nat) /\ c \in Seq(Nat) /\ Len(s.inputs) = Len(i)
      /\ \A k \in 1..Len(i) : i[k] # 0 /\ s.inputs[k] = IF k \in ClosedBy(text, c) THEN -i[k] ELSE i[k]
      /\ ClosedBy(text, c) \subseteq 1..Len(i)
  BY DEF Tells
<1>4. s.inputs \in Seq(Int) /\ Len(i) \in Nat /\ Len(c) \in Nat
  BY <1>3 DEF Linear
<1>5. CASE b.op \in {"{", "}"}
  <2>1. /\ Linear(LineRead(s, text, bol))
        /\ LineRead(s, text, bol).bol = s.bol /\ LineRead(s, text, bol).cur = s.cur
        /\ PageLine(text[bol + 1], s) =>
             /\ LineRead(s, text, bol).pages = Append(s.pages, bol)
             /\ LineRead(s, text, bol).inputs = s.inputs
             /\ LineRead(s, text, bol).closes = s.closes /\ LineRead(s, text, bol).bad = s.bad
        /\ ~PageLine(text[bol + 1], s) => Refused(s, LineRead(s, text, bol), "page")
    <3>1. text[bol + 1].op \in {"{", "}"}
      BY <1>1, <1>5
    <3> QED
      BY <3>1, LineReadPage
  <2>2. t.pages = Append(p, bol) /\ t.inputs = s.inputs
    <3>1. "page" \notin t.bad
      BY <1>2
    <3> QED
      BY <1>1, <1>3, <2>1, <3>1 DEF Refused
  <2>3. Tells(text, t, Append(p, bol), i, c)
    BY <1>3, <2>2 DEF Tells
  <2>4. b.op \notin {"input"} /\ b.op \notin {"/"}
    BY <1>5
  <2> QED
    BY <1>1, <1>5, <2>3, <2>4
<1>6. CASE b.op = "input"
  <2>1. /\ InputLine(b, s) => /\ t.inputs = Append(s.inputs, bol) /\ t.pages = s.pages
                              /\ t.closes = s.closes /\ t.bad = s.bad
        /\ ~InputLine(b, s) => Refused(s, t, "input")
    BY <1>1, <1>6, LineReadInput
  <2>2. t.inputs = Append(s.inputs, bol) /\ t.pages = p
    <3>1. "input" \notin t.bad
      BY <1>2
    <3> QED
      BY <1>3, <2>1, <3>1 DEF Refused
  <2>3. PICK x : x = Append(i, bol)
    OBVIOUS
  <2>4. /\ x \in Seq(Nat) /\ Len(x) = Len(i) + 1 /\ x[Len(i) + 1] = bol
        /\ \A k \in 1..Len(i) : x[k] = i[k]
    BY <1>3, <2>3, AppendProperties
  <2>5. /\ Len(t.inputs) = Len(s.inputs) + 1 /\ t.inputs[Len(s.inputs) + 1] = bol
        /\ \A k \in 1..Len(s.inputs) : t.inputs[k] = s.inputs[k]
    BY <1>4, <2>2, AppendProperties
  <2>6. ClosedBy(text, c) \subseteq 1..Len(x) /\ Len(i) + 1 \notin ClosedBy(text, c)
    BY <1>3, <1>4, <2>4
  <2>7. ASSUME NEW k \in 1..Len(x)
        PROVE  x[k] # 0 /\ t.inputs[k] = IF k \in ClosedBy(text, c) THEN -x[k] ELSE x[k]
    <3>1. CASE k = Len(i) + 1
      <4>1. bol # 0
        BY <1>1, <1>6
      <4> QED
        BY <1>3, <2>4, <2>5, <2>6, <3>1, <4>1
    <3>2. CASE k # Len(i) + 1
      <4>1. k \in 1..Len(i)
        BY <1>4, <2>4, <3>2
      <4> QED
        BY <1>3, <2>4, <2>5, <4>1
    <3> QED
      BY <3>1, <3>2
  <2>8. Tells(text, t, p, x, c)
    BY <1>3, <2>2, <2>4, <2>5, <2>6, <2>7 DEF Tells
  <2>9. b.op \notin {"{", "}"} /\ b.op \notin {"/"} /\ b.op \in {"input"}
    BY <1>6
  <2> QED
    BY <1>1, <2>3, <2>8, <2>9
<1>7. CASE b.op = "/"
  <2>1. /\ CloseLine(b, s) => /\ t.inputs = Closing(s.inputs, b.tag) /\ t.pages = s.pages
                              /\ t.closes = Append(s.closes, [off |-> bol, input |-> b.tag])
                              /\ t.bad = s.bad
        /\ ~CloseLine(b, s) => Refused(s, t, "close")
    BY <1>1, <1>7, LineReadClose
  <2>2. CloseLine(b, s) /\ t.inputs = Closing(s.inputs, b.tag) /\ t.pages = p
    <3>1. "close" \notin t.bad
      BY <1>2
    <3> QED
      BY <1>3, <2>1, <3>1 DEF Refused
  <2>3. PICK tag \in 1..Len(i) : tag = b.tag /\ ~(s.inputs[tag] < 0)
    BY <1>3, <1>4, <2>2 DEF CloseLine, IsClosed
  <2>4. /\ Len(t.inputs) = Len(i) /\ t.inputs[tag] = -s.inputs[tag]
        /\ \A k \in 1..Len(i) : k # tag => t.inputs[k] = s.inputs[k]
    <3>1. t.inputs = [s.inputs EXCEPT ![tag] = -s.inputs[tag]]
      BY <2>2, <2>3 DEF Closing
    <3>2. s.inputs[tag] \in Int /\ -s.inputs[tag] \in Int /\ tag \in 1..Len(s.inputs)
      BY <1>3, <1>4, <2>3
    <3>3. /\ Len([s.inputs EXCEPT ![tag] = -s.inputs[tag]]) = Len(s.inputs)
      BY <1>4, <3>2, ExceptSeq
    <3> QED
      BY <1>3, <1>4, <3>1, <3>2, <3>3
  <2>5. PICK x : x = Append(c, bol)
    OBVIOUS
  <2>6. /\ x \in Seq(Nat) /\ Len(x) = Len(c) + 1 /\ x[Len(c) + 1] = bol
        /\ \A k \in 1..Len(c) : x[k] = c[k]
    BY <1>3, <2>5, AppendProperties
  <2>7. ClosedBy(text, x) = ClosedBy(text, c) \cup {tag}
    <3>1. DOMAIN c = 1..Len(c) /\ DOMAIN x = 1..Len(c) + 1
      BY <1>3, <2>6
    <3>2. ClosedBy(text, c) \cup {tag} \subseteq ClosedBy(text, x)
      <4>1. \A j \in 1..Len(c) : j \in DOMAIN x /\ text[x[j] + 1].tag = text[c[j] + 1].tag
        BY <1>4, <2>6, <3>1
      <4>2. Len(c) + 1 \in DOMAIN x /\ text[x[Len(c) + 1] + 1].tag = tag
        BY <1>1, <1>4, <2>3, <2>6, <3>1
      <4>3. tag \in ClosedBy(text, x)
        BY <4>2 DEF ClosedBy
      <4>4. ASSUME NEW y \in ClosedBy(text, c)
            PROVE  y \in ClosedBy(text, x)
        <5>1. PICK j \in DOMAIN c : y = text[c[j] + 1].tag
          BY DEF ClosedBy
        <5> QED
          BY <3>1, <4>1, <5>1 DEF ClosedBy
      <4> QED
        BY <4>3, <4>4
    <3>3. ASSUME NEW y \in ClosedBy(text, x)
          PROVE  y \in ClosedBy(text, c) \cup {tag}
      <4>1. PICK j \in DOMAIN x : y = text[x[j] + 1].tag
        BY DEF ClosedBy
      <4>2. CASE j = Len(c) + 1
        BY <1>1, <2>3, <2>6, <4>1, <4>2
      <4>3. CASE j # Len(c) + 1
        <5>1. j \in 1..Len(c)
          BY <1>4, <3>1, <4>1, <4>3
        <5>2. j \in DOMAIN c /\ y = text[c[j] + 1].tag
          BY <2>6, <3>1, <4>1, <5>1
        <5> QED
          BY <5>2 DEF ClosedBy
      <4> QED
        BY <4>2, <4>3
    <3> QED
      BY <3>2, <3>3
  <2>8. tag \notin ClosedBy(text, c) /\ s.inputs[tag] = i[tag]
    <3>1. i[tag] \in Nat /\ i[tag] # 0
      BY <1>3, <2>3
    <3>2. tag \in ClosedBy(text, c) => s.inputs[tag] = -i[tag]
      BY <1>3, <2>3
    <3>3. tag \notin ClosedBy(text, c)
      BY <2>3, <3>1, <3>2
    <3> QED
      BY <1>3, <2>3, <3>3
  <2>9. ASSUME NEW k \in 1..Len(i)
        PROVE  i[k] # 0 /\ t.inputs[k] = IF k \in ClosedBy(text, x) THEN -i[k] ELSE i[k]
    BY <1>3, <2>4, <2>7, <2>8
  <2>10. ClosedBy(text, x) \subseteq 1..Len(i)
    BY <1>3, <2>3, <2>7
  <2>11. Tells(text, t, p, i, x)
    BY <1>3, <2>2, <2>4, <2>6, <2>9, <2>10 DEF Tells
  <2>12. b.op \notin {"{", "}"} /\ b.op \notin {"input"} /\ b.op \in {"/"}
    BY <1>7
  <2> QED
    BY <1>1, <2>5, <2>11, <2>12
<1>8. CASE b.op \notin MarkOps
  <2>1. t = s
    BY <1>1, <1>8, LineReadOther
  <2> QED
    BY <1>1, <1>8, <2>1 DEF MarkOps
<1> QED
  BY <1>5, <1>6, <1>7, <1>8 DEF MarkOps

(* The index of a text has its lines. *)
LEMMA AfterTells ==
  ASSUME NEW text \in Seq(Bytes), Clean(text)
  PROVE  Tells(text, After(text, Len(text)), LineOffsets(text, {"{", "}"}),
               LineOffsets(text, {"input"}), LineOffsets(text, {"/"}))
<1>1. PICK to \in Nat : to = Len(text)
  OBVIOUS
<1>2. PICK gp : /\ LineOffsets(text, {"{", "}"}) = gp[to] /\ gp[0] = <<>>
               /\ \A n \in 0..to - 1 : FoundAt(text, {"{", "}"}, gp, n)
  BY <1>1, LineOffsetsSteps
<1>3. PICK gi : /\ LineOffsets(text, {"input"}) = gi[to] /\ gi[0] = <<>>
               /\ \A n \in 0..to - 1 : FoundAt(text, {"input"}, gi, n)
  BY <1>1, LineOffsetsSteps
<1>4. PICK gc : /\ LineOffsets(text, {"/"}) = gc[to] /\ gc[0] = <<>>
               /\ \A n \in 0..to - 1 : FoundAt(text, {"/"}, gc, n)
  BY <1>1, LineOffsetsSteps
<1> DEFINE P(n) == Tells(text, After(text, n), gp[n], gi[n], gc[n])
<1> DEFINE S == {n \in Nat : n <= to => P(n)}
<1>5. 0 \in S
  <2>1. gp[0] = <<>> /\ gi[0] = <<>> /\ gc[0] = <<>>
    BY <1>2, <1>3, <1>4
  <2>2. After(text, 0) = NoLines
    BY <1>1, AfterIs
  <2>3. <<>> \in Seq(Nat) /\ ClosedBy(text, <<>>) = {}
    BY DEF ClosedBy
  <2>4. NoLines.pages = <<>> /\ NoLines.inputs = <<>>
    BY DEF NoLines
  <2>5. Tells(text, NoLines, <<>>, <<>>, <<>>)
    BY <2>3, <2>4 DEF Tells
  <2> QED
    BY <2>1, <2>2, <2>5
<1>6. ASSUME NEW n \in Nat, n \in S, n + 1 <= to
      PROVE  P(n + 1)
  <2>1. n \in 0..to - 1 /\ n \in 0..Len(text) - 1 /\ n + 1 \in 0..Len(text) /\ n <= to
    BY <1>1, <1>6
  <2>2. PICK s, t, l : s = After(text, n) /\ t = After(text, n + 1) /\ l = LineStart(text, n)
    OBVIOUS
  <2>3. PICK p, i, c : p = gp[n] /\ i = gi[n] /\ c = gc[n]
    OBVIOUS
  <2>4. Tells(text, s, p, i, c)
    BY <1>6, <2>1, <2>2, <2>3
  <2>5. /\ gp[n + 1] = IF NewLine(text[n + 1]) /\ text[l + 1].op \in {"{", "}"} THEN Append(p, l) ELSE p
        /\ gi[n + 1] = IF NewLine(text[n + 1]) /\ text[l + 1].op \in {"input"} THEN Append(i, l) ELSE i
        /\ gc[n + 1] = IF NewLine(text[n + 1]) /\ text[l + 1].op \in {"/"} THEN Append(c, l) ELSE c
    <3>1. FoundAt(text, {"{", "}"}, gp, n) /\ FoundAt(text, {"input"}, gi, n) /\ FoundAt(text, {"/"}, gc, n)
      BY <1>2, <1>3, <1>4, <2>1
    <3> QED
      BY <2>2, <2>3, <3>1 DEF FoundAt
  <2>6. /\ Linear(s) /\ Linear(t)
        /\ ~NewLine(text[n + 1]) => t = s
        /\ NewLine(text[n + 1]) => Same(t, LineRead(s, text, l))
    BY <1>1, <2>1, <2>2, AfterStep
  <2>7. CASE ~NewLine(text[n + 1])
    BY <2>2, <2>4, <2>5, <2>6, <2>7
  <2>8. CASE NewLine(text[n + 1])
    <3>1. PICK u : u = LineRead(s, text, l)
      OBVIOUS
    <3>2. l \in Nat
      BY <2>2, LineStartIs
    <3>3. t.bad = {} /\ Same(t, u)
      BY <2>1, <2>2, <2>6, <2>8, <3>1, AfterLinear
    <3>4. u.bad = {} /\ Same(u, t)
      BY <3>3 DEF Same
    <3>5. l # 0 \/ text[l + 1].op # "input"
      <4>1. text # <<>> /\ 0 + 1 = 1
        BY <2>1
      <4> QED
        BY <4>1 DEF Clean, Versioned, OpAt
    <3>6. Tells(text, LineRead(s, text, l),
                IF text[l + 1].op \in {"{", "}"} THEN Append(p, l) ELSE p,
                IF text[l + 1].op \in {"input"} THEN Append(i, l) ELSE i,
                IF text[l + 1].op \in {"/"} THEN Append(c, l) ELSE c)
      BY <2>4, <2>6, <3>1, <3>2, <3>4, <3>5, TellsRead
    <3>7. Tells(text, u, gp[n + 1], gi[n + 1], gc[n + 1])
      BY <2>5, <2>8, <3>1, <3>6
    <3>8. Tells(text, t, gp[n + 1], gi[n + 1], gc[n + 1])
      BY <3>4, <3>7, TellsSame
    <3> QED
      BY <2>2, <3>8
  <2> QED
    BY <2>7, <2>8
<1>7. \A n \in Nat : n \in S
  <2>1. \A n \in Nat : n \in S => n + 1 \in S
    BY <1>6
  <2> HIDE DEF S
  <2> QED
    BY <1>5, <2>1, Upward
<1>8. P(to)
  <2>1. to \in S
    BY <1>7
  <2> QED
    BY <2>1
<1> QED
  BY <1>1, <1>2, <1>3, <1>4, <1>8

-----------------------------------------------------------------------------
(* The texts that the driver reads without stopping *)

LEMMA ProgramClean ==
  ASSUME NEW d \in Documents, NEW p \in d
  PROVE  p["stex"] \in Seq(Bytes) /\ Clean(p["stex"])
<1>1. "stex" \in Files
  BY DEF Files
<1>2. PICK text \in Seq(Bytes) : text = p["stex"]
  BY <1>1, ProgramTyped
<1>3. PICK buf : buf = [mem |-> text, len |-> Len(text)]
  OBVIOUS
<1>4. buf.mem = text /\ buf.len = Len(text)
  BY <1>3
<1>5. LinesRead(NoLines, buf).bad = {} /\ Versioned(text)
  BY <1>2, <1>3, SynctexAssumption DEF Versioned
<1> DEFINE h == CHOOSE g : Reading(NoLines, buf.mem, buf.len, g)
<1>6. LinesRead(NoLines, buf) = [h[buf.len] EXCEPT !.cur = buf.len]
  BY DEF LinesRead, Reading, ByteRead, Start
<1>7. h = ReadAll(text)
  BY <1>4 DEF ReadAll
<1> HIDE DEF h
<1>8. PICK r : r = After(text, Len(text))
  OBVIOUS
<1>9. LinesRead(NoLines, buf) = [r EXCEPT !.cur = buf.len]
  BY <1>4, <1>6, <1>7, <1>8 DEF After
<1>10. LinesTyped(r)
  <2>1. Len(text) \in Nat /\ Len(text) \in 0..Len(text)
    OBVIOUS
  <2> QED
    BY <1>8, <2>1, AfterFollows DEF Follows, Linear
<1>11. r.bad = {}
  BY <1>5, <1>9, <1>10 DEF LinesTyped
<1> QED
  BY <1>2, <1>5, <1>8, <1>11 DEF Clean

LEMMA BeginningClean ==
  ASSUME NEW s \in Seq(Bytes), NEW t \in Seq(Bytes), Begins(s, t), Clean(t)
  PROVE  Clean(s)
<1>1. Len(s) \in Nat /\ Len(t) \in Nat /\ Len(s) <= Len(t) /\ \A i \in 1..Len(s) : s[i] = t[i]
  BY DEF Begins
<1>2. After(s, Len(s)).bad = {}
  <2>1. Len(s) \in 0..Len(s) /\ Len(s) \in 0..Len(t)
    BY <1>1
  <2>2. After(t, Len(s)).bad = {}
    BY <1>1, <2>1, AfterBad DEF Clean
  <2>3. Same(After(s, Len(s)), After(t, Len(s)))
    BY <2>1, AfterSame
  <2> QED
    BY <2>2, <2>3 DEF Same
<1>3. Versioned(s)
  <2> SUFFICES ASSUME s # <<>> PROVE OpAt(s, 0) # "input"
    BY DEF Versioned
  <2>1. 1 \in 1..Len(s) /\ t # <<>>
    BY <1>1
  <2>2. s[1] = t[1] /\ 0 + 1 = 1
    BY <1>1, <2>1
  <2> QED
    BY <2>1, <2>2 DEF Clean, Versioned, OpAt
<1> QED
  BY <1>2, <1>3 DEF Clean

-----------------------------------------------------------------------------
(* What the index says of a text *)

Tracks(s, text) ==
  /\ Linear(s) /\ s.bad = {} /\ s.bol \in Nat /\ s.cur \in 0..Len(text)
  /\ s.bol <= s.cur => s.bol = LineStart(text, s.cur)
  /\ NearAt(s, text, s.cur)

LEMMA TracksCut ==
  ASSUME NEW text \in Seq(Bytes), Clean(text), NEW s, Tracks(s, text), NEW m \in 0..s.cur
  PROVE  Tracks(LinesCut(s, m), text) /\ LinesCut(s, m).cur = m
<1>1. PICK c \in Nat : c = s.cur /\ c \in 0..Len(text) /\ m \in 0..c /\ m \in 0..Len(text) /\ m \in Nat
  BY DEF Tracks
<1>2. PICK r : r = LinesCut(s, m)
  OBVIOUS
<1>3. /\ NearAt(r, text, m) /\ Linear(r) /\ r.bol = s.bol /\ r.bad = {}
      /\ r.cur = IF s.cur <= m THEN s.cur ELSE m
  BY <1>1, <1>2, CutNear DEF Tracks
<1>4. r.cur = m
  BY <1>1, <1>3
<1>5. r.bol \in Nat
  BY <1>3 DEF Tracks
<1>6. ASSUME r.bol <= m
      PROVE  r.bol = LineStart(text, m)
  <2>1. PICK l \in Nat : l = r.bol /\ l <= m
    BY <1>5, <1>6
  <2>2. l = LineStart(text, c)
    BY <1>1, <1>3, <2>1 DEF Tracks
  <2>3. l \in 0..m /\ (l # 0 => NewLine(text[l])) /\ \A q \in 1..c : NewLine(text[q]) => q <= l
    BY <1>1, <2>1, <2>2, LineStartIs
  <2>4. \A q \in 1..m : q \in 1..c
    BY <1>1
  <2> QED
    BY <1>1, <2>1, <2>3, <2>4, LineStartOnly
<1> QED
  BY <1>1, <1>2, <1>3, <1>4, <1>5, <1>6 DEF Tracks

LEMMA TracksRead ==
  ASSUME NEW text \in Seq(Bytes), Clean(text), NEW s, Tracks(s, text),
         NEW buf, buf.len \in Nat, s.cur <= buf.len, buf.len <= Len(text),
         \A i \in 1..buf.len : buf.mem[i] = text[i]
  PROVE  /\ Linear(LinesRead(s, buf)) /\ LinesRead(s, buf).cur = buf.len
         /\ LinesRead(s, buf).bad # {} \/ Tracks(LinesRead(s, buf), text)
         /\ Same(s, After(text, s.cur)) => Tracks(LinesRead(s, buf), text)
<1>1. PICK n \in Nat : n = buf.len /\ n \in 0..Len(text)
  OBVIOUS
<1>2. PICK r : r = LinesRead(s, buf)
  OBVIOUS
<1>3. /\ Linear(r) /\ r.cur = n /\ r.bol = LineStart(text, n)
      /\ r.bad # {} \/ NearAt(r, text, n)
      /\ Same(s, After(text, s.cur)) => Same(r, After(text, n))
  BY <1>1, <1>2, ReadNear DEF Tracks
<1>4. r.bol \in Nat
  <2>1. LineStart(text, n) \in 0..n
    BY LineStartIs
  <2> QED
    BY <1>3, <2>1
<1>5. r.bad = {} /\ NearAt(r, text, n) => Tracks(r, text)
  BY <1>1, <1>3, <1>4 DEF Tracks
<1>6. Same(r, After(text, n)) => r.bad = {} /\ NearAt(r, text, n)
  <2>1. After(text, n).bad = {}
    BY <1>1, AfterLinear
  <2>2. Same(r, After(text, n)) => NearAt(r, text, n)
    <3>1. Len(text) \in Nat
      OBVIOUS
    <3> QED
      BY <1>1, <3>1, NearItself
  <2> QED
    BY <2>1, <2>2 DEF Same
<1> QED
  BY <1>1, <1>2, <1>3, <1>5, <1>6

(* The text goes on differently. *)
LEMMA TracksMoved ==
  ASSUME NEW text \in Seq(Bytes), NEW other \in Seq(Bytes), NEW part \in Seq(Bytes),
         Begins(part, text), Begins(part, other), NEW s, Tracks(s, text), s.cur = Len(part),
         Boundary(text, s.cur) \/ s.cur = Len(text)
  PROVE  Tracks(s, other) /\ Same(s, After(part, Len(part))) /\ Same(s, After(other, s.cur))
<1>1. PICK n \in Nat : n = Len(part) /\ n = s.cur
  OBVIOUS
<1>2. /\ n \in 0..Len(part) /\ n \in 0..Len(text) /\ n \in 0..Len(other)
      /\ Len(text) \in Nat /\ Len(other) \in Nat
      /\ \A i \in 1..n : text[i] = other[i]
  BY <1>1 DEF Begins
<1>3. Same(s, After(text, n))
  BY <1>1, <1>2, NearBoundary DEF Tracks
<1>4. Same(After(part, n), After(text, n)) /\ Same(After(part, n), After(other, n))
  BY <1>1, <1>2, AfterSame
<1>5. Same(s, After(part, n)) /\ Same(s, After(other, n))
  BY <1>3, <1>4 DEF Same
<1>6. NearAt(s, other, n)
  BY <1>2, <1>5, NearItself
<1>7. LineStart(text, n) = LineStart(other, n)
  BY <1>2, LineStartSame
<1> QED
  BY <1>1, <1>2, <1>5, <1>6, <1>7 DEF Tracks

(* The empty text begins every text. *)
LEMMA TracksNothing ==
  ASSUME NEW text \in Seq(Bytes), Clean(text), NEW s, Tracks(s, text)
  PROVE  Tracks(LinesCut(s, 0), <<>>) /\ LinesCut(s, 0).cur = 0
<1>1. PICK none \in Seq(Bytes) : none = <<>>
  <2>1. <<>> \in Seq(Bytes)
    OBVIOUS
  <2> QED
    BY <2>1
<1>2. Len(none) = 0 /\ Begins(none, text) /\ Begins(none, none)
  BY <1>1 DEF Begins
<1>3. PICK r : r = LinesCut(s, 0)
  OBVIOUS
<1>4. Tracks(r, text) /\ r.cur = 0
  <2>1. 0 \in 0..s.cur
    BY DEF Tracks
  <2> QED
    BY <1>3, <2>1, TracksCut
<1>5. Boundary(text, r.cur)
  BY <1>4 DEF Boundary
<1> QED
  BY <1>1, <1>2, <1>3, <1>4, <1>5, TracksMoved

-----------------------------------------------------------------------------
(* The invariant of the index of lines *)

(* The text that the index was told of *)
KnownStex == IF "stex" \in behind THEN prog["stex"] ELSE Written("stex")

StexInv ==
  Going => /\ Tracks(stex, KnownStex)
           /\ "stex" \notin behind => stex.cur = Len(KnownStex)
           /\ LengthOf(out["stex"]) <= stex.cur

StopInv == stex.bad # {} \/ aborted = "search" => "stex" \in behind

(* A snapshot was made after complete lines. *)
LineSnaps ==
  \A k \in 1..Len(snaps) :
    snaps[k].len["stex"] > 0 => NewLine(prog["stex"][snaps[k].len["stex"]])

LEMMA StexPart ==
  ASSUME NEW d \in Documents, NEW p \in d, NEW b \in Buffers \cup {Null}, Buffered(b, p["stex"])
  PROVE  /\ p["stex"] \in Seq(Bytes) /\ Clean(p["stex"])
         /\ PartOf(b) \in Seq(Bytes) /\ Clean(PartOf(b)) /\ Begins(PartOf(b), p["stex"])
         /\ Len(PartOf(b)) \in Nat
         /\ b = Null => PartOf(b) = <<>> /\ Len(PartOf(b)) = 0 /\ LengthOf(b) = -1
         /\ b # Null => Len(PartOf(b)) = b.len /\ LengthOf(b) = b.len
<1>1. p["stex"] \in Seq(Bytes) /\ Clean(p["stex"])
  BY ProgramClean
<1>2. PICK all \in Seq(Bytes) : all = p["stex"] /\ Clean(all) /\ Buffered(b, all)
  BY <1>1
<1>3. PICK text : text = PartOf(b)
  OBVIOUS
<1>4. /\ text \in Seq(Bytes) /\ Begins(text, all)
      /\ b = Null => text = <<>>
      /\ b # Null => Holds(b, text)
  BY <1>2, <1>3, PartTyped
<1>5. Clean(text)
  BY <1>2, <1>4, BeginningClean
<1>6. b = Null => Len(text) = 0
  BY <1>4
<1>7. b # Null => Len(text) = b.len
  BY <1>4 DEF Holds
<1> QED
  BY <1>1, <1>2, <1>3, <1>4, <1>5, <1>6, <1>7 DEF LengthOf

LEMMA KnownStexIs ==
  ASSUME Inv
  PROVE  /\ "stex" \in Files /\ out["stex"] \in Buffers \cup {Null}
         /\ Buffered(out["stex"], prog["stex"])
         /\ prog["stex"] \in Seq(Bytes) /\ Clean(prog["stex"])
         /\ KnownStex \in Seq(Bytes) /\ Clean(KnownStex) /\ Begins(KnownStex, prog["stex"])
         /\ PartOf(out["stex"]) \in Seq(Bytes) /\ Begins(PartOf(out["stex"]), KnownStex)
         /\ Begins(PartOf(out["stex"]), prog["stex"]) /\ Len(PartOf(out["stex"])) \in Nat
         /\ out["stex"] = Null => Len(PartOf(out["stex"])) = 0 /\ LengthOf(out["stex"]) = -1
         /\ out["stex"] # Null =>
              Len(PartOf(out["stex"])) = out["stex"].len /\ LengthOf(out["stex"]) = out["stex"].len
<1>1. "stex" \in Files
  BY DEF Files
<1>2. /\ document \in Documents /\ prog \in document
      /\ out["stex"] \in Buffers \cup {Null} /\ Buffered(out["stex"], prog["stex"])
  BY <1>1 DEF Inv, Typed, TextInv
<1>3. PICK all, part : all = prog["stex"] /\ part = PartOf(out["stex"])
  OBVIOUS
<1>4. /\ all \in Seq(Bytes) /\ Clean(all)
      /\ part \in Seq(Bytes) /\ Clean(part) /\ Begins(part, all) /\ Len(part) \in Nat
      /\ out["stex"] = Null => Len(part) = 0 /\ LengthOf(out["stex"]) = -1
      /\ out["stex"] # Null => Len(part) = out["stex"].len /\ LengthOf(out["stex"]) = out["stex"].len
  BY <1>2, <1>3, StexPart
<1>5. Begins(all, all) /\ Begins(part, part)
  BY <1>4, BeginsItself
<1>6. KnownStex \in {all, part}
  BY <1>3, WrittenIs DEF KnownStex
<1> QED
  BY <1>1, <1>2, <1>3, <1>4, <1>5, <1>6

(* A step that leaves the lines and their index alone *)
LEMMA StexKept ==
  ASSUME StexInv, StopInv, Going, stex' = stex, prog' = prog, out'["stex"] = out["stex"],
         "stex" \in behind' <=> "stex" \in behind, aborted' # "search" \/ "stex" \in behind
  PROVE  StexInv' /\ StopInv'
<1>1. KnownStex' = KnownStex
  BY WrittenIs DEF KnownStex
<1>2. StexInv'
  BY <1>1 DEF StexInv
<1> QED
  BY <1>2 DEF StopInv

LEMMA SnapsKept ==
  ASSUME LineSnaps, snaps' = snaps, prog' = prog
  PROVE  LineSnaps'
BY DEF LineSnaps

(* An index that is told of a cut *)
ToldOf(s, b) ==
  IF b = Null THEN LinesCut(s, 0) ELSE IF b.len < s.cur THEN LinesCut(s, b.len) ELSE LinesUpdated(s, b)

LEMMA ToldTracks ==
  ASSUME NEW text \in Seq(Bytes), Clean(text), NEW s, Tracks(s, text),
         NEW b \in Buffers \cup {Null}, LengthOf(b) <= s.cur
  PROVE  /\ Tracks(ToldOf(s, b), text)
         /\ ToldOf(s, b).cur = IF b = Null THEN 0 ELSE b.len
         /\ LengthOf(b) <= ToldOf(s, b).cur
<1>1. PICK c \in Nat : c = s.cur
  BY DEF Tracks
<1>2. CASE b = Null
  <2>1. 0 \in 0..s.cur /\ LengthOf(b) = -1
    BY <1>1, <1>2 DEF LengthOf
  <2>2. Tracks(LinesCut(s, 0), text) /\ LinesCut(s, 0).cur = 0
    BY <2>1, TracksCut
  <2>3. ToldOf(s, b) = LinesCut(s, 0)
    BY <1>2 DEF ToldOf
  <2> QED
    BY <1>2, <2>1, <2>2, <2>3
<1>3. CASE b # Null
  <2>1. PICK n \in Nat : n = b.len /\ LengthOf(b) = n /\ n <= c
    BY <1>1, <1>3 DEF LengthOf, Buffers
  <2>2. CASE n < c
    <3>1. n \in 0..s.cur
      BY <1>1, <2>1
    <3>2. Tracks(LinesCut(s, n), text) /\ LinesCut(s, n).cur = n
      BY <3>1, TracksCut
    <3>3. ToldOf(s, b) = LinesCut(s, n)
      BY <1>1, <1>3, <2>1, <2>2 DEF ToldOf
    <3> QED
      BY <1>3, <2>1, <3>2, <3>3
  <2>3. CASE n = c
    <3>1. ToldOf(s, b) = s
      BY <1>1, <1>3, <2>1, <2>3 DEF ToldOf, LinesUpdated
    <3> QED
      BY <1>1, <1>3, <2>1, <2>3, <3>1
  <2> QED
    BY <2>1, <2>2, <2>3
<1> QED
  BY <1>2, <1>3

-----------------------------------------------------------------------------
(* The steps, for the lines *)

LEMMA OpenStex ==
  ASSUME Inv, StexInv, StopInv, LineSnaps, NEW f \in Files, Open(f)
  PROVE  StexInv' /\ StopInv' /\ LineSnaps'
<1>1. /\ Going /\ out' = [out EXCEPT ![f] = NoBuffer]
      /\ stex' = IF f = "stex" THEN LinesCut(stex, 0) ELSE stex
      /\ behind' = behind \ ({f} \cap {"dvi", "stex"})
      /\ UNCHANGED <<prog, snaps, aborted>>
  BY DEF Open
<1>2. LineSnaps'
  BY <1>1, SnapsKept
<1>3. out \in [Files -> Buffers \cup {Null}] /\ "stex" \in Files
  BY DEF Inv, Typed, Files
<1>4. CASE f # "stex"
  <2>1. stex' = stex /\ out'["stex"] = out["stex"] /\ ("stex" \in behind' <=> "stex" \in behind)
    BY <1>1, <1>3, <1>4
  <2> QED
    BY <1>1, <1>2, <2>1, StexKept DEF Going
<1>5. CASE f = "stex"
  <2>1. Tracks(LinesCut(stex, 0), <<>>) /\ LinesCut(stex, 0).cur = 0
    BY <1>1, KnownStexIs, TracksNothing DEF StexInv
  <2>2. out'["stex"] = NoBuffer /\ "stex" \notin behind' /\ stex' = LinesCut(stex, 0)
    BY <1>1, <1>3, <1>5
  <2>3. NoBuffer # Null
    <3>1. NoBuffer \in Buffers
      BY DEF NoBuffer, Buffers
    <3> QED
      BY <3>1, NullAssumption
  <2>4. PartOf(NoBuffer) = <<>> /\ LengthOf(NoBuffer) = 0
    <3>1. SubSeq(<<>>, 1, 0) = <<>>
      BY SubSeqEmpty
    <3> QED
      BY <2>3, <3>1 DEF PartOf, NoBuffer, LengthOf
  <2>5. KnownStex' = <<>>
    BY <2>2, <2>4, WrittenIs DEF KnownStex
  <2>6. StexInv'
    <3>1. Len(<<>>) = 0
      OBVIOUS
    <3> QED
      BY <2>1, <2>2, <2>4, <2>5, <3>1 DEF StexInv
  <2>7. StopInv'
    BY <1>1, <2>1, <2>2 DEF StopInv, Tracks, Going
  <2> QED
    BY <1>2, <2>6, <2>7
<1> QED
  BY <1>4, <1>5

LEMMA AppendStex ==
  ASSUME Inv, StexInv, StopInv, LineSnaps, AppendSynctex
  PROVE  StexInv' /\ StopInv' /\ LineSnaps' /\ Linear(stex')
<1>1. PICK n \in 1..Len(prog["stex"]) :
        /\ Append_("stex", n) /\ stex' = LinesUpdated(stex, out'["stex"])
        /\ Fails(stex'.bad) /\ UNCHANGED behind
  BY DEF AppendSynctex
<1>2. /\ "stex" \in Files /\ prog["stex"] \in Seq(Bytes) /\ Clean(prog["stex"])
      /\ KnownStex \in Seq(Bytes) /\ Clean(KnownStex) /\ Begins(KnownStex, prog["stex"])
  BY KnownStexIs
<1>3. /\ Going /\ out'["stex"] = Grown("stex", n)
      /\ UNCHANGED <<document, prog, snaps>>
      /\ out["stex"] # Null /\ n \in out["stex"].len + 1..Len(prog["stex"])
  BY <1>1, <1>2, AppendKeeps
<1>4. LineSnaps'
  BY <1>3, SnapsKept
<1>5. PICK b : b = out'["stex"]
  OBVIOUS
<1>6. /\ b \in Buffers /\ b # Null /\ b.len = n /\ Buffered(b, prog["stex"])
      /\ LengthOf(b) = n
  BY <1>2, <1>3, <1>5, GrownBuffered DEF LengthOf
<1>7. PICK all \in Seq(Bytes) : all = prog["stex"] /\ n \in 0..Len(all) /\ n \in Nat
  BY <1>2
<1>8. \A i \in 1..n : b.mem[i] = all[i]
  BY <1>6, <1>7 DEF Buffered
<1>9. Tracks(stex, KnownStex) /\ ("stex" \notin behind => stex.cur = Len(KnownStex))
      /\ LengthOf(out["stex"]) <= stex.cur
  BY <1>3 DEF StexInv
<1>10. PICK c \in Nat : c = stex.cur
  BY <1>9 DEF Tracks
<1>11. stex' = LinesUpdated(stex, b)
  BY <1>1, <1>5
<1>12. CASE "stex" \in behind
  <2>1. KnownStex = all /\ KnownStex' = all
    BY <1>1, <1>3, <1>7, <1>12 DEF KnownStex
  <2>2. (stex'.bad # {} \/ Tracks(stex', all)) /\ stex'.cur = n /\ Linear(stex')
    <3>1. CASE n < c
      <4>1. stex' = LinesCut(stex, n) /\ n \in 0..stex.cur
        BY <1>6, <1>10, <1>11, <3>1 DEF LinesUpdated
      <4>2. Tracks(LinesCut(stex, n), all) /\ LinesCut(stex, n).cur = n
        BY <1>2, <1>7, <1>9, <2>1, <4>1, TracksCut
      <4> QED
        BY <4>1, <4>2 DEF Tracks
    <3>2. CASE n = c
      <4>1. stex' = stex
        BY <1>6, <1>10, <1>11, <3>2 DEF LinesUpdated
      <4> QED
        BY <1>9, <1>10, <2>1, <3>2, <4>1 DEF Tracks
    <3>3. CASE n > c
      <4>1. stex' = LinesRead(stex, b)
        BY <1>6, <1>10, <1>11, <3>3 DEF LinesUpdated
      <4>2. /\ Linear(LinesRead(stex, b)) /\ LinesRead(stex, b).cur = b.len
            /\ LinesRead(stex, b).bad # {} \/ Tracks(LinesRead(stex, b), all)
        <5>1. Clean(all) /\ Tracks(stex, all) /\ stex.cur <= b.len /\ b.len <= Len(all) /\ b.len \in Nat
              /\ \A i \in 1..b.len : b.mem[i] = all[i]
          BY <1>2, <1>6, <1>7, <1>8, <1>9, <1>10, <2>1, <3>3
        <5> QED
          BY <5>1, TracksRead
      <4> QED
        BY <1>6, <4>1, <4>2
    <3> QED
      BY <1>10, <3>1, <3>2, <3>3
  <2>3. StexInv'
    <3> SUFFICES ASSUME Going' PROVE Tracks(stex', all)
      BY <1>1, <1>5, <1>6, <1>12, <2>1, <2>2 DEF StexInv
    <3>1. stex'.bad = {}
      <4>1. SUFFICES ASSUME stex'.bad # {} PROVE FALSE
        OBVIOUS
      <4>2. aborted' \in stex'.bad
        BY <1>1, <4>1 DEF Fails
      <4>3. stex'.bad \subseteq LineErrors
        BY <2>2 DEF Linear, LinesTyped
      <4> QED
        BY <4>2, <4>3 DEF Going, LineErrors
    <3> QED
      BY <2>2, <3>1
  <2>4. StopInv'
    BY <1>1, <1>12 DEF StopInv
  <2> QED
    BY <1>4, <2>2, <2>3, <2>4
<1>13. CASE "stex" \notin behind
  <2>1. PICK part \in Seq(Bytes) : part = KnownStex /\ part = PartOf(out["stex"]) /\ Clean(part)
    BY <1>2, <1>13, WrittenIs DEF KnownStex
  <2>2. c = Len(part) /\ Len(part) = out["stex"].len /\ c < n
    BY <1>3, <1>9, <1>10, <1>13, <2>1, KnownStexIs
  <2>3. PICK text \in Seq(Bytes) : text = PartOf(b) /\ Clean(text) /\ Begins(text, all) /\ Len(text) = n
    <3>1. document \in Documents /\ prog \in document /\ b \in Buffers \cup {Null}
      BY <1>6 DEF Inv, Typed
    <3> QED
      BY <1>6, <1>7, <3>1, StexPart
  <2>4. KnownStex' = text
    BY <1>1, <1>5, <1>13, <2>3, WrittenIs DEF KnownStex
  <2>5. Begins(part, text) /\ Begins(part, part)
    <3>1. Begins(part, all)
      BY <1>2, <1>7, <2>1
    <3>2. \A i \in 1..Len(part) : part[i] = all[i] /\ text[i] = all[i]
      BY <2>2, <2>3, <3>1, <1>7 DEF Begins
    <3> QED
      BY <1>7, <2>2, <2>3, <3>2, BeginsItself DEF Begins
  <2>6. Tracks(stex, text) /\ Same(stex, After(text, stex.cur))
    <3>1. Tracks(stex, part) /\ stex.cur = Len(part)
      BY <1>9, <1>10, <2>1, <2>2
    <3> QED
      BY <2>5, <3>1, TracksMoved
  <2>7. stex' = LinesRead(stex, b)
    BY <1>6, <1>10, <1>11, <2>2 DEF LinesUpdated
  <2>8. Tracks(LinesRead(stex, b), text) /\ LinesRead(stex, b).cur = b.len
    <3>1. stex.cur <= b.len /\ b.len <= Len(text) /\ b.len \in Nat
      BY <1>6, <1>7, <1>10, <2>2, <2>3
    <3>2. \A i \in 1..b.len : b.mem[i] = text[i]
      BY <1>6, <1>8, <2>3 DEF Begins
    <3> QED
      BY <2>3, <2>6, <3>1, <3>2, TracksRead
  <2>9. StexInv'
    BY <1>5, <1>6, <2>3, <2>4, <2>7, <2>8 DEF StexInv
  <2>10. StopInv'
    <3>1. stex'.bad = {}
      BY <2>7, <2>8 DEF Tracks
    <3>2. aborted' = "no"
      BY <1>1, <3>1 DEF Fails
    <3> QED
      BY <3>1, <3>2 DEF StopInv
  <2> QED
    BY <1>4, <2>7, <2>8, <2>9, <2>10 DEF Tracks
<1> QED
  BY <1>12, <1>13

LEMMA SnapshotStex ==
  ASSUME Inv, StexInv, StopInv, LineSnaps, Snapshot
  PROVE  StexInv' /\ StopInv' /\ LineSnaps'
<1>1. /\ Going /\ Between /\ snaps' = Append(snaps, [len |-> Lengths, log |-> logOpen])
      /\ UNCHANGED <<prog, out, stex, behind, aborted>>
  BY DEF Snapshot
<1>2. PICK s : s = [len |-> Lengths, log |-> logOpen]
  OBVIOUS
<1>3. s \in SnapshotType /\ s.len["stex"] = LengthOf(out["stex"])
  BY <1>2, LengthsTyped DEF Inv, Typed, SnapshotType, Files
<1>4. /\ Len(snaps') = Len(snaps) + 1 /\ Len(snaps) \in Nat
      /\ snaps'[Len(snaps) + 1] = s /\ \A k \in 1..Len(snaps) : snaps'[k] = snaps[k]
  BY <1>1, <1>2, <1>3 DEF Inv, Typed
<1>5. PICK part \in Seq(Bytes), all \in Seq(Bytes) :
        part = PartOf(out["stex"]) /\ all = prog["stex"] /\ Begins(part, all)
  BY KnownStexIs
<1>6. ASSUME s.len["stex"] > 0
      PROVE  NewLine(all[s.len["stex"]])
  <2>1. out["stex"] # Null
    BY <1>3, <1>6 DEF LengthOf
  <2>2. Len(part) = s.len["stex"] /\ Len(part) \in Nat
    BY <1>3, <1>5, <2>1, KnownStexIs
  <2>3. part # <<>> /\ Len(part) \in 1..Len(part)
    BY <1>6, <2>2
  <2>4. NewLine(part[Len(part)])
    <3>1. Written("stex") = part
      BY <1>5, WrittenIs
    <3> QED
      BY <1>1, <2>3, <3>1 DEF Between, Last
  <2> QED
    BY <1>5, <2>2, <2>3, <2>4 DEF Begins
<1>7. ASSUME NEW k \in 1..Len(snaps'), snaps'[k].len["stex"] > 0
      PROVE  NewLine(prog["stex"][snaps'[k].len["stex"]])
  <2>1. CASE k = Len(snaps) + 1
    BY <1>4, <1>5, <1>6, <1>7, <2>1
  <2>2. CASE k # Len(snaps) + 1
    <3>1. k \in 1..Len(snaps)
      BY <1>4, <2>2
    <3> QED
      BY <1>4, <1>7, <3>1 DEF LineSnaps
  <2> QED
    BY <2>1, <2>2
<1>8. LineSnaps'
  BY <1>1, <1>7 DEF LineSnaps
<1> QED
  BY <1>1, <1>8, StexKept DEF Going

(* The snapshots that are left were made where the lines are the same. *)
LEMMA SnapsLeft ==
  ASSUME Inv, LineSnaps, NEW ss \in Seq(SnapshotType), NEW o, Growing(ss, o),
         Left(out["stex"], o["stex"]), o["stex"] \in Buffers \cup {Null}, NEW p,
         Buffered(o["stex"], p["stex"]),
         \A j \in 1..Len(ss) : j \in 1..Len(snaps) /\ ss[j] = snaps[j],
         NEW j \in 1..Len(ss), ss[j].len["stex"] > 0
  PROVE  NewLine(p["stex"][ss[j].len["stex"]])
<1>1. PICK n \in Int : n = ss[j].len["stex"] /\ n > 0
  BY SnapshotTyped DEF Files
<1>2. "stex" \in Files
  BY DEF Files
<1>3. n <= LengthOf(o["stex"])
  BY <1>1, <1>2 DEF Growing
<1>4. /\ o["stex"] # Null /\ n \in 1..o["stex"].len /\ o["stex"].len \in Nat
  BY <1>1, <1>3 DEF LengthOf, Buffers
<1>5. p["stex"][n] = o["stex"].mem[n]
  BY <1>4 DEF Buffered
<1>6. out["stex"] # Null /\ o["stex"].mem = out["stex"].mem /\ o["stex"].len <= out["stex"].len
  BY <1>4 DEF Left
<1>7. out["stex"] \in Buffers /\ Buffered(out["stex"], prog["stex"])
  BY <1>6, KnownStexIs
<1>8. n \in 1..out["stex"].len
  BY <1>4, <1>6, <1>7 DEF Buffers
<1>9. prog["stex"][n] = out["stex"].mem[n]
  BY <1>6, <1>7, <1>8 DEF Buffered
<1>10. NewLine(prog["stex"][n])
  BY <1>1 DEF LineSnaps
<1> QED
  BY <1>1, <1>5, <1>6, <1>9, <1>10

(* The snapshots below the one that is left *)
LEMMA SnapsBelow ==
  ASSUME Inv, NEW k \in 0..Len(snaps), Popped(k)
  PROVE  \A j \in 1..Len(snaps') : j \in 1..Len(snaps) /\ snaps'[j] = snaps[j]
<1>1. PICK n \in Nat : n = Len(snaps) /\ k \in 0..n /\ snaps \in Seq(SnapshotType)
  BY DEF Inv, Typed
<1>2. snaps' = SubSeq(snaps, 1, k - 1)
  BY DEF Popped
<1>3. CASE k <= 1
  <2>1. snaps' = <<>>
    BY <1>1, <1>2, <1>3, SubSeqEmpty
  <2> QED
    BY <2>1
<1>4. CASE k > 1
  <2>1. k - 1 \in 1..n
    BY <1>1, <1>4
  <2>2. \A j \in 1..k - 1 : snaps[j] \in SnapshotType
    BY <1>1, <2>1
  <2>3. Len(snaps') = k - 1 /\ \A j \in 1..k - 1 : snaps'[j] = snaps[j]
    BY <1>1, <1>2, <2>1, <2>2, SubSeqProperties
  <2> QED
    BY <1>1, <2>1, <2>3
<1> QED
  BY <1>1, <1>3, <1>4

(* What a snapshot left of the lines is complete. *)
LEMMA PoppedLines ==
  ASSUME Inv, LineSnaps, NEW k \in 0..Len(snaps), Popped(k)
  PROVE  /\ out'["stex"] \in Buffers \cup {Null} /\ Left(out["stex"], out'["stex"])
         /\ out'["stex"] # Null /\ out'["stex"].len # 0 => NewLine(prog["stex"][out'["stex"].len])
<1>1. PICK b : b = out'["stex"]
  OBVIOUS
<1>2. "stex" \in Files /\ b \in Buffers \cup {Null} /\ Left(out["stex"], b)
  BY <1>1, PoppedKeeps DEF Files
<1>3. ASSUME b # Null, b.len # 0
      PROVE  NewLine(prog["stex"][b.len])
  <2>1. out' = Cut(IF k = 0 THEN Nothing ELSE snaps[k].len)
    BY DEF Popped
  <2>2. k # 0
    <3>1. k = 0 => b = Null
      BY <1>1, <1>2, PoppedKeeps
    <3> QED
      BY <1>3, <3>1
  <2>3. k \in 1..Len(snaps)
    <3>1. Len(snaps) \in Nat
      BY DEF Inv, Typed
    <3> QED
      BY <2>2, <3>1
  <2>4. b = IF snaps[k].len["stex"] = -1 THEN Null ELSE [out["stex"] EXCEPT !.len = snaps[k].len["stex"]]
    BY <1>1, <1>2, <2>1, <2>2 DEF Cut
  <2>5. out["stex"] \in Buffers
    BY <1>2, <1>3, KnownStexIs DEF Left
  <2>6. b.len = snaps[k].len["stex"]
    BY <1>3, <2>4, <2>5 DEF Buffers
  <2>7. b.len \in Nat
    BY <1>2, <1>3 DEF Buffers
  <2>8. snaps[k].len["stex"] > 0
    BY <1>3, <2>6, <2>7
  <2> QED
    BY <2>3, <2>6, <2>8 DEF LineSnaps
<1> QED
  BY <1>1, <1>2, <1>3

(* The index after it is told of a cut, where the lines that are left are *)
(* complete or all there                                                  *)
LEMMA RetoldStex ==
  ASSUME Inv, StexInv, Going, NEW b \in Buffers \cup {Null}, Left(out["stex"], b),
         NEW p \in document, Buffered(b, p["stex"])
  PROVE  /\ LengthOf(b) <= ToldOf(stex, b).cur /\ ToldOf(stex, b).cur = Len(PartOf(b))
         /\ Tracks(ToldOf(stex, b), KnownStex) /\ ToldOf(stex, b).bad = {}
         /\ Boundary(KnownStex, Len(PartOf(b))) \/ Len(PartOf(b)) = Len(KnownStex) =>
              Tracks(ToldOf(stex, b), PartOf(b)) /\ Tracks(ToldOf(stex, b), p["stex"])
<1>1. /\ KnownStex \in Seq(Bytes) /\ Clean(KnownStex)
      /\ PartOf(out["stex"]) \in Seq(Bytes) /\ Begins(PartOf(out["stex"]), KnownStex)
      /\ out["stex"] \in Buffers \cup {Null} /\ Buffered(out["stex"], prog["stex"])
      /\ prog["stex"] \in Seq(Bytes)
  BY KnownStexIs
<1>2. PICK known \in Seq(Bytes) : known = KnownStex
  BY <1>1
<1>3. PICK part, all : part = PartOf(b) /\ all = p["stex"]
  OBVIOUS
<1>4. /\ all \in Seq(Bytes) /\ part \in Seq(Bytes) /\ Begins(part, all) /\ Len(part) \in Nat
      /\ b = Null => Len(part) = 0 /\ LengthOf(b) = -1
      /\ b # Null => Len(part) = b.len /\ LengthOf(b) = b.len
  <2>1. document \in Documents
    BY DEF Inv, Typed
  <2> QED
    BY <1>3, <2>1, StexPart
<1>5. Begins(part, known)
  <2>1. Begins(part, PartOf(out["stex"]))
    BY <1>1, <1>3, LeftBegins
  <2> QED
    BY <1>1, <1>2, <1>4, <2>1, BeginsTwice
<1>6. Tracks(stex, known) /\ LengthOf(out["stex"]) <= stex.cur /\ stex.cur \in Nat
  BY <1>2 DEF StexInv, Tracks
<1>7. LengthOf(b) <= stex.cur
  <2>1. CASE b = Null
    BY <1>4, <1>6, <2>1
  <2>2. CASE b # Null
    <3>1. out["stex"] # Null /\ b.len <= out["stex"].len /\ b \in Buffers /\ out["stex"] \in Buffers
      BY <1>1, <2>2 DEF Left
    <3>2. b.len \in Nat /\ out["stex"].len \in Nat /\ LengthOf(out["stex"]) = out["stex"].len
      BY <3>1 DEF Buffers, LengthOf
    <3> QED
      BY <1>4, <1>6, <2>2, <3>1, <3>2
  <2> QED
    BY <2>1, <2>2
<1>8. PICK r : r = ToldOf(stex, b)
  OBVIOUS
<1>9. Tracks(r, known) /\ r.cur = Len(part) /\ LengthOf(b) <= r.cur
  <2>1. /\ Tracks(ToldOf(stex, b), known)
        /\ ToldOf(stex, b).cur = IF b = Null THEN 0 ELSE b.len
        /\ LengthOf(b) <= ToldOf(stex, b).cur
    BY <1>1, <1>2, <1>6, <1>7, ToldTracks
  <2> QED
    BY <1>4, <1>8, <2>1
<1>10. ASSUME Boundary(known, Len(part)) \/ Len(part) = Len(known)
       PROVE  Tracks(r, part) /\ Tracks(r, all)
  <2>1. Boundary(known, r.cur) \/ r.cur = Len(known)
    BY <1>9, <1>10
  <2>2. Begins(part, part)
    BY <1>4, BeginsItself
  <2>3. Tracks(r, part)
    BY <1>4, <1>5, <1>9, <2>1, <2>2, TracksMoved
  <2>4. Tracks(r, all)
    BY <1>4, <1>5, <1>9, <2>1, TracksMoved
  <2> QED
    BY <2>3, <2>4
<1> QED
  BY <1>2, <1>3, <1>8, <1>9, <1>10 DEF Tracks

LEMMA StopTold ==
  ASSUME NEW reasons, reasons \subseteq {"marks"}, stex'.bad = {},
         Fails(stex'.bad \cup reasons)
  PROVE  StopInv'
<1>1. aborted' \in {"no", "marks"}
  BY DEF Fails
<1> QED
  BY <1>1 DEF StopInv

LEMMA RollbackStex ==
  ASSUME Inv, StexInv, StopInv, LineSnaps, Rollback
  PROVE  StexInv' /\ StopInv' /\ LineSnaps' /\ Linear(stex')
<1>1. Going /\ Reprogrammed /\ Told /\ document' = document
  BY DEF Rollback
<1>2. Inv'
  BY RollbackInv
<1>3. PICK b : b = out'["stex"]
  OBVIOUS
<1>4. /\ b \in Buffers \cup {Null} /\ prog' \in document /\ Buffered(b, prog'["stex"])
      /\ "stex" \in Files /\ Growing(snaps', out') /\ snaps' \in Seq(SnapshotType)
  BY <1>1, <1>2, <1>3 DEF Inv, Typed, TextInv, Files
<1>5. stex' = ToldOf(stex, b)
  BY <1>1, <1>3 DEF Told, ToldOf
<1>6. ASSUME Left(out["stex"], b)
      PROVE  /\ LengthOf(b) <= stex'.cur /\ stex'.cur = Len(PartOf(b))
             /\ Tracks(stex', KnownStex) /\ stex'.bad = {}
             /\ Boundary(KnownStex, Len(PartOf(b))) \/ Len(PartOf(b)) = Len(KnownStex) =>
                  Tracks(stex', PartOf(b)) /\ Tracks(stex', prog'["stex"])
  BY <1>1, <1>4, <1>5, <1>6, RetoldStex
<1>7. ASSUME stex'.bad = {}
      PROVE  StopInv'
  <2>1. PICK reasons : /\ reasons \subseteq {"marks"} /\ Fails(stex'.bad \cup reasons)
    BY <1>1 DEF Told
  <2> QED
    BY <1>7, <2>1, StopTold
<1>8. CASE (\E k \in 0..Len(snaps) : Popped(k)) /\ behind' = {}
  <2>1. PICK k \in 0..Len(snaps) : Popped(k)
    BY <1>8
  <2>2. /\ Left(out["stex"], b)
        /\ b # Null /\ b.len # 0 => NewLine(prog["stex"][b.len])
    BY <1>3, <2>1, PoppedLines
  <2>3. PICK part \in Seq(Bytes) :
          /\ part = PartOf(b) /\ Len(part) \in Nat
          /\ b = Null => Len(part) = 0
          /\ b # Null => Len(part) = b.len
    <3>1. document \in Documents
      BY DEF Inv, Typed
    <3> QED
      BY <1>4, <3>1, StexPart
  <2>4. Boundary(KnownStex, Len(part))
    <3>1. CASE Len(part) = 0
      BY <3>1 DEF Boundary
    <3>2. CASE Len(part) # 0
      <4>1. NewLine(prog["stex"][Len(part)])
        BY <2>2, <2>3, <3>2
      <4>2. Begins(part, PartOf(out["stex"]))
        BY <1>4, <2>2, <2>3, KnownStexIs, LeftBegins
      <4>3. /\ PartOf(out["stex"]) \in Seq(Bytes) /\ Begins(PartOf(out["stex"]), KnownStex)
            /\ Begins(PartOf(out["stex"]), prog["stex"])
            /\ KnownStex \in Seq(Bytes) /\ prog["stex"] \in Seq(Bytes)
        BY KnownStexIs
      <4>4. Begins(part, KnownStex) /\ Begins(part, prog["stex"])
        BY <4>2, <4>3, BeginsTwice
      <4>5. Len(part) \in 1..Len(part)
        BY <2>3, <3>2
      <4>6. part[Len(part)] = KnownStex[Len(part)] /\ part[Len(part)] = prog["stex"][Len(part)]
        BY <4>4, <4>5 DEF Begins
      <4> QED
        BY <4>1, <4>6 DEF Boundary
    <3> QED
      BY <3>1, <3>2
  <2>5. /\ LengthOf(b) <= stex'.cur /\ stex'.cur = Len(part) /\ stex'.bad = {}
        /\ Tracks(stex', part)
    BY <1>6, <2>2, <2>3, <2>4
  <2>6. KnownStex' = part
    BY <1>3, <1>8, <2>3, WrittenIs DEF KnownStex
  <2>7. StexInv'
    BY <1>3, <2>5, <2>6 DEF StexInv
  <2>8. LineSnaps'
    <3>1. \A j \in 1..Len(snaps') : j \in 1..Len(snaps) /\ snaps'[j] = snaps[j]
      BY <2>1, SnapsBelow
    <3>2. PICK ss, o, p : ss \in Seq(SnapshotType) /\ ss = snaps' /\ o = out' /\ p = prog'
      BY <1>4
    <3>3. \A j \in 1..Len(ss) : ss[j].len["stex"] > 0 => NewLine(p["stex"][ss[j].len["stex"]])
      BY <1>3, <1>4, <2>2, <3>1, <3>2, SnapsLeft
    <3> QED
      BY <3>2, <3>3 DEF LineSnaps
  <2> QED
    BY <1>7, <2>5, <2>7, <2>8 DEF Tracks
<1>9. CASE /\ Kept /\ behind' = behind \cap {"stex"} /\ (Between \/ prog' = prog)
  <2>1. UNCHANGED <<out, snaps>> /\ b = out["stex"] /\ ("stex" \in behind' <=> "stex" \in behind)
    BY <1>3, <1>9 DEF Kept
  <2>2. Left(out["stex"], b)
    BY <1>4, <2>1 DEF Left, Buffers
  <2>3. PICK part \in Seq(Bytes) : part = PartOf(b) /\ Len(part) \in Nat
    BY <2>1, KnownStexIs
  <2>4. /\ LengthOf(b) <= stex'.cur /\ stex'.cur = Len(part) /\ stex'.bad = {}
        /\ Tracks(stex', KnownStex)
        /\ Boundary(KnownStex, Len(part)) \/ Len(part) = Len(KnownStex) =>
             Tracks(stex', part) /\ Tracks(stex', prog'["stex"])
    BY <1>6, <2>2, <2>3
  <2>5. StexInv'
    <3>1. CASE "stex" \notin behind
      <4>1. KnownStex = part /\ KnownStex' = part
        BY <2>1, <2>3, <3>1, WrittenIs DEF KnownStex
      <4>2. stex'.cur = Len(KnownStex') /\ Tracks(stex', KnownStex')
        BY <2>4, <4>1
      <4> QED
        BY <1>3, <2>4, <4>2 DEF StexInv
    <3>2. CASE "stex" \in behind
      <4>1. KnownStex = prog["stex"] /\ KnownStex' = prog'["stex"] /\ "stex" \in behind'
        BY <2>1, <3>2 DEF KnownStex
      <4>2. Tracks(stex', prog'["stex"])
        <5>1. CASE prog' = prog
          BY <2>4, <4>1, <5>1
        <5>2. CASE Between
          <6>1. Boundary(KnownStex, Len(part))
            <7>1. CASE Len(part) = 0
              BY <7>1 DEF Boundary
            <7>2. CASE Len(part) # 0
              <8>1. Written("stex") = part /\ part # <<>> /\ Len(part) \in 1..Len(part)
                BY <2>1, <2>3, <7>2, WrittenIs
              <8>2. NewLine(part[Len(part)])
                BY <5>2, <8>1 DEF Between, Last
              <8>3. Begins(part, KnownStex)
                BY <2>1, <2>3, KnownStexIs
              <8> QED
                BY <8>1, <8>2, <8>3 DEF Begins, Boundary
            <7> QED
              BY <7>1, <7>2
          <6> QED
            BY <2>4, <6>1
        <5> QED
          BY <1>9, <5>1, <5>2
      <4> QED
        BY <1>3, <2>4, <4>1, <4>2 DEF StexInv
    <3> QED
      BY <3>1, <3>2
  <2>6. LineSnaps'
    <3>1. PICK ss, o, p : ss \in Seq(SnapshotType) /\ ss = snaps' /\ o = out' /\ p = prog'
      BY <1>4
    <3>2. \A j \in 1..Len(ss) : j \in 1..Len(snaps) /\ ss[j] = snaps[j]
      BY <2>1, <3>1
    <3>3. \A j \in 1..Len(ss) : ss[j].len["stex"] > 0 => NewLine(p["stex"][ss[j].len["stex"]])
      BY <1>3, <1>4, <2>2, <3>1, <3>2, SnapsLeft
    <3> QED
      BY <3>1, <3>3 DEF LineSnaps
  <2> QED
    BY <1>7, <2>4, <2>5, <2>6 DEF Tracks
<1> QED
  BY <1>8, <1>9 DEF Rollback

LEMMA FinishAgainStex ==
  ASSUME Inv, StexInv, StopInv, LineSnaps, FinishAgain
  PROVE  StexInv' /\ StopInv' /\ LineSnaps' /\ Linear(stex')
<1>1. /\ Going /\ Popped(0) /\ stex' = LinesCut(stex, 0) /\ Fails(stex'.bad) /\ behind' = {}
  BY DEF FinishAgain
<1>2. Tracks(LinesCut(stex, 0), <<>>) /\ LinesCut(stex, 0).cur = 0
  BY <1>1, KnownStexIs, TracksNothing DEF StexInv
<1>3. 0 \in 0..Len(snaps) /\ snaps \in Seq(SnapshotType) /\ Len(snaps) \in Nat
  <2>1. snaps \in Seq(SnapshotType) /\ Len(snaps) \in Nat
    BY DEF Inv, Typed
  <2> QED
    BY <2>1
<1>4. out'["stex"] = Null
  BY <1>1, <1>3, PoppedKeeps DEF Files
<1>5. KnownStex' = <<>>
  BY <1>1, <1>4, NothingLeft, WrittenIs DEF KnownStex
<1>6. StexInv'
  <2>1. Len(<<>>) = 0 /\ LengthOf(Null) = -1
    BY DEF LengthOf
  <2> QED
    BY <1>1, <1>2, <1>4, <1>5, <2>1 DEF StexInv
<1>7. StopInv'
  <2>1. stex'.bad = {}
    BY <1>1, <1>2 DEF Tracks
  <2>2. aborted' = "no"
    BY <1>1, <2>1 DEF Fails
  <2> QED
    BY <2>1, <2>2 DEF StopInv
<1>8. LineSnaps'
  <2>1. snaps' = SubSeq(snaps, 1, 0 - 1)
    BY <1>1 DEF Popped
  <2>2. 0 - 1 <= 0 /\ 0 - 1 \in Int
    OBVIOUS
  <2>3. snaps' = <<>>
    BY <1>3, <2>1, <2>2, SubSeqEmpty
  <2> QED
    BY <2>3 DEF LineSnaps
<1> QED
  BY <1>1, <1>2, <1>6, <1>7, <1>8 DEF Tracks

(* A worker that ended has written all of its lines. *)
LEMMA FinishConvergedStex ==
  ASSUME Inv, StexInv, StopInv, LineSnaps, FinishConverged
  PROVE  StexInv' /\ StopInv' /\ LineSnaps'
<1>1. /\ Going /\ ended /\ Popped(Len(snaps))
      /\ behind' = behind \cup {f \in Files : out'[f] # out[f]}
      /\ UNCHANGED <<prog, stex, aborted>>
  BY DEF FinishConverged
<1>2. Len(snaps) \in 0..Len(snaps) /\ "stex" \in Files
  <2>1. Len(snaps) \in Nat
    BY DEF Inv, Typed
  <2> QED
    BY <2>1 DEF Files
<1>3. Inv'
  BY FinishConvergedInv
<1>4. PICK b : b = out'["stex"]
  OBVIOUS
<1>5. /\ b \in Buffers \cup {Null} /\ Left(out["stex"], b) /\ Buffered(b, prog["stex"])
      /\ Growing(snaps', out') /\ snaps' \in Seq(SnapshotType)
  <2>1. Left(out["stex"], b)
    BY <1>1, <1>2, <1>4, PoppedLines
  <2> QED
    BY <1>1, <1>2, <1>3, <1>4, <2>1 DEF Inv, Typed, TextInv
<1>6. LineSnaps'
  <2>1. \A j \in 1..Len(snaps') : j \in 1..Len(snaps) /\ snaps'[j] = snaps[j]
    BY <1>1, <1>2, SnapsBelow
  <2>2. PICK ss, o, p : ss \in Seq(SnapshotType) /\ ss = snaps' /\ o = out' /\ p = prog'
    BY <1>5
  <2>3. \A j \in 1..Len(ss) : ss[j].len["stex"] > 0 => NewLine(p["stex"][ss[j].len["stex"]])
    BY <1>1, <1>4, <1>5, <2>1, <2>2, SnapsLeft
  <2> QED
    BY <2>2, <2>3 DEF LineSnaps
<1>7. CASE "stex" \notin behind'
  <2>1. "stex" \notin behind /\ out'["stex"] = out["stex"]
    BY <1>1, <1>2, <1>7
  <2> QED
    BY <1>1, <1>6, <1>7, <2>1, StexKept DEF Going
<1>8. CASE "stex" \in behind'
  <2>1. KnownStex = prog["stex"]
    <3>1. CASE prog["stex"] = <<>>
      <4>1. out["stex"] = Null
        BY <1>2, <3>1 DEF Inv, TextInv, Buffered
      <4> QED
        BY <3>1, <4>1, NothingLeft, WrittenIs DEF KnownStex
    <3>2. CASE prog["stex"] # <<>>
      BY <1>1, <1>2, <3>2 DEF Inv, EndInv, KnownStex
    <3> QED
      BY <3>1, <3>2
  <2>2. KnownStex' = prog["stex"]
    BY <1>1, <1>8 DEF KnownStex
  <2>3. Tracks(stex, KnownStex) /\ LengthOf(out["stex"]) <= stex.cur /\ stex.cur \in Nat
    BY <1>1 DEF StexInv, Tracks
  <2>4. LengthOf(b) <= stex.cur
    <3>1. CASE b = Null
      BY <2>3, <3>1 DEF LengthOf
    <3>2. CASE b # Null
      <4>1. out["stex"] # Null /\ b.len <= out["stex"].len /\ b \in Buffers /\ out["stex"] \in Buffers
        BY <1>5, <3>2, KnownStexIs DEF Left
      <4>2. b.len \in Nat /\ out["stex"].len \in Nat /\ LengthOf(out["stex"]) = out["stex"].len
            /\ LengthOf(b) = b.len
        BY <3>2, <4>1 DEF Buffers, LengthOf
      <4> QED
        BY <2>3, <4>1, <4>2
    <3> QED
      BY <3>1, <3>2
  <2>5. StexInv'
    BY <1>1, <1>4, <1>8, <2>1, <2>2, <2>3, <2>4 DEF StexInv
  <2>6. StopInv'
    BY <1>8 DEF StopInv
  <2> QED
    BY <1>6, <2>5, <2>6
<1> QED
  BY <1>7, <1>8

LEMMA OthersStex ==
  ASSUME Inv, StexInv, StopInv, LineSnaps,
         AppendDocument \/ AppendLog \/ End \/ Render \/ SetTarget
  PROVE  StexInv' /\ StopInv' /\ LineSnaps'
<1>1. CASE AppendDocument \/ AppendLog
  <2>1. PICK f \in {"dvi", "log"} : \E n \in 1..Len(prog[f]) :
          /\ Append_(f, n) /\ (behind' = behind \/ behind' = behind \ {"dvi"}) /\ stex' = stex
          /\ aborted' # "search" \/ aborted' = aborted
    BY <1>1 DEF AppendDocument, AppendLog, Fails
  <2>2. PICK n \in 1..Len(prog[f]) : Append_(f, n)
    BY <2>1
  <2>3. f \in Files /\ "stex" \in Files /\ f # "stex"
    BY <2>1 DEF Files
  <2>4. out'["stex"] = out["stex"] /\ UNCHANGED <<prog, snaps>> /\ Going
    BY <2>2, <2>3, AppendKeeps
  <2>5. "stex" \in behind' <=> "stex" \in behind
    BY <2>1
  <2>6. aborted' # "search"
    BY <2>1, <2>4 DEF Going
  <2> QED
    BY <2>1, <2>4, <2>5, <2>6, StexKept, SnapsKept
<1>2. CASE End \/ Render \/ SetTarget
  <2>1. Going /\ UNCHANGED <<prog, out, snaps, stex, behind>> /\ aborted' # "search"
    BY <1>2 DEF End, Render, SetTarget, Going, Fails
  <2> QED
    BY <2>1, StexKept, SnapsKept
<1> QED
  BY <1>1, <1>2

-----------------------------------------------------------------------------
(* A search reads nothing of an output without lines. *)

Searching(q) ==
  /\ DOMAIN q = {"target", "found", "tag", "scanned", "best", "pending"}
  /\ q.tag \in Nat /\ q.scanned \in Nat

LEMMA SheetsCounted ==
  ASSUME NEW s, Linear(s)
  PROVE  SheetCount(s) \in Nat /\ Len(s.inputs) \in Nat /\ s.inputs \in Seq(Int)
<1>1. Len(s.pages) \in Nat /\ Len(s.inputs) \in Nat /\ s.inputs \in Seq(Int)
  BY DEF Linear
<1>2. PICK n \in Nat : n = Len(s.pages)
  BY <1>1
<1>3. n \div 2 \in Nat
  OBVIOUS
<1> QED
  BY <1>1, <1>2, <1>3 DEF SheetCount

LEMMA MinOf ==
  ASSUME NEW S \in SUBSET Nat, S # {}
  PROVE  Min(S) \in S
<1>1. \E x \in S : \A y \in S : x <= y
  BY LeastExists
<1> QED
  BY <1>1 DEF Min

LEMMA CutSearches ==
  ASSUME NEW q, Searching(q), NEW s, Linear(s)
  PROVE  Searching(SearchCut(q, s))
<1>1. SheetCount(s) \in Nat /\ Len(s.inputs) \in Nat
  BY SheetsCounted
<1>2. Min({q.scanned, SheetCount(s)}) \in Nat
  <2>1. {q.scanned, SheetCount(s)} \in SUBSET Nat
    BY <1>1 DEF Searching
  <2>2. Min({q.scanned, SheetCount(s)}) \in {q.scanned, SheetCount(s)}
    BY <2>1, MinOf
  <2> QED
    BY <2>1, <2>2
<1>3. PICK cut : cut = [q EXCEPT !.scanned = Min({q.scanned, SheetCount(s)})]
  OBVIOUS
<1>4. Searching(cut)
  BY <1>2, <1>3 DEF Searching
<1>5. Searching([cut EXCEPT !.best = NoCandidate, !.pending = FALSE])
  BY <1>4 DEF Searching
<1>6. Searching([q EXCEPT !.tag = Len(s.inputs), !.found = FALSE])
  BY <1>1 DEF Searching
<1>7. SearchCut(q, s) \in {q, [q EXCEPT !.tag = Len(s.inputs), !.found = FALSE], cut,
                           [cut EXCEPT !.best = NoCandidate, !.pending = FALSE]}
  BY <1>3 DEF SearchCut
<1> QED
  BY <1>4, <1>5, <1>6, <1>7

LEMMA InputSearches ==
  ASSUME NEW q, Searching(q), NEW s, Linear(s), NEW mem
  PROVE  Searching(InputFound(q, s, mem))
<1>1. PICK n, sheets : n = Len(s.inputs) /\ n \in Nat /\ sheets = SheetCount(s) /\ sheets \in Nat
                       /\ DOMAIN s.inputs = 1..n
  BY SheetsCounted
<1>2. PICK tag \in Nat : tag = q.tag
  BY DEF Searching
<1>3. PICK named : named = {i \in DOMAIN s.inputs :
                              i > q.tag /\ mem[Abs(s.inputs[i]) + 1].arg = q.target.input}
  OBVIOUS
<1>4. CASE q.found
  BY <1>4 DEF InputFound
<1>5. CASE ~q.found /\ named = {}
  <2>1. InputFound(q, s, mem) = [q EXCEPT !.tag = Len(s.inputs)]
    BY <1>3, <1>5 DEF InputFound
  <2> QED
    BY <1>1, <2>1 DEF Searching
<1>6. CASE ~q.found /\ named # {}
  <2>1. named \in SUBSET Nat /\ \A i \in named : i > tag
    BY <1>1, <1>2, <1>3
  <2>2. PICK least \in named : least = Min(named)
    BY <1>6, <2>1, MinOf
  <2>3. least - 1 \in Nat
    BY <1>2, <2>1, <2>2
  <2>4. PICK before : before = {p \in 1..SheetCount(s) : s.pages[2 * p] < Abs(s.inputs[Min(named)])}
    OBVIOUS
  <2>5. Cardinality(before) \in Nat
    <3>1. IsFiniteSet(1..sheets)
      BY <1>1, FS_Interval
    <3>2. before \subseteq 1..sheets
      BY <1>1, <2>4
    <3>3. IsFiniteSet(before)
      BY <3>1, <3>2, FS_Subset
    <3> QED
      BY <3>3, FS_CardinalityType
  <2>6. InputFound(q, s, mem) =
          [q EXCEPT !.tag = least - 1, !.found = TRUE, !.best = NoCandidate, !.pending = FALSE,
                    !.scanned = Cardinality(before)]
    BY <1>3, <1>6, <2>2, <2>4 DEF InputFound
  <2> QED
    BY <2>3, <2>5, <2>6 DEF Searching
<1> QED
  BY <1>4, <1>5, <1>6

LEMMA PageSearches ==
  ASSUME NEW q, Searching(q), NEW s, NEW mem
  PROVE  Searching(PageScanned(q, s, mem))
<1>1. PICK passed : passed = [q EXCEPT !.scanned = q.scanned + 1]
  OBVIOUS
<1>2. Searching(passed)
  BY <1>1 DEF Searching
<1>3. \A c : Searching([passed EXCEPT !.best = c, !.pending = TRUE])
  BY <1>2 DEF Searching
<1>4. \A c : Searching([passed EXCEPT !.best = c, !.pending = TRUE, !.target = Null])
  BY <1>2 DEF Searching
<1>5. \/ PageScanned(q, s, mem) = passed
      \/ \E c : PageScanned(q, s, mem) = [passed EXCEPT !.best = c, !.pending = TRUE]
      \/ \E c : PageScanned(q, s, mem) = [passed EXCEPT !.best = c, !.pending = TRUE, !.target = Null]
  BY <1>1 DEF PageScanned
<1> QED
  BY <1>2, <1>3, <1>4, <1>5

ScanBody(q, s, mem, g, p) ==
  IF p <= q.scanned THEN q
  ELSE LET r == g[p - 1] IN IF r.target = Null THEN r ELSE PageScanned(r, s, mem)

(* The pages of an index, searched one after the other *)
Scanning(q, s, mem, to, g) == g = [p \in 0..to |-> ScanBody(q, s, mem, g, p)]

LEMMA ScanningExists ==
  ASSUME NEW q, Searching(q), NEW s, NEW mem, NEW to \in Nat
  PROVE  \E g : Scanning(q, s, mem, to, g)
<1> DEFINE S == {n \in Nat : \E g : Scanning(q, s, mem, n, g)}
<1>1. 0 \in S
  <2>1. PICK g : g = [p \in 0..0 |-> q]
    OBVIOUS
  <2>2. \A p \in 0..0 : p <= q.scanned
    BY DEF Searching
  <2>3. Scanning(q, s, mem, 0, g)
    BY <2>1, <2>2 DEF Scanning, ScanBody
  <2> QED
    BY <2>3
<1>2. ASSUME NEW k \in Nat, k \in S
      PROVE  k + 1 \in S
  <2>1. PICK g : Scanning(q, s, mem, k, g)
    BY <1>2
  <2>2. PICK last : last = k + 1 /\ last \in Nat /\ last # 0 /\ last - 1 = k /\ k \in 0..k
    OBVIOUS
  <2>3. PICK h : h = [p \in 0..last |-> IF p = last THEN ScanBody(q, s, mem, g, last) ELSE g[p]]
    OBVIOUS
  <2>4. ASSUME NEW p \in 0..last
        PROVE  h[p] = ScanBody(q, s, mem, h, p)
    <3>1. p # 0 => h[p - 1] = g[p - 1]
      <4>1. p # 0 => p - 1 \in 0..last /\ p - 1 # last
        BY <2>2
      <4> QED
        BY <2>3, <4>1
    <3>2. h[p] = ScanBody(q, s, mem, g, p)
      <4>1. CASE p = last
        BY <2>2, <2>3, <4>1
      <4>2. CASE p # last
        <5>1. p \in 0..k /\ h[p] = g[p]
          BY <2>2, <2>3, <4>2
        <5> QED
          BY <2>1, <5>1 DEF Scanning
      <4> QED
        BY <4>1, <4>2
    <3>3. p = 0 => p <= q.scanned
      BY DEF Searching
    <3> QED
      BY <3>1, <3>2, <3>3, Zenon DEF ScanBody
  <2>5. Scanning(q, s, mem, k + 1, h)
    <3>1. h = [p \in 0..last |-> h[p]]
      BY <2>3
    <3> QED
      BY <2>2, <2>4, <3>1 DEF Scanning
  <2> QED
    BY <2>5
<1>3. \A n \in Nat : n \in S
  <2>1. \A n \in Nat : n \in S => n + 1 \in S
    BY <1>2
  <2> HIDE DEF S
  <2> QED
    BY <1>1, <2>1, Upward
<1> QED
  BY <1>3

(* Every scan of them is the one that was found. *)
LEMMA ScanningTyped ==
  ASSUME NEW q, Searching(q), NEW s, NEW mem, NEW to \in Nat, NEW g, Scanning(q, s, mem, to, g)
  PROVE  \A p \in 0..to : Searching(g[p])
<1>1. \A p \in 0..to : g[p] = ScanBody(q, s, mem, g, p)
  BY DEF Scanning
<1> DEFINE S == {n \in Nat : n <= to => Searching(g[n])}
<1>2. 0 \in S
  <2>1. 0 \in 0..to /\ 0 <= q.scanned
    BY DEF Searching
  <2>2. g[0] = q
    BY <1>1, <2>1 DEF ScanBody
  <2> QED
    BY <2>2
<1>3. ASSUME NEW k \in Nat, k \in S, k + 1 <= to
      PROVE  Searching(g[k + 1])
  <2>1. PICK p : p = k + 1 /\ p \in 0..to /\ p - 1 = k /\ k <= to
    BY <1>3
  <2>2. g[p] = ScanBody(q, s, mem, g, p)
    BY <1>1, <2>1
  <2>3. Searching(g[k]) /\ Searching(PageScanned(g[k], s, mem))
    BY <1>3, <2>1, PageSearches
  <2> QED
    BY <2>1, <2>2, <2>3 DEF ScanBody
<1>4. \A n \in Nat : n \in S
  <2>1. \A n \in Nat : n \in S => n + 1 \in S
    BY <1>3
  <2> HIDE DEF S
  <2> QED
    BY <1>2, <2>1, Upward
<1> QED
  BY <1>4

LEMMA PagesSearches ==
  ASSUME NEW q, Searching(q), NEW s, Linear(s), NEW mem
  PROVE  Searching(PagesScanned(q, s, mem))
<1>1. PICK sheets \in Nat : sheets = SheetCount(s)
  BY SheetsCounted
<1> DEFINE h == CHOOSE g : Scanning(q, s, mem, SheetCount(s), g)
<1>2. Scanning(q, s, mem, SheetCount(s), h)
  BY <1>1, ScanningExists
<1>3. PagesScanned(q, s, mem) = h[SheetCount(s)]
  BY DEF PagesScanned, Scanning, ScanBody
<1> HIDE DEF h
<1> QED
  BY <1>1, <1>2, <1>3, ScanningTyped

LEMMA StepSearches ==
  ASSUME NEW q, Searching(q), NEW s, Linear(s), NEW mem, NEW complete
  PROVE  Searching(SearchStep(q, s, mem, complete))
<1>1. PICK r : r = InputFound(q, s, mem)
  OBVIOUS
<1>2. PICK scanned : scanned = PagesScanned(r, s, mem)
  OBVIOUS
<1>3. Searching(r) /\ Searching(scanned)
  BY <1>1, <1>2, InputSearches, PagesSearches
<1>4. \A t : Searching([scanned EXCEPT !.target = t])
  BY <1>3 DEF Searching
<1>5. \A t : Searching([[scanned EXCEPT !.target = t] EXCEPT !.pending = FALSE])
  BY <1>3 DEF Searching
<1>6. \/ SearchStep(q, s, mem, complete) = r
      \/ \E t : SearchStep(q, s, mem, complete) = [scanned EXCEPT !.target = t]
      \/ \E t : SearchStep(q, s, mem, complete) = [[scanned EXCEPT !.target = t] EXCEPT !.pending = FALSE]
  BY <1>1, <1>2 DEF SearchStep
<1> QED
  BY <1>3, <1>4, <1>5, <1>6

-----------------------------------------------------------------------------
(* The steps of the search *)

LEMMA FindTargetStex ==
  ASSUME Inv, StexInv, StopInv, LineSnaps, Searching(search), FindTarget
  PROVE  StexInv' /\ StopInv' /\ LineSnaps' /\ Searching(search')
<1>1. Going /\ UNCHANGED <<prog, out, snaps, stex, behind>>
  BY DEF FindTarget
<1>2. LineSnaps'
  BY <1>1, SnapsKept
<1>3. Tracks(stex, KnownStex) /\ Linear(stex)
      /\ ("stex" \notin behind => stex.cur = Len(KnownStex))
  BY <1>1 DEF StexInv, Tracks
<1>4. CASE out["stex"] = Null /\ Reads(search, stex)
  <2>1. Fails({"search"}) /\ UNCHANGED search
    BY <1>4 DEF FindTarget
  <2>2. aborted' = "search"
    BY <2>1 DEF Fails
  <2>3. "stex" \in behind
    <3> SUFFICES ASSUME "stex" \notin behind PROVE FALSE
      OBVIOUS
    <3>1. PICK none \in Seq(Bytes) : none = KnownStex /\ none = <<>>
      BY <1>4, KnownStexIs, NothingLeft, WrittenIs DEF KnownStex
    <3>2. Len(none) = 0 /\ 0 \in 0..0 /\ stex.cur = 0
      BY <1>3, <3>1
    <3>3. Same(stex, After(none, 0))
      BY <1>3, <3>1, <3>2, NearBoundary DEF Tracks, Boundary
    <3>4. After(none, 0) = NoLines
      BY <3>2, AfterIs
    <3>5. stex.pages = <<>> /\ stex.inputs = <<>>
      BY <3>3, <3>4 DEF Same, NoLines
    <3>6. SheetCount(stex) = 0 /\ Len(stex.inputs) = 0
      BY <3>5 DEF SheetCount
    <3> QED
      BY <1>4, <3>6 DEF Reads, Searching
  <2>4. StexInv' /\ StopInv'
    BY <1>1, <2>2, <2>3 DEF StexInv, StopInv, Going
  <2> QED
    BY <1>2, <2>1, <2>4
<1>5. CASE ~(out["stex"] = Null /\ Reads(search, stex))
  <2>1. search' = SearchStep(search, stex, Buf("stex").mem, ended) /\ UNCHANGED aborted
    BY <1>5 DEF FindTarget
  <2>2. Searching(search')
    BY <1>3, <2>1, StepSearches
  <2>3. aborted' # "search"
    BY <1>1, <2>1 DEF Going
  <2> QED
    BY <1>1, <1>2, <2>2, <2>3, StexKept
<1> QED
  BY <1>4, <1>5

LEMMA SearchSteps ==
  ASSUME Inv, Searching(search), Going' => Linear(stex'),
         \/ \E f \in Files : Open(f)
         \/ AppendDocument \/ AppendLog \/ End \/ Snapshot \/ FinishConverged \/ Render \/ SetTarget
         \/ Linear(stex') /\ (AppendSynctex \/ Rollback \/ FinishAgain)
  PROVE  Searching(search')
<1>1. CASE \E f \in Files : Open(f)
  <2>1. search' \in {search, SearchCut(search, stex')} /\ Going'
    BY <1>1 DEF Open, Going
  <2> QED
    BY <2>1, CutSearches
<1>2. CASE AppendDocument \/ AppendLog \/ End \/ Snapshot \/ FinishConverged \/ Render
  <2>1. search' = search
    BY <1>2 DEF AppendDocument, AppendLog, End, Snapshot, FinishConverged, Render
  <2> QED
    BY <2>1
<1>3. CASE SetTarget
  <2>1. CASE search' = [search EXCEPT !.target = Null]
    BY <2>1 DEF Searching
  <2>2. CASE \E t \in Targets : search' = [search EXCEPT !.target = t, !.found = FALSE, !.tag = 0]
    <3>1. PICK t \in Targets : search' = [search EXCEPT !.target = t, !.found = FALSE, !.tag = 0]
      BY <2>2
    <3> QED
      BY <3>1 DEF Searching
  <2> QED
    BY <1>3, <2>1, <2>2 DEF SetTarget
<1>4. CASE Linear(stex') /\ (AppendSynctex \/ Rollback \/ FinishAgain)
  <2>1. search' \in {search, SearchCut(search, stex')}
    BY <1>4 DEF AppendSynctex, Rollback, Told, FinishAgain
  <2> QED
    BY <1>4, <2>1, CutSearches
<1> QED
  BY <1>1, <1>2, <1>3, <1>4

-----------------------------------------------------------------------------
LinesInv == StexInv /\ StopInv /\ LineSnaps /\ Searching(search)

LEMMA InitLines ==
  ASSUME Init
  PROVE  LinesInv
<1>1. /\ out = [f \in Files |-> Null] /\ snaps = <<>> /\ stex = NoLines /\ search = NoSearch
      /\ behind = {} /\ aborted = "no" /\ "stex" \in Files
  BY DEF Init, Files
<1>2. PICK none \in Seq(Bytes) : none = <<>> /\ Len(none) = 0
  <2>1. <<>> \in Seq(Bytes)
    OBVIOUS
  <2> QED
    BY <2>1
<1>3. KnownStex = none
  BY <1>1, <1>2, NothingLeft, WrittenIs DEF KnownStex
<1>4. Linear(stex) /\ stex.cur = 0 /\ stex.bol = 0 /\ stex.bad = {}
  BY <1>1, NoLinesLinear
<1>5. NearAt(stex, none, 0)
  <2>1. Same(stex, After(none, 0)) /\ 0 \in 0..Len(none)
    BY <1>1, <1>2, AfterIs DEF Same
  <2> QED
    BY <1>2, <2>1, NearItself
<1>6. LineStart(none, 0) = 0
  <2>1. LineStart(none, 0) \in 0..0
    BY LineStartIs
  <2> QED
    BY <2>1
<1>7. Tracks(stex, none)
  BY <1>2, <1>4, <1>5, <1>6 DEF Tracks
<1>8. LengthOf(out["stex"]) = -1
  BY <1>1 DEF LengthOf
<1>9. StexInv /\ StopInv
  BY <1>1, <1>2, <1>3, <1>4, <1>7, <1>8 DEF StexInv, StopInv
<1>10. LineSnaps
  BY <1>1 DEF LineSnaps
<1>11. Searching(search)
  BY <1>1 DEF Searching, NoSearch
<1> QED
  BY <1>9, <1>10, <1>11 DEF LinesInv

LEMMA NextLines ==
  ASSUME Inv, LinesInv, [Next]_vars
  PROVE  LinesInv'
<1>1. StexInv /\ StopInv /\ LineSnaps /\ Searching(search)
  BY DEF LinesInv
<1>2. ASSUME StexInv'
      PROVE  Going' => Linear(stex')
  BY <1>2 DEF StexInv, Tracks
<1>3. CASE UNCHANGED vars
  <2>1. UNCHANGED <<prog, out, snaps, stex, search, behind, aborted>>
    BY <1>3 DEF vars
  <2>2. KnownStex' = KnownStex
    BY <2>1, WrittenIs DEF KnownStex
  <2> QED
    BY <1>1, <2>1, <2>2 DEF LinesInv, StexInv, StopInv, LineSnaps, Going
<1>4. CASE \E f \in Files : Open(f)
  <2>1. StexInv' /\ StopInv' /\ LineSnaps'
    BY <1>1, <1>4, OpenStex
  <2> QED
    BY <1>1, <1>2, <1>4, <2>1, SearchSteps DEF LinesInv
<1>5. CASE AppendSynctex \/ Rollback \/ FinishAgain
  <2>1. StexInv' /\ StopInv' /\ LineSnaps' /\ Linear(stex')
    BY <1>1, <1>5, AppendStex, RollbackStex, FinishAgainStex
  <2> QED
    BY <1>1, <1>5, <2>1, SearchSteps DEF LinesInv
<1>6. CASE Snapshot \/ FinishConverged \/ AppendDocument \/ AppendLog \/ End \/ Render \/ SetTarget
  <2>1. StexInv' /\ StopInv' /\ LineSnaps'
    BY <1>1, <1>6, SnapshotStex, FinishConvergedStex, OthersStex
  <2> QED
    BY <1>1, <1>2, <1>6, <2>1, SearchSteps DEF LinesInv
<1>7. CASE FindTarget
  BY <1>1, <1>7, FindTargetStex DEF LinesInv
<1> QED
  BY <1>3, <1>4, <1>5, <1>6, <1>7 DEF Next

(* What the index says is what the complete lines say. *)
LEMMA LinesExact ==
  ASSUME Inv, LinesInv
  PROVE  SynctexExact
<1>1. stex.bad # {} \/ aborted = "search" => "stex" \in behind
  BY DEF LinesInv, StopInv
<1>2. ASSUME Going, "stex" \notin behind
      PROVE  LET text == Written("stex")
                 inputs == LineOffsets(text, {"input"})
                 closes == LineOffsets(text, {"/"})
                 closed == {text[closes[i] + 1].tag : i \in DOMAIN closes}
             IN  /\ stex.pages = LineOffsets(text, {"{", "}"})
                 /\ stex.inputs =
                      [i \in DOMAIN inputs |-> IF i \in closed THEN -inputs[i] ELSE inputs[i]]
  <2> DEFINE text == Written("stex")
  <2> DEFINE pages == LineOffsets(text, {"{", "}"})
  <2> DEFINE inputs == LineOffsets(text, {"input"})
  <2> DEFINE closes == LineOffsets(text, {"/"})
  <2> DEFINE closed == {text[closes[i] + 1].tag : i \in DOMAIN closes}
  <2>1. KnownStex = text
    BY <1>2 DEF KnownStex
  <2>2. closed = ClosedBy(text, closes)
    BY DEF ClosedBy
  <2>3. Clean(text) /\ text \in Seq(Bytes) => Tells(text, After(text, Len(text)), pages, inputs, closes)
    BY AfterTells
  <2> HIDE DEF text, pages, inputs, closes, closed
  <2>4. Clean(text) /\ text \in Seq(Bytes) /\ Len(text) \in Nat
    BY <2>1, KnownStexIs
  <2>5. Tracks(stex, text) /\ stex.cur = Len(text)
    BY <1>2, <2>1 DEF LinesInv, StexInv
  <2>6. PICK r : r = After(text, Len(text)) /\ Same(r, stex)
    <3>1. Len(text) \in 0..Len(text) /\ NearAt(stex, text, Len(text))
      BY <2>4, <2>5 DEF Tracks
    <3>2. Same(stex, After(text, Len(text)))
      BY <2>4, <3>1, NearBoundary
    <3> QED
      BY <3>2 DEF Same
  <2>7. Tells(text, r, pages, inputs, closes)
    BY <2>4, <2>3, <2>6
  <2>8. Tells(text, stex, pages, inputs, closes)
    BY <2>6, <2>7, TellsSame
  <2>9. stex.inputs \in Seq(Int) /\ inputs \in Seq(Nat) /\ Len(stex.inputs) = Len(inputs)
        /\ stex.pages = pages
        /\ \A k \in 1..Len(inputs) : stex.inputs[k] = IF k \in closed THEN -inputs[k] ELSE inputs[k]
    BY <2>5, <2>2, <2>8 DEF Tells, Tracks, Linear
  <2>10. DOMAIN inputs = 1..Len(inputs) /\ stex.inputs = [i \in 1..Len(inputs) |-> stex.inputs[i]]
    BY <2>9
  <2>11. stex.inputs = [i \in DOMAIN inputs |-> IF i \in closed THEN -inputs[i] ELSE inputs[i]]
    BY <2>9, <2>10
  <2> QED
    BY <2>9, <2>11 DEF text, pages, inputs, closes, closed
<1> QED
  BY <1>1, <1>2 DEF SynctexExact

(* The index of the SyncTeX output is that of its complete lines: pages,     *)
(* inputs, and which of them are closed, whatever was written, cut in the    *)
(* middle of a line by a pass that converged, cut by a rollback and written  *)
(* again (synctex_update, synctex_rollback); no line and no search stops the *)
(* driver, but after such a pass.                                            *)
THEOREM IndexTellsTheLines == Spec => []SynctexExact
<1>1. Init => Inv /\ LinesInv
  BY InitInv, InitLines
<1>2. Inv /\ LinesInv /\ [Next]_vars => Inv' /\ LinesInv'
  BY NextInv, NextLines
<1>3. Inv /\ LinesInv => SynctexExact
  BY LinesExact
<1> QED
  BY <1>1, <1>2, <1>3, PTL DEF Spec
=============================================================================
