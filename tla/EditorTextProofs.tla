-------------------------- MODULE EditorTextProofs --------------------------
(* Proofs about EditorText: TeX has read nothing that is not in the files,    *)
(* whatever the editor changes, and what is delayed fits its buffer.          *)
EXTENDS EditorText, FiniteSetTheorems, SequenceTheorems, WellFoundedInduction, TLAPS

-----------------------------------------------------------------------------
(* The inductive invariant *)

(* Bytes, as the encoding makes them *)
Byte == {b \in STRING \X Nat : b[2] \in 1..Width(b[1])}

Data == Seq(Byte)

Bases == {"byte", "line", "range"}

(* What the editor may send *)
Ops == {op \in [path : Paths, base : Bases, at : UNION {ChangesBy(base) : base \in Bases}, data : Data] :
          op.at \in ChangesBy(op.base)}

(* What TeX observes *)
Entries == Byte \cup {<<"missing", 0>>, <<"open", 0>>, <<"end", 0>>}

DriverType == [edit : [Names -> Data \cup {Null}], observed : [Names -> Seq(Entries)]]

(* What the driver has, and what TeX has read of it *)
Current(d) ==
  /\ d \in DriverType
  /\ \A n \in Names : IsPrefix(d.observed[n], History(EntryData(d.edit, n)))

Inv ==
  /\ Current(Driver)
  /\ loaded \subseteq DOMAIN Disk \cap Names
  /\ delayed \in Seq(Ops)

-----------------------------------------------------------------------------
(* Numbers *)

(* A set of naturals that is not empty has a least element. *)
LEMMA LeastExists ==
  ASSUME NEW S, S \subseteq Nat, S # {}
  PROVE  \E n \in S : \A m \in S : n <= m
<1>1. \E n \in S : \A m \in S : ~(<<m, n>> \in OpToRel(<, Nat))
  BY WFMin, NatLessThanWellFounded, Zenon
<1>2. PICK n \in S : \A m \in S : ~(<<m, n>> \in OpToRel(<, Nat))
  BY <1>1, Zenon
<1>3. \A m \in S : ~(m < n)
  <2> SUFFICES ASSUME NEW m \in S, m < n PROVE FALSE
    OBVIOUS
  <2>1. <<m, n>> \in Nat \X Nat
    OBVIOUS
  <2>2. <<m, n>> \in OpToRel(<, Nat)
    BY <2>1, Zenon DEF OpToRel
  <2> QED
    BY <2>2, <1>2
<1> QED
  BY <1>3

(* What holds at 0 and is kept by steps holds up to a bound. *)
LEMMA StepsHold ==
  ASSUME NEW n \in Nat, NEW S, 0 \in S, \A k \in 0..n - 1 : k \in S => k + 1 \in S
  PROVE  n \in S
<1> DEFINE T == {k \in 0..n : k \notin S}
<1> SUFFICES ASSUME n \notin S PROVE FALSE
  OBVIOUS
<1>1. n \in T /\ T \subseteq Nat
  OBVIOUS
<1>2. PICK k \in T : \A m \in T : k <= m
  BY <1>1, LeastExists, Zenon
<1>3. k # 0 /\ k \in 0..n
  BY <1>2
<1>4. k - 1 \in 0..n - 1 /\ k - 1 \notin T
  BY <1>2, <1>3
<1> QED
  BY <1>2, <1>3, <1>4

-----------------------------------------------------------------------------
(* Sequences one after the other *)

(* The function that FlattenSeq chooses *)
Flat(ss, f) ==
  f = [i \in 1..Len(ss) |-> IF i = 1 THEN ss[i] ELSE f[i - 1] \o ss[i]]

LEMMA FlatExists ==
  ASSUME NEW ss, Len(ss) \in Nat
  PROVE  \E f : Flat(ss, f)
<1> DEFINE Laid(f, m) == f = [i \in 1..m |-> IF i = 1 THEN ss[i] ELSE f[i - 1] \o ss[i]]
           S == {m \in 0..Len(ss) : \E f : Laid(f, m)}
<1>1. \E f : Laid(f, 0)
  <2>1. PICK f : f = [i \in 1..0 |-> ss[i]]
    OBVIOUS
  <2>2. Laid(f, 0)
    BY <2>1
  <2> QED
    BY <2>2, Zenon
<1>2. ASSUME NEW m \in 0..Len(ss) - 1, NEW f, Laid(f, m) PROVE \E g : Laid(g, m + 1)
  <2>1. PICK v : v = IF m = 0 THEN ss[1] ELSE f[m] \o ss[m + 1]
    OBVIOUS
  <2>2. PICK g : g = [i \in 1..m + 1 |-> IF i = m + 1 THEN v ELSE f[i]]
    OBVIOUS
  <2>3. \A i \in 1..m : f[i] = IF i = 1 THEN ss[i] ELSE f[i - 1] \o ss[i]
    BY <1>2
  <2>4. ASSUME NEW i \in 1..m + 1
        PROVE  g[i] = IF i = 1 THEN ss[i] ELSE g[i - 1] \o ss[i]
    <3>1. CASE i = m + 1
      BY <3>1, <2>1, <2>2
    <3>2. CASE i # m + 1
      <4>1. i \in 1..m /\ g[i] = f[i] /\ (i # 1 => g[i - 1] = f[i - 1])
        BY <3>2, <2>2
      <4> QED
        BY <4>1, <2>3
    <3> QED
      BY <3>1, <3>2
  <2>5. g = [i \in 1..m + 1 |-> g[i]]
    BY <2>2
  <2>6. Laid(g, m + 1)
    BY <2>4, <2>5, Zenon
  <2> QED
    BY <2>6, Zenon
<1> HIDE DEF Laid
<1>3. 0 \in S /\ \A m \in 0..Len(ss) - 1 : m \in S => m + 1 \in S
  BY <1>1, <1>2
<1> HIDE DEF S
<1>4. Len(ss) \in S
  BY <1>3, StepsHold
<1> QED
  BY <1>4 DEF S, Laid, Flat

LEMMA FlattenSeqIs ==
  ASSUME NEW ss, Len(ss) \in Nat, Len(ss) # 0
  PROVE  \E f : Flat(ss, f) /\ FlattenSeq(ss) = f[Len(ss)]
<1>1. PICK f : f = CHOOSE h : Flat(ss, h)
  OBVIOUS
<1>2. Flat(ss, f)
  BY <1>1, FlatExists
<1>3. FlattenSeq(ss) = f[Len(ss)]
  BY <1>1 DEF FlattenSeq, Flat
<1> QED
  BY <1>2, <1>3

LEMMA FlattenTyped ==
  ASSUME NEW S, NEW ss \in Seq(Seq(S))
  PROVE  FlattenSeq(ss) \in Seq(S)
<1>1. CASE Len(ss) = 0
  <2>1. ss = <<>>
    BY <1>1
  <2> QED
    BY <1>1, <2>1 DEF FlattenSeq
<1>2. CASE Len(ss) # 0
  <2>1. PICK f : Flat(ss, f) /\ FlattenSeq(ss) = f[Len(ss)]
    BY <1>2, FlattenSeqIs
  <2> DEFINE T == {k \in 0..Len(ss) : k = 0 \/ f[k] \in Seq(S)}
  <2>2. \A i \in 1..Len(ss) : f[i] = IF i = 1 THEN ss[i] ELSE f[i - 1] \o ss[i]
    BY <2>1, Zenon DEF Flat
  <2>3. 0 \in T
    OBVIOUS
  <2>4. ASSUME NEW k \in 0..Len(ss) - 1, k \in T PROVE k + 1 \in T
    <3>1. ss[k + 1] \in Seq(S)
      OBVIOUS
    <3>2. CASE k = 0
      BY <3>1, <3>2, <2>2
    <3>3. CASE k # 0
      <4>0. PICK i \in 1..Len(ss) : i = k + 1 /\ i # 1
        BY <3>3
      <4>5. f[i] = f[i - 1] \o ss[i]
        BY <4>0, <2>2
      <4>1. f[k] \in Seq(S) /\ f[k + 1] = f[k] \o ss[k + 1]
        BY <2>4, <3>3, <4>0, <4>5
      <4>2. PICK x \in Seq(S), y \in Seq(S) : x = f[k] /\ y = ss[k + 1]
        BY <3>1, <4>1
      <4>3. x \o y \in Seq(S)
        OBVIOUS
      <4>4. f[k + 1] \in Seq(S)
        BY <4>1, <4>2, <4>3
      <4> QED
        BY <4>4
    <3> QED
      BY <3>2, <3>3
  <2> HIDE DEF T
  <2>5. Len(ss) \in T
    BY <2>3, <2>4, StepsHold
  <2> QED
    BY <1>2, <2>1, <2>5 DEF T
<1> QED
  BY <1>1, <1>2

-----------------------------------------------------------------------------
(* Bytes *)

LEMMA EncodedTyped ==
  ASSUME NEW chars \in Seq(STRING)
  PROVE  Encoded(chars) \in Data
<1>1. \A c \in STRING : Bytes(c) \in Seq(Byte)
  <2> SUFFICES ASSUME NEW c \in STRING PROVE Bytes(c) \in Seq(Byte)
    OBVIOUS
  <2>1. PICK w \in Nat : w = Width(c) /\ w \in 1..4
    BY DEF Width
  <2>2. \A i \in 1..w : <<c, i>> \in Byte
    <3> SUFFICES ASSUME NEW i \in 1..w PROVE <<c, i>> \in Byte
      OBVIOUS
    <3>1. PICK b : b = <<c, i>>
      OBVIOUS
    <3>4. i \in Nat /\ b[1] = c /\ b[2] = i
      BY <3>1
    <3>2. b \in STRING \X Nat /\ b[1] = c /\ b[2] = i
      BY <3>1, <3>4, Zenon
    <3>3. b[2] \in 1..Width(b[1])
      BY <2>1, <3>2
    <3> QED
      BY <3>1, <3>2, <3>3 DEF Byte
  <2>3. PICK f : f = [i \in 1..w |-> <<c, i>>]
    OBVIOUS
  <2>4. DOMAIN f = 1..w /\ \A i \in 1..w : f[i] \in Byte
    BY <2>2, <2>3
  <2>5. f \in [1..w -> Byte]
    BY <2>3, <2>4, Zenon
  <2>6. f \in Seq(Byte)
    BY <2>1, <2>5, SeqDef, Zenon
  <2> QED
    BY <2>1, <2>3, <2>6, Zenon DEF Bytes
<1>2. PICK ss : ss = [i \in DOMAIN chars |-> Bytes(chars[i])]
  OBVIOUS
<1>3. ss \in Seq(Seq(Byte))
  <2>1. PICK n \in Nat : DOMAIN chars = 1..n
    OBVIOUS
  <2>2. \A i \in 1..n : chars[i] \in STRING
    BY <2>1
  <2>3. PICK T : T = Seq(Byte)
    OBVIOUS
  <2>4. ss \in [1..n -> T]
    BY <1>1, <1>2, <2>1, <2>2, <2>3, Zenon
  <2>5. ss \in Seq(T)
    BY <2>1, <2>4, SeqDef, Zenon
  <2> QED
    BY <2>3, <2>5
<1>4. FlattenSeq(ss) \in Seq(Byte)
  BY <1>3, FlattenTyped
<1> QED
  BY <1>2, <1>4, Zenon DEF Encoded, Data


LEMMA ByteIs ==
  ASSUME NEW b \in Byte
  PROVE  b \in STRING \X Nat /\ b[2] > 0
BY DEF Byte

LEMMA FsDataTyped ==
  ASSUME NEW n
  PROVE  /\ FsData(n) \in Data \cup {Null}
         /\ n \in DOMAIN Disk => FsData(n) \in Data
BY EncodedTyped, EditorTextAssumption DEF FsData

LEMMA DataNotNull ==
  ASSUME NEW mem \in Data
  PROVE  mem # Null
<1>1. Byte \subseteq STRING \X Nat
  BY DEF Byte
<1>2. mem \in Seq(STRING \X Nat)
  BY <1>1 DEF Data
<1> QED
  BY <1>2, NullAssumption

(* What is sent, for each kind of position *)
LEMMA OpIs ==
  ASSUME NEW op \in Ops
  PROVE  /\ op.path \in Paths /\ op.path \in Seq(STRING) /\ op.data \in Data /\ op.base \in Bases
         /\ op.base \in {"byte", "line"} => op.at.offset \in Nat /\ op.at.remove \in Nat
         /\ op.base = "range" => /\ op.at.line \in Nat /\ op.at.column \in Nat
                                 /\ op.at.endLine \in Nat /\ op.at.endColumn \in Nat
<1>1. op.path \in Paths /\ op.data \in Data /\ op.base \in Bases /\ op.at \in ChangesBy(op.base)
  BY DEF Ops
<1>2. MaxLine \in Nat /\ MaxColumn \in Nat /\ Paths \subseteq Seq(STRING)
  BY EditorTextAssumption
<1>3. op.base = "byte" => op.at.offset \in Nat /\ op.at.remove \in Nat
  BY <1>1, <1>2 DEF ChangesBy
<1>4. op.base = "line" => op.at.offset \in Nat /\ op.at.remove \in Nat
  BY <1>1, <1>2 DEF ChangesBy
<1>5. op.base = "range" => /\ op.at.line \in Nat /\ op.at.column \in Nat
                           /\ op.at.endLine \in Nat /\ op.at.endColumn \in Nat
  BY <1>1, <1>2 DEF ChangesBy
<1> QED
  BY <1>1, <1>2, <1>3, <1>4, <1>5

-----------------------------------------------------------------------------
(* Histories *)

(* What a prefix is *)
LEMMA PrefixIs ==
  ASSUME NEW S, NEW T, NEW s \in Seq(S), NEW t \in Seq(T)
  PROVE  IsPrefix(s, t) <=> Len(s) <= Len(t) /\ \A i \in 1..Len(s) : s[i] = t[i]
BY DEF IsPrefix

LEMMA PrefixCut ==
  ASSUME NEW S, NEW s \in Seq(S), NEW t \in Seq(S), NEW k \in Nat, k <= Len(s), k <= Len(t),
         \A i \in 1..k : s[i] = t[i]
  PROVE  SubSeq(s, 1, k) \in Seq(S) /\ IsPrefix(SubSeq(s, 1, k), t)
<1>1. PICK g : g = SubSeq(s, 1, k)
  OBVIOUS
<1>2. g \in Seq(S) /\ Len(g) = k /\ \A i \in 1..k : g[i] = s[i]
  BY <1>1
<1> QED
  BY <1>1, <1>2, PrefixIs

LEMMA EmptyPrefix ==
  ASSUME NEW S, NEW t \in Seq(S)
  PROVE  <<>> \in Seq(S) /\ IsPrefix(<<>>, t)
<1>1. PICK e : e = <<>>
  OBVIOUS
<1>2. e \in Seq(S) /\ Len(e) = 0
  BY <1>1
<1>3. Len(e) <= Len(t) /\ \A i \in 1..Len(e) : e[i] = t[i]
  BY <1>2
<1>4. IsPrefix(e, t)
  BY <1>2, <1>3, PrefixIs
<1> QED
  BY <1>1, <1>2, <1>4

LEMMA HistoryIs ==
  ASSUME NEW mem \in Data
  PROVE  /\ History(mem) \in Seq(Entries) /\ Len(History(mem)) = Len(mem) + 2
         /\ History(mem)[1] = <<"open", 0>>
         /\ \A i \in 1..Len(mem) : History(mem)[i + 1] = mem[i]
         /\ History(mem)[Len(mem) + 2] = <<"end", 0>>
<1>1. mem # Null
  BY DataNotNull
<1>2. PICK S : S = Entries
  OBVIOUS
<1>3. Byte \subseteq S
  BY <1>2 DEF Entries
<1>4. PICK a, z : a = <<"open", 0>> /\ z = <<"end", 0>>
  OBVIOUS
<1>5. a \in S /\ z \in S /\ mem \in Seq(S)
  BY <1>2, <1>3, <1>4 DEF Data, Entries
<1>6. History(mem) = <<a>> \o mem \o <<z>>
  BY <1>1, <1>4 DEF History
<1>7. /\ <<a>> \o mem \o <<z>> \in Seq(S) /\ Len(<<a>> \o mem \o <<z>>) = Len(mem) + 2
      /\ (<<a>> \o mem \o <<z>>)[1] = a
      /\ \A i \in 1..Len(mem) : (<<a>> \o mem \o <<z>>)[i + 1] = mem[i]
      /\ (<<a>> \o mem \o <<z>>)[Len(mem) + 2] = z
  BY <1>5
<1> QED
  BY <1>2, <1>4, <1>6, <1>7

LEMMA HistoryTyped ==
  ASSUME NEW mem \in Data \cup {Null}
  PROVE  History(mem) \in Seq(Entries)
<1>1. CASE mem = Null
  <2>1. PICK S, x : S = Entries /\ x = <<"missing", 0>>
    OBVIOUS
  <2>2. x \in S
    BY <2>1 DEF Entries
  <2>3. <<x>> \in Seq(S)
    BY <2>2
  <2> QED
    BY <1>1, <2>1, <2>3, Zenon DEF History
<1>2. CASE mem \in Data
  BY <1>2, HistoryIs
<1> QED
  BY <1>1, <1>2

LEMMA SeenAtLeast ==
  ASSUME NEW h \in Seq(Entries)
  PROVE  Seen(h) \in Int /\ (Seen(h) >= 0 <=> h # <<>>)
<1> DEFINE I == {i \in DOMAIN h : h[i][2] > 0}
<1>5. I \subseteq 1..Len(h) /\ Len(h) \in Nat
  OBVIOUS
<1> HIDE DEF I
<1>1. IsFiniteSet(1..Len(h))
  BY <1>5, FS_Interval
<1>2. IsFiniteSet(I)
  BY <1>1, <1>5, FS_Subset
<1>3. Cardinality(I) \in Nat
  BY <1>2, FS_CardinalityType
<1>4. Seen(h) = IF h = <<>> THEN -1 ELSE Cardinality(I)
  BY DEF Seen, I
<1> QED
  BY <1>3, <1>4

(* How much was seen of a file that exists *)
LEMMA SeenIs ==
  ASSUME NEW mem \in Data, NEW h \in Seq(Entries), h # <<>>, IsPrefix(h, History(mem))
  PROVE  Seen(h) = IF Len(h) <= Len(mem) + 1 THEN Len(h) - 1 ELSE Len(mem)
<1>1. Len(h) <= Len(mem) + 2 /\ \A i \in 1..Len(h) : h[i] = History(mem)[i]
  BY PrefixIs, HistoryIs
<1>2. Len(mem) \in Nat /\ \A i \in 1..Len(mem) : mem[i] \in Byte
  BY DEF Data
<1>3. PICK n \in Nat : n = IF Len(h) <= Len(mem) + 1 THEN Len(h) ELSE Len(mem) + 1
  BY <1>2
<1>4. \A i \in 2..n : h[i][2] > 0
  <2> SUFFICES ASSUME NEW i \in 2..n PROVE h[i][2] > 0
    OBVIOUS
  <2>1. i - 1 \in 1..Len(mem) /\ i \in 1..Len(h)
    BY <1>1, <1>2, <1>3
  <2>2. History(mem)[(i - 1) + 1] = mem[i - 1] /\ (i - 1) + 1 = i
    BY <2>1, HistoryIs
  <2>3. h[i] = mem[i - 1]
    BY <1>1, <2>1, <2>2
  <2> QED
    BY <1>2, <2>1, <2>3, ByteIs
<1>5. h[1][2] = 0 /\ 1 \in 1..Len(h)
  BY <1>1, HistoryIs
<1>6. Len(h) = Len(mem) + 2 => h[Len(mem) + 2][2] = 0
  <2>1. PICK m \in Nat : m = Len(mem) + 2
    BY <1>2
  <2>2. Len(h) = m => h[m] = History(mem)[m]
    BY <1>1, <2>1
  <2>3. History(mem)[m] = <<"end", 0>>
    BY <2>1, HistoryIs
  <2> QED
    BY <2>1, <2>2, <2>3
<1>7. {i \in DOMAIN h : h[i][2] > 0} = 2..n
  <2>1. ASSUME NEW i \in DOMAIN h, h[i][2] > 0 PROVE i \in 2..n
    BY <1>1, <1>2, <1>3, <1>5, <1>6, <2>1
  <2>2. 2..n \subseteq DOMAIN h
    BY <1>1, <1>2, <1>3
  <2> QED
    BY <1>4, <2>1, <2>2
<1>8. n > 0
  BY <1>2, <1>3
<1>9. Cardinality(2..n) = n - 1
  BY <1>8, FS_Interval
<1>10. Seen(h) = n - 1
  BY <1>7, <1>9, Zenon DEF Seen
<1> QED
  BY <1>2, <1>3, <1>10

(* Going back before what differs, as far as it was seen *)
LEMMA Diverge ==
  ASSUME NEW mem \in Data, NEW data \in Data, NEW k \in Nat, k <= Len(mem), k <= Len(data),
         \A i \in 1..k : mem[i] = data[i],
         NEW h \in Seq(Entries), IsPrefix(h, History(mem))
  PROVE  /\ IsPrefix(IF Seen(h) >= k THEN SubSeq(h, 1, k) ELSE h, History(data))
         /\ Seen(h) >= k => SubSeq(h, 1, k) \in Seq(Entries)
<1>1. Len(h) <= Len(mem) + 2 /\ \A i \in 1..Len(h) : h[i] = History(mem)[i]
  BY PrefixIs, HistoryIs
<1>2. Len(mem) \in Nat /\ Len(data) \in Nat /\ Len(h) \in Nat
  BY DEF Data
<1>3. \A i \in 1..k + 1 : History(mem)[i] = History(data)[i]
  <2> SUFFICES ASSUME NEW i \in 1..k + 1 PROVE History(mem)[i] = History(data)[i]
    OBVIOUS
  <2>1. CASE i = 1
    BY <2>1, HistoryIs
  <2>2. CASE i # 1
    <3>1. i - 1 \in 1..k /\ i - 1 \in 1..Len(mem) /\ i - 1 \in 1..Len(data) /\ (i - 1) + 1 = i
      BY <1>2, <2>2
    <3>2. History(mem)[(i - 1) + 1] = mem[i - 1] /\ History(data)[(i - 1) + 1] = data[i - 1]
      BY <3>1, HistoryIs
    <3> QED
      BY <3>1, <3>2
  <2> QED
    BY <2>1, <2>2
<1>5. CASE Seen(h) >= k
  <2>1. h # <<>>
    BY <1>5, SeenAtLeast
  <2>2. Len(h) >= k
    BY <1>2, <1>5, <2>1, SeenIs
  <2>3. \A i \in 1..k : h[i] = History(data)[i]
    BY <1>1, <1>2, <1>3, <2>2
  <2>4. k <= Len(History(data)) /\ History(data) \in Seq(Entries)
    BY <1>2, HistoryIs
  <2>5. SubSeq(h, 1, k) \in Seq(Entries) /\ IsPrefix(SubSeq(h, 1, k), History(data))
    BY <2>2, <2>3, <2>4, PrefixCut, Zenon
  <2> QED
    BY <1>5, <2>5
<1>6. CASE ~(Seen(h) >= k)
  <2>1. Len(h) <= k
    BY <1>1, <1>2, <1>6, SeenIs
  <2>2. \A i \in 1..Len(h) : h[i] = History(data)[i]
    BY <1>1, <1>2, <1>3, <2>1
  <2>4. Len(h) <= Len(History(data)) /\ History(data) \in Seq(Entries)
    BY <1>2, <2>1, HistoryIs
  <2>3. IsPrefix(h, History(data))
    BY <2>2, <2>4, PrefixIs, Zenon
  <2> QED
    BY <1>6, <2>3
<1> QED
  BY <1>5, <1>6

-----------------------------------------------------------------------------
(* Changes *)

LEMMA FindDiffIs ==
  ASSUME NEW mem \in Data, NEW data \in Data
  PROVE  /\ FindDiff(mem, data) \in Nat
         /\ FindDiff(mem, data) <= Len(mem) /\ FindDiff(mem, data) <= Len(data)
         /\ \A i \in 1..FindDiff(mem, data) : mem[i] = data[i]
<1> DEFINE C == CommonPrefixes({mem, data})
           L == {Len(mem) - Len(p) : p \in C}
<1>0. mem \in Seq(Byte) /\ data \in Seq(Byte)
  BY DEF Data
<1>1. ASSUME NEW p \in C
      PROVE  /\ p \in Seq(Byte) /\ Len(p) \in Nat /\ Len(p) <= Len(mem) /\ Len(p) <= Len(data)
             /\ \A i \in 1..Len(p) : mem[i] = data[i]
  <2>1. PICK s \in {mem, data} : p \in {SubSeq(s, 1, l) : l \in 0..Len(s)}
    BY <1>1 DEF CommonPrefixes, Prefixes
  <2>2. PICK l \in 0..Len(s) : p = SubSeq(s, 1, l)
    BY <2>1
  <2>3. s \in Seq(Byte)
    BY <1>0, <2>1
  <2>4. p \in Seq(Byte)
    BY <2>2, <2>3
  <2>5. IsPrefix(p, mem) /\ IsPrefix(p, data)
    BY <1>1 DEF CommonPrefixes
  <2>6. /\ Len(p) <= Len(mem) /\ \A i \in 1..Len(p) : p[i] = mem[i]
        /\ Len(p) <= Len(data) /\ \A i \in 1..Len(p) : p[i] = data[i]
    BY <1>0, <2>4, <2>5, PrefixIs
  <2> QED
    BY <2>4, <2>6
<1>2. <<>> \in C
  <2>2. <<>> = SubSeq(mem, 1, 0) /\ 0 \in 0..Len(mem)
    BY <1>0
  <2>3. <<>> \in Prefixes(mem)
    BY <2>2 DEF Prefixes
  <2>4. IsPrefix(<<>>, mem) /\ IsPrefix(<<>>, data)
    BY <1>0, EmptyPrefix
  <2> QED
    BY <2>3, <2>4 DEF CommonPrefixes
<1> HIDE DEF C
<1>3. L \subseteq Nat /\ L # {}
  BY <1>0, <1>1, <1>2
<1>4. PICK n \in L : \A m \in L : n <= m
  BY <1>3, LeastExists, Zenon
<1>5. PICK p \in C : n = Len(mem) - Len(p)
  BY <1>4
<1>6. \A q \in C : Len(q) <= Len(p)
  <2> SUFFICES ASSUME NEW q \in C PROVE Len(q) <= Len(p)
    OBVIOUS
  <2>1. Len(mem) - Len(q) \in L /\ Len(mem) \in Nat
    BY <1>0
  <2>2. Len(mem) - Len(p) <= Len(mem) - Len(q)
    BY <1>4, <1>5, <2>1
  <2> QED
    BY <1>1, <2>1, <2>2
<1>7. PICK q : q = LongestCommonPrefix({mem, data})
  OBVIOUS
<1>8. q \in C
  BY <1>5, <1>6, <1>7, Zenon DEF LongestCommonPrefix, C
<1> QED
  BY <1>1, <1>7, <1>8 DEF FindDiff

(* The data before offset k are the same: nothing is known of other files when
   k is 0. *)
Agree(old, new, k) ==
  k = 0 \/ /\ old \in Data /\ new \in Data /\ k <= Len(old) /\ k <= Len(new)
           /\ \A i \in 1..k : old[i] = new[i]

(* The driver goes back where the file changes. *)
LEMMA NotifiedCurrent ==
  ASSUME NEW d, Current(d), NEW n \in Names, NEW mem \in Data \cup {Null}, NEW k \in Nat,
         NEW edits, edits = [d.edit EXCEPT ![n] = mem],
         NEW old, old = EntryData(d.edit, n), NEW new, new = EntryData(edits, n),
         Agree(old, new, k)
  PROVE  Current(Notified([d EXCEPT !.edit[n] = mem], n, k))
<1> DEFINE h == d.observed[n]
           after == [d EXCEPT !.edit[n] = mem]
<1>1. /\ d \in DriverType /\ h \in Seq(Entries) /\ IsPrefix(h, History(old))
      /\ d.edit \in [Names -> Data \cup {Null}] /\ d.observed \in [Names -> Seq(Entries)]
  BY DEF Current, DriverType
<1>2. PICK g : g = IF Seen(h) >= k THEN SubSeq(h, 1, k) ELSE h
  OBVIOUS
<1>3. /\ edits \in [Names -> Data \cup {Null}] /\ edits[n] = mem
      /\ \A m \in Names : m # n => edits[m] = d.edit[m]
  BY <1>1
<1>4. new \in Data \cup {Null}
  BY <1>3, FsDataTyped DEF EntryData
<1>5. g \in Seq(Entries) /\ IsPrefix(g, History(new))
  <2>1. CASE k = 0
    <3>1. g = <<>>
      BY <1>1, <1>2, <2>1, SeenAtLeast
    <3>2. History(new) \in Seq(Entries)
      BY <1>4, HistoryTyped
    <3> QED
      BY <3>1, <3>2, EmptyPrefix, Zenon
  <2>2. CASE k # 0
    <3>0. /\ old \in Data /\ new \in Data /\ k <= Len(old) /\ k <= Len(new)
          /\ \A i \in 1..k : old[i] = new[i]
      BY <2>2 DEF Agree
    <3>1. IsPrefix(g, History(new))
      BY <1>1, <1>2, <2>2, <3>0, Diverge
    <3>2. Seen(h) >= k => SubSeq(h, 1, k) \in Seq(Entries)
      BY <1>1, <2>2, <3>0, Diverge
    <3> QED
      BY <1>1, <1>2, <3>1, <3>2
  <2> QED
    BY <2>1, <2>2
<1> DEFINE all == [d.observed EXCEPT ![n] = g]
           new_ == [edit |-> edits, observed |-> all]
<1>6. Notified(after, n, k) = new_
  <2>0. d = [edit |-> d.edit, observed |-> d.observed]
    BY <1>1 DEF DriverType
  <2>1. after = [edit |-> edits, observed |-> d.observed]
    BY <2>0
  <2>2. after.observed[n] = h
    BY <2>1
  <2>3. CASE Seen(h) >= k
    BY <1>2, <2>1, <2>2, <2>3 DEF Notified
  <2>4. CASE ~(Seen(h) >= k)
    <3>1. all = d.observed
      BY <1>1, <1>2, <2>4
    <3> QED
      BY <2>1, <2>2, <2>4, <3>1 DEF Notified
  <2> QED
    BY <2>3, <2>4
<1>7. all \in [Names -> Seq(Entries)] /\ all[n] = g /\ \A m \in Names : m # n => all[m] = d.observed[m]
  BY <1>1, <1>5
<1>8. \A m \in Names : IsPrefix(all[m], History(EntryData(edits, m)))
  <2>1. \A m \in Names : m # n => EntryData(edits, m) = EntryData(d.edit, m)
    BY <1>3 DEF EntryData
  <2>2. \A m \in Names : IsPrefix(d.observed[m], History(EntryData(d.edit, m)))
    BY DEF Current
  <2> QED
    BY <1>5, <1>7, <2>1, <2>2
<1> HIDE DEF all
<1>9. new_ \in DriverType
  BY <1>3, <1>7 DEF DriverType
<1>10. new_.observed = all /\ new_.edit = edits
  OBVIOUS
<1> HIDE DEF new_, after
<1>11. Current(new_)
  BY <1>8, <1>9, <1>10 DEF Current
<1> QED
  BY <1>6, <1>11 DEF after

-----------------------------------------------------------------------------
(* The bytes of a change *)

LEMMA LinesDownIs ==
  ASSUME NEW mem \in Data, NEW p \in Nat, NEW n \in Nat
  PROVE  LinesDown(mem, p, n).at \in Nat /\ LinesDown(mem, p, n).left \in Int
<1> DEFINE ends == {i \in p + 1..Len(mem) : mem[i] = Newline}
           nth == {i \in ends : Cardinality({j \in ends : j <= i}) = n}
<1>1. Len(mem) \in Nat
  BY DEF Data
<1>2. IsFiniteSet(p + 1..Len(mem)) /\ ends \subseteq p + 1..Len(mem)
  BY <1>1, FS_Interval
<1>3. Cardinality(ends) \in Nat
  BY <1>2, FS_Subset, FS_CardinalityType
<1>4. nth \subseteq Nat
  BY <1>2
<1> HIDE DEF ends, nth
<1>6. nth # {} => (CHOOSE i \in nth : TRUE) \in Nat
  BY <1>4
<1>5. LinesDown(mem, p, n) =
        IF n = 0 THEN [at |-> p, left |-> 0]
        ELSE IF nth = {} THEN [at |-> Len(mem), left |-> n - Cardinality(ends)]
        ELSE [at |-> CHOOSE i \in nth : TRUE, left |-> 0]
  BY Zenon DEF LinesDown, ends, nth
<1> QED
  BY <1>1, <1>3, <1>5, <1>6

LEMMA ColumnOffsetIs ==
  ASSUME NEW mem \in Data, NEW p \in Nat, NEW column
  PROVE  ColumnOffset(mem, p, column) \in Int
<1> DEFINE reached == {i \in p..Len(mem) :
                         /\ UnitsTo(mem, p, i) = column
                         /\ Newline \notin ToSet(SubSeq(mem, p + 1, i))
                         /\ i = Len(mem) \/ IsLead(mem[i + 1])}
<1>1. reached \subseteq Nat
  BY DEF Data
<1> HIDE DEF reached
<1>2. reached # {} => (CHOOSE i \in reached : \A j \in reached : i <= j) \in Nat
  BY <1>1, LeastExists
<1>3. ColumnOffset(mem, p, column) =
        IF reached = {} THEN -1 ELSE (CHOOSE i \in reached : \A j \in reached : i <= j) - p
  BY Zenon DEF ColumnOffset, reached
<1> QED
  BY <1>2, <1>3

LEMMA SpanIs ==
  ASSUME NEW mem \in Data, NEW op \in Ops
  PROVE  Span(mem, op).offset \in Int /\ Span(mem, op).remove \in Int
<1>1. CASE op.base = "byte"
  BY <1>1, OpIs DEF Span, ByteSpan
<1>2. CASE op.base = "line"
  <2>1. PICK start : start = LinesDown(mem, 0, op.at.offset)
    OBVIOUS
  <2>2. start.at \in Nat
    BY <1>2, <2>1, OpIs, LinesDownIs
  <2>3. PICK stop : stop = LinesDown(mem, start.at, op.at.remove)
    OBVIOUS
  <2>4. stop.at \in Nat
    BY <1>2, <2>2, <2>3, OpIs, LinesDownIs
  <2>5. Span(mem, op) = IF start.left > 0 \/ stop.left > 1 THEN Invalid
                        ELSE [offset |-> start.at, remove |-> stop.at - start.at]
    BY <1>2, <2>1, <2>3 DEF Span, LineSpan
  <2> QED
    BY <2>2, <2>4, <2>5 DEF Invalid
<1>3. CASE op.base = "range"
  <2> DEFINE c == op.at
  <2>0. c.line \in Nat /\ c.endLine \in Nat
    BY <1>3, OpIs
  <2>1. PICK start : start = LinesDown(mem, 0, c.line)
    OBVIOUS
  <2>2. start.at \in Nat
    BY <2>0, <2>1, LinesDownIs
  <2>3. PICK column : column = ColumnOffset(mem, start.at, c.column)
    OBVIOUS
  <2>4. column \in Int
    BY <2>2, <2>3, ColumnOffsetIs
  <2>5. PICK stop : stop = LinesDown(mem, start.at, c.endLine - c.line)
    OBVIOUS
  <2>6. PICK endColumn : endColumn = ColumnOffset(mem, stop.at, c.endColumn)
    OBVIOUS
  <2>7. c.endLine >= c.line => stop.at \in Nat /\ endColumn \in Int
    <3> SUFFICES ASSUME c.endLine >= c.line PROVE stop.at \in Nat /\ endColumn \in Int
      OBVIOUS
    <3>1. PICK n \in Nat : n = c.endLine - c.line
      BY <2>0
    <3>2. stop.at \in Nat
      BY <2>2, <2>5, <3>1, LinesDownIs
    <3> QED
      BY <2>6, <3>2, ColumnOffsetIs
  <2>8. Span(mem, op) = IF \/ start.left > 0 \/ column = -1
                           \/ c.endLine < c.line
                           \/ stop.left > 0 \/ endColumn = -1
                        THEN Invalid
                        ELSE [offset |-> start.at + column,
                              remove |-> stop.at + endColumn - (start.at + column)]
    BY <1>3, <2>1, <2>3, <2>5, <2>6 DEF Span, RangeSpan
  <2> HIDE DEF c
  <2> QED
    BY <2>0, <2>2, <2>4, <2>7, <2>8 DEF Invalid
<1> QED
  BY <1>1, <1>2, <1>3, OpIs DEF Bases

LEMMA ConcatIs ==
  ASSUME NEW S, NEW a \in Seq(S), NEW b \in Seq(S)
  PROVE  /\ a \o b \in Seq(S) /\ Len(a \o b) = Len(a) + Len(b)
         /\ Len(a) \in Nat /\ Len(b) \in Nat
         /\ \A i \in 1..Len(a) : (a \o b)[i] = a[i]
OBVIOUS

LEMMA SplicedIs ==
  ASSUME NEW mem \in Data, NEW data \in Data, NEW s, s.offset \in Int, s.remove \in Int,
         InBuffer(mem, s)
  PROVE  /\ s.offset \in Nat /\ s.offset <= Len(mem)
         /\ Spliced(mem, s, data) \in Data /\ s.offset <= Len(Spliced(mem, s, data))
         /\ \A i \in 1..s.offset : mem[i] = Spliced(mem, s, data)[i]
<1>1. PICK k \in Nat : k = s.offset /\ k <= Len(mem)
  BY DEF InBuffer, Data
<1>2. PICK m \in Nat : m = s.offset + s.remove /\ m <= Len(mem)
  BY DEF InBuffer, Data
<1>3. mem \in Seq(Byte) /\ data \in Seq(Byte)
  BY DEF Data
<1>4. PICK a : a = SubSeq(mem, 1, k)
  OBVIOUS
<1>5. a \in Seq(Byte) /\ Len(a) = k /\ \A i \in 1..k : a[i] = mem[i]
  BY <1>1, <1>3, <1>4
<1>6. PICK b : b = SubSeq(mem, m + 1, Len(mem))
  OBVIOUS
<1>7. b \in Seq(Byte)
  BY <1>2, <1>3, <1>6
<1>8. PICK q : q = a \o data
  OBVIOUS
<1>11. q \in Seq(Byte) /\ Len(q) = k + Len(data) /\ \A i \in 1..k : q[i] = a[i]
  BY <1>3, <1>5, <1>8, ConcatIs
<1>12. PICK r : r = q \o b
  OBVIOUS
<1>9. r \in Seq(Byte) /\ Len(r) = Len(q) + Len(b) /\ \A i \in 1..Len(q) : r[i] = q[i]
  BY <1>7, <1>11, <1>12, ConcatIs
<1>10. Spliced(mem, s, data) = r
  BY <1>1, <1>2, <1>4, <1>6, <1>8, <1>12 DEF Spliced
<1> QED
  <2>1. Len(data) \in Nat /\ Len(b) \in Nat
    BY <1>3, <1>7
  <2>2. k <= Len(r) /\ \A i \in 1..k : r[i] = mem[i]
    BY <1>5, <1>9, <1>11, <2>1
  <2> QED
    BY <1>1, <1>9, <1>10, <2>2 DEF Data

-----------------------------------------------------------------------------
(* The commands *)

(* A name that the document cannot use is not changed. *)
LEMMA OutsideNames ==
  ASSUME NEW d \in DriverType, NEW n, n \notin Names, NEW mem, NEW k
  PROVE  Notified([d EXCEPT !.edit[n] = mem], n, k) = d
<1>1. /\ d = [edit |-> d.edit, observed |-> d.observed]
      /\ d.edit \in [Names -> Data \cup {Null}] /\ d.observed \in [Names -> Seq(Entries)]
  BY DEF DriverType
<1>2. \A x : [d.edit EXCEPT ![n] = x] = d.edit /\ [d.observed EXCEPT ![n] = x] = d.observed
  BY <1>1
<1>3. \A x : [d EXCEPT !.edit[n] = x] = d /\ [d EXCEPT !.observed[n] = x] = d
  BY <1>1, <1>2
<1> QED
  BY <1>3 DEF Notified

(* The files that the editor has *)
Shared(d) == {n \in Names : d.edit[n] # Null}

LEMMA RealizedCurrent ==
  ASSUME NEW d, Current(d), NEW op \in Ops
  PROVE  Current(Realized(d, op)) /\ Shared(d) \subseteq Shared(Realized(d, op))
<1>1. PICK n : n = RelativePath(op.path)
  OBVIOUS
<1>2. PICK mem : mem = d.edit[n]
  OBVIOUS
<1>3. PICK span : span = Span(mem, op)
  OBVIOUS
<1>4. PICK data : data = Spliced(mem, span, op.data)
  OBVIOUS
<1>5. Realized(d, op) =
        IF n = Null THEN d ELSE IF mem = Null THEN d ELSE IF ~InBuffer(mem, span) THEN d
        ELSE Notified([d EXCEPT !.edit[n] = data], n, span.offset)
  BY <1>1, <1>2, <1>3, <1>4, Zenon DEF Realized
<1>6. CASE n = Null \/ mem = Null \/ ~InBuffer(mem, span)
  BY <1>5, <1>6
<1>7. CASE n \notin Names
  BY <1>5, <1>7, OutsideNames DEF Current
<1>8. CASE n \in Names /\ n # Null /\ mem # Null /\ InBuffer(mem, span)
  <2>1. d \in DriverType /\ mem \in Data
    BY <1>2, <1>8 DEF Current, DriverType
  <2>2. op.data \in Data
    BY OpIs
  <2>3. span.offset \in Int /\ span.remove \in Int
    BY <1>3, <2>1, SpanIs
  <2>4. /\ span.offset \in Nat /\ span.offset <= Len(mem)
        /\ data \in Data /\ span.offset <= Len(data)
        /\ \A i \in 1..span.offset : mem[i] = data[i]
    BY <1>4, <1>8, <2>1, <2>2, <2>3, SplicedIs
  <2>5. PICK edits : edits = [d.edit EXCEPT ![n] = data]
    OBVIOUS
  <2>6. edits[n] = data
    BY <1>8, <2>1, <2>5 DEF DriverType
  <2>7. EntryData(d.edit, n) = mem /\ EntryData(edits, n) = data
    BY <1>2, <1>8, <2>4, <2>6, DataNotNull DEF EntryData
  <2>8. Current(Notified([d EXCEPT !.edit[n] = data], n, span.offset))
    <3>1. Agree(mem, data, span.offset)
      BY <2>1, <2>4 DEF Agree
    <3>2. data \in Data \cup {Null} /\ span.offset \in Nat /\ n \in Names
      BY <1>8, <2>4
    <3> QED
      BY <2>5, <2>7, <3>1, <3>2, NotifiedCurrent, Zenon
  <2>9. [d EXCEPT !.edit[n] = data].edit = edits
    <3>1. d = [edit |-> d.edit, observed |-> d.observed]
      BY <2>1 DEF DriverType
    <3> QED
      BY <2>5, <3>1
  <2>10. Notified([d EXCEPT !.edit[n] = data], n, span.offset).edit = edits
    BY <2>9 DEF Notified
  <2>11. \A m \in Names : d.edit[m] # Null => edits[m] # Null
    BY <2>1, <2>4, <2>5, DataNotNull DEF DriverType
  <2> QED
    BY <1>5, <1>8, <2>8, <2>10, <2>11 DEF Shared
<1> QED
  BY <1>6, <1>7, <1>8

(* flush_changes, one change after the other *)
LEMMA FlushedCurrent ==
  ASSUME NEW d, Current(d), delayed \in Seq(Ops)
  PROVE  Current(Flushed(d)) /\ Shared(d) \subseteq Shared(Flushed(d))
<1> DEFINE Done(f, m) ==
             f = [k \in 0..m |-> IF k = 0 THEN d ELSE Realized(f[k - 1], delayed[k])]
           S == {m \in 0..Len(delayed) : \E f : Done(f, m)}
<1>1. \E f : Done(f, 0)
  <2>1. PICK f : f = [k \in 0..0 |-> d]
    OBVIOUS
  <2>2. f = [k \in 0..0 |-> IF k = 0 THEN d ELSE Realized(f[k - 1], delayed[k])]
    BY <2>1
  <2> QED
    BY <2>2, Zenon
<1>2. ASSUME NEW m \in 0..Len(delayed) - 1, NEW f, Done(f, m) PROVE \E g : Done(g, m + 1)
  <2>1. PICK v : v = Realized(f[m], delayed[m + 1])
    OBVIOUS
  <2>2. PICK g : g = [k \in 0..m + 1 |-> IF k = m + 1 THEN v ELSE f[k]]
    OBVIOUS
  <2>3. \A k \in 0..m : f[k] = IF k = 0 THEN d ELSE Realized(f[k - 1], delayed[k])
    BY <1>2
  <2>4. ASSUME NEW k \in 0..m + 1
        PROVE  g[k] = IF k = 0 THEN d ELSE Realized(g[k - 1], delayed[k])
    <3>1. CASE k = m + 1
      <4>1. g[k] = v /\ g[m] = f[m] /\ k - 1 = m /\ k # 0
        BY <2>2, <3>1
      <4> QED
        BY <2>1, <3>1, <4>1
    <3>2. CASE k # m + 1
      <4>1. k \in 0..m /\ g[k] = f[k] /\ (k # 0 => g[k - 1] = f[k - 1])
        BY <3>2, <2>2
      <4> QED
        BY <4>1, <2>3
    <3> QED
      BY <3>1, <3>2
  <2>5. g = [k \in 0..m + 1 |-> g[k]]
    BY <2>2
  <2>6. Done(g, m + 1)
    BY <2>4, <2>5, Zenon
  <2> QED
    BY <2>6, Zenon
<1> HIDE DEF Done
<1>3. 0 \in S /\ \A m \in 0..Len(delayed) - 1 : m \in S => m + 1 \in S
  BY <1>1, <1>2
<1> HIDE DEF S
<1>4. Len(delayed) \in S
  BY <1>3, StepsHold
<1>5. \E f : Done(f, Len(delayed))
  BY <1>4 DEF S
<1>6. PICK f : f = CHOOSE h : Done(h, Len(delayed))
  OBVIOUS
<1>7. Done(f, Len(delayed))
  BY <1>5, <1>6, Zenon
<1>8. Flushed(d) = f[Len(delayed)]
  BY <1>6 DEF Flushed, Done
<1>9. \A k \in 0..Len(delayed) : f[k] = IF k = 0 THEN d ELSE Realized(f[k - 1], delayed[k])
  BY <1>7, Zenon DEF Done
<1> DEFINE T == {k \in 0..Len(delayed) : Current(f[k]) /\ Shared(d) \subseteq Shared(f[k])}
<1>10. 0 \in T
  BY <1>9
<1>11. ASSUME NEW k \in 0..Len(delayed) - 1, k \in T PROVE k + 1 \in T
  <2>1. delayed[k + 1] \in Ops /\ Current(f[k]) /\ Shared(d) \subseteq Shared(f[k])
    BY <1>11
  <2>2. PICK l \in 0..Len(delayed) : l = k + 1 /\ l # 0 /\ l - 1 = k
    OBVIOUS
  <2>3. f[l] = Realized(f[k], delayed[l])
    BY <1>9, <2>2
  <2> QED
    BY <2>1, <2>2, <2>3, RealizedCurrent
<1> HIDE DEF T
<1>12. Len(delayed) \in T
  BY <1>10, <1>11, StepsHold
<1> QED
  BY <1>8, <1>12 DEF T

LEMMA OpenedCurrent ==
  ASSUME NEW d, Current(d), NEW n \in Names, NEW data \in Data, loaded \subseteq DOMAIN Disk
  PROVE  Current(Opened(d, n, data))
<1>1. PICK mem : mem = d.edit[n]
  OBVIOUS
<1>2. PICK edits : edits = [d.edit EXCEPT ![n] = data]
  OBVIOUS
<1>3. /\ d = [edit |-> d.edit, observed |-> d.observed] /\ d.edit \in [Names -> Data \cup {Null}]
      /\ d.observed[n] \in Seq(Entries)
  BY DEF Current, DriverType
<1>4. PICK after : after = [d EXCEPT !.edit[n] = data]
  OBVIOUS
<1>5. EntryData(edits, n) = data
  BY <1>2, <1>3, DataNotNull DEF EntryData
<1>6. ASSUME NEW k \in Nat, Agree(EntryData(d.edit, n), data, k)
      PROVE  Current(Notified(after, n, k))
  <2>1. PICK to \in Data \cup {Null} : to = data
    OBVIOUS
  <2>2. edits = [d.edit EXCEPT ![n] = to] /\ after = [d EXCEPT !.edit[n] = to]
    BY <1>2, <1>4, <2>1
  <2> QED
    BY <1>5, <1>6, <2>2, NotifiedCurrent, Zenon
<1>7. CASE mem # Null
  <2>1. mem \in Data /\ EntryData(d.edit, n) = mem
    BY <1>1, <1>3, <1>7 DEF EntryData
  <2>2. Opened(d, n, data) = Notified(after, n, FindDiff(mem, data))
    BY <1>1, <1>4, <1>7 DEF Opened
  <2>3. FindDiff(mem, data) \in Nat /\ Agree(mem, data, FindDiff(mem, data))
    BY <2>1, FindDiffIs DEF Agree
  <2> QED
    BY <1>6, <2>1, <2>2, <2>3
<1>8. CASE mem = Null /\ n \in loaded
  <2>1. FsData(n) \in Data /\ EntryData(d.edit, n) = FsData(n)
    BY <1>1, <1>8, FsDataTyped DEF EntryData
  <2>2. Opened(d, n, data) = Notified(after, n, FindDiff(FsData(n), data))
    BY <1>1, <1>4, <1>8 DEF Opened
  <2>3. FindDiff(FsData(n), data) \in Nat /\ Agree(FsData(n), data, FindDiff(FsData(n), data))
    BY <2>1, FindDiffIs DEF Agree
  <2> QED
    BY <1>6, <2>1, <2>2, <2>3
<1>9. CASE mem = Null /\ n \notin loaded
  <2>1. after.observed[n] = d.observed[n]
    BY <1>3, <1>4
  <2>2. Opened(d, n, data) = Notified(after, n, 0)
    BY <1>1, <1>3, <1>4, <1>9, <2>1, SeenAtLeast DEF Opened, Notified
  <2> QED
    BY <1>6, <2>2 DEF Agree
<1> QED
  BY <1>7, <1>8, <1>9

LEMMA ClosedCurrent ==
  ASSUME NEW d, Current(d), NEW n, loaded \subseteq DOMAIN Disk, n \in Names => n \in Shared(d)
  PROVE  Current(Closed(d, n))
<1>1. PICK mem : mem = d.edit[n]
  OBVIOUS
<1>2. PICK k : k = IF n \in loaded THEN FindDiff(FsData(n), mem) ELSE 0
  OBVIOUS
<1>3. Closed(d, n) = Notified([d EXCEPT !.edit[n] = Null], n, k)
  BY <1>1, <1>2 DEF Closed
<1>4. CASE n \notin Names
  BY <1>3, <1>4, OutsideNames DEF Current
<1>5. CASE n \in Names
  <2>1. /\ d.edit \in [Names -> Data \cup {Null}] /\ mem \in Data /\ EntryData(d.edit, n) = mem
    BY <1>1, <1>5 DEF Current, DriverType, EntryData, Shared
  <2>2. PICK edits : edits = [d.edit EXCEPT ![n] = Null]
    OBVIOUS
  <2>3. EntryData(edits, n) = FsData(n)
    BY <1>5, <2>1, <2>2 DEF EntryData
  <2>4. n \in loaded => /\ FsData(n) \in Data /\ k \in Nat /\ k <= Len(mem) /\ k <= Len(FsData(n))
                        /\ \A i \in 1..k : mem[i] = FsData(n)[i]
    BY <1>2, <2>1, FsDataTyped, FindDiffIs
  <2>5. k \in Nat
    BY <1>2, <2>4
  <2>6. Current(Notified([d EXCEPT !.edit[n] = Null], n, k))
    <3>1. k = 0 \/ /\ mem \in Data /\ FsData(n) \in Data /\ k <= Len(mem) /\ k <= Len(FsData(n))
                   /\ \A i \in 1..k : mem[i] = FsData(n)[i]
      BY <1>2, <2>1, <2>4
    <3>2. PICK none \in Data \cup {Null} : none = Null
      OBVIOUS
    <3>3. PICK old, new : old = EntryData(d.edit, n) /\ new = EntryData(edits, n)
      OBVIOUS
    <3>4. Agree(old, new, k)
      BY <2>1, <2>3, <3>1, <3>3, Zenon DEF Agree
    <3>5. edits = [d.edit EXCEPT ![n] = none]
      BY <2>2, <3>2
    <3>6. Current(Notified([d EXCEPT !.edit[n] = none], n, k))
      <4>1. none \in Data \cup {Null} /\ k \in Nat /\ n \in Names /\ Current(d)
        BY <1>5, <2>5, <3>2
      <4> QED
        BY <4>1, <3>3, <3>4, <3>5, NotifiedCurrent, Zenon
    <3> QED
      BY <3>2, <3>6
  <2> QED
    BY <1>3, <2>6
<1> QED
  BY <1>4, <1>5

-----------------------------------------------------------------------------
(* Steps *)

LEMMA ApplyCurrent ==
  ASSUME NEW d, Current(d), Apply(d)
  PROVE  Current(Driver)'
<1>1. d = [edit |-> d.edit, observed |-> d.observed]
  BY DEF Current, DriverType
<1>2. Driver' = d
  BY <1>1 DEF Apply, Driver
<1> QED
  BY <1>2 DEF Current

LEMMA SameCurrent ==
  ASSUME Current(Driver), UNCHANGED <<edit, observed>>
  PROVE  Current(Driver)'
<1>1. Driver' = Driver
  BY DEF Driver
<1> QED
  BY <1>1 DEF Current

LEMMA OpTyped ==
  ASSUME NEW path \in Paths, NEW base \in Bases, NEW chars \in Inserted, NEW c \in ChangesBy(base)
  PROVE  [path |-> path, base |-> base, at |-> c, data |-> Encoded(chars)] \in Ops
<1>1. PICK data : data = Encoded(chars)
  OBVIOUS
<1>2. data \in Data
  BY <1>1, EncodedTyped, EditorTextAssumption
<1>3. c \in UNION {ChangesBy(b) : b \in Bases}
  BY Zenon
<1>4. [path |-> path, base |-> base, at |-> c, data |-> data] \in Ops
  BY <1>2, <1>3 DEF Ops
<1> QED
  BY <1>1, <1>4

LEMMA EditorChangeKeeps ==
  ASSUME Inv, EditorChange
  PROVE  Inv'
<1>1. PICK path \in Paths, base \in Bases, chars \in Inserted : \E c \in ChangesBy(base) :
        LET op == [path |-> path, base |-> base, at |-> c, data |-> Encoded(chars)]
        IN  (Delay(op) \/ ChangeNow(op)) /\ UNCHANGED loaded
  BY DEF EditorChange, Bases
<1>2. PICK c \in ChangesBy(base) :
        LET op == [path |-> path, base |-> base, at |-> c, data |-> Encoded(chars)]
        IN  (Delay(op) \/ ChangeNow(op)) /\ UNCHANGED loaded
  BY <1>1, Zenon
<1>3. PICK op \in Ops : op = [path |-> path, base |-> base, at |-> c, data |-> Encoded(chars)]
  BY OpTyped, Zenon
<1>4. (Delay(op) \/ ChangeNow(op)) /\ UNCHANGED loaded
  BY <1>2, <1>3
<1>5. CASE Delay(op)
  <2>1. delayed' \in Seq(Ops)
    BY <1>5 DEF Delay, Inv
  <2>2. Current(Driver)'
    BY <1>5, SameCurrent DEF Delay, Inv
  <2> QED
    BY <1>4, <2>1, <2>2 DEF Inv
<1>6. CASE ChangeNow(op)
  <2>1. Current(Flushed(Driver))
    BY FlushedCurrent DEF Inv
  <2>2. Current(Realized(Flushed(Driver), op))
    BY <2>1, RealizedCurrent
  <2>3. Current(Driver)'
    BY <1>6, <2>2, ApplyCurrent DEF ChangeNow
  <2> QED
    BY <1>4, <1>6, <2>3 DEF Inv, ChangeNow
<1> QED
  BY <1>4, <1>5, <1>6

LEMMA EditorOpenKeeps ==
  ASSUME Inv, EditorOpen
  PROVE  Inv'
<1>1. PICK path \in Paths, chars \in Texts :
        /\ IF OpenName(path) = Null THEN UNCHANGED <<edit, observed, delayed>>
           ELSE Apply(Opened(Flushed(Driver), OpenName(path), Encoded(chars))) /\ delayed' = <<>>
        /\ UNCHANGED loaded
  BY Zenon DEF EditorOpen
<1>2. PICK n : n = OpenName(path)
  OBVIOUS
<1>3. CASE n = Null
  BY <1>1, <1>2, <1>3, SameCurrent DEF Inv
<1>4. CASE n # Null
  <2>1. n \in Names
    BY <1>2, <1>4 DEF Names
  <2>2. Encoded(chars) \in Data
    BY EncodedTyped, EditorTextAssumption
  <2>3. Current(Flushed(Driver))
    BY FlushedCurrent DEF Inv
  <2>4. Current(Opened(Flushed(Driver), n, Encoded(chars)))
    BY <2>1, <2>2, <2>3, OpenedCurrent DEF Inv
  <2>5. Apply(Opened(Flushed(Driver), n, Encoded(chars))) /\ delayed' = <<>> /\ UNCHANGED loaded
    BY <1>1, <1>2, <1>4
  <2>6. Current(Driver)'
    BY <2>4, <2>5, ApplyCurrent
  <2> QED
    BY <2>5, <2>6 DEF Inv
<1> QED
  BY <1>3, <1>4

LEMMA EditorCloseKeeps ==
  ASSUME Inv, EditorClose
  PROVE  Inv'
<1>1. PICK path \in Paths :
        /\ IF RelativePath(path) = Null THEN UNCHANGED <<edit, observed, delayed>>
           ELSE IF edit[RelativePath(path)] = Null THEN UNCHANGED <<edit, observed, delayed>>
           ELSE Apply(Closed(Flushed(Driver), RelativePath(path))) /\ delayed' = <<>>
        /\ UNCHANGED loaded
  BY Zenon DEF EditorClose
<1>2. PICK n : n = RelativePath(path)
  OBVIOUS
<1>3. CASE n = Null \/ edit[n] = Null
  BY <1>1, <1>2, <1>3, SameCurrent DEF Inv
<1>4. CASE ~(n = Null \/ edit[n] = Null)
  <2>1. Current(Flushed(Driver)) /\ Shared(Driver) \subseteq Shared(Flushed(Driver))
    BY FlushedCurrent DEF Inv
  <2>2. n \in Names => n \in Shared(Flushed(Driver))
    BY <1>4, <2>1 DEF Shared, Driver
  <2>3. Current(Closed(Flushed(Driver), n))
    BY <2>1, <2>2, ClosedCurrent DEF Inv
  <2>4. Apply(Closed(Flushed(Driver), n)) /\ delayed' = <<>> /\ UNCHANGED loaded
    BY <1>1, <1>2, <1>4
  <2>5. Current(Driver)'
    BY <2>3, <2>4, ApplyCurrent
  <2> QED
    BY <2>4, <2>5 DEF Inv
<1> QED
  BY <1>3, <1>4

LEMMA FlushKeeps ==
  ASSUME Inv, Flush
  PROVE  Inv'
<1>1. Current(Flushed(Driver))
  BY FlushedCurrent DEF Inv
<1>2. Current(Driver)'
  BY <1>1, ApplyCurrent DEF Flush
<1> QED
  BY <1>2 DEF Inv, Flush

(* TeX reads on, or goes back. *)
LEMMA ReadsKeep ==
  ASSUME Inv, NEW n \in Names, NEW h \in Seq(Entries), IsPrefix(h, History(EntryData(edit, n))),
         observed' = [observed EXCEPT ![n] = h], edit' = edit
  PROVE  Current(Driver)'
<1>1. /\ edit \in [Names -> Data \cup {Null}] /\ observed \in [Names -> Seq(Entries)]
      /\ \A m \in Names : IsPrefix(observed[m], History(EntryData(edit, m)))
  BY DEF Inv, Current, DriverType, Driver
<1>2. /\ observed' \in [Names -> Seq(Entries)]
      /\ \A m \in Names : (observed'[m] = h /\ m = n) \/ observed'[m] = observed[m]
  BY <1>1
<1>3. \A m \in Names : IsPrefix(observed'[m], History(EntryData(edit, m)))
  BY <1>1, <1>2
<1> QED
  BY <1>1, <1>2, <1>3 DEF Current, DriverType, Driver

LEMMA ObserveKeeps ==
  ASSUME Inv, Observe
  PROVE  Inv'
<1>1. PICK n \in Names :
        /\ Len(observed[n]) < Len(History(EntryData(edit, n)))
        /\ observed' = [observed EXCEPT ![n] = Append(@, History(EntryData(edit, n))[Len(@) + 1])]
        /\ loaded' = IF observed[n] = <<>> /\ edit[n] = Null /\ n \in DOMAIN Disk
                     THEN loaded \cup {n} ELSE loaded
        /\ UNCHANGED <<edit, delayed>>
  BY Zenon DEF Observe
<1>2. /\ edit \in [Names -> Data \cup {Null}] /\ observed[n] \in Seq(Entries)
      /\ IsPrefix(observed[n], History(EntryData(edit, n)))
      /\ observed \in [Names -> Seq(Entries)]
  BY DEF Inv, Current, DriverType, Driver
<1>3. PICK all : all = History(EntryData(edit, n))
  OBVIOUS
<1>4. all \in Seq(Entries)
  BY <1>2, <1>3, FsDataTyped, HistoryTyped DEF EntryData
<1>5. PICK s \in Seq(Entries) : s = observed[n] /\ Len(s) < Len(all)
  BY <1>1, <1>2, <1>3
<1>6. PICK h : h = Append(s, all[Len(s) + 1])
  OBVIOUS
<1>7. all[Len(s) + 1] \in Entries /\ \A i \in 1..Len(s) : s[i] = all[i]
  BY <1>2, <1>3, <1>4, <1>5, PrefixIs
<1>8. /\ h \in Seq(Entries) /\ Len(h) = Len(s) + 1
      /\ \A i \in 1..Len(h) : h[i] = all[i]
  BY <1>5, <1>6, <1>7
<1>9. IsPrefix(h, all)
  BY <1>4, <1>5, <1>8, PrefixIs
<1>10. observed' = [observed EXCEPT ![n] = h]
  BY <1>1, <1>2, <1>3, <1>5, <1>6
<1>11. Current(Driver)'
  BY <1>1, <1>3, <1>8, <1>9, <1>10, ReadsKeep
<1> QED
  BY <1>1, <1>11 DEF Inv

LEMMA GoBackKeeps ==
  ASSUME Inv, GoBack
  PROVE  Inv'
<1>1. PICK n \in Names : \E k \in 0..Len(observed[n]) - 1 :
        observed' = [observed EXCEPT ![n] = SubSeq(@, 1, k)] /\ UNCHANGED <<edit, loaded, delayed>>
  BY Zenon DEF GoBack
<1>2. PICK k \in 0..Len(observed[n]) - 1 :
        observed' = [observed EXCEPT ![n] = SubSeq(@, 1, k)] /\ UNCHANGED <<edit, loaded, delayed>>
  BY <1>1
<1>3. /\ edit \in [Names -> Data \cup {Null}] /\ observed[n] \in Seq(Entries)
      /\ IsPrefix(observed[n], History(EntryData(edit, n)))
      /\ observed \in [Names -> Seq(Entries)]
  BY DEF Inv, Current, DriverType, Driver
<1>4. PICK all : all = History(EntryData(edit, n))
  OBVIOUS
<1>5. all \in Seq(Entries)
  BY <1>3, <1>4, FsDataTyped, HistoryTyped DEF EntryData
<1>6. /\ Len(observed[n]) <= Len(all) /\ \A i \in 1..Len(observed[n]) : observed[n][i] = all[i]
      /\ Len(observed[n]) \in Nat
  BY <1>3, <1>4, <1>5, PrefixIs
<1>7. /\ k \in Nat /\ k <= Len(observed[n]) /\ k <= Len(all)
      /\ \A i \in 1..k : observed[n][i] = all[i]
  BY <1>5, <1>6
<1>8. SubSeq(observed[n], 1, k) \in Seq(Entries) /\ IsPrefix(SubSeq(observed[n], 1, k), all)
  BY <1>3, <1>5, <1>7, PrefixCut
<1>9. observed' = [observed EXCEPT ![n] = SubSeq(observed[n], 1, k)]
  BY <1>2, <1>3
<1>10. Current(Driver)'
  BY <1>2, <1>4, <1>8, <1>9, ReadsKeep
<1> QED
  BY <1>2, <1>10 DEF Inv

-----------------------------------------------------------------------------
(* What is delayed *)

(* Sequences laid one after the other are as long as their lengths add up to. *)
Added(N, S, ss, f, g, a, b) ==
  /\ \A i \in 1..N : /\ ss[i] \in Seq(S) /\ Len(ss[i]) = a[i] + 1 + b[i]
                     /\ a[i] \in Nat /\ b[i] \in Nat
  /\ \A i \in 1..N : f[i] = IF i = 1 THEN ss[i] ELSE f[i - 1] \o ss[i]
  /\ g[0] = 0 /\ \A i \in 1..N : g[i] = g[i - 1] + a[i] + 1 + b[i]

LEMMA AddedLength ==
  ASSUME NEW N \in Nat, N # 0, NEW S, NEW ss, NEW f, NEW g, NEW a, NEW b,
         Added(N, S, ss, f, g, a, b)
  PROVE  Len(f[N]) = g[N]
<1> DEFINE T == {k \in 0..N : g[k] \in Nat /\ (k # 0 => f[k] \in Seq(S) /\ Len(f[k]) = g[k])}
<1>1. 0 \in T
  BY DEF Added
<1> HIDE DEF T
<1>2. ASSUME NEW k \in 0..N - 1, k \in T PROVE k + 1 \in T
  <2>1. PICK i \in 1..N : i = k + 1
    OBVIOUS
  <2>2. /\ ss[i] \in Seq(S) /\ Len(ss[i]) = a[i] + 1 + b[i]
        /\ a[i] \in Nat /\ b[i] \in Nat /\ g[i] = g[i - 1] + a[i] + 1 + b[i]
    BY Zenon DEF Added
  <2>5. PICK x, y, z, l : x = g[i] /\ y = a[i] /\ z = b[i] /\ l = Len(ss[i])
    OBVIOUS
  <2>6. i - 1 = k /\ g[k] \in Nat
    BY <1>2, <2>1 DEF T
  <2>7. x = g[k] + y + 1 + z /\ l = y + 1 + z /\ y \in Nat /\ z \in Nat
    BY <2>2, <2>5, <2>6
  <2>8. x \in Nat /\ x = g[k] + l /\ l \in Nat
    BY <2>6, <2>7
  <2>9. f[i] \in Seq(S) /\ Len(f[i]) = x
    <3>1. CASE k = 0
      <4>1. f[i] = ss[i] /\ g[k] = 0
        BY <2>1, <3>1 DEF Added
      <4> QED
        BY <2>2, <2>5, <2>8, <4>1
    <3>2. CASE k # 0
      <4>0. f[i] = IF i = 1 THEN ss[i] ELSE f[i - 1] \o ss[i]
        BY Zenon DEF Added
      <4>1. f[i] = f[k] \o ss[i]
        <5>1. i # 1
          BY <2>1, <3>2
        <5> QED
          BY <2>6, <4>0, <5>1, Zenon
      <4>2. f[k] \in Seq(S) /\ Len(f[k]) = g[k]
        BY <1>2, <3>2 DEF T
      <4>3. f[k] \o ss[i] \in Seq(S) /\ Len(f[k] \o ss[i]) = Len(f[k]) + Len(ss[i])
        BY <2>2, <4>2, ConcatIs
      <4> QED
        BY <2>5, <2>8, <4>1, <4>2, <4>3
    <3> QED
      BY <3>1, <3>2
  <2>10. i \in 0..N /\ g[i] \in Nat /\ f[i] \in Seq(S) /\ Len(f[i]) = g[i]
    BY <2>5, <2>8, <2>9
  <2>11. i \in T
    BY <2>10, Zenon DEF T
  <2> QED
    BY <2>1, <2>11
<1>3. N \in T
  BY <1>1, <1>2, StepsHold
<1> QED
  BY <1>3 DEF T

(* The bytes that are counted are those of the changes, one after the other. *)
LEMMA BytesDelayedIs ==
  ASSUME NEW ops \in Seq(Ops)
  PROVE  Len(FlattenSeq([k \in DOMAIN ops |-> Stored(ops[k])])) = BytesDelayed(ops)
<1> DEFINE N == Len(ops)
           Counts(g, m) ==
             g = [k \in 0..m |-> IF k = 0 THEN 0 ELSE g[k - 1] + Len(ops[k].path) + 1 + Len(ops[k].data)]
           G == {m \in 0..N : \E g : Counts(g, m)}
<1>0. N \in Nat
  OBVIOUS
<1>1. \E g : Counts(g, 0)
  <2>1. PICK g : g = [k \in 0..0 |-> 0]
    OBVIOUS
  <2>2. g = [k \in 0..0 |-> IF k = 0 THEN 0 ELSE g[k - 1] + Len(ops[k].path) + 1 + Len(ops[k].data)]
    BY <2>1
  <2> QED
    BY <2>2, Zenon
<1>2. ASSUME NEW m \in 0..N - 1, NEW f, Counts(f, m) PROVE \E g : Counts(g, m + 1)
  <2>1. PICK v : v = f[m] + Len(ops[m + 1].path) + 1 + Len(ops[m + 1].data)
    OBVIOUS
  <2>2. PICK g : g = [k \in 0..m + 1 |-> IF k = m + 1 THEN v ELSE f[k]]
    OBVIOUS
  <2>3. \A k \in 0..m : f[k] = IF k = 0 THEN 0 ELSE f[k - 1] + Len(ops[k].path) + 1 + Len(ops[k].data)
    BY <1>2, Zenon
  <2>4. ASSUME NEW k \in 0..m + 1
        PROVE  g[k] = IF k = 0 THEN 0 ELSE g[k - 1] + Len(ops[k].path) + 1 + Len(ops[k].data)
    <3>1. CASE k = m + 1
      <4>1. g[k] = v /\ g[m] = f[m] /\ k - 1 = m /\ k # 0
        BY <2>2, <3>1
      <4> QED
        BY <2>1, <3>1, <4>1
    <3>2. CASE k # m + 1
      <4>1. k \in 0..m /\ g[k] = f[k] /\ (k # 0 => g[k - 1] = f[k - 1])
        BY <3>2, <2>2
      <4> QED
        BY <4>1, <2>3
    <3> QED
      BY <3>1, <3>2
  <2>5. g = [k \in 0..m + 1 |-> g[k]]
    BY <2>2
  <2>6. Counts(g, m + 1)
    BY <2>4, <2>5, Zenon
  <2> QED
    BY <2>6, Zenon
<1> HIDE DEF Counts
<1>3. 0 \in G /\ \A m \in 0..N - 1 : m \in G => m + 1 \in G
  BY <1>1, <1>2
<1> HIDE DEF G
<1>4. N \in G
  BY <1>3, StepsHold
<1>5. \E g : Counts(g, N)
  BY <1>4 DEF G
<1>6. PICK g : g = CHOOSE h : Counts(h, N)
  OBVIOUS
<1>7. Counts(g, N)
  BY <1>5, <1>6, Zenon
<1>8. BytesDelayed(ops) = g[N]
  BY <1>6 DEF BytesDelayed, Counts
<1>9. \A k \in 0..N : g[k] = IF k = 0 THEN 0 ELSE g[k - 1] + Len(ops[k].path) + 1 + Len(ops[k].data)
  BY <1>7, Zenon DEF Counts
<1> DEFINE S == STRING \cup {"end"} \cup Byte
<1>10. PICK ss : ss = [k \in DOMAIN ops |-> Stored(ops[k])]
  OBVIOUS
<1>11. Len(ss) = N /\ \A k \in 1..N : ss[k] = Stored(ops[k])
  BY <1>10
<1>12. ASSUME NEW k \in 1..N
       PROVE  ss[k] \in Seq(S) /\ Len(ss[k]) = Len(ops[k].path) + 1 + Len(ops[k].data)
              /\ Len(ops[k].path) \in Nat /\ Len(ops[k].data) \in Nat
  <2>1. ops[k] \in Ops
    OBVIOUS
  <2>2. ops[k].path \in Seq(STRING) /\ ops[k].data \in Seq(Byte)
    BY <2>1, OpIs DEF Data
  <2>3. PICK T : T = S
    OBVIOUS
  <2>4. PICK a, b, e : a = ops[k].path /\ b = ops[k].data /\ e = "end"
    OBVIOUS
  <2>5. a \in Seq(T) /\ b \in Seq(T) /\ <<e>> \in Seq(T) /\ Len(<<e>>) = 1
    BY <2>2, <2>3, <2>4
  <2>6. /\ a \o <<e>> \in Seq(T) /\ Len(a \o <<e>>) = Len(a) + 1
        /\ Len(a) \in Nat /\ Len(b) \in Nat
    BY <2>5, ConcatIs
  <2>7. a \o <<e>> \o b \in Seq(T) /\ Len(a \o <<e>> \o b) = Len(a \o <<e>>) + Len(b)
    BY <2>5, <2>6, ConcatIs
  <2>8. ss[k] = a \o <<e>> \o b
    BY <1>11, <2>4 DEF Stored
  <2> QED
    BY <2>3, <2>4, <2>6, <2>7, <2>8
<1> HIDE DEF S
<1>13. CASE N = 0
  <2>1. ss = <<>>
    BY <1>10, <1>13
  <2>2. FlattenSeq(ss) = <<>>
    BY <2>1 DEF FlattenSeq
  <2> QED
    BY <1>8, <1>9, <1>10, <1>13, <2>2
<1>14. CASE N # 0
  <2>1. PICK f : Flat(ss, f) /\ FlattenSeq(ss) = f[N]
    BY <1>0, <1>11, <1>14, FlattenSeqIs
  <2>2. \A i \in 1..N : f[i] = IF i = 1 THEN ss[i] ELSE f[i - 1] \o ss[i]
    BY <1>11, <2>1, Zenon DEF Flat
  <2>3. PICK a, b : a = [i \in 1..N |-> Len(ops[i].path)] /\ b = [i \in 1..N |-> Len(ops[i].data)]
    OBVIOUS
  <2>4. \A i \in 1..N : /\ ss[i] \in Seq(S) /\ Len(ss[i]) = a[i] + 1 + b[i]
                         /\ a[i] \in Nat /\ b[i] \in Nat
    BY <1>12, <2>3
  <2>5. g[0] = 0 /\ \A i \in 1..N : g[i] = g[i - 1] + a[i] + 1 + b[i]
    <3>1. g[0] = 0
      BY <1>0, <1>9
    <3>2. ASSUME NEW i \in 1..N PROVE g[i] = g[i - 1] + a[i] + 1 + b[i]
      <4>1. i \in 0..N /\ i # 0
        BY <1>0
      <4>2. g[i] = g[i - 1] + Len(ops[i].path) + 1 + Len(ops[i].data)
        BY <1>9, <4>1
      <4>3. a[i] = Len(ops[i].path) /\ b[i] = Len(ops[i].data)
        BY <2>3
      <4> QED
        BY <4>2, <4>3
    <3> QED
      BY <3>1, <3>2
  <2>6. Len(f[N]) = g[N]
    <3>1. Added(N, S, ss, f, g, a, b)
      BY <2>2, <2>4, <2>5, Zenon DEF Added
    <3> QED
      BY <1>0, <1>14, <3>1, AddedLength
  <2> QED
    BY <1>8, <1>10, <2>1, <2>6
<1> QED
  BY <1>13, <1>14

(* What the commands bound *)
Bounded ==
  /\ Len(delayed) <= BUFFERED_OPS
  /\ Len(FlattenSeq([k \in DOMAIN delayed |-> Stored(delayed[k])])) <= BUFFERED_CHARS
  /\ aborted \in BOOLEAN /\ commands \in 0..MaxCommands

LEMMA NothingDelayed ==
  /\ Len(<<>>) <= BUFFERED_OPS
  /\ Len(FlattenSeq([k \in DOMAIN <<>> |-> Stored(<<>>[k])])) <= BUFFERED_CHARS
<1>1. PICK e : e = <<>>
  OBVIOUS
<1>2. PICK ss : ss = [k \in DOMAIN e |-> Stored(e[k])]
  OBVIOUS
<1>3. ss = <<>>
  BY <1>1, <1>2
<1>4. FlattenSeq(ss) = <<>>
  BY <1>3 DEF FlattenSeq
<1> QED
  BY <1>1, <1>2, <1>4, EditorTextAssumption

LEMMA AbortTyped ==
  ASSUME NEW path, NEW B \in BOOLEAN, NEW C \in BOOLEAN,
         aborted' \in {FALSE, B \/ PathAborts(path)} \/ aborted' \in {FALSE, B /\ FlushAborts}
           \/ aborted' \in {FALSE, FlushAborts \/ PathAborts(path)}
           \/ aborted' \in {FALSE, PathAborts(path) \/ (C /\ FlushAborts)}
           \/ aborted' \in {FALSE, FlushAborts}
  PROVE  aborted' \in BOOLEAN
<1>1. FlushAborts \in BOOLEAN
  BY Zenon DEF FlushAborts
<1>2. PathAborts(path) \in BOOLEAN
  BY Zenon DEF PathAborts
<1> QED
  BY <1>1, <1>2, Zenon

LEMMA NextBounded ==
  ASSUME Inv, Bounded, [Next]_vars
  PROVE  Bounded'
<1>1. CASE UNCHANGED vars \/ Observe \/ GoBack
  <2>1. UNCHANGED <<delayed, aborted, commands>>
    BY <1>1, Zenon DEF vars, Observe, GoBack
  <2> QED
    BY <2>1 DEF Bounded
<1>2. ASSUME Command PROVE commands' \in 0..MaxCommands
  BY <1>2, EditorTextAssumption DEF Command, Bounded
<1>3. ASSUME delayed' = <<>>, aborted' \in BOOLEAN, commands' \in 0..MaxCommands PROVE Bounded'
  BY <1>3, NothingDelayed DEF Bounded
<1>4. CASE EditorChange
  <2>1. PICK path \in Paths, base \in Bases, chars \in Inserted : \E c \in ChangesBy(base) :
          LET op == [path |-> path, base |-> base, at |-> c, data |-> Encoded(chars)]
          IN  Command /\ (Delay(op) \/ ChangeNow(op))
    BY <1>4 DEF EditorChange, Bases
  <2>2. PICK c \in ChangesBy(base) :
          LET op == [path |-> path, base |-> base, at |-> c, data |-> Encoded(chars)]
          IN  Command /\ (Delay(op) \/ ChangeNow(op))
    BY <2>1, Zenon
  <2>3. PICK op \in Ops : op = [path |-> path, base |-> base, at |-> c, data |-> Encoded(chars)]
    BY OpTyped, Zenon
  <2>4. Command /\ (Delay(op) \/ ChangeNow(op))
    BY <2>2, <2>3
  <2>5. CASE Delay(op)
    <3>1. /\ Len(delayed) < BUFFERED_OPS /\ BytesDelayed(Append(delayed, op)) <= BUFFERED_CHARS
          /\ delayed' = Append(delayed, op) /\ aborted' = aborted
      BY <2>5 DEF Delay
    <3>2. delayed' \in Seq(Ops) /\ Len(delayed') = Len(delayed) + 1 /\ Len(delayed) \in Nat
      BY <3>1 DEF Inv
    <3>3. Len(FlattenSeq([k \in DOMAIN delayed' |-> Stored(delayed'[k])])) = BytesDelayed(delayed')
      BY <3>2, BytesDelayedIs
    <3>4. Len(delayed') <= BUFFERED_OPS
      BY <3>1, <3>2, EditorTextAssumption
    <3> QED
      BY <1>2, <2>4, <3>1, <3>3, <3>4 DEF Bounded
  <2>6. CASE ChangeNow(op)
    <3>1. delayed' = <<>> /\ aborted' \in {FALSE, FlushAborts \/ PathAborts(op.path)}
      BY <2>6, Zenon DEF ChangeNow
    <3>2. aborted' \in BOOLEAN
      BY <3>1, AbortTyped, Zenon
    <3> QED
      BY <1>2, <1>3, <2>4, <3>1, <3>2
  <2> QED
    BY <2>4, <2>5, <2>6
<1>5. CASE EditorOpen
  <2>1. PICK path \in Paths : /\ Command /\ aborted' \in {FALSE, OpenName(path) # Null /\ FlushAborts}
                              /\ delayed' = delayed \/ delayed' = <<>>
    BY <1>5, Zenon DEF EditorOpen
  <2>2. aborted' \in BOOLEAN
    <3>1. (OpenName(path) # Null) \in BOOLEAN
      BY Zenon
    <3> QED
      BY <2>1, <3>1, AbortTyped, Zenon
  <2> QED
    BY <1>2, <1>3, <2>1, <2>2 DEF Bounded
<1>6. CASE EditorClose
  <2>1. PICK path \in Paths : /\ Command
                              /\ aborted' \in {FALSE, PathAborts(path) \/ (delayed' # delayed /\ FlushAborts)}
                              /\ delayed' = delayed \/ delayed' = <<>>
    BY <1>6, Zenon DEF EditorClose
  <2>2. aborted' \in BOOLEAN
    <3>1. (delayed' # delayed) \in BOOLEAN
      BY Zenon
    <3> QED
      BY <2>1, <3>1, AbortTyped, Zenon
  <2> QED
    BY <1>2, <1>3, <2>1, <2>2 DEF Bounded
<1>7. CASE Flush
  <2>1. delayed' = <<>> /\ commands' = commands /\ aborted' \in {FALSE, FlushAborts}
    BY <1>7, Zenon DEF Flush
  <2>2. aborted' \in BOOLEAN
    BY <2>1, AbortTyped, Zenon
  <2> QED
    BY <1>3, <2>1, <2>2 DEF Bounded
<1> QED
  BY <1>1, <1>4, <1>5, <1>6, <1>7 DEF Next

LEMMA InitBounded == Init => Bounded
<1> SUFFICES ASSUME Init PROVE Bounded
  OBVIOUS
<1>1. delayed = <<>> /\ aborted = FALSE /\ commands = 0
  BY DEF Init
<1>2. aborted \in BOOLEAN
  BY <1>1, Zenon
<1>4. commands \in 0..MaxCommands
  BY <1>1, EditorTextAssumption
<1>3. /\ Len(delayed) <= BUFFERED_OPS
      /\ Len(FlattenSeq([k \in DOMAIN delayed |-> Stored(delayed[k])])) <= BUFFERED_CHARS
  BY <1>1, NothingDelayed
<1> QED
  BY <1>2, <1>3, <1>4 DEF Bounded

-----------------------------------------------------------------------------
(* Results *)

LEMMA InitInv == Init => Inv
<1> SUFFICES ASSUME Init PROVE Inv
  OBVIOUS
<1>1. edit \in [Names -> Data \cup {Null}] /\ observed \in [Names -> Seq(Entries)]
  BY DEF Init
<1>2. \A n \in Names : EntryData(edit, n) \in Data \cup {Null}
  BY <1>1, FsDataTyped DEF EntryData
<1>3. \A n \in Names : IsPrefix(observed[n], History(EntryData(edit, n)))
  BY <1>2, HistoryTyped, EmptyPrefix DEF Init
<1>4. Current(Driver)
  BY <1>1, <1>3 DEF Current, DriverType, Driver
<1> QED
  BY <1>4 DEF Inv, Init

LEMMA NextInv == Inv /\ [Next]_vars => Inv'
<1> SUFFICES ASSUME Inv, [Next]_vars PROVE Inv'
  OBVIOUS
<1>1. CASE UNCHANGED vars
  BY <1>1, SameCurrent DEF Inv, vars
<1> QED
  BY <1>1, EditorChangeKeeps, EditorOpenKeeps, EditorCloseKeeps, FlushKeeps, ObserveKeeps,
     GoBackKeeps DEF Next

(* TeX has read nothing that is not in the files, whatever the editor opens,  *)
(* changes and closes, at whatever positions, and whatever is delayed: each   *)
(* command goes back before, or where, the file changes (notify_file_changes).*)
THEOREM ReadsCurrent == Spec => []ReadCurrent
<1>1. Inv => ReadCurrent
  BY DEF Inv, Current, Driver, ReadCurrent
<1> QED
  BY <1>1, InitInv, NextInv, PTL DEF Spec

(* The copies of the driver are bytes of encoded characters, what it loads    *)
(* are files of the disk, and what is delayed fits its buffer with paths and  *)
(* terminators: the bytes that interpret_change counts are those it copies.   *)
THEOREM EditorTextTyped == Spec => []TypeOK
<1>1. Inv /\ Bounded => TypeOK
  <2> SUFFICES ASSUME Inv, Bounded PROVE TypeOK
    OBVIOUS
  <2>1. edit \in [Names -> Data \cup {Null}]
    BY DEF Inv, Current, DriverType, Driver
  <2>2. \A n \in Names : edit[n] # Null => \A b \in ToSet(edit[n]) : b[2] \in 1..Width(b[1])
    <3> SUFFICES ASSUME NEW n \in Names, edit[n] # Null, NEW b \in ToSet(edit[n])
                 PROVE  b[2] \in 1..Width(b[1])
      OBVIOUS
    <3>1. edit[n] \in Seq(Byte)
      BY <2>1 DEF Data
    <3>2. b \in Byte
      BY <3>1 DEF ToSet
    <3> QED
      BY <3>2, Zenon DEF Byte
  <2> QED
    BY <2>2 DEF Inv, Bounded, TypeOK
<1>2. Inv /\ Bounded /\ [Next]_vars => Bounded'
  BY NextBounded
<1> QED
  BY <1>1, <1>2, InitInv, NextInv, InitBounded, PTL DEF Spec

=============================================================================
