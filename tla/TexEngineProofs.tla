--------------------------- MODULE TexEngineProofs ---------------------------
(* Proofs about TexEngine: the stack of processes can always be resumed, no  *)
(* worker waits for an answer that was forgotten, and the trace never runs    *)
(* out, for any document, any files, any changes and any sizes.               *)
EXTENDS TexEngine, SequenceTheorems, FiniteSetTheorems, WellFoundedInduction, TLAPS

-----------------------------------------------------------------------------
(* The inductive invariant *)

Fields ==
  {"fd", "killed", "len", "copy", "pc", "pos", "view", "buf", "unsent", "out", "asked", "flush"}

SeenMessage == [tag : {"SEEN"}, file : Entries, arg : Nat]
ChildMessage == [tag |-> "CHLD", file |-> Null, arg |-> 0]
TraceEntry == [entry : Entries, seen : Int]

TagOf ==
  [open |-> "OPRD", create |-> "OPWR", close |-> "CLOS", read |-> "READ",
   picture |-> "GPIC", keep |-> "SPIC", append |-> "APND"]

(* q is the query of process p, that runs program g. *)
Asks(g, p, q) ==
  IF p.pc > Len(g) THEN q.tag = "EXIT"
  ELSE /\ q.tag = TagOf[g[p.pc].op]
       /\ q.file = g[p.pc].file
       /\ q.tag = "READ" => q.arg = p.pos[q.file]
       /\ q.tag = "GPIC" => q.arg = g[p.pc].arg

(* What was said is reports and a query, or the message of a fork. *)
Speaking(g, p) ==
  \/ p.out = <<>>
  \/ p.out = <<ChildMessage>> /\ p.buf = NoBuffers
  \/ \E u \in Seq(SeenMessage) : \E q : p.out = u \o <<q>> /\ Asks(g, p, q)

Wellformed(g, p) ==
  /\ DOMAIN p = Fields
  /\ p.fd \in BOOLEAN /\ p.killed \in BOOLEAN /\ p.asked \in BOOLEAN /\ p.flush \in BOOLEAN
  /\ p.len \in Nat /\ p.pc \in 1..(Len(g) + 1) /\ p.pos \in [Entries -> Nat]
  /\ p.unsent \in Seq(SeenMessage)
  /\ p.asked => p.unsent = <<>>
  /\ ~p.asked => p.out = <<>>
  /\ Speaking(g, p)

(* A snapshot: blocked until its child dies, it has nothing to say. *)
Parked(p) ==
  p.fd /\ ~p.killed /\ ~p.asked /\ ~p.flush /\ p.unsent = <<>> /\ p.buf = NoBuffers

Typed ==
  /\ prog \in Programs
  /\ procs \in Seq({procs[i] : i \in 1..Len(procs)})
  /\ seen \in [Entries -> Int]
  /\ trace \in Seq(TraceEntry)
  /\ rollback \in [len : Nat \cup {NotInTransaction}, offset : {rollback.offset}, flush : BOOLEAN]
  /\ changing \in BOOLEAN /\ auxDirty \in BOOLEAN /\ finishing \in BOOLEAN

(* The trace is shared by the processes, those that are older own less of it. *)
StackInv ==
  /\ \A i \in 1..Top : Wellformed(prog, procs[i])
  /\ \A i \in 1..(Top - 1) : Parked(procs[i]) /\ procs[i].len <= Len(trace)
  /\ \A i, j \in 1..(Top - 1) : i <= j => procs[i].len <= procs[j].len

(* A killed worker is remembered by the transaction, which goes back. *)
RollbackInv ==
  /\ rollback.len <= Len(trace)
  /\ ~changing => rollback = Closed
  /\ rollback.len # NotInTransaction => Top > 0
  /\ Top > 0 /\ procs[Top].killed =>
       ~procs[Top].fd /\ changing /\ rollback.flush /\ rollback.len # NotInTransaction
  /\ aborted # "rewind"

DeferredInv ==
  aborted = "no" =>
    /\ deferred # Null <=> /\ Top > 0
                           /\ procs[Top].fd \/ procs[Top].killed
                           /\ procs[Top].asked /\ procs[Top].out = <<>>
    /\ deferred # Null => procs[Top].pc <= Len(prog)

Inv == Typed /\ StackInv /\ RollbackInv /\ DeferredInv

-----------------------------------------------------------------------------
(* Numbers *)

(* A set of naturals that is not empty has a least element. *)
LEMMA LeastExists ==
  ASSUME NEW S, S \subseteq Nat, S # {}
  PROVE  \E n \in S : \A m \in S : n <= m
<1>1. \E n \in S : \A m \in S : ~(<<m, n>> \in OpToRel(<, Nat))
  BY WFMin, NatLessThanWellFounded, Zenon
<1>2. PICK n \in S : \A m \in S : ~(<<m, n>> \in OpToRel(<, Nat))
  BY <1>1, Zenon
<1>3. \A m \in S : ~(m < n)
  <2> SUFFICES ASSUME NEW m \in S, m < n PROVE FALSE
    OBVIOUS
  <2>1. <<m, n>> \in Nat \X Nat
    OBVIOUS
  <2>2. <<m, n>> \in OpToRel(<, Nat)
    BY <2>1, Zenon DEF OpToRel
  <2> QED
    BY <2>2, <1>2
<1> QED
  BY <1>3

LEMMA MinIn ==
  ASSUME NEW S, S \subseteq Nat, S # {}
  PROVE  Min(S) \in S /\ \A m \in S : Min(S) <= m
BY LeastExists, Zenon DEF Min

(* A set of integers with a bound, and an element, has a greatest one. *)
LEMMA MaxIn ==
  ASSUME NEW S, S \subseteq Int, S # {}, NEW b \in Int, \A x \in S : x <= b
  PROVE  Max(S) \in S /\ \A x \in S : x <= Max(S)
<1> DEFINE T == {b - x : x \in S}
<1>1. T \subseteq Nat
  OBVIOUS
<1>0. T # {}
  <2>1. PICK x \in S : TRUE
    OBVIOUS
  <2>2. b - x \in T
    BY <2>1
  <2> QED
    BY <2>2
<1>2. PICK n \in T : \A m \in T : n <= m
  BY <1>0, <1>1, LeastExists, Zenon
<1>3. PICK x \in S : n = b - x
  BY <1>2
<1>4. \A y \in S : x >= y
  BY <1>2, <1>3
<1>5. \E z \in S : \A y \in S : z >= y
  BY <1>4
<1>6. Max(S) \in S /\ \A y \in S : Max(S) >= y
  BY <1>5, Zenon DEF Max
<1> QED
  BY <1>6

-----------------------------------------------------------------------------
(* Messages *)

LEMMA Parts ==
  ASSUME NEW S, NEW u \in Seq(S), NEW q
  PROVE  /\ u \o <<q>> # <<>>
         /\ Len(u \o <<q>>) = Len(u) + 1
         /\ u = <<>> => u \o <<q>> = <<q>>
         /\ u # <<>> => /\ Head(u \o <<q>>) = Head(u) /\ Head(u) \in S
                        /\ Tail(u \o <<q>>) = Tail(u) \o <<q>> /\ Tail(u) \in Seq(S)
         /\ Last(u \o <<q>>) = q
<1> DEFINE T == S \cup {q}
<1>1. u \in Seq(T) /\ <<q>> \in Seq(T) /\ Len(<<q>>) = 1 /\ <<q>>[1] = q
  BY SeqMonotonic
<1>2. /\ u \o <<q>> \in Seq(T)
      /\ Len(u \o <<q>>) = Len(u) + Len(<<q>>)
      /\ \A i \in 1..(Len(u) + Len(<<q>>)) :
           (u \o <<q>>)[i] = IF i <= Len(u) THEN u[i] ELSE <<q>>[i - Len(u)]
  BY <1>1, ConcatProperties
<1>3. Len(u) \in Nat
  OBVIOUS
<1>4. Len(u \o <<q>>) = Len(u) + 1 /\ u \o <<q>> # <<>>
  BY <1>1, <1>2, <1>3
<1>5. u = <<>> => u \o <<q>> = <<q>>
  BY <1>1, ConcatEmptySeq
<1>6. Last(u \o <<q>>) = q
  BY <1>1, <1>2, <1>3, <1>4 DEF Last
<1>7. ASSUME u # <<>>
      PROVE  /\ Head(u \o <<q>>) = Head(u) /\ Head(u) \in S
             /\ Tail(u \o <<q>>) = Tail(u) \o <<q>> /\ Tail(u) \in Seq(S)
  <2>1. /\ Head(u) \in S /\ Tail(u) \in Seq(S) /\ Len(Tail(u)) = Len(u) - 1
        /\ \A i \in 1..Len(Tail(u)) : Tail(u)[i] = u[i + 1]
        /\ Len(u) > 0 /\ Head(u) = u[1]
    BY <1>7, HeadTailProperties
  <2>2. Head(u \o <<q>>) = (u \o <<q>>)[1]
    BY <1>2, <1>4
  <2>3. Head(u \o <<q>>) = Head(u)
    BY <2>1, <2>2, <1>2, <1>1
  <2>4. /\ Tail(u \o <<q>>) \in Seq(T) /\ Len(Tail(u \o <<q>>)) = Len(u)
        /\ \A i \in 1..Len(u) : Tail(u \o <<q>>)[i] = (u \o <<q>>)[i + 1]
    <3>1. /\ Tail(u \o <<q>>) \in Seq(T)
          /\ Len(Tail(u \o <<q>>)) = Len(u \o <<q>>) - 1
          /\ \A i \in 1..Len(Tail(u \o <<q>>)) : Tail(u \o <<q>>)[i] = (u \o <<q>>)[i + 1]
      BY <1>2, <1>4, HeadTailProperties
    <3> QED
      BY <3>1, <1>3, <1>4
  <2>5. Tail(u) \in Seq(T)
    BY <2>1, SeqMonotonic
  <2>6. /\ Tail(u) \o <<q>> \in Seq(T)
        /\ Len(Tail(u) \o <<q>>) = Len(Tail(u)) + 1
        /\ \A i \in 1..(Len(Tail(u)) + 1) :
             (Tail(u) \o <<q>>)[i] = IF i <= Len(Tail(u)) THEN Tail(u)[i] ELSE <<q>>[i - Len(Tail(u))]
    BY <2>5, <1>1, ConcatProperties
  <2>7. ASSUME NEW i \in 1..Len(u)
        PROVE  Tail(u \o <<q>>)[i] = (Tail(u) \o <<q>>)[i]
    <3>1. CASE i < Len(u)
      BY <3>1, <2>1, <2>4, <2>6, <1>1, <1>2
    <3>2. CASE i = Len(u)
      BY <3>2, <2>1, <2>4, <2>6, <1>1, <1>2
    <3> QED
      BY <3>1, <3>2
  <2>8. Tail(u \o <<q>>) = Tail(u) \o <<q>>
    <3>1. Len(Tail(u) \o <<q>>) = Len(u)
      BY <2>1, <2>6
    <3> QED
      BY <2>4, <2>6, <2>7, <3>1, SeqEqual
  <2> QED
    BY <2>1, <2>3, <2>8
<1> QED
  BY <1>4, <1>5, <1>6, <1>7

-----------------------------------------------------------------------------
(* Processes *)

LEMMA StackTyped ==
  ASSUME Typed
  PROVE  /\ Top \in Nat /\ DOMAIN procs = 1..Top
         /\ Len(trace) \in Nat /\ DOMAIN trace = 1..Len(trace)
         /\ \A k \in 1..Len(trace) : trace[k] \in TraceEntry
         /\ rollback.len \in Nat \cup {NotInTransaction} /\ rollback.len \in Int
         /\ rollback.flush \in BOOLEAN
BY DEF Typed, Top, NotInTransaction

(* What a step leaves below the process on top *)
SameBelow ==
  /\ Top > 0 /\ Top' = Top
  /\ procs' \in Seq({procs'[i] : i \in 1..Len(procs')})
  /\ \A i \in 1..(Top - 1) : procs'[i] = procs[i]

LEMMA TopSet ==
  ASSUME Typed, Top > 0, NEW p, SetTop(p)
  PROVE  SameBelow /\ procs'[Top] = p
<1> DEFINE S == {procs[i] : i \in 1..Len(procs)} \cup {p}
<1>1. procs \in Seq(S) /\ Top \in 1..Len(procs) /\ p \in S /\ Top = Len(procs)
  <2>1. procs \in Seq({procs[i] : i \in 1..Len(procs)})
    BY DEF Typed
  <2> QED
    BY <2>1, SeqMonotonic, StackTyped DEF Top
<1>2. procs' = [procs EXCEPT ![Top] = p]
  BY DEF SetTop
<1> HIDE DEF S
<1>3. /\ procs' \in Seq(S) /\ Len(procs') = Len(procs)
      /\ \A j \in 1..Len(procs) : procs'[j] = IF j = Top THEN p ELSE procs[j]
  BY <1>1, <1>2, ExceptSeq
<1>4. procs' \in Seq({procs'[i] : i \in 1..Len(procs')})
  BY <1>3
<1> QED
  BY <1>1, <1>3, <1>4 DEF SameBelow, Top

LEMMA ProgTyped ==
  ASSUME Typed
  PROVE  /\ Len(prog) \in Nat /\ DOMAIN prog = 1..Len(prog)
         /\ \A k \in 1..Len(prog) :
              /\ prog[k].op \in {"open", "read", "close", "create", "append", "picture", "keep"}
              /\ prog[k].file \in Entries
              /\ prog[k].op # "append" => prog[k].arg \in Nat
              /\ prog[k].op = "picture" => k + prog[k].arg <= Len(prog)
<1> DEFINE Steps == [op : {"open", "read", "close", "create", "append", "picture", "keep"},
                     file : Entries, arg : Nat \cup Entries]
<1>1. /\ prog \in Seq(Steps)
      /\ \A k \in DOMAIN prog :
           /\ prog[k].op # "append" => prog[k].arg \in Nat
           /\ prog[k].op = "picture" => k + prog[k].arg <= Len(prog)
  BY ProgramsAssumption DEF Typed
<1>2. \A s \in Steps :
        /\ s.op \in {"open", "read", "close", "create", "append", "picture", "keep"}
        /\ s.file \in Entries
  OBVIOUS
<1> HIDE DEF Steps
<1>3. /\ Len(prog) \in Nat /\ DOMAIN prog = 1..Len(prog)
      /\ \A k \in 1..Len(prog) : prog[k] \in Steps
  BY <1>1
<1> QED
  BY <1>1, <1>2, <1>3

LEMMA QueryAsks ==
  ASSUME Typed, NEW p, p.pc \in 1..(Len(prog) + 1)
  PROVE  Asks(prog, p, Query(p))
<1>1. CASE p.pc > Len(prog)
  BY <1>1 DEF Asks, Query
<1>2. CASE ~(p.pc > Len(prog))
  <2> DEFINE s == prog[p.pc]
  <2>1. p.pc \in 1..Len(prog)
    BY <1>2, ProgTyped
  <2>2. s.op \in {"open", "read", "close", "create", "append", "picture", "keep"}
    BY <2>1, ProgTyped
  <2>3. CASE s.op = "open"
    BY <1>2, <2>3 DEF Asks, Query, TagOf
  <2>4. CASE s.op = "create"
    BY <1>2, <2>4 DEF Asks, Query, TagOf
  <2>5. CASE s.op = "close"
    BY <1>2, <2>5 DEF Asks, Query, TagOf
  <2>6. CASE s.op = "read"
    BY <1>2, <2>6 DEF Asks, Query, TagOf
  <2>7. CASE s.op = "picture"
    BY <1>2, <2>7 DEF Asks, Query, TagOf
  <2>8. CASE s.op = "keep"
    <3>1. PICK x : x = SubSeq(p.view[s.file], 1, p.pos[s.file] + 1)
      OBVIOUS
    <3>2. Query(p) = [tag |-> "SPIC", file |-> s.file, arg |-> x]
      BY <1>2, <2>8, <3>1 DEF Query
    <3> QED
      BY <1>2, <2>8, <3>2 DEF Asks, TagOf
  <2>9. CASE s.op = "append"
    BY <1>2, <2>9 DEF Asks, Query, TagOf
  <2> QED
    BY <2>2, <2>3, <2>4, <2>5, <2>6, <2>7, <2>8, <2>9
<1> QED
  BY <1>1, <1>2

(* Only the position in the program moves, and not back. *)
LEMMA SettledMoves ==
  ASSUME Typed, NEW p, p.pc \in 1..(Len(prog) + 1)
  PROVE  \E n \in p.pc..(Len(prog) + 1) : Settled(p) = [p EXCEPT !.pc = n]
<1> DEFINE S == {k \in p.pc..(Len(prog) + 1) : k > Len(prog) \/ ~Satisfied(p, prog[k])}
<1>1. Len(prog) \in Nat
  BY ProgTyped
<1>2. S \subseteq Nat /\ Len(prog) + 1 \in S
  BY <1>1
<1>3. Min(S) \in S
  BY <1>2, MinIn
<1>4. Settled(p) = [p EXCEPT !.pc = Min(S)]
  BY DEF Settled
<1> QED
  BY <1>3, <1>4

(* The process p becomes q: at n in the program, with a view v, positions ps *)
(* and buffers b, once its query is answered.                                *)
Replied(p, q, n, v, ps, b) ==
  /\ DOMAIN q = Fields
  /\ q.fd = p.fd /\ q.killed = p.killed /\ q.len = p.len /\ q.copy = p.copy
  /\ q.unsent = p.unsent
  /\ q.out = <<>> /\ q.asked = FALSE /\ q.flush = FALSE
  /\ q.pc = n /\ q.view = v /\ q.pos = ps /\ q.buf = b

FreshBuffers(p) == IF p.flush THEN NoBuffers ELSE p.buf

LEMMA AnsweredReplied ==
  ASSUME NEW p, DOMAIN p = Fields
  PROVE  Replied(p, Answered(p), p.pc, p.view, p.pos, FreshBuffers(p))
BY DEF Answered, Replied, Fields, FreshBuffers

LEMMA ReplyWellformed ==
  ASSUME NEW g, NEW p, NEW q, NEW n \in 1..(Len(g) + 1), NEW v, NEW ps \in [Entries -> Nat], NEW b,
         Wellformed(g, p), Replied(p, q, n, v, ps, b)
  PROVE  Wellformed(g, q)
BY DEF Wellformed, Replied, Speaking

(* What the driver reads is a report, then a query, that comes last. *)
LEMMA MessageRead ==
  ASSUME NEW g, NEW p, Wellformed(g, p), p.out # <<>>
  PROVE  /\ p.asked
         /\ \/ /\ Head(p.out) \in SeenMessage
               /\ \E u \in Seq(SeenMessage) : \E q : Tail(p.out) = u \o <<q>> /\ Asks(g, p, q)
               /\ Tail(p.out) # <<>>
            \/ /\ Tail(p.out) = <<>>
               /\ Head(p.out) = ChildMessage \/ Asks(g, p, Head(p.out))
<1>1. p.asked
  BY DEF Wellformed
<1>2. CASE p.out = <<ChildMessage>>
  <2>1. Head(p.out) = ChildMessage /\ Tail(p.out) = <<>>
    BY <1>2
  <2> QED
    BY <1>1, <2>1
<1>3. ASSUME NEW u \in Seq(SeenMessage), NEW q, p.out = u \o <<q>>, Asks(g, p, q)
      PROVE  \/ /\ Head(p.out) \in SeenMessage
                /\ \E w \in Seq(SeenMessage) : \E r : Tail(p.out) = w \o <<r>> /\ Asks(g, p, r)
                /\ Tail(p.out) # <<>>
             \/ /\ Tail(p.out) = <<>>
                /\ Head(p.out) = ChildMessage \/ Asks(g, p, Head(p.out))
  <2>1. CASE u = <<>>
    <3>1. p.out = <<q>>
      BY <2>1, <1>3, Parts
    <3>2. Head(p.out) = q /\ Tail(p.out) = <<>>
      BY <3>1
    <3> QED
      BY <3>2, <1>3
  <2>2. CASE u # <<>>
    <3>1. /\ Head(p.out) = Head(u) /\ Head(u) \in SeenMessage
          /\ Tail(p.out) = Tail(u) \o <<q>> /\ Tail(u) \in Seq(SeenMessage)
      BY <2>2, <1>3, Parts
    <3>2. Tail(u) \o <<q>> # <<>>
      BY <3>1, Parts
    <3> QED
      BY <3>1, <3>2, <1>3
  <2> QED
    BY <2>1, <2>2
<1> QED
  BY <1>1, <1>2, <1>3 DEF Wellformed, Speaking

Answerable == {"OPRD", "OPWR", "CLOS", "READ", "GPIC", "SPIC", "APND"}

LEMMA TagsAnswerable ==
  \A op \in {"open", "read", "close", "create", "append", "picture", "keep"} :
    TagOf[op] \in Answerable /\ TagOf[op] \notin {"SEEN", "EXIT", "CHLD"}
BY DEF TagOf, Answerable

(* The query that is read is that of the step where the process is. *)
LEMMA QueryRead ==
  ASSUME Inv, NEW tag \in Answerable, Receive(tag)
  PROVE  /\ Top > 0 /\ Wellformed(prog, procs[Top]) /\ procs[Top].fd
         /\ procs[Top].pc \in 1..Len(prog)
         /\ TagOf[prog[procs[Top].pc].op] = tag
         /\ Message.file = prog[procs[Top].pc].file /\ Message.file \in Entries
         /\ Tail(procs[Top].out) = <<>>
         /\ tag = "READ" => Message.arg = procs[Top].pos[Message.file]
         /\ tag = "GPIC" => Message.arg = prog[procs[Top].pc].arg
<1> DEFINE p == procs[Top]
<1>1. Top > 0 /\ p.fd /\ p.out # <<>> /\ Head(p.out).tag = tag /\ Message = Head(p.out)
  BY DEF Receive, Stepping, Running, Alive, Message
<1>2. Wellformed(prog, p)
  BY <1>1, StackTyped DEF Inv, StackInv
<1>3. tag # "SEEN" /\ tag # "CHLD" /\ tag # "EXIT"
  BY DEF Answerable
<1>4. Asks(prog, p, Head(p.out)) /\ Tail(p.out) = <<>>
  <2>1. Head(p.out) \notin SeenMessage
    BY <1>1, <1>3 DEF SeenMessage
  <2>2. Head(p.out) # ChildMessage
    BY <1>1, <1>3 DEF ChildMessage
  <2> HIDE DEF p
  <2> QED
    BY <1>1, <1>2, <2>1, <2>2, MessageRead, Zenon
<1>5. p.pc \in 1..Len(prog)
  BY <1>1, <1>2, <1>3, <1>4, ProgTyped DEF Asks, Wellformed, Inv
<1>6. ~(p.pc > Len(prog))
  BY <1>5, ProgTyped DEF Inv
<1> QED
  BY <1>1, <1>2, <1>4, <1>5, <1>6, ProgTyped DEF Asks, Inv

-----------------------------------------------------------------------------
(* Steps of the process on top *)

LEMMA TopWellformed ==
  ASSUME Inv, Top > 0
  PROVE  Wellformed(prog, procs[Top]) /\ DOMAIN procs[Top] = Fields
BY StackTyped DEF Inv, StackInv, Wellformed

Transaction(r) ==
  r \in [len : Nat \cup {NotInTransaction}, offset : {r.offset}, flush : BOOLEAN]

LEMMA TransactionTyped ==
  ASSUME Inv
  PROVE  Transaction(rollback)
BY DEF Inv, Typed, Transaction

(* What the driver does to the stack, but for its transaction *)
LEMMA StackKeeps ==
  ASSUME Inv, SameBelow, Wellformed(prog, procs'[Top]),
         prog' = prog, seen' \in [Entries -> Int], trace' \in Seq(TraceEntry),
         Len(trace') >= Len(trace), Transaction(rollback'), changing' \in BOOLEAN,
         auxDirty' \in BOOLEAN, finishing' \in BOOLEAN
  PROVE  Typed' /\ StackInv'
<1>1. /\ Top \in Nat /\ Top > 0 /\ Top' = Top /\ \A i \in 1..(Top - 1) : procs'[i] = procs[i]
      /\ Len(trace) \in Nat /\ Len(trace') \in Nat
  BY StackTyped DEF SameBelow, Inv
<1>2. Typed'
  BY DEF Inv, Typed, SameBelow, Transaction
<1>3. StackInv'
  <2>1. ASSUME NEW i \in 1..Top
        PROVE  Wellformed(prog, procs'[i])
    <3>1. CASE i = Top
      BY <3>1
    <3>2. CASE i # Top
      <4>1. procs'[i] = procs[i]
        BY <3>2, <1>1
      <4> QED
        BY <4>1 DEF Inv, StackInv
    <3> QED
      BY <3>1, <3>2
  <2>2. ASSUME NEW i \in 1..(Top - 1)
        PROVE  Parked(procs'[i]) /\ procs'[i].len <= Len(trace')
    <3>1. Parked(procs[i]) /\ procs[i].len <= Len(trace)
      BY DEF Inv, StackInv
    <3>2. i \in 1..Top
      BY <1>1
    <3>3. procs[i].len \in Nat
      BY <3>2 DEF Inv, StackInv, Wellformed
    <3> QED
      BY <3>1, <3>3, <1>1
  <2>3. \A i, j \in 1..(Top - 1) : i <= j => procs'[i].len <= procs'[j].len
    BY <1>1 DEF Inv, StackInv
  <2> QED
    BY <2>1, <2>2, <2>3, <1>1 DEF StackInv
<1> QED
  BY <1>2, <1>3

(* The same, with the transaction as it was *)
LEMMA TopKeeps ==
  ASSUME Inv, SameBelow, Wellformed(prog, procs'[Top]),
         procs'[Top].killed => procs[Top].killed, procs'[Top].fd => procs[Top].fd,
         prog' = prog, seen' \in [Entries -> Int], trace' \in Seq(TraceEntry),
         Len(trace') >= Len(trace), rollback' = rollback, changing' = changing,
         auxDirty' \in BOOLEAN, finishing' = finishing, aborted' # "rewind", DeferredInv'
  PROVE  Inv'
<1>1. /\ Top > 0 /\ Top' = Top /\ rollback.len \in Int
      /\ Len(trace) \in Nat /\ Len(trace') \in Nat
  BY StackTyped DEF SameBelow, Inv
<1>2. Typed' /\ StackInv'
  <2>1. Transaction(rollback') /\ changing' \in BOOLEAN /\ finishing' \in BOOLEAN
    BY TransactionTyped DEF Inv, Typed
  <2> QED
    BY <2>1, StackKeeps
<1>3. RollbackInv'
  BY <1>1 DEF Inv, RollbackInv
<1> QED
  BY <1>2, <1>3 DEF Inv

LEMMA LastOfTrace ==
  ASSUME Typed, NEW e \in TraceEntry
  PROVE  /\ Append(trace, e) \in Seq(TraceEntry)
         /\ Len(Append(trace, e)) = Len(trace) + 1
         /\ \A k \in 1..Len(trace) : Append(trace, e)[k] = trace[k]
         /\ Append(trace, e)[Len(trace) + 1] = e
BY AppendProperties DEF Typed

LEMMA RecordedTyped ==
  ASSUME Typed, NEW sn \in [Entries -> Int], NEW f \in Entries
  PROVE  Recorded(trace, sn, f) \in Seq(TraceEntry) /\ Len(Recorded(trace, sn, f)) >= Len(trace)
<1>1. [entry |-> f, seen |-> sn[f]] \in TraceEntry
  BY DEF TraceEntry
<1>2. trace \in Seq(TraceEntry) /\ Len(trace) \in Nat
  BY DEF Typed
<1> QED
  BY <1>1, <1>2, LastOfTrace DEF Recorded

LEMMA RecordTyped ==
  ASSUME Typed, NEW sn \in [Entries -> Int], NEW f \in Entries, NEW pos \in Int,
         RecordSeen(sn, f, pos)
  PROVE  seen' \in [Entries -> Int] /\ trace' \in Seq(TraceEntry) /\ Len(trace') >= Len(trace)
BY RecordedTyped DEF RecordSeen

(* The query on top is answered, and nothing is deferred. *)
LEMMA ReplyKeeps ==
  ASSUME Inv, Top > 0, procs[Top].fd, aborted = "no",
         SameBelow, NEW n \in 1..(Len(prog) + 1), NEW v, NEW ps \in [Entries -> Nat], NEW b,
         Replied(procs[Top], procs'[Top], n, v, ps, b),
         prog' = prog, seen' \in [Entries -> Int], trace' \in Seq(TraceEntry),
         Len(trace') >= Len(trace), rollback' = rollback, changing' = changing,
         auxDirty' \in BOOLEAN, finishing' = finishing, aborted' = aborted, deferred' = Null
  PROVE  Inv'
<1>1. Wellformed(prog, procs'[Top])
  BY TopWellformed, ReplyWellformed
<1>2. procs'[Top].killed = procs[Top].killed /\ procs'[Top].fd = procs[Top].fd /\ ~procs'[Top].asked
  BY DEF Replied
<1>3. DeferredInv'
  BY <1>2 DEF DeferredInv, SameBelow
<1> QED
  BY <1>1, <1>2, <1>3, TopKeeps

LEMMA DoneReplied ==
  ASSUME Typed, NEW p, NEW r, NEW n \in 1..Len(prog), NEW v, NEW ps, NEW b,
         Replied(p, r, n, v, ps, b)
  PROVE  \E m \in (n + 1)..(Len(prog) + 1) : Replied(p, StepDone(r), m, v, ps, b)
<1>1. PICK r1 : r1 = [r EXCEPT !.pc = @ + 1]
  OBVIOUS
<1>2. Replied(p, r1, n + 1, v, ps, b)
  BY <1>1 DEF Replied, Fields
<1>3. n + 1 \in 1..(Len(prog) + 1) /\ Len(prog) \in Nat
  BY ProgTyped
<1>4. PICK m \in (n + 1)..(Len(prog) + 1) : Settled(r1) = [r1 EXCEPT !.pc = m]
  <2>1. r1.pc = n + 1
    BY <1>2 DEF Replied
  <2> QED
    BY <1>3, <2>1, SettledMoves
<1>5. StepDone(r) = [r1 EXCEPT !.pc = m]
  BY <1>1, <1>4 DEF StepDone
<1>6. Replied(p, [r1 EXCEPT !.pc = m], m, v, ps, b)
  BY <1>2 DEF Replied, Fields
<1> QED
  BY <1>5, <1>6

LEMMA SettledReplied ==
  ASSUME Typed, NEW p, NEW r, NEW n \in 1..(Len(prog) + 1), NEW v, NEW ps, NEW b,
         Replied(p, r, n, v, ps, b)
  PROVE  \E m \in n..(Len(prog) + 1) : Replied(p, Settled(r), m, v, ps, b)
<1>1. PICK m \in n..(Len(prog) + 1) : Settled(r) = [r EXCEPT !.pc = m]
  <2>1. r.pc = n
    BY DEF Replied
  <2> QED
    BY <2>1, SettledMoves
<1>2. Replied(p, [r EXCEPT !.pc = m], m, v, ps, b)
  BY DEF Replied, Fields
<1> QED
  BY <1>1, <1>2

(* A step that answers and moves on: what the other lemmas need of it. *)
LEMMA StepReplies ==
  ASSUME Inv, Top > 0, NEW r, NEW v, NEW ps, NEW b,
         procs[Top].pc \in 1..Len(prog),
         Replied(procs[Top], r, procs[Top].pc, v, ps, b), SetTop(StepDone(r))
  PROVE  /\ SameBelow
         /\ \E m \in 1..(Len(prog) + 1) :
              m > procs[Top].pc /\ Replied(procs[Top], procs'[Top], m, v, ps, b)
<1>1. PICK p : p = procs[Top]
  OBVIOUS
<1>2. PICK n \in 1..Len(prog) : n = p.pc
  BY <1>1
<1>3. Replied(p, r, n, v, ps, b) /\ Typed
  BY <1>1, <1>2 DEF Inv
<1>4. PICK m \in (n + 1)..(Len(prog) + 1) : Replied(p, StepDone(r), m, v, ps, b)
  BY <1>3, DoneReplied
<1>5. PICK q : q = StepDone(r)
  OBVIOUS
<1>6. SameBelow /\ procs'[Top] = q
  BY <1>3, <1>5, TopSet
<1>7. m \in 1..(Len(prog) + 1) /\ m > n
  BY <1>4, <1>2
<1> QED
  BY <1>1, <1>2, <1>4, <1>5, <1>6, <1>7

(* Views after an open *)
SeenOpen(v, f) == [v EXCEPT ![f] = IF @ = <<>> THEN <<Opened>> ELSE @]

LEMMA FoundReplies ==
  ASSUME Inv, Top > 0, procs[Top].pc \in 1..Len(prog), NEW f \in Entries,
         NEW sn \in [Entries -> Int], Found(f, sn)
  PROVE  /\ SameBelow
         /\ \E m \in 1..(Len(prog) + 1) :
              /\ m > procs[Top].pc
              /\ Replied(procs[Top], procs'[Top], m, SeenOpen(procs[Top].view, f),
                         [procs[Top].pos EXCEPT ![f] = 0],
                         [FreshBuffers(procs[Top]) EXCEPT ![f] = <<>>])
         /\ seen' \in [Entries -> Int] /\ trace' \in Seq(TraceEntry) /\ Len(trace') >= Len(trace)
<1>1. PICK p : p = procs[Top]
  OBVIOUS
<1>2. DOMAIN p = Fields
  BY <1>1, TopWellformed
<1>3. PICK r : r = [Answered(p) EXCEPT !.view[f] = IF @ = <<>> THEN <<Opened>> ELSE @,
                                      !.pos[f] = 0, !.buf[f] = <<>>]
  OBVIOUS
<1>4. Replied(p, r, p.pc, SeenOpen(p.view, f), [p.pos EXCEPT ![f] = 0],
              [FreshBuffers(p) EXCEPT ![f] = <<>>])
  BY <1>2, <1>3, AnsweredReplied DEF Replied, Fields, SeenOpen
<1>5. SetTop(StepDone(r))
  BY <1>1, <1>3, Zenon DEF Found
<1>6. /\ SameBelow
      /\ \E m \in 1..(Len(prog) + 1) :
           m > procs[Top].pc /\ Replied(procs[Top], procs'[Top], m, SeenOpen(p.view, f),
                                        [p.pos EXCEPT ![f] = 0], [FreshBuffers(p) EXCEPT ![f] = <<>>])
  BY <1>1, <1>4, <1>5, StepReplies
<1>7. seen' \in [Entries -> Int] /\ trace' \in Seq(TraceEntry) /\ Len(trace') >= Len(trace)
  <2>1. CASE sn[f] < 0
    <3>1. RecordSeen(sn, f, 0)
      BY <2>1 DEF Found
    <3> QED
      BY <3>1, RecordTyped DEF Inv
  <2>2. CASE ~(sn[f] < 0)
    <3>1. seen' = seen /\ trace' = trace
      BY <2>2 DEF Found
    <3> QED
      BY <3>1 DEF Inv, Typed
  <2> QED
    BY <2>1, <2>2
<1> QED
  BY <1>1, <1>6, <1>7

LEMMA PosTyped ==
  ASSUME Inv, Top > 0
  PROVE  procs[Top].pos \in [Entries -> Nat]
BY TopWellformed DEF Wellformed

LEMMA OpenFoundKeeps ==
  ASSUME Inv, NEW f \in Entries, OpenFound(f)
  PROVE  Inv'
<1>1. Receive("OPRD") /\ Found(f, seen) /\ deferred' = deferred
  BY DEF OpenFound
<1>2. Top > 0 /\ procs[Top].fd /\ procs[Top].pc \in 1..Len(prog) /\ "OPRD" \in Answerable
  BY <1>1, QueryRead DEF Answerable
<1>3. aborted = "no" /\ deferred = Null
  BY <1>1 DEF Receive, Stepping
<1>4. seen \in [Entries -> Int]
  BY DEF Inv, Typed
<1>5. /\ SameBelow
      /\ \E m \in 1..(Len(prog) + 1) :
           /\ m > procs[Top].pc
           /\ Replied(procs[Top], procs'[Top], m, SeenOpen(procs[Top].view, f),
                      [procs[Top].pos EXCEPT ![f] = 0],
                      [FreshBuffers(procs[Top]) EXCEPT ![f] = <<>>])
      /\ seen' \in [Entries -> Int] /\ trace' \in Seq(TraceEntry) /\ Len(trace') >= Len(trace)
  BY <1>1, <1>2, <1>4, FoundReplies
<1>6. [procs[Top].pos EXCEPT ![f] = 0] \in [Entries -> Nat]
  BY <1>2, PosTyped
<1>7. /\ prog' = prog /\ rollback' = rollback /\ changing' = changing /\ auxDirty' = auxDirty
      /\ finishing' = finishing /\ aborted' = aborted /\ auxDirty' \in BOOLEAN
  BY <1>1 DEF Found, Inv, Typed
<1> QED
  BY <1>1, <1>2, <1>3, <1>5, <1>6, <1>7, ReplyKeeps

LEMMA OpenPromisedKeeps ==
  ASSUME Inv, NEW f \in Entries, OpenPromised(f)
  PROVE  Inv'
<1>1. /\ Found(f, [seen EXCEPT ![f] = -1]) /\ deferred' = Null /\ aborted = "no" /\ deferred = f
      /\ Top > 0 /\ procs[Top].fd
  BY DEF OpenPromised, Running, Alive
<1>2. procs[Top].pc \in 1..Len(prog)
  <2>1. deferred # Null
    BY <1>1, TexEngineAssumption
  <2>2. procs[Top].pc <= Len(prog)
    BY <1>1, <2>1 DEF Inv, DeferredInv
  <2> QED
    BY <2>2, <1>1, TopWellformed, ProgTyped DEF Wellformed, Inv
<1>4. [seen EXCEPT ![f] = -1] \in [Entries -> Int]
  BY DEF Inv, Typed
<1>5. /\ SameBelow
      /\ \E m \in 1..(Len(prog) + 1) :
           /\ m > procs[Top].pc
           /\ Replied(procs[Top], procs'[Top], m, SeenOpen(procs[Top].view, f),
                      [procs[Top].pos EXCEPT ![f] = 0],
                      [FreshBuffers(procs[Top]) EXCEPT ![f] = <<>>])
      /\ seen' \in [Entries -> Int] /\ trace' \in Seq(TraceEntry) /\ Len(trace') >= Len(trace)
  BY <1>1, <1>2, <1>4, FoundReplies
<1>6. [procs[Top].pos EXCEPT ![f] = 0] \in [Entries -> Nat]
  BY <1>1, PosTyped
<1>7. /\ prog' = prog /\ rollback' = rollback /\ changing' = changing /\ auxDirty' = auxDirty
      /\ finishing' = finishing /\ aborted' = aborted /\ auxDirty' \in BOOLEAN
  BY <1>1 DEF Found, Inv, Typed
<1> QED
  BY <1>1, <1>2, <1>5, <1>6, <1>7, ReplyKeeps

(* Steps that only answer *)
LEMMA PlainReplies ==
  ASSUME Inv, Top > 0, procs[Top].pc \in 1..Len(prog), SetTop(StepDone(Answered(procs[Top])))
  PROVE  /\ SameBelow
         /\ \E m \in 1..(Len(prog) + 1) :
              m > procs[Top].pc /\ Replied(procs[Top], procs'[Top], m, procs[Top].view,
                                           procs[Top].pos, FreshBuffers(procs[Top]))
<1>1. PICK p : p = procs[Top]
  OBVIOUS
<1>2. PICK r : r = Answered(p)
  OBVIOUS
<1>3. Replied(p, r, p.pc, p.view, p.pos, FreshBuffers(p))
  BY <1>1, <1>2, TopWellformed, AnsweredReplied
<1>4. SetTop(StepDone(r))
  BY <1>1, <1>2
<1> QED
  BY <1>1, <1>3, <1>4, StepReplies

LEMMA PassReplies ==
  ASSUME Inv, Top > 0, procs[Top].pc \in 1..Len(prog), NEW f \in Entries, Pass(f)
  PROVE  /\ SameBelow
         /\ \E m \in 1..(Len(prog) + 1) :
              m > procs[Top].pc /\ Replied(procs[Top], procs'[Top], m,
                                           [procs[Top].view EXCEPT ![f] = <<Absent>>],
                                           procs[Top].pos, FreshBuffers(procs[Top]))
<1>1. PICK p : p = procs[Top]
  OBVIOUS
<1>2. PICK r : r = [Answered(p) EXCEPT !.view[f] = <<Absent>>]
  OBVIOUS
<1>3. Replied(p, Answered(p), p.pc, p.view, p.pos, FreshBuffers(p))
  BY <1>1, TopWellformed, AnsweredReplied
<1>4. Replied(p, r, p.pc, [p.view EXCEPT ![f] = <<Absent>>], p.pos, FreshBuffers(p))
  BY <1>2, <1>3 DEF Replied, Fields
<1>5. SetTop(StepDone(r))
  BY <1>1, <1>2, Zenon DEF Pass
<1> QED
  BY <1>1, <1>4, <1>5, StepReplies

LEMMA PassKeeps ==
  ASSUME Inv, NEW f \in Entries, Receive("OPRD"), Pass(f)
  PROVE  Inv'
<1>1. Top > 0 /\ procs[Top].fd /\ procs[Top].pc \in 1..Len(prog) /\ "OPRD" \in Answerable
  BY QueryRead DEF Answerable
<1>2. aborted = "no" /\ deferred = Null
  BY DEF Receive, Stepping
<1>3. seen' \in [Entries -> Int] /\ trace' \in Seq(TraceEntry) /\ Len(trace') >= Len(trace)
  <2>1. RecordSeen(seen, f, IntMax)
    BY DEF Pass
  <2>2. seen \in [Entries -> Int] /\ Typed
    BY DEF Inv, Typed
  <2>3. IntMax \in Nat
    BY TexEngineAssumption
  <2>4. IntMax \in Int
    BY <2>3
  <2> QED
    BY <2>1, <2>2, <2>4, RecordTyped
<1>4. /\ SameBelow
      /\ \E m \in 1..(Len(prog) + 1) :
           m > procs[Top].pc /\ Replied(procs[Top], procs'[Top], m,
                                        [procs[Top].view EXCEPT ![f] = <<Absent>>],
                                        procs[Top].pos, FreshBuffers(procs[Top]))
  BY <1>1, PassReplies
<1>5. /\ prog' = prog /\ rollback' = rollback /\ changing' = changing /\ auxDirty' = auxDirty
      /\ finishing' = finishing /\ aborted' = aborted /\ auxDirty' \in BOOLEAN /\ deferred' = Null
  BY <1>2 DEF Pass, Inv, Typed
<1> QED
  BY <1>1, <1>2, <1>3, <1>4, <1>5, PosTyped, ReplyKeeps

(* The driver gives up: nothing else moves. *)
LEMMA AbortKeeps ==
  ASSUME Inv, NEW reason, reason \notin {"no", "rewind"}, Abort(reason)
  PROVE  Inv'
<1>1. /\ aborted' = reason /\ prog' = prog /\ procs' = procs /\ seen' = seen /\ trace' = trace
      /\ rollback' = rollback /\ changing' = changing /\ auxDirty' = auxDirty
      /\ finishing' = finishing /\ deferred' = deferred
  BY DEF Abort
<1>2. Top' = Top
  BY <1>1 DEF Top
<1>3. Typed' /\ StackInv' /\ RollbackInv' /\ DeferredInv'
  BY <1>1, <1>2 DEF Inv, Typed, StackInv, RollbackInv, DeferredInv
<1> QED
  BY <1>3 DEF Inv

LEMMA OpenVanishedKeeps ==
  ASSUME Inv, NEW f \in Entries, OpenVanished(f)
  PROVE  Inv'
<1>1. Receive("OPRD") /\ (Pass(f) \/ Abort("vanished"))
  BY DEF OpenVanished
<1> QED
  BY <1>1, PassKeeps, AbortKeeps

LEMMA OpenMissingKeeps ==
  ASSUME Inv, NEW f \in Entries, OpenMissing(f)
  PROVE  Inv'
BY PassKeeps DEF OpenMissing

LEMMA OpenWriteKeeps ==
  ASSUME Inv, NEW f \in Entries, OpenWrite(f)
  PROVE  Inv'
<1>1. Receive("OPWR") /\ SetTop(StepDone(Answered(procs[Top])))
  BY DEF OpenWrite
<1>2. Top > 0 /\ procs[Top].fd /\ procs[Top].pc \in 1..Len(prog) /\ "OPWR" \in Answerable
  BY <1>1, QueryRead DEF Answerable
<1>3. aborted = "no" /\ deferred = Null
  BY <1>1 DEF Receive, Stepping
<1>4. seen' \in [Entries -> Int] /\ trace' \in Seq(TraceEntry) /\ Len(trace') >= Len(trace)
  <2>1. CASE seen[f] < 0
    <3>1. RecordSeen(seen, f, 0) /\ seen \in [Entries -> Int] /\ Typed
      BY <2>1 DEF OpenWrite, Inv, Typed
    <3> QED
      BY <3>1, RecordTyped
  <2>2. CASE ~(seen[f] < 0)
    <3>1. seen' = seen /\ trace' = trace
      BY <2>2 DEF OpenWrite
    <3> QED
      BY <3>1 DEF Inv, Typed
  <2> QED
    BY <2>1, <2>2
<1>5. /\ SameBelow
      /\ \E m \in 1..(Len(prog) + 1) :
           m > procs[Top].pc /\ Replied(procs[Top], procs'[Top], m, procs[Top].view,
                                        procs[Top].pos, FreshBuffers(procs[Top]))
  BY <1>1, <1>2, PlainReplies
<1>6. /\ prog' = prog /\ rollback' = rollback /\ changing' = changing /\ auxDirty' = auxDirty
      /\ finishing' = finishing /\ aborted' = aborted /\ auxDirty' \in BOOLEAN /\ deferred' = Null
  BY <1>3 DEF OpenWrite, Inv, Typed
<1> QED
  BY <1>2, <1>3, <1>4, <1>5, <1>6, PosTyped, ReplyKeeps

(* Answers that record nothing *)
LEMMA SilentKeeps ==
  ASSUME Inv, NEW tag \in Answerable, Receive(tag), SetTop(StepDone(Answered(procs[Top]))),
         UNCHANGED <<prog, seen, trace, changing, rollback, deferred, finishing, aborted>>,
         auxDirty' \in BOOLEAN
  PROVE  Inv'
<1>1. Top > 0 /\ procs[Top].fd /\ procs[Top].pc \in 1..Len(prog)
  BY QueryRead
<1>2. aborted = "no" /\ deferred = Null
  BY DEF Receive, Stepping
<1>3. /\ SameBelow
      /\ \E m \in 1..(Len(prog) + 1) :
           m > procs[Top].pc /\ Replied(procs[Top], procs'[Top], m, procs[Top].view,
                                        procs[Top].pos, FreshBuffers(procs[Top]))
  BY <1>1, PlainReplies
<1>4. seen' \in [Entries -> Int] /\ trace' \in Seq(TraceEntry) /\ Len(trace') >= Len(trace)
  BY DEF Inv, Typed
<1> QED
  BY <1>1, <1>2, <1>3, <1>4, PosTyped, ReplyKeeps

LEMMA AppendKeeps ==
  ASSUME Inv, NEW f \in Entries, Append_(f)
  PROVE  Inv'
<1>1. /\ Receive("APND") /\ SetTop(StepDone(Answered(procs[Top])))
      /\ UNCHANGED <<prog, seen, trace, changing, rollback, deferred, finishing, aborted>>
      /\ auxDirty' \in BOOLEAN /\ "APND" \in Answerable
  BY DEF Append_, Inv, Typed, Answerable
<1> QED
  BY <1>1, SilentKeeps

LEMMA CloseKeeps ==
  ASSUME Inv, NEW f \in Entries, Close(f)
  PROVE  Inv'
<1>1. /\ Receive("CLOS") /\ SetTop(StepDone(Answered(procs[Top])))
      /\ UNCHANGED <<prog, seen, trace, changing, rollback, deferred, finishing, aborted>>
      /\ auxDirty' \in BOOLEAN /\ "CLOS" \in Answerable
  BY DEF Close, Inv, Typed, Answerable
<1> QED
  BY <1>1, SilentKeeps

LEMMA KeepPictureKeeps ==
  ASSUME Inv, NEW f \in Entries, KeepPicture(f)
  PROVE  Inv'
<1>1. /\ Receive("SPIC") /\ SetTop(StepDone(Answered(procs[Top])))
      /\ UNCHANGED <<prog, seen, trace, changing, rollback, deferred, finishing, aborted>>
      /\ auxDirty' \in BOOLEAN /\ "SPIC" \in Answerable
  BY DEF KeepPicture, Inv, Typed, Answerable
<1> QED
  BY <1>1, SilentKeeps

LEMMA PictureKeeps ==
  ASSUME Inv, NEW f \in Entries, Picture(f)
  PROVE  Inv'
<1>1. Receive("GPIC") /\ Typed
  BY DEF Picture, Inv
<1>2. /\ Top > 0 /\ procs[Top].fd /\ procs[Top].pc \in 1..Len(prog) /\ "GPIC" \in Answerable
      /\ Message.arg = prog[procs[Top].pc].arg /\ TagOf[prog[procs[Top].pc].op] = "GPIC"
  BY <1>1, QueryRead DEF Answerable
<1>3. aborted = "no" /\ deferred = Null
  BY <1>1 DEF Receive, Stepping
<1>4. PICK p : p = procs[Top]
  OBVIOUS
<1>5. PICK r : r = StepDone(Answered(p))
  OBVIOUS
<1>6. PICK n \in 1..Len(prog) : n = p.pc
  BY <1>2, <1>4
<1>7. PICK v : v = p.view
  OBVIOUS
<1>8. PICK ps : ps = p.pos
  OBVIOUS
<1>9. PICK b : b = FreshBuffers(p)
  OBVIOUS
<1>10. Replied(p, Answered(p), n, v, ps, b)
  BY <1>4, <1>6, <1>7, <1>8, <1>9, <1>2, TopWellformed, AnsweredReplied
<1>11. PICK m \in (n + 1)..(Len(prog) + 1) : Replied(p, r, m, v, ps, b)
  BY <1>1, <1>5, <1>10, DoneReplied
<1>12. PICK k \in 1..(Len(prog) + 1) : k = n + Message.arg + 1
  <2>1. prog[n].op = "picture"
    BY <1>2, <1>4, <1>6, <1>1, ProgTyped DEF TagOf
  <2>2. prog[n].arg \in Nat /\ n + prog[n].arg <= Len(prog) /\ Len(prog) \in Nat
    BY <2>1, <1>1, ProgTyped
  <2> QED
    BY <2>2, <1>2, <1>4, <1>6
<1>13. PICK known : known = [r EXCEPT !.view[f] = IF Len(@) < Len(pics[f]) THEN pics[f] ELSE @,
                                      !.pc = p.pc + Message.arg + 1]
  OBVIOUS
<1>14. PICK w : w = known.view
  OBVIOUS
<1>15. Replied(p, known, k, w, ps, b)
  BY <1>6, <1>11, <1>12, <1>13, <1>14 DEF Replied, Fields
<1>16. PICK j \in k..(Len(prog) + 1) : Replied(p, Settled(known), j, w, ps, b)
  BY <1>1, <1>15, SettledReplied
<1>17. PICK q : SetTop(q) /\ (q = Settled(known) \/ q = r)
  BY <1>4, <1>5, <1>13, Zenon DEF Picture
<1>18. SameBelow /\ procs'[Top] = q
  BY <1>1, <1>2, <1>17, TopSet
<1>19. \E i \in 1..(Len(prog) + 1) : \E u : Replied(p, q, i, u, ps, b)
  <2>1. j \in 1..(Len(prog) + 1) /\ m \in 1..(Len(prog) + 1)
    BY <1>1, ProgTyped
  <2> QED
    BY <1>11, <1>16, <1>17, <2>1, Zenon
<1>20. seen' \in [Entries -> Int] /\ trace' \in Seq(TraceEntry) /\ Len(trace') >= Len(trace)
  BY DEF Inv, Typed, Picture
<1>21. /\ prog' = prog /\ rollback' = rollback /\ changing' = changing /\ auxDirty' = auxDirty
       /\ finishing' = finishing /\ aborted' = aborted /\ auxDirty' \in BOOLEAN /\ deferred' = Null
  BY <1>3 DEF Picture, Inv, Typed
<1>22. ps \in [Entries -> Nat]
  BY <1>2, <1>4, <1>8, PosTyped
<1> QED
  BY <1>2, <1>3, <1>4, <1>18, <1>19, <1>20, <1>21, <1>22, ReplyKeeps

(* A query that is left without an answer, or kept for later *)
LEMMA OpenDeferredKeeps ==
  ASSUME Inv, NEW f \in Entries, OpenDeferred(f)
  PROVE  Inv'
<1>1. Receive("OPRD") /\ deferred' = f /\ Typed
  BY DEF OpenDeferred, Inv
<1>2. /\ Top > 0 /\ procs[Top].fd /\ procs[Top].pc \in 1..Len(prog) /\ "OPRD" \in Answerable
      /\ Tail(procs[Top].out) = <<>> /\ procs[Top].asked
  BY <1>1, QueryRead, TopWellformed DEF Answerable, Receive, Wellformed
<1>3. PICK p : p = procs[Top]
  OBVIOUS
<1>4. PICK q : q = [p EXCEPT !.out = Tail(@)]
  OBVIOUS
<1>5. SetTop(q)
  BY <1>3, <1>4 DEF OpenDeferred
<1>6. SameBelow /\ procs'[Top] = q
  BY <1>1, <1>2, <1>5, TopSet
<1>7. /\ Wellformed(prog, q) /\ q.fd = p.fd /\ q.killed = p.killed /\ q.asked = p.asked
      /\ q.pc = p.pc /\ q.out = <<>>
  <2>1. Wellformed(prog, p) /\ Tail(p.out) = <<>>
    BY <1>2, <1>3, TopWellformed
  <2>2. /\ q.out = <<>> /\ q.fd = p.fd /\ q.killed = p.killed /\ q.asked = p.asked /\ q.pc = p.pc
        /\ q.flush = p.flush /\ q.len = p.len /\ q.pos = p.pos /\ q.unsent = p.unsent
        /\ DOMAIN q = Fields
    BY <2>1, <1>4 DEF Wellformed, Fields
  <2> QED
    BY <2>1, <2>2 DEF Wellformed, Speaking
<1>8. deferred' # Null
  BY <1>1, TexEngineAssumption
<1>9. DeferredInv'
  BY <1>1, <1>2, <1>3, <1>6, <1>7, <1>8, ProgTyped DEF DeferredInv, SameBelow, OpenDeferred
<1> QED
  BY <1>1, <1>3, <1>6, <1>7, <1>9, TopKeeps DEF OpenDeferred, Inv, Typed, RollbackInv

-----------------------------------------------------------------------------
(* Reads *)

LEMMA AbortReadKeeps ==
  ASSUME Inv, NEW reason \in {"nodata", "past end", "fence", "vanished"}, Abort(reason)
  PROVE  Inv'
<1>1. reason \notin {"no", "rewind"}
  OBVIOUS
<1> QED
  BY <1>1, AbortKeeps

LEMMA DataKeeps ==
  ASSUME Inv, NEW f \in Entries, Receive("READ"), NEW pos, NEW n, Data(f, pos, n)
  PROVE  Inv'
<1>1. Top > 0 /\ procs[Top].fd /\ procs[Top].pc \in 1..Len(prog) /\ "READ" \in Answerable
  BY QueryRead DEF Answerable
<1>2. aborted = "no" /\ deferred = Null /\ Typed
  BY DEF Receive, Stepping, Inv
<1>3. PICK p : p = procs[Top]
  OBVIOUS
<1>4. PICK k \in 1..(Len(prog) + 1) : k = p.pc
  BY <1>1, <1>2, <1>3, ProgTyped
<1>5. PICK read : read = SubSeq(EntryData(f), pos + 1, pos + n)
  OBVIOUS
<1>6. PICK r : r = IF n = 0 THEN [Answered(p) EXCEPT !.view[f] = Observing(@, pos, Eof)]
                            ELSE [Answered(p) EXCEPT !.buf[f] = read]
  OBVIOUS
<1>7. SetTop(Settled(r))
  BY <1>3, <1>5, <1>6, Zenon DEF Data
<1>8. PICK v : v = r.view
  OBVIOUS
<1>9. PICK b : b = r.buf
  OBVIOUS
<1>10. PICK ps : ps = p.pos
  OBVIOUS
<1>11. Replied(p, r, k, v, ps, b)
  <2>1. Replied(p, Answered(p), p.pc, p.view, p.pos, FreshBuffers(p))
    BY <1>1, <1>3, TopWellformed, AnsweredReplied
  <2> QED
    BY <2>1, <1>4, <1>6, <1>8, <1>9, <1>10 DEF Replied, Fields
<1>12. PICK q : q = Settled(r)
  OBVIOUS
<1>13. PICK m \in k..(Len(prog) + 1) : Replied(p, q, m, v, ps, b)
  BY <1>2, <1>11, <1>12, SettledReplied
<1>14. SameBelow /\ procs'[Top] = q
  BY <1>1, <1>2, <1>7, <1>12, TopSet
<1>15. m \in 1..(Len(prog) + 1)
  BY <1>13, <1>2, ProgTyped
<1>16. /\ prog' = prog /\ rollback' = rollback /\ changing' = changing
       /\ finishing' = finishing /\ aborted' = aborted /\ auxDirty' \in BOOLEAN /\ deferred' = Null
       /\ seen' \in [Entries -> Int] /\ trace' \in Seq(TraceEntry) /\ Len(trace') >= Len(trace)
  BY <1>2 DEF Data, Typed
<1>17. ps \in [Entries -> Nat]
  BY <1>1, <1>3, <1>10, PosTyped
<1> QED
  BY <1>1, <1>2, <1>3, <1>13, <1>14, <1>15, <1>16, <1>17, ReplyKeeps

LEMMA ForkKeeps ==
  ASSUME Inv, Receive("READ"), Fork
  PROVE  Inv'
<1>1. /\ Top > 0 /\ procs[Top].fd /\ procs[Top].pc \in 1..Len(prog) /\ "READ" \in Answerable
      /\ procs[Top].asked
  BY QueryRead, TopWellformed DEF Answerable, Receive, Wellformed
<1>2. aborted = "no" /\ deferred = Null /\ Typed
  BY DEF Receive, Stepping, Inv
<1>3. PICK p : p = procs[Top]
  OBVIOUS
<1>4. PICK q : q = [p EXCEPT !.out = <<ChildMessage>>, !.buf = NoBuffers, !.flush = FALSE]
  OBVIOUS
<1>5. SetTop(q)
  BY <1>3, <1>4 DEF Fork, ChildMessage
<1>6. SameBelow /\ procs'[Top] = q
  BY <1>1, <1>2, <1>5, TopSet
<1>7. Wellformed(prog, p)
  BY <1>1, <1>3, TopWellformed
<1>8. /\ DOMAIN q = Fields /\ q.fd = p.fd /\ q.killed = p.killed /\ q.asked = p.asked
      /\ q.pc = p.pc /\ q.out = <<ChildMessage>> /\ q.buf = NoBuffers /\ q.flush = FALSE
      /\ q.len = p.len
      /\ q.pos = p.pos /\ q.unsent = p.unsent
  BY <1>4, <1>7 DEF Wellformed, Fields
<1>9. Wellformed(prog, q)
  BY <1>1, <1>3, <1>7, <1>8 DEF Wellformed, Speaking
<1>10. /\ prog' = prog /\ rollback' = rollback /\ changing' = changing
       /\ finishing' = finishing /\ aborted' = aborted /\ auxDirty' \in BOOLEAN /\ deferred' = Null
       /\ seen' \in [Entries -> Int] /\ trace' \in Seq(TraceEntry) /\ Len(trace') >= Len(trace)
  BY <1>2 DEF Fork, Typed
<1>11. q.out # <<>>
  BY <1>8
<1>12. DeferredInv'
  BY <1>6, <1>10, <1>11 DEF DeferredInv, SameBelow
<1>13. aborted' # "rewind"
  BY <1>2, <1>10
<1> QED
  BY <1>3, <1>6, <1>8, <1>9, <1>10, <1>12, <1>13, TopKeeps

LEMMA ReadKeeps ==
  ASSUME Inv, NEW f \in Entries, Read(f)
  PROVE  Inv'
<1>1. Receive("READ")
  BY DEF Read
<1>2. \/ \E reason \in {"nodata", "past end", "fence", "vanished"} : Abort(reason)
      \/ Fork
      \/ \E pos, n : Data(f, pos, n)
  BY Zenon DEF Read
<1> QED
  BY <1>1, <1>2, AbortReadKeeps, ForkKeeps, DataKeeps

(* A report is followed by the query. *)
LEMMA SeenRead ==
  ASSUME Typed, NEW p, Wellformed(prog, p), p.out # <<>>, Head(p.out).tag = "SEEN"
  PROVE  /\ p.asked /\ Head(p.out) \in SeenMessage /\ Tail(p.out) # <<>>
         /\ \E u \in Seq(SeenMessage) : \E q : Tail(p.out) = u \o <<q>> /\ Asks(prog, p, q)
<1>1. Head(p.out) # ChildMessage
  BY DEF ChildMessage
<1>2. ~Asks(prog, p, Head(p.out))
  <2>1. CASE p.pc > Len(prog)
    BY <2>1 DEF Asks
  <2>2. CASE ~(p.pc > Len(prog))
    <3>1. p.pc \in 1..Len(prog)
      BY <2>2, ProgTyped DEF Wellformed
    <3>2. TagOf[prog[p.pc].op] # "SEEN"
      BY <3>1, ProgTyped, TagsAnswerable
    <3> QED
      BY <2>2, <3>2 DEF Asks
  <2> QED
    BY <2>1, <2>2
<1> QED
  BY <1>1, <1>2, MessageRead

LEMMA TailWellformed ==
  ASSUME NEW g, NEW p, NEW q, Wellformed(g, p), p.asked,
         \E u \in Seq(SeenMessage) : \E w : Tail(p.out) = u \o <<w>> /\ Asks(g, p, w),
         DOMAIN q = Fields, q.fd = p.fd, q.killed = p.killed, q.asked = p.asked,
         q.pc = p.pc, q.out = Tail(p.out), q.flush = p.flush, q.len = p.len,
         q.pos = p.pos, q.unsent = p.unsent
  PROVE  Wellformed(g, q)
<1>1. PICK u \in Seq(SeenMessage) : \E w : Tail(p.out) = u \o <<w>> /\ Asks(g, p, w)
  OBVIOUS
<1>2. PICK w : Tail(p.out) = u \o <<w>> /\ Asks(g, p, w)
  BY <1>1
<1>3. Asks(g, q, w)
  BY <1>2 DEF Asks
<1>4. Speaking(g, q)
  BY <1>2, <1>3 DEF Speaking
<1> QED
  BY <1>4 DEF Wellformed

LEMMA SeenKeeps ==
  ASSUME Inv, NEW f \in Entries, Seen(f)
  PROVE  Inv'
<1>1. CASE FenceBefore(f, Message.arg)
  <2>1. Abort("fence")
    BY <1>1 DEF Seen
  <2> QED
    BY <2>1, AbortReadKeeps
<1>2. CASE ~FenceBefore(f, Message.arg)
  <2>1. /\ Receive("SEEN") /\ SetTop([procs[Top] EXCEPT !.out = Tail(@)])
        /\ \/ RecordSeen(seen, f, Message.arg)
           \/ seen' = seen /\ trace' = trace
        /\ prog' = prog /\ rollback' = rollback /\ changing' = changing /\ auxDirty' = auxDirty
        /\ finishing' = finishing /\ aborted' = aborted /\ deferred' = deferred
    BY <1>2 DEF Seen
  <2>2. Top > 0 /\ procs[Top].fd /\ aborted = "no" /\ deferred = Null /\ Typed
    BY <2>1 DEF Receive, Stepping, Running, Alive, Inv
  <2>3. PICK p : p = procs[Top]
    OBVIOUS
  <2>4. Wellformed(prog, p) /\ p.out # <<>> /\ Head(p.out).tag = "SEEN" /\ Message = Head(p.out)
    BY <2>1, <2>2, <2>3, TopWellformed DEF Receive, Message
  <2>5. /\ p.asked /\ Head(p.out) \in SeenMessage /\ Tail(p.out) # <<>>
        /\ \E u \in Seq(SeenMessage) : \E q : Tail(p.out) = u \o <<q>> /\ Asks(prog, p, q)
    BY <2>2, <2>4, SeenRead
  <2>6. PICK q : q = [p EXCEPT !.out = Tail(@)]
    OBVIOUS
  <2>7. SameBelow /\ procs'[Top] = q
    <3>1. SetTop(q)
      BY <2>1, <2>3, <2>6
    <3> QED
      BY <3>1, <2>2, TopSet
  <2>8. /\ DOMAIN q = Fields /\ q.fd = p.fd /\ q.killed = p.killed /\ q.asked = p.asked
        /\ q.pc = p.pc /\ q.out = Tail(p.out) /\ q.flush = p.flush /\ q.len = p.len
        /\ q.pos = p.pos /\ q.unsent = p.unsent
    BY <2>4, <2>6 DEF Wellformed, Fields
  <2>9. Wellformed(prog, q)
    BY <2>4, <2>5, <2>8, TailWellformed
  <2>10. seen' \in [Entries -> Int] /\ trace' \in Seq(TraceEntry) /\ Len(trace') >= Len(trace)
    <3>1. Message.arg \in Int
      BY <2>4, <2>5 DEF SeenMessage
    <3>2. seen \in [Entries -> Int] /\ trace \in Seq(TraceEntry) /\ Len(trace) \in Nat
      BY <2>2 DEF Typed
    <3> QED
      BY <2>1, <2>2, <3>1, <3>2, RecordTyped
  <2>11. DeferredInv'
    BY <2>1, <2>2, <2>5, <2>7, <2>8 DEF DeferredInv, SameBelow
  <2>12. aborted' # "rewind" /\ auxDirty' \in BOOLEAN
    BY <2>1, <2>2 DEF Typed
  <2> QED
    BY <2>1, <2>3, <2>7, <2>8, <2>9, <2>10, <2>11, <2>12, TopKeeps
<1> QED
  BY <1>1, <1>2

(* The worker ends. *)
LEMMA ExitKeeps ==
  ASSUME Inv, Exit
  PROVE  Inv'
<1>1. /\ Receive("EXIT") /\ SetTop([procs[Top] EXCEPT !.fd = FALSE, !.out = <<>>])
      /\ prog' = prog /\ seen' = seen /\ trace' = trace /\ rollback' = rollback
      /\ changing' = changing /\ auxDirty' = auxDirty
      /\ finishing' = finishing /\ aborted' = aborted /\ deferred' = deferred
  BY DEF Exit
<1>2. Top > 0 /\ procs[Top].fd /\ aborted = "no" /\ deferred = Null /\ Typed
  BY <1>1 DEF Receive, Stepping, Running, Alive, Inv
<1>3. PICK p : p = procs[Top]
  OBVIOUS
<1>4. PICK q : q = [p EXCEPT !.fd = FALSE, !.out = <<>>]
  OBVIOUS
<1>5. SetTop(q)
  BY <1>1, <1>3, <1>4
<1>6. SameBelow /\ procs'[Top] = q
  BY <1>2, <1>5, TopSet
<1>7. Wellformed(prog, p)
  BY <1>2, <1>3, TopWellformed
<1>8. /\ DOMAIN q = Fields /\ ~q.fd /\ q.fd \in BOOLEAN /\ q.killed = p.killed /\ q.asked = p.asked
      /\ q.pc = p.pc /\ q.out = <<>> /\ q.flush = p.flush /\ q.len = p.len
      /\ q.pos = p.pos /\ q.unsent = p.unsent
  BY <1>4, <1>7 DEF Wellformed, Fields
<1>9. Wellformed(prog, q)
  BY <1>7, <1>8 DEF Wellformed, Speaking
<1>10. ~q.killed
  BY <1>2, <1>3, <1>8 DEF Inv, RollbackInv
<1>11. DeferredInv'
  BY <1>1, <1>2, <1>6, <1>8, <1>10 DEF DeferredInv, SameBelow
<1>12. /\ seen' \in [Entries -> Int] /\ trace' \in Seq(TraceEntry) /\ Len(trace') >= Len(trace)
       /\ aborted' # "rewind" /\ auxDirty' \in BOOLEAN
  BY <1>1, <1>2 DEF Typed
<1> QED
  BY <1>1, <1>6, <1>8, <1>9, <1>10, <1>11, <1>12, TopKeeps

(* The worker asks, with its pending reports. *)
LEMMA AskKeeps ==
  ASSUME Inv, Ask
  PROVE  Inv'
<1>1. /\ Top > 0 /\ procs[Top].fd /\ aborted = "no" /\ Typed /\ ~procs[Top].asked
      /\ SetTop([procs[Top] EXCEPT !.out = procs[Top].unsent \o <<Query(procs[Top])>>,
                                   !.unsent = <<>>, !.asked = TRUE])
      /\ prog' = prog /\ seen' = seen /\ trace' = trace /\ rollback' = rollback
      /\ changing' = changing /\ auxDirty' = auxDirty
      /\ finishing' = finishing /\ aborted' = aborted /\ deferred' = deferred
  BY DEF Ask, Running, Alive, Inv
<1>2. PICK p : p = procs[Top]
  OBVIOUS
<1>3. PICK out : out = p.unsent \o <<Query(p)>>
  OBVIOUS
<1>4. PICK q : q = [p EXCEPT !.out = out, !.unsent = <<>>, !.asked = TRUE]
  OBVIOUS
<1>5. SetTop(q)
  BY <1>1, <1>2, <1>3, <1>4
<1>6. SameBelow /\ procs'[Top] = q
  BY <1>1, <1>5, TopSet
<1>7. Wellformed(prog, p)
  BY <1>1, <1>2, TopWellformed
<1>8. /\ DOMAIN q = Fields /\ q.fd = p.fd /\ q.killed = p.killed /\ q.asked = TRUE
      /\ q.pc = p.pc /\ q.out = out /\ q.flush = p.flush /\ q.len = p.len
      /\ q.pos = p.pos /\ q.unsent = <<>>
  BY <1>4, <1>7 DEF Wellformed, Fields
<1>9. p.unsent \in Seq(SeenMessage) /\ Asks(prog, p, Query(p))
  BY <1>1, <1>7, QueryAsks DEF Wellformed
<1>10. out # <<>>
  BY <1>3, <1>9, Parts
<1>11. Wellformed(prog, q)
  <2>1. Speaking(prog, q)
    <3>1. Asks(prog, q, Query(p))
      BY <1>8, <1>9 DEF Asks
    <3> QED
      BY <1>3, <1>8, <1>9, <3>1 DEF Speaking
  <2>2. <<>> \in Seq(SeenMessage)
    OBVIOUS
  <2> QED
    BY <1>7, <1>8, <2>1, <2>2 DEF Wellformed
<1>12. DeferredInv'
  BY <1>1, <1>2, <1>6, <1>8, <1>10 DEF DeferredInv, SameBelow, Inv
<1>13. /\ seen' \in [Entries -> Int] /\ trace' \in Seq(TraceEntry) /\ Len(trace') >= Len(trace)
       /\ aborted' # "rewind" /\ auxDirty' \in BOOLEAN
  BY <1>1 DEF Typed
<1> QED
  BY <1>1, <1>2, <1>6, <1>8, <1>11, <1>12, <1>13, TopKeeps

LEMMA ReportedTyped ==
  ASSUME NEW s \in Seq(SeenMessage), NEW f \in Entries, NEW pos \in Nat
  PROVE  Reported(s, f, pos) \in Seq(SeenMessage)
<1>1. PICK m : m = [tag |-> "SEEN", file |-> f, arg |-> pos]
  OBVIOUS
<1>2. m \in SeenMessage /\ <<m>> \in Seq(SeenMessage)
  BY <1>1 DEF SeenMessage
<1>3. ASSUME s # <<>> PROVE Front(s) \in Seq(SeenMessage)
  <2>1. Len(s) \in Nat /\ Len(s) > 0 /\ \A i \in 1..Len(s) : s[i] \in SeenMessage
    BY <1>3
  <2>2. \A i \in 1..(Len(s) - 1) : s[i] \in SeenMessage
    BY <2>1
  <2> QED
    BY <2>1, <2>2, SubSeqProperties DEF Front
<1>4. s # <<>> => Front(s) \o <<m>> \in Seq(SeenMessage)
  BY <1>2, <1>3, ConcatProperties
<1>5. Append(s, m) \in Seq(SeenMessage)
  BY <1>2
<1> QED
  BY <1>1, <1>4, <1>5 DEF Reported

(* The worker reads what it has in its buffer. *)
LEMMA ConsumeKeeps ==
  ASSUME Inv, Consume
  PROVE  Inv'
<1>1. /\ Top > 0 /\ procs[Top].fd /\ aborted = "no" /\ Typed /\ ~procs[Top].asked
      /\ procs[Top].pc <= Len(prog)
      /\ prog' = prog /\ seen' = seen /\ trace' = trace /\ rollback' = rollback
      /\ changing' = changing /\ auxDirty' = auxDirty
      /\ finishing' = finishing /\ aborted' = aborted /\ deferred' = deferred
  BY DEF Consume, Running, Alive, Inv
<1>2. PICK p : p = procs[Top]
  OBVIOUS
<1>3. Wellformed(prog, p)
  BY <1>1, <1>2, TopWellformed
<1>4. PICK f \in Entries : f = prog[p.pc].file
  <2>1. p.pc \in 1..Len(prog)
    BY <1>1, <1>2, <1>3, ProgTyped DEF Wellformed
  <2> QED
    BY <2>1, <1>1, ProgTyped
<1>5. PICK r : r = [p EXCEPT !.view[f] = Observing(@, p.pos[f], Head(p.buf[f])),
                             !.buf[f] = Tail(@),
                             !.pos[f] = @ + 1,
                             !.unsent = Reported(@, f, p.pos[f] + 1)]
  OBVIOUS
<1>6. SetTop(Settled(r))
  BY <1>2, <1>4, <1>5, Zenon DEF Consume
<1>7. /\ DOMAIN r = Fields /\ r.fd = p.fd /\ r.killed = p.killed /\ r.asked = p.asked
      /\ r.pc = p.pc /\ r.out = p.out /\ r.flush = p.flush /\ r.len = p.len
      /\ r.pos = [p.pos EXCEPT ![f] = @ + 1] /\ r.unsent = Reported(p.unsent, f, p.pos[f] + 1)
  BY <1>3, <1>5 DEF Wellformed, Fields
<1>8. r.pos \in [Entries -> Nat] /\ r.unsent \in Seq(SeenMessage)
  <2>1. p.pos \in [Entries -> Nat] /\ p.pos[f] + 1 \in Nat /\ p.unsent \in Seq(SeenMessage)
    BY <1>3 DEF Wellformed
  <2> QED
    BY <2>1, <1>7, ReportedTyped, ZenonT(30)
<1>9. PICK n \in p.pc..(Len(prog) + 1) : Settled(r) = [r EXCEPT !.pc = n]
  BY <1>1, <1>3, <1>7, SettledMoves DEF Wellformed
<1>10. PICK q : q = [r EXCEPT !.pc = n]
  OBVIOUS
<1>11. /\ DOMAIN q = Fields /\ q.fd = p.fd /\ q.killed = p.killed /\ q.asked = p.asked
       /\ q.pc = n /\ q.out = p.out /\ q.flush = p.flush /\ q.len = p.len
       /\ q.pos = r.pos /\ q.unsent = r.unsent
  BY <1>7, <1>10 DEF Fields
<1>12. n \in 1..(Len(prog) + 1) /\ p.out = <<>> /\ ~p.asked
  BY <1>1, <1>2, <1>3, <1>9, ProgTyped DEF Wellformed
<1>13. Wellformed(prog, q)
  BY <1>3, <1>8, <1>11, <1>12 DEF Wellformed, Speaking
<1>14. SameBelow /\ procs'[Top] = q
  BY <1>1, <1>6, <1>9, <1>10, TopSet
<1>15. DeferredInv'
  BY <1>1, <1>2, <1>11, <1>14 DEF DeferredInv, SameBelow, Inv
<1>16. /\ seen' \in [Entries -> Int] /\ trace' \in Seq(TraceEntry) /\ Len(trace') >= Len(trace)
       /\ aborted' # "rewind" /\ auxDirty' \in BOOLEAN
  BY <1>1 DEF Typed
<1> QED
  BY <1>1, <1>2, <1>11, <1>13, <1>14, <1>15, <1>16, TopKeeps

-----------------------------------------------------------------------------
(* The snapshots that decimate_processes keeps are in the order they had. *)

UpTo(keep, k) == {j \in keep : j <= k}
Under(keep, k) == {j \in keep : j < k}

LEMMA UpToIn ==
  ASSUME NEW keep, NEW k \in Int, NEW j \in Int
  PROVE  /\ j \in UpTo(keep, k) <=> j \in keep /\ j <= k
         /\ j \in Under(keep, k) <=> j \in keep /\ j < k
BY Zenon DEF UpTo, Under

LEMMA UpToWithin ==
  ASSUME NEW keep, NEW k
  PROVE  UpTo(keep, k) \subseteq keep /\ Under(keep, k) \subseteq keep
BY Zenon DEF UpTo, Under

LEMMA UnderIn ==
  ASSUME NEW keep \in SUBSET Int, NEW k \in keep, NEW x \in Under(keep, k)
  PROVE  x \in Int /\ x \in keep /\ x < k
<1>1. k \in Int /\ x \in Int /\ x \in keep
  BY UpToWithin
<1> QED
  BY <1>1, UpToIn

LEMMA UpToUnder ==
  ASSUME NEW keep \in SUBSET Int, NEW k \in keep
  PROVE  UpTo(keep, k) = Under(keep, k) \cup {k} /\ k \notin Under(keep, k)
<1>1. ASSUME NEW j \in UpTo(keep, k) PROVE j \in Under(keep, k) \cup {k}
  <2>1. k \in Int /\ j \in Int
    BY UpToWithin
  <2> QED
    BY <2>1, UpToIn
<1>2. ASSUME NEW j \in Under(keep, k) \cup {k} PROVE j \in UpTo(keep, k)
  <2>1. k \in Int /\ j \in Int
    BY UpToWithin
  <2> QED
    BY <2>1, UpToIn
<1>3. k \notin Under(keep, k)
  BY UpToIn
<1> QED
  BY <1>1, <1>2, <1>3

LEMMA UpToGreatest ==
  ASSUME NEW keep \in SUBSET Int, NEW k \in keep, NEW m \in Under(keep, k),
         \A x \in Under(keep, k) : x <= m
  PROVE  UpTo(keep, m) = Under(keep, k)
<1>0. k \in Int /\ m \in Int /\ m \in keep /\ m < k
  BY UnderIn
<1>1. ASSUME NEW j \in UpTo(keep, m) PROVE j \in Under(keep, k)
  <2>1. j \in Int
    BY UpToWithin
  <2> QED
    BY <1>0, <2>1, UpToIn
<1>2. ASSUME NEW j \in Under(keep, k) PROVE j \in UpTo(keep, m)
  <2>1. j \in Int
    BY UpToWithin
  <2> QED
    BY <1>0, <2>1, UpToIn
<1> QED
  BY <1>1, <1>2

LEMMA UpToGrows ==
  ASSUME NEW keep \in SUBSET Int, NEW k \in keep, NEW m \in keep, k <= m
  PROVE  UpTo(keep, k) \subseteq UpTo(keep, m)
<1>1. ASSUME NEW j \in UpTo(keep, k) PROVE j \in UpTo(keep, m)
  <2>1. k \in Int /\ m \in Int /\ j \in Int
    BY UpToWithin
  <2> QED
    BY <2>1, UpToIn
<1> QED
  BY <1>1

LEMMA UpToFinite ==
  ASSUME NEW N \in Nat, NEW keep, keep \subseteq 1..N
  PROVE  /\ IsFiniteSet(keep) /\ Cardinality(keep) \in Nat
         /\ \A k : /\ IsFiniteSet(UpTo(keep, k)) /\ Cardinality(UpTo(keep, k)) \in Nat
                   /\ IsFiniteSet(Under(keep, k)) /\ Cardinality(Under(keep, k)) \in Nat
<1>1. IsFiniteSet(1..N)
  BY FS_Interval
<1>2. IsFiniteSet(keep)
  BY <1>1, FS_Subset
<1>3. \A k : UpTo(keep, k) \subseteq keep /\ Under(keep, k) \subseteq keep
  BY UpToWithin
<1>4. \A k : IsFiniteSet(UpTo(keep, k)) /\ IsFiniteSet(Under(keep, k))
  BY <1>2, <1>3, FS_Subset
<1> QED
  BY <1>2, <1>4, FS_CardinalityType

(* One more than those below it *)
LEMMA CountOf ==
  ASSUME NEW N \in Nat, NEW keep, keep \subseteq 1..N, NEW k \in keep
  PROVE  Cardinality(UpTo(keep, k)) = Cardinality(Under(keep, k)) + 1
<1>1. keep \in SUBSET Int
  OBVIOUS
<1>2. UpTo(keep, k) = Under(keep, k) \cup {k} /\ k \notin Under(keep, k)
  BY <1>1, UpToUnder
<1>3. IsFiniteSet(Under(keep, k))
  BY UpToFinite
<1> QED
  BY <1>2, <1>3, FS_AddElement

LEMMA NthExists ==
  ASSUME NEW N \in Nat, NEW keep, keep \subseteq 1..N, NEW i \in 1..Cardinality(keep)
  PROVE  \E k \in keep : Cardinality(UpTo(keep, k)) = i
<1>1. /\ IsFiniteSet(keep) /\ Cardinality(keep) \in Nat
      /\ \A k : Cardinality(UpTo(keep, k)) \in Nat /\ Cardinality(Under(keep, k)) \in Nat
  BY UpToFinite
<1>2. keep # {}
  BY <1>1, FS_EmptySet
<1>3. keep \in SUBSET Int /\ keep \subseteq Nat /\ \A x \in keep : x \in Int /\ x <= N
  OBVIOUS
<1> DEFINE T == {k \in keep : Cardinality(UpTo(keep, k)) >= i}
<1>4. T # {}
  <2>1. PICK m : m \in keep /\ \A x \in keep : x <= m
    <3>1. N \in Int
      OBVIOUS
    <3>2. Max(keep) \in keep /\ \A x \in keep : x <= Max(keep)
      BY <3>1, <1>2, <1>3, MaxIn
    <3> QED
      BY <3>2
  <2>2. UpTo(keep, m) = keep
    <3>1. ASSUME NEW j \in keep PROVE j \in UpTo(keep, m)
      <4>1. j \in Int /\ m \in Int /\ j <= m
        BY <2>1, <1>3
      <4> QED
        BY <4>1, UpToIn
    <3> QED
      BY <3>1, UpToWithin
  <2>3. m \in T
    BY <2>1, <2>2, <1>1
  <2> QED
    BY <2>3
<1>5. PICK k \in T : \A x \in T : k <= x
  <2>1. T \subseteq Nat
    BY <1>3
  <2> HIDE DEF T
  <2> QED
    BY <2>1, <1>4, LeastExists
<1>6. k \in keep /\ Cardinality(UpTo(keep, k)) >= i
  BY <1>5
<1>7. \A x \in keep : Cardinality(UpTo(keep, x)) >= i => k <= x
  BY <1>5
<1> HIDE DEF T
<1>8. Cardinality(UpTo(keep, k)) = Cardinality(Under(keep, k)) + 1
  BY <1>6, CountOf
<1>9. CASE Under(keep, k) = {}
  <2>1. Cardinality(Under(keep, k)) = 0
    BY <1>9, FS_EmptySet
  <2> QED
    BY <2>1, <1>1, <1>6, <1>8
<1>10. CASE Under(keep, k) # {}
  <2>1. Under(keep, k) \subseteq Int
    BY <1>3, UpToWithin
  <2>2. ASSUME NEW x \in Under(keep, k) PROVE x <= k
    <3>1. x \in Int /\ x < k /\ k \in Int
      BY <1>3, <1>6, UnderIn
    <3> QED
      BY <3>1
  <2>3. PICK m \in Under(keep, k) : \A x \in Under(keep, k) : x <= m
    <3>1. k \in Int
      BY <1>3, <1>6
    <3>2. Max(Under(keep, k)) \in Under(keep, k)
          /\ \A x \in Under(keep, k) : x <= Max(Under(keep, k))
      BY <1>10, <2>1, <2>2, <3>1, MaxIn
    <3> QED
      BY <3>2
  <2>4. UpTo(keep, m) = Under(keep, k)
    BY <1>3, <1>6, <2>3, UpToGreatest
  <2>5. m \in Int /\ m \in keep /\ m < k /\ k \in Int
    BY <1>3, <1>6, UnderIn
  <2>6. ~(Cardinality(UpTo(keep, m)) >= i)
    <3>1. ~(k <= m)
      BY <2>5
    <3> QED
      BY <3>1, <2>5, <1>7
  <2> QED
    BY <2>4, <2>6, <1>1, <1>6, <1>8
<1> QED
  BY <1>9, <1>10

LEMMA NthIn ==
  ASSUME NEW N \in Nat, NEW keep, keep \subseteq 1..N, NEW i \in 1..Cardinality(keep)
  PROVE  Nth(keep, i) \in keep /\ Cardinality(UpTo(keep, Nth(keep, i))) = i
<1>1. Nth(keep, i) = CHOOSE k \in keep : Cardinality(UpTo(keep, k)) = i
  BY DEF Nth, UpTo
<1> QED
  BY <1>1, NthExists, Zenon

LEMMA NthOrdered ==
  ASSUME NEW N \in Nat, NEW keep, keep \subseteq 1..N,
         NEW i \in 1..Cardinality(keep), NEW j \in 1..Cardinality(keep), i <= j
  PROVE  Nth(keep, i) <= Nth(keep, j)
<1>1. PICK a \in keep : a = Nth(keep, i) /\ Cardinality(UpTo(keep, a)) = i
  BY NthIn
<1>2. PICK b \in keep : b = Nth(keep, j) /\ Cardinality(UpTo(keep, b)) = j
  BY NthIn
<1>3. CASE b < a
  <2>1. UpTo(keep, b) \subseteq UpTo(keep, a)
    <3>1. keep \in SUBSET Int
      OBVIOUS
    <3>2. a \in Int /\ b \in Int /\ b <= a
      BY <3>1, <1>3
    <3> QED
      BY <3>1, <3>2, UpToGrows
  <2>2. j <= i
    <3>1. IsFiniteSet(UpTo(keep, a))
      BY UpToFinite
    <3> QED
      BY <1>1, <1>2, <2>1, <3>1, FS_Subset
  <2>3. i = j
    BY <2>2
  <2> QED
    BY <2>3, <1>1, <1>2
<1> QED
  BY <1>1, <1>2, <1>3

LEMMA DecimatedOrdered ==
  ASSUME NEW S, NEW ps \in Seq(S)
  PROVE  /\ Decimated(ps) \in Seq(S)
         /\ \A i, j \in 1..Len(Decimated(ps)) :
              i <= j => \E a, b \in 1..Len(ps) :
                          a <= b /\ Decimated(ps)[i] = ps[a] /\ Decimated(ps)[j] = ps[b]
<1>1. PICK N \in Nat : N = Len(ps) /\ DOMAIN ps = 1..N
  OBVIOUS
<1>2. CASE Len(ps) < MaxProcess
  <2>1. Decimated(ps) = ps
    BY <1>2 DEF Decimated
  <2> QED
    BY <2>1, <1>1
<1>3. CASE ~(Len(ps) < MaxProcess)
  <2>1. PICK keep : keep = DOMAIN ps \cap Kept([i \in DOMAIN ps |-> ps[i].len])
    OBVIOUS
  <2>2. keep \subseteq 1..N
    BY <2>1, <1>1
  <2>3. PICK n \in Nat : n = Cardinality(keep)
    BY <2>2, UpToFinite
  <2>4. Decimated(ps) = [i \in 1..n |-> ps[Nth(keep, i)]]
    BY <1>3, <2>1, <2>3 DEF Decimated
  <2>5. \A i \in 1..n : Nth(keep, i) \in 1..N
    BY <2>2, <2>3, NthIn
  <2>6. \A i, j \in 1..n : i <= j => Nth(keep, i) <= Nth(keep, j)
    BY <2>2, <2>3, NthOrdered
  <2>7. \A i \in 1..n : ps[Nth(keep, i)] \in S
    BY <2>5, <1>1
  <2>8. Decimated(ps) \in Seq(S) /\ Len(Decimated(ps)) = n
    BY <2>4, <2>7
  <2> QED
    BY <2>4, <2>5, <2>6, <2>8, <1>1
<1> QED
  BY <1>2, <1>3

(* A worker that has forked has read nothing ahead. *)
LEMMA ForkRead ==
  ASSUME Inv, Receive("CHLD")
  PROVE  procs[Top].asked /\ procs[Top].buf = NoBuffers
<1>1. /\ Top > 0 /\ procs[Top].fd /\ aborted = "no" /\ deferred = Null /\ Typed
      /\ procs[Top].out # <<>> /\ Head(procs[Top].out).tag = "CHLD"
  BY DEF Receive, Stepping, Running, Alive, Inv, Message
<1>2. PICK p : p = procs[Top]
  OBVIOUS
<1>3. Wellformed(prog, p)
  BY <1>1, <1>2, TopWellformed
<1>4. p.asked /\ p.buf = NoBuffers
  <2>1. p.asked
    BY <1>1, <1>2, <1>3 DEF Wellformed
  <2>2. \A u \in Seq(SeenMessage) : \A q : p.out = u \o <<q>> => ~Asks(prog, p, q)
    <3> SUFFICES ASSUME NEW u \in Seq(SeenMessage), NEW q, p.out = u \o <<q>>, Asks(prog, p, q)
                 PROVE FALSE
      BY Zenon
    <3>1. CASE u = <<>>
      <4>1. p.out = <<q>>
        BY <3>1, Parts
      <4>2. q.tag = "CHLD"
        BY <4>1, <1>1, <1>2
      <4>3. ~(p.pc > Len(prog))
        BY <4>2 DEF Asks
      <4>4. p.pc \in 1..Len(prog)
        BY <4>3, <1>1, <1>3, ProgTyped DEF Wellformed
      <4>5. TagOf[prog[p.pc].op] # "CHLD"
        BY <4>4, <1>1, ProgTyped, TagsAnswerable
      <4> QED
        BY <4>2, <4>3, <4>5 DEF Asks
    <3>2. CASE u # <<>>
      <4>1. Head(p.out) = Head(u) /\ Head(u) \in SeenMessage
        BY <3>2, Parts
      <4> QED
        BY <4>1, <1>1, <1>2 DEF SeenMessage
    <3> QED
      BY <3>1, <3>2
  <2> QED
    BY <1>1, <1>2, <1>3, <2>1, <2>2, Zenon DEF Wellformed, Speaking
<1> QED
  BY <1>2, <1>4

(* The child takes over. *)
LEMMA ChildKeeps ==
  ASSUME Inv, Child
  PROVE  Inv'
<1>1. /\ Receive("CHLD")
      /\ prog' = prog /\ seen' = seen /\ trace' = trace /\ rollback' = rollback
      /\ changing' = changing /\ auxDirty' = auxDirty
      /\ finishing' = finishing /\ aborted' = aborted /\ deferred' = deferred
  BY Zenon DEF Child
<1>2. /\ Top > 0 /\ procs[Top].fd /\ aborted = "no" /\ deferred = Null /\ Typed
      /\ procs[Top].out # <<>> /\ Head(procs[Top].out).tag = "CHLD"
  BY <1>1 DEF Receive, Stepping, Running, Alive, Inv, Message
<1>3. PICK p : p = procs[Top]
  OBVIOUS
<1>4. Wellformed(prog, p)
  BY <1>2, <1>3, TopWellformed
<1>5. p.asked /\ p.buf = NoBuffers
  BY <1>1, <1>3, ForkRead
<1>6. PICK parent : parent = [p EXCEPT !.out = <<>>, !.asked = FALSE, !.flush = FALSE,
                                       !.len = Len(trace), !.copy = saved]
  OBVIOUS
<1>7. PICK ps : ps = [procs EXCEPT ![Top] = parent]
  OBVIOUS
<1>8. PICK below : below = Decimated(ps)
  OBVIOUS
<1>9. procs' = Append(below, parent)
  BY <1>3, <1>6, <1>7, <1>8, Zenon DEF Child
<1>10. ~p.killed
  BY <1>2, <1>3 DEF Inv, RollbackInv
<1>11. /\ DOMAIN parent = Fields /\ parent.fd = p.fd /\ parent.killed = p.killed
       /\ parent.asked = FALSE /\ parent.flush = FALSE /\ parent.out = <<>>
       /\ parent.pc = p.pc /\ parent.pos = p.pos /\ parent.unsent = p.unsent
       /\ parent.buf = p.buf /\ parent.len = Len(trace)
  BY <1>4, <1>6 DEF Wellformed, Fields
<1>12. Wellformed(prog, parent) /\ Parked(parent) /\ Len(trace) \in Nat
  BY <1>2, <1>3, <1>4, <1>5, <1>10, <1>11, StackTyped DEF Wellformed, Speaking, Parked
<1> DEFINE Good(x) == Wellformed(prog, x) /\ Parked(x) /\ x.len <= Len(trace)
<1>13. /\ Len(ps) = Top /\ Top \in Nat
       /\ ps \in Seq({procs[i] : i \in 1..Len(procs)} \cup {parent})
       /\ ps[Top] = parent /\ \A i \in 1..(Top - 1) : ps[i] = procs[i]
  <2>1. procs \in Seq({procs[i] : i \in 1..Len(procs)} \cup {parent}) /\ Top \in 1..Len(procs)
    BY <1>2, SeqMonotonic, StackTyped DEF Typed, Top
  <2> DEFINE S == {procs[i] : i \in 1..Len(procs)} \cup {parent}
  <2>2. parent \in S /\ Top = Len(procs)
    BY DEF Top
  <2> HIDE DEF S
  <2>3. /\ ps \in Seq(S) /\ Len(ps) = Len(procs)
        /\ \A j \in 1..Len(procs) : ps[j] = IF j = Top THEN parent ELSE procs[j]
    BY <2>1, <2>2, <1>7, ExceptSeq DEF S
  <2> QED
    BY <2>1, <2>2, <2>3 DEF S
<1>14. \A i \in 1..Top : Good(ps[i])
  <2> SUFFICES ASSUME NEW i \in 1..Top
               PROVE  Good(ps[i])
    OBVIOUS
  <2>1. CASE i = Top
    BY <2>1, <1>11, <1>12, <1>13
  <2>2. CASE i # Top
    <3>1. i \in 1..(Top - 1) /\ ps[i] = procs[i]
      BY <2>2, <1>13
    <3> QED
      BY <3>1 DEF Inv, StackInv
  <2> QED
    BY <2>1, <2>2
<1>15. \A i, j \in 1..Top : i <= j => ps[i].len <= ps[j].len
  <2> SUFFICES ASSUME NEW i \in 1..Top, NEW j \in 1..Top, i <= j
               PROVE  ps[i].len <= ps[j].len
    OBVIOUS
  <2>1. CASE j = Top
    <3>1. ps[j].len = Len(trace) /\ ps[i].len <= Len(trace)
      BY <2>1, <1>11, <1>13, <1>14
    <3> QED
      BY <3>1
  <2>2. CASE j # Top
    <3>1. i \in 1..(Top - 1) /\ j \in 1..(Top - 1)
      BY <2>2, <1>13
    <3> QED
      BY <3>1, <1>13 DEF Inv, StackInv
  <2> QED
    BY <2>1, <2>2
<1>16. PICK m : m = Len(below)
  OBVIOUS
<1>17. /\ below \in Seq({procs[i] : i \in 1..Len(procs)} \cup {parent})
       /\ \A i, j \in 1..m :
            i <= j => \E a, b \in 1..Top : a <= b /\ below[i] = ps[a] /\ below[j] = ps[b]
  BY <1>8, <1>13, <1>16, DecimatedOrdered
<1>18. m \in Nat
  BY <1>16, <1>17
<1>19. \A i \in 1..m : Good(below[i])
  <2> SUFFICES ASSUME NEW i \in 1..m
               PROVE  Good(below[i])
    OBVIOUS
  <2>1. PICK a \in 1..Top : below[i] = ps[a]
    BY <1>17, <1>18
  <2> HIDE DEF Good
  <2> QED
    BY <2>1, <1>14
<1>20. \A i, j \in 1..m : i <= j => below[i].len <= below[j].len
  <2> SUFFICES ASSUME NEW i \in 1..m, NEW j \in 1..m, i <= j
               PROVE  below[i].len <= below[j].len
    OBVIOUS
  <2>1. PICK a, b \in 1..Top : a <= b /\ below[i] = ps[a] /\ below[j] = ps[b]
    BY <1>17
  <2> QED
    BY <2>1, <1>15
<1>21. /\ Top' = m + 1 /\ procs'[m + 1] = parent /\ \A i \in 1..m : procs'[i] = below[i]
       /\ procs' \in Seq({procs'[i] : i \in 1..Len(procs')})
  <2> DEFINE S == {procs[i] : i \in 1..Len(procs)} \cup {parent}
  <2>1. below \in Seq(S) /\ parent \in S
    BY <1>17
  <2> HIDE DEF S
  <2>2. /\ procs' \in Seq(S) /\ Len(procs') = m + 1 /\ procs'[m + 1] = parent
        /\ \A i \in 1..m : procs'[i] = below[i]
    BY <2>1, <1>9, <1>16, AppendProperties
  <2>3. procs' \in Seq({procs'[i] : i \in 1..Len(procs')})
    BY <2>2
  <2> QED
    BY <2>2, <2>3 DEF Top
<1>22. Typed'
  BY <1>1, <1>2, <1>21 DEF Typed
<1>23. StackInv'
  <2>1. \A i \in 1..(m + 1) : Wellformed(prog, procs'[i])
    <3> SUFFICES ASSUME NEW i \in 1..(m + 1)
                 PROVE  Wellformed(prog, procs'[i])
      OBVIOUS
    <3>1. CASE i = m + 1
      BY <3>1, <1>12, <1>21
    <3>2. CASE i # m + 1
      <4>1. i \in 1..m
        BY <3>2, <1>18
      <4> QED
        BY <4>1, <1>19, <1>21
    <3> QED
      BY <3>1, <3>2
  <2>2. \A i \in 1..m : Parked(procs'[i]) /\ procs'[i].len <= Len(trace)
    BY <1>19, <1>21
  <2>3. \A i, j \in 1..m : i <= j => procs'[i].len <= procs'[j].len
    BY <1>20, <1>21
  <2>4. Top' - 1 = m
    BY <1>18, <1>21
  <2> QED
    BY <2>1, <2>2, <2>3, <2>4, <1>1, <1>21 DEF StackInv
<1>24. RollbackInv'
  <2>1. Top' > 0 /\ ~procs'[Top'].killed
    BY <1>10, <1>11, <1>18, <1>21
  <2> QED
    BY <2>1, <1>1, <1>2 DEF Inv, RollbackInv
<1>25. DeferredInv'
  <2>1. ~procs'[Top'].asked
    BY <1>11, <1>18, <1>21
  <2> QED
    BY <2>1, <1>1, <1>2 DEF DeferredInv
<1> QED
  BY <1>22, <1>23, <1>24, <1>25 DEF Inv

-----------------------------------------------------------------------------
(* Transactions *)

LEMMA StillKeeps ==
  ASSUME Inv, procs' = procs, trace' = trace,
         prog' = prog, seen' \in [Entries -> Int], Transaction(rollback'), changing' \in BOOLEAN,
         auxDirty' \in BOOLEAN, finishing' \in BOOLEAN
  PROVE  Typed' /\ StackInv' /\ Top' = Top
BY DEF Inv, Typed, StackInv, Transaction, Top

LEMMA RevertedTyped ==
  ASSUME NEW sn \in [Entries -> Int], NEW tr \in Seq(TraceEntry), NEW from \in Nat,
         NEW to \in Int, to <= Len(tr)
  PROVE  Reverted(sn, tr, from, to) \in [Entries -> Int]
<1> DEFINE ks(g) == {k \in (from + 1)..to : tr[k].entry = g}
<1>1. ASSUME NEW g \in Entries
      PROVE  (IF ks(g) = {} THEN sn[g] ELSE tr[Min(ks(g))].seen) \in Int
  <2>1. CASE ks(g) = {}
    BY <2>1
  <2>2. CASE ks(g) # {}
    <3>1. ks(g) \subseteq Nat
      OBVIOUS
    <3>2. Min(ks(g)) \in ks(g)
      <4> HIDE DEF ks
      <4> QED
        BY <2>2, <3>1, MinIn
    <3>3. Min(ks(g)) \in 1..Len(tr)
      BY <3>2
    <3>4. tr[Min(ks(g))] \in TraceEntry
      <4> HIDE DEF ks
      <4> QED
        BY <3>3
    <3> QED
      BY <2>2, <3>4 DEF TraceEntry
  <2> QED
    BY <2>1, <2>2
<1>2. Reverted(sn, tr, from, to) = [g \in Entries |-> IF ks(g) = {} THEN sn[g] ELSE tr[Min(ks(g))].seen]
  BY DEF Reverted
<1> HIDE DEF ks
<1> QED
  BY <1>1, <1>2

LEMMA RewindTyped ==
  ASSUME NEW f, NEW offset, NEW sn \in [Entries -> Int], NEW tr \in Seq(TraceEntry),
         NEW len \in Nat, len <= Len(tr), NEW flush \in BOOLEAN,
         Transaction(rollback), rollback.len \in Nat, rollback.len <= Len(tr), aborted = "no",
         Rewind(f, offset, sn, tr, len, flush)
  PROVE  /\ seen' \in [Entries -> Int]
         /\ Transaction(rollback') /\ rollback'.len \in Nat /\ rollback'.len <= Len(tr)
         /\ rollback'.flush = flush
         /\ aborted' \in {"no", "trace"}
<1>1. PICK points : points = {k \in 0..(len - 1) : Reverted(sn, tr, k, len)[f] < offset}
  OBVIOUS
<1>2. CASE points = {}
  <2>1. /\ aborted' = "trace" /\ seen' = sn /\ rollback' = [rollback EXCEPT !.flush = flush]
    BY <1>1, <1>2, Zenon DEF Rewind
  <2> QED
    BY <2>1 DEF Transaction
<1>3. CASE points # {}
  <2>1. /\ seen' = Reverted(sn, tr, Max(points), len)
        /\ rollback' = [len |-> Max(points), offset |-> offset, flush |-> flush]
        /\ aborted' = aborted
    BY <1>1, <1>3, Zenon DEF Rewind
  <2>2. points \subseteq 0..(len - 1)
    BY <1>1, Zenon
  <2>3. Max(points) \in 0..(len - 1)
    <3>1. points \subseteq Int /\ \A x \in points : x <= len
      BY <2>2
    <3>2. len \in Int
      OBVIOUS
    <3> QED
      BY <2>2, <3>1, <3>2, <1>3, MaxIn
  <2>4. PICK m \in Nat : m = Max(points) /\ m <= Len(tr)
    BY <2>3
  <2>5. Reverted(sn, tr, m, len) \in [Entries -> Int]
    <3>1. len \in Int
      OBVIOUS
    <3> QED
      BY <3>1, RevertedTyped
  <2> QED
    BY <2>1, <2>4, <2>5 DEF Transaction
<1> QED
  BY <1>2, <1>3

(* What a change may do to the transaction *)
Moved ==
  /\ Transaction(rollback') /\ rollback'.len \in Nat /\ rollback'.len <= Len(trace')
  /\ rollback.flush => rollback'.flush
  /\ aborted' \in {"no", "trace", "closed", "fence"}

LEMMA SynchronizeKeeps ==
  ASSUME Inv, changing, aborted = "no", NEW f \in Entries, NEW offset,
         rollback.len = Len(trace), Alive(Top), Synchronize(f, offset),
         prog' = prog, changing' = changing, auxDirty' = auxDirty, finishing' = finishing,
         deferred' = deferred
  PROVE  Inv'
<1>0. /\ Typed /\ Top > 0 /\ procs[Top].fd /\ Transaction(rollback) /\ Len(trace) \in Nat
      /\ seen \in [Entries -> Int] /\ trace \in Seq(TraceEntry)
  <2>1. Typed /\ Transaction(rollback) /\ Len(trace) \in Nat
    BY TransactionTyped, StackTyped DEF Inv
  <2>2. rollback.len # NotInTransaction
    BY <2>1 DEF NotInTransaction
  <2> QED
    BY <2>1, <2>2 DEF Inv, RollbackInv, Alive, Typed
<1>1. PICK p : p = procs[Top]
  OBVIOUS
<1>2. Wellformed(prog, p) /\ ~p.killed /\ p.fd
  BY <1>0, <1>1, TopWellformed DEF Inv, RollbackInv
<1>3. CASE p.out = <<>>
  <2>1. /\ SetTop([p EXCEPT !.fd = FALSE, !.killed = TRUE])
        /\ rollback' = [rollback EXCEPT !.flush = TRUE]
        /\ seen' = seen /\ trace' = trace /\ aborted' = aborted
    BY <1>1, <1>3, Zenon DEF Synchronize
  <2>2. PICK q : q = [p EXCEPT !.fd = FALSE, !.killed = TRUE]
    OBVIOUS
  <2>3. SameBelow /\ procs'[Top] = q
    BY <1>0, <2>1, <2>2, TopSet
  <2>4. /\ DOMAIN q = Fields /\ q.fd = FALSE /\ q.killed = TRUE /\ q.asked = p.asked
        /\ q.pc = p.pc /\ q.out = <<>> /\ q.flush = p.flush /\ q.len = p.len
        /\ q.pos = p.pos /\ q.unsent = p.unsent
    BY <1>2, <1>3, <2>2 DEF Wellformed, Fields
  <2>5. Wellformed(prog, q)
    BY <1>2, <2>4 DEF Wellformed, Speaking
  <2>6. /\ Transaction(rollback') /\ rollback'.len = rollback.len /\ rollback'.flush = TRUE
        /\ rollback'.len \in Nat
    BY <1>0, <2>1 DEF Transaction
  <2>7. Typed' /\ StackInv'
    <3>1. /\ seen' \in [Entries -> Int] /\ trace' \in Seq(TraceEntry) /\ Len(trace') >= Len(trace)
          /\ changing' \in BOOLEAN /\ auxDirty' \in BOOLEAN /\ finishing' \in BOOLEAN
      BY <1>0, <2>1 DEF Typed
    <3> QED
      BY <2>3, <2>5, <2>6, <3>1, StackKeeps
  <2>8. RollbackInv'
    <3>1. rollback'.len # NotInTransaction /\ rollback'.len <= Len(trace')
      BY <1>0, <2>1, <2>6 DEF NotInTransaction
    <3> QED
      BY <1>0, <2>1, <2>3, <2>4, <2>6, <3>1 DEF RollbackInv, SameBelow, Inv
  <2>9. DeferredInv'
    BY <1>0, <1>1, <1>2, <1>3, <2>1, <2>3, <2>4 DEF DeferredInv, SameBelow, Inv
  <2> QED
    BY <2>7, <2>8, <2>9 DEF Inv
<1>4. ASSUME procs' = procs, seen' = seen, trace' = trace,
             \/ rollback' = rollback /\ aborted' = "closed"
             \/ rollback' = [rollback EXCEPT !.flush = TRUE] /\ aborted' = aborted
      PROVE  Inv'
  <2>1. /\ Transaction(rollback') /\ rollback'.len = rollback.len
        /\ rollback.flush => rollback'.flush
        /\ aborted' # "rewind"
    BY <1>0, <1>4 DEF Transaction
  <2>2. Typed' /\ StackInv' /\ Top' = Top
    BY <1>0, <1>4, <2>1, StillKeeps DEF Typed
  <2>3. RollbackInv'
    BY <1>0, <1>4, <2>1, <2>2 DEF RollbackInv, Inv
  <2>4. DeferredInv'
    BY <1>4, <2>2 DEF DeferredInv, Inv
  <2> QED
    BY <2>2, <2>3, <2>4 DEF Inv
<1>5. CASE p.out # <<>> /\ Head(p.out).tag = "SEEN"
  <2>1. PICK m : m = Head(p.out)
    OBVIOUS
  <2>2. PICK sn : sn = [seen EXCEPT ![m.file] = m.arg]
    OBVIOUS
  <2>3. PICK tr : tr = Recorded(trace, seen, m.file)
    OBVIOUS
  <2>4. PICK q : q = [p EXCEPT !.out = Tail(@)]
    OBVIOUS
  <2>5. /\ SetTop(q)
        /\ \/ aborted' = "fence" /\ UNCHANGED <<seen, trace, rollback>>
           \/ rollback' = [rollback EXCEPT !.flush = TRUE] /\ UNCHANGED <<seen, trace, aborted>>
           \/ trace' = tr /\ Rewind(f, offset, sn, tr, Len(tr), TRUE)
           \/ /\ trace' = tr /\ seen' = sn
              /\ rollback' = [rollback EXCEPT !.len = Len(tr), !.flush = TRUE]
              /\ UNCHANGED aborted
    BY <1>1, <1>5, <2>1, <2>2, <2>3, <2>4, Zenon DEF Synchronize
  <2>6. SameBelow /\ procs'[Top] = q
    BY <1>0, <2>5, TopSet
  <2>7. /\ p.asked /\ Head(p.out) \in SeenMessage /\ Tail(p.out) # <<>>
        /\ \E u \in Seq(SeenMessage) : \E w : Tail(p.out) = u \o <<w>> /\ Asks(prog, p, w)
    BY <1>0, <1>1, <1>2, <1>5, SeenRead
  <2>8. /\ DOMAIN q = Fields /\ q.fd = p.fd /\ q.killed = p.killed /\ q.asked = p.asked
        /\ q.pc = p.pc /\ q.out = Tail(p.out) /\ q.flush = p.flush /\ q.len = p.len
        /\ q.pos = p.pos /\ q.unsent = p.unsent
    BY <1>2, <2>4 DEF Wellformed, Fields
  <2>9. Wellformed(prog, q)
    BY <1>2, <2>7, <2>8, TailWellformed
  <2>10. /\ m.file \in Entries /\ m.arg \in Int
         /\ sn \in [Entries -> Int] /\ tr \in Seq(TraceEntry) /\ Len(tr) >= Len(trace)
         /\ Len(tr) \in Nat
    <3>1. m.file \in Entries /\ m.arg \in Int
      BY <2>1, <2>7 DEF SeenMessage
    <3>2. sn \in [Entries -> Int]
      BY <3>1, <2>2, <1>0
    <3>3. tr \in Seq(TraceEntry) /\ Len(tr) >= Len(trace)
      BY <3>1, <2>3, <1>0, RecordedTyped
    <3> QED
      BY <3>1, <3>2, <3>3
  <2>11. /\ seen' \in [Entries -> Int] /\ trace' \in Seq(TraceEntry) /\ Len(trace') >= Len(trace)
         /\ Transaction(rollback') /\ rollback'.len <= Len(trace')
         /\ aborted' # "rewind"
    <3>1. CASE aborted' = "fence" /\ UNCHANGED <<seen, trace, rollback>>
      BY <3>1, <1>0
    <3>2. CASE rollback' = [rollback EXCEPT !.flush = TRUE] /\ UNCHANGED <<seen, trace, aborted>>
      <4>1. Transaction(rollback') /\ rollback'.len = rollback.len
        BY <3>2, <1>0 DEF Transaction
      <4>2. aborted' # "rewind" /\ seen' = seen /\ trace' = trace
        BY <3>2
      <4> QED
        BY <4>1, <4>2, <1>0
    <3>3. CASE trace' = tr /\ Rewind(f, offset, sn, tr, Len(tr), TRUE)
      <4>1. rollback.len \in Nat /\ rollback.len <= Len(tr) /\ Len(tr) <= Len(tr)
        BY <1>0, <2>10
      <4>2. /\ seen' \in [Entries -> Int]
            /\ Transaction(rollback') /\ rollback'.len \in Nat /\ rollback'.len <= Len(tr)
            /\ aborted' \in {"no", "trace"}
        BY <3>3, <4>1, <1>0, <2>10, RewindTyped
      <4> QED
        BY <3>3, <4>2, <2>10
    <3>4. CASE /\ trace' = tr /\ seen' = sn
               /\ rollback' = [rollback EXCEPT !.len = Len(tr), !.flush = TRUE]
               /\ UNCHANGED aborted
      <4>1. Transaction(rollback') /\ rollback'.len = Len(tr)
        <5>1. PICK n \in Nat : n = Len(tr)
          BY <2>10
        <5>2. rollback' = [rollback EXCEPT !.len = n, !.flush = TRUE]
          BY <3>4, <5>1
        <5> QED
          BY <5>1, <5>2, <1>0 DEF Transaction
      <4>2. aborted' # "rewind" /\ seen' = sn /\ trace' = tr
        BY <3>4
      <4> QED
        BY <4>1, <4>2, <2>10
    <3> QED
      BY <2>5, <3>1, <3>2, <3>3, <3>4
  <2>12. Typed' /\ StackInv'
    <3>1. changing' \in BOOLEAN /\ auxDirty' \in BOOLEAN /\ finishing' \in BOOLEAN
      BY <1>0 DEF Typed
    <3> QED
      BY <2>6, <2>9, <2>11, <3>1, StackKeeps
  <2>13. RollbackInv'
    <3>1. ~procs'[Top'].killed /\ Top' > 0
      BY <1>2, <2>6, <2>8 DEF SameBelow
    <3> QED
      BY <2>11, <3>1 DEF RollbackInv
  <2>14. DeferredInv'
    BY <1>0, <1>1, <1>2, <1>5, <2>6, <2>7, <2>8 DEF DeferredInv, SameBelow, Inv
  <2> QED
    BY <2>12, <2>13, <2>14 DEF Inv
<1>6. CASE p.out # <<>> /\ Head(p.out).tag = "EXIT"
  <2>1. /\ aborted' = "closed" /\ UNCHANGED <<seen, trace, procs, rollback>>
    BY <1>1, <1>6, Zenon DEF Synchronize
  <2> QED
    BY <2>1, <1>4
<1>7. CASE p.out # <<>> /\ Head(p.out).tag \notin {"SEEN", "EXIT"}
  <2>1. /\ rollback' = [rollback EXCEPT !.flush = TRUE]
        /\ UNCHANGED <<seen, trace, procs, aborted>>
    BY <1>1, <1>7 DEF Synchronize
  <2> QED
    BY <2>1, <1>4
<1> QED
  BY <1>3, <1>5, <1>6, <1>7

LEMMA AddChangeKeeps ==
  ASSUME Inv, changing, aborted = "no", NEW f \in Entries, NEW offset, AddChange(f, offset),
         prog' = prog, changing' = changing, auxDirty' = auxDirty, finishing' = finishing,
         deferred' = deferred
  PROVE  Inv'
<1>1. CASE UNCHANGED <<seen, trace, procs, rollback, aborted>>
  BY <1>1 DEF Inv, Typed, StackInv, RollbackInv, DeferredInv, Top
<1>2. CASE /\ rollback.len # NotInTransaction
           /\ Rewind(f, offset, seen, trace, rollback.len, rollback.flush)
           /\ UNCHANGED <<trace, procs>>
  <2>1. /\ seen \in [Entries -> Int] /\ trace \in Seq(TraceEntry) /\ Transaction(rollback)
        /\ rollback.len \in Nat /\ rollback.len <= Len(trace) /\ rollback.flush \in BOOLEAN
    BY <1>2, TransactionTyped DEF Inv, Typed, RollbackInv, Transaction
  <2>2. /\ seen' \in [Entries -> Int]
        /\ Transaction(rollback') /\ rollback'.len \in Nat /\ rollback'.len <= Len(trace)
        /\ rollback'.flush = rollback.flush
        /\ aborted' \in {"no", "trace"}
    BY <1>2, <2>1, RewindTyped
  <2>3. Typed' /\ StackInv' /\ Top' = Top
    BY <1>2, <2>2, StillKeeps DEF Inv, Typed
  <2>4. RollbackInv'
    <3>1. rollback'.len # NotInTransaction
      BY <2>2 DEF NotInTransaction
    <3> QED
      BY <1>2, <2>2, <2>3, <3>1 DEF RollbackInv, Inv
  <2>5. DeferredInv'
    BY <1>2, <2>3 DEF DeferredInv, Inv
  <2> QED
    BY <2>3, <2>4, <2>5 DEF Inv
<1>3. CASE rollback.len = Len(trace) /\ Alive(Top) /\ Synchronize(f, offset)
  BY <1>3, SynchronizeKeeps
<1> QED
  BY <1>1, <1>2, <1>3 DEF AddChange

LEMMA EditorOpenKeeps ==
  ASSUME Inv, NEW f \in Entries, NEW data, EditorOpen(f, data)
  PROVE  Inv'
<1>1. /\ changing /\ aborted = "no" /\ prog' = prog /\ changing' = changing
      /\ auxDirty' = auxDirty /\ finishing' = finishing /\ deferred' = deferred
  BY Zenon DEF EditorOpen, Changing
<1>2. \/ \E offset : AddChange(f, offset)
      \/ UNCHANGED <<seen, trace, procs, rollback, aborted>>
  BY DEF EditorOpen
<1>3. CASE UNCHANGED <<seen, trace, procs, rollback, aborted>>
  BY <1>1, <1>3 DEF Inv, Typed, StackInv, RollbackInv, DeferredInv, Top
<1> QED
  BY <1>1, <1>2, <1>3, AddChangeKeeps

LEMMA EditorChangeKeeps ==
  ASSUME Inv, NEW f \in Entries, NEW data, EditorChange(f, data)
  PROVE  Inv'
<1>1. /\ changing /\ aborted = "no" /\ prog' = prog /\ changing' = changing
      /\ auxDirty' = auxDirty /\ finishing' = finishing /\ deferred' = deferred
      /\ \E offset : AddChange(f, offset)
  BY Zenon DEF EditorChange, Changing
<1> QED
  BY <1>1, AddChangeKeeps

LEMMA EditorCloseKeeps ==
  ASSUME Inv, NEW f \in Entries, EditorClose(f)
  PROVE  Inv'
<1>1. /\ changing /\ aborted = "no" /\ prog' = prog /\ changing' = changing
      /\ auxDirty' = auxDirty /\ finishing' = finishing /\ deferred' = deferred
      /\ \E offset : AddChange(f, offset)
  BY Zenon DEF EditorClose, Changing
<1> QED
  BY <1>1, AddChangeKeeps

LEMMA ScanKeeps ==
  ASSUME Inv, NEW f \in Entries, Scan(f)
  PROVE  Inv'
<1>1. /\ changing /\ aborted = "no" /\ prog' = prog /\ changing' = changing
      /\ auxDirty' = auxDirty /\ finishing' = finishing /\ deferred' = deferred
      /\ \E offset : AddChange(f, offset)
  BY Zenon DEF Scan
<1> QED
  BY <1>1, AddChangeKeeps

LEMMA DiskChangeKeeps ==
  ASSUME Inv, NEW f, NEW data, DiskChange(f, data)
  PROVE  Inv'
BY DEF DiskChange, Inv, Typed, StackInv, RollbackInv, DeferredInv, Top

LEMMA ScanSameKeeps ==
  ASSUME Inv, NEW f, ScanSame(f)
  PROVE  Inv'
BY DEF ScanSame, Inv, Typed, StackInv, RollbackInv, DeferredInv, Top

LEMMA ClosedTransaction ==
  /\ \A r : r = Closed => Transaction(r)
  /\ Closed.len = NotInTransaction /\ \A n \in Nat : Closed.len <= n
<1>1. Closed.len = NotInTransaction /\ Transaction(Closed)
  BY DEF Transaction, Closed, NotInTransaction
<1>2. \A n \in Nat : NotInTransaction <= n
  BY DEF NotInTransaction
<1> QED
  BY <1>1, <1>2

LEMMA TransactionMade ==
  ASSUME NEW L, NEW x \in L, NEW o, NEW r, r = [len |-> x, offset |-> o, flush |-> FALSE]
  PROVE  r \in [len : L, offset : {r.offset}, flush : BOOLEAN] /\ r.len = x
OBVIOUS

LEMMA OpenedTransaction ==
  ASSUME NEW n \in Nat, NEW r, r = [Closed EXCEPT !.len = n]
  PROVE  Transaction(r) /\ r.len = n
<1>1. PICK o : o = -1
  OBVIOUS
<1>2. PICK x : x = n
  OBVIOUS
<1>3. r = [len |-> x, offset |-> o, flush |-> FALSE]
  BY <1>1, <1>2 DEF Closed
<1>4. PICK L : L = Nat \cup {NotInTransaction}
  OBVIOUS
<1>5. x \in L
  BY <1>2, <1>4
<1>6. r \in [len : L, offset : {r.offset}, flush : BOOLEAN] /\ r.len = x
  BY <1>3, <1>5, TransactionMade
<1> QED
  BY <1>2, <1>4, <1>6 DEF Transaction

LEMMA BeginChangesKeeps ==
  ASSUME Inv, BeginChanges
  PROVE  Inv'
<1>1. /\ UNCHANGED <<prog, seen, trace, procs, deferred, auxDirty, finishing, aborted>>
      /\ aborted = "no" /\ changing' = TRUE /\ ~changing
      /\ rollback' = IF Top = 0 THEN Closed ELSE [Closed EXCEPT !.len = Len(trace)]
      /\ Typed /\ Top \in Nat /\ Len(trace) \in Nat
  BY StackTyped DEF BeginChanges, Inv
<1>2. /\ Transaction(rollback') /\ rollback'.len <= Len(trace)
      /\ rollback'.len # NotInTransaction => Top > 0
  <2>1. PICK n \in Nat : n = Len(trace)
    BY <1>1
  <2>2. CASE Top = 0
    BY <2>2, <1>1, ClosedTransaction
  <2>3. CASE Top # 0
    <3>1. rollback' = [Closed EXCEPT !.len = n] /\ Top > 0
      BY <2>1, <2>3, <1>1
    <3> QED
      BY <2>1, <3>1, OpenedTransaction
  <2> QED
    BY <2>2, <2>3
<1>3. Typed' /\ StackInv' /\ Top' = Top
  <2>1. /\ seen' \in [Entries -> Int] /\ changing' \in BOOLEAN /\ auxDirty' \in BOOLEAN
        /\ finishing' \in BOOLEAN
    BY <1>1 DEF Typed
  <2> QED
    BY <1>1, <1>2, <2>1, StillKeeps
<1>4. RollbackInv'
  <2>1. Top > 0 => ~procs[Top].killed
    BY <1>1 DEF Inv, RollbackInv
  <2> QED
    BY <1>1, <1>2, <1>3, <2>1 DEF RollbackInv
<1>5. DeferredInv'
  BY <1>1, <1>3 DEF Inv, DeferredInv
<1> QED
  BY <1>3, <1>4, <1>5 DEF Inv

-----------------------------------------------------------------------------
(* The end of a transaction *)

(* The worker on top is alive or it ended by itself. *)
LEMMA SettleKeeps ==
  ASSUME Inv, Typed', StackInv', Top' = Top, rollback' = Closed, changing' = FALSE,
         aborted' # "rewind", Top > 0 => ~procs'[Top].killed, DeferredInv'
  PROVE  Inv'
<1>1. Len(trace') \in Nat
  BY DEF Typed
<1>2. RollbackInv'
  BY <1>1, ClosedTransaction DEF RollbackInv
<1> QED
  BY <1>2 DEF Inv

LEMMA EndUnchangedKeeps ==
  ASSUME Inv, changing, aborted = "no", EndUnchanged,
         changing' = FALSE, rollback' = Closed, prog' = prog
  PROVE  Inv'
<1>1. UNCHANGED <<seen, trace, procs, deferred, auxDirty, finishing, aborted>>
  BY DEF EndUnchanged
<1>2. Typed' /\ StackInv' /\ Top' = Top
  <2>1. Transaction(rollback')
    BY ClosedTransaction
  <2>2. /\ seen' \in [Entries -> Int] /\ changing' \in BOOLEAN /\ auxDirty' \in BOOLEAN
        /\ finishing' \in BOOLEAN
    BY <1>1 DEF Inv, Typed
  <2> QED
    BY <1>1, <2>1, <2>2, StillKeeps
<1>3. Top > 0 => ~procs'[Top].killed
  BY <1>1 DEF EndUnchanged, Inv, RollbackInv
<1>4. DeferredInv'
  BY <1>1, <1>2 DEF Inv, DeferredInv
<1> QED
  BY <1>1, <1>2, <1>3, <1>4, SettleKeeps

LEMMA EndFlushKeeps ==
  ASSUME Inv, changing, aborted = "no", EndFlush,
         changing' = FALSE, rollback' = Closed, prog' = prog
  PROVE  Inv'
<1>1. /\ UNCHANGED <<seen, trace, deferred, auxDirty, finishing>>
      /\ Alive(Top) /\ rollback.len = Len(trace)
      /\ Typed /\ Len(trace) \in Nat
  BY StackTyped DEF EndFlush, Flushing, Inv
<1>2. Transaction(rollback')
  BY ClosedTransaction
<1>3. /\ seen' \in [Entries -> Int] /\ trace' \in Seq(TraceEntry) /\ Len(trace') >= Len(trace)
      /\ changing' \in BOOLEAN /\ auxDirty' \in BOOLEAN
      /\ finishing' \in BOOLEAN
  <2>1. /\ seen \in [Entries -> Int] /\ trace \in Seq(TraceEntry)
        /\ auxDirty \in BOOLEAN /\ finishing \in BOOLEAN
    BY <1>1 DEF Typed
  <2>2. seen' = seen /\ trace' = trace /\ auxDirty' = auxDirty /\ finishing' = finishing
    BY <1>1
  <2>3. Len(trace') >= Len(trace)
    BY <1>1, <2>2
  <2> QED
    BY <2>1, <2>2, <2>3
<1>4. Top > 0 /\ ~procs[Top].killed
  <2>1. rollback.len # NotInTransaction
    BY <1>1 DEF NotInTransaction
  <2> QED
    BY <1>1, <2>1 DEF Inv, RollbackInv, Alive
<1>5. CASE aborted' = "closed" /\ procs' = procs
  <2>1. Typed' /\ StackInv' /\ Top' = Top
    BY <1>1, <1>2, <1>3, <1>5, StillKeeps
  <2>2. DeferredInv'
    BY <1>5 DEF DeferredInv
  <2> QED
    BY <1>4, <1>5, <2>1, <2>2, SettleKeeps
<1>6. CASE aborted' = aborted /\ SetTop([procs[Top] EXCEPT !.flush = TRUE])
  <2>1. PICK p : p = procs[Top]
    OBVIOUS
  <2>2. PICK q : q = [p EXCEPT !.flush = TRUE]
    OBVIOUS
  <2>3. SameBelow /\ procs'[Top] = q
    BY <1>1, <1>4, <1>6, <2>1, <2>2, TopSet
  <2>4. Wellformed(prog, p)
    BY <1>4, <2>1, TopWellformed
  <2>5. /\ DOMAIN q = Fields /\ q.fd = p.fd /\ q.killed = p.killed /\ q.asked = p.asked
        /\ q.pc = p.pc /\ q.out = p.out /\ q.flush = TRUE /\ q.len = p.len
        /\ q.pos = p.pos /\ q.unsent = p.unsent /\ q.buf = p.buf
    BY <2>2, <2>4 DEF Wellformed, Fields
  <2>6. Wellformed(prog, q)
    <3>1. \A w : Asks(prog, p, w) => Asks(prog, q, w)
      BY <2>5 DEF Asks
    <3>2. Speaking(prog, q)
      BY <2>4, <2>5, <3>1 DEF Wellformed, Speaking
    <3> QED
      BY <2>4, <2>5, <3>2 DEF Wellformed
  <2>7. Typed' /\ StackInv' /\ Top' = Top
    BY <1>2, <1>3, <2>3, <2>6, StackKeeps DEF SameBelow
  <2>8. DeferredInv'
    BY <1>1, <1>4, <1>6, <2>1, <2>3, <2>5, <2>7 DEF DeferredInv, Inv
  <2> QED
    BY <1>4, <1>6, <2>1, <2>3, <2>5, <2>7, <2>8, SettleKeeps
<1> QED
  BY <1>5, <1>6 DEF EndFlush

LEMMA OwnElements ==
  ASSUME NEW S, NEW s \in Seq(S)
  PROVE  s \in Seq({s[i] : i \in 1..Len(s)})
OBVIOUS

LEMMA CutSequence ==
  ASSUME NEW S, NEW s \in Seq(S), NEW n \in Nat, n <= Len(s)
  PROVE  /\ SubSeq(s, 1, n) \in Seq(S) /\ Len(SubSeq(s, 1, n)) = n
         /\ \A i \in 1..n : SubSeq(s, 1, n)[i] = s[i]
<1>1. \A i \in 1..n : s[i] \in S
  OBVIOUS
<1>2. SubSeq(s, 1, n) \in Seq(S)
  BY <1>1, SubSeqProperties
<1> QED
  BY <1>2

(* The processes above the n-th are dropped, with what they own of the trace. *)
LEMMA CutKeeps ==
  ASSUME Inv, NEW n \in Nat, n < Top \/ n = 0,
         procs' = SubSeq(procs, 1, n),
         trace' = SubSeq(trace, 1, IF n = 0 THEN 0 ELSE procs[n].len),
         seen' \in [Entries -> Int], prog' = prog, rollback' = Closed, changing' = FALSE,
         auxDirty' \in BOOLEAN, finishing' \in BOOLEAN, deferred' = Null, aborted' = "no"
  PROVE  Inv'
<1>1. Typed /\ Top \in Nat /\ n <= Top /\ Top = Len(procs) /\ Len(trace) \in Nat
  BY StackTyped DEF Inv, Top
<1>2. PICK len \in Nat : len <= Len(trace) /\ len = IF n = 0 THEN 0 ELSE procs[n].len
  <2>1. CASE n = 0
    BY <2>1, <1>1
  <2>2. CASE n # 0
    <3>1. n \in 1..(Top - 1) /\ n \in 1..Top
      BY <2>2, <1>1
    <3>2. procs[n].len \in Nat /\ procs[n].len <= Len(trace)
      BY <3>1 DEF Inv, StackInv, Wellformed
    <3> QED
      BY <2>2, <3>2
  <2> QED
    BY <2>1, <2>2
<1>3. trace' \in Seq(TraceEntry) /\ Len(trace') = len
  <2>1. trace \in Seq(TraceEntry) /\ trace' = SubSeq(trace, 1, len)
    BY <1>1, <1>2 DEF Typed
  <2> QED
    BY <2>1, <1>1, <1>2, CutSequence
<1>4. /\ Top' = n /\ \A i \in 1..n : procs'[i] = procs[i]
      /\ procs' \in Seq({procs'[i] : i \in 1..Len(procs')})
  <2>1. PICK S : procs \in Seq(S)
    BY <1>1 DEF Typed
  <2>2. procs' \in Seq(S) /\ Len(procs') = n /\ \A i \in 1..n : procs'[i] = procs[i]
    BY <2>1, <1>1, CutSequence
  <2>3. procs' \in Seq({procs'[i] : i \in 1..Len(procs')})
    <3>1. PICK c : c = procs'
      OBVIOUS
    <3>2. c \in Seq(S)
      BY <2>2, <3>1
    <3>3. c \in Seq({c[i] : i \in 1..Len(c)})
      BY <3>2, OwnElements
    <3> QED
      BY <3>1, <3>3
  <2> QED
    BY <2>2, <2>3 DEF Top
<1>5. ASSUME NEW i \in 1..n
      PROVE  /\ Wellformed(prog, procs'[i]) /\ Parked(procs'[i])
             /\ procs'[i].len <= len /\ procs'[i] = procs[i] /\ i \in 1..(Top - 1)
  <2>1. i \in 1..(Top - 1) /\ i \in 1..Top /\ n \in 1..(Top - 1) /\ n # 0 /\ i <= n
    BY <1>1
  <2>2. procs[i].len <= procs[n].len
    BY <2>1 DEF Inv, StackInv
  <2> QED
    BY <1>2, <1>4, <2>1, <2>2 DEF Inv, StackInv
<1>6. Typed'
  <2>1. Transaction(rollback')
    BY ClosedTransaction
  <2> QED
    BY <1>1, <1>3, <1>4, <2>1 DEF Typed, Transaction
<1>7. StackInv'
  <2>1. \A i \in 1..n : Wellformed(prog, procs'[i])
    BY <1>5
  <2>2. \A i \in 1..(n - 1) : Parked(procs'[i]) /\ procs'[i].len <= len
    BY <1>5
  <2>3. \A i, j \in 1..(n - 1) : i <= j => procs'[i].len <= procs'[j].len
    <3> SUFFICES ASSUME NEW i \in 1..(n - 1), NEW j \in 1..(n - 1), i <= j
                 PROVE  procs'[i].len <= procs'[j].len
      OBVIOUS
    <3>1. i \in 1..n /\ j \in 1..n
      OBVIOUS
    <3> QED
      BY <3>1, <1>5 DEF Inv, StackInv
  <2> QED
    BY <1>3, <1>4, <2>1, <2>2, <2>3 DEF StackInv
<1>8. Top' > 0 => ~procs'[Top'].killed /\ ~procs'[Top'].asked
  BY <1>4, <1>5 DEF Parked
<1>9. RollbackInv'
  BY <1>3, <1>8, ClosedTransaction DEF RollbackInv
<1>10. DeferredInv'
  BY <1>8 DEF DeferredInv
<1> QED
  BY <1>6, <1>7, <1>9, <1>10 DEF Inv

LEMMA SettledStack ==
  ASSUME Inv, NEW i \in 1..Top, i # Top
  PROVE  Alive(i) /\ TraceLen(i) = procs[i].len /\ procs[i].len \in Nat
<1>1. i \in 1..(Top - 1)
  BY StackTyped DEF Inv
<1> QED
  BY <1>1 DEF Inv, StackInv, Parked, Alive, TraceLen, Wellformed

LEMMA RollbackKeeps ==
  ASSUME Inv, NEW back \in Nat, back <= Len(trace), NEW sn \in [Entries -> Int], NEW target,
         Top > 0, Gone(Top, target), Rollback(back, sn, target),
         prog' = prog, changing' = FALSE, rollback' = Closed, aborted' = "no"
  PROVE  Inv'
<1>1. Typed /\ Top \in Nat /\ Len(trace) \in Nat /\ trace \in Seq(TraceEntry)
  BY StackTyped DEF Inv, Typed
<1>2. PICK kept : kept = {0} \cup {i \in 1..Top : ~Gone(i, target)}
  OBVIOUS
<1>3. PICK n \in Nat : n = Max(kept) /\ (n < Top \/ n = 0)
  <2>1. kept \subseteq {0} \cup 1..Top /\ Top \notin kept /\ 0 \in kept
    BY <1>2
  <2>2. kept \subseteq Int /\ \A x \in kept : x <= Top
    BY <2>1, <1>1
  <2>3. Max(kept) \in kept
    <3>1. Top \in Int /\ kept # {}
      BY <1>1, <2>1
    <3> QED
      BY <2>2, <3>1, MaxIn
  <2>4. PICK m : m = Max(kept)
    OBVIOUS
  <2>5. m \in Nat /\ (m < Top \/ m = 0)
    <3>1. m \in {0} \cup 1..Top /\ m # Top
      BY <2>1, <2>3, <2>4
    <3> QED
      BY <3>1, <1>1
  <2> QED
    BY <2>4, <2>5
<1>4. PICK len : len = IF n = 0 THEN 0 ELSE TraceLen(n)
  OBVIOUS
<1>5. /\ procs' = SubSeq(procs, 1, n) /\ trace' = SubSeq(trace, 1, len)
      /\ seen' = Reverted(sn, trace, len, back)
      /\ auxDirty' = FALSE /\ finishing' = FALSE /\ deferred' = Null
  BY <1>2, <1>3, <1>4, Zenon DEF Rollback
<1>6. len = (IF n = 0 THEN 0 ELSE procs[n].len) /\ len \in Nat
  <2>1. CASE n = 0
    BY <2>1, <1>4
  <2>2. CASE n # 0
    <3>1. n \in 1..Top /\ n # Top
      BY <2>2, <1>1, <1>3
    <3> QED
      BY <2>2, <3>1, <1>4, SettledStack
  <2> QED
    BY <2>1, <2>2
<1>7. seen' \in [Entries -> Int]
  <2>1. back \in Int
    OBVIOUS
  <2> QED
    BY <2>1, <1>1, <1>5, <1>6, RevertedTyped
<1>8. trace' = SubSeq(trace, 1, IF n = 0 THEN 0 ELSE procs[n].len)
  BY <1>5, <1>6
<1> QED
  BY <1>3, <1>5, <1>7, <1>8, CutKeeps

(* The snapshot to resume does not own more than what is kept of the trace. *)
LEMMA ResumePointBefore ==
  ASSUME Inv, NEW back \in Nat
  PROVE  ResumePoint(back) \in Int /\ ResumePoint(back) <= back
<1>1. PICK points : points = {-1} \cup {TraceLen(i) : i \in {j \in 1..Top : TraceLen(j) <= back}}
  OBVIOUS
<1>2. \A i \in 1..Top : TraceLen(i) \in Nat
  BY SettledStack, StackTyped DEF TraceLen, Inv
<1>3. points \subseteq Int
  BY <1>1, <1>2
<1>4. ASSUME NEW x \in points PROVE x <= back
  <2>1. CASE x = -1
    BY <2>1
  <2>2. CASE x # -1
    <3>1. PICK i \in {j \in 1..Top : TraceLen(j) <= back} : x = TraceLen(i)
      BY <2>2, <1>1
    <3> QED
      BY <3>1, Zenon
  <2> QED
    BY <2>1, <2>2
<1>5. ResumePoint(back) \in points
  <2>1. ResumePoint(back) = Max(points)
    BY <1>1 DEF ResumePoint
  <2>2. points # {} /\ back \in Int
    BY <1>1
  <2> QED
    BY <2>1, <2>2, <1>3, <1>4, MaxIn
<1> QED
  BY <1>3, <1>4, <1>5

(* A transaction that goes back drops the top process. *)
LEMMA EndRollbackGoes ==
  ASSUME Inv, EndRollback
  PROVE  \E back \in Nat, sn \in [Entries -> Int], target \in Int :
           /\ sn = Reverted(seen, trace, back, rollback.len)
           /\ rollback.len \in Nat /\ back <= rollback.len /\ back <= Len(trace)
           /\ target <= back /\ Top > 0 /\ Gone(Top, target)
           /\ Rollback(back, sn, target) /\ aborted' = aborted
<1>1. /\ rollback.len # NotInTransaction
      /\ ~Flushing \/ ~Alive(Top)
  BY Zenon DEF EndRollback
<1>2. /\ Typed /\ Top > 0 /\ Top \in Nat /\ Len(trace) \in Nat /\ trace \in Seq(TraceEntry)
      /\ seen \in [Entries -> Int]
      /\ rollback.len \in Nat /\ rollback.len <= Len(trace)
  BY <1>1, StackTyped DEF Inv, RollbackInv, Typed
<1>3. PICK back : back = IF Flushing THEN Max({0, rollback.len - 1}) ELSE rollback.len
  OBVIOUS
<1>4. PICK sn : sn = Reverted(seen, trace, back, rollback.len)
  OBVIOUS
<1>5. \/ back <= 0 /\ Rollback(back, sn, 0) /\ aborted' = aborted
      \/ ~(back <= 0) /\ Len(trace) <= back
      \/ ~(Len(trace) <= back) /\ Rollback(back, sn, ResumePoint(back)) /\ aborted' = aborted
  BY <1>3, <1>4, Zenon DEF EndRollback
<1>6. back \in Nat /\ back <= rollback.len /\ (back > 0 => back < Len(trace))
  <2>1. CASE Flushing
    <3>1. PICK m \in Int : m = rollback.len - 1
      BY <1>2
    <3>2. Max({0, m}) \in {0, m} /\ \A x \in {0, m} : x <= Max({0, m})
      <4>1. rollback.len \in Int /\ {0, m} \subseteq Int /\ {0, m} # {}
            /\ \A x \in {0, m} : x <= rollback.len
        BY <3>1, <1>2
      <4> QED
        BY <4>1, MaxIn
    <3>3. back = Max({0, m})
      BY <2>1, <3>1, <1>3
    <3> QED
      BY <3>1, <3>2, <3>3, <1>2
  <2>2. CASE ~Flushing
    BY <2>2, <1>2, <1>3 DEF Flushing
  <2> QED
    BY <2>1, <2>2
<1>7. sn \in [Entries -> Int]
  <2>1. rollback.len \in Int
    BY <1>2
  <2> QED
    BY <2>1, <1>2, <1>4, <1>6, RevertedTyped
<1>8. back <= Len(trace)
  BY <1>2, <1>6
<1>9. CASE back <= 0 /\ Rollback(back, sn, 0) /\ aborted' = aborted
  <2>1. Gone(Top, 0)
    <3>1. CASE Len(trace) = 0
      <4>1. ~Alive(Top) /\ TraceLen(Top) = 0
        BY <3>1, <1>1, <1>2 DEF Flushing, TraceLen
      <4> QED
        BY <4>1 DEF Gone
    <3>2. CASE Len(trace) # 0
      <4>1. TraceLen(Top) > 0
        BY <3>2, <1>2 DEF TraceLen
      <4> QED
        BY <4>1 DEF Gone
    <3> QED
      BY <3>1, <3>2
  <2> QED
    BY <2>1, <1>2, <1>4, <1>6, <1>7, <1>8, <1>9
<1>10. CASE ~(Len(trace) <= back) /\ Rollback(back, sn, ResumePoint(back)) /\ aborted' = aborted
  <2>1. ResumePoint(back) \in Int /\ ResumePoint(back) <= back
    BY <1>6, ResumePointBefore
  <2>2. TraceLen(Top) > ResumePoint(back)
    <3>1. TraceLen(Top) = Len(trace)
      BY DEF TraceLen
    <3> QED
      BY <2>1, <3>1, <1>2, <1>6, <1>10
  <2>3. Gone(Top, ResumePoint(back))
    BY <2>2 DEF Gone
  <2> QED
    BY <2>1, <2>3, <1>2, <1>4, <1>6, <1>7, <1>8, <1>10
<1> QED
  BY <1>2, <1>5, <1>6, <1>9, <1>10

LEMMA EndRollbackKeeps ==
  ASSUME Inv, changing, aborted = "no", EndRollback,
         changing' = FALSE, rollback' = Closed, prog' = prog
  PROVE  Inv'
BY EndRollbackGoes, RollbackKeeps

LEMMA EndChangesKeeps ==
  ASSUME Inv, EndChanges
  PROVE  Inv'
<1>1. /\ aborted = "no" /\ changing /\ changing' = FALSE /\ rollback' = Closed /\ prog' = prog
      /\ EndUnchanged \/ EndFlush \/ EndRollback
  BY Zenon DEF EndChanges
<1> QED
  BY <1>1, EndUnchangedKeeps, EndFlushKeeps, EndRollbackKeeps

-----------------------------------------------------------------------------
(* Launches *)

LEMMA LaunchKeeps ==
  ASSUME Inv, procs' = <<Launched>>, prog' = prog, seen' \in [Entries -> Int],
         trace' \in Seq(TraceEntry), rollback' = rollback, rollback.len <= Len(trace'),
         changing' = changing, auxDirty' \in BOOLEAN, finishing' \in BOOLEAN,
         deferred' = Null, aborted' = "no"
  PROVE  Inv'
<1>1. PICK p : p = Launched
  OBVIOUS
<1>2. Top' = 1 /\ procs'[1] = p /\ procs' \in Seq({procs'[i] : i \in 1..Len(procs')})
  <2>1. PICK c : c = <<p>>
    OBVIOUS
  <2>2. Len(c) = 1 /\ c[1] = p /\ c \in Seq({c[i] : i \in 1..Len(c)})
    BY <2>1
  <2> QED
    BY <1>1, <2>1, <2>2 DEF Top
<1>3. Wellformed(prog, p) /\ ~p.killed /\ ~p.asked
  <2>1. /\ DOMAIN p = Fields /\ p.fd = TRUE /\ p.killed = FALSE /\ p.asked = FALSE
        /\ p.flush = FALSE /\ p.len = 0 /\ p.pc = 1 /\ p.pos = [f \in Entries |-> 0]
        /\ p.unsent = <<>> /\ p.out = <<>>
    BY <1>1 DEF Launched, Fields
  <2>2. 1 \in 1..(Len(prog) + 1)
    BY ProgTyped DEF Inv
  <2>3. p.pos \in [Entries -> Nat]
    BY <2>1
  <2>4. p.unsent \in Seq(SeenMessage)
    BY <2>1
  <2> QED
    <3>1. p.pc \in 1..(Len(prog) + 1) /\ p.len \in Nat
      BY <2>1, <2>2
    <3>2. Speaking(prog, p)
      BY <2>1 DEF Speaking
    <3> QED
      BY <2>1, <2>3, <2>4, <3>1, <3>2 DEF Wellformed
<1>4. Typed'
  BY <1>2 DEF Inv, Typed
<1>5. StackInv'
  BY <1>2, <1>3 DEF StackInv
<1>6. RollbackInv'
  BY <1>2, <1>3 DEF Inv, RollbackInv
<1>7. DeferredInv'
  BY <1>2, <1>3 DEF DeferredInv
<1> QED
  BY <1>4, <1>5, <1>6, <1>7 DEF Inv

LEMMA PrepareKeeps ==
  ASSUME Inv, Prepare
  PROVE  Inv'
<1>1. /\ aborted = "no" /\ procs' = <<Launched>> /\ deferred' = Null
      /\ UNCHANGED <<prog, seen, trace, changing, rollback, auxDirty, finishing, aborted>>
  BY DEF Prepare
<1>2. /\ seen' \in [Entries -> Int] /\ trace' \in Seq(TraceEntry) /\ rollback.len <= Len(trace')
      /\ auxDirty' \in BOOLEAN /\ finishing' \in BOOLEAN
  BY <1>1 DEF Inv, Typed, RollbackInv
<1> QED
  BY <1>1, <1>2, LaunchKeeps

LEMMA RelaunchKeeps ==
  ASSUME Inv, Finish, Relaunch
  PROVE  Inv'
<1>1. /\ aborted' = "no" /\ ~changing /\ procs' = <<Launched>> /\ deferred' = Null
      /\ trace' = <<>> /\ seen' = Unobserved
      /\ auxDirty' = FALSE /\ finishing' = FALSE
      /\ UNCHANGED <<prog, changing, rollback>>
  BY DEF Finish, Relaunch
<1>2. /\ seen' \in [Entries -> Int] /\ trace' \in Seq(TraceEntry)
  BY <1>1 DEF Unobserved
<1>3. rollback.len <= Len(trace')
  <2>1. rollback = Closed /\ Len(trace') \in Nat
    BY <1>1, <1>2 DEF Inv, RollbackInv
  <2> QED
    BY <2>1, ClosedTransaction
<1> QED
  BY <1>1, <1>2, <1>3, LaunchKeeps

LEMMA FinishConvergedKeeps ==
  ASSUME Inv, FinishConverged
  PROVE  Inv'
<1>1. PICK alive : alive = {0} \cup {i \in 1..Top : Alive(i)}
  OBVIOUS
<1>2. /\ aborted = "no" /\ aborted' = "no" /\ ~changing /\ changing' = FALSE
      /\ auxDirty' = FALSE /\ finishing' = FALSE
      /\ prog' = prog /\ rollback' = Closed /\ ~Running
  BY DEF FinishConverged, Finish, Inv, RollbackInv
<1>3. PICK n : n = Max(alive)
  OBVIOUS
<1>4. n \in Nat /\ (n < Top \/ n = 0)
  <2>1. Top \in Nat
    BY StackTyped DEF Inv
  <2>2. alive \subseteq {0} \cup 1..Top /\ (Top > 0 => Top \notin alive) /\ 0 \in alive
    BY <1>1, <1>2, <2>1 DEF Running
  <2>3. alive \subseteq Int /\ \A x \in alive : x <= Top
    BY <2>1, <2>2
  <2>4. n \in alive
    <3>1. Top \in Int /\ alive # {}
      BY <2>1, <2>2
    <3> QED
      BY <1>3, <2>3, <3>1, MaxIn
  <2>5. n \in {0} \cup 1..Top /\ (Top > 0 => n # Top)
    BY <2>2, <2>4
  <2> QED
    BY <2>1, <2>5
<1>5. Finish
  BY DEF FinishConverged
<1>6. CASE Relaunch
  BY <1>5, <1>6, RelaunchKeeps
<1>7. CASE /\ n # 0 /\ procs' = SubSeq(procs, 1, n)
           /\ trace' = SubSeq(trace, 1, procs[n].len)
           /\ UNCHANGED <<seen, deferred>>
  <2>1. trace' = SubSeq(trace, 1, IF n = 0 THEN 0 ELSE procs[n].len)
    BY <1>7
  <2>2. deferred' = Null
    <3>1. Top > 0 => ~procs[Top].killed /\ ~procs[Top].fd
      BY <1>2 DEF Inv, RollbackInv, Running, Alive
    <3> QED
      BY <1>2, <1>7, <3>1 DEF Inv, DeferredInv
  <2>3. /\ seen' \in [Entries -> Int] /\ auxDirty' \in BOOLEAN /\ finishing' \in BOOLEAN
    BY <1>2, <1>7 DEF Inv, Typed
  <2> QED
    BY <1>2, <1>4, <1>7, <2>1, <2>2, <2>3, CutKeeps
<1> QED
  BY <1>1, <1>3, <1>6, <1>7, Zenon DEF FinishConverged

LEMMA FinishAgainKeeps ==
  ASSUME Inv, FinishAgain
  PROVE  Inv'
<1>1. Finish /\ Relaunch
  BY Zenon DEF FinishAgain
<1> QED
  BY <1>1, RelaunchKeeps

LEMMA StartFinishingKeeps ==
  ASSUME Inv, StartFinishing
  PROVE  Inv'
BY DEF StartFinishing, Inv, Typed, StackInv, RollbackInv, DeferredInv, Top

-----------------------------------------------------------------------------
LEMMA InitInv ==
  ASSUME Init
  PROVE  Inv
<1>1. /\ prog \in Programs /\ seen = Unobserved /\ trace = <<>> /\ procs = <<>>
      /\ changing = FALSE /\ rollback = Closed /\ deferred = Null /\ auxDirty = FALSE
      /\ finishing = FALSE /\ aborted = "no"
  BY DEF Init
<1>2. Top = 0 /\ Len(trace) = 0
  BY <1>1 DEF Top
<1>3. Typed
  <2>1. Transaction(rollback)
    BY <1>1, ClosedTransaction
  <2>2. seen \in [Entries -> Int] /\ trace \in Seq(TraceEntry)
        /\ procs \in Seq({procs[i] : i \in 1..Len(procs)})
    BY <1>1 DEF Unobserved
  <2> QED
    BY <1>1, <2>1, <2>2 DEF Typed, Transaction
<1>4. StackInv
  BY <1>2 DEF StackInv
<1>5. RollbackInv
  BY <1>1, <1>2, ClosedTransaction DEF RollbackInv
<1>6. DeferredInv
  BY <1>1, <1>2 DEF DeferredInv
<1> QED
  BY <1>3, <1>4, <1>5, <1>6 DEF Inv

(* Each operation of the engine keeps the invariant. *)
LEMMA StepKeeps ==
  ASSUME Inv, Step
  PROVE  Inv'
<1>1. ASSUME NEW f \in Entries,
             \/ OpenFound(f) \/ OpenVanished(f) \/ OpenMissing(f)
             \/ OpenDeferred(f) \/ OpenPromised(f)
             \/ OpenWrite(f) \/ Append_(f) \/ Close(f)
             \/ Read(f) \/ Seen(f)
             \/ Picture(f) \/ KeepPicture(f)
      PROVE  Inv'
  BY <1>1, OpenFoundKeeps, OpenVanishedKeeps, OpenMissingKeeps, OpenDeferredKeeps,
     OpenPromisedKeeps, OpenWriteKeeps, AppendKeeps, CloseKeeps, ReadKeeps, SeenKeeps,
     PictureKeeps, KeepPictureKeeps
<1> QED
  BY <1>1, ChildKeeps, ExitKeeps DEF Step

LEMMA ChangeKeeps ==
  ASSUME Inv, Change
  PROVE  Inv'
<1>1. EditorFiles \subseteq Entries /\ DiskFiles \subseteq Entries
  BY TexEngineAssumption
<1>2. ASSUME NEW f \in EditorFiles,
             \/ \E data \in NewContents[f] : EditorOpen(f, data) \/ EditorChange(f, data)
             \/ EditorClose(f)
      PROVE  Inv'
  BY <1>1, <1>2, EditorOpenKeeps, EditorChangeKeeps, EditorCloseKeeps
<1>3. ASSUME NEW f \in DiskFiles,
             \/ \E data \in NewContents[f] \cup {Null} : DiskChange(f, data)
             \/ Scan(f) \/ ScanSame(f)
      PROVE  Inv'
  BY <1>1, <1>3, DiskChangeKeeps, ScanKeeps, ScanSameKeeps
<1> QED
  BY <1>2, <1>3 DEF Change

LEMMA NextKeeps ==
  ASSUME Inv, [Next]_vars
  PROVE  Inv'
<1>1. CASE Consume
  BY <1>1, ConsumeKeeps
<1>2. CASE Ask
  BY <1>2, AskKeeps
<1>3. CASE Step
  BY <1>3, StepKeeps
<1>4. CASE Prepare
  BY <1>4, PrepareKeeps
<1>5. CASE BeginChanges
  BY <1>5, BeginChangesKeeps
<1>6. CASE Change
  BY <1>6, ChangeKeeps
<1>7. CASE EndChanges
  BY <1>7, EndChangesKeeps
<1>8. CASE StartFinishing
  BY <1>8, StartFinishingKeeps
<1>9. CASE FinishConverged
  BY <1>9, FinishConvergedKeeps
<1>10. CASE FinishAgain
  BY <1>10, FinishAgainKeeps
<1>11. CASE UNCHANGED vars
  BY <1>11 DEF vars, Inv, Typed, StackInv, RollbackInv, DeferredInv, Top
<1> QED
  BY <1>1, <1>2, <1>3, <1>4, <1>5, <1>6, <1>7, <1>8, <1>9, <1>10, <1>11 DEF Next

(* The stack keeps its shape: below the process that runs there are only     *)
(* snapshots, each blocked with nothing to say and owning less of the trace  *)
(* than the next; what is read from the top one are reports and the query of *)
(* the step where it is (fork, rollback_processes, decimate_processes).      *)
THEOREM StackOfSnapshots == Spec => []Inv
<1>1. Init => Inv
  BY InitInv
<1>2. Inv /\ [Next]_vars => Inv'
  BY NextKeeps
<1> QED
  BY <1>1, <1>2, PTL DEF Spec

(* No killed process is left as a resume point, and every snapshot is alive: *)
(* a rollback can always resume the process that it keeps.                   *)
THEOREM AlwaysResumable == Spec => []Resumable
<1>1. ASSUME Inv PROVE Resumable
  <2>1. ASSUME ~changing, NEW i \in 1..Top
        PROVE  ~procs[i].killed
    <3>1. CASE i = Top
      BY <2>1, <3>1, <1>1 DEF Inv, RollbackInv
    <3>2. CASE i # Top
      <4>1. i \in 1..(Top - 1)
        BY <3>2, <1>1, StackTyped DEF Inv
      <4> QED
        BY <4>1, <1>1 DEF Inv, StackInv, Parked
    <3> QED
      BY <3>1, <3>2
  <2>2. \A i \in 1..(Top - 1) : Alive(i)
    BY <1>1 DEF Inv, StackInv, Parked, Alive
  <2> QED
    BY <2>1, <2>2 DEF Resumable
<1> QED
  BY <1>1, StackOfSnapshots, PTL

(* A worker that waits for an answer has its query in the channel, or it is  *)
(* the deferred query of engine_step, that no rollback, no end of document   *)
(* and no launch leaves behind.                                              *)
THEOREM NoAnswerForgotten == Spec => []DeferredAccounted
<1>1. ASSUME Inv PROVE DeferredAccounted
  <2> SUFFICES ASSUME ~changing, aborted = "no"
               PROVE  deferred # Null
                        <=> Running /\ procs[Top].asked /\ procs[Top].out = <<>>
    BY DEF DeferredAccounted
  <2>1. Top > 0 => ~procs[Top].killed
    BY <1>1 DEF Inv, RollbackInv
  <2> QED
    BY <2>1, <1>1 DEF Inv, DeferredInv, Running, Alive
<1> QED
  BY <1>1, StackOfSnapshots, PTL

-----------------------------------------------------------------------------
(* Reverting a trace *)

(* Either the trace has no entry of g there, or the first one tells. *)
FirstEntry(tr, from, to, g, m) ==
  /\ m \in (from + 1)..to /\ tr[m].entry = g
  /\ \A k \in (from + 1)..to : tr[k].entry = g => m <= k

NoEntry(tr, from, to, g) == \A k \in (from + 1)..to : tr[k].entry # g

LEMMA FirstEntryExists ==
  ASSUME NEW tr, NEW from \in Nat, NEW to \in Nat, NEW g, ~NoEntry(tr, from, to, g)
  PROVE  \E m \in Nat : FirstEntry(tr, from, to, g, m)
<1>1. PICK ks : ks = {k \in (from + 1)..to : tr[k].entry = g}
  OBVIOUS
<1>2. ks \subseteq Nat /\ ks # {}
  BY <1>1 DEF NoEntry
<1>3. PICK m \in ks : \A k \in ks : m <= k
  BY <1>2, LeastExists
<1> QED
  BY <1>1, <1>2, <1>3 DEF FirstEntry

LEMMA RevertedNone ==
  ASSUME NEW sn, NEW tr, NEW from, NEW to, NEW g \in Entries, NoEntry(tr, from, to, g)
  PROVE  Reverted(sn, tr, from, to)[g] = sn[g]
<1>1. {k \in (from + 1)..to : tr[k].entry = g} = {}
  BY DEF NoEntry
<1> QED
  BY <1>1 DEF Reverted

LEMMA RevertedFirst ==
  ASSUME NEW sn, NEW tr, NEW from \in Nat, NEW to \in Nat, NEW g \in Entries, NEW m \in Nat,
         FirstEntry(tr, from, to, g, m)
  PROVE  Reverted(sn, tr, from, to)[g] = tr[m].seen
<1>1. PICK ks : ks = {k \in (from + 1)..to : tr[k].entry = g}
  OBVIOUS
<1>2. m \in ks /\ \A k \in ks : m <= k
  BY <1>1 DEF FirstEntry
<1>3. ks \subseteq Nat /\ ks # {}
  BY <1>1, <1>2
<1>4. Min(ks) \in ks /\ \A k \in ks : Min(ks) <= k
  BY <1>3, MinIn
<1>5. Min(ks) = m
  <2>1. Min(ks) <= m /\ m <= Min(ks) /\ Min(ks) \in Nat
    BY <1>2, <1>3, <1>4
  <2> QED
    BY <2>1
<1>6. Reverted(sn, tr, from, to)[g] = IF ks = {} THEN sn[g] ELSE tr[Min(ks)].seen
  BY <1>1 DEF Reverted
<1> QED
  BY <1>3, <1>5, <1>6

(* Reverting from c to b, then from b to a *)
LEMMA RevertedTwice ==
  ASSUME NEW sn, NEW tr, NEW a \in Nat, NEW b \in Nat, NEW c \in Nat, a <= b, b <= c,
         NEW g \in Entries
  PROVE  Reverted(Reverted(sn, tr, b, c), tr, a, b)[g] = Reverted(sn, tr, a, c)[g]
<1>1. PICK mid : mid = Reverted(sn, tr, b, c)
  OBVIOUS
<1>2. CASE NoEntry(tr, a, b, g)
  <2>1. Reverted(mid, tr, a, b)[g] = mid[g]
    BY <1>2, RevertedNone
  <2>2. CASE NoEntry(tr, b, c, g)
    <3>1. mid[g] = sn[g]
      BY <1>1, <2>2, RevertedNone
    <3>2. NoEntry(tr, a, c, g)
      BY <1>2, <2>2 DEF NoEntry
    <3>3. Reverted(sn, tr, a, c)[g] = sn[g]
      BY <3>2, RevertedNone
    <3> QED
      BY <1>1, <2>1, <3>1, <3>3
  <2>3. CASE ~NoEntry(tr, b, c, g)
    <3>0. c \in Int
      OBVIOUS
    <3>1. PICK m \in Nat : FirstEntry(tr, b, c, g, m)
      BY <2>3, <3>0, FirstEntryExists
    <3>2. mid[g] = tr[m].seen
      BY <1>1, <3>0, <3>1, RevertedFirst
    <3>3. FirstEntry(tr, a, c, g, m)
      BY <1>2, <3>1 DEF FirstEntry, NoEntry
    <3>4. Reverted(sn, tr, a, c)[g] = tr[m].seen
      BY <3>0, <3>3, RevertedFirst
    <3> QED
      BY <1>1, <2>1, <3>2, <3>4
  <2> QED
    BY <2>2, <2>3
<1>3. CASE ~NoEntry(tr, a, b, g)
  <2>0. b \in Int /\ c \in Int
    OBVIOUS
  <2>1. PICK m \in Nat : FirstEntry(tr, a, b, g, m)
    BY <1>3, <2>0, FirstEntryExists
  <2>2. Reverted(mid, tr, a, b)[g] = tr[m].seen
    BY <2>1, RevertedFirst
  <2>3. FirstEntry(tr, a, c, g, m)
    BY <2>1 DEF FirstEntry
  <2>4. Reverted(sn, tr, a, c)[g] = tr[m].seen
    BY <2>0, <2>3, RevertedFirst
  <2> QED
    BY <1>1, <2>2, <2>4
<1> QED
  BY <1>2, <1>3

(* Only the entries in between count. *)
LEMMA RevertedSame ==
  ASSUME NEW sn, NEW tr, NEW tr2, NEW from \in Nat, NEW to \in Nat, NEW g \in Entries,
         \A k \in (from + 1)..to : tr[k] = tr2[k]
  PROVE  Reverted(sn, tr, from, to)[g] = Reverted(sn, tr2, from, to)[g]
<1>1. {k \in (from + 1)..to : tr[k].entry = g} = {k \in (from + 1)..to : tr2[k].entry = g}
  OBVIOUS
<1>2. PICK ks : ks = {k \in (from + 1)..to : tr[k].entry = g}
  OBVIOUS
<1>3. CASE ks = {}
  BY <1>1, <1>2, <1>3 DEF Reverted
<1>4. CASE ks # {}
  <2>1. ks \subseteq Nat /\ ks \subseteq (from + 1)..to
    BY <1>2
  <2>2. Min(ks) \in (from + 1)..to
    BY <1>4, <2>1, MinIn
  <2> QED
    BY <1>1, <1>2, <1>4, <2>2 DEF Reverted
<1> QED
  BY <1>3, <1>4

(* Where the two maps agree, so do the reverted ones. *)
LEMMA RevertedAgrees ==
  ASSUME NEW sn, NEW mid, NEW tr, NEW from \in Nat, NEW to \in Nat, NEW g \in Entries,
         mid[g] = sn[g]
  PROVE  Reverted(mid, tr, from, to)[g] = Reverted(sn, tr, from, to)[g]
BY DEF Reverted

(* Reverting one entry *)
Follows(c, n) == c = n + 1

Appends(e, sn, sn2, g) ==
  /\ e.entry = g => e.seen = sn[g]
  /\ e.entry # g => sn2[g] = sn[g]

LEMMA RevertedOne ==
  ASSUME NEW sn, NEW sn2, NEW tr, NEW n \in Nat, NEW c \in Nat, Follows(c, n), NEW g \in Entries,
         Appends(tr[c], sn, sn2, g)
  PROVE  Reverted(sn2, tr, n, c)[g] = sn[g]
<1>1. CASE tr[c].entry = g
  <2>1. FirstEntry(tr, n, c, g, c)
    BY <1>1 DEF FirstEntry, Follows
  <2>2. Reverted(sn2, tr, n, c)[g] = tr[c].seen
    BY <2>1, RevertedFirst
  <2> QED
    BY <1>1, <2>2 DEF Appends
<1>2. CASE tr[c].entry # g
  <2>1. NoEntry(tr, n, c, g)
    BY <1>2 DEF NoEntry, Follows
  <2>2. Reverted(sn2, tr, n, c)[g] = sn2[g]
    BY <2>1, RevertedNone
  <2> QED
    BY <1>2, <2>2 DEF Appends
<1> QED
  BY <1>1, <1>2

(* An appended entry that holds what was seen *)
LEMMA RevertedAppended ==
  ASSUME NEW sn, NEW sn2, NEW old, NEW tr, NEW a \in Nat, NEW n \in Nat, a <= n,
         NEW g \in Entries, \A k \in (a + 1)..n : tr[k] = old[k],
         NEW c \in Nat, Follows(c, n), Appends(tr[c], sn, sn2, g)
  PROVE  Reverted(sn2, tr, a, c)[g] = Reverted(sn, old, a, n)[g]
<1>1. PICK mid : mid = Reverted(sn2, tr, n, c)
  OBVIOUS
<1>2. Reverted(sn2, tr, a, c)[g] = Reverted(mid, tr, a, n)[g]
  <2>1. n <= c
    BY DEF Follows
  <2>2. Reverted(Reverted(sn2, tr, n, c), tr, a, n)[g] = Reverted(sn2, tr, a, c)[g]
    BY <2>1, RevertedTwice
  <2> QED
    BY <2>2, <1>1
<1>3. mid[g] = sn[g]
  <2>1. Reverted(sn2, tr, n, c)[g] = sn[g]
    BY RevertedOne
  <2> QED
    BY <2>1, <1>1
<1>4. Reverted(mid, tr, a, n)[g] = Reverted(sn, tr, a, n)[g]
  BY <1>3, RevertedAgrees
<1>5. Reverted(sn, tr, a, n)[g] = Reverted(sn, old, a, n)[g]
  BY RevertedSame
<1> QED
  BY <1>2, <1>4, <1>5

(* A length that the trace may be reverted to: the last entry goes, unless it *)
(* belongs to a parent.                                                      *)
RevertsTo(a) ==
  /\ a <= Len(trace)
  /\ Top > 1 /\ a = Len(trace) => procs[Top - 1].len = Len(trace)
  /\ Top <= 1 /\ a = Len(trace) => trace = <<>>

(* What was recorded is forgotten when the trace is reverted. *)
LEMMA RecordedReverted ==
  ASSUME Typed, NEW sn \in [Entries -> Int], NEW f \in Entries, NEW pos, NEW a \in Nat,
         RevertsTo(a), NEW g \in Entries
  PROVE  Reverted([sn EXCEPT ![f] = pos], Recorded(trace, sn, f), a,
                  Len(Recorded(trace, sn, f)))[g]
           = Reverted(sn, trace, a, Len(trace))[g]
<1>1. PICK n \in Nat : n = Len(trace)
  BY StackTyped
<1>2. PICK tr : tr = Recorded(trace, sn, f)
  OBVIOUS
<1>3. PICK sn2 : sn2 = [sn EXCEPT ![f] = pos]
  OBVIOUS
<1>4. sn2[f] = pos /\ (g # f => sn2[g] = sn[g])
  BY <1>3
<1>5. CASE tr = trace /\ trace # <<>> /\ Last(trace).entry = f /\ a < n
  <2>1. trace[n].entry = f
    BY <1>1, <1>5 DEF Last
  <2>2. CASE g = f
    <3>1. ~NoEntry(trace, a, n, g) /\ n \in Int
      BY <1>1, <1>5, <2>1, <2>2 DEF NoEntry
    <3>2. PICK m \in Nat : FirstEntry(trace, a, n, g, m)
      BY <3>1, FirstEntryExists
    <3>3. FirstEntry(trace, a, n, g, m)
      BY <3>2
    <3>4. Reverted(sn, trace, a, n)[g] = trace[m].seen
      BY <3>3, RevertedFirst
    <3>5. Reverted(sn2, trace, a, n)[g] = trace[m].seen
      BY <3>3, RevertedFirst
    <3> QED
      BY <1>1, <1>2, <1>3, <1>5, <3>4, <3>5
  <2>3. CASE g # f
    <3>1. sn2[g] = sn[g]
      BY <1>4, <2>3
    <3>2. Reverted(sn2, trace, a, n)[g] = Reverted(sn, trace, a, n)[g]
      BY <3>1, RevertedAgrees
    <3> QED
      BY <1>1, <1>2, <1>3, <1>5, <3>2
  <2> QED
    BY <2>2, <2>3
<1>6. CASE tr = Append(trace, [entry |-> f, seen |-> sn[f]])
  <2>1. PICK e \in TraceEntry : e = [entry |-> f, seen |-> sn[f]]
    BY DEF TraceEntry
  <2>2. e.entry = f /\ e.seen = sn[f]
    BY <2>1
  <2>3. Len(tr) = n + 1 /\ tr[n + 1] = e /\ \A k \in 1..n : tr[k] = trace[k]
    BY <1>1, <1>6, <2>1, LastOfTrace
  <2>4. \A k \in (a + 1)..n : tr[k] = trace[k]
    BY <1>1, <2>3
  <2>5. PICK c \in Nat : Follows(c, n)
    BY <1>1 DEF Follows
  <2>6. Appends(tr[c], sn, sn2, g)
    BY <1>4, <2>2, <2>3, <2>5 DEF Appends, Follows
  <2>7. a <= n
    BY <1>1 DEF RevertsTo
  <2>8. Reverted(sn2, tr, a, c)[g] = Reverted(sn, trace, a, n)[g]
    <3>1. PICK old : old = trace
      OBVIOUS
    <3>2. \A k \in (a + 1)..n : tr[k] = old[k]
      BY <2>4, <3>1
    <3>3. PICK sm : sm = sn
      OBVIOUS
    <3>4. Follows(c, n) /\ Appends(tr[c], sm, sn2, g)
      BY <2>5, <2>6, <3>3
    <3>5. Reverted(sn2, tr, a, c)[g] = Reverted(sm, old, a, n)[g]
      BY <2>7, <3>2, <3>4, RevertedAppended
    <3> QED
      BY <3>1, <3>3, <3>5
  <2> QED
    BY <1>1, <1>2, <1>3, <2>3, <2>5, <2>8 DEF Follows
<1>7. \/ tr = trace /\ trace # <<>> /\ Last(trace).entry = f /\ a < n
      \/ tr = Append(trace, [entry |-> f, seen |-> sn[f]])
  <2>1. ASSUME trace # <<>>, Top <= 1 \/ procs[Top - 1].len # Len(trace)
        PROVE  a < n
    <3>1. a # Len(trace)
      <4>1. Top \in Nat
        BY StackTyped
      <4> QED
        BY <2>1, <4>1 DEF RevertsTo
    <3> QED
      BY <3>1, <1>1 DEF RevertsTo
  <2> QED
    BY <1>2, <2>1 DEF Recorded
<1> QED
  BY <1>5, <1>6, <1>7


-----------------------------------------------------------------------------
(* The trace never runs out *)

(* No file was observed when the trace was empty. *)
Forgets(sn, tr, n) == \A g \in Entries : Reverted(sn, tr, 0, n)[g] = -1

(* The length of the trace that seen tells about *)
Reference == IF rollback.len = NotInTransaction THEN Len(trace) ELSE rollback.len

Files == [Entries -> Seq(Bytes) \cup {Null}]
FilesInv ==
  /\ disk \in Files /\ fs \in Files /\ edit \in Files
  /\ \A f \in statted : fs[f] # Null

TraceInv ==
  /\ ~finishing
  /\ FilesInv
  /\ Forgets(seen, trace, Reference)
  /\ aborted # "trace"

LEMMA ForgetsRecorded ==
  ASSUME Inv, NEW sn \in [Entries -> Int], NEW f \in Entries, NEW pos,
         Forgets(sn, trace, Len(trace))
  PROVE  Forgets([sn EXCEPT ![f] = pos], Recorded(trace, sn, f), Len(Recorded(trace, sn, f)))
<1>0. PICK a \in Nat : a = 0
  OBVIOUS
<1>1. Typed /\ RevertsTo(a)
  <2>1. Typed /\ Top \in Nat /\ Len(trace) \in Nat /\ trace \in Seq(TraceEntry)
    BY StackTyped DEF Inv, Typed
  <2>2. ASSUME Top > 1, Len(trace) = 0
        PROVE  procs[Top - 1].len = 0
    <3>1. Top - 1 \in 1..Top /\ Top - 1 \in 1..(Top - 1)
      BY <2>1, <2>2
    <3>2. procs[Top - 1].len \in Nat /\ procs[Top - 1].len <= Len(trace)
      BY <3>1 DEF Inv, StackInv, Wellformed
    <3> QED
      BY <2>2, <3>2
  <2>3. Len(trace) = 0 => trace = <<>>
    BY <2>1
  <2> QED
    BY <1>0, <2>1, <2>2, <2>3 DEF RevertsTo
<1>2. ASSUME NEW g \in Entries
      PROVE  Reverted([sn EXCEPT ![f] = pos], Recorded(trace, sn, f), a,
                      Len(Recorded(trace, sn, f)))[g] = -1
  <2>1. Reverted([sn EXCEPT ![f] = pos], Recorded(trace, sn, f), a,
                 Len(Recorded(trace, sn, f)))[g] = Reverted(sn, trace, a, Len(trace))[g]
    BY <1>1, RecordedReverted, ZenonT(30)
  <2> QED
    BY <2>1, <1>0 DEF Forgets
<1> QED
  BY <1>0, <1>2 DEF Forgets

LEMMA ForgetsReverted ==
  ASSUME NEW sn, NEW tr, NEW b \in Nat, NEW c \in Nat, b <= c, Forgets(sn, tr, c)
  PROVE  Forgets(Reverted(sn, tr, b, c), tr, b)
<1>1. ASSUME NEW g \in Entries
      PROVE  Reverted(Reverted(sn, tr, b, c), tr, 0, b)[g] = -1
  <2>1. PICK a \in Nat : a = 0 /\ a <= b
    OBVIOUS
  <2>2. Reverted(Reverted(sn, tr, b, c), tr, a, b)[g] = Reverted(sn, tr, a, c)[g]
    BY <2>1, RevertedTwice
  <2> QED
    BY <2>1, <2>2 DEF Forgets
<1> QED
  BY <1>1 DEF Forgets

(* Forgetting one more file *)
LEMMA ForgetsUnset ==
  ASSUME NEW sn \in [Entries -> Int], NEW tr, NEW n \in Nat, NEW f \in Entries,
         Forgets(sn, tr, n)
  PROVE  Forgets([sn EXCEPT ![f] = -1], tr, n)
<1>1. PICK sn2 : sn2 = [sn EXCEPT ![f] = -1]
  OBVIOUS
<1>2. ASSUME NEW g \in Entries
      PROVE  Reverted(sn2, tr, 0, n)[g] = -1
  <2>1. Reverted(sn, tr, 0, n)[g] = -1
    BY DEF Forgets
  <2>2. PICK ks : ks = {k \in (0 + 1)..n : tr[k].entry = g}
    OBVIOUS
  <2>3. Reverted(sn, tr, 0, n)[g] = (IF ks = {} THEN sn[g] ELSE tr[Min(ks)].seen)
    BY <2>2 DEF Reverted
  <2>4. Reverted(sn2, tr, 0, n)[g] = (IF ks = {} THEN sn2[g] ELSE tr[Min(ks)].seen)
    BY <2>2 DEF Reverted
  <2>5. sn2[g] = sn[g] \/ sn2[g] = -1
    BY <1>1
  <2> QED
    BY <2>1, <2>3, <2>4, <2>5
<1> QED
  BY <1>1, <1>2 DEF Forgets

LEMMA ForgetsCut ==
  ASSUME NEW sn, NEW tr \in Seq(TraceEntry), NEW n \in Nat, n <= Len(tr), Forgets(sn, tr, n)
  PROVE  Forgets(sn, SubSeq(tr, 1, n), n)
<1>1. PICK cut : cut = SubSeq(tr, 1, n)
  OBVIOUS
<1>2. \A k \in 1..n : cut[k] = tr[k]
  BY <1>1, CutSequence
<1>3. ASSUME NEW g \in Entries
      PROVE  Reverted(sn, cut, 0, n)[g] = -1
  <2>1. PICK a \in Nat : a = 0
    OBVIOUS
  <2>2. \A k \in (a + 1)..n : cut[k] = tr[k]
    BY <1>2, <2>1
  <2>3. Reverted(sn, cut, a, n)[g] = Reverted(sn, tr, a, n)[g]
    BY <2>2, RevertedSame
  <2> QED
    BY <2>1, <2>3 DEF Forgets
<1> QED
  BY <1>1, <1>3 DEF Forgets

(* What a step of the engine does to what TraceInv is about *)
Records ==
  \/ UNCHANGED <<seen, trace>>
  \/ \E f \in Entries : \E pos :
       RecordSeen(seen, f, pos) \/ RecordSeen([seen EXCEPT ![f] = -1], f, pos)

FilesKept ==
  \/ UNCHANGED <<fs, statted>>
  \/ \E f \in Entries :
       \/ disk[f] # Null /\ fs' = [fs EXCEPT ![f] = disk[f]] /\ statted' = statted \cup {f}
       \/ fs' = fs /\ statted' = statted \ {f}

Harmless ==
  /\ Records /\ FilesKept
  /\ UNCHANGED <<disk, edit, finishing, rollback>>
  /\ aborted' = aborted \/ aborted' \in {"vanished", "nodata", "past end", "fence"}

LEMMA FilesKeptInv ==
  ASSUME FilesInv, FilesKept, UNCHANGED <<disk, edit>>
  PROVE  FilesInv'
<1>1. CASE UNCHANGED <<fs, statted>>
  BY <1>1 DEF FilesInv
<1>2. ASSUME NEW f \in Entries, disk[f] # Null, fs' = [fs EXCEPT ![f] = disk[f]],
             statted' = statted \cup {f}
      PROVE  FilesInv'
  BY <1>2 DEF FilesInv, Files
<1>3. ASSUME NEW f \in Entries, fs' = fs, statted' = statted \ {f}
      PROVE  FilesInv'
  BY <1>3 DEF FilesInv
<1> QED
  BY <1>1, <1>2, <1>3 DEF FilesKept

LEMMA HarmlessKeeps ==
  ASSUME Inv, TraceInv, ~changing, Harmless
  PROVE  TraceInv'
<1>1. /\ rollback.len = NotInTransaction /\ rollback'.len = NotInTransaction
      /\ seen \in [Entries -> Int] /\ Len(trace) \in Nat
  <2>1. rollback = Closed /\ rollback' = rollback
    BY DEF Inv, RollbackInv, Harmless
  <2>2. seen \in [Entries -> Int] /\ Len(trace) \in Nat
    BY StackTyped DEF Inv, Typed
  <2> QED
    BY <2>1, <2>2, ClosedTransaction
<1>2. Forgets(seen, trace, Len(trace))
  BY <1>1 DEF TraceInv, Reference
<1>3. Forgets(seen', trace', Len(trace'))
  <2>1. CASE UNCHANGED <<seen, trace>>
    BY <2>1, <1>2
  <2>2. ASSUME NEW f \in Entries, NEW pos, RecordSeen(seen, f, pos)
        PROVE  Forgets(seen', trace', Len(trace'))
    BY <2>2, <1>1, <1>2, ForgetsRecorded DEF RecordSeen
  <2>3. ASSUME NEW f \in Entries, NEW pos, RecordSeen([seen EXCEPT ![f] = -1], f, pos)
        PROVE  Forgets(seen', trace', Len(trace'))
    <3>1. PICK sn : sn = [seen EXCEPT ![f] = -1]
      OBVIOUS
    <3>2. sn \in [Entries -> Int] /\ Forgets(sn, trace, Len(trace))
      <4>1. PICK n \in Nat : n = Len(trace)
        BY <1>1
      <4>2. Forgets(seen, trace, n)
        BY <4>1, <1>2
      <4>3. Forgets([seen EXCEPT ![f] = -1], trace, n)
        BY <4>2, <1>1, ForgetsUnset, Zenon
      <4> QED
        BY <3>1, <4>1, <4>3, <1>1
    <3>3. seen' = [sn EXCEPT ![f] = pos] /\ trace' = Recorded(trace, sn, f)
      BY <2>3, <3>1 DEF RecordSeen
    <3> QED
      BY <3>2, <3>3, ForgetsRecorded
  <2> QED
    BY <2>1, <2>2, <2>3 DEF Harmless, Records
<1>4. FilesInv'
  BY FilesKeptInv DEF Harmless, TraceInv
<1>5. ~finishing' /\ aborted' # "trace"
  BY DEF Harmless, TraceInv
<1> QED
  BY <1>1, <1>3, <1>4, <1>5 DEF TraceInv, Reference

(* Outside of the transactions, the engine steps. *)
Outside == aborted = "no" /\ (changing => ResumeInBatch)

LEMMA FoundHarmless ==
  ASSUME NEW f \in Entries, NEW sn, sn = seen \/ sn = [seen EXCEPT ![f] = -1],
         Found(f, sn), sn[f] < 0 \/ sn = seen
  PROVE  Harmless
<1>1. /\ IF sn[f] < 0 THEN RecordSeen(sn, f, 0) ELSE UNCHANGED <<seen, trace>>
      /\ Load(f)
      /\ UNCHANGED <<disk, edit, finishing, rollback, aborted>>
  BY Zenon DEF Found
<1>2. Records
  <2>1. RecordSeen(seen, f, 0) \/ RecordSeen([seen EXCEPT ![f] = -1], f, 0)
        \/ UNCHANGED <<seen, trace>>
    BY <1>1
  <2> QED
    BY <2>1, Zenon DEF Records
<1>3. FilesKept
  BY <1>1, Zenon DEF Load, FilesKept, OnDisk
<1> QED
  BY <1>1, <1>2, <1>3 DEF Harmless

LEMMA OpenHarmless ==
  ASSUME Inv, NEW f \in Entries, OpenFound(f) \/ OpenPromised(f)
  PROVE  Outside /\ Harmless
<1>1. CASE OpenFound(f)
  <2>1. Outside /\ Found(f, seen)
    BY <1>1, Zenon DEF OpenFound, Receive, Stepping, Outside
  <2> QED
    BY <2>1, FoundHarmless
<1>2. CASE OpenPromised(f)
  <2>1. Outside /\ Found(f, [seen EXCEPT ![f] = -1])
    BY <1>2, Zenon DEF OpenPromised, Outside
  <2>2. [seen EXCEPT ![f] = -1][f] < 0
    BY DEF Inv, Typed
  <2> QED
    BY <2>1, <2>2, FoundHarmless
<1> QED
  BY <1>1, <1>2

LEMMA StillHarmless ==
  ASSUME UNCHANGED <<disk, fs, statted, edit, seen, trace, finishing, rollback>>,
         aborted' = aborted \/ aborted' \in {"vanished", "nodata", "past end", "fence"}
  PROVE  Harmless
BY DEF Harmless, Records, FilesKept

LEMMA PassHarmless ==
  ASSUME NEW f \in Entries, Pass(f)
  PROVE  Harmless
<1>1. /\ RecordSeen(seen, f, IntMax)
      /\ UNCHANGED <<disk, fs, statted, edit, finishing, rollback, aborted>>
  BY Zenon DEF Pass, vfs
<1> QED
  BY <1>1, Zenon DEF Harmless, Records, FilesKept

LEMMA MissingHarmless ==
  ASSUME NEW f \in Entries, OpenVanished(f) \/ OpenMissing(f) \/ OpenDeferred(f)
  PROVE  Outside /\ Harmless
<1>1. Outside
  BY Zenon DEF OpenVanished, OpenMissing, OpenDeferred, Receive, Stepping, Outside
<1>2. CASE Pass(f)
  BY <1>1, <1>2, PassHarmless
<1>3. CASE Abort("vanished")
  BY <1>1, <1>3, StillHarmless DEF Abort, vfs
<1>4. CASE OpenDeferred(f)
  BY <1>1, <1>4, StillHarmless DEF OpenDeferred, vfs
<1> QED
  BY <1>2, <1>3, <1>4 DEF OpenVanished, OpenMissing

LEMMA OpenWriteHarmless ==
  ASSUME NEW f \in Entries, OpenWrite(f)
  PROVE  Outside /\ Harmless
<1>1. /\ Outside
      /\ IF seen[f] < 0 THEN RecordSeen(seen, f, 0) ELSE UNCHANGED <<seen, trace>>
      /\ UNCHANGED <<disk, fs, statted, edit, finishing, rollback, aborted>>
  BY Zenon DEF OpenWrite, Receive, Stepping, Outside, vfs
<1> QED
  BY <1>1, Zenon DEF Harmless, Records, FilesKept

LEMMA SeenHarmless ==
  ASSUME NEW f \in Entries, Seen(f)
  PROVE  Outside /\ Harmless
<1>1. Outside
  BY Zenon DEF Seen, Receive, Stepping, Outside
<1>2. CASE Abort("fence")
  BY <1>1, <1>2, StillHarmless DEF Abort, vfs
<1>3. CASE /\ RecordSeen(seen, f, Message.arg) \/ UNCHANGED <<seen, trace>>
           /\ UNCHANGED <<disk, fs, statted, edit, finishing, rollback, aborted>>
  <2>1. Records
    BY <1>3, Zenon DEF Records
  <2> QED
    BY <1>1, <1>3, <2>1 DEF Harmless, FilesKept
<1>4. \/ Abort("fence")
      \/ /\ RecordSeen(seen, f, Message.arg) \/ UNCHANGED <<seen, trace>>
         /\ UNCHANGED <<disk, fs, statted, edit, finishing, rollback, aborted>>
  BY Zenon DEF Seen, vfs
<1> QED
  BY <1>2, <1>3, <1>4

LEMMA ReadHarmless ==
  ASSUME NEW f \in Entries, Read(f)
  PROVE  Outside /\ Harmless
<1>1. Outside
  BY Zenon DEF Read, Receive, Stepping, Outside
<1>2. \/ Abort("nodata") \/ Abort("past end") \/ Abort("fence")
      \/ Fork \/ \E pos, n : Data(f, pos, n)
  BY Zenon DEF Read
<1>3. CASE Abort("nodata") \/ Abort("past end") \/ Abort("fence")
  BY <1>1, <1>3, StillHarmless DEF Abort, vfs
<1>4. CASE Fork \/ \E pos, n : Data(f, pos, n)
  <2>1. UNCHANGED <<disk, fs, statted, edit, seen, trace, finishing, rollback, aborted>>
    BY <1>4, Zenon DEF Fork, Data, vfs
  <2> QED
    BY <1>1, <2>1, StillHarmless
<1> QED
  BY <1>2, <1>3, <1>4

LEMMA SilentHarmless ==
  ASSUME NEW f \in Entries,
         Append_(f) \/ Close(f) \/ Picture(f) \/ KeepPicture(f)
  PROVE  Outside /\ Harmless
<1>1. Outside
  BY Zenon DEF Append_, Close, Picture, KeepPicture, Receive, Stepping, Outside
<1>2. UNCHANGED <<disk, fs, statted, edit, seen, trace, finishing, rollback, aborted>>
  BY Zenon DEF Append_, Close, Picture, KeepPicture, vfs
<1> QED
  BY <1>1, <1>2, StillHarmless

LEMMA StepHarmless ==
  ASSUME Inv, Step \/ Prepare
  PROVE  Outside /\ Harmless
<1>1. ASSUME NEW f \in Entries,
             \/ OpenFound(f) \/ OpenVanished(f) \/ OpenMissing(f)
             \/ OpenDeferred(f) \/ OpenPromised(f)
             \/ OpenWrite(f) \/ Append_(f) \/ Close(f)
             \/ Read(f) \/ Seen(f)
             \/ Picture(f) \/ KeepPicture(f)
      PROVE  Outside /\ Harmless
  BY <1>1, OpenHarmless, MissingHarmless, OpenWriteHarmless, SilentHarmless, ReadHarmless,
     SeenHarmless
<1>2. CASE Child \/ Exit
  <2>1. Outside
    BY <1>2, Zenon DEF Child, Exit, Receive, Stepping, Outside
  <2>2. UNCHANGED <<disk, fs, statted, edit, seen, trace, finishing, rollback, aborted>>
    BY <1>2, Zenon DEF Child, Exit, vfs
  <2> QED
    BY <2>1, <2>2, StillHarmless
<1>3. CASE Prepare
  BY <1>3, StillHarmless DEF Prepare, Outside, vfs
<1> QED
  BY <1>1, <1>2, <1>3 DEF Step

LEMMA RewindForgets ==
  ASSUME NEW f \in Entries, NEW offset \in Nat, NEW sn \in [Entries -> Int], NEW tr,
         NEW len \in Nat, NEW flush, sn[f] >= offset, Forgets(sn, tr, len), aborted = "no",
         Rewind(f, offset, sn, tr, len, flush)
  PROVE  /\ Forgets(seen', tr, rollback'.len)
         /\ rollback'.len \in Nat /\ aborted' = "no"
<1>1. PICK points : points = {k \in 0..(len - 1) : Reverted(sn, tr, k, len)[f] < offset}
  OBVIOUS
<1>2. Reverted(sn, tr, 0, len)[f] = -1
  BY DEF Forgets
<1>3. len > 0
  <2> SUFFICES ASSUME len = 0 PROVE FALSE
    OBVIOUS
  <2>1. NoEntry(tr, 0, 0, f)
    BY DEF NoEntry
  <2>2. Reverted(sn, tr, 0, 0)[f] = sn[f]
    BY <2>1, RevertedNone
  <2>3. sn[f] = -1
    BY <1>2, <2>2
  <2> QED
    BY <2>3
<1>4. 0 \in points
  BY <1>1, <1>2, <1>3
<1>5. /\ seen' = Reverted(sn, tr, Max(points), len)
      /\ rollback' = [len |-> Max(points), offset |-> offset, flush |-> flush]
      /\ aborted' = aborted
  BY <1>1, <1>4, Zenon DEF Rewind
<1>6. PICK m \in Nat : m = Max(points) /\ m <= len
  <2>1. points \subseteq 0..(len - 1)
    BY <1>1, Zenon
  <2>2. points \subseteq Int /\ points # {} /\ len \in Int /\ \A x \in points : x <= len
    BY <1>4, <2>1
  <2>3. Max(points) \in 0..(len - 1)
    BY <2>1, <2>2, MaxIn
  <2> QED
    BY <2>3
<1>7. Forgets(Reverted(sn, tr, m, len), tr, m)
  BY <1>6, ForgetsReverted
<1> QED
  BY <1>5, <1>6, <1>7

LEMMA SynchronizeForgets ==
  ASSUME Inv, changing, aborted = "no", NEW f \in Entries, NEW offset \in Nat,
         rollback.len = Len(trace), Alive(Top), Synchronize(f, offset),
         Forgets(seen, trace, Len(trace))
  PROVE  Forgets(seen', trace', rollback'.len) /\ rollback'.len \in Nat /\ aborted' # "trace"
<1>0. /\ Typed /\ Top > 0 /\ Top \in Nat /\ Transaction(rollback) /\ Len(trace) \in Nat
      /\ seen \in [Entries -> Int] /\ trace \in Seq(TraceEntry)
  <2>1. Typed /\ Transaction(rollback) /\ Len(trace) \in Nat /\ Top \in Nat
    BY TransactionTyped, StackTyped DEF Inv
  <2>2. rollback.len # NotInTransaction
    BY <2>1 DEF NotInTransaction
  <2> QED
    BY <2>1, <2>2 DEF Inv, RollbackInv, Typed
<1>1. PICK p : p = procs[Top]
  OBVIOUS
<1>2. ASSUME rollback' = [rollback EXCEPT !.flush = TRUE] \/ rollback' = rollback,
             seen' = seen, trace' = trace, aborted' # "trace"
      PROVE  Forgets(seen', trace', rollback'.len) /\ rollback'.len \in Nat
             /\ aborted' # "trace"
  <2>1. rollback'.len = rollback.len
    BY <1>0, <1>2 DEF Transaction
  <2> QED
    BY <2>1, <1>0, <1>2
<1>3. CASE p.out = <<>>
  <2>1. /\ rollback' = [rollback EXCEPT !.flush = TRUE]
        /\ seen' = seen /\ trace' = trace /\ aborted' = aborted
    BY <1>1, <1>3, Zenon DEF Synchronize
  <2> QED
    BY <2>1, <1>2
<1>4. CASE p.out # <<>> /\ Head(p.out).tag = "EXIT"
  <2>1. /\ aborted' = "closed" /\ UNCHANGED <<seen, trace, rollback>>
    BY <1>1, <1>4, Zenon DEF Synchronize
  <2> QED
    BY <2>1, <1>2
<1>5. CASE p.out # <<>> /\ Head(p.out).tag \notin {"SEEN", "EXIT"}
  <2>1. /\ rollback' = [rollback EXCEPT !.flush = TRUE]
        /\ UNCHANGED <<seen, trace, aborted>>
    BY <1>1, <1>5 DEF Synchronize
  <2> QED
    BY <2>1, <1>2
<1>6. CASE p.out # <<>> /\ Head(p.out).tag = "SEEN"
  <2>1. PICK m : m = Head(p.out)
    OBVIOUS
  <2>2. PICK sn : sn = [seen EXCEPT ![m.file] = m.arg]
    OBVIOUS
  <2>3. PICK tr : tr = Recorded(trace, seen, m.file)
    OBVIOUS
  <2>4. \/ aborted' = "fence" /\ UNCHANGED <<seen, trace, rollback>>
        \/ rollback' = [rollback EXCEPT !.flush = TRUE] /\ UNCHANGED <<seen, trace, aborted>>
        \/ trace' = tr /\ sn[f] >= offset /\ Rewind(f, offset, sn, tr, Len(tr), TRUE)
        \/ /\ trace' = tr /\ seen' = sn
           /\ rollback' = [rollback EXCEPT !.len = Len(tr), !.flush = TRUE]
           /\ UNCHANGED aborted
    BY <1>1, <1>6, <2>1, <2>2, <2>3, Zenon DEF Synchronize
  <2>5. Head(p.out) \in SeenMessage
    <3>1. Wellformed(prog, p)
      BY <1>0, <1>1 DEF Inv, StackInv
    <3> QED
      BY <1>0, <1>1, <1>6, <3>1, SeenRead DEF Inv
  <2>6. m.file \in Entries /\ m.arg \in Int
    BY <2>1, <2>5 DEF SeenMessage
  <2>7. sn \in [Entries -> Int]
    BY <2>6, <2>2, <1>0
  <2>8. PICK n \in Nat : n = Len(tr)
    <3>1. m.file \in Entries
      BY <2>6
    <3>2. tr \in Seq(TraceEntry) /\ Len(tr) >= Len(trace)
      BY <3>1, <2>3, <1>0, RecordedTyped
    <3> QED
      BY <3>2
  <2>9. Forgets(sn, tr, n)
    <3>1. PICK x \in Entries : x = m.file
      BY <2>6
    <3>2. PICK pos : pos = m.arg
      OBVIOUS
    <3>3. Forgets([seen EXCEPT ![x] = pos], Recorded(trace, seen, x), Len(Recorded(trace, seen, x)))
      BY <1>0, ForgetsRecorded
    <3> QED
      BY <3>1, <3>2, <3>3, <2>2, <2>3, <2>8
  <2>10. CASE aborted' = "fence" /\ UNCHANGED <<seen, trace, rollback>>
    BY <2>10, <1>2
  <2>11. CASE rollback' = [rollback EXCEPT !.flush = TRUE] /\ UNCHANGED <<seen, trace, aborted>>
    BY <2>11, <1>2
  <2>12. CASE trace' = tr /\ sn[f] >= offset /\ Rewind(f, offset, sn, tr, Len(tr), TRUE)
    <3>1. Rewind(f, offset, sn, tr, n, TRUE)
      BY <2>12, <2>8
    <3>2. /\ Forgets(seen', tr, rollback'.len)
          /\ rollback'.len \in Nat /\ aborted' = "no"
      BY <3>1, <2>7, <2>9, <2>12, RewindForgets
    <3> QED
      BY <3>2, <2>12
  <2>13. CASE /\ trace' = tr /\ seen' = sn
              /\ rollback' = [rollback EXCEPT !.len = Len(tr), !.flush = TRUE]
              /\ UNCHANGED aborted
    <3>1. rollback' = [rollback EXCEPT !.len = n, !.flush = TRUE]
      BY <2>13, <2>8
    <3>2. rollback'.len = n
      BY <3>1, <1>0 DEF Transaction
    <3> QED
      BY <3>2, <2>9, <2>13
  <2> QED
    BY <2>4, <2>10, <2>11, <2>12, <2>13
<1> QED
  BY <1>3, <1>4, <1>5, <1>6

LEMMA AddChangeForgets ==
  ASSUME Inv, TraceInv, changing, aborted = "no", NEW f \in Entries, NEW offset \in Nat,
         AddChange(f, offset)
  PROVE  Forgets(seen', trace', Reference') /\ aborted' # "trace"
<1>1. CASE UNCHANGED <<seen, trace, procs, rollback, aborted>>
  BY <1>1 DEF TraceInv, Reference
<1>2. ASSUME Forgets(seen', trace', rollback'.len), rollback'.len \in Nat, aborted' # "trace"
      PROVE  Forgets(seen', trace', Reference') /\ aborted' # "trace"
  BY <1>2 DEF Reference, NotInTransaction
<1>3. CASE rollback.len # NotInTransaction
  <2>1. /\ rollback.len \in Nat /\ Forgets(seen, trace, rollback.len)
        /\ seen \in [Entries -> Int]
    BY <1>3 DEF Inv, Typed, TraceInv, Reference
  <2>2. CASE /\ seen[f] >= offset
             /\ Rewind(f, offset, seen, trace, rollback.len, rollback.flush)
             /\ UNCHANGED <<trace, procs>>
    <3>1. /\ Forgets(seen', trace, rollback'.len)
          /\ rollback'.len \in Nat /\ aborted' = "no"
      BY <2>1, <2>2, RewindForgets
    <3> QED
      BY <3>1, <2>2, <1>2
  <2>3. CASE rollback.len = Len(trace) /\ Alive(Top) /\ Synchronize(f, offset)
    <3>1. Forgets(seen, trace, Len(trace))
      BY <2>1, <2>3
    <3> QED
      BY <3>1, <2>3, <1>2, SynchronizeForgets
  <2> QED
    BY <1>1, <1>3, <2>2, <2>3 DEF AddChange
<1>4. CASE rollback.len = NotInTransaction
  BY <1>1, <1>4 DEF AddChange
<1> QED
  BY <1>3, <1>4

(* find_diff returns a position. *)
LEMMA FirstDiffTyped ==
  ASSUME NEW s \in Seq(Bytes), NEW t \in Seq(Bytes)
  PROVE  FirstDiff(s, t) \in Nat
<1>1. PICK ks : ks = {k \in 0..Len(s) : k <= Len(t) /\ SubSeq(s, 1, k) = SubSeq(t, 1, k)}
  OBVIOUS
<1>2. ks \subseteq 0..Len(s)
  BY <1>1, Zenon
<1>3. 0 \in ks
  <2>1. SubSeq(s, 1, 0) = <<>> /\ SubSeq(t, 1, 0) = <<>>
    OBVIOUS
  <2>2. 0 \in 0..Len(s) /\ 0 <= Len(t)
    OBVIOUS
  <2> QED
    BY <1>1, <2>1, <2>2
<1>4. ks \subseteq Int /\ ks # {} /\ Len(s) \in Int /\ \A x \in ks : x <= Len(s)
  BY <1>2, <1>3
<1>5. Max(ks) \in ks
  BY <1>4, MaxIn
<1>6. FirstDiff(s, t) = Max(ks)
  BY <1>1 DEF FirstDiff
<1>7. PICK k \in 0..Len(s) : k = Max(ks)
  BY <1>2, <1>5
<1> QED
  BY <1>6, <1>7

LEMMA ContentsTyped ==
  ASSUME FilesInv, NEW f \in Entries
  PROVE  /\ disk[f] # Null => disk[f] \in Seq(Bytes)
         /\ fs[f] # Null => fs[f] \in Seq(Bytes)
         /\ edit[f] # Null => edit[f] \in Seq(Bytes)
BY DEF FilesInv, Files

LEMMA EditorChangeForgets ==
  ASSUME Inv, TraceInv, NEW f \in Entries, NEW data \in Seq(Bytes),
         EditorOpen(f, data) \/ EditorChange(f, data)
  PROVE  TraceInv'
<1>1. /\ changing /\ aborted = "no" /\ finishing' = finishing
      /\ edit' = [edit EXCEPT ![f] = data]
      /\ UNCHANGED <<disk, fs, statted>>
  BY Zenon DEF EditorOpen, EditorChange, Changing
<1>2. FilesInv
  BY DEF TraceInv
<1>3. FilesInv'
  <2>1. edit' \in Files
    BY <1>1, <1>2 DEF FilesInv, Files
  <2> QED
    BY <1>1, <1>2, <2>1 DEF FilesInv
<1>4. (\E offset \in Nat : AddChange(f, offset))
        \/ UNCHANGED <<seen, trace, procs, rollback, aborted>>
  <2>1. CASE EditorOpen(f, data)
    <3>1. \/ edit[f] # Null /\ AddChange(f, FirstDiff(edit[f], data))
          \/ fs[f] # Null /\ AddChange(f, FirstDiff(fs[f], data))
          \/ AddChange(f, 0)
          \/ UNCHANGED <<seen, trace, procs, rollback, aborted>>
      BY <2>1, Zenon DEF EditorOpen
    <3>2. /\ edit[f] # Null => FirstDiff(edit[f], data) \in Nat
          /\ fs[f] # Null => FirstDiff(fs[f], data) \in Nat
      BY <1>2, ContentsTyped, FirstDiffTyped
    <3>3. 0 \in Nat
      OBVIOUS
    <3> QED
      BY <3>1, <3>2, <3>3, Zenon
  <2>2. CASE EditorChange(f, data)
    <3>1. edit[f] # Null /\ \E offset \in 0..FirstDiff(edit[f], data) : AddChange(f, offset)
      BY <2>2, Zenon DEF EditorChange
    <3>2. FirstDiff(edit[f], data) \in Nat
      BY <3>1, <1>2, ContentsTyped, FirstDiffTyped
    <3>3. 0..FirstDiff(edit[f], data) \subseteq Nat
      BY <3>2
    <3> QED
      BY <3>1, <3>3, Zenon
  <2> QED
    BY <2>1, <2>2
<1>5. Forgets(seen', trace', Reference') /\ aborted' # "trace"
  <2>1. CASE UNCHANGED <<seen, trace, procs, rollback, aborted>>
    BY <2>1 DEF TraceInv, Reference
  <2>2. CASE \E offset \in Nat : AddChange(f, offset)
    BY <2>2, <1>1, AddChangeForgets
  <2> QED
    BY <1>4, <2>1, <2>2
<1> QED
  BY <1>1, <1>3, <1>5 DEF TraceInv

LEMMA EditorCloseForgets ==
  ASSUME Inv, TraceInv, NEW f \in Entries, EditorClose(f)
  PROVE  TraceInv'
<1>1. /\ changing /\ aborted = "no" /\ finishing' = finishing /\ edit[f] # Null
      /\ edit' = [edit EXCEPT ![f] = Null]
      /\ UNCHANGED <<disk, fs, statted>>
      /\ AddChange(f, IF fs[f] = Null THEN 0 ELSE FirstDiff(fs[f], edit[f]))
  BY Zenon DEF EditorClose, Changing
<1>2. FilesInv
  BY DEF TraceInv
<1>3. FilesInv'
  <2>1. edit' \in Files
    BY <1>1, <1>2 DEF FilesInv, Files
  <2> QED
    BY <1>1, <1>2, <2>1 DEF FilesInv
<1>4. PICK offset \in Nat : AddChange(f, offset)
  <2>1. fs[f] # Null => FirstDiff(fs[f], edit[f]) \in Nat
    BY <1>1, <1>2, ContentsTyped, FirstDiffTyped
  <2>2. (IF fs[f] = Null THEN 0 ELSE FirstDiff(fs[f], edit[f])) \in Nat
    BY <2>1
  <2> QED
    BY <1>1, <2>2, Zenon
<1>5. Forgets(seen', trace', Reference') /\ aborted' # "trace"
  BY <1>1, <1>4, AddChangeForgets
<1> QED
  BY <1>1, <1>3, <1>5 DEF TraceInv

LEMMA ScanForgets ==
  ASSUME Inv, TraceInv, NEW f \in Entries, Scan(f)
  PROVE  TraceInv'
<1>1. /\ changing /\ aborted = "no" /\ finishing' = finishing /\ f \in statted
      /\ disk[f] # Null /\ fs' = [fs EXCEPT ![f] = disk[f]]
      /\ UNCHANGED <<disk, edit, statted>>
      /\ AddChange(f, FirstDiff(fs[f], disk[f]))
  BY Zenon DEF Scan, OnDisk
<1>2. FilesInv
  BY DEF TraceInv
<1>3. FilesInv'
  <2>1. fs' \in Files /\ \A g \in statted : fs'[g] # Null
    BY <1>1, <1>2 DEF FilesInv, Files
  <2> QED
    BY <1>1, <1>2, <2>1 DEF FilesInv
<1>4. FirstDiff(fs[f], disk[f]) \in Nat
  <2>1. fs[f] # Null
    BY <1>1, <1>2 DEF FilesInv
  <2> QED
    BY <2>1, <1>1, <1>2, ContentsTyped, FirstDiffTyped
<1>5. Forgets(seen', trace', Reference') /\ aborted' # "trace"
  BY <1>1, <1>4, AddChangeForgets
<1> QED
  BY <1>1, <1>3, <1>5 DEF TraceInv

LEMMA DiskChangeForgets ==
  ASSUME TraceInv, NEW f \in Entries, NEW data \in Seq(Bytes) \cup {Null}, DiskChange(f, data)
  PROVE  TraceInv'
<1>1. /\ disk' = [disk EXCEPT ![f] = data]
      /\ UNCHANGED <<fs, statted, edit, seen, trace, rollback, finishing, aborted>>
  BY Zenon DEF DiskChange
<1>2. disk' \in Files
  BY <1>1 DEF TraceInv, FilesInv, Files
<1> QED
  BY <1>1, <1>2 DEF TraceInv, FilesInv, Reference

LEMMA ScanSameForgets ==
  ASSUME TraceInv, NEW f, ScanSame(f)
  PROVE  TraceInv'
<1>1. UNCHANGED <<disk, fs, statted, edit, seen, trace, rollback, finishing, aborted>>
  BY Zenon DEF ScanSame
<1> QED
  BY <1>1 DEF TraceInv, FilesInv, Reference

LEMMA ChangeForgets ==
  ASSUME Inv, TraceInv, Change
  PROVE  TraceInv'
<1>1. /\ EditorFiles \subseteq Entries /\ DiskFiles \subseteq Entries
      /\ \A f \in Entries : NewContents[f] \subseteq Seq(Bytes)
  BY TexEngineAssumption
<1>2. ASSUME NEW f \in EditorFiles, NEW data \in NewContents[f],
             EditorOpen(f, data) \/ EditorChange(f, data)
      PROVE  TraceInv'
  BY <1>1, <1>2, EditorChangeForgets
<1>3. ASSUME NEW f \in EditorFiles, EditorClose(f)
      PROVE  TraceInv'
  BY <1>1, <1>3, EditorCloseForgets
<1>4. ASSUME NEW f \in DiskFiles, NEW data \in NewContents[f] \cup {Null}, DiskChange(f, data)
      PROVE  TraceInv'
  <2>1. f \in Entries /\ data \in Seq(Bytes) \cup {Null}
    BY <1>1
  <2> QED
    BY <2>1, <1>4, DiskChangeForgets
<1>5. ASSUME NEW f \in DiskFiles, Scan(f) \/ ScanSame(f)
      PROVE  TraceInv'
  BY <1>1, <1>5, ScanForgets, ScanSameForgets
<1> QED
  BY <1>2, <1>3, <1>4, <1>5 DEF Change

LEMMA RollbackForgets ==
  ASSUME Inv, NEW back \in Nat, back <= Len(trace), NEW sn, NEW target \in Int, target <= back,
         Rollback(back, sn, target), rollback' = Closed, Forgets(sn, trace, back)
  PROVE  Forgets(seen', trace', Reference')
<1>1. /\ Top \in Nat /\ Len(trace) \in Nat /\ trace \in Seq(TraceEntry)
      /\ \A i \in 1..Top : TraceLen(i) \in Nat
  BY StackTyped, SettledStack DEF Inv, Typed, TraceLen
<1>2. PICK kept : kept = {0} \cup {i \in 1..Top : ~Gone(i, target)}
  OBVIOUS
<1>3. PICK n \in kept : n = Max(kept)
  <2>1. kept \subseteq {0} \cup 1..Top /\ 0 \in kept
    BY <1>2
  <2>2. kept \subseteq Int /\ kept # {} /\ Top \in Int /\ \A x \in kept : x <= Top
    BY <2>1, <1>1
  <2> QED
    BY <2>2, MaxIn
<1>4. PICK len : len = IF n = 0 THEN 0 ELSE TraceLen(n)
  OBVIOUS
<1>5. /\ trace' = SubSeq(trace, 1, len)
      /\ seen' = Reverted(sn, trace, len, back)
  BY <1>2, <1>3, <1>4, Zenon DEF Rollback
<1>6. len \in Nat /\ len <= back
  <2>1. CASE n = 0
    BY <2>1, <1>4
  <2>2. CASE n # 0
    <3>1. n \in 1..Top /\ ~Gone(n, target)
      BY <2>2, <1>2
    <3>2. TraceLen(n) \in Nat /\ ~(TraceLen(n) > target)
      BY <3>1, <1>1 DEF Gone
    <3> QED
      BY <2>2, <3>2, <1>4
  <2> QED
    BY <2>1, <2>2
<1>7. PICK l \in Nat : l = len /\ l <= back /\ l <= Len(trace)
  BY <1>1, <1>6
<1>8. Forgets(seen', trace, l)
  BY <1>5, <1>7, ForgetsReverted
<1>9. Forgets(seen', trace', l) /\ Len(trace') = l
  <2>1. PICK s : s = seen'
    OBVIOUS
  <2>2. Forgets(s, trace, l)
    BY <1>8, <2>1
  <2>3. Forgets(s, SubSeq(trace, 1, l), l) /\ Len(SubSeq(trace, 1, l)) = l
    BY <2>2, <1>1, <1>7, ForgetsCut, CutSequence
  <2> QED
    BY <2>1, <2>3, <1>5, <1>7
<1>10. Reference' = Len(trace')
  BY ClosedTransaction DEF Reference
<1> QED
  BY <1>9, <1>10

LEMMA EndRollbackForgets ==
  ASSUME Inv, TraceInv, EndRollback, rollback' = Closed
  PROVE  TraceInv'
<1>1. PICK back \in Nat, sn \in [Entries -> Int], target \in Int :
        /\ sn = Reverted(seen, trace, back, rollback.len)
        /\ rollback.len \in Nat /\ back <= rollback.len /\ back <= Len(trace)
        /\ target <= back /\ Rollback(back, sn, target) /\ aborted' = aborted
  BY EndRollbackGoes
<1>2. /\ ~finishing' /\ edit' = [f \in Entries |-> IF f \in stash THEN Null ELSE edit[f]]
      /\ UNCHANGED <<disk, fs, statted>>
  BY <1>1, Zenon DEF EndRollback, Rollback
<1>3. FilesInv'
  <2>1. edit' \in Files
    BY <1>2 DEF TraceInv, FilesInv, Files
  <2> QED
    BY <1>2, <2>1 DEF TraceInv, FilesInv
<1>4. Forgets(seen, trace, rollback.len)
  <2>1. rollback.len # NotInTransaction
    BY <1>1 DEF NotInTransaction
  <2> QED
    BY <2>1 DEF TraceInv, Reference
<1>5. Forgets(sn, trace, back)
  <2>1. PICK c \in Nat : c = rollback.len /\ back <= c
    BY <1>1
  <2> QED
    BY <2>1, <1>1, <1>4, ForgetsReverted
<1>6. Forgets(seen', trace', Reference')
  BY <1>1, <1>5, RollbackForgets
<1> QED
  BY <1>1, <1>2, <1>3, <1>6 DEF TraceInv

(* The end of a transaction that went nowhere *)
LEMMA EndStillForgets ==
  ASSUME Inv, TraceInv, EndUnchanged \/ EndFlush, rollback' = Closed
  PROVE  TraceInv'
<1>1. UNCHANGED <<disk, fs, statted, edit, seen, trace, finishing>>
  BY Zenon DEF EndUnchanged, EndFlush, vfs
<1>2. aborted' # "trace"
  BY Zenon DEF EndUnchanged, EndFlush, TraceInv
<1>3. Forgets(seen, trace, Len(trace))
  BY Zenon DEF EndUnchanged, EndFlush, Flushing, TraceInv, Reference
<1>4. Reference' = Len(trace')
  BY ClosedTransaction DEF Reference
<1> QED
  BY <1>1, <1>2, <1>3, <1>4 DEF TraceInv, FilesInv

LEMMA EndChangesForgets ==
  ASSUME Inv, TraceInv, EndChanges
  PROVE  TraceInv'
BY EndRollbackForgets, EndStillForgets, Zenon DEF EndChanges

LEMMA BeginChangesForgets ==
  ASSUME Inv, TraceInv, BeginChanges
  PROVE  TraceInv'
<1>1. /\ ~changing /\ UNCHANGED <<disk, fs, statted, edit, seen, trace, finishing, aborted>>
      /\ rollback' = Closed \/ rollback' = [Closed EXCEPT !.len = Len(trace)]
  BY Zenon DEF BeginChanges, vfs
<1>2. Forgets(seen, trace, Len(trace))
  <2>1. rollback = Closed
    BY <1>1 DEF Inv, RollbackInv
  <2> QED
    BY <2>1, ClosedTransaction DEF TraceInv, Reference
<1>3. Reference' = Len(trace')
  <2>1. CASE rollback' = Closed
    BY <2>1, ClosedTransaction DEF Reference
  <2>2. CASE rollback' = [Closed EXCEPT !.len = Len(trace)]
    <3>1. rollback'.len = Len(trace)
      BY <2>2 DEF Closed
    <3> QED
      BY <3>1, <1>1 DEF Reference
  <2> QED
    BY <1>1, <2>1, <2>2
<1> QED
  BY <1>1, <1>2, <1>3 DEF TraceInv, FilesInv

LEMMA InitTrace ==
  ASSUME Init
  PROVE  TraceInv
<1>1. /\ disk = Disk /\ fs = [f \in Entries |-> Null] /\ edit = [f \in Entries |-> Null]
      /\ statted = {} /\ seen = Unobserved /\ trace = <<>> /\ rollback = Closed
      /\ finishing = FALSE /\ aborted = "no"
  BY Zenon DEF Init
<1>2. FilesInv
  BY <1>1, TexEngineAssumption DEF FilesInv, Files
<1>3. Forgets(seen, trace, 0)
  <2>1. ASSUME NEW g \in Entries
        PROVE  Reverted(seen, trace, 0, 0)[g] = -1
    <3>1. NoEntry(trace, 0, 0, g)
      BY DEF NoEntry
    <3>2. Reverted(seen, trace, 0, 0)[g] = seen[g]
      BY <3>1, RevertedNone
    <3>3. seen[g] = -1
      BY <1>1 DEF Unobserved
    <3> QED
      BY <3>2, <3>3
  <2> QED
    BY <2>1 DEF Forgets
<1>4. Reference = 0
  BY <1>1, ClosedTransaction DEF Reference
<1> QED
  BY <1>1, <1>2, <1>3, <1>4 DEF TraceInv

LEMMA NextForgets ==
  ASSUME Inv, TraceInv, ~ResumeInBatch, ~RerunEnabled, [Next]_vars
  PROVE  TraceInv'
<1>1. CASE Consume \/ Ask \/ UNCHANGED vars
  <2>1. UNCHANGED <<disk, fs, statted, edit, seen, trace, rollback, finishing, aborted>>
    BY <1>1, Zenon DEF Consume, Ask, vars, vfs
  <2> QED
    BY <2>1 DEF TraceInv, FilesInv, Reference
<1>2. CASE Step \/ Prepare
  <2>1. Outside /\ Harmless
    BY <1>2, StepHarmless
  <2> QED
    BY <2>1, HarmlessKeeps DEF Outside
<1>3. CASE BeginChanges
  BY <1>3, BeginChangesForgets
<1>4. CASE Change
  BY <1>4, ChangeForgets
<1>5. CASE EndChanges
  BY <1>5, EndChangesForgets
<1>6. CASE StartFinishing \/ FinishConverged \/ FinishAgain
  BY <1>6, Zenon DEF StartFinishing, FinishConverged, FinishAgain, Finish, TraceInv
<1> QED
  BY <1>1, <1>2, <1>3, <1>4, <1>5, <1>6 DEF Next

(* Reverting the trace never runs past its beginning: the loop of            *)
(* rollback_add_change needs no bound, since what it undoes ends with no     *)
(* file observed.  It would fail if the engine were stepped in the middle of *)
(* a transaction, or after the end of a document that is typeset again:      *)
(* MCResumeInBatch and MCRerunOverrun show how.                              *)
THEOREM TraceSuffices == ~ResumeInBatch /\ ~RerunEnabled => (Spec => []TraceNotOverrun)
<1> SUFFICES ASSUME ~ResumeInBatch, ~RerunEnabled
             PROVE  Spec => []TraceNotOverrun
  OBVIOUS
<1>1. Init => Inv /\ TraceInv
  BY InitInv, InitTrace
<1>2. Inv /\ TraceInv /\ [Next]_vars => (Inv /\ TraceInv)'
  BY NextKeeps, NextForgets
<1>3. Inv /\ TraceInv => TraceNotOverrun
  BY DEF TraceInv, TraceNotOverrun
<1> QED
  BY <1>1, <1>2, <1>3, PTL DEF Spec
=============================================================================
