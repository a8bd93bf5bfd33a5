---------------------------- MODULE ChannelProofs ----------------------------
(* Proofs about Channel: conversations are never mixed, workers end well, and *)
(* descriptors match, for any number of workers and any sizes.                *)
EXTENDS Channel, SequenceTheorems, TLAPS

-----------------------------------------------------------------------------
(* The inductive invariant *)

Tags == {"SEEN", "READ", "APND", "CHLD"}
Answers == {"FLSH", "READ", "FORK", "DONE"}
Word == [w : Workers, tag : Tags, k : 1..3, fd : Workers \cup {None}]
Process == [w : Workers, fd : BOOLEAN]
Statuses == Working \cup Ended \cup {"unborn"}

Typed ==
  /\ stack \in Seq(Process) /\ Len(stack) <= MaxProcess
  /\ status \in [Workers -> Statuses]
  /\ child \in [Workers -> Workers \cup {None}]
  /\ kept \subseteq Workers
  /\ up \in [Workers -> Seq(Word)]
  /\ down \in [Workers -> Seq(Answers)]
  /\ input \in Seq(Word) /\ Len(input) <= BufSize
  /\ passed \in Workers \cup {None}
  /\ exited \in BOOLEAN
  /\ aborted \in {"no", "peek", "two descriptors", "no descriptor"}

(* A conversation is made of whole messages of w, a query is the last one,  *)
(* and the descriptor is that of c, the child of w.                         *)
Messages(w, c, s) ==
  /\ s # <<>> => s[1].k = 1
  /\ \A i \in 1..Len(s) :
       /\ s[i].w = w
       /\ s[i].k \in 1..Size[s[i].tag]
       /\ s[i].fd = IF s[i].tag = "CHLD" /\ s[i].k = 1 THEN c ELSE None
       /\ s[i].k < Size[s[i].tag] =>
            i < Len(s) /\ s[i + 1].tag = s[i].tag /\ s[i + 1].k = s[i].k + 1
       /\ s[i].k = Size[s[i].tag] /\ i < Len(s) => s[i].tag = "SEEN" /\ s[i + 1].k = 1

(* What a worker may be doing when words with this tag are not read yet *)
Says == [SEEN |-> {"computing", "READ", "APND", "dead"}, READ |-> {"READ"},
         APND |-> {"APND"}, CHLD |-> {"forking"}]

Flushes(d) == \A i \in 1..Len(d) : d[i] = "FLSH"
Reads(u) == \A i \in 1..Len(u) : u[i].tag = "READ"

(* At most one answer is underway, and a worker that does s expects it. *)
Awaited(s, d) ==
  \A i \in 1..Len(d) :
    d[i] # "FLSH" =>
      /\ <<s, d[i]>> \in Expected \cup {<<"forking", "DONE">>}
      /\ \A j \in 1..Len(d) : j # i => d[j] = "FLSH"

(* Worker w does s, its last child is c, ws is not read and d not received:  *)
(* it has said nothing more since its query, and is not answered before the  *)
(* query is read.                                                            *)
Consistent(w, s, c, ws, d) ==
  /\ Messages(w, c, ws)
  /\ \A i \in 1..Len(ws) : s \in Says[ws[i].tag]
  /\ Flushes(d) \/ ws = <<>>

(* What the driver will read of w, when u was sent and not received *)
Heard(w, u) == IF stack # <<>> /\ w = Top THEN input \o u ELSE u
Stream(w) == Heard(w, up[w])

TopOpen == stack # <<>> /\ Last(stack).fd

(* The top worker has sent its child, which was not received. *)
Forked == TopOpen /\ \E i \in 1..Len(Stream(Top)) : Stream(Top)[i].tag = "CHLD"

(* The workers that the driver hears, or will hear after a CHLD *)
Connected == {stack[i].w : i \in {j \in 1..Len(stack) : stack[j].fd}}
Talking == Connected \cup (IF Forked THEN {child[Top]} ELSE {})

(* A worker is on the stack once.  Only the top one may be gone, the others *)
(* wait for a child, or ask again since it is dead.                         *)
StackInv ==
  /\ \A i, j \in 1..Len(stack) : stack[i].w = stack[j].w => i = j
  /\ \A i \in 1..Len(stack) : status[stack[i].w] \notin {"unborn", "cut"}
  /\ \A i \in 1..(Len(stack) - 1) :
       /\ stack[i].fd
       /\ status[stack[i].w] \in {"forking", "resting", "READ"}
       /\ Reads(up[stack[i].w])
       /\ status[stack[i].w] = "READ" => Flushes(down[stack[i].w])
  /\ ~TopOpen => input = <<>>
  /\ stack # <<>> /\ ~TopOpen => status[Top] \in Ended
  /\ exited => stack = <<>>

(* A child that was sent is still held by its parent, and was told nothing. *)
ChildInv ==
  /\ Forked =>
       /\ child[Top] \in Workers
       /\ \A i \in 1..Len(stack) : stack[i].w # child[Top]
       /\ child[Top] \in kept
       /\ Flushes(down[child[Top]])
       /\ status[child[Top]] \in {"computing", "READ", "APND", "dead"}
  /\ \A v, w \in Workers : child[v] = child[w] /\ child[v] # None => v = w
  /\ \A w \in Workers : child[w] # None => status[child[w]] # "unborn"
  /\ \A c \in kept : status[c] # "cut"

AnswersInv ==
  \A w \in Workers :
    /\ status[w] # "panicked"
    /\ status[w] = "unborn" => up[w] = <<>> /\ down[w] = <<>>
    /\ status[w] \in Working => Awaited(status[w], down[w])

Conversation(w) == Consistent(w, status[w], child[w], Stream(w), down[w])

(* A descriptor waits with the CHLD it came with. *)
DescriptorInv ==
  /\ aborted = "no" =>
       \A i \in 1..Len(input) : input[i].fd # None => passed = input[i].fd
  /\ ~PopForking =>
       /\ passed # None => \E i \in 1..Len(input) : input[i].fd = passed
       /\ DescriptorsMatch

Inv ==
  /\ Typed /\ StackInv /\ ChildInv /\ AnswersInv
  /\ \A w \in Talking : Conversation(w)
  /\ DescriptorInv

-----------------------------------------------------------------------------
(* Messages *)

LEMMA Sizes ==
  /\ DOMAIN Size = Tags
  /\ Size["SEEN"] = 2 /\ Size["READ"] = 2 /\ Size["APND"] = 3 /\ Size["CHLD"] = 2
  /\ \A t \in Tags : Size[t] \in {2, 3}
BY DEF Size, Tags

LEMMA ThreeWords == \A s, t, u \in Seq(Word) : (s \o t) \o u = s \o (t \o u)
BY ConcatAssociative

(* Words is a message. *)
LEMMA WordsMessages ==
  ASSUME NEW w \in Workers, NEW tag \in Tags, NEW c \in Workers \cup {None},
         NEW fd \in Workers \cup {None},
         tag = "CHLD" => fd = c, tag # "CHLD" => fd = None
  PROVE  /\ Words(w, tag, fd) \in Seq(Word)
         /\ Len(Words(w, tag, fd)) = Size[tag]
         /\ Messages(w, c, Words(w, tag, fd))
         /\ \A i \in 1..Size[tag] : Words(w, tag, fd)[i].tag = tag
<1> DEFINE m == Words(w, tag, fd)
           n == Size[tag]
<1>1. n \in {2, 3}
  BY Sizes
<1>2. /\ m = [k \in 1..n |-> [w |-> w, tag |-> tag, k |-> k, fd |-> IF k = 1 THEN fd ELSE None]]
  BY DEF Words
<1> HIDE DEF m, n
<1>3. \A i \in 1..n : m[i] \in Word
  BY <1>1, <1>2 DEF Word
<1>4. m \in Seq(Word) /\ Len(m) = n
  BY <1>1, <1>2, <1>3
<1>5. Messages(w, c, m)
  BY <1>1, <1>2, <1>4 DEF Messages, n
<1>6. \A i \in 1..n : m[i].tag = tag
  BY <1>2
<1> QED
  BY <1>4, <1>5, <1>6, Zenon DEF m, n

(* A message after SEEN messages *)
LEMMA MessagesSent ==
  ASSUME NEW w \in Workers, NEW c \in Workers \cup {None}, NEW s \in Seq(Word), NEW m \in Seq(Word),
         Messages(w, c, s), Messages(w, c, m), \A i \in 1..Len(s) : s[i].tag = "SEEN"
  PROVE  Messages(w, c, s \o m)
<1> DEFINE t == s \o m
<1>1. /\ t \in Seq(Word) /\ Len(t) = Len(s) + Len(m) /\ Len(s) \in Nat /\ Len(m) \in Nat
      /\ \A i \in 1..Len(t) : t[i] = IF i <= Len(s) THEN s[i] ELSE m[i - Len(s)]
  BY ConcatProperties
<1> HIDE DEF t
<1>2. t # <<>> => t[1].k = 1
  <2>1. CASE s # <<>>
    BY <1>1, <2>1 DEF Messages
  <2>2. CASE s = <<>>
    BY <1>1, <2>2 DEF Messages
  <2> QED
    BY <2>1, <2>2
<1>3. ASSUME NEW i \in 1..Len(t), i <= Len(s)
      PROVE  /\ t[i].w = w
             /\ t[i].k \in 1..Size[t[i].tag]
             /\ t[i].fd = IF t[i].tag = "CHLD" /\ t[i].k = 1 THEN c ELSE None
             /\ t[i].k < Size[t[i].tag] =>
                  i < Len(t) /\ t[i + 1].tag = t[i].tag /\ t[i + 1].k = t[i].k + 1
             /\ t[i].k = Size[t[i].tag] /\ i < Len(t) => t[i].tag = "SEEN" /\ t[i + 1].k = 1
  <2>1. t[i] = s[i] /\ t[i].tag = "SEEN" /\ i \in 1..Len(s)
    BY <1>1, <1>3
  <2>2. CASE i < Len(s)
    <3>1. t[i + 1] = s[i + 1] /\ i < Len(t)
      BY <1>1, <2>1, <2>2
    <3>2. /\ s[i].w = w
          /\ s[i].k \in 1..Size[s[i].tag]
          /\ s[i].fd = IF s[i].tag = "CHLD" /\ s[i].k = 1 THEN c ELSE None
          /\ s[i].k < Size[s[i].tag] => s[i + 1].tag = s[i].tag /\ s[i + 1].k = s[i].k + 1
          /\ s[i].k = Size[s[i].tag] => s[i].tag = "SEEN" /\ s[i + 1].k = 1
      BY <2>1, <2>2 DEF Messages
    <3> QED
      BY <2>1, <3>1, <3>2
  <2>3. CASE i = Len(s)
    <3>1. ~(s[i].k < Size[s[i].tag])
      BY <2>1, <2>3 DEF Messages
    <3>2. i < Len(t) => t[i + 1] = m[1] /\ m # <<>>
      BY <1>1, <2>3
    <3> QED
      BY <1>1, <2>1, <2>3, <3>1, <3>2 DEF Messages
  <2> QED
    BY <1>1, <1>3, <2>2, <2>3
<1>4. ASSUME NEW i \in 1..Len(t), i > Len(s)
      PROVE  /\ t[i].w = w
             /\ t[i].k \in 1..Size[t[i].tag]
             /\ t[i].fd = IF t[i].tag = "CHLD" /\ t[i].k = 1 THEN c ELSE None
             /\ t[i].k < Size[t[i].tag] =>
                  i < Len(t) /\ t[i + 1].tag = t[i].tag /\ t[i + 1].k = t[i].k + 1
             /\ t[i].k = Size[t[i].tag] /\ i < Len(t) => t[i].tag = "SEEN" /\ t[i + 1].k = 1
  <2> DEFINE j == i - Len(s)
  <2>1. j \in 1..Len(m) /\ t[i] = m[j] /\ (i < Len(t) <=> j < Len(m))
    BY <1>1, <1>4
  <2>2. j < Len(m) => t[i + 1] = m[j + 1]
    BY <1>1, <1>4
  <2> HIDE DEF j
  <2> QED
    BY <2>1, <2>2 DEF Messages
<1>5. ASSUME NEW i \in 1..Len(t)
      PROVE  i <= Len(s) \/ i > Len(s)
  BY <1>1
<1> QED
  BY <1>2, <1>3, <1>4, <1>5 DEF Messages, t

(* The words of the first message, and what follows it *)
LEMMA FirstMessage ==
  ASSUME NEW w \in Workers, NEW c \in Workers \cup {None}, NEW s \in Seq(Word), s # <<>>,
         Messages(w, c, s), Len(s) >= Size[s[1].tag]
  PROVE  LET n == Size[s[1].tag]
             t == SubSeq(s, n + 1, Len(s))
         IN  /\ n \in {2, 3} /\ n \in 1..Len(s)
             /\ \A i \in 1..n : s[i].tag = s[1].tag
             /\ t \in Seq(Word) /\ Len(t) = Len(s) - n
             /\ \A i \in 1..Len(t) : t[i] = s[n + i]
             /\ Messages(w, c, t)
             /\ s[1].tag # "SEEN" => t = <<>>
<1> DEFINE n == Size[s[1].tag]
           t == SubSeq(s, n + 1, Len(s))
<1>1. 1 \in 1..Len(s) /\ Len(s) \in Nat /\ \A i \in 1..Len(s) : s[i] \in Word
  OBVIOUS
<1>2. n \in {2, 3}
  BY <1>1, Sizes DEF Word
<1>3. n \in 1..Len(s)
  BY <1>1, <1>2
<1>4. /\ t \in Seq(Word) /\ Len(t) = Len(s) - n
      /\ \A i \in 1..Len(t) : t[i] = s[n + i]
  <2>1. \A i \in (n + 1)..Len(s) : s[i] \in Word
    BY <1>1, <1>3
  <2> HIDE DEF n
  <2>2. n + 1 \in Int /\ Len(s) \in Int
    BY <1>3
  <2>3. /\ t \in Seq(Word)
        /\ Len(t) = IF n + 1 <= Len(s) THEN Len(s) - (n + 1) + 1 ELSE 0
        /\ \A i \in 1..(Len(s) - (n + 1) + 1) : t[i] = s[(n + 1) + i - 1]
    BY <2>1, <2>2, SubSeqProperties
  <2>4. Len(t) = Len(s) - n
    BY <1>1, <1>3, <2>3
  <2>5. ASSUME NEW i \in 1..Len(t)
        PROVE  t[i] = s[n + i]
    <3>1. (n + 1) + i - 1 = n + i /\ i \in 1..(Len(s) - (n + 1) + 1)
      BY <1>1, <1>3, <2>4
    <3> QED
      BY <2>3, <3>1
  <2> QED
    BY <2>3, <2>4, <2>5
<1>5. s[1].k = 1
  BY DEF Messages
<1>6. /\ s[2].tag = s[1].tag /\ s[2].k = 2 /\ 2 \in 1..Len(s)
  BY <1>1, <1>2, <1>3, <1>5 DEF Messages
<1>7. n = 3 => s[3].tag = s[1].tag /\ s[3].k = 3
  BY <1>1, <1>3, <1>6 DEF Messages
<1>8. s[n].tag = s[1].tag /\ s[n].k = n /\ \A i \in 1..n : s[i].tag = s[1].tag
  BY <1>2, <1>6, <1>7
<1>9. s[1].tag # "SEEN" => Len(s) = n
  BY <1>3, <1>8 DEF Messages
<1> HIDE DEF n, t
<1>10. Messages(w, c, t)
  <2>1. t # <<>> => t[1].k = 1
    <3> SUFFICES ASSUME t # <<>>
                 PROVE  t[1].k = 1
      OBVIOUS
    <3>1. Len(t) > 0 /\ t[1] = s[n + 1] /\ n < Len(s)
      BY <1>1, <1>2, <1>3, <1>4
    <3> QED
      BY <1>3, <1>8, <3>1 DEF Messages, n
  <2>2. ASSUME NEW i \in 1..Len(t)
        PROVE  n + i \in 1..Len(s) /\ t[i] = s[n + i] /\ (i < Len(t) <=> n + i < Len(s))
    BY <1>1, <1>3, <1>4
  <2>3. ASSUME NEW i \in 1..Len(t), i < Len(t)
        PROVE  t[i + 1] = s[(n + i) + 1]
    BY <1>1, <1>3, <1>4, <2>3
  <2>4. ASSUME NEW i \in 1..Len(t)
        PROVE  /\ t[i].w = w
               /\ t[i].k \in 1..Size[t[i].tag]
               /\ t[i].fd = IF t[i].tag = "CHLD" /\ t[i].k = 1 THEN c ELSE None
               /\ t[i].k < Size[t[i].tag] =>
                    i < Len(t) /\ t[i + 1].tag = t[i].tag /\ t[i + 1].k = t[i].k + 1
               /\ t[i].k = Size[t[i].tag] /\ i < Len(t) => t[i].tag = "SEEN" /\ t[i + 1].k = 1
    <3> DEFINE j == n + i
    <3>1. j \in 1..Len(s) /\ t[i] = s[j] /\ (i < Len(t) <=> j < Len(s))
      BY <2>2
    <3>2. i < Len(t) => t[i + 1] = s[j + 1]
      BY <2>3
    <3> HIDE DEF j
    <3>3. /\ s[j].w = w
          /\ s[j].k \in 1..Size[s[j].tag]
          /\ s[j].fd = IF s[j].tag = "CHLD" /\ s[j].k = 1 THEN c ELSE None
          /\ s[j].k < Size[s[j].tag] =>
               j < Len(s) /\ s[j + 1].tag = s[j].tag /\ s[j + 1].k = s[j].k + 1
          /\ s[j].k = Size[s[j].tag] /\ j < Len(s) => s[j].tag = "SEEN" /\ s[j + 1].k = 1
      BY <3>1 DEF Messages
    <3> QED
      BY <3>1, <3>2, <3>3
  <2> QED
    BY <2>1, <2>4 DEF Messages
<1>11. Len(s) = n => t = <<>>
  BY <1>4
<1> QED
  BY <1>2, <1>3, <1>4, <1>8, <1>9, <1>10, <1>11 DEF n, t

(* The descriptor is in one word, which is the last but one. *)
LEMMA OneDescriptor ==
  ASSUME NEW w \in Workers, NEW c \in Workers \cup {None}, NEW s \in Seq(Word),
         Messages(w, c, s), NEW i \in 1..Len(s), s[i].fd # None
  PROVE  s[i].tag = "CHLD" /\ s[i].fd = c /\ c # None /\ i = Len(s) - 1
<1>1. s[i].tag = "CHLD" /\ s[i].k = 1 /\ s[i].fd = c
  BY DEF Messages
<1>2. i + 1 \in 1..Len(s) /\ s[i + 1].tag = "CHLD" /\ s[i + 1].k = 2
  BY <1>1, Sizes DEF Messages
<1>3. ~(i + 1 < Len(s))
  BY <1>2, Sizes DEF Messages
<1> QED
  BY <1>1, <1>2, <1>3

-----------------------------------------------------------------------------
(* Conversations *)

(* The top of the stack *)
LEMMA TopOfStack ==
  ASSUME Inv, stack # <<>>
  PROVE  /\ Len(stack) \in 1..MaxProcess /\ Len(stack) \in Nat /\ Len(stack) \in 1..Len(stack)
         /\ \A i \in 1..Len(stack) : stack[i] \in Process
         /\ Top \in Workers /\ Top = stack[Len(stack)].w /\ Last(stack) = stack[Len(stack)]
         /\ Stream(Top) = input \o up[Top] /\ Avail = Stream(Top)
         /\ input \in Seq(Word) /\ up[Top] \in Seq(Word)
         /\ Stream(Top) \in Seq(Word) /\ Len(Stream(Top)) = Len(input) + Len(up[Top])
         /\ \A i \in 1..Len(input) : Stream(Top)[i] = input[i]
<1>0. stack \in Seq(Process) /\ Len(stack) <= MaxProcess /\ MaxProcess \in Nat
  BY ChannelAssumption DEF Inv, Typed
<1>1. Len(stack) \in 1..MaxProcess /\ Len(stack) \in Nat /\ Len(stack) \in 1..Len(stack)
  BY <1>0
<1>2. \A i \in 1..Len(stack) : stack[i] \in Process
  BY <1>0
<1>3. Top \in Workers /\ Top = stack[Len(stack)].w /\ Last(stack) = stack[Len(stack)]
  BY <1>1, <1>2 DEF Top, Last, Process
<1>4. Stream(Top) = input \o up[Top] /\ Avail = Stream(Top)
  BY DEF Stream, Heard, Avail
<1>5. input \in Seq(Word) /\ up[Top] \in Seq(Word)
  BY <1>3 DEF Inv, Typed
<1>6. /\ input \o up[Top] \in Seq(Word) /\ Len(input \o up[Top]) = Len(input) + Len(up[Top])
      /\ \A i \in 1..Len(input) : (input \o up[Top])[i] = input[i]
  <2>1. Len(input) \in Nat /\ Len(up[Top]) \in Nat
    BY <1>5
  <2> QED
    BY <1>5, <2>1, ConcatProperties
<1> QED
  BY <1>1, <1>2, <1>3, <1>4, <1>5, <1>6

LEMMA StreamTyped ==
  ASSUME Inv, NEW w \in Workers
  PROVE  Stream(w) \in Seq(Word) /\ up[w] \in Seq(Word) /\ down[w] \in Seq(Answers)
<1>1. up[w] \in Seq(Word) /\ down[w] \in Seq(Answers)
  BY DEF Inv, Typed
<1>2. CASE stack # <<>> /\ w = Top
  BY <1>1, <1>2, TopOfStack
<1>3. CASE ~(stack # <<>> /\ w = Top)
  BY <1>1, <1>3 DEF Stream, Heard
<1> QED
  BY <1>1, <1>2, <1>3

(* A CHLD that was not read comes from a worker that waits for its child. *)
LEMMA ForkedWaits ==
  ASSUME Inv, Forked
  PROVE  /\ Top \in Workers /\ Top \in Talking /\ status[Top] = "forking"
         /\ Flushes(down[Top]) /\ Stream(Top) # <<>>
<1>1. Top \in Workers /\ Top \in Connected
  BY TopOfStack DEF Forked, TopOpen, Connected
<1>2. Conversation(Top)
  BY <1>1 DEF Inv, Talking
<1>3. PICK i \in 1..Len(Stream(Top)) : Stream(Top)[i].tag = "CHLD"
  BY DEF Forked
<1>4. Says["CHLD"] = {"forking"}
  BY DEF Says
<1>5. Stream(Top) # <<>>
  BY <1>1, <1>3, StreamTyped
<1> QED
  BY <1>1, <1>2, <1>3, <1>4, <1>5 DEF Conversation, Consistent, Talking

(* The driver can hear the workers that it talks to. *)
LEMMA TalkingHeld ==
  ASSUME Inv, NEW w \in Talking
  PROVE  w \in Workers /\ Held(w) /\ status[w] \notin {"unborn", "cut"}
<1>1. CASE w \in Connected
  <2>1. PICK i \in 1..Len(stack) : stack[i].fd /\ w = stack[i].w
    BY <1>1 DEF Connected
  <2>0. stack \in Seq(Process)
    BY DEF Inv, Typed
  <2>2. i \in DOMAIN stack /\ stack[i] \in Process
    BY <2>0
  <2> QED
    BY <2>1, <2>2 DEF Held, Process, Inv, StackInv
<1>2. CASE Forked /\ w = child[Top]
  BY <1>2 DEF Held, Inv, ChildInv
<1> QED
  BY <1>1, <1>2 DEF Talking

(* Workers below the top of the stack wait for a child, and have not sent it. *)
LEMMA BelowTop ==
  ASSUME Inv, NEW i \in 1..(Len(stack) - 1)
  PROVE  /\ stack # <<>> /\ i \in 1..Len(stack) /\ stack[i].w \in Workers /\ stack[i].w # Top
         /\ stack[i].fd /\ stack[i].w \in Talking
         /\ status[stack[i].w] \in {"forking", "resting", "READ"}
         /\ Reads(up[stack[i].w])
         /\ status[stack[i].w] = "READ" => Flushes(down[stack[i].w])
<1>0. stack \in Seq(Process)
  BY DEF Inv, Typed
<1>1. stack # <<>> /\ i \in 1..Len(stack)
  BY <1>0
<1>2. stack[i].w \in Workers /\ stack[i].w # Top
  BY <1>1, TopOfStack, SMTT(30) DEF Inv, StackInv, Process
<1> QED
  BY <1>1, <1>2 DEF Inv, StackInv, Talking, Connected

-----------------------------------------------------------------------------
(* Workers *)

(* A step of a worker keeps the invariant when what it says follows what it  *)
(* said, and when it releases no child that was sent and not received.       *)
LEMMA WorkerKeeps ==
  ASSUME Inv, NEW w \in Workers, NEW s \in Working \cup {"dead", "cut"},
         NEW u \in Seq(Word), NEW d \in Seq(Answers),
         UNCHANGED driver, child' = child, kept' \subseteq kept, status[w] \in Working,
         status' = [status EXCEPT ![w] = s],
         up' = [up EXCEPT ![w] = u], down' = [down EXCEPT ![w] = d],
         Forked => child[Top] \in kept',
         s = "cut" => ~Held(w),
         s = "forking" => u = up[w],
         s \in Working => Awaited(s, d),
         w \in Talking => Consistent(w, s, child[w], Heard(w, u), d),
         \A i \in 1..(Len(stack) - 1) :
           stack[i].w = w => /\ s \in {"forking", "resting", "READ"}
                             /\ Reads(u) /\ (s = "READ" => Flushes(d)),
         Forked /\ w = child[Top] =>
           s \in {"computing", "READ", "APND", "dead"} /\ Flushes(d)
  PROVE  Inv'
<1>1. /\ stack' = stack /\ input' = input /\ passed' = passed /\ exited' = exited
      /\ aborted' = aborted /\ Top' = Top /\ TopOpen' = TopOpen /\ Connected' = Connected
  BY DEF driver, Top, TopOpen, Connected
<1>2. /\ status[w] # "unborn" /\ s # "unborn" /\ s # "panicked" /\ status[w] \notin Ended
      /\ \A v \in Workers \ {w} : status'[v] = status[v] /\ up'[v] = up[v] /\ down'[v] = down[v]
      /\ status'[w] = s /\ up'[w] = u /\ down'[w] = d
  BY DEF Inv, Typed, Working, Ended
<1>3. /\ \A v \in Workers \ {w} : Stream(v)' = Stream(v)
      /\ Stream(w)' = Heard(w, u)
  BY <1>1, <1>2 DEF Stream, Heard
<1>4. Typed'
  <2>1. s \in Statuses
    BY DEF Statuses, Ended
  <2> QED
    BY <1>1, <2>1 DEF Inv, Typed
<1>5. Forked' => Forked
  <2> SUFFICES ASSUME Forked'
               PROVE  Forked
    OBVIOUS
  <2>1. TopOpen /\ Top \in Workers
    BY <1>1, TopOfStack DEF Forked, TopOpen
  <2>2. CASE Top # w
    BY <1>1, <1>3, <2>1, <2>2 DEF Forked
  <2>3. CASE Top = w
    <3>1. PICK i \in 1..Len(Heard(w, u)) : Heard(w, u)[i].tag = "CHLD"
      BY <1>1, <1>3, <2>3 DEF Forked
    <3>2. w \in Talking
      <4>1. Top = stack[Len(stack)].w /\ Len(stack) \in 1..Len(stack) /\ stack[Len(stack)].fd
        BY <2>1, TopOfStack DEF TopOpen
      <4> QED
        BY <2>3, <4>1 DEF Talking, Connected
    <3>3. s \in Says["CHLD"]
      BY <3>1, <3>2 DEF Consistent
    <3>4. u = up[w]
      BY <3>3 DEF Says
    <3> QED
      BY <2>1, <2>3, <3>1, <3>4 DEF Forked, Stream
  <2> QED
    BY <2>2, <2>3
<1>6. Talking' \subseteq Talking
  BY <1>1, <1>5 DEF Talking
<1>7. ASSUME NEW i \in 1..Len(stack), stack[i].w = w
      PROVE  s # "cut"
  <2>1. i \in DOMAIN stack /\ Len(stack) \in Nat /\ stack # <<>>
    <3>1. stack \in Seq(Process)
      BY DEF Inv, Typed
    <3> QED
      BY <3>1
  <2>2. CASE stack[i].fd
    BY <1>7, <2>1, <2>2 DEF Held
  <2>3. CASE ~stack[i].fd
    <3>1. i = Len(stack)
      BY <2>1, <2>3 DEF Inv, StackInv
    <3>2. ~TopOpen /\ Top = w
      BY <1>7, <2>1, <2>3, <3>1, TopOfStack DEF TopOpen
    <3> QED
      BY <1>2, <2>1, <3>2 DEF Inv, StackInv
  <2> QED
    BY <2>2, <2>3
<1>8. StackInv'
  <2>1. \A i \in 1..Len(stack) : stack[i].w \in Workers
    <3>1. stack \in Seq(Process)
      BY DEF Inv, Typed
    <3>2. \A i \in 1..Len(stack) : stack[i] \in Process
      BY <3>1
    <3> QED
      BY <3>2 DEF Process
  <2>2. \A i, j \in 1..Len(stack) : stack[i].w = stack[j].w => i = j
    BY DEF Inv, StackInv
  <2>3. \A i \in 1..Len(stack) : status'[stack[i].w] \notin {"unborn", "cut"}
    BY <1>2, <1>7, <2>1 DEF Inv, StackInv
  <2>4. \A i \in 1..(Len(stack) - 1) :
          /\ stack[i].fd
          /\ status'[stack[i].w] \in {"forking", "resting", "READ"}
          /\ Reads(up'[stack[i].w])
          /\ status'[stack[i].w] = "READ" => Flushes(down'[stack[i].w])
    <3> TAKE i \in 1..(Len(stack) - 1)
    <3>1. CASE stack[i].w = w
      BY <1>2, <3>1, BelowTop
    <3>2. CASE stack[i].w # w
      BY <1>2, <3>2, BelowTop
    <3> QED
      BY <3>1, <3>2
  <2>5. stack # <<>> /\ ~TopOpen => status'[Top] \in Ended
    <3> SUFFICES ASSUME stack # <<>>, ~TopOpen
                 PROVE  status'[Top] \in Ended
      OBVIOUS
    <3>1. Top \in Workers /\ status[Top] \in Ended
      BY TopOfStack DEF Inv, StackInv
    <3> QED
      BY <1>2, <3>1
  <2>6. (~TopOpen => input = <<>>) /\ (exited => stack = <<>>)
    BY DEF Inv, StackInv
  <2> QED
    BY <1>1, <2>2, <2>3, <2>4, <2>5, <2>6 DEF StackInv
<1>9. ChildInv'
  <2>1. ASSUME Forked'
        PROVE  /\ child[Top] \in Workers
               /\ \A i \in 1..Len(stack) : stack[i].w # child[Top]
               /\ child[Top] \in kept'
               /\ Flushes(down'[child[Top]])
               /\ status'[child[Top]] \in {"computing", "READ", "APND", "dead"}
    <3>1. Forked
      BY <1>5, <2>1
    <3>2. CASE child[Top] = w
      BY <1>2, <3>1, <3>2 DEF Inv, ChildInv
    <3>3. CASE child[Top] # w
      BY <1>2, <3>1, <3>3 DEF Inv, ChildInv
    <3> QED
      BY <3>2, <3>3
  <2>2. \A v \in Workers : child[v] # None => status'[child[v]] # "unborn"
    <3>1. \A v \in Workers : child[v] # None => child[v] \in Workers
      BY DEF Inv, Typed
    <3> QED
      BY <1>2, <3>1 DEF Inv, ChildInv
  <2>3. \A c \in kept' : status'[c] # "cut"
    <3>1. \A c \in kept' : c \in kept /\ c \in Workers
      BY DEF Inv, Typed
    <3> QED
      BY <1>2, <3>1 DEF Inv, ChildInv, Held
  <2>4. \A v, x \in Workers : child[v] = child[x] /\ child[v] # None => v = x
    BY DEF Inv, ChildInv
  <2> QED
    BY <1>1, <2>1, <2>2, <2>3, <2>4 DEF ChildInv
<1>10. AnswersInv'
  BY <1>2 DEF Inv, AnswersInv
<1>11. ASSUME NEW v \in Talking'
       PROVE  Conversation(v)'
  <2>1. v \in Talking /\ v \in Workers
    BY <1>6, TalkingHeld
  <2>2. Conversation(v)
    BY <2>1 DEF Inv
  <2>3. CASE v = w
    BY <1>2, <1>3, <2>1, <2>3 DEF Conversation
  <2>4. CASE v # w
    BY <1>2, <1>3, <2>1, <2>2, <2>4 DEF Conversation
  <2> QED
    BY <2>3, <2>4
<1>12. DescriptorInv'
  BY <1>1 DEF Inv, DescriptorInv, DescriptorsMatch
<1> QED
  BY <1>4, <1>8, <1>9, <1>10, <1>11, <1>12 DEF Inv

(* An answer is the only one, and flushes follow it. *)
LEMMA AnswerTaken ==
  ASSUME NEW s, NEW d \in Seq(Answers), d # <<>>, Awaited(s, d)
  PROVE  /\ Head(d) \in Answers /\ Tail(d) \in Seq(Answers)
         /\ Head(d) # "FLSH" =>
              /\ <<s, Head(d)>> \in Expected \cup {<<"forking", "DONE">>}
              /\ Flushes(Tail(d)) /\ ~Flushes(d)
         /\ Flushes(d) => Flushes(Tail(d))
         /\ Awaited(s, Tail(d))
<1>1. /\ Head(d) \in Answers /\ Tail(d) \in Seq(Answers) /\ Head(d) = d[1]
      /\ Len(d) \in Nat /\ 1 \in 1..Len(d)
      /\ Len(Tail(d)) = Len(d) - 1
      /\ \A i \in 1..Len(Tail(d)) : Tail(d)[i] = d[i + 1]
  BY HeadTailProperties
<1>2. \A i \in 1..Len(Tail(d)) : i + 1 \in 1..Len(d) /\ i + 1 # 1
  BY <1>1
<1>3. Head(d) # "FLSH" =>
        /\ <<s, Head(d)>> \in Expected \cup {<<"forking", "DONE">>}
        /\ Flushes(Tail(d)) /\ ~Flushes(d)
  BY <1>1, <1>2 DEF Awaited, Flushes
<1>4. Flushes(d) => Flushes(Tail(d))
  BY <1>1, <1>2 DEF Flushes
<1>5. ASSUME NEW i \in 1..Len(Tail(d)), Tail(d)[i] # "FLSH"
      PROVE  /\ <<s, Tail(d)[i]>> \in Expected \cup {<<"forking", "DONE">>}
             /\ \A j \in 1..Len(Tail(d)) : j # i => Tail(d)[j] = "FLSH"
  <2>1. i + 1 \in 1..Len(d) /\ d[i + 1] # "FLSH" /\ d[i + 1] = Tail(d)[i]
    BY <1>1, <1>2, <1>5
  <2>2. /\ <<s, d[i + 1]>> \in Expected \cup {<<"forking", "DONE">>}
        /\ \A j \in 1..Len(d) : j # i + 1 => d[j] = "FLSH"
    BY <2>1 DEF Awaited
  <2>3. ASSUME NEW j \in 1..Len(Tail(d)), j # i
        PROVE  Tail(d)[j] = "FLSH"
    <3>1. j + 1 \in 1..Len(d) /\ j + 1 # i + 1 /\ Tail(d)[j] = d[j + 1]
      BY <1>1, <1>2, <2>3
    <3> QED
      BY <2>2, <3>1
  <2> QED
    BY <2>1, <2>2, <2>3
<1>6. Awaited(s, Tail(d))
  BY <1>5 DEF Awaited
<1> QED
  BY <1>1, <1>3, <1>4, <1>6

(* Nobody answers a worker that computes or waits for its child. *)
LEMMA NotAnswered ==
  ASSUME Inv, NEW w \in Workers, status[w] \in {"computing", "resting"}
  PROVE  Flushes(down[w]) /\ \A s : Awaited(s, down[w])
<1>1. Awaited(status[w], down[w])
  BY DEF Inv, AnswersInv, Working
<1>2. \A a : <<status[w], a>> \notin Expected \cup {<<"forking", "DONE">>}
  BY DEF Expected
<1> QED
  BY <1>1, <1>2 DEF Awaited, Flushes

(* A worker that computes has only consumed bytes, one that waits for its    *)
(* child has nothing more to say.                                            *)
LEMMA Spoken ==
  ASSUME Inv, NEW w \in Talking, status[w] \in {"computing", "resting"}
  PROVE  \A i \in 1..Len(Stream(w)) : Stream(w)[i].tag = "SEEN"
<1>1. w \in Workers /\ Stream(w) \in Seq(Word)
  BY TalkingHeld, StreamTyped
<1>2. \A i \in 1..Len(Stream(w)) : Stream(w)[i].tag \in Tags /\ status[w] \in Says[Stream(w)[i].tag]
  <2>1. \A i \in 1..Len(Stream(w)) : Stream(w)[i] \in Word
    BY <1>1
  <2>2. \A i \in 1..Len(Stream(w)) : Stream(w)[i].tag \in Tags
    BY <2>1 DEF Word
  <2> QED
    BY <2>2 DEF Inv, Conversation, Consistent
<1>3. \A t \in Tags : status[w] \in Says[t] => t = "SEEN"
  BY DEF Tags, Says
<1> QED
  BY <1>2, <1>3

(* Tell, Query and Resume: a message is sent by a worker that the driver may *)
(* hear.                                                                     *)
LEMMA SpeaksKeeps ==
  ASSUME Inv, NEW w \in Workers, NEW tag \in {"SEEN", "READ", "APND"},
         NEW s \in Says[tag] \cap Working,
         status[w] = "computing" \/ (status[w] = "resting" /\ tag = "READ"),
         Send(w, Words(w, tag, None)), Becomes(w, s), UNCHANGED <<child, kept, down, driver>>
  PROVE  Inv'
<1> DEFINE m == Words(w, tag, None)
           u == up[w] \o m
<1>1. child[w] \in Workers \cup {None} /\ up[w] \in Seq(Word) /\ down[w] \in Seq(Answers)
  BY DEF Inv, Typed
<1>2. /\ m \in Seq(Word) /\ Messages(w, child[w], m)
      /\ Len(m) = Size[tag] /\ \A i \in 1..Size[tag] : m[i].tag = tag
  <2>1. tag \in Tags /\ tag # "CHLD" /\ None \in Workers \cup {None}
    BY DEF Tags
  <2> HIDE DEF m
  <2>2. \A c \in Workers \cup {None} :
          /\ Words(w, tag, None) \in Seq(Word)
          /\ Len(Words(w, tag, None)) = Size[tag]
          /\ Messages(w, c, Words(w, tag, None))
          /\ \A i \in 1..Size[tag] : Words(w, tag, None)[i].tag = tag
    BY <2>1, WordsMessages
  <2> QED
    BY <1>1, <2>2 DEF m
<1> HIDE DEF m
<1>3. u \in Seq(Word)
  BY <1>1, <1>2
<1>4. /\ Flushes(down[w]) /\ Awaited(s, down[w])
      /\ status' = [status EXCEPT ![w] = s] /\ up' = [up EXCEPT ![w] = u]
      /\ down' = [down EXCEPT ![w] = down[w]] /\ child' = child /\ kept' = kept
      /\ UNCHANGED driver
  BY NotAnswered DEF Becomes, Send, m, Inv, Typed
<1>5. s \in {"computing", "READ", "APND"}
  BY DEF Says, Working
<1>6. ASSUME w \in Talking
      PROVE  Consistent(w, s, child[w], Heard(w, u), down[w])
  <2>1. /\ Stream(w) \in Seq(Word) /\ Messages(w, child[w], Stream(w))
        /\ \A i \in 1..Len(Stream(w)) : Stream(w)[i].tag = "SEEN"
    BY <1>6, StreamTyped, Spoken DEF Inv, Conversation, Consistent
  <2>2. Heard(w, u) = Stream(w) \o m
    <3>1. CASE stack # <<>> /\ w = Top
      <4>1. input \in Seq(Word)
        BY DEF Inv, Typed
      <4>2. (input \o up[w]) \o m = input \o u
        <5> HIDE DEF u
        <5>1. (input \o up[w]) \o m = input \o (up[w] \o m)
          BY <1>1, <1>2, <4>1, ThreeWords, Zenon
        <5> QED
          BY <5>1, Zenon DEF u
      <4> QED
        BY <3>1, <4>2 DEF Heard, Stream
    <3>2. CASE ~(stack # <<>> /\ w = Top)
      BY <3>2 DEF Heard, Stream
    <3> QED
      BY <3>1, <3>2
  <2>3. Messages(w, child[w], Stream(w) \o m)
    BY <1>1, <1>2, <2>1, MessagesSent
  <2>4. \A i \in 1..Len(Stream(w) \o m) : (Stream(w) \o m)[i].tag \in {"SEEN", tag}
    <3>1. /\ Len(Stream(w)) \in Nat /\ Len(m) \in Nat
          /\ Len(Stream(w) \o m) = Len(Stream(w)) + Len(m)
          /\ \A i \in 1..(Len(Stream(w)) + Len(m)) :
               (Stream(w) \o m)[i] = IF i <= Len(Stream(w)) THEN Stream(w)[i]
                                     ELSE m[i - Len(Stream(w))]
      BY <1>2, <2>1, ConcatProperties
    <3> TAKE i \in 1..Len(Stream(w) \o m)
    <3>2. CASE i <= Len(Stream(w))
      BY <2>1, <3>1, <3>2
    <3>3. CASE i > Len(Stream(w))
      <4>1. i - Len(Stream(w)) \in 1..Size[tag]
        BY <1>2, <3>1, <3>3
      <4> QED
        BY <1>2, <3>1, <3>3, <4>1
    <3> QED
      BY <3>1, <3>2, <3>3
  <2>5. s \in Says["SEEN"] /\ s \in Says[tag]
    BY <1>5 DEF Says
  <2> QED
    BY <1>4, <2>2, <2>3, <2>4, <2>5 DEF Consistent
<1>7. ASSUME NEW i \in 1..(Len(stack) - 1), stack[i].w = w
      PROVE  s = "READ" /\ Reads(u)
  <2>1. tag = "READ" /\ Reads(up[w])
    BY <1>7, BelowTop
  <2>2. s = "READ"
    BY <1>5, <2>1 DEF Says
  <2>3. /\ Len(up[w]) \in Nat /\ Len(m) \in Nat /\ Len(u) = Len(up[w]) + Len(m)
        /\ \A j \in 1..(Len(up[w]) + Len(m)) :
             u[j] = IF j <= Len(up[w]) THEN up[w][j] ELSE m[j - Len(up[w])]
    BY <1>1, <1>2, ConcatProperties, SMTT(30)
  <2>4. ASSUME NEW j \in 1..Len(u)
        PROVE  u[j].tag = "READ"
    <3>1. CASE j <= Len(up[w])
      BY <2>1, <2>3, <3>1 DEF Reads
    <3>2. CASE j > Len(up[w])
      <4>1. j - Len(up[w]) \in 1..Size[tag]
        BY <1>2, <2>3, <3>2
      <4> QED
        BY <1>2, <2>1, <2>3, <3>2, <4>1
    <3> QED
      BY <2>3, <3>1, <3>2
  <2> QED
    BY <2>2, <2>4 DEF Reads
<1>8. Forked => child[Top] \in kept'
  BY <1>4 DEF Inv, ChildInv
<1> HIDE DEF u
<1>9. status[w] \in Working /\ s \in Working
  BY DEF Working
<1> QED
  BY <1>1, <1>3, <1>4, <1>5, <1>6, <1>7, <1>8, <1>9, WorkerKeeps

LEMMA TellKeeps ==
  ASSUME Inv, NEW w \in Workers, Tell(w)
  PROVE  Inv'
<1>1. status' = [status EXCEPT ![w] = status[w]]
  BY DEF Tell, Inv, Typed
<1>2. status[w] = "computing" /\ status[w] \in Says["SEEN"] \cap Working
  BY DEF Tell, Says, Working
<1> QED
  BY <1>1, <1>2, SpeaksKeeps DEF Tell, Becomes

LEMMA QueryKeeps ==
  ASSUME Inv, NEW w \in Workers, NEW tag \in {"READ", "APND"}, Query(w, tag)
  PROVE  Inv'
<1>1. tag \in Says[tag] \cap Working
  BY DEF Says, Working
<1> QED
  BY <1>1, SpeaksKeeps DEF Query

(* A worker that only stops, or takes an answer: it says nothing. *)
LEMMA SilentKeeps ==
  ASSUME Inv, NEW w \in Workers, NEW s \in Working \cup {"dead", "cut"}, NEW d \in Seq(Answers),
         UNCHANGED <<child, up, driver>>, kept' \subseteq kept, status[w] \in Working,
         status' = [status EXCEPT ![w] = s], down' = [down EXCEPT ![w] = d],
         Forked => child[Top] \in kept',
         s = "cut" => ~Held(w),
         s \in Working => Awaited(s, d),
         w \in Talking => Consistent(w, s, child[w], Stream(w), d),
         \A i \in 1..(Len(stack) - 1) :
           stack[i].w = w => s \in {"forking", "resting", "READ"} /\ (s = "READ" => Flushes(d)),
         Forked /\ w = child[Top] =>
           s \in {"computing", "READ", "APND", "dead"} /\ Flushes(d)
  PROVE  Inv'
<1>1. up[w] \in Seq(Word) /\ up' = [up EXCEPT ![w] = up[w]]
  BY DEF Inv, Typed
<1>2. w \in Talking => Consistent(w, s, child[w], Heard(w, up[w]), d)
  BY DEF Stream
<1>3. \A i \in 1..(Len(stack) - 1) :
        stack[i].w = w => /\ s \in {"forking", "resting", "READ"}
                          /\ Reads(up[w]) /\ (s = "READ" => Flushes(d))
  BY BelowTop
<1> QED
  BY <1>1, <1>2, <1>3, WorkerKeeps

(* A worker that releases its child is not the one that the driver waits for. *)
LEMMA Released ==
  ASSUME Inv, NEW w \in Workers, w = Top => ~Forked
  PROVE  Forked => child[Top] \in kept \ {child[w]}
<1> SUFFICES ASSUME Forked
             PROVE  child[Top] \in kept /\ child[Top] # child[w]
  OBVIOUS
<1>1. Top \in Workers /\ Top # w
  BY ForkedWaits
<1>2. child[Top] \in Workers /\ child[Top] \in kept
  BY DEF Inv, ChildInv
<1> QED
  BY <1>1, <1>2, ChannelAssumption DEF Inv, ChildInv

LEMMA FinishKeeps ==
  ASSUME Inv, NEW w \in Workers, Finish(w)
  PROVE  Inv'
<1>1. /\ status[w] = "computing" /\ status[w] \in Working /\ "dead" \notin Working
      /\ down[w] \in Seq(Answers) /\ Flushes(down[w])
      /\ status' = [status EXCEPT ![w] = "dead"] /\ down' = [down EXCEPT ![w] = down[w]]
      /\ kept' = kept \ {child[w]} /\ UNCHANGED <<child, up, driver>>
  BY NotAnswered DEF Finish, Ends, Becomes, Working, Inv, Typed
<1>2. Forked => child[Top] \in kept'
  BY <1>1, ForkedWaits, Released
<1>3. w \in Talking => Consistent(w, "dead", child[w], Stream(w), down[w])
  <2> SUFFICES ASSUME w \in Talking
               PROVE  Consistent(w, "dead", child[w], Stream(w), down[w])
    OBVIOUS
  <2>1. \A i \in 1..Len(Stream(w)) : Stream(w)[i].tag = "SEEN"
    BY <1>1, Spoken
  <2>2. "dead" \in Says["SEEN"]
    BY DEF Says
  <2> QED
    BY <2>1, <2>2 DEF Inv, Conversation, Consistent
<1>4. \A i \in 1..(Len(stack) - 1) : stack[i].w # w
  BY <1>1, BelowTop
<1> QED
  BY <1>1, <1>2, <1>3, <1>4, SilentKeeps

(* A worker that is answered has nothing more to say, and the answer is for  *)
(* a worker that is on top of the stack.                                     *)
LEMMA Answered ==
  ASSUME Inv, NEW w \in Workers, ~Flushes(down[w])
  PROVE  /\ w \in Talking => Stream(w) = <<>>
         /\ w = Top => ~Forked
         /\ ~(Forked /\ w = child[Top])
         /\ \A i \in 1..(Len(stack) - 1) : stack[i].w = w => status[w] # "READ"
<1>1. w \in Talking => Stream(w) = <<>>
  BY DEF Inv, Conversation, Consistent
<1>2. w = Top => ~Forked
  BY ForkedWaits
<1>3. ~(Forked /\ w = child[Top])
  BY DEF Inv, ChildInv
<1> QED
  BY <1>1, <1>2, <1>3, BelowTop

(* Nothing to read: a worker can do anything. *)
LEMMA NothingSaid ==
  ASSUME NEW w \in Workers, NEW s, NEW c, NEW d
  PROVE  Consistent(w, s, c, <<>>, d)
BY DEF Consistent, Messages

(* A FLSH is skipped. *)
LEMMA FlushKeeps ==
  ASSUME Inv, NEW w \in Workers, status[w] \in Working, down[w] # <<>>, Head(down[w]) = "FLSH",
         down' = [down EXCEPT ![w] = Tail(@)], UNCHANGED <<status, child, kept, up, driver>>
  PROVE  Inv'
<1>1. /\ down[w] \in Seq(Answers) /\ Awaited(status[w], down[w])
      /\ status' = [status EXCEPT ![w] = status[w]] /\ kept' = kept
      /\ status[w] \in Working \cup {"dead", "cut"} /\ status[w] # "cut"
  BY DEF Inv, Typed, AnswersInv, Working
<1>2. /\ Tail(down[w]) \in Seq(Answers) /\ Awaited(status[w], Tail(down[w]))
      /\ Flushes(down[w]) => Flushes(Tail(down[w]))
  BY <1>1, AnswerTaken
<1>3. Forked => child[Top] \in kept'
  BY <1>1 DEF Inv, ChildInv
<1>4. w \in Talking => Consistent(w, status[w], child[w], Stream(w), Tail(down[w]))
  BY <1>2 DEF Inv, Conversation, Consistent
<1>5. \A i \in 1..(Len(stack) - 1) :
        stack[i].w = w => /\ status[w] \in {"forking", "resting", "READ"}
                          /\ status[w] = "READ" => Flushes(Tail(down[w]))
  BY <1>2, BelowTop
<1>6. Forked /\ w = child[Top] =>
        status[w] \in {"computing", "READ", "APND", "dead"} /\ Flushes(Tail(down[w]))
  BY <1>2 DEF Inv, ChildInv
<1> QED
  BY <1>1, <1>2, <1>3, <1>4, <1>5, <1>6, SilentKeeps

(* Acked: the parent skips FLSH, and releases the socket when it is told so. *)
LEMMA AckedKeeps ==
  ASSUME Inv, NEW w \in Workers, Acked(w)
  PROVE  Inv'
<1>1. /\ status[w] = "forking" /\ status[w] \in Working
      /\ down[w] # <<>> /\ down[w] \in Seq(Answers) /\ Awaited("forking", down[w])
      /\ down' = [down EXCEPT ![w] = Tail(down[w])] /\ UNCHANGED <<child, up, driver>>
  BY DEF Acked, Inv, Typed, AnswersInv, Working
<1>2. CASE Head(down[w]) = "FLSH"
  BY <1>1, <1>2, FlushKeeps DEF Acked
<1>3. CASE Head(down[w]) # "FLSH"
  <2>1. /\ Head(down[w]) = "DONE" /\ ~Flushes(down[w])
        /\ Tail(down[w]) \in Seq(Answers) /\ Flushes(Tail(down[w]))
    <3>1. <<"forking", Head(down[w])>> \in Expected \cup {<<"forking", "DONE">>}
      BY <1>1, <1>3, AnswerTaken
    <3>2. Head(down[w]) = "DONE"
      BY <3>1 DEF Expected
    <3> QED
      BY <1>1, <1>3, <3>2, AnswerTaken
  <2>2. status' = [status EXCEPT ![w] = "resting"] /\ kept' = kept \ {child[w]}
    BY <2>1 DEF Acked, Becomes
  <2>3. Forked => child[Top] \in kept'
    BY <2>1, <2>2, Answered, Released
  <2>4. w \in Talking => Consistent(w, "resting", child[w], Stream(w), Tail(down[w]))
    BY <2>1, Answered, NothingSaid
  <2>5. Awaited("resting", Tail(down[w])) /\ "resting" \in Working
    BY <2>1 DEF Awaited, Flushes, Working
  <2>6. ~(Forked /\ w = child[Top])
    BY <2>1, Answered
  <2> QED
    BY <1>1, <2>1, <2>2, <2>3, <2>4, <2>5, <2>6, SilentKeeps
<1> QED
  BY <1>2, <1>3

LEMMA ResumeKeeps ==
  ASSUME Inv, NEW w \in Workers, Resume(w)
  PROVE  Inv'
<1>1. /\ status[w] = "resting" /\ status[w] \in Working /\ "READ" \in Says["READ"] \cap Working
      /\ status' = [status EXCEPT ![w] = "READ"] /\ UNCHANGED <<child, kept, down, driver>>
  BY DEF Resume, Becomes, Working, Says
<1>2. CASE Held(w)
  BY <1>1, <1>2, SpeaksKeeps DEF Resume, Becomes
<1>3. CASE ~Held(w)
  <2>1. /\ up' = up /\ down[w] \in Seq(Answers) /\ down' = [down EXCEPT ![w] = down[w]]
        /\ Flushes(down[w]) /\ Awaited("READ", down[w])
    BY <1>1, <1>3, NotAnswered DEF Resume, Inv, Typed
  <2>2. w \notin Talking
    BY <1>3, TalkingHeld
  <2>3. Forked => child[Top] \in kept'
    BY <1>1 DEF Inv, ChildInv
  <2> QED
    BY <1>1, <2>1, <2>2, <2>3, SilentKeeps
<1> QED
  BY <1>2, <1>3

LEMMA CutOffKeeps ==
  ASSUME Inv, NEW w \in Workers, CutOff(w)
  PROVE  Inv'
<1>1. /\ status[w] \in Working \ {"resting"} /\ ~Held(w) /\ "cut" \notin Working
      /\ down[w] \in Seq(Answers) /\ down' = [down EXCEPT ![w] = down[w]]
      /\ status' = [status EXCEPT ![w] = "cut"] /\ kept' = kept \ {child[w]}
      /\ UNCHANGED <<child, up, driver>>
  BY DEF CutOff, Ends, Becomes, Working, Inv, Typed
<1>2. w \notin Talking
  BY <1>1, TalkingHeld
<1>3. \A i \in 1..(Len(stack) - 1) : stack[i].w # w
  BY <1>2, BelowTop
<1>4. Forked => child[Top] \in kept'
  BY <1>1, <1>2, ForkedWaits, Released
<1>5. ~(Forked /\ w = child[Top])
  BY <1>2 DEF Talking
<1> QED
  BY <1>1, <1>2, <1>3, <1>4, <1>5, SilentKeeps

(* A fork: the child is born, and the end of its socket is sent. *)
LEMMA ForkKeeps ==
  ASSUME Inv, NEW w \in Workers, NEW c \in Unborn,
         status[w] = "READ", down[w] # <<>>, Head(down[w]) = "FORK",
         down' = [down EXCEPT ![w] = Tail(@)],
         status' = [status EXCEPT ![w] = "forking", ![c] = "computing"],
         child' = [child EXCEPT ![w] = c], kept' = kept \cup {c},
         Send(w, Words(w, "CHLD", c)), UNCHANGED driver
  PROVE  Inv'
<1> DEFINE m == Words(w, "CHLD", c)
           u == up[w] \o m
<1>1. /\ c \in Workers /\ status[c] = "unborn" /\ c # w /\ c # None
      /\ up[c] = <<>> /\ down[c] = <<>>
      /\ up[w] \in Seq(Word) /\ down[w] \in Seq(Answers) /\ Awaited("READ", down[w])
  BY ChannelAssumption DEF Unborn, Inv, Typed, AnswersInv, Working
<1>2. /\ ~Flushes(down[w]) /\ Tail(down[w]) \in Seq(Answers) /\ Flushes(Tail(down[w]))
      /\ Awaited("forking", Tail(down[w]))
  <2>1. ~Flushes(down[w]) /\ Tail(down[w]) \in Seq(Answers) /\ Flushes(Tail(down[w]))
    BY <1>1, AnswerTaken
  <2> QED
    BY <2>1 DEF Awaited, Flushes
<1>3. /\ w \in Talking => Stream(w) = <<>>
      /\ w = Top => ~Forked
      /\ ~(Forked /\ w = child[Top])
      /\ \A i \in 1..(Len(stack) - 1) : stack[i].w # w
  BY <1>2, Answered
<1>4. /\ m \in Seq(Word) /\ Messages(w, c, m) /\ Len(m) = 2
      /\ \A i \in 1..2 : m[i].tag = "CHLD"
  <2>1. "CHLD" \in Tags /\ Size["CHLD"] = 2 /\ c \in Workers \cup {None}
    BY <1>1, Sizes DEF Tags
  <2> HIDE DEF m
  <2>2. \A t \in Tags, x \in Workers \cup {None} :
          t = "CHLD" =>
            /\ Words(w, t, x) \in Seq(Word)
            /\ Len(Words(w, t, x)) = Size[t]
            /\ Messages(w, x, Words(w, t, x))
            /\ \A i \in 1..Size[t] : Words(w, t, x)[i].tag = t
    BY WordsMessages
  <2> QED
    BY <2>1, <2>2, ZenonT(30) DEF m
<1> HIDE DEF m
<1>5. u \in Seq(Word)
  BY <1>1, <1>4
<1>6. /\ stack' = stack /\ input' = input /\ passed' = passed /\ exited' = exited
      /\ aborted' = aborted /\ Top' = Top /\ TopOpen' = TopOpen /\ Connected' = Connected
  BY DEF driver, Top, TopOpen, Connected
<1>7. /\ \A v \in Workers \ {w, c} : status'[v] = status[v]
      /\ \A v \in Workers \ {w} : up'[v] = up[v] /\ down'[v] = down[v] /\ child'[v] = child[v]
      /\ status'[w] = "forking" /\ up'[w] = u /\ down'[w] = Tail(down[w]) /\ child'[w] = c
      /\ status'[c] = "computing"
  BY <1>1 DEF Send, m, Inv, Typed
<1> HIDE DEF u
<1>8. /\ \A v \in Workers \ {w} : Stream(v)' = Stream(v)
      /\ Stream(w)' = Heard(w, u)
  BY <1>6, <1>7 DEF Stream, Heard
<1>9. Typed'
  <2>1. {"forking", "computing"} \subseteq Statuses
    BY DEF Statuses, Working
  <2>2. status' \in [Workers -> Statuses]
    BY <2>1 DEF Inv, Typed
  <2>3. child' \in [Workers -> Workers \cup {None}] /\ kept' \subseteq Workers
    BY <1>1 DEF Inv, Typed
  <2>4. up' \in [Workers -> Seq(Word)] /\ down' \in [Workers -> Seq(Answers)]
    BY <1>2, <1>5 DEF Inv, Typed, Send, u, m
  <2> QED
    BY <1>6, <2>2, <2>3, <2>4 DEF Inv, Typed
<1>10. ASSUME NEW i \in 1..Len(stack)
       PROVE  stack[i].w \in Workers /\ stack[i].w # c
  <2>1. stack \in Seq(Process)
    BY DEF Inv, Typed
  <2>2. stack[i] \in Process
    BY <2>1
  <2> QED
    BY <1>1, <2>2 DEF Process, Inv, StackInv
<1>11. c # Top \/ stack = <<>>
  BY <1>10, TopOfStack
<1>12. StackInv'
  <2>1. \A i, j \in 1..Len(stack) : stack[i].w = stack[j].w => i = j
    BY DEF Inv, StackInv
  <2>2. \A i \in 1..Len(stack) : status'[stack[i].w] \notin {"unborn", "cut"}
    BY <1>7, <1>10, ZenonT(30) DEF Inv, StackInv
  <2>3. \A i \in 1..(Len(stack) - 1) :
          /\ stack[i].fd
          /\ status'[stack[i].w] \in {"forking", "resting", "READ"}
          /\ Reads(up'[stack[i].w])
          /\ status'[stack[i].w] = "READ" => Flushes(down'[stack[i].w])
    <3> TAKE i \in 1..(Len(stack) - 1)
    <3>1. stack[i].w \in Workers \ {w, c} /\ stack[i].w # w
      BY <1>3, <1>10, BelowTop
    <3> QED
      BY <1>7, <3>1, BelowTop
  <2>4. stack # <<>> /\ ~TopOpen => status'[Top] \in Ended
    <3> SUFFICES ASSUME stack # <<>>, ~TopOpen
                 PROVE  status'[Top] \in Ended
      OBVIOUS
    <3>1. Top \in Workers /\ status[Top] \in Ended
      BY TopOfStack DEF Inv, StackInv
    <3>2. Top # w /\ Top # c
      BY <1>1, <3>1 DEF Ended
    <3> QED
      BY <1>7, <3>1, <3>2
  <2>5. (~TopOpen => input = <<>>) /\ (exited => stack = <<>>)
    BY DEF Inv, StackInv
  <2> QED
    BY <1>6, <2>1, <2>2, <2>3, <2>4, <2>5 DEF StackInv
<1>13. /\ \A v, x \in Workers : child'[v] = child'[x] /\ child'[v] # None => v = x
       /\ \A v \in Workers : child'[v] # None => status'[child'[v]] # "unborn"
       /\ \A v \in kept' : status'[v] # "cut"
  <2>1. \A v \in Workers : child[v] # None => child[v] \in Workers /\ child[v] # c
    BY <1>1 DEF Inv, ChildInv, Typed
  <2>2. \A v, x \in Workers : child'[v] = child'[x] /\ child'[v] # None => v = x
    BY <1>1, <1>7, <2>1 DEF Inv, ChildInv
  <2>3. ASSUME NEW v \in Workers, child'[v] # None
        PROVE  status'[child'[v]] # "unborn"
    <3>1. CASE v = w
      BY <1>7, <3>1
    <3>2. CASE v # w
      <4>1. /\ child'[v] = child[v] /\ child[v] \in Workers /\ child[v] # c
            /\ status[child[v]] # "unborn"
        BY <1>7, <2>1, <2>3, <3>2 DEF Inv, ChildInv
      <4> QED
        BY <1>7, <4>1, ZenonT(30)
    <3> QED
      BY <3>1, <3>2
  <2>4. \A v \in kept' : status'[v] # "cut"
    BY <1>7 DEF Inv, ChildInv, Typed
  <2> QED
    BY <2>2, <2>3, <2>4
<1>14. AnswersInv'
  <2>1. \A s : Awaited(s, <<>>)
    BY DEF Awaited
  <2> QED
    BY <1>1, <1>2, <1>7, <2>1, ZenonT(30) DEF Inv, AnswersInv
<1>15. DescriptorInv'
  BY <1>6 DEF Inv, DescriptorInv, DescriptorsMatch
<1>16. CASE stack # <<>> /\ w = Top
  <2>1. TopOpen /\ w \in Talking /\ w \in Connected
    <3>1. TopOpen
      BY <1>16 DEF Inv, StackInv, Ended
    <3> QED
      BY <1>16, <3>1, TopOfStack DEF TopOpen, Talking, Connected
  <2>2. Stream(w) = <<>> /\ ~Forked
    BY <1>3, <1>16, <2>1
  <2>3. Heard(w, u) = m
    <3>1. input \in Seq(Word) /\ Len(Stream(w)) = Len(input) + Len(up[w])
      BY <1>1, <1>16, TopOfStack
    <3>2. input = <<>> /\ up[w] = <<>>
      <4> DEFINE a == Len(input)
                 b == Len(up[w])
      <4>1. a \in Nat /\ b \in Nat /\ a + b = 0
        BY <1>1, <2>2, <3>1
      <4> HIDE DEF a, b
      <4>2. a = 0 /\ b = 0
        BY <4>1
      <4> QED
        BY <1>1, <3>1, <4>2 DEF a, b
    <3> QED
      BY <1>4, <3>2, ConcatEmptySeq DEF Heard, u
  <2>4. Forked'
    <3>1. Stream(Top)' = m
      BY <1>6, <1>8, <1>16, <2>3
    <3>2. 1 \in 1..Len(m) /\ m[1].tag = "CHLD"
      BY <1>4
    <3> QED
      BY <1>6, <2>1, <3>1, <3>2 DEF Forked
  <2>5. Talking' = Connected \cup {c}
    BY <1>6, <1>7, <1>16, <2>4 DEF Talking
  <2>6. ChildInv'
    <3>1. c \in Workers /\ c \in kept' /\ Flushes(down'[c]) /\ status'[c] = "computing"
      BY <1>1, <1>7 DEF Flushes
    <3>2. \A i \in 1..Len(stack) : stack[i].w # c
      BY <1>10
    <3>3. stack' = stack /\ child'[Top'] = c
      BY <1>6, <1>7, <1>16
    <3> QED
      BY <1>13, <3>1, <3>2, <3>3 DEF ChildInv
  <2>7. ASSUME NEW v \in Talking'
        PROVE  Conversation(v)'
    <3>1. CASE v = w
      <4>1. "forking" \in Says["CHLD"]
        BY DEF Says
      <4>2. Consistent(w, "forking", c, m, Tail(down[w]))
        BY <1>2, <1>4, <4>1 DEF Consistent
      <4> QED
        BY <1>7, <1>8, <2>3, <3>1, <4>2 DEF Conversation
    <3>2. CASE v = c
      <4>1. Stream(v)' = <<>>
        BY <1>1, <1>8, <1>11, <1>16, <3>2 DEF Stream, Heard
      <4> QED
        BY <1>1, <3>2, <4>1, NothingSaid DEF Conversation
    <3>3. CASE v # w /\ v # c
      <4>1. v \in Talking /\ v \in Workers
        BY <2>5, <3>3, TalkingHeld DEF Talking
      <4> QED
        BY <1>7, <1>8, <3>3, <4>1 DEF Inv, Conversation
    <3> QED
      BY <3>1, <3>2, <3>3
  <2> QED
    BY <1>9, <1>12, <1>14, <1>15, <2>6, <2>7 DEF Inv
<1>17. CASE ~(stack # <<>> /\ w = Top)
  <2>1. w \notin Talking
    <3>1. w \notin Connected
      <4> SUFFICES ASSUME NEW i \in 1..Len(stack), stack[i].w = w
                   PROVE  FALSE
        BY DEF Connected
      <4>1. stack # <<>> /\ Len(stack) \in Nat
        <5>1. stack \in Seq(Process)
          BY DEF Inv, Typed
        <5> QED
          BY <5>1
      <4>2. i = Len(stack)
        BY <1>3, <4>1
      <4> QED
        BY <1>17, <4>1, <4>2, TopOfStack
    <3> QED
      BY <1>3, <3>1 DEF Talking
  <2>2. Forked' <=> Forked
    <3>1. TopOpen => Top \in Workers /\ Top # w
      BY <1>17, TopOfStack DEF TopOpen
    <3> QED
      BY <1>6, <1>8, <3>1 DEF Forked
  <2>3. Forked => Top \in Workers /\ Top # w /\ child[Top] \in Workers /\ child[Top] # w
                  /\ child[Top] # c
    BY <1>1, <1>17, <2>1, TopOfStack DEF Forked, TopOpen, Talking, Inv, ChildInv
  <2>4. Talking' = Talking /\ (Forked => child'[Top] = child[Top])
    BY <1>6, <1>7, <2>2, <2>3 DEF Talking
  <2>5. ChildInv'
    <3>1. ASSUME Forked
          PROVE  /\ child'[Top] \in Workers
                 /\ \A i \in 1..Len(stack) : stack[i].w # child'[Top]
                 /\ child'[Top] \in kept'
                 /\ Flushes(down'[child'[Top]])
                 /\ status'[child'[Top]] \in {"computing", "READ", "APND", "dead"}
      <4> DEFINE x == child[Top]
      <4>1. x \in Workers /\ x # w /\ x # c /\ child'[Top] = x
        BY <2>3, <2>4, <3>1
      <4>2. /\ \A i \in 1..Len(stack) : stack[i].w # x
            /\ x \in kept /\ Flushes(down[x])
            /\ status[x] \in {"computing", "READ", "APND", "dead"}
        BY <3>1 DEF Inv, ChildInv
      <4> HIDE DEF x
      <4>3. x \in Workers \ {w, c} /\ x \in Workers \ {w}
        BY <4>1
      <4>4. status'[x] = status[x] /\ down'[x] = down[x]
        BY <1>7, <4>3
      <4>5. x \in kept'
        BY <4>2
      <4> QED
        BY <4>1, <4>2, <4>4, <4>5
    <3> QED
      BY <1>6, <1>13, <2>2, <3>1 DEF ChildInv
  <2>6. ASSUME NEW v \in Talking'
        PROVE  Conversation(v)'
    <3>1. v \in Talking /\ v \in Workers \ {w} /\ v # c
      BY <1>1, <2>1, <2>4, TalkingHeld
    <3> QED
      BY <1>7, <1>8, <3>1 DEF Inv, Conversation
  <2> QED
    BY <1>9, <1>12, <1>14, <1>15, <2>5, <2>6 DEF Inv
<1> QED
  BY <1>16, <1>17

LEMMA ReceiveKeeps ==
  ASSUME Inv, NEW w \in Workers, Receive(w)
  PROVE  Inv'
<1>1. /\ status[w] \in {"READ", "APND"} /\ status[w] \in Working
      /\ down[w] # <<>> /\ down[w] \in Seq(Answers) /\ Awaited(status[w], down[w])
      /\ down' = [down EXCEPT ![w] = Tail(@)] /\ UNCHANGED driver
  BY DEF Receive, Inv, Typed, AnswersInv, Working
<1>2. Head(down[w]) # "FLSH" => <<status[w], Head(down[w])>> \in Expected
  BY <1>1, AnswerTaken
<1>3. CASE Head(down[w]) = "FLSH" /\ UNCHANGED <<status, child, kept, up>>
  BY <1>1, <1>3, FlushKeeps
<1>4. CASE /\ <<status[w], Head(down[w])>> \in Expected \ {<<"READ", "FORK">>}
           /\ Becomes(w, "computing") /\ UNCHANGED <<child, kept, up>>
  <2>1. /\ Head(down[w]) # "FLSH" /\ ~Flushes(down[w])
        /\ Tail(down[w]) \in Seq(Answers) /\ Flushes(Tail(down[w]))
    <3>1. Head(down[w]) # "FLSH"
      BY <1>4 DEF Expected
    <3> QED
      BY <1>1, <3>1, AnswerTaken
  <2>2. status' = [status EXCEPT ![w] = "computing"] /\ kept' = kept
    BY <1>4 DEF Becomes
  <2>3. w \in Talking => Consistent(w, "computing", child[w], Stream(w), Tail(down[w]))
    BY <2>1, Answered, NothingSaid
  <2>4. Awaited("computing", Tail(down[w])) /\ "computing" \in Working
    BY <2>1 DEF Awaited, Flushes, Working
  <2>5. \A i \in 1..(Len(stack) - 1) : stack[i].w # w
    BY <1>1, <2>1, Answered, BelowTop
  <2>6. ~(Forked /\ w = child[Top])
    BY <2>1, Answered
  <2>7. Forked => child[Top] \in kept'
    BY <2>2 DEF Inv, ChildInv
  <2> QED
    BY <1>1, <1>4, <2>1, <2>2, <2>3, <2>4, <2>5, <2>6, <2>7, SilentKeeps
<1>5. CASE \E c \in Unborn :
             /\ status[w] = "READ" /\ Head(down[w]) = "FORK"
             /\ status' = [status EXCEPT ![w] = "forking", ![c] = "computing"]
             /\ child' = [child EXCEPT ![w] = c] /\ kept' = kept \cup {c}
             /\ Send(w, Words(w, "CHLD", c))
  BY <1>1, <1>5, ForkKeeps
<1> QED
  BY <1>2, <1>3, <1>4, <1>5 DEF Receive

-----------------------------------------------------------------------------
(* The driver reads and answers *)

LEMMA MinOfTwo ==
  ASSUME NEW a \in Int, NEW b \in Int
  PROVE  Min({a, b}) \in Int /\ Min({a, b}) <= a /\ Min({a, b}) <= b
<1> DEFINE S == {a, b}
<1>1. \E x \in S : \A y \in S : x =< y
  BY SMT
<1>2. Min(S) \in S /\ \A y \in S : Min(S) =< y
  BY <1>1 DEF Min
<1> QED
  BY <1>2

LEMMA FlushAppended ==
  ASSUME NEW s, NEW d \in Seq(Answers)
  PROVE  /\ Append(d, "FLSH") \in Seq(Answers)
         /\ Awaited(s, d) => Awaited(s, Append(d, "FLSH"))
         /\ Flushes(d) => Flushes(Append(d, "FLSH"))
<1> DEFINE e == Append(d, "FLSH")
<1>1. /\ e \in Seq(Answers) /\ Len(d) \in Nat /\ Len(e) = Len(d) + 1
      /\ \A i \in 1..Len(d) : e[i] = d[i]
      /\ e[Len(d) + 1] = "FLSH"
  BY AppendProperties DEF Answers
<1> HIDE DEF e
<1>2. \A i \in 1..Len(e) : e[i] = "FLSH" \/ (i \in 1..Len(d) /\ e[i] = d[i])
  BY <1>1
<1>3. Flushes(d) => Flushes(e)
  BY <1>2 DEF Flushes
<1>4. Awaited(s, d) => Awaited(s, e)
  BY <1>2 DEF Awaited
<1> QED
  BY <1>1, <1>3, <1>4 DEF e

LEMMA AnswerAppended ==
  ASSUME NEW s, NEW a \in Answers, NEW d \in Seq(Answers), Flushes(d),
         <<s, a>> \in Expected \cup {<<"forking", "DONE">>}
  PROVE  Append(d, a) \in Seq(Answers) /\ Awaited(s, Append(d, a))
<1> DEFINE e == Append(d, a)
<1>1. /\ e \in Seq(Answers) /\ Len(d) \in Nat /\ Len(e) = Len(d) + 1
      /\ \A i \in 1..Len(d) : e[i] = d[i]
      /\ e[Len(d) + 1] = a
  BY AppendProperties
<1> HIDE DEF e
<1>2. \A i \in 1..Len(e) : e[i] = "FLSH" \/ (i = Len(d) + 1 /\ e[i] = a)
  BY <1>1 DEF Flushes
<1>3. Awaited(s, e)
  BY <1>2 DEF Awaited
<1> QED
  BY <1>1, <1>3 DEF e

(* What is read of the top worker and what is not are a part of what it said *)
(* that can still be heard, and it is answered only when nothing is left.    *)
LEMMA HeardKeeps ==
  ASSUME Inv, Listening, NEW i \in Seq(Word), NEW u \in Seq(Word), NEW d \in Seq(Answers),
         UNCHANGED <<stack, status, child, kept, exited>>,
         input' = i, up' = [up EXCEPT ![Top] = u], down' = [down EXCEPT ![Top] = d],
         Len(i) <= BufSize,
         Consistent(Top, status[Top], child[Top], i \o u, d),
         status[Top] \in Working => Awaited(status[Top], d),
         (\E k \in 1..Len(i \o u) : (i \o u)[k].tag = "CHLD") => Forked,
         passed' \in Workers \cup {None},
         aborted' \in {"no", "peek", "two descriptors", "no descriptor"},
         DescriptorInv'
  PROVE  Inv'
<1>1. /\ stack # <<>> /\ TopOpen /\ Top \in Workers /\ Top \in Talking
      /\ Top' = Top /\ TopOpen' = TopOpen /\ Connected' = Connected
  <2>1. stack # <<>> /\ TopOpen
    BY DEF Listening, TopOpen
  <2>2. Top \in Workers /\ Top = stack[Len(stack)].w /\ Len(stack) \in 1..Len(stack) /\ stack[Len(stack)].fd
    BY <2>1, TopOfStack DEF TopOpen
  <2>3. Top \in Talking
    BY <2>2 DEF Talking, Connected
  <2>4. Top' = Top /\ TopOpen' = TopOpen /\ Connected' = Connected
    BY DEF Top, TopOpen, Connected
  <2> QED
    BY <2>1, <2>2, <2>3, <2>4
<1>2. /\ \A v \in Workers \ {Top} : up'[v] = up[v] /\ down'[v] = down[v]
      /\ up'[Top] = u /\ down'[Top] = d
  BY <1>1 DEF Inv, Typed
<1>3. /\ \A v \in Workers \ {Top} : Stream(v)' = Stream(v)
      /\ Stream(Top)' = i \o u
  BY <1>1, <1>2 DEF Stream, Heard
<1>4. Typed'
  BY DEF Inv, Typed
<1>5. Forked' => Forked
  BY <1>1, <1>3 DEF Forked
<1>6. Talking' \subseteq Talking
  BY <1>1, <1>5 DEF Talking
<1>7. StackInv'
  <2>1. \A k \in 1..(Len(stack) - 1) :
          /\ stack[k].fd
          /\ status[stack[k].w] \in {"forking", "resting", "READ"}
          /\ Reads(up'[stack[k].w])
          /\ status[stack[k].w] = "READ" => Flushes(down'[stack[k].w])
    BY <1>2, BelowTop
  <2>2. /\ \A k, j \in 1..Len(stack) : stack[k].w = stack[j].w => k = j
        /\ \A k \in 1..Len(stack) : status[stack[k].w] \notin {"unborn", "cut"}
        /\ exited => stack = <<>>
    BY DEF Inv, StackInv
  <2> QED
    BY <1>1, <2>1, <2>2 DEF StackInv
<1>8. ChildInv'
  <2>1. ASSUME Forked
        PROVE  Flushes(down'[child[Top]])
    <3>1. child[Top] \in Workers /\ Flushes(down[child[Top]])
      BY <2>1 DEF Inv, ChildInv
    <3>2. child[Top] # Top
      <4>1. Top = stack[Len(stack)].w /\ Len(stack) \in 1..Len(stack)
        BY <1>1, TopOfStack
      <4> QED
        BY <2>1, <4>1 DEF Inv, ChildInv
    <3> QED
      BY <1>2, <3>1, <3>2
  <2>2. stack' = stack /\ child' = child /\ kept' = kept /\ status' = status
    OBVIOUS
  <2> QED
    BY <1>1, <1>5, <2>1, <2>2 DEF Inv, ChildInv
<1>9. AnswersInv'
  <2>1. status[Top] # "unborn"
    BY <1>1, TalkingHeld
  <2> QED
    BY <1>1, <1>2, <2>1 DEF Inv, AnswersInv
<1>10. ASSUME NEW v \in Talking'
       PROVE  Conversation(v)'
  <2>1. v \in Workers /\ Conversation(v)
    BY <1>6, TalkingHeld DEF Inv
  <2>2. CASE v = Top
    BY <1>1, <1>2, <1>3, <2>2 DEF Conversation
  <2>3. CASE v # Top
    BY <1>2, <1>3, <2>1, <2>3 DEF Conversation
  <2> QED
    BY <2>2, <2>3
<1> QED
  BY <1>4, <1>7, <1>8, <1>9, <1>10 DEF Inv

LEMMA AskFlushKeeps ==
  ASSUME Inv, AskFlush
  PROVE  Inv'
<1>1. /\ Listening /\ stack # <<>> /\ Top \in Workers /\ Top \in Talking /\ TopOpen
      /\ input \in Seq(Word) /\ up[Top] \in Seq(Word) /\ down[Top] \in Seq(Answers)
      /\ Len(input) <= BufSize /\ Stream(Top) = input \o up[Top]
  BY TopOfStack, StreamTyped DEF AskFlush, Listening, TopOpen, Talking, Connected, Inv, Typed
<1> DEFINE d == Append(down[Top], "FLSH")
<1>2. d \in Seq(Answers) /\ down' = [down EXCEPT ![Top] = d]
  BY <1>1, FlushAppended DEF AskFlush, Reply
<1>3. Consistent(Top, status[Top], child[Top], input \o up[Top], d)
  BY <1>1, FlushAppended DEF Inv, Conversation, Consistent
<1>4. status[Top] \in Working => Awaited(status[Top], d)
  BY <1>1, FlushAppended DEF Inv, AnswersInv
<1>5. (\E k \in 1..Len(input \o up[Top]) : (input \o up[Top])[k].tag = "CHLD") => Forked
  BY <1>1 DEF Forked
<1>6. DescriptorInv'
  BY DEF AskFlush, Inv, DescriptorInv, DescriptorsMatch
<1>7. up' = [up EXCEPT ![Top] = up[Top]]
  BY DEF AskFlush, Inv, Typed
<1>8. /\ input' = input /\ UNCHANGED <<stack, status, child, kept, exited>>
      /\ passed' \in Workers \cup {None}
      /\ aborted' \in {"no", "peek", "two descriptors", "no descriptor"}
  BY DEF AskFlush, Inv, Typed
<1> HIDE DEF d
<1> QED
  BY <1>1, <1>2, <1>3, <1>4, <1>5, <1>6, <1>7, <1>8, HeardKeeps

(* read_: the descriptor that is kept is that of the CHLD that was received. *)
LEMMA DescriptorKept ==
  ASSUME Inv, Listening, NEW n \in 0..Len(Avail), NEW m \in n..Len(Avail), Len(input) <= m,
         \A i \in 1..n : Avail[i].tag # "CHLD",
         input' = SubSeq(Avail, n + 1, m), Received(SubSeq(Avail, Len(input) + 1, m))
  PROVE  /\ passed' \in Workers \cup {None}
         /\ aborted' \in {"no", "peek", "two descriptors", "no descriptor"}
         /\ DescriptorInv'
<1> DEFINE A == Avail
           l == Len(input)
           c == child[Top]
           ws == SubSeq(A, l + 1, m)
           fds == Carried(ws)
<1>1. /\ stack # <<>> /\ Top \in Workers /\ Top \in Talking /\ aborted = "no"
      /\ A = Stream(Top) /\ A \in Seq(Word) /\ Len(A) \in Nat
      /\ l \in Nat /\ l <= Len(A) /\ c \in Workers \cup {None}
      /\ \A i \in 1..l : A[i] = input[i]
  <2>1. stack # <<>> /\ aborted = "no"
    BY DEF Listening
  <2>2. Top \in Workers /\ Top = stack[Len(stack)].w /\ Len(stack) \in 1..Len(stack)
    BY <2>1, TopOfStack
  <2>3. stack[Len(stack)].fd
    BY <2>1, TopOfStack DEF Listening
  <2>4. Top \in Talking
    BY <2>2, <2>3 DEF Talking, Connected
  <2>5. /\ A = Stream(Top) /\ A \in Seq(Word) /\ \A i \in 1..l : A[i] = input[i]
        /\ Len(A) = l + Len(up[Top]) /\ input \in Seq(Word) /\ up[Top] \in Seq(Word)
    BY <2>1, TopOfStack
  <2>6. Len(A) \in Nat /\ l \in Nat /\ l <= Len(A)
    BY <2>5
  <2> QED
    BY <2>1, <2>2, <2>4, <2>5, <2>6 DEF Inv, Typed
<1>2. Messages(Top, c, A)
  BY <1>1 DEF Inv, Conversation, Consistent
<1> HIDE DEF A, l, c
<1>3. n \in Nat /\ m \in Nat /\ n <= m /\ m <= Len(A) /\ l <= m
  BY <1>1 DEF A, l
<1>4. \A i \in 1..Len(A) :
        A[i].fd # None => /\ A[i].fd = c /\ c # None /\ i = Len(A) - 1 /\ n < i
                          /\ A[i].fd \in Workers
  <2> TAKE i \in 1..Len(A)
  <2> HAVE A[i].fd # None
  <2>1. A[i].tag = "CHLD" /\ A[i].fd = c /\ c # None /\ i = Len(A) - 1
    <3>1. \A w \in Workers, x \in Workers \cup {None}, s \in Seq(Word) :
            Messages(w, x, s) =>
              \A j \in 1..Len(s) :
                s[j].fd # None =>
                  s[j].tag = "CHLD" /\ s[j].fd = x /\ x # None /\ j = Len(s) - 1
      BY OneDescriptor
    <3>2. Top \in Workers /\ c \in Workers \cup {None} /\ A \in Seq(Word)
      BY <1>1
    <3>3. \A j \in 1..Len(A) :
            A[j].fd # None =>
              A[j].tag = "CHLD" /\ A[j].fd = c /\ c # None /\ j = Len(A) - 1
      BY <1>2, <3>1, <3>2, Zenon
    <3> QED
      BY <3>3
  <2>2. n < i
    BY <1>3, <2>1 DEF A
  <2> QED
    BY <1>1, <2>1, <2>2
<1>5. /\ Len(input') = m - n
      /\ \A i \in 1..(m - n) : input'[i] = A[n + i]
  <2>1. \A i \in (n + 1)..m : A[i] \in Word
    BY <1>1, <1>3
  <2>2. /\ Len(SubSeq(A, n + 1, m)) = IF n + 1 <= m THEN m - (n + 1) + 1 ELSE 0
        /\ \A i \in 1..(m - (n + 1) + 1) : SubSeq(A, n + 1, m)[i] = A[(n + 1) + i - 1]
    BY <1>3, <2>1, SubSeqProperties, SMTT(30)
  <2>3. m - (n + 1) + 1 = m - n /\ \A i \in 1..(m - n) : (n + 1) + i - 1 = n + i
    BY <1>3
  <2>4. (IF n + 1 <= m THEN m - (n + 1) + 1 ELSE 0) = m - n
    BY <1>3
  <2> QED
    BY <2>2, <2>3, <2>4 DEF A
<1>6. /\ ws \in Seq(Word) /\ Len(ws) = m - l
      /\ \A i \in 1..(m - l) : ws[i] = A[l + i]
  <2>1. \A i \in (l + 1)..m : A[i] \in Word
    BY <1>1, <1>3
  <2>2. /\ SubSeq(A, l + 1, m) \in Seq(Word)
        /\ Len(SubSeq(A, l + 1, m)) = IF l + 1 <= m THEN m - (l + 1) + 1 ELSE 0
        /\ \A i \in 1..(m - (l + 1) + 1) : SubSeq(A, l + 1, m)[i] = A[(l + 1) + i - 1]
    BY <1>1, <1>3, <2>1, SubSeqProperties
  <2>3. m - (l + 1) + 1 = m - l /\ \A i \in 1..(m - l) : (l + 1) + i - 1 = l + i
    BY <1>1, <1>3
  <2>4. (IF l + 1 <= m THEN m - (l + 1) + 1 ELSE 0) = m - l
    BY <1>1, <1>3
  <2> QED
    BY <2>2, <2>3, <2>4
<1> HIDE DEF ws
<1>7. /\ \A x \in fds : x # None /\ x = c /\ Len(A) - 1 \in (l + 1)..m /\ A[Len(A) - 1].fd = x
      /\ \A i \in (l + 1)..m : A[i].fd # None => fds # {}
  <2>1. fds = {x.fd : x \in {ws[i] : i \in 1..(m - l)}} \ {None}
    <3>1. DOMAIN ws = 1..(m - l)
      BY <1>6
    <3> QED
      BY <3>1 DEF Carried, ToSet
  <2>2. ASSUME NEW x \in fds
        PROVE  x # None /\ x = c /\ Len(A) - 1 \in (l + 1)..m /\ A[Len(A) - 1].fd = x
    <3>1. PICK i \in 1..(m - l) : x = ws[i].fd /\ x # None
      BY <2>1, <2>2
    <3>2. l + i \in 1..Len(A) /\ l + i \in (l + 1)..m /\ x = A[l + i].fd
      BY <1>1, <1>3, <1>6, <3>1
    <3> QED
      BY <1>4, <3>1, <3>2
  <2>3. ASSUME NEW i \in (l + 1)..m, A[i].fd # None
        PROVE  fds # {}
    <3>1. i - l \in 1..(m - l) /\ l + (i - l) = i
      BY <1>1, <1>3
    <3>2. ws[i - l] = A[i]
      BY <1>6, <3>1
    <3>3. ws[i - l].fd \in fds
      BY <2>1, <2>3, <3>1, <3>2
    <3> QED
      BY <3>3
  <2> QED
    BY <2>2, <2>3
<1>8. CASE ~(fds # {} /\ passed # None)
  <2>1. aborted' = "no" /\ passed' \in Workers \cup {None}
        /\ (fds = {} => passed' = passed) /\ (fds # {} => passed' \in fds /\ passed = None)
    <3>1. CASE fds = {}
      BY <1>1, <3>1 DEF Received, fds, ws, A, l, Inv, Typed
    <3>2. CASE fds # {} /\ passed = None
      <4>1. passed' \in fds /\ aborted' = aborted
        BY <3>2 DEF Received, fds, ws, A, l
      <4> QED
        BY <1>1, <1>7, <3>2, <4>1
    <3> QED
      BY <1>8, <3>1, <3>2
  <2>2. ASSUME NEW i \in 1..(m - n), A[n + i].fd # None
        PROVE  passed' = A[n + i].fd
    <3>1. n + i \in 1..Len(A) /\ n + i \in 1..m /\ A[n + i].fd = c
      <4>1. n + i \in 1..Len(A) /\ n + i \in 1..m
        BY <1>1, <1>3
      <4> QED
        BY <1>4, <2>2, <4>1
    <3>2. CASE n + i \in 1..l
      <4>1. passed = c /\ c # None
        BY <1>1, <1>4, <2>2, <3>1, <3>2 DEF Inv, DescriptorInv, l
      <4>2. fds = {}
        BY <2>1, <4>1
      <4> QED
        BY <2>1, <3>1, <4>1, <4>2
    <3>3. CASE n + i \in (l + 1)..m
      BY <1>7, <2>1, <2>2, <3>1, <3>3
    <3> QED
      BY <1>1, <1>3, <3>1, <3>2, <3>3
  <2>3. ASSUME ~PopForking, passed' # None
        PROVE  \E i \in 1..(m - n) : A[n + i].fd = passed'
    <3>1. Len(A) - 1 \in 1..m /\ A[Len(A) - 1].fd = passed'
      <4>1. CASE fds = {}
        <5>1. PICK i \in 1..l : input[i].fd = passed /\ passed # None /\ passed' = passed
          BY <2>1, <2>3, <4>1 DEF Inv, DescriptorInv, l
        <5>2. A[i].fd = passed /\ i \in 1..Len(A) /\ i \in 1..m
          BY <1>1, <1>3, <5>1
        <5>3. i = Len(A) - 1
          BY <1>4, <5>1, <5>2
        <5> QED
          BY <5>1, <5>2, <5>3
      <4>2. CASE fds # {}
        BY <1>1, <1>3, <1>7, <2>1, <4>2
      <4> QED
        BY <4>1, <4>2
    <3>2. n < Len(A) - 1
      BY <1>3, <1>4, <2>3, <3>1
    <3>3. /\ (Len(A) - 1) - n \in 1..(m - n)
          /\ n + ((Len(A) - 1) - n) = Len(A) - 1
      BY <1>1, <1>3, <3>1, <3>2
    <3> QED
      BY <3>1, <3>3
  <2> QED
    BY <1>5, <2>1, <2>2, <2>3 DEF DescriptorInv, DescriptorsMatch
<1>9. CASE fds # {} /\ passed # None
  <2>1. aborted' = "two descriptors" /\ passed' = passed
    BY <1>9 DEF Received, fds, ws, A, l
  <2>2. PopForking
    <3> SUFFICES ASSUME ~PopForking
                 PROVE  FALSE
      OBVIOUS
    <3>1. PICK i \in 1..l : input[i].fd = passed
      BY <1>9 DEF Inv, DescriptorInv, l
    <3>2. i \in 1..Len(A) /\ A[i].fd = passed
      BY <1>1, <3>1
    <3>3. i = Len(A) - 1
      BY <1>4, <1>9, <3>2
    <3>4. Len(A) - 1 \in (l + 1)..m
      BY <1>7, <1>9
    <3> QED
      BY <1>1, <3>3, <3>4
  <2> QED
    BY <2>1, <2>2 DEF DescriptorInv, Inv, Typed
<1> QED
  BY <1>8, <1>9

(* n words leave the buffer, and those that were received follow them. *)
LEMMA ReadKeeps ==
  ASSUME Inv, Listening, NEW n \in 0..Len(Avail), NEW m \in n..Len(Avail), Len(input) <= m,
         m - n <= BufSize, NEW d \in Seq(Answers),
         UNCHANGED <<stack, status, child, kept, exited>>,
         \A i \in 1..n : Avail[i].tag # "CHLD",
         input' = SubSeq(Avail, n + 1, m),
         up' = [up EXCEPT ![Top] = SubSeq(Avail, m + 1, Len(Avail))],
         down' = [down EXCEPT ![Top] = d],
         Received(SubSeq(Avail, Len(input) + 1, m)),
         Messages(Top, child[Top], SubSeq(Avail, n + 1, Len(Avail))),
         status[Top] \in Working => Awaited(status[Top], d),
         Flushes(d) \/ SubSeq(Avail, n + 1, Len(Avail)) = <<>>
  PROVE  Inv'
<1> DEFINE A == Avail
           i == SubSeq(A, n + 1, m)
           u == SubSeq(A, m + 1, Len(A))
           r == SubSeq(A, n + 1, Len(A))
<1>1. /\ TopOpen /\ Top \in Workers /\ Top \in Talking
      /\ A = Stream(Top) /\ A \in Seq(Word) /\ Len(A) \in Nat
  <2>1. stack # <<>> /\ TopOpen
    BY DEF Listening, TopOpen
  <2>2. Top \in Workers /\ Top = stack[Len(stack)].w /\ Len(stack) \in 1..Len(stack) /\ stack[Len(stack)].fd
    BY <2>1, TopOfStack DEF TopOpen
  <2>3. A = Stream(Top) /\ A \in Seq(Word)
    BY <2>1, TopOfStack
  <2> QED
    BY <2>1, <2>2, <2>3 DEF Talking, Connected
<1>2. n \in Nat /\ m \in Nat /\ n <= m /\ m <= Len(A)
  BY <1>1
<1>3. /\ passed' \in Workers \cup {None}
      /\ aborted' \in {"no", "peek", "two descriptors", "no descriptor"}
      /\ DescriptorInv'
  BY DescriptorKept
<1>4. Messages(Top, child[Top], r) /\ (Flushes(d) \/ r = <<>>)
  OBVIOUS
<1> HIDE DEF A
<1>5. i \in Seq(Word) /\ u \in Seq(Word) /\ Len(i) = m - n /\ i \o u = r
  <2>1. \A k \in 1..Len(A) : A[k] \in Word
    BY <1>1
  <2>2. /\ i \in Seq(Word)
        /\ Len(i) = IF n + 1 <= m THEN m - (n + 1) + 1 ELSE 0
    <3>1. \A k \in (n + 1)..m : A[k] \in Word
      BY <1>1, <1>2, <2>1
    <3> QED
      BY <1>2, <3>1, SubSeqProperties
  <2>3. u \in Seq(Word)
    <3>1. \A k \in (m + 1)..Len(A) : A[k] \in Word
      BY <1>1, <1>2, <2>1
    <3> QED
      BY <1>1, <1>2, <3>1, SubSeqProperties
  <2>4. i \o u = r
    <3>1. /\ n + 1 \in 1..(Len(A) + 1) /\ m \in ((n + 1) - 1)..Len(A) /\ Len(A) \in m..Len(A)
      BY <1>1, <1>2
    <3> QED
      BY <1>1, <3>1, ConcatAdjacentSubSeq
  <2>5. (IF n + 1 <= m THEN m - (n + 1) + 1 ELSE 0) = m - n
    BY <1>2
  <2> HIDE DEF i, u, r
  <2> QED
    BY <2>2, <2>3, <2>4, <2>5
<1>6. /\ r \in Seq(Word)
      /\ \A k \in 1..Len(r) : \E j \in 1..Len(A) : r[k] = A[j]
  <2>1. \A k \in (n + 1)..Len(A) : A[k] \in Word
    BY <1>1, <1>2
  <2>2. /\ r \in Seq(Word)
        /\ Len(r) = IF n + 1 <= Len(A) THEN Len(A) - (n + 1) + 1 ELSE 0
        /\ \A k \in 1..(Len(A) - (n + 1) + 1) : r[k] = A[(n + 1) + k - 1]
    BY <1>1, <1>2, <2>1, SubSeqProperties
  <2> HIDE DEF r
  <2>3. ASSUME NEW k \in 1..Len(r)
        PROVE  \E j \in 1..Len(A) : r[k] = A[j]
    <3>1. k \in 1..(Len(A) - (n + 1) + 1) /\ (n + 1) + k - 1 \in 1..Len(A)
      BY <1>1, <1>2, <2>2, SMTT(30)
    <3> QED
      BY <2>2, <3>1
  <2> QED
    BY <2>2, <2>3
<1>7. input' = i /\ up' = [up EXCEPT ![Top] = u]
  BY DEF A
<1> HIDE DEF i, u, r
<1>8. Consistent(Top, status[Top], child[Top], i \o u, d)
  <2>1. \A k \in 1..Len(r) : status[Top] \in Says[r[k].tag]
    BY <1>1, <1>6 DEF Inv, Conversation, Consistent
  <2> QED
    BY <1>4, <1>5, <2>1 DEF Consistent
<1>9. (\E k \in 1..Len(i \o u) : (i \o u)[k].tag = "CHLD") => Forked
  BY <1>1, <1>5, <1>6 DEF Forked
<1>10. Len(i) <= BufSize
  BY <1>5
<1> QED
  BY <1>3, <1>5, <1>7, <1>8, <1>9, <1>10, HeardKeeps

(* StepSeen, StepRead and StepAppend: a message is read, and a query is      *)
(* answered.                                                                 *)
LEMMA QueryReadKeeps ==
  ASSUME Inv, NEW tag \in {"SEEN", "READ", "APND"}, NEW exactly \in BOOLEAN,
         Pending(tag), Consume(Size[tag], exactly), UNCHANGED <<stack, status, child, kept, exited>>,
         \/ tag = "SEEN" /\ UNCHANGED down
         \/ \E a \in Answers : <<tag, a>> \in Expected /\ Reply(a)
  PROVE  Inv'
<1> DEFINE A == Avail
           n == Size[tag]
           r == SubSeq(A, n + 1, Len(A))
<1>1. /\ Listening /\ Top \in Workers /\ Top \in Talking /\ child[Top] \in Workers \cup {None}
      /\ A = Stream(Top) /\ A \in Seq(Word) /\ Len(A) \in Nat /\ A # <<>>
      /\ A[1].tag = tag /\ Len(A) >= n
      /\ Len(input) \in Nat /\ Len(input) <= Len(A) /\ down[Top] \in Seq(Answers)
  <2>1. stack # <<>> /\ Listening
    BY DEF Pending, Listening
  <2>2. Top \in Workers /\ Top = stack[Len(stack)].w /\ Len(stack) \in 1..Len(stack) /\ stack[Len(stack)].fd
    BY <2>1, TopOfStack DEF Listening
  <2>3. /\ A = Stream(Top) /\ A \in Seq(Word) /\ Len(A) = Len(input) + Len(up[Top])
        /\ input \in Seq(Word) /\ up[Top] \in Seq(Word)
    BY <2>1, TopOfStack
  <2>4. Len(A) \in Nat /\ Len(input) \in Nat /\ Len(input) <= Len(A)
    BY <2>3
  <2>5. Top \in Talking
    BY <2>2 DEF Talking, Connected
  <2>6. child[Top] \in Workers \cup {None} /\ down[Top] \in Seq(Answers)
    BY <2>2 DEF Inv, Typed
  <2>7. A # <<>> /\ A[1].tag = tag /\ Len(A) >= n
    BY DEF Pending
  <2> QED
    BY <2>1, <2>2, <2>3, <2>4, <2>5, <2>6, <2>7
<1>2. /\ Messages(Top, child[Top], A)
      /\ \A k \in 1..Len(A) : status[Top] \in Says[A[k].tag]
      /\ Flushes(down[Top])
  BY <1>1 DEF Inv, Conversation, Consistent
<1>3. /\ n \in {2, 3} /\ n \in 1..Len(A)
      /\ \A k \in 1..n : A[k].tag = tag
      /\ Messages(Top, child[Top], r)
      /\ tag # "SEEN" => r = <<>>
  <2> HIDE DEF A
  <2>1. \A w \in Workers, c \in Workers \cup {None}, s \in Seq(Word) :
          s # <<>> /\ Messages(w, c, s) /\ Len(s) >= Size[s[1].tag] =>
            /\ Size[s[1].tag] \in {2, 3} /\ Size[s[1].tag] \in 1..Len(s)
            /\ \A k \in 1..Size[s[1].tag] : s[k].tag = s[1].tag
            /\ Messages(w, c, SubSeq(s, Size[s[1].tag] + 1, Len(s)))
            /\ s[1].tag # "SEEN" => SubSeq(s, Size[s[1].tag] + 1, Len(s)) = <<>>
    BY FirstMessage
  <2>2. Size[A[1].tag] = n
    BY <1>1
  <2>3. Len(A) >= Size[A[1].tag] /\ A # <<>>
    BY <1>1
  <2>4. /\ Size[A[1].tag] \in {2, 3} /\ Size[A[1].tag] \in 1..Len(A)
        /\ \A k \in 1..Size[A[1].tag] : A[k].tag = A[1].tag
        /\ Messages(Top, child[Top], SubSeq(A, Size[A[1].tag] + 1, Len(A)))
        /\ A[1].tag # "SEEN" => SubSeq(A, Size[A[1].tag] + 1, Len(A)) = <<>>
    BY <1>1, <1>2, <2>1, <2>3
  <2> HIDE DEF n
  <2> QED
    BY <1>1, <2>2, <2>4
<1>4. PICK d \in Seq(Answers) :
        /\ down' = [down EXCEPT ![Top] = d]
        /\ status[Top] \in Working => Awaited(status[Top], d)
        /\ Flushes(d) \/ tag # "SEEN"
  <2>1. CASE tag = "SEEN" /\ UNCHANGED down
    BY <1>1, <1>2, <2>1 DEF Inv, Typed, AnswersInv
  <2>2. ASSUME NEW a \in Answers, <<tag, a>> \in Expected, Reply(a)
        PROVE  \E d \in Seq(Answers) :
                 /\ down' = [down EXCEPT ![Top] = d]
                 /\ status[Top] \in Working => Awaited(status[Top], d)
                 /\ Flushes(d) \/ tag # "SEEN"
    <3>1. tag \in {"READ", "APND"}
      BY <2>2 DEF Expected
    <3>2. status[Top] = tag
      <4>1. 1 \in 1..Len(A) /\ status[Top] \in Says[tag]
        BY <1>1, <1>2, <1>3
      <4> QED
        BY <3>1, <4>1 DEF Says
    <3>3. Append(down[Top], a) \in Seq(Answers) /\ Awaited(status[Top], Append(down[Top], a))
      BY <1>1, <1>2, <2>2, <3>2, AnswerAppended
    <3> QED
      BY <2>2, <3>1, <3>3 DEF Reply
  <2> QED
    BY <2>1, <2>2
<1>5. PICK m \in n..Min({Len(A), n + BufSize}) :
        /\ IF n <= Len(input) THEN m = Len(input) ELSE exactly => m = n
        /\ input' = SubSeq(A, n + 1, m)
        /\ up' = [up EXCEPT ![Top] = SubSeq(A, m + 1, Len(A))]
        /\ Received(SubSeq(A, Len(input) + 1, m))
  BY DEF Consume
<1>6. n \in 0..Len(A) /\ m \in n..Len(A) /\ Len(input) <= m /\ m - n <= BufSize
  <2>1. BufSize \in Nat
    BY ChannelAssumption
  <2>2. n \in Int /\ Len(A) \in Int /\ n + BufSize \in Int
    BY <1>1, <1>3, <2>1
  <2> HIDE DEF A, n
  <2>3. /\ Min({Len(A), n + BufSize}) \in Int
        /\ Min({Len(A), n + BufSize}) <= Len(A) /\ Min({Len(A), n + BufSize}) <= n + BufSize
    BY <2>2, MinOfTwo
  <2>4. m \in Int /\ n <= m /\ m <= Len(A) /\ m <= n + BufSize
    BY <2>2, <2>3
  <2>5. Len(input) <= m
    BY <1>1, <1>5, <2>2, <2>4
  <2> QED
    BY <1>3, <2>1, <2>2, <2>4, <2>5
<1>7. \A k \in 1..n : A[k].tag # "CHLD"
  BY <1>3
<1>8. Flushes(d) \/ r = <<>>
  BY <1>3, <1>4
<1> HIDE DEF n
<1> QED
  BY <1>1, <1>3, <1>4, <1>5, <1>6, <1>7, <1>8, ReadKeeps

LEMMA StepSeenKeeps == Inv /\ StepSeen => Inv'
BY QueryReadKeeps DEF StepSeen

LEMMA StepReadKeeps == Inv /\ StepRead => Inv'
<1> SUFFICES ASSUME Inv, StepRead
             PROVE  Inv'
  OBVIOUS
<1>1. \E a \in Answers : <<"READ", a>> \in Expected /\ Reply(a)
  BY DEF StepRead, Answers, Expected
<1> QED
  BY <1>1, QueryReadKeeps DEF StepRead

LEMMA StepAppendKeeps == Inv /\ StepAppend => Inv'
<1> SUFFICES ASSUME Inv, StepAppend
             PROVE  Inv'
  OBVIOUS
<1>1. \E a \in Answers : <<"APND", a>> \in Expected /\ Reply(a)
  BY DEF StepAppend, Answers, Expected
<1> QED
  BY <1>1, QueryReadKeeps DEF StepAppend

-----------------------------------------------------------------------------
(* The driver ends a conversation *)

(* A check that fails stops the driver, and changes nothing else. *)
LEMMA AbortKeeps ==
  ASSUME Inv, NEW why \in {"peek", "two descriptors", "no descriptor"}, Abort(why),
         PopForking \/ why = "peek"
  PROVE  Inv'
<1>1. /\ aborted' = why /\ UNCHANGED <<stack, input, passed, exited>>
      /\ UNCHANGED <<status, child, kept, up, down>>
  BY DEF Abort, workers
<1>2. /\ Top' = Top /\ TopOpen' = TopOpen /\ Connected' = Connected
      /\ \A w : Stream(w)' = Stream(w) /\ Conversation(w)' = Conversation(w)
  BY <1>1 DEF Top, TopOpen, Connected, Stream, Heard, Conversation
<1>3. (Forked' <=> Forked) /\ Talking' = Talking
  <2>1. Stream(Top)' = Stream(Top)
    BY <1>1 DEF Stream, Heard, Top
  <2>2. Forked' <=> Forked
    BY <1>2, <2>1 DEF Forked
  <2> QED
    BY <1>1, <1>2, <2>2 DEF Talking
<1>4. Typed'
  BY <1>1 DEF Inv, Typed
<1>5. StackInv'
  BY <1>1, <1>2 DEF Inv, StackInv
<1>6. ChildInv'
  BY <1>1, <1>2, <1>3 DEF Inv, ChildInv
<1>7. AnswersInv'
  BY <1>1 DEF Inv, AnswersInv
<1>8. DescriptorInv'
  BY <1>1 DEF Inv, DescriptorInv, DescriptorsMatch
<1> QED
  BY <1>2, <1>3, <1>4, <1>5, <1>6, <1>7, <1>8 DEF Inv

(* The socket of the top worker, which has nothing more to say, is closed. *)
LEMMA CloseKeeps ==
  ASSUME Inv, Listening, Avail = <<>>,
         stack' = [stack EXCEPT ![Len(stack)].fd = FALSE],
         status' = [status EXCEPT ![Top] = "dead"], kept' \subseteq kept,
         UNCHANGED <<child, up, down, input, passed, exited, aborted>>
  PROVE  Inv'
<1> DEFINE n == Len(stack)
<1>1. /\ stack # <<>> /\ TopOpen /\ Top \in Workers /\ Top = stack[n].w
      /\ n \in Nat /\ n \in 1..n /\ stack \in Seq(Process) /\ Len(stack) <= MaxProcess
      /\ \A i \in 1..n : stack[i] \in Process
      /\ \A i, j \in 1..n : stack[i].w = stack[j].w => i = j
  BY TopOfStack DEF Listening, TopOpen, Inv, Typed, StackInv
<1>2. input = <<>> /\ up[Top] = <<>>
  <2>1. Avail = input \o up[Top] /\ input \in Seq(Word) /\ up[Top] \in Seq(Word)
    BY <1>1, StreamTyped DEF Avail, Inv, Typed
  <2>2. \A s, t \in Seq(Word) : s \o t = <<>> => s = <<>> /\ t = <<>>
    BY ConcatEqualIffEmpty
  <2> QED
    BY <2>1, <2>2
<1>3. /\ stack' \in Seq(Process) /\ Len(stack') = n /\ stack' # <<>>
      /\ \A i \in 1..(n - 1) : stack'[i] = stack[i]
      /\ \A i \in 1..n : stack'[i].w = stack[i].w
      /\ stack'[n].fd = FALSE
  <2> DEFINE p == [stack[n] EXCEPT !.fd = FALSE]
  <2>1. stack' = [stack EXCEPT ![n] = p]
    OBVIOUS
  <2>2. p \in Process /\ p.w = stack[n].w /\ p.fd = FALSE
    BY <1>1 DEF Process
  <2> HIDE DEF p, n
  <2>3. /\ [stack EXCEPT ![n] = p] \in Seq(Process)
        /\ Len([stack EXCEPT ![n] = p]) = Len(stack)
        /\ \A i \in 1..Len(stack) : [stack EXCEPT ![n] = p][i] = IF i = n THEN p ELSE stack[i]
    BY <1>1, <2>2, ExceptSeq DEF n
  <2>4. /\ stack' \in Seq(Process) /\ Len(stack') = n
        /\ \A i \in 1..n : stack'[i] = IF i = n THEN p ELSE stack[i]
    BY <2>1, <2>3 DEF n
  <2> QED
    BY <1>1, <2>2, <2>4
<1>4. Top' = Top /\ ~TopOpen'
  BY <1>1, <1>3 DEF Top, Last, TopOpen
<1>5. /\ \A v \in Workers \ {Top} : status'[v] = status[v]
      /\ status'[Top] = "dead" /\ status[Top] # "unborn"
  <2>1. status[Top] # "unborn"
    BY <1>1 DEF Inv, StackInv
  <2> QED
    BY <1>1, <2>1 DEF Inv, Typed
<1>6. Talking' \subseteq Talking \ {Top}
  <2>1. ASSUME NEW v \in Connected'
        PROVE  v \in Talking \ {Top}
    <3>1. PICK i \in 1..Len(stack') : stack'[i].fd /\ v = stack'[i].w
      BY <2>1 DEF Connected
    <3>2. i \in 1..n /\ i # n
      BY <1>3, <3>1
    <3>3. i \in 1..(n - 1) /\ stack[i].fd /\ v = stack[i].w
      BY <1>1, <1>3, <3>1, <3>2
    <3> QED
      BY <3>3, BelowTop
  <2> QED
    BY <1>4, <2>1 DEF Talking, Forked
<1>7. \A v \in Workers \ {Top} : Stream(v)' = Stream(v)
  BY <1>4 DEF Stream, Heard
<1>8. Typed'
  <2>1. status' \in [Workers -> Statuses]
    BY DEF Inv, Typed, Statuses, Ended
  <2> QED
    BY <1>1, <1>3, <2>1 DEF Inv, Typed
<1>9. StackInv'
  <2>1. \A i, j \in 1..Len(stack') : stack'[i].w = stack'[j].w => i = j
    BY <1>1, <1>3
  <2>2. \A i \in 1..Len(stack') : status'[stack'[i].w] \notin {"unborn", "cut"}
    <3> TAKE i \in 1..Len(stack')
    <3>1. stack'[i].w = stack[i].w /\ stack[i].w \in Workers /\ status[stack[i].w] \notin {"unborn", "cut"}
      BY <1>1, <1>3 DEF Process, Inv, StackInv
    <3> QED
      BY <1>5, <3>1
  <2>3. \A i \in 1..(Len(stack') - 1) :
          /\ stack'[i].fd
          /\ status'[stack'[i].w] \in {"forking", "resting", "READ"}
          /\ Reads(up'[stack'[i].w])
          /\ status'[stack'[i].w] = "READ" => Flushes(down'[stack'[i].w])
    <3> TAKE i \in 1..(Len(stack') - 1)
    <3>1. i \in 1..(n - 1) /\ stack'[i] = stack[i]
      BY <1>3
    <3> QED
      BY <1>5, <3>1, BelowTop
  <2>4. status'[Top'] \in Ended /\ input' = <<>>
    BY <1>2, <1>4, <1>5 DEF Ended
  <2>5. ~exited'
    BY <1>1 DEF Inv, StackInv
  <2> QED
    BY <2>1, <2>2, <2>3, <2>4, <2>5 DEF StackInv
<1>10. ChildInv'
  <2>1. \A v \in Workers : child[v] # None => status'[child[v]] # "unborn"
    BY <1>5 DEF Inv, ChildInv, Typed
  <2>2. \A c \in kept' : status'[c] # "cut"
    BY <1>5 DEF Inv, ChildInv, Typed
  <2>3. \A v, x \in Workers : child[v] = child[x] /\ child[v] # None => v = x
    BY DEF Inv, ChildInv
  <2> QED
    BY <1>4, <2>1, <2>2, <2>3 DEF ChildInv, Forked
<1>11. AnswersInv'
  BY <1>5 DEF Inv, AnswersInv, Working
<1>12. ASSUME NEW v \in Talking'
       PROVE  Conversation(v)'
  <2>1. v \in Workers \ {Top} /\ Conversation(v)
    BY <1>6, TalkingHeld DEF Inv
  <2> QED
    BY <1>5, <1>7, <2>1 DEF Conversation
<1>13. DescriptorInv'
  BY DEF Inv, DescriptorInv, DescriptorsMatch
<1> QED
  BY <1>8, <1>9, <1>10, <1>11, <1>12, <1>13 DEF Inv

LEMMA StepEndKeeps == Inv /\ StepEnd => Inv'
<1> SUFFICES ASSUME Inv, StepEnd
             PROVE  Inv'
  OBVIOUS
<1>1. /\ Listening /\ Avail = <<>>
      /\ stack' = [stack EXCEPT ![Len(stack)].fd = FALSE]
      /\ UNCHANGED <<status, child, kept, up, down, input, passed, exited, aborted>>
  BY DEF StepEnd, workers
<1>2. status[Top] = "dead"
  <2>1. stack # <<>>
    BY <1>1 DEF Listening
  <2>2. Top \in Workers /\ Top = stack[Len(stack)].w /\ Len(stack) \in 1..Len(stack)
    BY <2>1, TopOfStack
  <2>3. status[Top] # "cut" /\ status[Top] # "panicked"
    BY <2>2 DEF Inv, StackInv, AnswersInv
  <2> QED
    BY <2>3 DEF StepEnd, Ended
<1>3. status' = [status EXCEPT ![Top] = "dead"] /\ kept' \subseteq kept
  BY <1>1, <1>2 DEF Inv, Typed
<1> QED
  BY <1>1, <1>3, CloseKeeps

LEMMA PeekKeeps == Inv /\ Peek => Inv'
<1> SUFFICES ASSUME Inv, Peek
             PROVE  Inv'
  OBVIOUS
<1>1. Listening /\ stack # <<>>
  BY DEF Peek, Listening
<1>2. /\ Top \in Workers /\ Top = stack[Len(stack)].w /\ Len(stack) \in 1..Len(stack)
      /\ stack[Len(stack)].fd /\ Top \in Talking
      /\ Avail = Stream(Top) /\ Avail \in Seq(Word) /\ input \in Seq(Word) /\ up[Top] \in Seq(Word)
  <2>1. /\ Top \in Workers /\ Top = stack[Len(stack)].w /\ Len(stack) \in 1..Len(stack)
        /\ stack[Len(stack)].fd
    BY <1>1, TopOfStack DEF Listening
  <2> QED
    BY <1>1, <2>1, TopOfStack DEF Talking, Connected
<1>3. CASE /\ Avail = <<>> /\ status[Top] \notin Ended
           /\ Killed({Top})
           /\ stack' = [stack EXCEPT ![Len(stack)].fd = FALSE]
           /\ UNCHANGED <<input, passed, exited, aborted>>
  <2>1. status[Top] \in Working
    BY <1>2, <1>3, TalkingHeld DEF Inv, Typed, Statuses
  <2>2. status' = [status EXCEPT ![Top] = "dead"]
    BY <1>2, <1>3, <2>1 DEF Killed, Inv, Typed
  <2>3. kept' \subseteq kept /\ UNCHANGED <<child, up, down>>
    BY <1>3 DEF Killed
  <2> QED
    BY <1>1, <1>3, <2>2, <2>3, CloseKeeps
<1>4. CASE Abort("peek")
  BY <1>4, AbortKeeps
<1>5. CASE /\ Avail # <<>> /\ input = <<>>
           /\ \E n \in 1..Min({Len(Avail), BufSize}) :
                /\ input' = SubSeq(Avail, 1, n)
                /\ up' = [up EXCEPT ![Top] = SubSeq(@, n + 1, Len(@))]
                /\ Received(SubSeq(Avail, 1, n))
           /\ UNCHANGED <<stack, status, child, kept, down, exited>>
  <2> DEFINE A == Avail
  <2>1. PICK m \in 1..Min({Len(A), BufSize}) :
          /\ input' = SubSeq(A, 1, m)
          /\ up' = [up EXCEPT ![Top] = SubSeq(@, m + 1, Len(@))]
          /\ Received(SubSeq(A, 1, m))
    BY <1>5
  <2>2. A = up[Top]
    BY <1>2, <1>5, ConcatEmptySeq DEF Avail
  <2>3. Len(A) \in Nat /\ Len(input) = 0 /\ BufSize \in Nat
    BY <1>2, <1>5, ChannelAssumption
  <2>4. m \in 0..Len(A) /\ m - 0 <= BufSize
    <3> HIDE DEF A
    <3>1. Min({Len(A), BufSize}) \in Int /\ Min({Len(A), BufSize}) <= Len(A) /\ Min({Len(A), BufSize}) <= BufSize
      <4>1. Len(A) \in Int /\ BufSize \in Int
        BY <2>3
      <4> QED
        BY <4>1, MinOfTwo
    <3> QED
      BY <2>3, <3>1
  <2>5. SubSeq(A, 0 + 1, Len(A)) = A
    <3>1. SubSeq(A, 1, Len(A)) = A
      BY <1>2, SubSeqFull
    <3> QED
      BY <3>1
  <2>6. /\ Messages(Top, child[Top], SubSeq(A, 0 + 1, Len(A)))
        /\ status[Top] \in Working => Awaited(status[Top], down[Top])
        /\ Flushes(down[Top])
    BY <1>2, <1>5, <2>5 DEF Inv, Conversation, Consistent, AnswersInv
  <2>7. /\ input' = SubSeq(A, 0 + 1, m)
        /\ up' = [up EXCEPT ![Top] = SubSeq(A, m + 1, Len(A))]
        /\ Received(SubSeq(A, Len(input) + 1, m))
    BY <2>1, <2>2, <2>3
  <2>8. down[Top] \in Seq(Answers) /\ down' = [down EXCEPT ![Top] = down[Top]]
    BY <1>2, <1>5 DEF Inv, Typed
  <2>9. 0 \in 0..Len(A) /\ \A k \in 1..0 : A[k].tag # "CHLD"
    BY <2>3
  <2>10. Len(input) <= m
    BY <2>3, <2>4
  <2> QED
    BY <1>1, <1>5, <2>4, <2>6, <2>7, <2>8, <2>9, <2>10, ReadKeeps
<1> QED
  BY <1>3, <1>4, <1>5 DEF Peek

-----------------------------------------------------------------------------
(* The driver receives a child *)

(* A CHLD that can be read is all that the top worker has to say, and the    *)
(* descriptor waits, or is still with it.                                    *)
LEMMA ChildFound ==
  ASSUME Inv, Pending("CHLD")
  PROVE  /\ Forked /\ child[Top] \in Workers
         /\ Carried(up[Top]) \subseteq {child[Top]}
         /\ Carried(up[Top]) = {} => passed = child[Top]
         /\ Carried(up[Top]) # {} => PopForking \/ passed = None
<1> DEFINE A == Avail
           l == Len(input)
           c == child[Top]
<1>1. /\ stack # <<>> /\ Top \in Workers /\ Top \in Talking /\ TopOpen /\ aborted = "no"
      /\ A = Stream(Top) /\ A \in Seq(Word) /\ A = input \o up[Top]
      /\ input \in Seq(Word) /\ up[Top] \in Seq(Word)
      /\ A # <<>> /\ A[1].tag = "CHLD" /\ Len(A) >= 2
  <2>1. stack # <<>> /\ TopOpen /\ aborted = "no"
    BY DEF Pending, Listening, TopOpen
  <2>2. Top \in Workers /\ Top = stack[Len(stack)].w /\ Len(stack) \in 1..Len(stack) /\ stack[Len(stack)].fd
    BY <2>1, TopOfStack DEF TopOpen
  <2>3. /\ A = Stream(Top) /\ A \in Seq(Word) /\ A = input \o up[Top]
        /\ input \in Seq(Word) /\ up[Top] \in Seq(Word)
    BY <2>1, TopOfStack
  <2>4. Top \in Talking
    BY <2>2 DEF Talking, Connected
  <2>5. A # <<>> /\ A[1].tag = "CHLD" /\ Len(A) >= 2
    BY Sizes DEF Pending
  <2> QED
    BY <2>1, <2>2, <2>3, <2>4, <2>5
<1>2. /\ l \in Nat /\ Len(up[Top]) \in Nat /\ Len(A) = l + Len(up[Top])
      /\ \A i \in 1..l : A[i] = input[i]
      /\ \A i \in 1..Len(up[Top]) : l + i \in 1..Len(A) /\ A[l + i] = up[Top][i]
  <2>1. l \in Nat /\ Len(up[Top]) \in Nat
    BY <1>1
  <2>2. /\ Len(input \o up[Top]) = Len(input) + Len(up[Top])
        /\ \A i \in 1..(Len(input) + Len(up[Top])) :
             (input \o up[Top])[i] = IF i <= Len(input) THEN input[i] ELSE up[Top][i - Len(input)]
    BY <1>1, ConcatProperties
  <2>3. /\ Len(A) = l + Len(up[Top])
        /\ \A i \in 1..(l + Len(up[Top])) : A[i] = IF i <= l THEN input[i] ELSE up[Top][i - l]
    BY <1>1, <2>2
  <2> HIDE DEF A, l
  <2>4. \A i \in 1..l : A[i] = input[i]
    BY <2>1, <2>3 DEF l
  <2>5. ASSUME NEW i \in 1..Len(up[Top])
        PROVE  l + i \in 1..Len(A) /\ A[l + i] = up[Top][i]
    <3>1. l + i \in 1..(l + Len(up[Top])) /\ ~(l + i <= l) /\ (l + i) - l = i
      BY <2>1
    <3> QED
      BY <2>3, <3>1
  <2> QED
    BY <2>1, <2>3, <2>4, <2>5
<1>3. Messages(Top, c, A)
  BY <1>1 DEF Inv, Conversation, Consistent
<1>4. Forked /\ c \in Workers
  <2>1. 1 \in 1..Len(A)
    BY <1>1
  <2>2. Forked
    BY <1>1, <2>1 DEF Forked
  <2> QED
    BY <2>2 DEF Inv, ChildInv
<1>5. \A i \in 1..Len(A) : A[i].fd # None => A[i].fd = c /\ i = Len(A) - 1
  <2> HIDE DEF A, c
  <2>1. \A w \in Workers, x \in Workers \cup {None}, s \in Seq(Word) :
          Messages(w, x, s) =>
            \A j \in 1..Len(s) :
              s[j].fd # None =>
                s[j].tag = "CHLD" /\ s[j].fd = x /\ x # None /\ j = Len(s) - 1
    BY OneDescriptor
  <2>2. Top \in Workers /\ c \in Workers \cup {None} /\ A \in Seq(Word)
    BY <1>1, <1>4
  <2>3. \A j \in 1..Len(A) :
          A[j].fd # None => A[j].tag = "CHLD" /\ A[j].fd = c /\ c # None /\ j = Len(A) - 1
    BY <1>3, <2>1, <2>2, Zenon
  <2> QED
    BY <2>3
<1>6. A[1].fd = c /\ c # None
  BY <1>1, <1>3, <1>4, ChannelAssumption, SMTT(30) DEF Messages
<1>7. Carried(up[Top]) = {up[Top][i].fd : i \in 1..Len(up[Top])} \ {None}
  <2>1. DOMAIN up[Top] = 1..Len(up[Top])
    BY <1>1
  <2> QED
    BY <2>1 DEF Carried, ToSet
<1> HIDE DEF A, l, c
<1>8. \A x \in Carried(up[Top]) : x = c /\ l + 1 <= Len(A) - 1
  <2> TAKE x \in Carried(up[Top])
  <2>1. PICK i \in 1..Len(up[Top]) : x = up[Top][i].fd /\ x # None
    BY <1>7
  <2>2. A[l + i].fd # None /\ l + i \in 1..Len(A)
    BY <1>2, <2>1
  <2>3. A[l + i].fd = c /\ l + i = Len(A) - 1
    BY <1>5, <2>2
  <2> QED
    BY <1>2, <2>1, <2>3
<1>9. ASSUME Carried(up[Top]) = {}
      PROVE  passed = c
  <2>1. 1 \in 1..l
    <3>1. CASE l = 0
      <4>1. 1 \in 1..Len(up[Top]) /\ l + 1 = 1
        BY <1>1, <1>2, <3>1
      <4>2. up[Top][1].fd = c
        BY <1>2, <1>6, <4>1
      <4>3. c \in Carried(up[Top])
        BY <1>6, <1>7, <4>1, <4>2
      <4> QED
        BY <1>9, <4>3
    <3> QED
      BY <1>2, <3>1
  <2>2. input[1].fd = c
    BY <1>2, <1>6, <2>1
  <2> QED
    BY <1>1, <1>6, <2>1, <2>2 DEF Inv, DescriptorInv, l
<1>10. ASSUME NEW x \in Carried(up[Top]), ~PopForking, passed # None
       PROVE  FALSE
  <2>1. PICK i \in 1..l : input[i].fd = passed
    BY <1>10 DEF Inv, DescriptorInv, l
  <2>2. i \in 1..Len(A) /\ A[i].fd = passed
    BY <1>2, <2>1
  <2>3. i = Len(A) - 1
    BY <1>5, <1>10, <2>2
  <2> QED
    BY <1>2, <1>8, <1>10, <2>1, <2>3
<1> QED
  BY <1>4, <1>8, <1>9, <1>10 DEF c

(* decimate_processes keeps the top of the stack, and the order. *)
LEMMA DecimatedKeeps ==
  ASSUME Inv, stack # <<>>, NEW s \in Decimated(stack)
  PROVE  /\ s \in Seq(Process) /\ Len(s) \in Nat /\ Len(s) \in 1..Len(s)
         /\ Len(s) + 1 <= MaxProcess
         /\ s[Len(s)] = stack[Len(stack)]
         /\ \A i \in 1..(Len(s) - 1) : \E j \in 1..(Len(stack) - 1) : s[i] = stack[j]
         /\ \A i, j \in 1..Len(s) : s[i].w = s[j].w => i = j
<1> DEFINE n == Len(stack)
<1>1. /\ stack \in Seq(Process) /\ n \in Nat /\ n \in 1..n /\ n <= MaxProcess /\ MaxProcess \in Nat
      /\ \A i \in 1..n : stack[i] \in Process
  BY TopOfStack, ChannelAssumption DEF Inv, Typed
<1>2. \A i, j \in 1..n : stack[i].w = stack[j].w => i = j
  BY DEF Inv, StackInv
<1>3. CASE s = stack /\ n < MaxProcess
  BY <1>1, <1>2, <1>3
<1>4. ASSUME NEW k \in 1..(n - 1), s = RemoveAt(stack, k)
      PROVE  /\ s \in Seq(Process) /\ Len(s) = n - 1
             /\ \A i \in 1..(n - 1) : s[i] = IF i < k THEN stack[i] ELSE stack[i + 1]
  <2> DEFINE a == SubSeq(stack, 1, k - 1)
             b == SubSeq(stack, k + 1, n)
  <2>0. k \in Nat /\ 1 <= k /\ k <= n - 1
    BY <1>1
  <2> HIDE DEF n
  <2>1. /\ a \in Seq(Process) /\ Len(a) = k - 1
        /\ \A i \in 1..(k - 1) : a[i] = stack[i]
    <3>1. \A i \in 1..(k - 1) : stack[i] \in Process
      BY <1>1, <2>0
    <3>2. /\ a \in Seq(Process)
          /\ Len(a) = IF 1 <= k - 1 THEN (k - 1) - 1 + 1 ELSE 0
          /\ \A i \in 1..((k - 1) - 1 + 1) : a[i] = stack[1 + i - 1]
      BY <2>0, <3>1, SubSeqProperties
    <3>3. /\ (IF 1 <= k - 1 THEN (k - 1) - 1 + 1 ELSE 0) = k - 1
          /\ (k - 1) - 1 + 1 = k - 1 /\ \A i \in 1..(k - 1) : 1 + i - 1 = i
      BY <2>0
    <3> HIDE DEF a
    <3> QED
      BY <3>2, <3>3
  <2>2. /\ b \in Seq(Process) /\ Len(b) = n - k
        /\ \A i \in 1..(n - k) : b[i] = stack[k + i]
    <3>1. \A i \in (k + 1)..n : stack[i] \in Process
      BY <1>1, <2>0
    <3>2. /\ b \in Seq(Process)
          /\ Len(b) = IF k + 1 <= n THEN n - (k + 1) + 1 ELSE 0
          /\ \A i \in 1..(n - (k + 1) + 1) : b[i] = stack[(k + 1) + i - 1]
      BY <1>1, <2>0, <3>1, SubSeqProperties
    <3>3. /\ (IF k + 1 <= n THEN n - (k + 1) + 1 ELSE 0) = n - k
          /\ n - (k + 1) + 1 = n - k /\ \A i \in 1..(n - k) : (k + 1) + i - 1 = k + i
      BY <1>1, <2>0
    <3> HIDE DEF b
    <3> QED
      BY <3>2, <3>3
  <2> HIDE DEF a, b
  <2>3. s = a \o b
    BY <1>4 DEF RemoveAt, a, b, n
  <2>4. /\ s \in Seq(Process) /\ Len(s) = Len(a) + Len(b)
        /\ \A i \in 1..(Len(a) + Len(b)) : s[i] = IF i <= Len(a) THEN a[i] ELSE b[i - Len(a)]
    BY <2>1, <2>2, <2>3, ConcatProperties
  <2>5. Len(a) + Len(b) = n - 1
    BY <1>1, <2>0, <2>1, <2>2
  <2>6. ASSUME NEW i \in 1..(n - 1)
        PROVE  s[i] = IF i < k THEN stack[i] ELSE stack[i + 1]
    <3>1. CASE i < k
      <4>1. i \in 1..(k - 1) /\ i <= Len(a)
        BY <1>1, <2>0, <2>1, <3>1
      <4> QED
        BY <2>1, <2>4, <2>5, <3>1, <4>1
    <3>2. CASE ~(i < k)
      <4>1. ~(i <= Len(a)) /\ i - Len(a) \in 1..(n - k) /\ k + (i - Len(a)) = i + 1
        BY <1>1, <2>0, <2>1, <3>2
      <4>2. s[i] = b[i - Len(a)]
        BY <2>4, <2>5, <4>1
      <4> QED
        BY <2>2, <3>2, <4>1, <4>2
    <3> QED
      BY <3>1, <3>2
  <2> QED
    BY <2>4, <2>5, <2>6
<1>5. ASSUME NEW k \in 1..(n - 1), s = RemoveAt(stack, k)
      PROVE  /\ s \in Seq(Process) /\ Len(s) \in Nat /\ Len(s) \in 1..Len(s)
             /\ Len(s) + 1 <= MaxProcess
             /\ s[Len(s)] = stack[n]
             /\ \A i \in 1..(Len(s) - 1) : \E j \in 1..(n - 1) : s[i] = stack[j]
             /\ \A i, j \in 1..Len(s) : s[i].w = s[j].w => i = j
  <2>1. /\ s \in Seq(Process) /\ Len(s) = n - 1
        /\ \A i \in 1..(n - 1) : s[i] = IF i < k THEN stack[i] ELSE stack[i + 1]
    BY <1>4, <1>5
  <2> HIDE DEF n
  <2>2. /\ n - 1 \in 1..(n - 1) /\ ~(n - 1 < k) /\ (n - 1) + 1 = n
        /\ Len(s) \in Nat /\ Len(s) + 1 <= MaxProcess
    BY <1>1, <2>1
  <2>3. s[n - 1] = stack[n]
    BY <2>1, <2>2
  <2>4. ASSUME NEW i \in 1..(Len(s) - 1)
        PROVE  \E j \in 1..(n - 1) : s[i] = stack[j]
    <3>1. i \in 1..(n - 1) /\ i + 1 \in 1..(n - 1)
      BY <1>1, <2>1
    <3> QED
      BY <2>1, <3>1
  <2>5. ASSUME NEW i \in 1..Len(s), NEW j \in 1..Len(s), s[i].w = s[j].w
        PROVE  i = j
    <3> DEFINE f(x) == IF x < k THEN x ELSE x + 1
    <3>1. /\ f(i) \in 1..n /\ f(j) \in 1..n /\ s[i] = stack[f(i)] /\ s[j] = stack[f(j)]
          /\ (f(i) = f(j) => i = j)
      BY <1>1, <2>1
    <3> HIDE DEF f
    <3> QED
      BY <1>2, <2>5, <3>1 DEF n
  <2> QED
    BY <2>1, <2>2, <2>3, <2>4, <2>5
<1> HIDE DEF n
<1>6. (s = stack /\ n < MaxProcess) \/ \E k \in 1..(n - 1) : s = RemoveAt(stack, k)
  BY DEF Decimated, n
<1> QED
  BY <1>3, <1>5, <1>6 DEF n

(* Killing workers only ends those that work. *)
LEMMA KillFacts ==
  ASSUME Inv, NEW g,
         status' = [w \in Workers |-> IF w \in g /\ status[w] \in Working THEN "dead" ELSE status[w]]
  PROVE  /\ status' \in [Workers -> Statuses]
         /\ \A w \in Workers :
              /\ w \notin g => status'[w] = status[w]
              /\ status'[w] \in Working => status'[w] = status[w]
              /\ status'[w] # "panicked"
              /\ status'[w] = "unborn" <=> status[w] = "unborn"
              /\ status'[w] = "cut" <=> status[w] = "cut"
BY DEF Inv, Typed, AnswersInv, Statuses, Working, Ended

(* A child is received: it is on top, and its parent waits for it. *)
LEMMA ChildReceivedKeeps ==
  ASSUME Inv, Listening, Forked, NEW c \in Workers, c = child[Top],
         NEW s \in Decimated(stack), NEW g,
         g = {stack[i].w : i \in DOMAIN stack} \ {s[i].w : i \in DOMAIN s},
         stack' = Append(s, [w |-> c, fd |-> TRUE]),
         status' = [w \in Workers |-> IF w \in g /\ status[w] \in Working THEN "dead" ELSE status[w]],
         kept' \subseteq kept, input' = <<>>, passed' = None,
         up' = [up EXCEPT ![Top] = <<>>], down' = [down EXCEPT ![Top] = Append(@, "DONE")],
         UNCHANGED <<child, exited, aborted>>
  PROVE  Inv'
<1> DEFINE p == [w |-> c, fd |-> TRUE]
           n == Len(s)
<1>1. /\ stack # <<>> /\ Top \in Workers /\ TopOpen
      /\ Top = stack[Len(stack)].w /\ Len(stack) \in 1..Len(stack) /\ stack[Len(stack)].fd
      /\ Len(stack) \in Nat
  <2>1. stack # <<>> /\ TopOpen
    BY DEF Listening, TopOpen
  <2> QED
    BY <2>1, TopOfStack DEF TopOpen
<1>2. /\ c \in Workers /\ c # Top /\ Flushes(down[c])
      /\ \A i \in 1..Len(stack) : stack[i].w # c
      /\ status[c] \in {"computing", "READ", "APND", "dead"}
      /\ c \in Talking /\ status[Top] = "forking" /\ Flushes(down[Top])
      /\ down[Top] \in Seq(Answers)
  BY <1>1, ForkedWaits DEF Inv, ChildInv, Talking, Typed
<1>3. /\ s \in Seq(Process) /\ n \in Nat /\ n \in 1..n /\ n + 1 <= MaxProcess
      /\ s[n] = stack[Len(stack)]
      /\ \A i \in 1..(n - 1) : \E j \in 1..(Len(stack) - 1) : s[i] = stack[j]
      /\ \A i, j \in 1..n : s[i].w = s[j].w => i = j
  BY <1>1, DecimatedKeeps
<1>4. p \in Process /\ p.w = c /\ p.fd = TRUE
  BY <1>2 DEF Process
<1>5. /\ stack' = Append(s, p) /\ stack' \in Seq(Process) /\ stack' # <<>>
      /\ Len(stack') = n + 1
      /\ \A i \in 1..n : stack'[i] = s[i]
      /\ stack'[n + 1] = p
  <2>1. stack' = Append(s, p)
    OBVIOUS
  <2> HIDE DEF p
  <2> QED
    BY <1>3, <1>4, <2>1, AppendProperties
<1>6. \A i \in 1..n : \E j \in 1..Len(stack) : s[i] = stack[j]
  <2> TAKE i \in 1..n
  <2>1. CASE i = n
    BY <1>1, <1>3, <2>1
  <2>2. CASE i # n
    <3>1. i \in 1..(n - 1)
      BY <1>3, <2>2
    <3>2. \A j \in 1..(Len(stack) - 1) : j \in 1..Len(stack)
      BY <1>1
    <3> QED
      BY <1>3, <3>1, <3>2
  <2> QED
    BY <2>1, <2>2
<1> HIDE DEF p
<1>7. Top' = c /\ TopOpen'
  BY <1>4, <1>5 DEF Top, Last, TopOpen
<1>8. /\ \A i \in 1..n : s[i].w \in Workers /\ s[i].w \notin g /\ s[i].w # c
      /\ c \notin g
  <2>1. DOMAIN s = 1..n /\ DOMAIN stack = 1..Len(stack)
    <3>1. stack \in Seq(Process)
      BY DEF Inv, Typed
    <3> QED
      BY <1>3, <3>1
  <2>2. \A i \in 1..n : s[i] \in Process
    BY <1>3
  <2>3. c \notin g
    BY <1>2, <2>1
  <2>4. \A i \in 1..n : s[i].w \notin g
    BY <2>1
  <2> QED
    BY <1>2, <1>6, <2>2, <2>3, <2>4 DEF Process
<1>9. /\ status' \in [Workers -> Statuses]
      /\ \A w \in Workers :
           /\ w \notin g => status'[w] = status[w]
           /\ status'[w] \in Working => status'[w] = status[w]
           /\ status'[w] # "panicked"
           /\ status'[w] = "unborn" <=> status[w] = "unborn"
           /\ status'[w] = "cut" <=> status[w] = "cut"
  BY KillFacts
<1>10. /\ "DONE" \in Answers /\ Append(down[Top], "DONE") \in Seq(Answers)
       /\ Awaited("forking", Append(down[Top], "DONE"))
  <2>1. "DONE" \in Answers
    BY DEF Answers
  <2>2. <<"forking", "DONE">> \in Expected \cup {<<"forking", "DONE">>}
    OBVIOUS
  <2> QED
    BY <1>2, <2>1, <2>2, AnswerAppended
<1>11. /\ \A v \in Workers \ {Top} : up'[v] = up[v] /\ down'[v] = down[v]
       /\ up'[Top] = <<>> /\ down'[Top] = Append(down[Top], "DONE")
  BY <1>1 DEF Inv, Typed
<1>12. /\ Stream(c)' = up[c] /\ Stream(c) = up[c]
       /\ \A v \in Workers \ {c, Top} : Stream(v)' = Stream(v)
       /\ \A v \in Workers : v = Top => Stream(v)' = <<>>
  <2>1. up[c] \in Seq(Word)
    BY <1>2, StreamTyped
  <2>2. <<>> \o up[c] = up[c]
    BY <2>1, ConcatEmptySeq
  <2>3. Stream(c)' = up[c]
    BY <1>2, <1>5, <1>7, <1>11, <2>2 DEF Stream, Heard
  <2>4. Stream(c) = up[c]
    BY <1>2 DEF Stream, Heard
  <2>5. \A v \in Workers \ {c, Top} : Stream(v)' = Stream(v)
    BY <1>7, <1>11 DEF Stream, Heard
  <2>6. \A v \in Workers : v = Top => Stream(v)' = <<>>
    BY <1>2, <1>7, <1>11 DEF Stream, Heard
  <2> QED
    BY <2>3, <2>4, <2>5, <2>6
<1>13. ~Forked'
  <2>1. ASSUME NEW i \in 1..Len(up[c]), up[c][i].tag = "CHLD"
        PROVE  FALSE
    <3>1. status[c] \in Says["CHLD"]
      BY <1>2, <1>12, <2>1 DEF Inv, Conversation, Consistent
    <3> QED
      BY <1>2, <3>1 DEF Says
  <2>2. Stream(Top)' = up[c]
    <3>1. up[c] \in Seq(Word)
      BY <1>2, StreamTyped
    <3>2. <<>> \o up[c] = up[c]
      BY <3>1, ConcatEmptySeq
    <3>3. up'[Top'] = up[c]
      BY <1>2, <1>7, <1>11
    <3> QED
      BY <1>5, <3>2, <3>3 DEF Stream, Heard
  <2> QED
    BY <2>1, <2>2 DEF Forked
<1>14. Talking' \subseteq {s[i].w : i \in {j \in 1..n : s[j].fd}} \cup {c}
  <2>1. ASSUME NEW v \in Connected'
        PROVE  v \in {s[i].w : i \in {j \in 1..n : s[j].fd}} \cup {c}
    <3>1. PICK i \in 1..Len(stack') : stack'[i].fd /\ v = stack'[i].w
      BY <2>1 DEF Connected
    <3>2. CASE i = n + 1
      BY <1>4, <1>5, <3>1, <3>2
    <3>3. CASE i # n + 1
      <4>1. i \in 1..n
        BY <1>3, <1>5, <3>3
      <4> QED
        BY <1>5, <3>1, <4>1
    <3> QED
      BY <3>2, <3>3
  <2> QED
    BY <1>13, <2>1 DEF Talking
<1>15. Typed'
  <2>1. Len(stack') <= MaxProcess
    BY <1>3, <1>5
  <2>2. up' \in [Workers -> Seq(Word)] /\ down' \in [Workers -> Seq(Answers)]
    <3>1. <<>> \in Seq(Word)
      BY EmptySeq
    <3> QED
      BY <1>1, <1>10, <3>1 DEF Inv, Typed
  <2>3. input' \in Seq(Word) /\ Len(input') <= BufSize
    BY EmptySeq, ChannelAssumption
  <2> QED
    BY <1>5, <1>9, <2>1, <2>2, <2>3 DEF Inv, Typed
<1>16. StackInv'
  <2>1. \A i \in 1..(n + 1) : i = n + 1 \/ i \in 1..n
    BY <1>3
  <2>2. ASSUME NEW i \in 1..(n + 1), NEW j \in 1..(n + 1), stack'[i].w = stack'[j].w
        PROVE  i = j
    BY <1>3, <1>4, <1>5, <1>8, <2>1, <2>2
  <2>3. ASSUME NEW i \in 1..(n + 1)
        PROVE  status'[stack'[i].w] \notin {"unborn", "cut"}
    <3>1. CASE i = n + 1
      BY <1>2, <1>4, <1>5, <1>8, <1>9, <3>1
    <3>2. CASE i \in 1..n
      <4>1. status[s[i].w] \notin {"unborn", "cut"}
        BY <1>6, <3>2 DEF Inv, StackInv
      <4> QED
        BY <1>5, <1>8, <1>9, <3>2, <4>1
    <3> QED
      BY <2>1, <3>1, <3>2
  <2>4. ASSUME NEW i \in 1..n
        PROVE  /\ s[i].fd
               /\ status'[s[i].w] \in {"forking", "resting", "READ"}
               /\ Reads(up'[s[i].w])
               /\ status'[s[i].w] = "READ" => Flushes(down'[s[i].w])
    <3>1. CASE i = n
      <4>1. s[i].fd /\ s[i].w = Top /\ status'[Top] = "forking" /\ up'[Top] = <<>>
        BY <1>1, <1>2, <1>3, <1>8, <1>9, <1>11, <3>1
      <4> QED
        BY <4>1 DEF Reads
    <3>2. CASE i # n
      <4>1. i \in 1..(n - 1)
        BY <1>3, <3>2
      <4>2. PICK j \in 1..(Len(stack) - 1) : s[i] = stack[j]
        BY <1>3, <4>1
      <4>3. s[i].w \in Workers \ {Top} /\ status'[s[i].w] = status[s[i].w]
        BY <1>8, <1>9, <4>2, BelowTop
      <4>4. up'[s[i].w] = up[s[i].w] /\ down'[s[i].w] = down[s[i].w]
        BY <1>11, <4>3
      <4>5. /\ s[i].fd
            /\ status[s[i].w] \in {"forking", "resting", "READ"}
            /\ Reads(up[s[i].w])
            /\ status[s[i].w] = "READ" => Flushes(down[s[i].w])
        BY <4>2, BelowTop
      <4> QED
        BY <4>3, <4>4, <4>5
    <3> QED
      BY <3>1, <3>2
  <2>5. ~exited'
    BY <1>1 DEF Inv, StackInv
  <2>6. Len(stack') - 1 = n
    BY <1>3, <1>5
  <2>7. \A i \in 1..n :
          /\ stack'[i].fd
          /\ status'[stack'[i].w] \in {"forking", "resting", "READ"}
          /\ Reads(up'[stack'[i].w])
          /\ status'[stack'[i].w] = "READ" => Flushes(down'[stack'[i].w])
    BY <1>5, <2>4
  <2> QED
    BY <1>5, <1>7, <2>2, <2>3, <2>5, <2>6, <2>7 DEF StackInv
<1>17. ChildInv'
  <2>1. \A v \in Workers : child[v] # None => status'[child[v]] # "unborn"
    BY <1>9 DEF Inv, ChildInv, Typed
  <2>2. \A v \in kept' : status'[v] # "cut"
    BY <1>9 DEF Inv, ChildInv, Typed
  <2>3. \A v, x \in Workers : child[v] = child[x] /\ child[v] # None => v = x
    BY DEF Inv, ChildInv
  <2> QED
    BY <1>13, <2>1, <2>2, <2>3 DEF ChildInv
<1>18. AnswersInv'
  <2>1. status'[Top] = "forking"
    BY <1>1, <1>2, <1>3, <1>8, <1>9
  <2> QED
    BY <1>9, <1>10, <1>11, <2>1, SMTT(30) DEF Inv, AnswersInv
<1>19. ASSUME NEW v \in Talking'
       PROVE  Conversation(v)'
  <2>1. CASE v = c
    BY <1>2, <1>8, <1>9, <1>11, <1>12, <2>1 DEF Inv, Conversation
  <2>2. CASE v = Top
    BY <1>1, <1>12, <2>2, NothingSaid DEF Conversation
  <2>3. CASE v # c /\ v # Top
    <3>1. PICK i \in 1..n : v = s[i].w /\ s[i].fd
      BY <1>14, <2>3
    <3>2. v \in Workers \ {c, Top} /\ v \notin g /\ v \in Talking
      <4>1. v \in Connected
        BY <1>6, <3>1 DEF Connected
      <4> QED
        BY <1>8, <2>3, <3>1, <4>1 DEF Talking
    <3> QED
      BY <1>9, <1>11, <1>12, <3>2 DEF Inv, Conversation
  <2> QED
    BY <2>1, <2>2, <2>3
<1>20. DescriptorInv'
  <2>1. 1..Len(input') = {}
    <3>1. Len(input') = 0
      OBVIOUS
    <3> QED
      BY <3>1
  <2>2. ~PopForking => DescriptorsMatch /\ DescriptorsMatch'
    BY DEF Inv, DescriptorInv, DescriptorsMatch
  <2> QED
    BY <2>1, <2>2 DEF DescriptorInv
<1> QED
  BY <1>15, <1>16, <1>17, <1>18, <1>19, <1>20 DEF Inv

LEMMA StepChildKeeps == Inv /\ StepChild => Inv'
<1> SUFFICES ASSUME Inv, StepChild
             PROVE  Inv'
  OBVIOUS
<1>1. /\ Listening /\ Forked /\ child[Top] \in Workers
      /\ Carried(up[Top]) \subseteq {child[Top]}
      /\ Carried(up[Top]) = {} => passed = child[Top]
      /\ Carried(up[Top]) # {} => PopForking \/ passed = None
  BY ChildFound DEF StepChild, Pending
<1> DEFINE fd == IF Carried(up[Top]) = {} THEN passed ELSE CHOOSE c \in Carried(up[Top]) : TRUE
<1>2. fd = child[Top] /\ fd # None
  <2>1. Carried(up[Top]) # {} => (CHOOSE c \in Carried(up[Top]) : TRUE) \in Carried(up[Top])
    OBVIOUS
  <2> QED
    BY <1>1, <2>1, ChannelAssumption
<1>3. CASE Carried(up[Top]) # {} /\ passed # None /\ Abort("two descriptors")
  BY <1>1, <1>3, AbortKeeps
<1>4. CASE /\ input' = Reset(SubSeq(input, Size["CHLD"] + 1, Len(input)))
           /\ up' = [up EXCEPT ![Top] = <<>>]
           /\ passed' = None
           /\ \E s \in Decimated(stack) :
                LET gone == {stack[i].w : i \in DOMAIN stack} \ {s[i].w : i \in DOMAIN s}
                IN /\ stack' = Append(s, [w |-> fd, fd |-> TRUE])
                   /\ status' = [w \in Workers |-> IF w \in gone /\ status[w] \in Working
                                                   THEN "dead" ELSE status[w]]
                   /\ kept' = kept \ {child[w] : w \in gone}
           /\ Reply("DONE")
           /\ UNCHANGED <<child, exited, aborted>>
  <2>1. PICK s \in Decimated(stack) : \E g, c :
          /\ g = {stack[i].w : i \in DOMAIN stack} \ {s[i].w : i \in DOMAIN s}
          /\ c \in Workers /\ c = child[Top]
          /\ stack' = Append(s, [w |-> c, fd |-> TRUE])
          /\ status' = [w \in Workers |-> IF w \in g /\ status[w] \in Working
                                          THEN "dead" ELSE status[w]]
          /\ kept' \subseteq kept
    BY <1>1, <1>2, <1>4
  <2>2. PICK g, c :
          /\ g = {stack[i].w : i \in DOMAIN stack} \ {s[i].w : i \in DOMAIN s}
          /\ c \in Workers /\ c = child[Top]
          /\ stack' = Append(s, [w |-> c, fd |-> TRUE])
          /\ status' = [w \in Workers |-> IF w \in g /\ status[w] \in Working
                                          THEN "dead" ELSE status[w]]
          /\ kept' \subseteq kept
    BY <2>1
  <2> QED
    BY <1>1, <1>4, <2>1, <2>2, ChildReceivedKeeps DEF Reset, Reply
<1> QED
  BY <1>2, <1>3, <1>4 DEF StepChild

-----------------------------------------------------------------------------
(* The driver pops processes, starts, and ends *)

LEMMA RollbackKeeps ==
  ASSUME Inv, NEW n \in 0..MaxProcess, Rollback(n)
  PROVE  Inv'
<1> DEFINE g == {stack[i].w : i \in {j \in (n + 1)..Len(stack) : stack[j].fd}}
<1>1. /\ n \in Nat /\ n < Len(stack) /\ n <= MaxProcess /\ MaxProcess \in Nat
      /\ stack \in Seq(Process) /\ Len(stack) \in Nat /\ stack # <<>>
  BY ChannelAssumption DEF Rollback, Inv, Typed
<1>2. /\ status' = [w \in Workers |-> IF w \in g /\ status[w] \in Working THEN "dead" ELSE status[w]]
      /\ kept' \subseteq kept /\ UNCHANGED <<child, up, down, passed, exited, aborted>>
      /\ stack' = SubSeq(stack, 1, n) /\ input' = <<>>
  BY DEF Rollback, Killed, Reset
<1> HIDE DEF g
<1>3. /\ stack' \in Seq(Process) /\ Len(stack') = n
      /\ \A i \in 1..n : stack'[i] = stack[i]
  <2>1. \A i \in 1..n : stack[i] \in Process
    BY <1>1
  <2>2. /\ SubSeq(stack, 1, n) \in Seq(Process)
        /\ Len(SubSeq(stack, 1, n)) = IF 1 <= n THEN n - 1 + 1 ELSE 0
        /\ \A i \in 1..(n - 1 + 1) : SubSeq(stack, 1, n)[i] = stack[1 + i - 1]
    BY <1>1, <2>1, SubSeqProperties
  <2>3. /\ (IF 1 <= n THEN n - 1 + 1 ELSE 0) = n /\ n - 1 + 1 = n
        /\ \A i \in 1..n : 1 + i - 1 = i
    BY <1>1
  <2> QED
    BY <1>2, <2>2, <2>3
<1>4. \A i \in 1..n : i \in 1..(Len(stack) - 1) /\ i \in 1..Len(stack)
  BY <1>1
<1>5. /\ \A i \in 1..n : /\ stack[i].w \in Workers /\ stack[i].w \notin g /\ stack[i].fd
                        /\ stack[i].w # Top /\ stack[i].w \in Talking
      /\ \A i, j \in 1..n : stack[i].w = stack[j].w => i = j
  <2>1. \A i, j \in 1..Len(stack) : stack[i].w = stack[j].w => i = j
    BY DEF Inv, StackInv
  <2>2. ASSUME NEW i \in 1..n
        PROVE  stack[i].w \notin g
    <3>1. \A j \in (n + 1)..Len(stack) : j \in 1..Len(stack) /\ j # i
      BY <1>1
    <3> QED
      BY <1>4, <2>1, <3>1 DEF g
  <2> QED
    BY <1>4, <2>1, <2>2, BelowTop
<1>6. /\ status' \in [Workers -> Statuses]
      /\ \A w \in Workers :
           /\ w \notin g => status'[w] = status[w]
           /\ status'[w] \in Working => status'[w] = status[w]
           /\ status'[w] # "panicked"
           /\ status'[w] = "unborn" <=> status[w] = "unborn"
           /\ status'[w] = "cut" <=> status[w] = "cut"
  BY <1>2, KillFacts
<1>7. n > 0 => TopOpen' /\ Top' = stack[n].w /\ Top' \in Workers /\ stack' # <<>>
  <2> SUFFICES ASSUME n > 0
               PROVE  TopOpen' /\ Top' = stack[n].w /\ Top' \in Workers /\ stack' # <<>>
    OBVIOUS
  <2>1. n \in 1..n /\ stack'[Len(stack')] = stack[n] /\ stack' # <<>>
    BY <1>1, <1>3
  <2> QED
    BY <1>5, <2>1 DEF TopOpen, Top, Last
<1>8. n = 0 => stack' = <<>>
  BY <1>3
<1>9. \A v \in Workers \ {Top} : Stream(v)' = up[v] /\ Stream(v) = up[v]
  <2> TAKE v \in Workers \ {Top}
  <2>1. up[v] \in Seq(Word)
    BY StreamTyped
  <2>2. <<>> \o up[v] = up[v]
    BY <2>1, ConcatEmptySeq
  <2> QED
    BY <1>2, <2>2 DEF Stream, Heard
<1>10. ~Forked'
  <2> SUFFICES ASSUME Forked'
               PROVE  FALSE
    OBVIOUS
  <2>1. n > 0
    BY <1>1, <1>8 DEF Forked, TopOpen
  <2>2. n \in 1..n /\ Top' = stack[n].w
    BY <1>1, <1>7, <2>1
  <2>3. Stream(Top)' = up[stack[n].w]
    <3>1. up[stack[n].w] \in Seq(Word)
      BY <1>5, <2>2, StreamTyped
    <3>2. <<>> \o up[stack[n].w] = up[stack[n].w]
      BY <3>1, ConcatEmptySeq
    <3> QED
      BY <1>2, <1>7, <2>1, <2>2, <3>2 DEF Stream, Heard
  <2>4. Reads(up[stack[n].w])
    BY <1>4, <2>2, BelowTop
  <2> QED
    BY <2>3, <2>4 DEF Forked, Reads
<1>11. ASSUME NEW v \in Talking'
       PROVE  v \in Talking /\ v \in Workers \ {Top} /\ v \notin g
  <2>1. v \in Connected'
    BY <1>10 DEF Talking
  <2>2. PICK i \in 1..Len(stack') : v = stack'[i].w
    BY <2>1 DEF Connected
  <2> QED
    BY <1>3, <1>5, <2>2
<1>12. Typed'
  <2>1. input' \in Seq(Word) /\ Len(input') <= BufSize
    BY <1>2, EmptySeq, ChannelAssumption
  <2> QED
    BY <1>1, <1>2, <1>3, <1>6, <2>1 DEF Inv, Typed
<1>13. StackInv'
  <2>1. \A i, j \in 1..n : stack'[i].w = stack'[j].w => i = j
    BY <1>3, <1>5
  <2>2. \A i \in 1..n : status'[stack'[i].w] \notin {"unborn", "cut"}
    <3> TAKE i \in 1..n
    <3>1. status[stack[i].w] \notin {"unborn", "cut"} /\ stack'[i] = stack[i]
      BY <1>3, <1>4 DEF Inv, StackInv
    <3> QED
      BY <1>5, <1>6, <3>1
  <2>3. \A i \in 1..(n - 1) :
          /\ stack'[i].fd
          /\ status'[stack'[i].w] \in {"forking", "resting", "READ"}
          /\ Reads(up'[stack'[i].w])
          /\ status'[stack'[i].w] = "READ" => Flushes(down'[stack'[i].w])
    <3> TAKE i \in 1..(n - 1)
    <3>1. i \in 1..n /\ i \in 1..(Len(stack) - 1)
      BY <1>1, <1>4
    <3>2. stack'[i] = stack[i] /\ status'[stack[i].w] = status[stack[i].w]
      BY <1>3, <1>5, <1>6, <3>1
    <3> QED
      BY <1>2, <3>1, <3>2, BelowTop
  <2>4. stack' # <<>> => TopOpen'
    BY <1>1, <1>7, <1>8
  <2>5. ~exited'
    BY <1>1, <1>2 DEF Inv, StackInv
  <2> QED
    BY <1>2, <1>3, <2>1, <2>2, <2>3, <2>4, <2>5 DEF StackInv
<1>14. ChildInv'
  <2>1. \A v \in Workers : child[v] # None => status'[child[v]] # "unborn"
    BY <1>6 DEF Inv, ChildInv, Typed
  <2>2. \A v \in kept' : status'[v] # "cut"
    BY <1>2, <1>6 DEF Inv, ChildInv, Typed
  <2>3. \A v, x \in Workers : child[v] = child[x] /\ child[v] # None => v = x
    BY DEF Inv, ChildInv
  <2> QED
    BY <1>2, <1>10, <2>1, <2>2, <2>3 DEF ChildInv
<1>15. AnswersInv'
  BY <1>2, <1>6 DEF Inv, AnswersInv
<1>16. ASSUME NEW v \in Talking'
       PROVE  Conversation(v)'
  BY <1>2, <1>6, <1>9, <1>11 DEF Inv, Conversation
<1>17. DescriptorInv'
  <2>1. 1..Len(input') = {}
    <3>1. Len(input') = 0
      BY <1>2
    <3> QED
      BY <3>1
  <2>2. ~PopForking => passed' = None /\ DescriptorsMatch'
    BY <1>2 DEF Rollback, Inv, DescriptorInv, DescriptorsMatch
  <2> QED
    BY <2>1, <2>2 DEF DescriptorInv
<1> QED
  BY <1>12, <1>13, <1>14, <1>15, <1>16, <1>17 DEF Inv

(* With nobody to talk to, what is left of the invariant is about workers. *)
LEMMA AloneKeeps ==
  ASSUME Typed', stack' = <<>>, input' = <<>>, AnswersInv', DescriptorInv',
         \A v, x \in Workers : child'[v] = child'[x] /\ child'[v] # None => v = x,
         \A v \in Workers : child'[v] # None => status'[child'[v]] # "unborn",
         \A v \in kept' : status'[v] # "cut"
  PROVE  Inv'
<1>1. Len(stack') = 0 /\ 1..Len(stack') = {} /\ 1..(Len(stack') - 1) = {}
  <2>1. Len(stack') = 0
    OBVIOUS
  <2> QED
    BY <2>1
<1>2. ~Forked' /\ Talking' = {}
  BY <1>1 DEF Forked, TopOpen, Talking, Connected
<1>3. StackInv'
  BY <1>1 DEF StackInv
<1>4. ChildInv'
  BY <1>2 DEF ChildInv
<1> QED
  BY <1>2, <1>3, <1>4 DEF Inv

LEMMA ExitKeeps == Inv /\ Exit => Inv'
<1> SUFFICES ASSUME Inv, Exit
             PROVE  Inv'
  OBVIOUS
<1>1. /\ stack' = <<>> /\ input' = <<>> /\ passed' = None /\ exited' = TRUE
      /\ UNCHANGED <<status, child, kept, up, down, aborted>>
  BY DEF Exit, workers
<1>2. Len(stack') = 0 /\ Len(input') = 0 /\ 1..Len(input') = {}
  BY <1>1
<1>3. Typed'
  <2>1. stack' \in Seq(Process) /\ input' \in Seq(Word)
    BY <1>1, EmptySeq
  <2>2. Len(stack') <= MaxProcess /\ Len(input') <= BufSize
    BY <1>2, ChannelAssumption
  <2> QED
    BY <1>1, <2>1, <2>2 DEF Inv, Typed
<1>4. AnswersInv'
  BY <1>1 DEF Inv, AnswersInv
<1>5. DescriptorInv'
  BY <1>1, <1>2 DEF Inv, DescriptorInv, DescriptorsMatch
<1> QED
  BY <1>1, <1>3, <1>4, <1>5, AloneKeeps DEF Inv, ChildInv

LEMMA LaunchKeeps == Inv /\ Launch => Inv'
<1> SUFFICES ASSUME Inv, Launch
             PROVE  Inv'
  OBVIOUS
<1>1. PICK w \in Unborn : stack' = <<[w |-> w, fd |-> TRUE]>> /\ Becomes(w, "computing")
  BY DEF Launch
<1>2. /\ stack = <<>> /\ ~exited /\ w \in Workers /\ status[w] = "unborn"
      /\ up[w] = <<>> /\ down[w] = <<>> /\ input = <<>>
      /\ UNCHANGED <<child, kept, up, down, input, passed, exited, aborted>>
  BY DEF Launch, Unborn, Inv, AnswersInv, StackInv, TopOpen
<1> DEFINE p == [w |-> w, fd |-> TRUE]
<1>3. p \in Process /\ p.w = w /\ p.fd = TRUE
  BY <1>2 DEF Process
<1>4. stack' = <<p>>
  BY <1>1
<1> HIDE DEF p
<1>5. /\ stack' \in Seq(Process) /\ Len(stack') = 1 /\ stack'[1] = p /\ stack' # <<>>
  BY <1>3, <1>4
<1>6. Top' = w /\ TopOpen'
  BY <1>3, <1>5 DEF Top, Last, TopOpen
<1>7. /\ \A v \in Workers \ {w} : status'[v] = status[v]
      /\ status'[w] = "computing" /\ status' \in [Workers -> Statuses]
  BY <1>1, <1>2 DEF Becomes, Inv, Typed, Statuses, Working
<1>8. Stream(w)' = <<>> /\ Stream(Top)' = <<>>
  <2>1. Heard(w, up[w])' = <<>>
    BY <1>2 DEF Heard
  <2> QED
    BY <1>2, <1>6, <2>1 DEF Stream, Heard
<1>9. ~Forked'
  BY <1>8 DEF Forked
<1>10. Talking' = {w}
  <2>1. \A i : i \in 1..Len(stack') <=> i = 1
    BY <1>5
  <2> QED
    BY <1>3, <1>5, <1>9, <2>1 DEF Talking, Connected
<1>11. Typed'
  <2>1. Len(stack') <= MaxProcess
    BY <1>5, ChannelAssumption
  <2> QED
    BY <1>2, <1>5, <1>7, <2>1 DEF Inv, Typed
<1>12. StackInv'
  BY <1>2, <1>3, <1>5, <1>6, <1>7 DEF StackInv
<1>13. ChildInv'
  <2>1. \A v \in Workers : child[v] # None => status'[child[v]] # "unborn"
    BY <1>7 DEF Inv, ChildInv, Typed
  <2>2. \A v \in kept' : status'[v] # "cut"
    BY <1>2, <1>7 DEF Inv, ChildInv, Typed
  <2>3. \A v, x \in Workers : child[v] = child[x] /\ child[v] # None => v = x
    BY DEF Inv, ChildInv
  <2> QED
    BY <1>2, <1>9, <2>1, <2>2, <2>3 DEF ChildInv
<1>14. AnswersInv'
  <2>1. Awaited("computing", <<>>)
    BY DEF Awaited
  <2> QED
    BY <1>2, <1>7, <2>1 DEF Inv, AnswersInv
<1>15. ASSUME NEW v \in Talking'
       PROVE  Conversation(v)'
  BY <1>2, <1>8, <1>10, NothingSaid DEF Conversation
<1>16. DescriptorInv'
  BY <1>2 DEF Inv, DescriptorInv, DescriptorsMatch
<1> QED
  BY <1>11, <1>12, <1>13, <1>14, <1>15, <1>16 DEF Inv

LEMMA StutterKeeps == Inv /\ UNCHANGED vars => Inv'
<1> SUFFICES ASSUME Inv, UNCHANGED vars
             PROVE  Inv'
  OBVIOUS
<1>1. /\ stack' = stack /\ status' = status /\ child' = child /\ kept' = kept /\ up' = up
      /\ down' = down /\ input' = input /\ passed' = passed /\ exited' = exited
      /\ aborted' = aborted
  BY DEF vars
<1>2. /\ Top' = Top /\ TopOpen' = TopOpen /\ Connected' = Connected
      /\ Stream(Top)' = Stream(Top) /\ \A w : Conversation(w)' = Conversation(w)
  BY <1>1 DEF Top, TopOpen, Connected, Stream, Heard, Conversation
<1>3. (Forked' <=> Forked) /\ Talking' = Talking
  <2>1. Forked' <=> Forked
    BY <1>2 DEF Forked
  <2> QED
    BY <1>1, <1>2, <2>1 DEF Talking
<1>4. Typed' /\ AnswersInv' /\ DescriptorInv'
  BY <1>1 DEF Inv, Typed, AnswersInv, DescriptorInv, DescriptorsMatch
<1>5. StackInv' /\ ChildInv'
  BY <1>1, <1>2, <1>3 DEF Inv, StackInv, ChildInv
<1> QED
  BY <1>2, <1>3, <1>4, <1>5 DEF Inv

LEMMA InitInv == Init => Inv
<1> SUFFICES ASSUME Init
             PROVE  Inv
  OBVIOUS
<1>1. Len(stack) = 0 /\ Len(input) = 0 /\ 1..Len(stack) = {} /\ 1..(Len(stack) - 1) = {} /\ 1..Len(input) = {}
  BY DEF Init
<1>2. Typed
  <2>1. stack \in Seq(Process) /\ input \in Seq(Word)
    BY EmptySeq DEF Init
  <2>2. Len(stack) <= MaxProcess /\ Len(input) <= BufSize
    BY <1>1, ChannelAssumption
  <2>3. /\ up \in [Workers -> Seq(Word)] /\ down \in [Workers -> Seq(Answers)]
        /\ status \in [Workers -> Statuses]
    BY EmptySeq DEF Init, Statuses
  <2> QED
    BY <2>1, <2>2, <2>3 DEF Typed, Init
<1>3. ~Forked /\ Talking = {}
  BY <1>1 DEF Forked, TopOpen, Talking, Connected, Init
<1>4. StackInv
  BY <1>1 DEF StackInv, Init
<1>5. ChildInv
  BY <1>3 DEF ChildInv, Init
<1>6. AnswersInv
  BY DEF AnswersInv, Init, Working
<1>7. DescriptorInv
  BY <1>1 DEF DescriptorInv, DescriptorsMatch, Init
<1> QED
  BY <1>2, <1>3, <1>4, <1>5, <1>6, <1>7 DEF Inv

LEMMA NextInv == Inv /\ [Next]_vars => Inv'
<1> SUFFICES ASSUME Inv, [Next]_vars
             PROVE  Inv'
  OBVIOUS
<1>1. CASE Launch \/ StepSeen \/ StepRead \/ StepAppend \/ StepChild \/ StepEnd \/ Peek
           \/ AskFlush \/ Exit
  BY <1>1, LaunchKeeps, StepSeenKeeps, StepReadKeeps, StepAppendKeeps, StepChildKeeps,
     StepEndKeeps, PeekKeeps, AskFlushKeeps, ExitKeeps
<1>2. CASE \E n \in 0..MaxProcess : Rollback(n)
  BY <1>2, RollbackKeeps
<1>3. ASSUME NEW w \in Workers, Tell(w) \/ Work(w)
      PROVE  Inv'
  BY <1>3, TellKeeps, QueryKeeps, FinishKeeps, ReceiveKeeps, AckedKeeps, ResumeKeeps,
     CutOffKeeps DEF Work
<1>4. CASE UNCHANGED vars
  BY <1>4, StutterKeeps
<1> QED
  BY <1>1, <1>2, <1>3, <1>4 DEF Next

-----------------------------------------------------------------------------
(* Theorems *)

LEMMA Invariance == Spec => []Inv
BY InitInv, NextInv, PTL DEF Spec

(* The state of the protocol is well formed: the driver never has more       *)
(* processes, or more words in its buffer, than it has room for.             *)
THEOREM ChannelTyped == Spec => []TypeOK
<1>1. Inv => TypeOK
  <2> SUFFICES ASSUME Inv
               PROVE  TypeOK
    OBVIOUS
  <2>1. stack \in Seq(Process)
    BY DEF Inv, Typed
  <2>2. \A i \in DOMAIN stack : stack[i] \in Process
    BY <2>1
  <2> QED
    BY <2>2 DEF Inv, Typed, TypeOK, Process, Statuses
<1> QED
  BY <1>1, Invariance, PTL

(* Two conversations are never mixed: what the driver is about to parse was  *)
(* sent by the worker on top and starts with a tag, whatever was popped,     *)
(* received or read ahead (channel_reset, pop_process, Q_CHLD).              *)
THEOREM ConversationsNotMixed == Spec => []BufferOfTop
<1>1. Inv => BufferOfTop
  <2> SUFFICES ASSUME Inv, aborted = "no", input # <<>>
               PROVE  /\ Listening /\ Head(input).k = 1
                      /\ \A i \in DOMAIN input : input[i].w = Top
    <3>1. input = <<>> => DOMAIN input = {}
      OBVIOUS
    <3> QED
      BY <3>1 DEF BufferOfTop
  <2>1. TopOpen /\ stack # <<>> /\ Listening
    BY DEF Inv, StackInv, TopOpen, Listening
  <2>2. /\ Top = stack[Len(stack)].w /\ Len(stack) \in 1..Len(stack) /\ stack[Len(stack)].fd
        /\ Stream(Top) \in Seq(Word) /\ input \in Seq(Word) /\ up[Top] \in Seq(Word)
        /\ Len(Stream(Top)) = Len(input) + Len(up[Top])
        /\ \A i \in 1..Len(input) : Stream(Top)[i] = input[i]
    BY <2>1, TopOfStack DEF TopOpen
  <2>3. Top \in Talking
    BY <2>2 DEF Talking, Connected
  <2>4. Messages(Top, child[Top], Stream(Top))
    BY <2>3 DEF Inv, Conversation, Consistent
  <2>5. /\ 1 \in 1..Len(input) /\ DOMAIN input = 1..Len(input)
        /\ \A i \in 1..Len(input) : i \in 1..Len(Stream(Top))
        /\ Head(input) = input[1] /\ Stream(Top) # <<>>
    BY <2>2
  <2>6. Stream(Top)[1].k = 1 /\ \A i \in 1..Len(input) : Stream(Top)[i].w = Top
    BY <2>4, <2>5 DEF Messages
  <2> QED
    BY <2>1, <2>2, <2>5, <2>6
<1> QED
  BY <1>1, Invariance, PTL

(* A worker that the driver talks to is never cut off because the end of its *)
(* socket was lost between its parent and the driver, and no worker receives *)
(* an answer that it does not expect (fork.c, texpresso_protocol.c).         *)
THEOREM WorkersNotLost == Spec => []WorkersEndWell
<1>1. Inv => WorkersEndWell
  <2> SUFFICES ASSUME Inv
               PROVE  WorkersEndWell
    OBVIOUS
  <2>1. stack \in Seq(Process)
    BY DEF Inv, Typed
  <2>2. DOMAIN stack = 1..Len(stack)
    BY <2>1
  <2> QED
    BY <2>2 DEF Inv, StackInv, AnswersInv, WorkersEndWell
<1> QED
  BY <1>1, Invariance, PTL

(* When no worker is popped between the moment its CHLD is peeked at and the *)
(* moment it is read, a descriptor comes with every CHLD and never finds     *)
(* another one waiting (sprotocol.c:89).                                     *)
THEOREM DescriptorsPaired == ~PopForking => (Spec => []DescriptorsMatch)
<1> SUFFICES ASSUME ~PopForking
             PROVE  Spec => []DescriptorsMatch
  OBVIOUS
<1>1. Inv => DescriptorsMatch
  BY DEF Inv, DescriptorInv
<1> QED
  BY <1>1, Invariance, PTL
==============================================================================
