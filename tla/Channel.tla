------------------------------- MODULE Channel -------------------------------
(***************************************************************************)
(* The socket protocol between the driver and its workers, and the passing *)
(* of a socket when a worker forks (src/src/frontend/sprotocol.c,          *)
(* engine_tex.c, src/src/engine/main/fork.c and texpresso_protocol.c).     *)
(*                                                                         *)
(* Every worker has a socket, but the driver has one channel: an input     *)
(* buffer that always holds what the worker on top of the stack sent, and  *)
(* the descriptor that came with the last bytes received.  A worker that   *)
(* is asked to fork sends a CHLD with the end of a new socket, waits for   *)
(* an acknowledgement, releases that end, and waits for its child to die.  *)
(*                                                                         *)
(* Abstractions.  A message is a number of words (of four bytes).  What is *)
(* written is flushed before the driver does anything else, so its output  *)
(* buffer is always empty here.  A SIGTERM ends a worker at once.          *)
(***************************************************************************)
EXTENDS Integers, Sequences, FiniteSets, FiniteSetsExt, SequencesExt

CONSTANTS
  Workers,     \* processes that may be created
  None,
  BufSize,     \* words of the input buffer (BUF_SIZE)
  MaxProcess,  \* MAX_PROCESS
  MaxSent,     \* bound: words not received yet
  MaxFlushes,  \* bound: FLSH not received yet
  PopForking   \* may a worker be popped once its CHLD was received by a peek?

VARIABLES
  stack,    \* processes: [w: the worker, fd: is the descriptor open?]
  status,   \* what each worker does
  child,    \* the last child of each worker
  kept,     \* workers whose driver's end is still open in their parent
  up,       \* words sent to the driver and not received
  down,     \* answers and FLSH sent to the worker and not received
  input,    \* words in the input buffer
  passed,   \* passed_fd: the worker at the other end, or None
  exited,   \* is the driver gone?
  aborted   \* "no", or the check that failed in the driver

vars == <<stack, status, child, kept, up, down, input, passed, exited, aborted>>
workers == <<status, child, kept, up, down>>

Working == {"computing", "READ", "APND", "forking", "resting"}
Ended == {"dead", "cut", "panicked"}

ASSUME ChannelAssumption ==
  /\ IsFiniteSet(Workers) /\ None \notin Workers
  /\ {BufSize, MaxProcess} \subseteq Nat \ {0} /\ {MaxSent, MaxFlushes} \subseteq Nat
  /\ PopForking \in BOOLEAN

-----------------------------------------------------------------------------
(* Messages *)

Size == [SEEN |-> 2, READ |-> 2, APND |-> 3, CHLD |-> 2]

(* The descriptor comes with the first word of a CHLD. *)
Words(w, tag, fd) ==
  [k \in 1..Size[tag] |-> [w |-> w, tag |-> tag, k |-> k, fd |-> IF k = 1 THEN fd ELSE None]]

Carried(ws) == {x.fd : x \in ToSet(ws)} \ {None}

Top == Last(stack).w
Listening == stack # <<>> /\ Last(stack).fd /\ aborted = "no"
Avail == input \o up[Top]

Held(w) ==
  \/ w \in kept \/ w = passed
  \/ \E i \in DOMAIN stack : stack[i].w = w /\ stack[i].fd

Unborn == {w \in Workers : status[w] = "unborn"}

Init ==
  /\ stack = <<>>
  /\ status = [w \in Workers |-> "unborn"]
  /\ child = [w \in Workers |-> None]
  /\ kept = {}
  /\ up = [w \in Workers |-> <<>>]
  /\ down = [w \in Workers |-> <<>>]
  /\ input = <<>> /\ passed = None
  /\ exited = FALSE /\ aborted = "no"

-----------------------------------------------------------------------------
(* Workers *)

Becomes(w, s) == status' = [status EXCEPT ![w] = s]
Send(w, words) == up' = [up EXCEPT ![w] = @ \o words]
Ends(w, how) ==
  /\ Becomes(w, how)
  /\ kept' = kept \ {child[w]}
  /\ UNCHANGED <<child, up, down>>

driver == <<stack, input, passed, exited, aborted>>

(* TeX consumes bytes, or asks something and waits. *)
Tell(w) ==
  /\ status[w] = "computing" /\ Held(w) /\ Len(up[w]) < MaxSent
  /\ Send(w, Words(w, "SEEN", None))
  /\ UNCHANGED <<status, child, kept, down, driver>>

Query(w, tag) ==
  /\ status[w] = "computing" /\ Held(w)
  /\ Send(w, Words(w, tag, None))
  /\ Becomes(w, tag)
  /\ UNCHANGED <<child, kept, down, driver>>

Finish(w) == status[w] = "computing" /\ Ends(w, "dead") /\ UNCHANGED driver

Expected == {<<"READ", "READ">>, <<"READ", "FORK">>, <<"APND", "DONE">>}

(* txp_io_recv_tag skips FLSH.  A FORK is texpresso_fork_with_channel. *)
Receive(w) ==
  /\ status[w] \in {"READ", "APND"} /\ down[w] # <<>>
  /\ down' = [down EXCEPT ![w] = Tail(@)]
  /\ LET answer == Head(down[w])
     IN \/ answer = "FLSH" /\ UNCHANGED <<status, child, kept, up>>
        \/ /\ <<status[w], answer>> \in Expected \ {<<"READ", "FORK">>}
           /\ Becomes(w, "computing")
           /\ UNCHANGED <<child, kept, up>>
        \/ /\ answer # "FLSH" /\ <<status[w], answer>> \notin Expected
           /\ Becomes(w, "panicked")
           /\ UNCHANGED <<child, kept, up>>
        \/ /\ status[w] = "READ" /\ answer = "FORK"
           /\ \E c \in Unborn :
                /\ status' = [status EXCEPT ![w] = "forking", ![c] = "computing"]
                /\ child' = [child EXCEPT ![w] = c]
                /\ kept' = kept \cup {c}
                /\ Send(w, Words(w, "CHLD", c))
  /\ UNCHANGED driver

(* mutant: the end of the socket is kept while the child runs *)
AckedKeeping(w) ==
  /\ status[w] = "forking" /\ down[w] # <<>>
  /\ down' = [down EXCEPT ![w] = Tail(@)]
  /\ CASE Head(down[w]) = "FLSH" -> UNCHANGED <<status, kept>>
       [] Head(down[w]) = "DONE" -> Becomes(w, "resting") /\ UNCHANGED kept
       [] OTHER -> Becomes(w, "panicked") /\ UNCHANGED kept
  /\ UNCHANGED <<child, up, driver>>

(* mutant: a FLSH is not expected *)
AckedStrictly(w) ==
  /\ status[w] = "forking" /\ down[w] # <<>>
  /\ down' = [down EXCEPT ![w] = Tail(@)]
  /\ CASE Head(down[w]) = "DONE" -> Becomes(w, "resting") /\ kept' = kept \ {child[w]}
       [] OTHER -> Becomes(w, "panicked") /\ UNCHANGED kept
  /\ UNCHANGED <<child, up, driver>>

(* The end of the parent: FLSH are skipped, DONE releases the socket. *)
Acked(w) ==
  /\ status[w] = "forking" /\ down[w] # <<>>
  /\ down' = [down EXCEPT ![w] = Tail(@)]
  /\ CASE Head(down[w]) = "FLSH" -> UNCHANGED <<status, kept>>
       [] Head(down[w]) = "DONE" -> Becomes(w, "resting") /\ kept' = kept \ {child[w]}
       [] OTHER -> Becomes(w, "panicked") /\ UNCHANGED kept
  /\ UNCHANGED <<child, up, driver>>

(* waitpid returns: the query that was answered by FORK is sent again. *)
Resume(w) ==
  /\ status[w] = "resting" /\ status[child[w]] \in Ended
  /\ Becomes(w, "READ")
  /\ IF Held(w) THEN Send(w, Words(w, "READ", None)) ELSE UNCHANGED up
  /\ UNCHANGED <<child, kept, down, driver>>

(* A worker that reads or writes when nobody is left at the other end.  A  *)
(* message that was not received does not keep a socket open for sure      *)
(* (fork.c:84).                                                            *)
CutOff(w) ==
  /\ status[w] \in Working \ {"resting"} /\ ~Held(w) /\ down[w] = <<>>
  /\ Ends(w, "cut")
  /\ UNCHANGED driver

-----------------------------------------------------------------------------
(* The driver.  Ws are killed, and what only they held is released. *)

Killed(ws) ==
  /\ status' = [w \in Workers |-> IF w \in ws /\ status[w] \in Working THEN "dead" ELSE status[w]]
  /\ kept' = kept \ {child[w] : w \in ws}
  /\ UNCHANGED <<child, up, down>>

(* prepare_process *)
Launch ==
  /\ stack = <<>> /\ ~exited /\ aborted = "no"
  /\ \E w \in Unborn : stack' = <<[w |-> w, fd |-> TRUE]>> /\ Becomes(w, "computing")
  /\ UNCHANGED <<child, kept, up, down, input, passed, exited, aborted>>

Abort(why) == aborted' = why /\ UNCHANGED <<stack, workers, input, passed, exited>>

(* mutant: the buffer of the popped worker is left to the next one *)
ResetNothing(c) == c

(* channel_reset: the descriptor is not part of it. *)
Reset(c) == <<>>

(* read_: the descriptor that comes with the words is kept. *)
Received(words) ==
  LET fds == Carried(words)
  IN CASE fds = {} -> UNCHANGED <<passed, aborted>>
       [] fds # {} /\ passed = None -> passed' \in fds /\ UNCHANGED aborted
       [] OTHER -> aborted' = "two descriptors" /\ UNCHANGED passed

(* mutant: more is read than the buffer holds *)
ConsumePast(n, exactly) ==
  LET all == Avail
      enough == n <= Len(input)
  IN \E m \in n..Min({Len(all), n + BufSize + 1}) :
       /\ IF enough THEN m = Len(input) ELSE exactly => m = n
       /\ input' = SubSeq(all, n + 1, m)
       /\ up' = [up EXCEPT ![Top] = SubSeq(all, m + 1, Len(all))]
       /\ Received(SubSeq(all, Len(input) + 1, m))

(* n words leave the buffer, refill_at_least reads as many as it needs, or *)
(* more, and with them the descriptor they carry.  exactly: read_bytes     *)
(* does not read ahead.                                                    *)
Consume(n, exactly) ==
  LET all == Avail
      enough == n <= Len(input)
  IN \E m \in n..Min({Len(all), n + BufSize}) :
       /\ IF enough THEN m = Len(input) ELSE exactly => m = n
       /\ input' = SubSeq(all, n + 1, m)
       /\ up' = [up EXCEPT ![Top] = SubSeq(all, m + 1, Len(all))]
       /\ Received(SubSeq(all, Len(input) + 1, m))

Reply(a) == down' = [down EXCEPT ![Top] = Append(@, a)]

Pending(tag) ==
  Listening /\ Avail # <<>> /\ Head(Avail).tag = tag /\ Len(Avail) >= Size[tag]

(* engine_step: channel_read_query, then answer_query *)
StepSeen ==
  /\ Pending("SEEN") /\ Consume(Size["SEEN"], FALSE)
  /\ UNCHANGED <<stack, status, child, kept, down, exited>>

StepRead ==
  /\ Pending("READ") /\ Consume(Size["READ"], FALSE)
  /\ \/ Reply("READ")
     \/ Unborn # {} /\ Reply("FORK")
  /\ UNCHANGED <<stack, status, child, kept, exited>>

StepAppend ==
  /\ Pending("APND") /\ Consume(Size["APND"], TRUE)
  /\ Reply("DONE")
  /\ UNCHANGED <<stack, status, child, kept, exited>>

(* decimate_processes, abstracted: some snapshot is dropped. *)
Decimated(s) ==
  IF Len(s) < MaxProcess THEN {s} ELSE {RemoveAt(s, i) : i \in 1..(Len(s) - 1)}

(* mutant: the descriptor is used, and still waits to be *)
StepChildKeeping ==
  /\ Pending("CHLD")
  /\ Carried(up[Top]) = {}
  /\ input' = Reset(input) /\ up' = [up EXCEPT ![Top] = <<>>]
  /\ stack' = Append(stack, [w |-> passed, fd |-> TRUE])
  /\ Reply("DONE")
  /\ UNCHANGED <<status, child, kept, passed, exited, aborted>>

(* Q_CHLD: the buffer is reset before the child is pushed. *)
StepChild ==
  /\ Pending("CHLD")
  /\ LET fd == IF Carried(up[Top]) = {} THEN passed ELSE CHOOSE c \in Carried(up[Top]) : TRUE
     IN \/ Carried(up[Top]) # {} /\ passed # None /\ Abort("two descriptors")
        \/ fd = None /\ Abort("no descriptor")
        \/ /\ fd # None /\ (Carried(up[Top]) = {} \/ passed = None)
           /\ input' = Reset(SubSeq(input, Size["CHLD"] + 1, Len(input)))
           /\ up' = [up EXCEPT ![Top] = <<>>]
           /\ passed' = None
           /\ \E s \in Decimated(stack) :
                LET gone == {stack[i].w : i \in DOMAIN stack} \ {s[i].w : i \in DOMAIN s}
                IN /\ stack' = Append(s, [w |-> fd, fd |-> TRUE])
                   /\ status' = [w \in Workers |-> IF w \in gone /\ status[w] \in Working
                                                   THEN "dead" ELSE status[w]]
                   /\ kept' = kept \ {child[w] : w \in gone}
           /\ Reply("DONE")
           /\ UNCHANGED <<child, exited, aborted>>

(* The worker closed its socket: close_process. *)
StepEnd ==
  /\ Listening /\ Avail = <<>> /\ status[Top] \in Ended
  /\ stack' = [stack EXCEPT ![Len(stack)].fd = FALSE]
  /\ UNCHANGED <<workers, input, passed, exited, aborted>>

(* process_pending_messages: a worker that does not answer is killed, what *)
(* it has to say is peeked at, and read when it is a SEEN.                 *)
Peek ==
  /\ Listening
  /\ \/ /\ Avail = <<>> /\ status[Top] \notin Ended
        /\ Killed({Top})
        /\ stack' = [stack EXCEPT ![Len(stack)].fd = FALSE]
        /\ UNCHANGED <<input, passed, exited, aborted>>
     \/ Avail = <<>> /\ status[Top] \in Ended /\ Abort("peek")
     \/ /\ Avail # <<>> /\ Head(Avail).tag # "SEEN" /\ input = <<>>
        /\ \E n \in 1..Min({Len(Avail), BufSize}) :
             /\ input' = SubSeq(Avail, 1, n)
             /\ up' = [up EXCEPT ![Top] = SubSeq(@, n + 1, Len(@))]
             /\ Received(SubSeq(Avail, 1, n))
        /\ UNCHANGED <<stack, status, child, kept, down, exited>>

(* rollback_end: the worker need not be rolled back. *)
AskFlush ==
  /\ Listening /\ Len(down[Top]) < MaxFlushes
  /\ Reply("FLSH")
  /\ UNCHANGED <<stack, status, child, kept, up, input, passed, exited, aborted>>

(* pop_process, until n processes are left *)
Rollback(n) ==
  /\ n < Len(stack) /\ aborted = "no"
  /\ PopForking \/ passed = None
  /\ Killed({stack[i].w : i \in {j \in (n + 1)..Len(stack) : stack[j].fd}})
  /\ stack' = SubSeq(stack, 1, n)
  /\ input' = Reset(input)
  /\ UNCHANGED <<passed, exited, aborted>>

(* The driver is gone, whatever the reason. *)
Exit ==
  /\ ~exited
  /\ exited' = TRUE
  /\ stack' = <<>> /\ input' = <<>> /\ passed' = None
  /\ UNCHANGED <<workers, aborted>>

Work(w) ==
  Query(w, "READ") \/ Query(w, "APND") \/ Finish(w) \/ Receive(w) \/ Acked(w) \/ Resume(w)
    \/ CutOff(w)

Next ==
  \/ Launch \/ StepSeen \/ StepRead \/ StepAppend \/ StepChild \/ StepEnd \/ Peek \/ AskFlush
  \/ Exit
  \/ \E n \in 0..MaxProcess : Rollback(n)
  \/ \E w \in Workers : Tell(w) \/ Work(w)

(* TeX ends or asks for something, and the processes are scheduled. *)
Spec == Init /\ [][Next]_vars /\ \A w \in Workers : WF_vars(Work(w))

-----------------------------------------------------------------------------
(* Properties *)

TypeOK ==
  /\ \A i \in DOMAIN stack : stack[i] \in [w : Workers, fd : BOOLEAN]
  /\ Len(stack) <= MaxProcess
  /\ status \in [Workers -> Working \cup Ended \cup {"unborn"}]
  /\ child \in [Workers -> Workers \cup {None}] /\ kept \subseteq Workers
  /\ passed \in Workers \cup {None} /\ Len(input) <= BufSize
  /\ aborted \in {"no", "peek", "two descriptors", "no descriptor"}

(* What the driver is about to parse was sent by the worker on top, and    *)
(* starts with the tag of a message: popping a worker, receiving a child   *)
(* or reading ahead never mixes two conversations (input.buffer).          *)
BufferOfTop ==
  aborted = "no" =>
    /\ input # <<>> => Listening /\ Head(input).k = 1
    /\ \A i \in DOMAIN input : input[i].w = Top

(* A worker the driver still talks to ends by itself, never because the    *)
(* socket it was created with was lost (the acknowledgement of fork.c), or *)
(* because of an answer it does not expect.                                *)
WorkersEndWell ==
  /\ \A w \in Workers : status[w] # "panicked"
  /\ ~exited => \A i \in DOMAIN stack : status[stack[i].w] # "cut"

(* The driver dies only of the end of a worker it peeks at; a descriptor   *)
(* comes with every CHLD, and finds no other waiting (sprotocol.c:89).     *)
DescriptorsMatch == aborted \notin {"two descriptors", "no descriptor"}

(* A worker that nobody can reach any more, because its ancestor was       *)
(* popped before it was received or because the driver is gone, ends.      *)
OrphansEnd == \A w \in Workers : (status[w] \in Working /\ ~Held(w)) ~> (status[w] \in Ended \/ Held(w))
=============================================================================
