--------------------------- MODULE MainLoopProofs ---------------------------
(* Proofs about MainLoop: events are not lost, and changes are applied once *)
(* and in order, for every editor.                                          *)
EXTENDS MainLoop, SequenceTheorems, TLAPS

(* What an event depends on. *)
EventTypes ==
  /\ scheduled \in [Events -> BOOLEAN]
  /\ events \in Seq(Events)
  /\ event \in Events \cup {NoEvent}

(* A command that the editor sends. *)
Message == [op : Commands, id : Int]

(* An event is taken only when there is none, and only (rerun-once) ends an *)
(* iteration before its event is handled.                                   *)
Iteration ==
  /\ pc \in {"poll", "wake", "waiting"} => event = NoEvent
  /\ \A i \in DOMAIN input : input[i].op \in editor.commands
  /\ input \in Seq(Message)
  /\ written \in Int
  /\ editor \in Editors
  /\ rerunOnce => "rerun once" \in editor.commands

EventInvariant == EventTypes /\ Iteration /\ ScheduledPendingUnlessRerun

Queued(k) == \E i \in DOMAIN events : events[i] = k

(* Posting keeps what was in the queue, and raises a flag only for an event *)
(* that gets there.                                                         *)
LEMMA PostedQueued ==
  ASSUME events \in Seq(Events),
         NEW flags \in [Events -> BOOLEAN],
         NEW k \in Events \cup {NoEvent},
         Posted(flags, k)
  PROVE  /\ scheduled' \in [Events -> BOOLEAN]
         /\ events' \in Seq(Events)
         /\ \A j \in Events : Queued(j) => Queued(j)'
         /\ \A j \in Events : scheduled'[j] => flags[j] \/ Queued(j)'
<1>1. scheduled' = [j \in Events |-> flags[j] \/ j = k]
  BY DEF Posted
<1>2. CASE k \in Events /\ ~flags[k]
  <2>1. events' = Append(events, k)
    BY <1>2 DEF Posted
  <2>2. /\ DOMAIN events = 1..Len(events)
        /\ DOMAIN events' = 1..(Len(events) + 1)
        /\ events'[Len(events) + 1] = k
        /\ \A i \in DOMAIN events : events'[i] = events[i]
        /\ Len(events) \in Nat
    BY <1>2, <2>1
  <2>3. Queued(k)' /\ \A j \in Events : Queued(j) => Queued(j)'
    BY <2>2 DEF Queued
  <2> QED
    BY <1>1, <1>2, <2>1, <2>3
<1>3. CASE ~(k \in Events /\ ~flags[k])
  <2>1. events' = events
    BY <1>3 DEF Posted
  <2>2. \A j \in Events : Queued(j) => Queued(j)'
    BY <2>1 DEF Queued
  <2> QED
    BY <1>1, <1>3, <2>1, <2>2
<1> QED
  BY <1>2, <1>3

(* A step that posts an event and keeps the event of the iteration. *)
LEMMA ScheduleKeeps ==
  ASSUME EventTypes, ScheduledPendingUnlessRerun,
         NEW k \in Events \cup {NoEvent}, Schedule(k),
         UNCHANGED <<event, editor, thread>>
  PROVE  EventTypes' /\ ScheduledPendingUnlessRerun'
<1>1. /\ scheduled' \in [Events -> BOOLEAN]
      /\ events' \in Seq(Events)
      /\ \A j \in Events : Queued(j) => Queued(j)'
      /\ \A j \in Events : scheduled'[j] => scheduled[j] \/ Queued(j)'
  BY PostedQueued DEF EventTypes, Schedule
<1>2. ASSUME NEW j \in Events, Pending(j)
      PROVE  Pending(j)'
  BY <1>1, <1>2 DEF Pending, Queued
<1>3. ScheduledPendingUnlessRerun'
  BY <1>2 DEF ScheduledPendingUnlessRerun, ScheduledPending
<1> QED
  BY <1>1, <1>3 DEF EventTypes

(* The end of an iteration: the flag of its event is reset. *)
LEMMA HandledKeeps ==
  ASSUME EventTypes, ScheduledPendingUnlessRerun, event \in Events,
         NEW k \in Events \cup {NoEvent}, Handled(k),
         event' = NoEvent, UNCHANGED <<editor, thread>>
  PROVE  EventTypes' /\ ScheduledPendingUnlessRerun'
<1> DEFINE flags == [scheduled EXCEPT ![event] = FALSE]
<1>1. flags \in [Events -> BOOLEAN] /\ Posted(flags, k)
  BY DEF EventTypes, Handled
<1> HIDE DEF flags
<1>2. /\ scheduled' \in [Events -> BOOLEAN]
      /\ events' \in Seq(Events)
      /\ \A j \in Events : Queued(j) => Queued(j)'
      /\ \A j \in Events : scheduled'[j] => flags[j] \/ Queued(j)'
  BY <1>1, PostedQueued DEF EventTypes
<1>3. ASSUME NEW j \in Events, Pending(j)
      PROVE  Pending(j)'
  <2>1. flags[j] => scheduled[j] /\ event # j
    BY DEF flags, EventTypes
  <2> QED
    BY <1>2, <1>3, <2>1 DEF Pending, Queued
<1>4. ScheduledPendingUnlessRerun'
  BY <1>3 DEF ScheduledPendingUnlessRerun, ScheduledPending
<1> QED
  BY <1>2, <1>4 DEF EventTypes

(* The oldest event of the queue becomes the event of the iteration. *)
LEMMA TakenKeeps ==
  ASSUME EventTypes, ScheduledPendingUnlessRerun,
         event = NoEvent, events # <<>>,
         event' = Head(events), events' = Tail(events),
         UNCHANGED <<scheduled, editor, thread>>
  PROVE  EventTypes' /\ ScheduledPendingUnlessRerun'
<1>1. /\ event' \in Events /\ events' \in Seq(Events)
      /\ DOMAIN events = 1..Len(events) /\ Len(events) \in Nat
      /\ DOMAIN events' = 1..(Len(events) - 1)
      /\ events[1] = event'
      /\ \A i \in 1..(Len(events) - 1) : events'[i] = events[i + 1]
  BY DEF EventTypes
<1>2. ASSUME NEW j \in Events, Pending(j)
      PROVE  Pending(j)'
  <2>1. ASSUME scheduled[j], ~(j = "stdin" /\ thread = "pushing")
        PROVE  Queued(j)' \/ event' = j
    <3>1. PICK i \in DOMAIN events : events[i] = j
      BY <1>2, <2>1, MainLoopAssumption DEF Pending
    <3>2. CASE i = 1
      BY <1>1, <3>1, <3>2
    <3>3. CASE i # 1
      <4>1. i - 1 \in DOMAIN events' /\ events'[i - 1] = j
        BY <1>1, <3>1, <3>3
      <4> QED
        BY <4>1 DEF Queued
    <3> QED
      BY <3>2, <3>3
  <2> QED
    BY <2>1 DEF Pending, Queued
<1>3. ScheduledPendingUnlessRerun'
  BY <1>2 DEF ScheduledPendingUnlessRerun, ScheduledPending
<1> QED
  BY <1>1, <1>3 DEF EventTypes

(* Nothing happens to events, and the thread goes on with what it pushes. *)
LEMMA NoEventKeeps ==
  ASSUME EventTypes, ScheduledPendingUnlessRerun,
         UNCHANGED <<scheduled, events, event, editor>>,
         thread = "pushing" => thread' = "pushing"
  PROVE  EventTypes' /\ ScheduledPendingUnlessRerun'
BY DEF EventTypes, ScheduledPendingUnlessRerun, ScheduledPending, Pending

-----------------------------------------------------------------------------
(* The names of the events. *)
LEMMA EventNames ==
  /\ {"stdin", "scan", "render", "reload"} = Events
  /\ NoEvent \notin Events
BY MainLoopAssumption DEF Events

LEMMA InitEvents == Init => EventInvariant
<1> SUFFICES ASSUME Init
             PROVE  EventInvariant
  OBVIOUS
<1>1. EventTypes
  BY EventNames DEF Init, EventTypes
<1>2. Iteration
  <2>1. input = <<>> /\ event = NoEvent /\ written = 0 /\ editor \in Editors /\ ~rerunOnce
    BY DEF Init
  <2>2. input \in Seq(Message) /\ DOMAIN input = {} /\ written \in Int
    BY <2>1
  <2> QED
    BY <2>1, <2>2 DEF Iteration
<1>3. \A k \in Events : Pending(k)
  <2>1. events[1] = "reload" /\ 1 \in DOMAIN events
    BY DEF Init
  <2> QED
    BY <2>1 DEF Init, Pending
<1> QED
  BY <1>1, <1>2, <1>3
     DEF EventInvariant, ScheduledPendingUnlessRerun, ScheduledPending

(* A command is read: it is one of those of the editor. *)
LEMMA CommandKeeps ==
  ASSUME EventInvariant, Command
  PROVE  EventInvariant'
<1> DEFINE c == Head(input)
<1> USE DEF EventInvariant
<1>1. /\ c.op \in editor.commands
      /\ \A i \in DOMAIN input' : input'[i] = input[i + 1] /\ i + 1 \in DOMAIN input
      /\ input' \in Seq(Message)
  <2>1. input \in Seq(Message) /\ input # <<>> /\ input' = Tail(input)
    BY DEF Command, Iteration
  <2>2. /\ 1 \in DOMAIN input /\ c = input[1]
        /\ input' \in Seq(Message)
        /\ \A i \in DOMAIN input' : input'[i] = input[i + 1] /\ i + 1 \in DOMAIN input
    BY <2>1
  <2> QED
    BY <2>2 DEF Iteration
<1>2. pc = "stdin" /\ UNCHANGED <<pc, event, editor, written, thread>>
  BY DEF Command
<1>3. rerunOnce' => "rerun once" \in editor.commands
  BY <1>1 DEF Command, Change, Iteration
<1>4. Iteration'
  BY <1>1, <1>2, <1>3 DEF Iteration
<1>5. \/ \E k \in Events : Schedule(k)
      \/ UNCHANGED <<scheduled, events>>
  BY EventNames DEF Command, Change
<1>6. EventTypes' /\ ScheduledPendingUnlessRerun'
  BY <1>2, <1>5, ScheduleKeeps, NoEventKeeps
<1> QED
  BY <1>4, <1>6

(* The document is processed.  Only (rerun-once) drops the event. *)
LEMMA DocumentKeeps ==
  ASSUME EventInvariant, Document
  PROVE  EventInvariant'
<1> USE DEF EventInvariant
<1>1. PICK a, e, before :
        LET once == rerunOnce /\ AuxReady(e)
        IN  /\ rerunOnce' = (rerunOnce /\ ~once)
            /\ Schedule(IF once \/ Arrived(e) THEN "reload" ELSE NoEvent)
            /\ event' = IF once THEN NoEvent ELSE event
            /\ \E advance \in Advances(a, before) :
                 pc' = IF once \/ (event = NoEvent /\ advance) THEN "poll"
                       ELSE IF event = NoEvent THEN "wake" ELSE "handle"
  BY DEF Document
<1>2. UNCHANGED <<editor, input, written, thread>>
  BY DEF Document, edits
<1> DEFINE once == rerunOnce /\ AuxReady(e)
<1> DEFINE k == IF once \/ Arrived(e) THEN "reload" ELSE NoEvent
<1>3. k \in Events \cup {NoEvent} /\ Schedule(k)
  BY <1>1, EventNames
<1>4. Iteration'
  BY <1>1, <1>2 DEF Iteration
<1>5. CASE once
  <2>1. scheduled' \in [Events -> BOOLEAN] /\ events' \in Seq(Events)
    BY <1>3, PostedQueued DEF Schedule, EventTypes
  <2>2. EventTypes'
    BY <1>1, <1>5, <2>1 DEF EventTypes
  <2>3. "rerun once" \in editor'.commands
    BY <1>2, <1>5 DEF Iteration
  <2> QED
    BY <1>4, <2>2, <2>3 DEF ScheduledPendingUnlessRerun
<1>6. CASE ~once
  <2>1. event' = event
    BY <1>1, <1>6
  <2> HIDE DEF k
  <2> QED
    BY <1>2, <1>3, <1>4, <2>1, ScheduleKeeps
<1> QED
  BY <1>5, <1>6

(* The event is handled. *)
LEMMA HandlingKeeps ==
  ASSUME EventInvariant,
         HandleStdin \/ HandleScan \/ HandleRender \/ HandleReload
  PROVE  EventInvariant'
<1> USE DEF EventInvariant
<1>1. PICK j \in Events : Handle(j)
  BY EventNames DEF HandleStdin, HandleScan, HandleRender, HandleReload
<1>2. /\ event \in Events /\ event' = NoEvent
      /\ UNCHANGED <<editor, input, written, rerunOnce, thread>>
  BY <1>1 DEF Handle
<1>3. \E k \in Events \cup {NoEvent} : Handled(k)
  BY EventNames DEF HandleStdin, HandleScan, HandleRender, HandleReload
<1>4. Iteration'
  BY <1>2 DEF Iteration
<1> QED
  BY <1>2, <1>3, <1>4, HandledKeeps

(* The thread sets the flag: it is about to push the event. *)
LEMMA SetFlagKeeps ==
  ASSUME EventInvariant, SetFlag
  PROVE  EventInvariant'
<1> USE DEF EventInvariant
<1>1. Iteration'
  BY DEF SetFlag, Iteration, edits
<1>2. /\ scheduled' = [scheduled EXCEPT !["stdin"] = TRUE] /\ thread' = "pushing"
      /\ thread = "marking"
      /\ UNCHANGED <<event, events, editor>>
  BY DEF SetFlag, edits
<1>3. EventTypes'
  BY <1>2 DEF EventTypes
<1>4. ASSUME NEW j \in Events, Pending(j)
      PROVE  Pending(j)'
  BY <1>2, <1>4 DEF Pending, EventTypes
<1>5. ScheduledPendingUnlessRerun'
  BY <1>2, <1>4 DEF ScheduledPendingUnlessRerun, ScheduledPending
<1> QED
  BY <1>1, <1>3, <1>5

(* The thread pushes an event. *)
LEMMA PushKeeps ==
  ASSUME EventInvariant, Push
  PROVE  EventInvariant'
<1> USE DEF EventInvariant
<1>1. Iteration'
  BY DEF Push, Iteration, edits
<1>2. /\ events' = Append(events, "stdin")
      /\ UNCHANGED <<event, editor, scheduled>>
      /\ "stdin" \in Events
  BY EventNames DEF Push, edits
<1>3. EventTypes'
  BY <1>2 DEF EventTypes
<1>4. /\ \A j \in Events : Queued(j) => Queued(j)'
      /\ Queued("stdin")'
  <2>1. /\ DOMAIN events = 1..Len(events) /\ Len(events) \in Nat
        /\ DOMAIN events' = 1..(Len(events) + 1)
        /\ events'[Len(events) + 1] = "stdin"
        /\ \A i \in DOMAIN events : events'[i] = events[i]
    BY <1>2 DEF EventTypes
  <2> QED
    BY <2>1 DEF Queued
<1>5. ASSUME NEW j \in Events, Pending(j)
      PROVE  Pending(j)'
  BY <1>2, <1>4, <1>5 DEF Pending, Queued, EventTypes
<1>6. ScheduledPendingUnlessRerun'
  BY <1>2, <1>5 DEF ScheduledPendingUnlessRerun, ScheduledPending
<1> QED
  BY <1>1, <1>3, <1>6

(* The editor writes one of its commands. *)
LEMMA SendKeeps ==
  ASSUME EventInvariant, NEW c \in editor.commands, Send(c)
  PROVE  EventInvariant'
<1> USE DEF EventInvariant
<1>1. /\ UNCHANGED <<editor, pc, event, events, scheduled, rerunOnce, thread>>
      /\ written' \in Int
      /\ input' = Append(input, [op |-> c, id |-> written'])
  <2>1. written' = written \/ written' = written + 1
    BY DEF Send
  <2>2. written \in Int
    BY DEF Iteration
  <2> QED
    BY <2>1, <2>2 DEF Send
<1>2. c \in Commands
  BY MainLoopAssumption DEF Iteration
<1> DEFINE m == [op |-> c, id |-> written']
<1>3. m \in Message /\ m.op = c
  BY <1>1, <1>2 DEF Message
<1> HIDE DEF m
<1>4. /\ input' \in Seq(Message)
      /\ \A i \in DOMAIN input' : input'[i].op \in editor.commands
  <2>1. input \in Seq(Message) /\ input' = Append(input, m)
    BY <1>1 DEF Iteration, m
  <2>2. /\ input' \in Seq(Message)
        /\ \A i \in DOMAIN input' : input'[i] = m \/ (i \in DOMAIN input /\ input'[i] = input[i])
    BY <1>3, <2>1
  <2> QED
    BY <1>3, <2>2 DEF Iteration
<1>5. Iteration'
  BY <1>1, <1>4 DEF Iteration
<1> QED
  BY <1>1, <1>5, NoEventKeeps

LEMMA NextKeeps == EventInvariant /\ [Next]_vars => EventInvariant'
<1> SUFFICES ASSUME EventInvariant, [Next]_vars
             PROVE  EventInvariant'
  OBVIOUS
<1> USE DEF EventInvariant
<1>1. CASE Poll
  <2>1. Iteration' /\ event = NoEvent /\ UNCHANGED <<editor, thread>>
    BY <1>1 DEF Poll, Iteration, edits
  <2>2. CASE events = <<>>
    BY <1>1, <2>1, <2>2, NoEventKeeps DEF Poll
  <2>3. CASE events # <<>>
    BY <1>1, <2>1, <2>3, TakenKeeps DEF Poll
  <2> QED
    BY <2>1, <2>2, <2>3
<1>2. CASE Wait
  <2>1. Iteration' /\ event = NoEvent /\ UNCHANGED <<editor, thread>>
    BY <1>2 DEF Wait, Iteration, edits
  <2> QED
    BY <1>2, <2>1, TakenKeeps DEF Wait
<1>3. CASE Command
  BY <1>3, CommandKeeps
<1>4. CASE EndStdin
  <2>1. Iteration' /\ UNCHANGED <<event, editor, thread>>
    BY <1>4 DEF EndStdin, Iteration, edits
  <2>2. Schedule("reload") \/ UNCHANGED <<events, scheduled>>
    BY <1>4 DEF EndStdin
  <2> QED
    BY <2>1, <2>2, ScheduleKeeps, NoEventKeeps, EventNames
<1>5. CASE Document
  BY <1>5, DocumentKeeps
<1>6. CASE Timeout
  <2>1. Iteration' /\ UNCHANGED <<event, editor, thread>> /\ Schedule("reload")
    BY <1>6 DEF Timeout, Iteration, edits
  <2> QED
    BY <2>1, ScheduleKeeps, EventNames
<1>7. CASE Wake \/ Watch \/ Wakes \/ ReadFlag
  <2>1. /\ UNCHANGED <<event, editor, events, scheduled, input, written, rerunOnce>>
        /\ pc' = pc \/ event = NoEvent
        /\ thread = "pushing" => thread' = "pushing"
    BY <1>7 DEF Wake, Watch, Wakes, ReadFlag, Iteration, edits
  <2>2. Iteration'
    BY <2>1 DEF Iteration
  <2> QED
    BY <2>1, <2>2, NoEventKeeps
<1>8. CASE SetFlag \/ Push
  BY <1>8, SetFlagKeeps, PushKeeps
<1>9. CASE HandleStdin \/ HandleScan \/ HandleRender \/ HandleReload
  BY <1>9, HandlingKeeps
<1>10. CASE \E c \in editor.commands \ {"rerun"} : Send(c)
  BY <1>10, SendKeeps
<1>11. CASE UNCHANGED vars
  <2>1. Iteration' /\ UNCHANGED <<event, editor, events, scheduled, thread>>
    BY <1>11 DEF vars, Iteration, edits
  <2> QED
    BY <2>1, NoEventKeeps
<1> QED
  BY <1>1, <1>2, <1>3, <1>4, <1>5, <1>6, <1>7, <1>8, <1>9, <1>10, <1>11
     DEF Next, Main, Thread

(* As long as (rerun-once) is not used, an event marked as scheduled is in  *)
(* the queue, or is about to be handled or pushed, whatever the main loop   *)
(* and the thread that watches the standard input do, and in any order: a   *)
(* flag of schedule_event that stays up would stop its events for ever.     *)
THEOREM EventsNeverLost == Spec => []ScheduledPendingUnlessRerun
<1>1. EventInvariant => ScheduledPendingUnlessRerun
  BY DEF EventInvariant
<1> QED
  BY <1>1, InitEvents, NextKeeps, PTL DEF Spec

-----------------------------------------------------------------------------
(* Changes *)

(* What the order of changes depends on: commands are typed, and there is   *)
(* always a number of changes behind what was read.                         *)
OrderInvariant ==
  /\ EventInvariant
  /\ applied \in Seq(Nat) /\ delayed \in Seq(Nat)
  /\ InOrder

(* One more number at the end of those that count from 1. *)
LEMMA CountedOn ==
  ASSUME NEW s \in Seq(Nat), NEW n \in Nat, s = [i \in 1..n |-> i]
  PROVE  s \o <<n + 1>> = [i \in 1..(n + 1) |-> i]
<1> DEFINE t == s \o <<n + 1>>
<1>1. Len(s) = n
  OBVIOUS
<1>2. /\ t \in Seq(Nat) /\ Len(t) = n + 1
      /\ \A i \in 1..(n + 1) : t[i] = IF i <= n THEN s[i] ELSE n + 1
  BY <1>1
<1> HIDE DEF t
<1>3. \A i \in 1..(n + 1) : t[i] = i
  BY <1>2
<1>4. t = [i \in 1..(n + 1) |-> t[i]]
  BY <1>2
<1> QED
  BY <1>3, <1>4 DEF t

LEMMA AppendedLast ==
  ASSUME NEW s \in Seq(Nat), NEW t \in Seq(Nat), NEW x \in Nat
  PROVE  s \o Append(t, x) = (s \o t) \o <<x>>
<1>1. Append(t, x) = t \o <<x>>
  BY AppendIsConcat
<1>2. <<x>> \in Seq(Nat)
  OBVIOUS
<1>3. s \o (t \o <<x>>) = (s \o t) \o <<x>>
  BY <1>2, ConcatAssociative
<1> QED
  BY <1>1, <1>3

(* A change that is read, or notified later, stays behind those before it.  *)
LEMMA ChangeOrdered ==
  ASSUME NEW n \in Nat, applied \in Seq(Nat), delayed \in Seq(Nat),
         n = Len(applied) + Len(delayed),
         applied \o delayed = [i \in 1..n |-> i],
         NEW c, c.id = n + 1, Change(c)
  PROVE  /\ applied' \in Seq(Nat) /\ delayed' \in Seq(Nat)
         /\ Len(applied') + Len(delayed') = n + 1
         /\ applied' \o delayed' = [i \in 1..(n + 1) |-> i]
<1>1. applied \o delayed \in Seq(Nat)
  OBVIOUS
<1>2. (applied \o delayed) \o <<n + 1>> = [i \in 1..(n + 1) |-> i]
  BY <1>1, CountedOn
<1>3. n + 1 \in Nat /\ <<n + 1>> \in Seq(Nat)
  OBVIOUS
<1>4. CASE delayed' = Append(delayed, n + 1) /\ applied' = applied
  <2>1. delayed' \in Seq(Nat) /\ Len(delayed') = Len(delayed) + 1
    BY <1>3, <1>4
  <2>2. applied \o delayed' = (applied \o delayed) \o <<n + 1>>
    BY <1>3, <1>4, AppendedLast, ZenonT(30)
  <2>3. applied' \o delayed' = [i \in 1..(n + 1) |-> i]
    BY <1>2, <1>4, <2>2, Zenon
  <2>4. Len(applied') + Len(delayed') = n + 1
    BY <1>4, <2>1
  <2> QED
    BY <1>4, <2>1, <2>3, <2>4, Zenon
<1>5. CASE applied' = applied \o delayed \o <<n + 1>> /\ delayed' = <<>>
  <2>1. applied' \in Seq(Nat) /\ Len(applied') = n + 1
    BY <1>1, <1>3, <1>5
  <2>2. applied' \o delayed' = applied'
    BY <1>5, <2>1
  <2> QED
    BY <1>2, <1>5, <2>1, <2>2, SMTT(30)
<1> QED
  BY <1>4, <1>5 DEF Change

(* flush_changes *)
LEMMA FlushOrdered ==
  ASSUME OrderInvariant, Flush \/ UNCHANGED <<applied, delayed>>,
         UNCHANGED <<input, written>>
  PROVE  applied' \in Seq(Nat) /\ delayed' \in Seq(Nat) /\ InOrder'
<1>1. CASE Flush
  <2>1. /\ applied' \in Seq(Nat) /\ delayed' \in Seq(Nat)
        /\ applied' \o delayed' = applied \o delayed
        /\ Len(applied') + Len(delayed') = Len(applied) + Len(delayed)
    BY <1>1 DEF Flush, OrderInvariant
  <2> QED
    BY <2>1 DEF OrderInvariant, InOrder, WrittenBy
<1>2. CASE UNCHANGED <<applied, delayed>>
  BY <1>2 DEF OrderInvariant, InOrder, WrittenBy
<1> QED
  BY <1>1, <1>2

(* The first command is read. *)
LEMMA CommandOrdered ==
  ASSUME OrderInvariant, Command
  PROVE  applied' \in Seq(Nat) /\ delayed' \in Seq(Nat) /\ InOrder'
<1> DEFINE c == Head(input)
           n == Len(applied) + Len(delayed)
           one(x) == IF IsChange(x.op) THEN 1 ELSE 0
<1>1. /\ input \in Seq(Message) /\ input # <<>> /\ input' = Tail(input) /\ written' = written
      /\ applied \in Seq(Nat) /\ delayed \in Seq(Nat) /\ n \in Nat
  <2>1. input # <<>> /\ input' = Tail(input) /\ written' = written
    BY DEF Command
  <2>2. input \in Seq(Message)
    BY DEF OrderInvariant, EventInvariant, Iteration
  <2>3. applied \in Seq(Nat) /\ delayed \in Seq(Nat)
    BY DEF OrderInvariant
  <2> QED
    BY <2>1, <2>2, <2>3
<1>2. /\ 1 \in DOMAIN input /\ c = input[1] /\ Len(input) \in Nat \ {0}
      /\ Len(input') = Len(input) - 1
      /\ DOMAIN input = 1..Len(input) /\ DOMAIN input' = 1..Len(input')
      /\ \A i \in DOMAIN input' : input'[i] = input[i + 1] /\ i + 1 \in DOMAIN input
  BY <1>1
<1>3. /\ applied \o delayed = [i \in 1..WrittenBy(0) |-> i]
      /\ \A i \in DOMAIN input : input[i].id = WrittenBy(i - 1) + one(input[i])
      /\ WrittenBy(Len(input)) = written /\ WrittenBy(0) = n
  BY DEF OrderInvariant, InOrder, WrittenBy
<1>4. c.id = n + one(c)
  <2>1. input[1].id = WrittenBy(1 - 1) + one(input[1])
    BY <1>2, <1>3
  <2> QED
    BY <1>2, <2>1 DEF WrittenBy
<1>5. /\ applied' \in Seq(Nat) /\ delayed' \in Seq(Nat)
      /\ Len(applied') + Len(delayed') = c.id
      /\ applied' \o delayed' = [i \in 1..c.id |-> i]
  <2>1. CASE IsChange(c.op)
    <3>1. Change(c)
      BY <2>1 DEF Command, IsChange
    <3>2. c.id = n + 1
      BY <1>4, <2>1
    <3> HIDE DEF c, n
    <3> QED
      BY <1>1, <1>3, <3>1, <3>2, ChangeOrdered DEF n
  <2>2. CASE ~IsChange(c.op)
    <3>1. UNCHANGED <<applied, delayed>>
      BY <2>2 DEF Command
    <3> QED
      BY <1>1, <1>3, <1>4, <2>2, <3>1
  <2> QED
    BY <2>1, <2>2
<1> HIDE DEF c, n, one
<1>6. ASSUME NEW i \in 0..Len(input')
      PROVE  WrittenBy(i)' = WrittenBy(i + 1)
  <2>1. CASE i = 0
    BY <1>2, <1>5, <2>1 DEF WrittenBy
  <2>2. CASE i # 0
    BY <1>2, <2>2 DEF WrittenBy
  <2> QED
    BY <2>1, <2>2
<1>7. (IF Len(input') = 0 THEN Len(applied') + Len(delayed') ELSE input'[Len(input')].id)
        = written'
  <2>1. Len(input') \in 0..Len(input') /\ Len(input') + 1 = Len(input)
    BY <1>2
  <2> QED
    BY <1>1, <1>3, <1>6, <2>1 DEF WrittenBy
<1>8. ASSUME NEW i \in DOMAIN input'
      PROVE  input'[i].id = WrittenBy(i - 1)' + one(input'[i])
  <2>1. WrittenBy(i - 1)' = WrittenBy(i)
    BY <1>2, <1>6
  <2>2. input[i + 1].id = WrittenBy(i) + one(input[i + 1])
    BY <1>2, <1>3
  <2> QED
    BY <1>2, <2>1, <2>2
<1> QED
  BY <1>5, <1>7, <1>8 DEF InOrder, WrittenBy, one

(* A command is sent. *)
LEMMA SendOrdered ==
  ASSUME OrderInvariant, NEW c \in editor.commands, Send(c)
  PROVE  applied' \in Seq(Nat) /\ delayed' \in Seq(Nat) /\ InOrder'
<1> DEFINE m == [op |-> c, id |-> written']
           one(x) == IF IsChange(x.op) THEN 1 ELSE 0
<1>1. /\ UNCHANGED <<applied, delayed>> /\ input' = Append(input, m)
      /\ written' = written + one(m)
      /\ input \in Seq(Message)
      /\ applied \in Seq(Nat) /\ delayed \in Seq(Nat)
  <2>1. input \in Seq(Message) /\ written \in Int
    BY DEF OrderInvariant, EventInvariant, Iteration
  <2>2. applied \in Seq(Nat) /\ delayed \in Seq(Nat)
    BY DEF OrderInvariant
  <2>3. /\ UNCHANGED <<applied, delayed>> /\ input' = Append(input, m)
        /\ written' = IF IsChange(c) THEN written + 1 ELSE written
    BY DEF Send
  <2> QED
    BY <2>1, <2>2, <2>3
<1>2. m.id = written'
  OBVIOUS
<1>3. /\ applied \o delayed = [i \in 1..WrittenBy(0) |-> i]
      /\ \A i \in DOMAIN input : input[i].id = WrittenBy(i - 1) + one(input[i])
      /\ WrittenBy(Len(input)) = written
  BY DEF OrderInvariant, InOrder
<1> HIDE DEF m, one
<1>4. /\ Len(input') = Len(input) + 1 /\ Len(input) \in Nat
      /\ DOMAIN input = 1..Len(input) /\ DOMAIN input' = 1..Len(input')
      /\ input'[Len(input')] = m
      /\ \A i \in DOMAIN input : input'[i] = input[i]
  BY <1>1
<1>5. \A i \in 0..Len(input) : WrittenBy(i)' = WrittenBy(i)
  BY <1>1, <1>4 DEF WrittenBy
<1>6. ASSUME NEW i \in DOMAIN input'
      PROVE  input'[i].id = WrittenBy(i - 1)' + one(input'[i])
  <2>1. i - 1 \in 0..Len(input) /\ WrittenBy(i - 1)' = WrittenBy(i - 1)
    BY <1>4, <1>5
  <2>2. CASE i = Len(input')
    BY <1>1, <1>2, <1>3, <1>4, <2>1, <2>2
  <2>3. CASE i # Len(input')
    BY <1>3, <1>4, <2>1, <2>3
  <2> QED
    BY <2>2, <2>3
<1>7. applied' \o delayed' = [i \in 1..(Len(applied') + Len(delayed')) |-> i]
  BY <1>1, <1>3 DEF WrittenBy
<1>8. Len(input') # 0 /\ input'[Len(input')].id = written'
  BY <1>2, <1>4
<1> QED
  BY <1>1, <1>6, <1>7, <1>8 DEF InOrder, WrittenBy, one

LEMMA InitOrdered == Init => OrderInvariant
<1> SUFFICES ASSUME Init
             PROVE  OrderInvariant
  OBVIOUS
<1>1. applied = <<>> /\ delayed = <<>> /\ input = <<>> /\ written = 0
  BY DEF Init
<1>2. /\ applied \in Seq(Nat) /\ delayed \in Seq(Nat)
      /\ applied \o delayed = [i \in 1..0 |-> i]
      /\ DOMAIN input = {} /\ Len(input) = 0 /\ Len(applied) + Len(delayed) = 0
  BY <1>1
<1>3. InOrder
  BY <1>1, <1>2 DEF InOrder, WrittenBy
<1> QED
  BY <1>2, <1>3, InitEvents DEF OrderInvariant

LEMMA NextOrdered == OrderInvariant /\ [Next]_vars => OrderInvariant'
<1> SUFFICES ASSUME OrderInvariant, [Next]_vars
             PROVE  applied' \in Seq(Nat) /\ delayed' \in Seq(Nat) /\ InOrder'
  BY NextKeeps DEF OrderInvariant
<1>1. CASE Command
  BY <1>1, CommandOrdered
<1>2. CASE \E c \in editor.commands \ {"rerun"} : Send(c)
  BY <1>2, SendOrdered
<1>3. CASE HandleStdin \/ HandleScan \/ HandleRender \/ HandleReload
  <2>1. UNCHANGED <<input, written>>
    BY <1>3 DEF HandleStdin, HandleScan, HandleRender, HandleReload, Handle
  <2>2. Flush \/ UNCHANGED <<applied, delayed>>
    BY <1>3 DEF HandleStdin, HandleScan, HandleRender, HandleReload
  <2> QED
    BY <2>1, <2>2, FlushOrdered
<1>4. CASE \/ Poll \/ EndStdin \/ Document \/ Wake \/ Wait \/ Timeout \/ Thread
           \/ UNCHANGED vars
  <2>1. UNCHANGED edits
    BY <1>4 DEF Poll, EndStdin, Document, Wake, Wait, Timeout, Thread, Watch, Wakes,
                ReadFlag, SetFlag, Push, vars
  <2> QED
    BY <2>1, FlushOrdered DEF edits
<1> QED
  BY <1>1, <1>2, <1>3, <1>4 DEF Next, Main

(* Whatever commands come between them, whether they are delayed or not and *)
(* whenever they are flushed, the changes that were read are applied in the *)
(* order in which the editor wrote them, each of them once (delayed_changes *)
(* and flush_changes).                                                      *)
THEOREM ChangesInOrder == Spec => []InOrder
<1>1. OrderInvariant => InOrder
  BY DEF OrderInvariant
<1> QED
  BY <1>1, InitOrdered, NextOrdered, PTL DEF Spec

-----------------------------------------------------------------------------
(* Types *)

(* What is typed beside the events *)
LoopTypes ==
  /\ pc \in {"poll", "stdin", "document", "wake", "waiting", "handle"}
  /\ pipe \in 0..PipeSize
  /\ thread \in {"reading", "polling", "scheduling", "marking", "pushing"}
  /\ Len(delayed) <= BufferedOps
  /\ rerunCount \in 0..MaxReruns

(* A change is delayed only where there is room. *)
LEMMA DelayedFits ==
  ASSUME OrderInvariant, LoopTypes, Command
  PROVE  Len(delayed') <= BufferedOps
<1>1. delayed \in Seq(Nat) /\ Len(delayed) \in Nat /\ BufferedOps \in Nat \ {0}
  BY MainLoopAssumption DEF OrderInvariant
<1>2. CASE \E c : Change(c)
  <2>1. PICK c : Change(c)
    BY <1>2
  <2>2. CASE delayed' = Append(delayed, c.id) /\ Len(delayed) < BufferedOps
    <3>1. Len(delayed') = Len(delayed) + 1
      BY <1>1, <2>2
    <3> QED
      BY <1>1, <2>2, <3>1
  <2>3. CASE delayed' = <<>>
    BY <1>1, <2>3
  <2> QED
    BY <2>1, <2>2, <2>3 DEF Change, Delayable
<1>3. CASE UNCHANGED delayed
  BY <1>3 DEF LoopTypes
<1> QED
  BY <1>2, <1>3 DEF Command

LEMMA NextTyped == OrderInvariant /\ LoopTypes /\ [Next]_vars => LoopTypes'
<1> SUFFICES ASSUME OrderInvariant, LoopTypes, [Next]_vars
             PROVE  LoopTypes'
  OBVIOUS
<1>0. {MaxPages, MaxReruns} \subseteq Nat /\ {PipeSize, BufferedOps} \subseteq Nat \ {0}
  BY MainLoopAssumption
<1> USE DEF LoopTypes
<1>1. CASE Command
  <2>1. UNCHANGED <<pc, pipe, thread, rerunCount>>
    BY <1>1 DEF Command
  <2> QED
    BY <1>1, <2>1, DelayedFits
<1>2. CASE EndStdin
  BY <1>0, <1>2 DEF EndStdin, edits
<1>3. CASE Document
  <2>1. UNCHANGED <<pipe, thread, delayed, rerunCount>>
    BY <1>3 DEF Document, edits
  <2>2. pc' \in {"poll", "wake", "handle"}
    BY <1>3 DEF Document
  <2> QED
    BY <2>1, <2>2
<1>4. CASE Poll \/ Wait
  BY <1>4 DEF Poll, Wait, edits
<1>5. CASE Wake
  BY <1>0, <1>5 DEF Wake, edits
<1>6. CASE Timeout
  BY <1>0, <1>6 DEF Timeout, edits
<1>7. CASE HandleStdin \/ HandleScan \/ HandleRender \/ HandleReload
  <2>1. pc' = "poll" /\ UNCHANGED <<pipe, thread, rerunCount>>
    BY <1>7 DEF HandleStdin, HandleScan, HandleRender, HandleReload, Handle
  <2>2. delayed' = <<>> \/ UNCHANGED delayed
    BY <1>7 DEF HandleStdin, HandleScan, HandleRender, HandleReload, Flush
  <2> QED
    BY <1>0, <2>1, <2>2
<1>8. CASE Thread
  BY <1>0, <1>8 DEF Thread, Watch, Wakes, ReadFlag, SetFlag, Push, edits
<1>9. CASE \E c \in editor.commands \ {"rerun"} : Send(c)
  BY <1>9 DEF Send
<1>10. CASE UNCHANGED vars
  BY <1>10 DEF vars, edits
<1> QED
  BY <1>1, <1>2, <1>3, <1>4, <1>5, <1>6, <1>7, <1>8, <1>9, <1>10 DEF Next, Main

(* The main loop keeps its type; in particular no more changes are delayed  *)
(* than delayed_changes holds, and no more reruns are started than allowed. *)
THEOREM LoopTyped == Spec => []TypeOK
<1>1. Init => LoopTypes
  BY MainLoopAssumption DEF Init, LoopTypes
<1>2. OrderInvariant /\ LoopTypes => TypeOK
  BY DEF OrderInvariant, EventInvariant, EventTypes, LoopTypes, TypeOK
<1> QED
  BY <1>1, <1>2, InitOrdered, NextOrdered, NextTyped, PTL DEF Spec
=============================================================================
