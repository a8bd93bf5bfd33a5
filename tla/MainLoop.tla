------------------------------ MODULE MainLoop ------------------------------
(***************************************************************************)
(* The main loop of the viewer (src/src/frontend/main.c) and the thread    *)
(* that watches the standard input for it.                                 *)
(*                                                                         *)
(* Each iteration takes one event, reads the commands of the editor,       *)
(* advances the engine, then handles the event; it waits for an event when *)
(* there was none and the engine has nothing to do.  A change of a page    *)
(* that is not typeset yet is delayed, until an event or another command   *)
(* flushes it.  Events are scheduled at most once; a thread turns input    *)
(* into an event when it is told to watch, by a byte in a pipe.            *)
(*                                                                         *)
(* Abstractions.  The engine is the number of pages of its output, and     *)
(* whether it runs: what it does is TexEngine.  Neighbor pages, SyncTeX,   *)
(* animations and the events of the user are left out.                     *)
(***************************************************************************)
EXTENDS Integers, Sequences, FiniteSets

CONSTANTS
  NoEvent,
  Editors,       \* the commands that an editor may send, and how many
  MaxPages,      \* bound on the number of pages
  PipeSize,      \* capacity of the pipe
  BufferedOps,   \* BUFFERED_OPS, 64
  MaxReruns      \* MAX_RERUNS, 5

(* A long change does not fit in the buffer of delayed changes; "rerun" is *)
(* (rerun t), sent once at the beginning.                                  *)
Commands == {"change", "long change", "next page", "rescan", "forward",
             "rerun once", "rerun"}

Events == {"stdin", "scan", "render", "reload"}

ASSUME MainLoopAssumption ==
  /\ NoEvent \notin Events
  /\ Editors \subseteq [commands : SUBSET Commands, most : Nat]
  /\ {MaxPages, MaxReruns} \subseteq Nat
  /\ {PipeSize, BufferedOps} \subseteq Nat \ {0}

VARIABLES
  editor,     \* one of Editors, a constant of the behaviour
  pc,         \* where the main loop is
  event,      \* the event of the iteration
  events,     \* the queue of events
  scheduled,  \* the flags of schedule_event
  pipe,       \* number of bytes in the pipe of the thread
  thread,     \* where the thread is
  input,      \* commands not read yet
  sent,       \* number of commands sent
  written,    \* number of changes among them
  delayed,    \* delayed_changes
  applied,    \* the changes that were notified to the engine
  notified,   \* was one in this transaction?
  engine,     \* pages, running, auxDirty, finishing
  view,       \* page, and the slot of the current page
  rerunOnce, rerunCount

edits == <<editor, input, sent, written, delayed, applied>>
vars == <<pc, event, events, scheduled, pipe, thread, edits, notified, engine,
          view, rerunOnce, rerunCount>>

-----------------------------------------------------------------------------
(* Events *)

(* Pushing an event, with the flags as they are. *)
Posted(flags, k) ==
  /\ scheduled' = [j \in Events |-> flags[j] \/ j = k]
  /\ events' = IF k \in Events /\ ~flags[k] THEN Append(events, k) ELSE events

(* schedule_event, by the main loop. *)
Schedule(k) == Posted(scheduled, k)

(* A mutant: the flag is reset for an event of the same kind only. *)
HandledKeepingFlag(k) ==
  Posted([scheduled EXCEPT ![event] = (event # k)], k)

(* The flag of the event of the iteration is reset before it is handled. *)
Handled(k) == Posted([scheduled EXCEPT ![event] = FALSE], k)

(* SDL_PollEvent *)
Poll ==
  /\ pc = "poll"
  /\ IF events = <<>> THEN event' = NoEvent /\ UNCHANGED events
                      ELSE event' = Head(events) /\ events' = Tail(events)
  /\ pc' = "stdin"
  /\ UNCHANGED <<scheduled, pipe, thread, edits, notified, engine, view,
                 rerunOnce, rerunCount>>

-----------------------------------------------------------------------------
(* The thread (poll_stdin_thread_main) *)

(* It was asked to watch the standard input. *)
Watch ==
  /\ thread = "reading" /\ pipe > 0
  /\ pipe' = pipe - 1
  /\ thread' = "polling"
  /\ UNCHANGED <<pc, event, events, scheduled, edits, notified, engine, view,
                 rerunOnce, rerunCount>>

(* There is input, or another byte in the pipe. *)
Wakes ==
  /\ thread = "polling" /\ (input # <<>> \/ pipe > 0)
  /\ thread' = IF input # <<>> THEN "scheduling" ELSE "reading"
  /\ UNCHANGED <<pc, event, events, scheduled, pipe, edits, notified, engine,
                 view, rerunOnce, rerunCount>>

(* schedule_event again, without a lock: the flag is read... *)
ReadFlag ==
  /\ thread = "scheduling"
  /\ thread' = IF scheduled["stdin"] THEN "reading" ELSE "marking"
  /\ UNCHANGED <<pc, event, events, scheduled, pipe, edits, notified, engine,
                 view, rerunOnce, rerunCount>>

(* ... then set... *)
SetFlag ==
  /\ thread = "marking"
  /\ scheduled' = [scheduled EXCEPT !["stdin"] = TRUE]
  /\ thread' = "pushing"
  /\ UNCHANGED <<pc, event, events, pipe, edits, notified, engine, view,
                 rerunOnce, rerunCount>>

(* A mutant: an event that does not fit in the queue is dropped. *)
PushWithRoom ==
  /\ thread = "pushing"
  /\ events' = IF Len(events) < 2 THEN Append(events, "stdin") ELSE events
  /\ thread' = "reading"
  /\ UNCHANGED <<pc, event, scheduled, pipe, edits, notified, engine, view,
                 rerunOnce, rerunCount>>

(* ... and the event is pushed. *)
Push ==
  /\ thread = "pushing"
  /\ events' = Append(events, "stdin")
  /\ thread' = "reading"
  /\ UNCHANGED <<pc, event, scheduled, pipe, edits, notified, engine, view,
                 rerunOnce, rerunCount>>

Thread == Watch \/ Wakes \/ ReadFlag \/ SetFlag \/ Push

-----------------------------------------------------------------------------
(* The editor *)

IsChange(c) == c \in {"change", "long change"}

Send(c) ==
  /\ sent < editor.most
  /\ sent' = sent + 1
  /\ written' = IF IsChange(c) THEN written + 1 ELSE written
  /\ input' = Append(input, [op |-> c, id |-> written'])
  /\ UNCHANGED <<editor, pc, event, events, scheduled, pipe, thread, delayed,
                 applied, notified, engine, view, rerunOnce, rerunCount>>

(* A mutant: one change too many. *)
DelayableOneMore(c) ==
  /\ c.op = "change"
  /\ engine.running
  /\ engine.pages \in {view.page - 2, view.page - 1}
  /\ Len(delayed) <= BufferedOps

(* interpret_change: the page that is shown is about to be typeset, and    *)
(* there is room.                                                          *)
Delayable(c) ==
  /\ c.op = "change"
  /\ engine.running
  /\ engine.pages \in {view.page - 2, view.page - 1}
  /\ Len(delayed) < BufferedOps

(* A mutant: the changes that wait are done after this one. *)
ChangeOvertaking(c) ==
  /\ IF Delayable(c)
     THEN /\ delayed' = Append(delayed, c.id)
          /\ UNCHANGED <<applied, notified>>
     ELSE /\ applied' = Append(applied, c.id)
          /\ notified' = TRUE
          /\ UNCHANGED delayed
  /\ UNCHANGED <<events, scheduled, view, rerunOnce>>

Change(c) ==
  /\ IF Delayable(c)
     THEN /\ delayed' = Append(delayed, c.id)
          /\ UNCHANGED <<applied, notified>>
     ELSE /\ applied' = applied \o delayed \o <<c.id>>
          /\ delayed' = <<>>
          /\ notified' = TRUE
  /\ UNCHANGED <<events, scheduled, view, rerunOnce>>

(* interpret_command *)
Command ==
  /\ pc = "stdin" /\ input # <<>>
  /\ input' = Tail(input)
  /\ LET c == Head(input)
     IN  \/ IsChange(c.op) /\ Change(c)
         \/ /\ c.op = "next page"
            /\ view' = [view EXCEPT !.page = @ + 1]
            /\ Schedule("reload")
            /\ UNCHANGED <<delayed, applied, notified, rerunOnce>>
         \/ /\ c.op = "rescan"
            /\ Schedule("scan")
            /\ UNCHANGED <<delayed, applied, notified, view, rerunOnce>>
         \/ /\ c.op = "forward"
            /\ Schedule("stdin")
            /\ UNCHANGED <<delayed, applied, notified, view, rerunOnce>>
         \/ /\ c.op = "rerun once"
            /\ rerunOnce' = TRUE
            /\ Schedule("scan")
            /\ UNCHANGED <<delayed, applied, notified, view>>
  /\ UNCHANGED <<editor, pc, event, pipe, thread, sent, written, engine, rerunCount>>

-----------------------------------------------------------------------------
(* The document *)

(* note_page_count: pages from n on are to be typeset again. *)
Noted(v, n) == [v EXCEPT !.stale = @ \/ v.slot >= n]

(* end_changes rolls the engine back to n pages; the renderer is told, then *)
(* the engine is restarted and does a step.                                 *)
RolledBack(n) ==
  [pages |-> n, running |-> TRUE, auxDirty |-> FALSE, finishing |-> FALSE]

Stepped(e) ==
  {[e EXCEPT !.pages = n, !.running = r, !.auxDirty = d] :
     n \in {e.pages, e.pages + 1} \cap 0..MaxPages, r \in BOOLEAN, d \in BOOLEAN}

(* Nothing that was typeset has changed, or the engine is rolled back.      *)
NothingChanged == UNCHANGED <<engine, view>>
Changed(v) ==
  \E n \in 0..engine.pages :
    /\ engine' \in Stepped(RolledBack(n))
    /\ view' = Noted(v, n)

EndStdin ==
  /\ pc = "stdin" /\ input = <<>>
  /\ \/ NothingChanged /\ UNCHANGED <<events, scheduled, rerunCount>>
     \/ notified /\ Changed(view) /\ Schedule("reload") /\ rerunCount' = 0
  /\ pc' = "document"
  /\ notified' = FALSE
  /\ UNCHANGED <<event, pipe, thread, edits, rerunOnce>>

(* current_page_shown *)
Shown(v) == v.slot = v.page /\ ~v.stale /\ v.presented

(* need_advance *)
Needed(e, v) ==
  /\ e.running
  /\ \/ e.finishing
     \/ e.pages <= v.page
     \/ e.pages <= v.page + 1 /\ Shown(v)

(* advance_engine: some pages are typeset, up to those that are needed, or *)
(* the end of the document is reached.                                     *)
Advanced(v) ==
  IF ~Needed(engine, v) THEN {engine}
  ELSE {[engine EXCEPT !.pages = n, !.running = r, !.auxDirty = d] :
          n \in {k \in engine.pages..MaxPages :
                   \A i \in (engine.pages + 1)..(k - 1) :
                     Needed([engine EXCEPT !.pages = i], v)},
          r \in BOOLEAN,
          d \in {engine.auxDirty, TRUE}}

(* finish_convergence: the live snapshot below, or the document again. *)
Finished(e) ==
  IF e.finishing /\ ~e.running
  THEN {RolledBack(n) : n \in 0..e.pages}
  ELSE {e}

AuxReady(e) == ~e.finishing /\ e.auxDirty

Started(e) == [e EXCEPT !.finishing = TRUE]

(* A mutant: the page after the last one was not waited for. *)
ArrivedAfterNext(e) == engine.pages < view.page /\ view.page < e.pages

(* The pages that were waited for are there. *)
Arrived(e) == engine.pages <= view.page /\ view.page < e.pages

(* What advance_engine returns: when the last step failed, the need there   *)
(* was before it.                                                          *)
Advances(a, v) ==
  {Needed(a, v), Needed(a, v) \/ (Needed(engine, v) /\ ~a.running)}

Document ==
  /\ pc = "document"
  /\ \E a \in Advanced(Noted(view, engine.pages)) : \E e \in Finished(a) :
       LET before == Noted(view, engine.pages)
           v == Noted(before, e.pages)
           once == rerunOnce /\ AuxReady(e)
       IN  /\ view' = v
           /\ engine' = IF once THEN Started(e) ELSE e
           /\ rerunOnce' = (rerunOnce /\ ~once)
           /\ Schedule(IF once \/ Arrived(e) THEN "reload" ELSE NoEvent)
           /\ event' = IF once THEN NoEvent ELSE event
           /\ \E advance \in Advances(a, before) :
                pc' = IF once \/ (event = NoEvent /\ advance) THEN "poll"
                      ELSE IF event = NoEvent THEN "wake" ELSE "handle"
  /\ UNCHANGED <<pipe, thread, edits, notified, rerunCount>>

(* wakeup_poll_thread *)
Wake ==
  /\ pc = "wake" /\ pipe < PipeSize
  /\ pipe' = pipe + 1
  /\ pc' = "waiting"
  /\ UNCHANGED <<event, events, scheduled, thread, edits, notified, engine,
                 view, rerunOnce, rerunCount>>

(* SDL_WaitEvent *)
Wait ==
  /\ pc = "waiting" /\ events # <<>>
  /\ event' = Head(events) /\ events' = Tail(events)
  /\ pc' = "handle"
  /\ UNCHANGED <<scheduled, pipe, thread, edits, notified, engine, view,
                 rerunOnce, rerunCount>>

(* SDL_WaitEventTimeout: the user is idle. *)
Timeout ==
  /\ pc = "waiting" /\ events = <<>>
  /\ "rerun" \in editor.commands /\ rerunCount < MaxReruns /\ AuxReady(engine)
  /\ rerunCount' = rerunCount + 1
  /\ engine' = Started(engine)
  /\ Schedule("reload")
  /\ pc' = "poll"
  /\ UNCHANGED <<event, pipe, thread, edits, notified, view, rerunOnce>>

-----------------------------------------------------------------------------
(* Handling the event *)

Handle(k) ==
  /\ pc = "handle" /\ event = k
  /\ event' = NoEvent
  /\ pc' = "poll"
  /\ UNCHANGED <<editor, pipe, thread, input, sent, written, notified, rerunOnce,
                 rerunCount>>

(* flush_changes *)
Flush ==
  /\ applied' = applied \o delayed
  /\ delayed' = <<>>

HandleStdin ==
  /\ Handle("stdin")
  /\ Handled(NoEvent)
  /\ UNCHANGED <<delayed, applied, engine, view>>

(* The disk may have changed as well. *)
HandleScan ==
  /\ Handle("scan")
  /\ Flush
  /\ \/ NothingChanged /\ Handled(NoEvent)
     \/ Changed(view) /\ Handled("reload")

HandleRender ==
  /\ Handle("render")
  /\ Flush
  /\ LET shown == [view EXCEPT !.presented = TRUE]
     IN  \/ UNCHANGED engine /\ view' = shown /\ Handled(NoEvent)
         \/ /\ delayed # <<>>
            /\ Changed(shown) /\ Handled("reload")

(* The page that is shown: past the end, it is the last one. *)
PageOf(v) ==
  IF v.page >= engine.pages /\ ~engine.running /\ engine.pages > 0
  THEN engine.pages - 1 ELSE v.page

(* display_page, unless the page was typeset again, the same. *)
HandleReload ==
  /\ Handle("reload")
  /\ LET v == [view EXCEPT !.page = PageOf(view)]
     IN  \/ /\ v.page < engine.pages /\ (v.slot = v.page => v.stale)
            /\ view' = [v EXCEPT !.slot = v.page, !.stale = FALSE, !.presented = FALSE]
            /\ Handled("render")
         \/ /\ v.page < engine.pages /\ v.slot = v.page /\ v.stale
            /\ view' = [v EXCEPT !.stale = FALSE]
            /\ Handled(NoEvent)
         \/ /\ v.page < engine.pages => v.slot = v.page /\ ~v.stale
            /\ view' = v
            /\ Handled(NoEvent)
  /\ UNCHANGED <<delayed, applied, engine>>

-----------------------------------------------------------------------------
Init ==
  /\ pc = "poll"
  /\ event = NoEvent
  /\ events = <<"reload">>
  /\ scheduled = [k \in Events |-> k = "reload"]
  /\ pipe = 0 /\ thread = "reading"
  /\ editor \in Editors
  /\ input = <<>> /\ sent = 0 /\ written = 0
  /\ delayed = <<>> /\ applied = <<>> /\ notified = FALSE
  /\ engine = [pages |-> 0, running |-> TRUE, auxDirty |-> FALSE, finishing |-> FALSE]
  /\ view = [page |-> 0, slot |-> -1, stale |-> FALSE, presented |-> TRUE]
  /\ rerunOnce = FALSE /\ rerunCount = 0

Main ==
  \/ Poll \/ Command \/ EndStdin \/ Document \/ Wake \/ Wait \/ Timeout
  \/ HandleStdin \/ HandleScan \/ HandleRender \/ HandleReload

Next == Main \/ Thread \/ \E c \in editor.commands \ {"rerun"} : Send(c)

(* The engine gets forward: a page, or the end of the document. *)
Progress == Document /\ (engine'.pages # engine.pages \/ ~engine'.running)

Fairness == WF_vars(Main) /\ WF_vars(Thread) /\ SF_vars(Progress)

Spec == Init /\ [][Next]_vars
FairSpec == Spec /\ Fairness

-----------------------------------------------------------------------------
(* The state of the main loop has its type. *)
TypeOK ==
  /\ pc \in {"poll", "stdin", "document", "wake", "waiting", "handle"}
  /\ event \in Events \cup {NoEvent}
  /\ events \in Seq(Events)
  /\ scheduled \in [Events -> BOOLEAN]
  /\ pipe \in 0..PipeSize
  /\ thread \in {"reading", "polling", "scheduling", "marking", "pushing"}
  /\ Len(delayed) <= BufferedOps
  /\ rerunCount \in 0..MaxReruns

(* An event marked as scheduled is in the queue, or is about to be handled, *)
(* or the thread is about to push it: otherwise it would never be scheduled *)
(* again.                                                                   *)
Pending(k) ==
  scheduled[k] =>
    \/ \E i \in DOMAIN events : events[i] = k
    \/ event = k
    \/ k = "stdin" /\ thread = "pushing"
ScheduledPending == \A k \in Events : Pending(k)

(* The same as long as (rerun-once) is not used: the iteration that it ends *)
(* early drops its event.                                                   *)
ScheduledPendingUnlessRerun == "rerun once" \notin editor.commands => ScheduledPending

(* The changes that were written before the i-th command that is not read   *)
(* yet, this one included; those that were read when i = 0.                 *)
WrittenBy(i) == IF i = 0 THEN Len(applied) + Len(delayed) ELSE input[i].id

(* No change is lost, done twice or overtaken by another, whether it was    *)
(* delayed or not: those that were read are the first ones, in order, and   *)
(* each command that is not read yet carries on from the one before it.     *)
InOrder ==
  /\ applied \o delayed = [i \in 1..WrittenBy(0) |-> i]
  /\ \A i \in DOMAIN input :
       input[i].id = WrittenBy(i - 1) + (IF IsChange(input[i].op) THEN 1 ELSE 0)
  /\ WrittenBy(Len(input)) = written

(* What the editor writes is read. *)
InputRead == (input # <<>>) ~> (input = <<>>)

(* The same as long as (rerun-once) is not used. *)
InputReadUnlessRerun == "rerun once" \notin editor.commands => InputRead

(* A change that was delayed is notified to the engine in the end. *)
ChangesApplied == (delayed # <<>>) ~> (delayed = <<>>)

(* Once the editor is done, the page that the user looks at is on screen as *)
(* it was last typeset.                                                     *)
PageShown == <>[](view.page < engine.pages => Shown(view))

(* The same as long as (rerun-once) is not used. *)
PageShownUnlessRerun == "rerun once" \notin editor.commands => PageShown
=============================================================================
