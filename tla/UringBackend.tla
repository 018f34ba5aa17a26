---------------------------- MODULE UringBackend ----------------------------
(***************************************************************************)
(* The io_uring backend of the event loop (event_loop.c, LIBCORE_USE_      *)
(* IOURING) with the dispatch part of event_loop_run.                      *)
(*                                                                         *)
(* A registration is a SocketContext.  Polls are one-shot: after each      *)
(* completion the context goes to the re-arm queue and the next            *)
(* event_backend_wait submits a new POLL_ADD.  The context is reference    *)
(* counted; ctx_map, the re-arm queue and every operation handed to the    *)
(* kernel own one reference each.  The kernel runs concurrently with the   *)
(* loop thread: it takes submissions, completes polls and posts            *)
(* completions at any time.                                                *)
(***************************************************************************)
EXTENDS Integers, Sequences, FiniteSets

CONSTANTS Sockets,    \* sockets the application registers
          Timers,     \* timers; their timerfd is polled for reading
          Masks,      \* interest masks passed by the application
          SqSize,     \* entries of the submission queue (1024 in the code)
          MaxEvents,  \* events returned by one wait (64 in the code)
          MaxCtx,     \* bound: contexts ever created
          MaxModify,  \* bound: calls of event_backend_modify
          Allocs      \* outcomes of growing the re-arm queue

Bits == {"R", "W", "E"}                \* EVENT_READ, EVENT_WRITE, CLOSE|ERROR
Sources == Sockets \cup Timers
Ctx == 1 .. MaxCtx
NoPoll == {"none"}

ASSUME ConstantsOK == /\ Sockets \cap Timers = {}
                      /\ Masks \subseteq SUBSET {"R", "W"}
                      /\ SqSize \in Nat \ {0} /\ MaxEvents \in Nat \ {0}
                      /\ MaxCtx \in Nat /\ MaxModify \in Nat
                      /\ Allocs \subseteq BOOLEAN
                      /\ Sources \cap {"none", "main"} = {}

VARIABLES
  ctx,      \* SocketContext objects
  made,     \* contexts created so far
  ctx_map,  \* descriptor of a source -> context, 0 for NULL
  rearm,    \* rearm_pending[0 .. rearm_count-1]
  todo,     \* entries of the re-arm queue the current wait still has to visit
  total,    \* uring_pending_total
  sq,       \* submission queue
  kpoll,    \* kernel: mask of the armed poll of a context, or NoPoll
  cq,       \* completion queue
  events,   \* events of the current batch not yet dispatched
  calling,  \* source whose callback runs, "main" outside the loop, "none"
  pc,       \* where the loop thread is
  fatal,    \* fatal_error of the current wait
  left,     \* sources event_backend_destroy still has to visit
  modified  \* calls of modify so far

vars == <<ctx, made, ctx_map, rearm, todo, total, sq, kpoll, cq, events,
          calling, pc, fatal, left, modified>>

Context == [src : Sources \cup {"none"}, sock : BOOLEAN, mask : SUBSET Bits,
            closing : BOOLEAN, armed : BOOLEAN, queued : BOOLEAN,
            pend : Nat, refs : Nat]
Blank == [src |-> "none", sock |-> FALSE, mask |-> {}, closing |-> FALSE,
          armed |-> FALSE, queued |-> FALSE, pend |-> 0, refs |-> 0]
Sqe == [op : {"add", "update", "remove"}, c : Ctx, mask : SUBSET Bits]
Event == [src : Sources, c : Ctx, mask : SUBSET Bits]

Init == /\ ctx = [c \in Ctx |-> Blank]
        /\ made = 0
        /\ ctx_map = [s \in Sources |-> 0]
        /\ rearm = <<>> /\ todo = <<>> /\ total = 0
        /\ sq = <<>> /\ cq = <<>> /\ kpoll = [c \in Ctx |-> NoPoll]
        /\ events = <<>> /\ calling = "main" /\ pc = "app"
        /\ fatal = "none" /\ left = {} /\ modified = 0

(***************************************************************************)
(* Application calls, made by a callback or outside the loop.  A call that *)
(* fails without touching any state (EEXIST, EAGAIN, no context) is not a  *)
(* step.                                                                   *)
(***************************************************************************)
AppRuns == pc = "app" /\ calling # "none"
GotSqe == Len(sq) < SqSize

\* io_uring_get_sqe, prep, RETAIN, counters, submit: kernel takes it later.
Submit(op, c, m) == /\ sq' = Append(sq, [op |-> op, c |-> c, mask |-> m])
                    /\ total' = total + 1

event_backend_add(s, m) ==
  /\ AppRuns /\ ctx_map[s] = 0 /\ made < MaxCtx /\ GotSqe
  /\ made' = made + 1
  /\ ctx' = [ctx EXCEPT ![made + 1] =
               [src |-> s, sock |-> TRUE, mask |-> m, closing |-> FALSE,
                armed |-> TRUE, queued |-> FALSE, pend |-> 1, refs |-> 2]]
  /\ Submit("add", made + 1, m)
  /\ ctx_map' = [ctx_map EXCEPT ![s] = made + 1]
  /\ UNCHANGED <<rearm, todo, kpoll, cq, events, calling, pc, fatal, left,
                 modified>>

\* add_to_rearm_queue.
Enqueue(c) == rearm' = Append(rearm, c)

\* A context takes at most one place in the re-arm queue.
Queues(x, m) == m # {} /\ ~x.queued

ModifyIdle(c, m, ok) ==
  LET grew == Queues(ctx[c], m) /\ ok
  IN /\ ~ctx[c].armed
     /\ ctx' = [ctx EXCEPT ![c].mask = m,
                           ![c].queued = @ \/ grew,
                           ![c].refs = IF grew THEN @ + 1 ELSE @]
     /\ IF grew THEN Enqueue(c) ELSE UNCHANGED rearm
     /\ UNCHANGED <<sq, total>>

UpdateMaskOld(x, m) == x.mask                     \* mutant: mask set too late
UpdateMask(x, m) == m

ModifyArmed(c, m) ==
  /\ ctx[c].armed /\ GotSqe
  /\ ctx' = [ctx EXCEPT ![c].mask = m, ![c].refs = @ + 1, ![c].pend = @ + 1]
  /\ Submit("update", c, UpdateMask(ctx[c], m))
  /\ UNCHANGED rearm

event_backend_modify(s, m, ok) ==
  /\ AppRuns /\ modified < MaxModify
  /\ ctx_map[s] # 0 /\ ~ctx[ctx_map[s]].closing
  /\ ModifyIdle(ctx_map[s], m, ok) \/ ModifyArmed(ctx_map[s], m)
  /\ modified' = modified + 1
  /\ UNCHANGED <<made, ctx_map, todo, kpoll, cq, events, calling, pc, fatal,
                 left>>

\* An armed poll needs a POLL_REMOVE, which owns a reference of its own; the
\* reference of ctx_map is dropped at once.  A timer context keeps ctx->timer.
DetachedNoRetain(x) ==                            \* mutant: POLL_REMOVE owns none
  [x EXCEPT !.closing = TRUE, !.sock = x.src \in Timers,
            !.pend = IF x.armed THEN @ + 1 ELSE @, !.refs = @ - 1]
DetachedKeepsSock(x) ==                           \* mutant: ctx->sock kept
  [x EXCEPT !.closing = TRUE,
            !.pend = IF x.armed THEN @ + 1 ELSE @,
            !.refs = IF x.armed THEN @ ELSE @ - 1]
Detached(x) ==
  [x EXCEPT !.closing = TRUE, !.sock = x.src \in Timers,
            !.pend = IF x.armed THEN @ + 1 ELSE @,
            !.refs = IF x.armed THEN @ ELSE @ - 1]

Detach(s) ==
  LET c == ctx_map[s]
      armed == ctx[c].armed
  IN /\ c # 0 /\ ~ctx[c].closing
     /\ armed => GotSqe
     /\ ctx' = [ctx EXCEPT ![c] = Detached(@)]
     /\ IF armed THEN Submit("remove", c, {}) ELSE UNCHANGED <<sq, total>>
     /\ ctx_map' = [ctx_map EXCEPT ![s] = 0]
     /\ UNCHANGED <<made, rearm, todo, kpoll, cq, events, calling, fatal,
                    modified>>

event_backend_remove(s) == AppRuns /\ Detach(s) /\ UNCHANGED <<pc, left>>

(***************************************************************************)
(* event_backend_wait.                                                     *)
(***************************************************************************)
WaitBegin ==
  /\ pc = "app" /\ calling = "none" /\ events = <<>>
  /\ todo' = rearm /\ rearm' = <<>>
  /\ pc' = "rearm" /\ fatal' = "none"
  /\ UNCHANGED <<ctx, made, ctx_map, total, sq, kpoll, cq, events, calling,
                 left, modified>>

\* One entry of the re-arm queue: the old queue reference is dropped, a new
\* POLL_ADD (or, when no submission entry is free, a new place in the queue)
\* takes one.
RequeuesNever(ok) == FALSE                        \* mutant: given up when full
Requeues(ok) == ~GotSqe /\ ok

RearmStep(ok) ==
  LET c == Head(todo)
      wanted == ~ctx[c].closing /\ ctx[c].mask # {}
      poll == wanted /\ GotSqe
      again == wanted /\ Requeues(ok)
  IN /\ pc = "rearm" /\ todo # <<>>
     /\ todo' = Tail(todo)
     /\ ctx' = [ctx EXCEPT ![c].queued = again,
                           ![c].armed = @ \/ poll,
                           ![c].pend = IF poll THEN @ + 1 ELSE @,
                           ![c].refs = IF poll \/ again THEN @ ELSE @ - 1]
     /\ IF poll THEN Submit("add", c, ctx[c].mask) ELSE UNCHANGED <<sq, total>>
     /\ IF again THEN Enqueue(c) ELSE UNCHANGED rearm
     /\ fatal' = IF wanted /\ ~GotSqe /\ ~ok THEN "ENOMEM" ELSE fatal
     /\ UNCHANGED <<made, ctx_map, kpoll, cq, events, calling, pc, left,
                    modified>>

\* io_uring_wait_cqe_timeout: completions, the timeout, or a signal (EINTR).
WaitCqe ==
  /\ pc = "rearm" /\ todo = <<>>
  /\ pc' = "reap"
  /\ fatal' \in IF fatal = "none" THEN {"none", "EINTR"} ELSE {fatal}
  /\ UNCHANGED <<ctx, made, ctx_map, rearm, todo, total, sq, kpoll, cq,
                 events, calling, left, modified>>

BatchFull == cq # <<>> /\ Head(cq).op = "add" /\ Len(events) >= MaxEvents

ReapedNoRetain(x, add, grew) ==                   \* mutant: queue owns nothing
  [x EXCEPT !.armed = @ /\ ~add, !.pend = @ - 1, !.queued = @ \/ grew,
            !.refs = @ - 1]
Reaped(x, add, grew) ==
  [x EXCEPT !.armed = @ /\ ~add, !.pend = @ - 1, !.queued = @ \/ grew,
            !.refs = IF grew THEN @ ELSE @ - 1]

\* One completion.  A POLL_ADD yields an event unless it was cancelled or the
\* context is closing, and the context goes back to the re-arm queue.
Reap(ok) ==
  LET e == Head(cq)
      c == e.c
      add == e.op = "add"
      live == add /\ ~ctx[c].closing
      emit == live /\ e.mask # {}
      queue == live /\ Queues(ctx[c], ctx[c].mask)
      grew == queue /\ ok
  IN /\ pc = "reap" /\ cq # <<>> /\ ~BatchFull
     /\ cq' = Tail(cq)
     /\ total' = total - 1
     /\ ctx' = [ctx EXCEPT ![c] = Reaped(@, add, grew)]
     /\ events' = IF emit
                  THEN Append(events, [src |-> ctx[c].src, c |-> c,
                                       mask |-> e.mask])
                  ELSE events
     /\ IF grew THEN Enqueue(c) ELSE UNCHANGED rearm
     /\ fatal' = IF queue /\ ~ok /\ fatal = "none" THEN "ENOMEM" ELSE fatal
     /\ UNCHANGED <<made, ctx_map, todo, sq, kpoll, calling, pc, left,
                    modified>>

\* A failed wait returns -1 and its events are dropped; event_loop_run goes on
\* after EINTR and returns to its caller after any other error.
WaitEnd ==
  /\ pc = "reap" /\ (cq = <<>> \/ BatchFull)
  /\ pc' = "app"
  /\ events' = IF fatal = "none" THEN events ELSE <<>>
  /\ calling' = IF fatal = "ENOMEM" THEN "main" ELSE "none"
  /\ UNCHANGED <<ctx, made, ctx_map, rearm, todo, total, sq, kpoll, cq, fatal,
                 left, modified>>

(***************************************************************************)
(* event_loop_run: dispatch of the batch.  An error event gives one        *)
(* on_readable; otherwise on_readable comes before on_writable, and the    *)
(* context is looked at again in between.                                  *)
(***************************************************************************)
Registered(e) == IF e.src \in Timers THEN ctx_map[e.src] # 0 ELSE ctx[e.c].sock

Dispatch ==
  LET e == Head(events)
      rest == IF "E" \in e.mask \/ "R" \notin e.mask \/ e.src \in Timers
              THEN {} ELSE e.mask \ {"R"}
  IN /\ pc = "app" /\ calling = "none" /\ events # <<>>
     /\ calling' = IF Registered(e) THEN e.src ELSE "none"
     /\ events' = IF rest = {} \/ ~Registered(e)
                  THEN Tail(events)
                  ELSE <<[e EXCEPT !.mask = rest]>> \o Tail(events)
     /\ UNCHANGED <<ctx, made, ctx_map, rearm, todo, total, sq, kpoll, cq, pc,
                    fatal, left, modified>>

\* A callback returns to the loop; "main" enters event_loop_run.
Return ==
  /\ AppRuns
  /\ calling' = "none"
  /\ UNCHANGED <<ctx, made, ctx_map, rearm, todo, total, sq, kpoll, cq,
                 events, pc, fatal, left, modified>>

\* event_loop_run returns to its caller: running was cleared, or uring_flush at
\* the head of the next wait failed.
RunReturns ==
  /\ pc = "app" /\ calling = "none" /\ events = <<>>
  /\ calling' = "main"
  /\ UNCHANGED <<ctx, made, ctx_map, rearm, todo, total, sq, kpoll, cq,
                 events, pc, fatal, left, modified>>

(***************************************************************************)
(* EventLoop_finalize and event_backend_destroy, after the loop returned.  *)
(***************************************************************************)
Finalize ==
  /\ pc = "app" /\ calling = "main"
  /\ pc' = "timers"
  /\ left' = {t \in Timers : ctx_map[t] # 0}
  /\ events' = <<>>
  /\ UNCHANGED <<ctx, made, ctx_map, rearm, todo, total, sq, kpoll, cq,
                 calling, fatal, modified>>

\* The result of event_backend_remove_timer is ignored.
FinalizeTimer(t) ==
  /\ pc = "timers" /\ t \in left
  /\ left' = left \ {t}
  /\ \/ Detach(t)
     \/ /\ ctx[ctx_map[t]].armed /\ ~GotSqe
        /\ UNCHANGED <<ctx, made, ctx_map, rearm, todo, total, sq, kpoll, cq,
                       events, calling, fatal, modified>>
  /\ UNCHANGED pc

\* Phase 1: every context still in ctx_map is closing.
DestroyMark ==
  /\ pc = "timers" /\ left = {}
  /\ pc' = "cancel"
  /\ left' = {s \in Sources : ctx_map[s] # 0}
  /\ ctx' = [c \in Ctx |-> [ctx[c] EXCEPT !.closing =
                              @ \/ \E s \in Sources : ctx_map[s] = c]]
  /\ UNCHANGED <<made, ctx_map, rearm, todo, total, sq, kpoll, cq, events,
                 calling, fatal, modified>>

\* Phase 2: a POLL_REMOVE for each armed poll, skipped when no entry is free.
Cancelled(x) == [x EXCEPT !.pend = @ + 1, !.refs = @ + 1]

DestroyCancel(s) ==
  LET c == ctx_map[s]
      cancel == ctx[c].armed /\ GotSqe
  IN /\ pc = "cancel" /\ s \in left
     /\ left' = left \ {s}
     /\ ctx' = [ctx EXCEPT ![c] = IF cancel THEN Cancelled(@) ELSE @]
     /\ IF cancel THEN Submit("remove", c, {}) ELSE UNCHANGED <<sq, total>>
     /\ UNCHANGED <<made, ctx_map, rearm, todo, kpoll, cq, events, calling,
                    pc, fatal, modified>>

DestroyDrain ==
  /\ pc = "cancel" /\ left = {}
  /\ pc' = "drain"
  /\ UNCHANGED <<ctx, made, ctx_map, rearm, todo, total, sq, kpoll, cq,
                 events, calling, fatal, left, modified>>

\* Phase 3: one completion gives back the reference of its operation.
DrainStep ==
  LET c == Head(cq).c
  IN /\ pc = "drain" /\ total > 0 /\ cq # <<>>
     /\ cq' = Tail(cq)
     /\ total' = total - 1
     /\ ctx' = [ctx EXCEPT ![c].armed = @ /\ Head(cq).op # "add",
                           ![c].pend = @ - 1,
                           ![c].refs = @ - 1]
     /\ UNCHANGED <<made, ctx_map, rearm, todo, sq, kpoll, events, calling, pc,
                    fatal, left, modified>>

\* The drain ends when nothing is outstanding, or after a second without a
\* completion.  Phases 4 and 5 release the re-arm queue and ctx_map.
DestroyEnd ==
  /\ pc = "drain" /\ (total = 0 \/ cq = <<>>)
  /\ pc' = "destroyed"
  /\ ctx' = [c \in Ctx |-> [ctx[c] EXCEPT !.refs =
               @ - Cardinality({i \in 1 .. Len(rearm) : rearm[i] = c})
                 - Cardinality({s \in Sources : ctx_map[s] = c})]]
  /\ ctx_map' = [s \in Sources |-> 0]
  /\ rearm' = <<>>
  /\ UNCHANGED <<made, todo, total, sq, kpoll, cq, events, calling, fatal,
                 left, modified>>

(***************************************************************************)
(* The kernel (external): takes submissions in order, completes an armed   *)
(* poll once, with what is ready or with an error.                         *)
(***************************************************************************)
Cqe(op, c, m) == [op |-> op, c |-> c, mask |-> m]

KernelTake ==
  LET e == Head(sq)
      found == kpoll[e.c] # NoPoll
  IN /\ pc # "destroyed" /\ sq # <<>>
     /\ sq' = Tail(sq)
     /\ \/ /\ e.op = "add"
           /\ kpoll' = [kpoll EXCEPT ![e.c] = e.mask]
           /\ UNCHANGED cq
        \/ /\ e.op = "update"
           /\ kpoll' = IF found THEN [kpoll EXCEPT ![e.c] = e.mask] ELSE kpoll
           /\ cq' = Append(cq, Cqe("update", e.c, {}))
        \/ /\ e.op = "remove" /\ ~found
           /\ cq' = Append(cq, Cqe("remove", e.c, {}))
           /\ UNCHANGED kpoll
        \/ /\ e.op = "remove" /\ found
           /\ kpoll' = [kpoll EXCEPT ![e.c] = NoPoll]
           /\ \/ cq' = cq \o <<Cqe("add", e.c, {}), Cqe("remove", e.c, {})>>
              \/ cq' = cq \o <<Cqe("remove", e.c, {}), Cqe("add", e.c, {})>>
     /\ UNCHANGED <<ctx, made, ctx_map, rearm, todo, total, events, calling,
                    pc, fatal, left, modified>>

KernelComplete(c) ==
  /\ pc # "destroyed" /\ kpoll[c] # NoPoll
  /\ \E m \in ((SUBSET kpoll[c]) \ {{}}) \cup {{"E"}} :
       cq' = Append(cq, Cqe("add", c, m))
  /\ kpoll' = [kpoll EXCEPT ![c] = NoPoll]
  /\ UNCHANGED <<ctx, made, ctx_map, rearm, todo, total, sq, events, calling,
                 pc, fatal, left, modified>>

AddTimer(t) == event_backend_add(t, {"R"})
RemoveTimer(t) == event_backend_remove(t)

AppStep == \/ \E s \in Sockets, m \in Masks : event_backend_add(s, m)
           \/ \E t \in Timers : AddTimer(t)
           \/ \E s \in Sockets, m \in Masks, ok \in Allocs :
                event_backend_modify(s, m, ok)
           \/ \E s \in Sockets : event_backend_remove(s)
           \/ \E t \in Timers : RemoveTimer(t)
LoopStep == \/ WaitBegin \/ WaitCqe \/ WaitEnd \/ Dispatch \/ Return
            \/ \E ok \in Allocs : RearmStep(ok) \/ Reap(ok)
DestroyStep == \/ DestroyMark \/ DestroyDrain \/ DrainStep \/ DestroyEnd
               \/ \E t \in Timers : FinalizeTimer(t)
               \/ \E s \in Sources : DestroyCancel(s)
KernelStep == KernelTake \/ \E c \in Ctx : KernelComplete(c)
Done == pc = "destroyed" /\ UNCHANGED vars

Next == AppStep \/ LoopStep \/ RunReturns \/ Finalize \/ DestroyStep
        \/ KernelStep \/ Done

Spec == Init /\ [][Next]_vars

(***************************************************************************)
(* Properties.                                                             *)
(***************************************************************************)
\* Count of the elements of a queue that belong to context c.
Ops(q, c) == Cardinality({i \in 1 .. Len(q) : q[i].c = c})
Places(q, c) == Cardinality({i \in 1 .. Len(q) : q[i] = c})
One(p) == IF p THEN 1 ELSE 0
InMap(c) == \E s \in Sources : ctx_map[s] = c
\* Outstanding POLL_ADD operations of a context, wherever they are.
Adds(q, c) == Cardinality({i \in 1 .. Len(q) : q[i].c = c /\ q[i].op = "add"})
Polls(c) == Adds(sq, c) + Adds(cq, c) + One(kpoll[c] # NoPoll)

\* The variables stay in their types.
TypeOK == /\ ctx \in [Ctx -> Context] /\ made \in 0 .. MaxCtx
          /\ ctx_map \in [Sources -> 0 .. MaxCtx]
          /\ rearm \in Seq(Ctx) /\ todo \in Seq(Ctx)
          /\ total \in Nat /\ sq \in Seq(Sqe) /\ cq \in Seq(Sqe)
          /\ kpoll \in [Ctx -> (SUBSET Bits) \cup {NoPoll}]
          /\ events \in Seq(Event)
          /\ calling \in Sources \cup {"none", "main"}
          /\ pc \in {"app", "rearm", "reap", "timers", "cancel", "drain",
                     "destroyed"}
          /\ fatal \in {"none", "EINTR", "ENOMEM"}
          /\ left \subseteq Sources
          /\ modified \in 0 .. MaxModify

\* Every reference of a context is owned: by its place in ctx_map, by its place
\* in the re-arm queue, or by one operation submitted to the kernel and not yet
\* consumed - so no RELEASE frees a context the kernel will still name, and
\* none is left when the owners are gone.
Ownership ==
  pc # "destroyed" =>
    \A c \in Ctx :
      /\ ctx[c].pend = Ops(sq, c) + Ops(cq, c) + One(kpoll[c] # NoPoll)
      /\ ctx[c].queued => Places(rearm, c) + Places(todo, c) = 1
      /\ ~ctx[c].queued => Places(rearm, c) + Places(todo, c) = 0
      /\ ctx[c].refs = One(InMap(c)) + ctx[c].pend + One(ctx[c].queued)

\* An event waiting in the batch never points to a freed context, although
\* event_backend_remove gives up the ctx_map reference at once.
EventsAlive == \A i \in 1 .. Len(events) :
                 events[i].src \in Sockets => ctx[events[i].c].refs > 0

\* One-shot polls are never doubled: poll_armed says exactly whether a POLL_ADD
\* of the context is outstanding, and there is at most one.
OnePoll == pc # "destroyed" =>
             \A c \in Ctx : Polls(c) = One(ctx[c].armed)

\* The kernel's interest is never stale: when an armed poll has another mask
\* than registered_mask, the last submission queued for it carries the new one.
MaskFresh ==
  \A c \in Ctx : InMap(c) /\ ~ctx[c].closing /\ kpoll[c] # NoPoll =>
    LET I == {i \in 1 .. Len(sq) : sq[i].c = c}
    IN IF I = {} THEN kpoll[c] = ctx[c].mask
       ELSE \E i \in I : (\A j \in I : j <= i) /\ sq[i].mask = ctx[c].mask

\* event_backend_destroy, when its drain was not cut short, leaves no context
\* allocated; cut short or not, it releases none twice.
DestroyFrees ==
  pc = "destroyed" => \A c \in Ctx : /\ ctx[c].refs >= 0
                                     /\ total = 0 => ctx[c].refs = 0

\* Every context is owned and polled once until event_backend_destroy frees it.
ContextsOwned == TypeOK /\ Ownership /\ OnePoll /\ DestroyFrees

\* Completions and batch events of the context of s that are not dispatched.
Signalled(s) ==
  LET c == ctx_map[s]
  IN IF c = 0 THEN {}
     ELSE UNION ({cq[i].mask : i \in {j \in 1 .. Len(cq) : cq[j].c = c}}
            \cup {events[i].mask : i \in {j \in 1 .. Len(events) : events[j].c = c}})
R == INSTANCE Reactor WITH
       registered <- {s \in Sockets : ctx_map[s] # 0},
       signalled <- [s \in Sockets |-> Signalled(s)],
       calling <- IF calling \in Sockets \cup {"none"} THEN calling ELSE "other"
\* The backend implements the contract of Reactor.
ImplementsReactor == R!Spec
=============================================================================
