----------------------------- MODULE EpollLoop -----------------------------
(***************************************************************************)
(* The event loop on its epoll backend: event_loop_run with its batches,   *)
(* deferred releases and timers (event_loop.c, LIBCORE_USE_EPOLL) and the  *)
(* timerfd timer (timer.c).                                                *)
(*                                                                         *)
(* Everything but the kernel and the signal that stops the loop runs on    *)
(* one thread: application code runs inside callbacks, between the events  *)
(* of a batch that was collected earlier, and may remove, close, free and  *)
(* replace what later events of the same batch are about.  Descriptors are *)
(* reused as soon as they are closed.                                      *)
(***************************************************************************)
EXTENDS Integers, Sequences, FiniteSets

CONSTANTS Sockets, Timers,
          Repeating,      \* the timers that repeat
          Fds,            \* descriptors sockets may get
          Masks,          \* interest masks passed by the application
          Readiness,      \* what may become ready on a descriptor at a time
          MaxEvents,      \* events returned by one wait (64 in the code)
          MaxTimers,      \* size of active_timers (1024 in the code)
          MaxCtx,         \* bound: contexts ever created
          MaxFail,        \* bound: failures of EPOLL_CTL_DEL
          RestartPending  \* one-shot timers are restarted with an event pending

Bits == {"R", "W", "E"}
Slots == Fds \cup Timers              \* indices of ctx_map; a timer has its tfd
Ctx == 1 .. MaxCtx
NoFd == "closed"

ASSUME ConstantsOK == /\ Repeating \subseteq Timers
                      /\ Sockets \cap Timers = {} /\ Fds \cap Timers = {}
                      /\ Masks \subseteq SUBSET {"R", "W"}
                      /\ Readiness \subseteq SUBSET Bits
                      /\ MaxEvents \in Nat \ {0} /\ MaxTimers \in Nat
                      /\ NoFd \notin Fds /\ \A s \in Sockets : s \notin Nat
                      /\ {"none", "main"} \cap (Sockets \cup Slots) = {}
                      /\ MaxCtx \in Nat /\ MaxFail \in Nat
                      /\ RestartPending \in BOOLEAN

VARIABLES
  sock,     \* sockets: descriptor, "closed" before and after; freed; ready bits
  timer,    \* Timer objects with their timerfd
  ctx,      \* SocketContext objects
  made,     \* contexts created so far
  ctx_map,  \* slot -> context, 0 for NULL
  kep,      \* kernel: slot -> context registered with epoll, 0 for none
  defer,    \* defer_pending: contexts and sockets to release
  batch,    \* events of the current wait not yet dispatched
  calling,  \* source whose callback runs, "main" outside the loop, "none"
  phase,    \* "wait", "batch" or "destroyed"
  running,  \* loop->running
  failed,   \* failures of EPOLL_CTL_DEL so far
  stopped   \* timers whose stop was called last (history, for StopSilences)

vars == <<sock, timer, ctx, made, ctx_map, kep, defer, batch, calling, phase,
          running, failed, stopped>>
loopVars == <<batch, calling, phase, running>>

NewSocket == [fd |-> NoFd, freed |-> FALSE, ready |-> {}]
NewTimer == [added |-> FALSE, active |-> FALSE, armed |-> FALSE,
             fired |-> FALSE, owned |-> TRUE, refs |-> 1]

Init == /\ sock = [s \in Sockets |-> NewSocket]
        /\ timer = [t \in Timers |-> NewTimer]
        /\ ctx = [c \in Ctx |-> [src |-> "none", sock |-> FALSE, mask |-> {},
                                 refs |-> 0]]
        /\ made = 0
        /\ ctx_map = [f \in Slots |-> 0] /\ kep = [f \in Slots |-> 0]
        /\ defer = <<>> /\ batch = <<>>
        /\ calling = "main" /\ phase = "wait" /\ running = FALSE
        /\ failed = 0 /\ stopped = {}

AppRuns == calling # "none" /\ phase # "destroyed"
Open(s) == sock[s].fd # NoFd
\* The application still holds its reference of the socket.
Owned(s) == Open(s) /\ s \notin {defer[i] : i \in 1 .. Len(defer)}
Context(s) == IF Open(s) THEN ctx_map[sock[s].fd] ELSE 0
Registered(s) == Context(s) # 0 /\ ctx[Context(s)].src = s /\ ctx[Context(s)].sock

(***************************************************************************)
(* Sockets.                                                                *)
(***************************************************************************)
\* accept or connect gives a new socket the lowest free descriptor or any other.
OpenSocket(s, f) ==
  /\ AppRuns /\ ~sock[s].freed /\ ~Open(s)
  /\ \A x \in Sockets : sock[x].fd # f
  /\ sock' = [sock EXCEPT ![s].fd = f]
  /\ UNCHANGED <<timer, ctx, made, ctx_map, kep, defer, failed, stopped>>
  /\ UNCHANGED loopVars

event_backend_add(s, m) ==
  LET f == sock[s].fd
  IN /\ AppRuns /\ Owned(s) /\ made < MaxCtx
     /\ kep[f] = 0                                   \* else EEXIST
     /\ made' = made + 1
     /\ ctx' = [ctx EXCEPT ![made + 1] = [src |-> s, sock |-> TRUE, mask |-> m,
                                          refs |-> 1]]
     /\ kep' = [kep EXCEPT ![f] = made + 1]
     /\ ctx_map' = [ctx_map EXCEPT ![f] = made + 1]
     /\ UNCHANGED <<sock, timer, defer, failed, stopped>>
     /\ UNCHANGED loopVars

event_backend_modify(s, m) ==
  /\ AppRuns /\ Context(s) # 0 /\ kep[sock[s].fd] # 0
  /\ ctx' = [ctx EXCEPT ![Context(s)].mask = m]
  /\ UNCHANGED <<sock, timer, made, ctx_map, kep, defer, failed, stopped>>
  /\ UNCHANGED loopVars

\* The context goes to the defer queue: events of the batch may point to it.
DisposeNow(c) ==                                  \* mutant: released at once
  /\ ctx' = [ctx EXCEPT ![c].sock = FALSE, ![c].refs = @ - 1]
  /\ UNCHANGED defer
Dispose(c) == /\ ctx' = [ctx EXCEPT ![c].sock = FALSE]
              /\ defer' = Append(defer, c)

\* EPOLL_CTL_DEL failed: the context stays in ctx_map without its socket.
DelFailed(f, c) ==
  /\ ctx' = [ctx EXCEPT ![c].sock = FALSE]
  /\ UNCHANGED <<ctx_map, kep, defer>>

event_backend_remove(s) ==
  LET f == sock[s].fd
      c == Context(s)
  IN /\ AppRuns /\ c # 0
     /\ \/ /\ ctx_map' = [ctx_map EXCEPT ![f] = 0]
           /\ kep' = [kep EXCEPT ![f] = 0]
           /\ Dispose(c)
           /\ UNCHANGED failed
        \/ /\ failed < MaxFail
           /\ failed' = failed + 1
           /\ DelFailed(f, c)
     /\ UNCHANGED <<sock, timer, made, stopped>>
     /\ UNCHANGED loopVars

\* Registration takes no reference: an owner removes a socket before it lets go.
MayRelease(s) == Owned(s) /\ Context(s) = 0

\* The last reference of a socket is dropped: Socket_finalize closes the
\* descriptor, and the kernel forgets a closed descriptor.
Freed(S, r) == [s \in Sockets |-> IF s \in S
                                  THEN [fd |-> NoFd, freed |-> TRUE, ready |-> {}]
                                  ELSE r[s]]
Forgotten(S, k) == [f \in Slots |-> IF \E s \in S : sock[s].fd = f THEN 0 ELSE k[f]]

ReleaseSocket(s) ==
  /\ AppRuns /\ MayRelease(s)
  /\ sock' = Freed({s}, sock)
  /\ kep' = Forgotten({s}, kep)
  /\ UNCHANGED <<timer, ctx, made, ctx_map, defer, failed, stopped>>
  /\ UNCHANGED loopVars

\* deferRelease of the owner of a socket (an HttpConnection).
DeferSocket(s) ==
  /\ AppRuns /\ MayRelease(s)
  /\ defer' = Append(defer, s)
  /\ UNCHANGED <<sock, timer, ctx, made, ctx_map, kep, failed, stopped>>
  /\ UNCHANGED loopVars

\* recv or send until the socket would block.
Consume(s) ==
  /\ AppRuns /\ calling = s /\ sock[s].ready # {}
  /\ sock' = [sock EXCEPT ![s].ready = {}]
  /\ UNCHANGED <<timer, ctx, made, ctx_map, kep, defer, failed, stopped>>
  /\ UNCHANGED loopVars

(***************************************************************************)
(* Timers.                                                                 *)
(***************************************************************************)
Pending(t) == calling = t \/ \E i \in 1 .. Len(batch) : batch[i].src = t

Disarmed(r) == [r EXCEPT !.active = FALSE, !.armed = FALSE, !.fired = FALSE]
StopTimer(r) == IF r.active THEN Disarmed(r) ELSE r

_addTimer(t) ==
  /\ AppRuns /\ timer[t].refs > 0 /\ timer[t].owned /\ ~timer[t].added
  /\ Cardinality({x \in Timers : timer[x].added}) < MaxTimers
  /\ kep[t] = 0 /\ made < MaxCtx
  /\ made' = made + 1
  /\ ctx' = [ctx EXCEPT ![made + 1] = [src |-> t, sock |-> FALSE,
                                       mask |-> {"R"}, refs |-> 1]]
  /\ kep' = [kep EXCEPT ![t] = made + 1]
  /\ ctx_map' = [ctx_map EXCEPT ![t] = made + 1]
  /\ timer' = [timer EXCEPT ![t].added = TRUE, ![t].refs = @ + 1]
  /\ UNCHANGED <<sock, defer, failed, stopped>>
  /\ UNCHANGED loopVars

\* Timer_stop, event_backend_remove_timer (the context is released at once),
\* then the reference of active_timers.
Unlinked(r) == [StopTimer(r) EXCEPT !.added = FALSE, !.refs = @ - 1]

_removeTimer(t) ==
  /\ AppRuns /\ timer[t].added /\ timer[t].owned
  /\ \/ /\ timer' = [timer EXCEPT ![t] = Unlinked(@)]
        /\ ctx' = [ctx EXCEPT ![ctx_map[t]].refs = @ - 1]
        /\ ctx_map' = [ctx_map EXCEPT ![t] = 0]
        /\ kep' = [kep EXCEPT ![t] = 0]
        /\ UNCHANGED failed
     \/ /\ failed < MaxFail                          \* EPOLL_CTL_DEL failed
        /\ failed' = failed + 1
        /\ timer' = [timer EXCEPT ![t] = StopTimer(@)]
        /\ UNCHANGED <<ctx, ctx_map, kep>>
  /\ stopped' = stopped \cup {t}
  /\ UNCHANGED <<sock, made, defer>>
  /\ UNCHANGED loopVars

Timer_start(t) ==
  /\ AppRuns /\ timer[t].owned /\ ~timer[t].active /\ timer[t].added
  /\ RestartPending \/ t \in Repeating \/ ~Pending(t)
  /\ timer' = [timer EXCEPT ![t].active = TRUE, ![t].armed = TRUE,
                            ![t].fired = FALSE]
  /\ stopped' = stopped \ {t}
  /\ UNCHANGED <<sock, ctx, made, ctx_map, kep, defer, failed>>
  /\ UNCHANGED loopVars

Timer_stop(t) ==
  /\ AppRuns /\ timer[t].owned
  /\ timer' = [timer EXCEPT ![t] = StopTimer(@)]
  /\ stopped' = stopped \cup {t}
  /\ UNCHANGED <<sock, ctx, made, ctx_map, kep, defer, failed>>
  /\ UNCHANGED loopVars

\* The application drops its own reference of a timer.
ReleaseTimer(t) ==
  /\ AppRuns /\ timer[t].owned
  /\ timer' = [timer EXCEPT ![t].owned = FALSE, ![t].refs = @ - 1]
  /\ UNCHANGED <<sock, ctx, made, ctx_map, kep, defer, failed, stopped>>
  /\ UNCHANGED loopVars

(***************************************************************************)
(* event_loop_run.                                                         *)
(***************************************************************************)
\* epoll_wait reports a registered descriptor while it is ready (the backend is
\* level-triggered).
Report(f) ==
  IF kep[f] = 0 THEN {}
  ELSE IF f \in Timers THEN IF timer[f].fired THEN {"R"} ELSE {}
  ELSE UNION {sock[s].ready \cap (ctx[kep[f]].mask \cup {"E"}) :
                s \in {x \in Sockets : sock[x].fd = f}}
Ready == {f \in Slots : Report(f) # {}}
EventOf(f) == [src |-> ctx[kep[f]].src, c |-> kep[f], mask |-> Report(f)]

\* The ready descriptors in any order, as many as fit.
Collect ==
  \E n \in 0 .. MaxEvents, order \in [1 .. MaxEvents -> Ready \cup {"none"}] :
    /\ n = MaxEvents \/ n = Cardinality(Ready)
    /\ \A i \in 1 .. MaxEvents : (order[i] = "none") <=> (i > n)
    /\ \A i, j \in 1 .. n : order[i] = order[j] => i = j
    /\ batch' = [i \in 1 .. n |-> EventOf(order[i])]

\* A reference for every timer of the batch.
RetainedNot(t) == 0                               \* mutant: batch owns nothing
Retained(t) == Cardinality({i \in 1 .. Len(batch') : batch'[i].src = t})

\* The loop condition of event_loop_run.
RunsOn == running

Wait ==
  /\ calling = "none" /\ phase = "wait" /\ RunsOn
  /\ Collect
  /\ timer' = [t \in Timers |-> [timer[t] EXCEPT !.refs = @ + Retained(t)]]
  /\ phase' = "batch"
  /\ UNCHANGED <<sock, ctx, made, ctx_map, kep, defer, calling, running,
                 failed, stopped>>

\* running was cleared, or epoll_wait failed with an error other than EINTR.
RunReturns ==
  /\ calling = "none" /\ phase = "wait"
  /\ calling' = "main" /\ running' = FALSE
  /\ UNCHANGED <<sock, timer, ctx, made, ctx_map, kep, defer, batch, phase,
                 failed, stopped>>

Expired(t, r) == IF t \in Repeating THEN r ELSE [r EXCEPT !.active = FALSE]
DropTimer(r) == [r EXCEPT !.refs = @ - 1]

\* platform_data is compared with the loop; then on_timer_event reads the
\* timerfd, and an expired timer calls back.
DispatchTimerForeign(t) ==                        \* mutant: test inverted
  /\ calling' = "none"
  /\ timer' = [timer EXCEPT ![t] = DropTimer(@)]
  /\ batch' = Tail(batch)
DispatchTimer(t) ==
  LET r == timer[t]
      call == r.added /\ r.fired
  IN /\ calling' = IF call THEN t ELSE "none"
     /\ timer' = [timer EXCEPT ![t] =
                    IF call THEN [r EXCEPT !.fired = FALSE]
                    ELSE IF r.added THEN DropTimer(Expired(t, r))
                    ELSE DropTimer(r)]
     /\ batch' = Tail(batch)

\* An error event gives one on_readable; otherwise on_readable comes before
\* on_writable, and ctx->sock is looked at again in between.
DispatchUnchecked(e) ==                           \* mutant: ctx->sock not looked at
  LET rest == IF "E" \in e.mask \/ "R" \notin e.mask THEN {} ELSE e.mask \ {"R"}
  IN /\ calling' = e.src
     /\ batch' = IF rest = {} THEN Tail(batch)
                 ELSE <<[e EXCEPT !.mask = rest]>> \o Tail(batch)
     /\ UNCHANGED timer
DispatchReadOnly(e) ==                            \* mutant: EVENT_READ only
  /\ calling' = IF ctx[e.c].sock /\ Open(e.src) /\ "R" \in e.mask
                THEN e.src ELSE "none"
  /\ batch' = Tail(batch)
  /\ UNCHANGED timer
DispatchSocket(e) ==
  LET live == ctx[e.c].sock /\ Open(e.src)
      rest == IF "E" \in e.mask \/ "R" \notin e.mask THEN {} ELSE e.mask \ {"R"}
  IN /\ calling' = IF live THEN e.src ELSE "none"
     /\ batch' = IF rest = {} \/ ~live THEN Tail(batch)
                 ELSE <<[e EXCEPT !.mask = rest]>> \o Tail(batch)
     /\ UNCHANGED timer

Dispatch ==
  /\ calling = "none" /\ phase = "batch" /\ batch # <<>>
  /\ IF Head(batch).src \in Timers THEN DispatchTimer(Head(batch).src)
     ELSE DispatchSocket(Head(batch))
  /\ UNCHANGED <<sock, ctx, made, ctx_map, kep, defer, phase, running, failed,
                 stopped>>

\* A callback returns; after a timer callback a one-shot timer is inactive and
\* the reference of the batch is dropped.
Return ==
  /\ calling \in Sockets \cup Timers /\ phase = "batch"
  /\ calling' = "none"
  /\ timer' = [t \in Timers |-> IF t = calling
                                THEN DropTimer(Expired(t, timer[t]))
                                ELSE timer[t]]
  /\ UNCHANGED <<sock, ctx, made, ctx_map, kep, defer, batch, phase, running,
                 failed, stopped>>

\* flush_defer_queue: every object deferred so far is released once.
FlushOnly(n) ==
  LET D == {defer[i] : i \in 1 .. n}
  IN /\ ctx' = [c \in Ctx |-> IF c \in D THEN [ctx[c] EXCEPT !.refs = @ - 1]
                              ELSE ctx[c]]
     /\ sock' = Freed(D \cap Sockets, sock)
     /\ kep' = Forgotten(D \cap Sockets, kep)
     /\ defer' = <<>>
Flush == FlushOnly(Len(defer))

BatchEnd ==
  /\ calling = "none" /\ phase = "batch" /\ batch = <<>>
  /\ Flush
  /\ phase' = "wait"
  /\ UNCHANGED <<timer, made, ctx_map, batch, calling, running, failed, stopped>>

Run ==
  /\ calling = "main" /\ phase = "wait"
  /\ calling' = "none" /\ running' = TRUE
  /\ UNCHANGED <<sock, timer, ctx, made, ctx_map, kep, defer, batch, phase,
                 failed, stopped>>

\* event_loop_stop, by a callback or a signal handler.
Stop ==
  /\ phase # "destroyed" /\ running
  /\ running' = FALSE
  /\ UNCHANGED <<sock, timer, ctx, made, ctx_map, kep, defer, batch, calling,
                 phase, failed, stopped>>

\* EventLoop_finalize: flush, take the timers out, release the map.
EventLoop_finalize ==
  /\ calling = "main" /\ phase = "wait"
  /\ phase' = "destroyed"
  /\ LET D == {defer[i] : i \in 1 .. Len(defer)}
     IN /\ ctx' = [c \in Ctx |-> [ctx[c] EXCEPT
              !.refs = @ - Cardinality({c} \cap D)
                         - Cardinality({f \in Slots : ctx_map[f] = c})]]
        /\ sock' = Freed(D \cap Sockets, sock)
        /\ timer' = [t \in Timers |-> IF timer[t].added THEN Unlinked(timer[t])
                                      ELSE timer[t]]
        /\ ctx_map' = [f \in Slots |-> 0] /\ kep' = [f \in Slots |-> 0]
        /\ defer' = <<>>
  /\ UNCHANGED <<made, batch, calling, running, failed, stopped>>

(***************************************************************************)
(* The kernel (external): readiness comes and stays, timers expire.        *)
(***************************************************************************)
BecomeReady(s, b) ==
  /\ Open(s) /\ sock[s].ready = {} /\ phase # "destroyed"
  /\ sock' = [sock EXCEPT ![s].ready = b]
  /\ UNCHANGED <<timer, ctx, made, ctx_map, kep, defer, failed, stopped>>
  /\ UNCHANGED loopVars

Expire(t) ==
  /\ timer[t].armed /\ ~timer[t].fired /\ phase # "destroyed"
  /\ timer' = [timer EXCEPT ![t].fired = TRUE, ![t].armed = t \in Repeating]
  /\ UNCHANGED <<sock, ctx, made, ctx_map, kep, defer, failed, stopped>>
  /\ UNCHANGED loopVars

SocketCall == \E s \in Sockets :
                \/ \E f \in Fds : OpenSocket(s, f)
                \/ \E m \in Masks : event_backend_add(s, m) \/ event_backend_modify(s, m)
                \/ event_backend_remove(s)
                \/ ReleaseSocket(s) \/ DeferSocket(s) \/ Consume(s)
TimerCall == \E t \in Timers : \/ _addTimer(t) \/ _removeTimer(t)
                               \/ Timer_start(t) \/ Timer_stop(t)
                               \/ ReleaseTimer(t)
LoopStep == Wait \/ Dispatch \/ Return \/ BatchEnd
Kernel == \/ \E s \in Sockets, b \in Readiness : BecomeReady(s, b)
          \/ \E t \in Timers : Expire(t)
Done == phase = "destroyed" /\ UNCHANGED vars

Next == SocketCall \/ TimerCall \/ LoopStep \/ RunReturns \/ Run \/ Stop
        \/ EventLoop_finalize \/ Kernel \/ Done
Spec == Init /\ [][Next]_vars

(***************************************************************************)
(* Properties.                                                             *)
(***************************************************************************)
SocketRec == [fd : Fds \cup {NoFd}, freed : BOOLEAN, ready : SUBSET Bits]
TimerRec == [added : BOOLEAN, active : BOOLEAN, armed : BOOLEAN,
             fired : BOOLEAN, owned : BOOLEAN, refs : Nat]
CtxRec == [src : Sockets \cup Timers \cup {"none"}, sock : BOOLEAN,
           mask : SUBSET Bits, refs : Nat]
EventRec == [src : Sockets \cup Timers, c : Ctx, mask : SUBSET Bits]

\* The variables stay in their types.
TypeOK ==
  /\ sock \in [Sockets -> SocketRec] /\ timer \in [Timers -> TimerRec]
  /\ ctx \in [Ctx -> CtxRec] /\ made \in 0 .. MaxCtx
  /\ ctx_map \in [Slots -> 0 .. MaxCtx] /\ kep \in [Slots -> 0 .. MaxCtx]
  /\ defer \in Seq(Ctx \cup Sockets) /\ batch \in Seq(EventRec)
  /\ calling \in Sockets \cup Timers \cup {"none", "main"}
  /\ phase \in {"wait", "batch", "destroyed"}
  /\ running \in BOOLEAN /\ failed \in 0 .. MaxFail /\ stopped \subseteq Timers

\* No event of the batch leads to freed memory, whatever the callbacks before
\* it removed and released: the context, the timer, and the socket of a context
\* that still names one are allocated.
BatchAlive ==
  \A i \in 1 .. Len(batch) :
    LET e == batch[i]
    IN IF e.src \in Timers THEN timer[e.src].refs > 0
       ELSE ctx[e.c].refs > 0 /\ (ctx[e.c].sock => ~sock[e.src].freed)

One(b) == IF b THEN 1 ELSE 0

\* A timer is referenced by its owner, by active_timers and by each event of
\* the batch, and by nothing else.
TimerOwnership ==
  \A t \in Timers :
    timer[t].refs = One(timer[t].owned) + One(timer[t].added) + One(calling = t)
                    + IF phase = "batch"
                      THEN Cardinality({i \in 1 .. Len(batch) : batch[i].src = t})
                      ELSE 0

\* Between batches every context is in ctx_map or freed, or waits in the defer
\* queue for the next batch: none is lost.
NoContextLost ==
  \A c \in 1 .. made :
    ctx[c].refs = Cardinality({f \in Slots : ctx_map[f] = c})
                  + Cardinality({i \in 1 .. Len(defer) : defer[i] = c})

\* Every context is kept as long as the batch may use it, and no longer.
ContextsKept == TypeOK /\ BatchAlive /\ NoContextLost

\* A timer outside the loop does not run: it cannot expire unseen and call back
\* when it is added again.
IdleTimerDisarmed == \A t \in Timers : ~timer[t].added => ~timer[t].armed

\* Timers are kept as long as they are used, and run only inside the loop.
TimersKept == TimerOwnership /\ IdleTimerDisarmed

\* docs/libcore_api_en.md: self->stop "Stop timer".  After stop no callback of
\* the timer starts until start is called.
StopSilences == [][\A t \in Timers : calling' = t /\ calling # t => t \notin stopped]_vars

R == INSTANCE Reactor WITH
       registered <- {s \in Sockets : Registered(s)},
       signalled <- [s \in Sockets |->
                       IF Registered(s)
                       THEN UNION {batch[i].mask : i \in
                              {j \in 1 .. Len(batch) : batch[j].c = Context(s)}}
                       ELSE {}],
       calling <- IF calling \in Sockets \cup {"none"} THEN calling ELSE "other"
\* The loop implements the contract of Reactor.
ImplementsReactor == R!Spec
=============================================================================
