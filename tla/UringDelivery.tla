---------------------------- MODULE UringDelivery -----------------------------
(*****************************************************************************)
(* The backend on io_uring: what its steps do to the events of a batch, to   *)
(* the interest the kernel has, and to what Reactor sees of it.  The counts  *)
(* of UringInvariant enter by what they say of single contexts and entries.  *)
(*****************************************************************************)
EXTENDS UringBackend, TLAPS

USE ZenonT(60)

\* A queue of submissions brings a POLL_ADD of context c.
Coming(q, c) == \E i \in 1 .. Len(q) : q[i].c = c /\ q[i].op = "add"

\* What follows from the invariant of UringInvariant: ctx_map leads to a context
\* of the source, a context not made is blank and no completion names it, and
\* one that is not armed has no poll in the kernel and none on the way to it.
Traced ==
  /\ \A s \in Sources : ctx_map[s] # 0 =>
       ctx_map[s] \in 1 .. made /\ ctx[ctx_map[s]].src = s
  /\ \A c \in Ctx : c > made => ctx[c] = Blank
  /\ \A c \in Ctx : c <= made => ctx[c].src \in Sources
  /\ \A c \in Ctx : ~ctx[c].armed => kpoll[c] = NoPoll /\ ~Coming(sq, c)
  /\ \A i \in 1 .. Len(cq) : cq[i].c <= made
Tidy == TypeOK /\ (pc # "destroyed" => Traced)

\* Every mask and every allocation outcome is one of the declared values.
LEMMA InputsTyped ==
  /\ \A m \in Masks : m \in SUBSET Bits
  /\ {"R"} \in SUBSET Bits
  /\ \A ok \in Allocs : ok \in BOOLEAN
  /\ \A s \in Sockets : s \in Sources
  /\ \A t \in Timers : t \in Sources
BY ConstantsOK DEF Bits, Sources

\* A source is registered with some interest when no mask is empty.
LEMMA MasksNotEmpty ==
  ASSUME {} \notin Masks, NEW m \in Masks \cup {{"R"}}
  PROVE  m \in SUBSET Bits /\ m # {}
<1>1. CASE m \in Masks
  BY <1>1, InputsTyped
<1>2. CASE m = {"R"}
  BY <1>2, InputsTyped
<1>3. QED
  BY <1>1, <1>2

\* A source in ctx_map has a context of its own.
LEMMA OwnContext ==
  ASSUME TypeOK, Traced, NEW s \in Sources, ctx_map[s] # 0
  PROVE  /\ ctx_map[s] \in Ctx /\ ctx_map[s] <= made
         /\ ctx[ctx_map[s]].src = s /\ InMap(ctx_map[s])
         /\ \A t \in Sources : ctx_map[t] = ctx_map[s] => t = s
<1>1. ctx_map[s] \in 1 .. made /\ ctx[ctx_map[s]].src = s
  BY DEF Traced
<1>2. \A t \in Sources : ctx_map[t] = ctx_map[s] => ctx[ctx_map[t]].src = t
  BY <1>1 DEF Traced
<1>3. QED
  BY <1>1, <1>2, ConstantsOK, SMTT(60) DEF InMap, Ctx, TypeOK

\* Every completion names a context that was made.
LEMMA CompletionsMade ==
  ASSUME Tidy, pc # "destroyed", NEW i \in 1 .. Len(cq)
  PROVE  cq[i] \in Sqe /\ cq[i].c \in Ctx /\ cq[i].c \in 1 .. made
<1>1. cq[i] \in Sqe /\ made \in Nat
  BY SMTT(60) DEF Tidy, TypeOK
<1>2. cq[i].c <= made
  BY DEF Tidy, Traced
<1>3. QED
  BY <1>1, <1>2, SMTT(60) DEF Sqe, Ctx

\* The completion at the head of cq belongs to a context that was made.
LEMMA FirstCompletion ==
  ASSUME Tidy, pc # "destroyed", cq # <<>>
  PROVE  /\ Head(cq).c \in Ctx /\ Head(cq).c \in 1 .. made
         /\ Head(cq).mask \in SUBSET Bits
         /\ ctx[Head(cq).c] \in Context /\ ctx[Head(cq).c].src \in Sources
<1>1. 1 \in 1 .. Len(cq) /\ Head(cq) = cq[1] /\ made \in Nat /\ ctx \in [Ctx -> Context]
  BY SMTT(60) DEF Tidy, TypeOK
<1>2. cq[1] \in Sqe /\ cq[1].c \in Ctx /\ cq[1].c \in 1 .. made
  BY <1>1, CompletionsMade
<1>3. PICK d \in Ctx : d = cq[1].c
  BY <1>2
<1>4. d <= made
  BY <1>1, <1>2, <1>3, SMTT(60)
<1>5. ctx[d].src \in Sources
  BY <1>3, <1>4 DEF Tidy, Traced
<1>6. cq[1].mask \in SUBSET Bits
  BY <1>2 DEF Sqe
<1>7. QED
  BY <1>1, <1>2, <1>3, <1>5, <1>6

-----------------------------------------------------------------------------
(* Events of a batch never name a freed context. *)

\* A context with an interest is kept alive, between the wait that returned an
\* event and the next one, by its place in the re-arm queue; while the wait
\* collects events it is kept by ctx_map, which no callback can change then.
Interest(c) == c <= made => /\ ctx[c].mask # {}
                            /\ ctx[c].closing \/ InMap(c)
Held(c) == \/ pc = "app" /\ ctx[c].queued
           \/ pc = "reap" /\ InMap(c) /\ (fatal = "none" => ctx[c].queued)
BatchHeld == \A i \in 1 .. Len(events) : Held(events[i].c)
EInv == BatchHeld /\ (pc # "destroyed" => \A c \in Ctx : Interest(c))

\* The events of a batch name contexts.
LEMMA EventsTyped ==
  ASSUME TypeOK, NEW i \in 1 .. Len(events)
  PROVE  events[i] \in Event /\ events[i].c \in Ctx
<1>1. events \in Seq(Event)
  BY DEF TypeOK
<1>2. events[i] \in Event
  BY <1>1, SMTT(60)
<1>3. QED
  BY <1>2 DEF Event

\* There is no batch outside of dispatch and of the collection of events.
LEMMA NoBatch ==
  ASSUME TypeOK, EInv, pc # "app", pc # "reap"
  PROVE  events = <<>>
<1>1. events \in Seq(Event)
  BY DEF TypeOK
<1>2. ASSUME NEW i \in 1 .. Len(events) PROVE FALSE
  BY <1>2 DEF EInv, BatchHeld, Held
<1>3. Len(events) = 0
  BY <1>1, <1>2, SMTT(60)
<1>4. QED
  BY <1>1, <1>3, SMTT(60)

\* Interest survives a step that keeps masks and ctx_map and reopens nothing.
LEMMA InterestKept ==
  ASSUME EInv, pc # "destroyed", ctx_map' = ctx_map, made' = made,
         \A c \in Ctx : /\ ctx'[c].mask = ctx[c].mask
                        /\ ctx[c].closing => ctx'[c].closing
  PROVE  \A c \in Ctx : Interest(c)'
<1>1. SUFFICES ASSUME NEW c \in Ctx PROVE Interest(c)'
  OBVIOUS
<1>2. Interest(c)
  BY DEF EInv
<1>3. InMap(c)' <=> InMap(c)
  BY DEF InMap
<1>4. QED
  BY <1>2, <1>3 DEF Interest

\* A batch is held by a step that takes no context out of the re-arm queue and,
\* while events are collected, keeps ctx_map and the error of the wait.
LEMMA BatchKept ==
  ASSUME TypeOK, EInv, events' = events, pc' = pc,
         pc = "reap" => ctx_map' = ctx_map /\ fatal' = fatal,
         \A c \in Ctx : ctx[c].queued => ctx'[c].queued
  PROVE  BatchHeld'
<1>1. SUFFICES ASSUME NEW i \in 1 .. Len(events) PROVE Held(events[i].c)'
  BY DEF BatchHeld
<1>2. PICK c \in Ctx : c = events[i].c
  BY EventsTyped
<1>3. Held(c)
  BY <1>2 DEF EInv, BatchHeld
<1>4. ctx[c].queued => ctx'[c].queued
  OBVIOUS
<1>5. Held(c)'
  <2>1. CASE pc = "app"
    BY <1>3, <1>4, <2>1 DEF Held
  <2>2. CASE pc = "reap"
    <3>1. InMap(c)' <=> InMap(c)
      BY <2>2 DEF InMap
    <3>2. QED
      BY <1>3, <1>4, <2>2, <3>1 DEF Held
  <2>3. QED
    BY <1>3, <2>1, <2>2 DEF Held
<1>6. events[i].c' = c
  BY <1>2
<1>7. QED
  BY <1>5, <1>6 DEF Held, InMap

\* event_backend_add, with an interest.
LEMMA AddHolds ==
  ASSUME Tidy, EInv, NEW s \in Sources, NEW m \in SUBSET Bits, m # {},
         event_backend_add(s, m)
  PROVE  EInv'
<1>0. /\ TypeOK /\ Traced /\ pc = "app" /\ made < MaxCtx /\ ctx_map[s] = 0
      /\ made' = made + 1 /\ events' = events /\ pc' = pc
      /\ ctx_map' = [ctx_map EXCEPT ![s] = made + 1]
      /\ ctx' = [ctx EXCEPT ![made + 1] =
               [src |-> s, sock |-> TRUE, mask |-> m, closing |-> FALSE,
                armed |-> TRUE, queued |-> FALSE, pend |-> 1, refs |-> 2]]
  BY DEF Tidy, event_backend_add, AppRuns
<1>d. PICK d \in Ctx : d = made + 1
  BY <1>0, ConstantsOK, SMTT(60) DEF Ctx, TypeOK
<1>1. ~ctx[d].queued
  <2>1. d > made
    BY <1>0, <1>d, SMTT(60) DEF TypeOK
  <2>2. ctx[d] = Blank
    BY <1>0, <2>1 DEF Traced
  <2>3. QED
    BY <2>2, SMTT(60) DEF Blank
<1>2. \A c \in Ctx : c # d => ctx'[c] = ctx[c]
  BY <1>0, <1>d DEF TypeOK
<1>3. ctx'[d].mask = m
  BY <1>0, <1>d DEF TypeOK
<1>4. ASSUME NEW c \in Ctx PROVE Interest(c)'
  <2>1. InMap(c)' <=> InMap(c) \/ c = d
    BY <1>0, <1>d, SMTT(60) DEF InMap, TypeOK, Ctx
  <2>2. CASE c = d
    BY <1>3, <2>1, <2>2 DEF Interest
  <2>3. CASE c # d
    <3>1. Interest(c) /\ (c <= made' => c <= made)
      BY <1>0, <1>d, <2>3, SMTT(60) DEF EInv, TypeOK, Ctx
    <3>2. QED
      BY <1>2, <2>1, <2>3, <3>1 DEF Interest
  <2>4. QED
    BY <2>2, <2>3
<1>5. BatchHeld'
  <2>1. \A c \in Ctx : ctx[c].queued => ctx'[c].queued
    BY <1>1, <1>2
  <2>2. pc # "reap"
    BY <1>0
  <2>3. QED
    BY <1>0, <2>1, <2>2, BatchKept, SMTT(60)
<1>6. QED
  BY <1>0, <1>4, <1>5 DEF EInv

\* event_backend_modify, with an interest.
LEMMA ModifyHolds ==
  ASSUME Tidy, EInv, NEW s \in Sources, NEW m \in SUBSET Bits, m # {},
         NEW ok \in BOOLEAN, event_backend_modify(s, m, ok)
  PROVE  EInv'
<1>0. /\ TypeOK /\ Traced /\ pc = "app" /\ ctx_map[s] # 0
      /\ UNCHANGED <<made, ctx_map, events, pc, fatal>>
  BY DEF Tidy, event_backend_modify, AppRuns
<1>d. PICK d \in Ctx : d = ctx_map[s]
  BY <1>0, OwnContext
<1>1. \A c \in Ctx : c # d => ctx'[c] = ctx[c]
  BY <1>0, <1>d DEF event_backend_modify, ModifyIdle, ModifyArmed, TypeOK
<1>2. /\ ctx'[d].mask = m /\ ctx'[d].closing = ctx[d].closing
      /\ ctx[d].queued => ctx'[d].queued
  <2>1. ctx[d] \in Context
    BY <1>0 DEF TypeOK
  <2>2. CASE ModifyArmed(d, m)
    BY <1>0, <2>1, <2>2 DEF ModifyArmed, TypeOK, Context
  <2>3. CASE ModifyIdle(d, m, ok)
    BY <1>0, <2>1, <2>3 DEF ModifyIdle, TypeOK, Context
  <2>4. QED
    BY <1>d, <2>2, <2>3 DEF event_backend_modify
<1>3. ASSUME NEW c \in Ctx PROVE Interest(c)'
  <2>1. Interest(c) /\ (InMap(c)' <=> InMap(c))
    BY <1>0 DEF EInv, InMap
  <2>2. QED
    BY <1>0, <1>1, <1>2, <2>1 DEF Interest
<1>4. BatchHeld'
  <2>1. \A c \in Ctx : ctx[c].queued => ctx'[c].queued
    BY <1>1, <1>2
  <2>2. QED
    BY <1>0, <2>1, BatchKept
<1>5. QED
  BY <1>3, <1>4 DEF EInv

\* ctx_map gives up a context, in a callback or in EventLoop_finalize.
LEMMA DetachHolds ==
  ASSUME Tidy, EInv, NEW s \in Sources, Detach(s), pc' = pc,
         pc = "app" \/ pc = "timers"
  PROVE  EInv'
<1>0. /\ TypeOK /\ Traced /\ ctx_map[s] # 0
      /\ ctx_map' = [ctx_map EXCEPT ![s] = 0]
      /\ UNCHANGED <<made, events, fatal>>
  BY DEF Tidy, Detach
<1>d. PICK d \in Ctx : d = ctx_map[s]
  BY <1>0, OwnContext
<1>1. ctx' = [ctx EXCEPT ![d] = Detached(ctx[d])] /\ ctx[d] \in Context
  BY <1>0, <1>d DEF Detach, TypeOK
<1>2. \A c \in Ctx : c # d => ctx'[c] = ctx[c]
  BY <1>0, <1>1 DEF TypeOK
<1>3. /\ ctx'[d].mask = ctx[d].mask /\ ctx'[d].closing
      /\ ctx'[d].queued = ctx[d].queued
  BY <1>0, <1>1 DEF Detached, Context, TypeOK
<1>4. ASSUME NEW c \in Ctx PROVE Interest(c)'
  <2>1. Interest(c)
    BY DEF EInv
  <2>2. CASE c = d
    BY <1>0, <1>3, <2>1, <2>2 DEF Interest
  <2>3. CASE c # d
    <3>1. InMap(c) => InMap(c)'
      BY <1>0, <1>d, <2>3 DEF InMap, TypeOK
    <3>2. QED
      BY <1>0, <1>2, <2>1, <2>3, <3>1 DEF Interest
  <2>4. QED
    BY <2>2, <2>3
<1>5. BatchHeld'
  <2>1. \A c \in Ctx : ctx[c].queued => ctx'[c].queued
    BY <1>2, <1>3
  <2>2. pc # "reap"
    OBVIOUS
  <2>3. QED
    BY <1>0, <2>1, <2>2, BatchKept
<1>6. QED
  BY <1>4, <1>5 DEF EInv

\* A completion is taken: its event comes with a place in the re-arm queue, or
\* the wait fails.
LEMMA ReapHolds ==
  ASSUME Tidy, EInv, NEW ok \in BOOLEAN, Reap(ok)
  PROVE  EInv'
<1>0. /\ TypeOK /\ Traced /\ pc = "reap" /\ pc' = pc /\ cq # <<>>
      /\ UNCHANGED <<made, ctx_map>>
  BY DEF Tidy, Reap
<1>1. /\ Head(cq).c \in Ctx /\ ctx[Head(cq).c] \in Context
      /\ Head(cq).mask \in SUBSET Bits
      /\ ctx[Head(cq).c].src \in Sources /\ Head(cq).c \in 1 .. made
  BY <1>0, FirstCompletion
<1>d. PICK d \in Ctx : d = Head(cq).c
  BY <1>1
<1>a. PICK add \in BOOLEAN : add = (Head(cq).op = "add")
  OBVIOUS
<1>l. PICK live \in BOOLEAN : live = (add /\ ~ctx[d].closing)
  OBVIOUS
<1>q. PICK queue \in BOOLEAN : queue = (live /\ Queues(ctx[d], ctx[d].mask))
  BY DEF Queues
<1>g. PICK grew \in BOOLEAN : grew = (queue /\ ok)
  OBVIOUS
<1>v. PICK v \in Event : v = [src |-> ctx[d].src, c |-> d, mask |-> Head(cq).mask]
  BY <1>1, <1>d DEF Event
<1>2. /\ ctx' = [ctx EXCEPT ![d] = Reaped(ctx[d], add, grew)]
      /\ events' = events \/ (live /\ events' = Append(events, v))
      /\ fatal' = IF queue /\ ~ok /\ fatal = "none" THEN "ENOMEM" ELSE fatal
  BY <1>d, <1>a, <1>l, <1>q, <1>g, <1>v DEF Reap
<1>3. \A c \in Ctx : c # d => ctx'[c] = ctx[c]
  BY <1>0, <1>2 DEF TypeOK
<1>4. /\ ctx'[d].mask = ctx[d].mask /\ ctx'[d].closing = ctx[d].closing
      /\ (ctx'[d].queued <=> ctx[d].queued \/ grew)
  BY <1>0, <1>1, <1>d, <1>2, SMTT(60) DEF Reaped, Context, TypeOK
<1>5. \A c \in Ctx : Interest(c)'
  <2>1. \A c \in Ctx : /\ ctx'[c].mask = ctx[c].mask
                       /\ ctx[c].closing => ctx'[c].closing
    BY <1>3, <1>4
  <2>2. pc # "destroyed"
    BY <1>0
  <2>3. QED
    BY <1>0, <2>1, <2>2, InterestKept
<1>6. \A c \in Ctx : InMap(c)' <=> InMap(c)
  BY <1>0 DEF InMap
<1>7. fatal' = "none" => fatal = "none" /\ (queue => grew)
  BY <1>2, <1>g
<1>8. ASSUME NEW c \in Ctx, Held(c) PROVE Held(c)'
  BY <1>0, <1>3, <1>4, <1>6, <1>7, <1>8 DEF Held
<1>9. ASSUME live PROVE Held(d)'
  <2>1. d <= made
    BY <1>0, <1>1, <1>d, SMTT(60) DEF TypeOK
  <2>2. ctx[d].mask # {} /\ InMap(d)
    BY <1>0, <1>9, <1>l, <2>1 DEF EInv, Interest
  <2>3. fatal' = "none" => ctx'[d].queued
    BY <1>4, <1>7, <1>9, <1>q, <2>2 DEF Queues
  <2>4. QED
    BY <1>0, <1>6, <2>2, <2>3 DEF Held
<1>10. BatchHeld'
  <2>0. events \in Seq(Event)
    BY <1>0 DEF TypeOK
  <2>1. \A i \in 1 .. Len(events) : events[i].c \in Ctx /\ Held(events[i].c)
    BY <1>0, EventsTyped DEF EInv, BatchHeld
  <2>2. CASE events' = events
    <3>1. SUFFICES ASSUME NEW i \in 1 .. Len(events) PROVE Held(events[i].c)'
      BY <2>2 DEF BatchHeld
    <3>2. PICK c \in Ctx : c = events[i].c /\ Held(c)
      BY <2>1
    <3>3. Held(c)' /\ events[i].c' = c
      BY <1>8, <2>2, <3>2
    <3>4. QED
      BY <3>3 DEF Held, InMap
  <2>3. CASE live /\ events' = Append(events, v)
    <3>1. SUFFICES ASSUME NEW i \in 1 .. Len(events) + 1 PROVE Held(events[i].c)'
      BY <2>0, <2>3, SMTT(60) DEF BatchHeld
    <3>2. CASE i = Len(events) + 1
      <4>1. events[i].c' = d
        BY <1>v, <2>0, <2>3, <3>2, SMTT(60)
      <4>2. QED
        BY <1>9, <2>3, <4>1 DEF Held, InMap
    <3>3. CASE i # Len(events) + 1
      <4>1. i \in 1 .. Len(events) /\ events'[i] = events[i]
        BY <2>0, <2>3, <3>1, <3>3, SMTT(60)
      <4>2. PICK c \in Ctx : c = events[i].c /\ Held(c)
        BY <2>1, <4>1
      <4>3. Held(c)' /\ events[i].c' = c
        BY <1>8, <4>1, <4>2
      <4>4. QED
        BY <4>3 DEF Held, InMap
    <3>4. QED
      BY <3>2, <3>3
  <2>4. QED
    BY <1>2, <2>2, <2>3
<1>11. QED
  BY <1>5, <1>10 DEF EInv

\* The steps between two batches.
LEMMA NoBatchHolds ==
  ASSUME Tidy, EInv,
         \/ WaitBegin \/ WaitCqe \/ Finalize
         \/ \E ok \in Allocs : RearmStep(ok)
         \/ DestroyMark \/ DestroyDrain \/ DrainStep
         \/ \E s \in Sources : DestroyCancel(s)
  PROVE  EInv'
<1>0. TypeOK /\ Traced /\ pc # "destroyed"
  BY DEF Tidy, WaitBegin, WaitCqe, Finalize, RearmStep, DestroyMark, DestroyDrain,
     DrainStep, DestroyCancel
<1>1. events' = <<>>
  <2>1. CASE WaitBegin \/ Finalize
    BY <2>1 DEF WaitBegin, Finalize
  <2>2. CASE \/ WaitCqe \/ \E ok \in Allocs : RearmStep(ok)
             \/ DestroyMark \/ DestroyDrain \/ DrainStep
             \/ \E s \in Sources : DestroyCancel(s)
    <3>1. events' = events /\ pc # "app" /\ pc # "reap"
      BY <2>2 DEF WaitCqe, RearmStep, DestroyMark, DestroyDrain, DrainStep, DestroyCancel
    <3>2. QED
      BY <1>0, <3>1, NoBatch
  <2>3. QED
    BY <2>1, <2>2
<1>2. BatchHeld'
  BY <1>1, SMTT(60) DEF BatchHeld
<1>3. ctx_map' = ctx_map /\ made' = made
  BY DEF WaitBegin, WaitCqe, Finalize, RearmStep, DestroyMark, DestroyDrain, DrainStep,
     DestroyCancel
<1>4. ASSUME NEW c \in Ctx
      PROVE  ctx'[c].mask = ctx[c].mask /\ (ctx[c].closing => ctx'[c].closing)
  <2>0. ctx \in [Ctx -> Context] /\ ctx[c] \in Context
    BY <1>0 DEF TypeOK
  <2>1. CASE WaitBegin \/ WaitCqe \/ Finalize \/ DestroyDrain
    BY <2>1 DEF WaitBegin, WaitCqe, Finalize, DestroyDrain
  <2>2. CASE \E ok \in Allocs : RearmStep(ok)
    <3>1. PICK ok \in Allocs : RearmStep(ok)
      BY <2>2
    <3>2. PICK d : d = Head(todo)
      OBVIOUS
    <3>3. \E a, b, p, r :
            ctx' = [ctx EXCEPT ![d].queued = a, ![d].armed = b,
                               ![d].pend = p, ![d].refs = r]
      BY <3>1, <3>2 DEF RearmStep
    <3>4. CASE c = d
      BY <2>0, <3>3, <3>4, SMTT(60) DEF Context
    <3>5. CASE c # d
      BY <2>0, <3>3, <3>5
    <3>6. QED
      BY <3>4, <3>5
  <2>3. CASE DestroyMark
    BY <2>0, <2>3 DEF DestroyMark, Context
  <2>4. CASE DrainStep
    BY <2>0, <2>4 DEF DrainStep, Context
  <2>5. CASE \E s \in Sources : DestroyCancel(s)
    <3>1. PICK d : \/ ctx' = [ctx EXCEPT ![d] = Cancelled(ctx[d])]
                   \/ ctx' = [ctx EXCEPT ![d] = ctx[d]]
      BY <2>5 DEF DestroyCancel
    <3>2. CASE c = d
      BY <2>0, <3>1, <3>2 DEF Cancelled, Context
    <3>3. CASE c # d
      BY <2>0, <3>1, <3>3
    <3>4. QED
      BY <3>2, <3>3
  <2>6. QED
    BY <2>1, <2>2, <2>3, <2>4, <2>5
<1>5. \A c \in Ctx : Interest(c)'
  BY <1>0, <1>3, <1>4, InterestKept
<1>6. QED
  BY <1>2, <1>5 DEF EInv

\* The steps that leave the contexts alone and drop events at most.
LEMMA LoopHolds ==
  ASSUME Tidy, EInv, pc # "destroyed", pc' = pc,
         UNCHANGED <<ctx, made, ctx_map, fatal>>,
         \A i \in 1 .. Len(events') :
           \E j \in 1 .. Len(events) : events'[i].c = events[j].c
  PROVE  EInv'
<1>0. TypeOK
  BY DEF Tidy
<1>1. \A c \in Ctx : Interest(c)'
  BY InterestKept
<1>2. BatchHeld'
  <2>1. SUFFICES ASSUME NEW i \in 1 .. Len(events') PROVE Held(events[i].c)'
    BY DEF BatchHeld
  <2>2. PICK j \in 1 .. Len(events) : events'[i].c = events[j].c
    OBVIOUS
  <2>3. PICK c \in Ctx : c = events[j].c
    BY <1>0, EventsTyped
  <2>4. Held(c)
    BY <2>3 DEF EInv, BatchHeld
  <2>5. Held(c)' /\ events[i].c' = c
    BY <2>2, <2>3, <2>4 DEF Held, InMap
  <2>6. QED
    BY <2>5 DEF Held, InMap
<1>3. QED
  BY <1>1, <1>2 DEF EInv

\* The end of a wait: after an error the batch is dropped.
LEMMA WaitEndHolds ==
  ASSUME Tidy, EInv, WaitEnd
  PROVE  EInv'
<1>0. /\ TypeOK /\ pc = "reap" /\ pc' = "app" /\ fatal' = fatal
      /\ events' = (IF fatal = "none" THEN events ELSE <<>>)
      /\ UNCHANGED <<ctx, made, ctx_map>> /\ pc # "destroyed"
  BY DEF Tidy, WaitEnd
<1>1. \A c \in Ctx : Interest(c)'
  BY <1>0, InterestKept
<1>2. CASE fatal # "none"
  <2>1. BatchHeld'
    BY <1>0, <1>2, SMTT(60) DEF BatchHeld
  <2>2. QED
    BY <1>1, <2>1 DEF EInv
<1>3. CASE fatal = "none"
  <2>1. SUFFICES ASSUME NEW i \in 1 .. Len(events) PROVE Held(events[i].c)'
    BY <1>0, <1>1, <1>3 DEF EInv, BatchHeld
  <2>2. ctx[events[i].c].queued
    BY <1>0, <1>3 DEF EInv, BatchHeld, Held
  <2>3. QED
    BY <1>0, <1>3, <2>2 DEF Held
<1>4. QED
  BY <1>2, <1>3

\* event_loop_run dispatches an event.
LEMMA DispatchHolds ==
  ASSUME Tidy, EInv, Dispatch
  PROVE  EInv'
<1>0. /\ TypeOK /\ pc = "app" /\ pc' = pc /\ events # <<>> /\ pc # "destroyed"
      /\ UNCHANGED <<ctx, made, ctx_map, fatal>>
  BY DEF Tidy, Dispatch
<1>1. events \in Seq(Event) /\ Head(events) \in Event /\ Tail(events) \in Seq(Event)
  BY <1>0, SMTT(60) DEF TypeOK
<1>2. PICK v : /\ v.c = Head(events).c
               /\ events' = Tail(events) \/ events' = <<v>> \o Tail(events)
  <2> DEFINE e == Head(events)
             rest == IF "E" \in e.mask \/ "R" \notin e.mask \/ e.src \in Timers
                     THEN {} ELSE e.mask \ {"R"}
             w == [e EXCEPT !.mask = rest]
  <2>1. w.c = Head(events).c
    BY <1>1 DEF Event
  <2>2. events' = Tail(events) \/ events' = <<w>> \o Tail(events)
    BY DEF Dispatch
  <2> HIDE DEF w
  <2>3. QED
    BY <2>1, <2>2
<1>3. /\ Len(Tail(events)) = Len(events) - 1 /\ Len(events) \in Nat \ {0}
      /\ Head(events) = events[1]
      /\ \A i \in 1 .. Len(events) - 1 : Tail(events)[i] = events[i + 1]
  BY <1>0, <1>1, SMTT(60)
<1>4. \A i \in 1 .. Len(events') :
        \E j \in 1 .. Len(events) : events'[i].c = events[j].c
  <2>1. SUFFICES ASSUME NEW i \in 1 .. Len(events')
                 PROVE  \E j \in 1 .. Len(events) : events'[i].c = events[j].c
    OBVIOUS
  <2>2. CASE events' = Tail(events)
    <3>1. i + 1 \in 1 .. Len(events) /\ events'[i] = events[i + 1]
      BY <1>3, <2>2, SMTT(60)
    <3>2. QED
      BY <3>1
  <2>3. CASE events' = <<v>> \o Tail(events)
    <3>1. Len(events') = Len(events) /\ events'[1] = v
          /\ \A k \in 2 .. Len(events) : events'[k] = Tail(events)[k - 1]
      BY <1>1, <1>3, <2>3, SMTT(60)
    <3>2. CASE i = 1
      BY <1>2, <1>3, <3>1, <3>2
    <3>3. CASE i # 1
      BY <1>3, <3>1, <3>3, SMTT(60)
    <3>4. QED
      BY <3>2, <3>3
  <2>4. QED
    BY <1>2, <2>2, <2>3
<1>5. QED
  BY <1>0, <1>4, LoopHolds

\* The batch invariant is inductive when no source is registered without an
\* interest.
LEMMA NextEInv ==
  ASSUME {} \notin Masks, Tidy, EInv, [Next]_vars
  PROVE  EInv'
<1>0. TypeOK
  BY DEF Tidy
<1>1. CASE AppStep
  <2>1. ASSUME NEW s \in Sources, NEW m \in Masks \cup {{"R"}},
               event_backend_add(s, m)
        PROVE  EInv'
    <3>1. m \in SUBSET Bits /\ m # {}
      BY MasksNotEmpty
    <3>2. QED
      BY <2>1, <3>1, AddHolds
  <2>2. ASSUME NEW s \in Sockets, NEW m \in Masks, NEW ok \in Allocs,
               event_backend_modify(s, m, ok)
        PROVE  EInv'
    <3>1. m \in SUBSET Bits /\ m # {}
      BY MasksNotEmpty
    <3>3. s \in Sources /\ ok \in BOOLEAN
      BY InputsTyped
    <3>2. QED
      BY <2>2, <3>1, <3>3, ModifyHolds
  <2>3. ASSUME NEW s \in Sources, event_backend_remove(s) PROVE EInv'
    <3>1. Detach(s) /\ pc' = pc /\ pc = "app"
      BY <2>3 DEF event_backend_remove, AppRuns
    <3>2. QED
      BY <3>1, DetachHolds
  <2>4. QED
    BY <1>1, <2>1, <2>2, <2>3, InputsTyped DEF AppStep, AddTimer, RemoveTimer
<1>2. CASE Return \/ RunReturns
  <2>1. /\ pc # "destroyed" /\ pc' = pc /\ events' = events
        /\ UNCHANGED <<ctx, made, ctx_map, fatal>>
    BY <1>2 DEF Return, RunReturns, AppRuns
  <2>2. QED
    BY <2>1, LoopHolds
<1>3. CASE LoopStep
  <2>1. ASSUME NEW ok \in Allocs, Reap(ok) PROVE EInv'
    BY <2>1, InputsTyped, ReapHolds
  <2>2. QED
    BY <1>2, <1>3, <2>1, NoBatchHolds, WaitEndHolds, DispatchHolds DEF LoopStep
<1>4. CASE KernelStep
  <2>1. /\ pc # "destroyed" /\ pc' = pc /\ events' = events
        /\ UNCHANGED <<ctx, made, ctx_map, fatal>>
    BY <1>4 DEF KernelStep, KernelTake, KernelComplete
  <2>2. QED
    BY <2>1, LoopHolds
<1>5. CASE DestroyStep
  <2>1. ASSUME NEW t \in Timers, FinalizeTimer(t) PROVE EInv'
    <3>1. t \in Sources /\ pc = "timers" /\ pc' = pc /\ pc # "destroyed"
      BY <2>1 DEF FinalizeTimer, Sources
    <3>2. CASE Detach(t)
      BY <3>1, <3>2, DetachHolds
    <3>3. CASE UNCHANGED <<ctx, made, ctx_map, rearm, todo, total, sq, kpoll,
                           cq, events, calling, fatal, modified>>
      BY <3>1, <3>3, LoopHolds
    <3>4. QED
      BY <2>1, <3>2, <3>3 DEF FinalizeTimer
  <2>2. CASE DestroyEnd
    <3>1. events' = events /\ pc' = "destroyed" /\ pc # "app" /\ pc # "reap"
      BY <2>2 DEF DestroyEnd
    <3>2. events' = <<>>
      BY <1>0, <3>1, NoBatch
    <3>3. BatchHeld'
      BY <3>2, SMTT(60) DEF BatchHeld
    <3>4. QED
      BY <3>1, <3>3 DEF EInv
  <2>3. QED
    BY <1>5, <2>1, <2>2, NoBatchHolds DEF DestroyStep
<1>6. CASE Done \/ UNCHANGED vars
  BY <1>6 DEF Done, vars, EInv, BatchHeld, Held, Interest, InMap
<1>7. QED
  BY <1>1, <1>2, <1>3, <1>4, <1>5, <1>6, NoBatchHolds DEF Next

\* No event and no context is there at first.
LEMMA InitEInv == Init => EInv
<1>1. SUFFICES ASSUME Init PROVE EInv
  OBVIOUS
<1>2. BatchHeld
  BY <1>1, SMTT(60) DEF Init, BatchHeld
<1>3. \A c \in Ctx : ~(c <= made)
  BY <1>1, ConstantsOK, SMTT(60) DEF Init, Ctx
<1>4. QED
  BY <1>2, <1>3 DEF EInv, Interest

-----------------------------------------------------------------------------
(* What a context keeps, whatever the loop does with it. *)

SameSource(x, y) == x.src = y.src /\ x.sock = y.sock
Same(x, y) == SameSource(x, y) /\ x.mask = y.mask /\ x.closing = y.closing

\* Re-arming, completions and destruction leave a context's source and mask.
LEMMA Untouched ==
  ASSUME TypeOK, NEW c \in Ctx,
         \/ \E ok \in BOOLEAN : RearmStep(ok) \/ Reap(ok)
         \/ DrainStep \/ DestroyEnd \/ \E s \in Sources : DestroyCancel(s)
  PROVE  Same(ctx'[c], ctx[c])
<1>0. ctx \in [Ctx -> Context] /\ ctx[c] \in Context
  BY DEF TypeOK
<1>1. CASE \E ok \in BOOLEAN : RearmStep(ok)
  <2>a. PICK ok \in BOOLEAN : RearmStep(ok)
    BY <1>1
  <2>0. PICK d : d = Head(todo)
    OBVIOUS
  <2>1. \E a, b, p, r : ctx' = [ctx EXCEPT ![d].queued = a, ![d].armed = b,
                                           ![d].pend = p, ![d].refs = r]
    BY <2>a, <2>0 DEF RearmStep
  <2>2. CASE c = d
    BY <1>0, <2>1, <2>2, SMTT(60) DEF Context, Same, SameSource
  <2>3. CASE c # d
    BY <1>0, <2>1, <2>3 DEF Same, SameSource
  <2>4. QED
    BY <2>2, <2>3
<1>2. CASE \E ok \in BOOLEAN : Reap(ok)
  <2>a. PICK ok \in BOOLEAN : Reap(ok)
    BY <1>2
  <2>0. PICK d : d = Head(cq).c
    OBVIOUS
  <2>1. \E a, g : ctx' = [ctx EXCEPT ![d] = Reaped(ctx[d], a, g)]
    BY <2>a, <2>0 DEF Reap
  <2>2. \A a, g : Same(Reaped(ctx[c], a, g), ctx[c])
    BY <1>0 DEF Reaped, Context, Same, SameSource
  <2>3. CASE c = d
    BY <1>0, <2>1, <2>2, <2>3, SMTT(60)
  <2>4. CASE c # d
    BY <1>0, <2>1, <2>4 DEF Same, SameSource
  <2>5. QED
    BY <2>3, <2>4
<1>3. CASE DrainStep
  <2>1. PICK d : \E a, p, r : ctx' = [ctx EXCEPT ![d].armed = a, ![d].pend = p,
                                                 ![d].refs = r]
    BY <1>3 DEF DrainStep
  <2>2. CASE c = d
    BY <1>0, <2>1, <2>2, SMTT(60) DEF Context, Same, SameSource
  <2>3. CASE c # d
    BY <1>0, <2>1, <2>3 DEF Same, SameSource
  <2>4. QED
    BY <2>2, <2>3
<1>4. CASE DestroyEnd
  <2>1. ctx'[c] = [ctx[c] EXCEPT !.refs =
                     @ - Cardinality({i \in 1 .. Len(rearm) : rearm[i] = c})
                       - Cardinality({s \in Sources : ctx_map[s] = c})]
    BY <1>4 DEF DestroyEnd
  <2>2. QED
    BY <1>0, <2>1 DEF Context, Same, SameSource
<1>5. CASE \E s \in Sources : DestroyCancel(s)
  <2>1. PICK d : \/ ctx' = [ctx EXCEPT ![d] = Cancelled(ctx[d])]
                 \/ ctx' = [ctx EXCEPT ![d] = ctx[d]]
    BY <1>5 DEF DestroyCancel
  <2>2. Same(Cancelled(ctx[c]), ctx[c]) /\ Same(ctx[c], ctx[c])
    BY <1>0 DEF Cancelled, Context, Same, SameSource
  <2>3. CASE c = d
    BY <1>0, <2>1, <2>2, <2>3
  <2>4. CASE c # d
    BY <1>0, <2>1, <2>4 DEF Same, SameSource
  <2>5. QED
    BY <2>3, <2>4
<1>6. QED
  BY <1>1, <1>2, <1>3, <1>4, <1>5

-----------------------------------------------------------------------------
(* The kernel's interest is never stale. *)

\* A queue of submissions does not name context c, or has mask m in the last
\* entry that names it.
Unnamed(q, c) == \A i \in 1 .. Len(q) : q[i].c # c
Latest(q, c, m) == \E i \in 1 .. Len(q) :
                     /\ q[i].c = c /\ q[i].mask = m
                     /\ \A j \in 1 .. Len(q) : q[j].c = c => j <= i

\* A registered context that is polled or about to be: the kernel has the mask
\* of its last registration or will have it.  event_backend_destroy first marks
\* every registered context, so that its POLL_REMOVEs disturb none of them.
Watched(c) == /\ InMap(c) /\ ~ctx[c].closing
              /\ kpoll[c] # NoPoll \/ Coming(sq, c)
Fresh(c) == \/ Latest(sq, c, ctx[c].mask)
            \/ Unnamed(sq, c) /\ kpoll[c] = ctx[c].mask
Cancelling == {"cancel", "drain", "destroyed"}
FreshInv == /\ \A c \in Ctx : Watched(c) => Fresh(c)
            /\ pc \in Cancelling => \A c \in Ctx : InMap(c) => ctx[c].closing

\* What one more entry and one entry less change.
LEMMA AppendNames ==
  ASSUME NEW q \in Seq(Sqe), NEW e \in Sqe, NEW c, NEW m
  PROVE  /\ e.c = c => Latest(Append(q, e), c, e.mask)
         /\ e.c # c => /\ Coming(Append(q, e), c) => Coming(q, c)
                       /\ Latest(q, c, m) => Latest(Append(q, e), c, m)
                       /\ Unnamed(q, c) => Unnamed(Append(q, e), c)
<1> DEFINE r == Append(q, e)
<1>1. /\ Len(q) \in Nat /\ Len(r) = Len(q) + 1 /\ r[Len(q) + 1] = e
      /\ \A i \in 1 .. Len(q) : r[i] = q[i]
  BY SMTT(60)
<1> HIDE DEF r
<1>2. ASSUME e.c = c PROVE Latest(r, c, e.mask)
  BY <1>1, <1>2, SMTT(60) DEF Latest
<1>3. ASSUME e.c # c, Coming(r, c) PROVE Coming(q, c)
  BY <1>1, <1>3, SMTT(60) DEF Coming
<1>4. ASSUME e.c # c, Latest(q, c, m) PROVE Latest(r, c, m)
  BY <1>1, <1>4, SMTT(60) DEF Latest
<1>5. ASSUME e.c # c, Unnamed(q, c) PROVE Unnamed(r, c)
  BY <1>1, <1>5, SMTT(60) DEF Unnamed
<1>6. QED
  BY <1>2, <1>3, <1>4, <1>5 DEF r

\* What the entries of a queue say after its head is taken.
LEMMA TailNames ==
  ASSUME NEW q \in Seq(Sqe), q # <<>>, NEW c
  PROVE  /\ Coming(Tail(q), c) => Coming(q, c)
         /\ Head(q).c = c /\ Head(q).op = "add" => Coming(q, c)
         /\ Unnamed(q, c) => Unnamed(Tail(q), c) /\ Head(q).c # c
<1> DEFINE r == Tail(q)
           h == Head(q)
<1>1. /\ Len(q) \in Nat /\ Len(q) >= 1 /\ Len(r) = Len(q) - 1 /\ h = q[1]
      /\ \A i \in 1 .. Len(r) : r[i] = q[i + 1]
  BY SMTT(60)
<1> HIDE DEF r, h
<1>2. ASSUME Coming(r, c) PROVE Coming(q, c)
  BY <1>1, <1>2, SMTT(60) DEF Coming
<1>3. ASSUME h.c = c, h.op = "add" PROVE Coming(q, c)
  BY <1>1, <1>3, SMTT(60) DEF Coming
<1>4. ASSUME Unnamed(q, c) PROVE Unnamed(r, c) /\ h.c # c
  BY <1>1, <1>4, SMTT(60) DEF Unnamed
<1>5. QED
  BY <1>2, <1>3, <1>4 DEF r, h

\* The last entry for a context stays last, or was the head.
LEMMA TailLatest ==
  ASSUME NEW q \in Seq(Sqe), q # <<>>, NEW c, NEW m, Latest(q, c, m)
  PROVE  \/ Latest(Tail(q), c, m)
         \/ Head(q).c = c /\ Head(q).mask = m /\ Unnamed(Tail(q), c)
<1> DEFINE r == Tail(q)
           h == Head(q)
<1>1. /\ Len(q) \in Nat /\ Len(q) >= 1 /\ Len(r) = Len(q) - 1 /\ h = q[1]
      /\ \A i \in 1 .. Len(r) : r[i] = q[i + 1]
  BY SMTT(60)
<1>2. \A i \in 2 .. Len(q) : i - 1 \in 1 .. Len(r) /\ r[i - 1] = q[i]
  BY <1>1, SMTT(60)
<1> HIDE DEF r, h
<1>3. PICK i \in 1 .. Len(q) : /\ q[i].c = c /\ q[i].mask = m
                               /\ \A j \in 1 .. Len(q) : q[j].c = c => j <= i
  BY DEF Latest
<1>4. CASE i = 1
  <2>1. Unnamed(r, c)
    BY <1>1, <1>3, <1>4, SMTT(60) DEF Unnamed
  <2>2. QED
    BY <1>1, <1>3, <1>4, <2>1 DEF r, h
<1>5. CASE i # 1
  <2>1. i - 1 \in 1 .. Len(r) /\ r[i - 1] = q[i]
    BY <1>2, <1>5, SMTT(60)
  <2>2. \A j \in 1 .. Len(r) : r[j].c = c => j <= i - 1
    BY <1>1, <1>3, SMTT(60)
  <2>3. Latest(r, c, m)
    BY <1>3, <2>1, <2>2, SMTT(60) DEF Latest
  <2>4. QED
    BY <2>3 DEF r
<1>6. QED
  BY <1>4, <1>5

\* Nothing is submitted, no mask is changed and nothing is registered.
LEMMA FreshKept ==
  ASSUME FreshInv, UNCHANGED <<sq, kpoll>>,
         pc' \in Cancelling => pc \in Cancelling,
         \A c \in Ctx : /\ InMap(c)' => InMap(c)
                        /\ ctx[c].closing => ctx'[c].closing
                        /\ Watched(c) => ctx'[c].mask = ctx[c].mask
  PROVE  FreshInv'
<1>1. ASSUME NEW c \in Ctx, Watched(c)' PROVE Fresh(c)'
  <2>1. InMap(c) /\ ~ctx[c].closing /\ (kpoll[c] # NoPoll \/ Coming(sq, c))
    BY <1>1 DEF Watched, Coming
  <2>2. Watched(c) /\ Fresh(c) /\ ctx'[c].mask = ctx[c].mask
    BY <2>1 DEF Watched, FreshInv
  <2>3. QED
    BY <2>2 DEF Fresh, Latest, Unnamed
<1>2. pc' \in Cancelling => \A c \in Ctx : InMap(c)' => ctx'[c].closing
  BY DEF FreshInv
<1>3. QED
  BY <1>1, <1>2 DEF FreshInv

\* One entry e is submitted.
LEMMA FreshSubmit ==
  ASSUME TypeOK, FreshInv, NEW e \in Sqe, sq' = Append(sq, e), kpoll' = kpoll,
         pc' \notin Cancelling,
         \A c \in Ctx : c # e.c =>
           /\ InMap(c)' => InMap(c)
           /\ ctx[c].closing => ctx'[c].closing
           /\ ctx'[c].mask = ctx[c].mask,
         InMap(e.c)' /\ ~ctx'[e.c].closing => ctx'[e.c].mask = e.mask
  PROVE  FreshInv'
<1>1. sq \in Seq(Sqe)
  BY DEF TypeOK
<1>2. ASSUME NEW c \in Ctx, Watched(c)' PROVE Fresh(c)'
  <2>1. InMap(c)' /\ ~ctx'[c].closing /\ (kpoll[c] # NoPoll \/ Coming(sq', c))
    BY <1>2 DEF Watched, Coming
  <2>2. CASE c = e.c
    <3>1. Latest(sq', c, ctx'[c].mask)
      BY <1>1, <2>1, <2>2, AppendNames, SMTT(60)
    <3>2. QED
      BY <3>1 DEF Fresh, Latest
  <2>3. CASE c # e.c
    <3>1. /\ InMap(c) /\ ~ctx[c].closing /\ ctx'[c].mask = ctx[c].mask
          /\ kpoll[c] # NoPoll \/ Coming(sq, c)
      BY <1>1, <2>1, <2>3, AppendNames
    <3>2. Fresh(c)
      BY <3>1 DEF Watched, FreshInv
    <3>3. Latest(sq', c, ctx'[c].mask) \/ (Unnamed(sq', c) /\ kpoll[c] = ctx[c].mask)
      BY <1>1, <2>3, <3>1, <3>2, AppendNames, SMTT(60) DEF Fresh
    <3>4. QED
      BY <3>1, <3>3 DEF Fresh, Latest, Unnamed
  <2>4. QED
    BY <2>2, <2>3
<1>3. QED
  BY <1>2 DEF FreshInv

\* An idle context has no poll in the kernel and none on the way to it.
LEMMA IdleUnpolled ==
  ASSUME Tidy, pc # "destroyed", NEW c \in Ctx, ~ctx[c].armed
  PROVE  kpoll[c] = NoPoll /\ ~Coming(sq, c)
BY DEF Tidy, Traced

\* event_backend_destroy: every registered context is closing.
LEMMA FreshClosing ==
  ASSUME \A c \in Ctx : InMap(c)' => ctx'[c].closing
  PROVE  FreshInv'
BY DEF FreshInv, Watched

\* The application's calls.
LEMMA FreshAdd ==
  ASSUME Tidy, FreshInv, NEW s \in Sources, NEW m \in SUBSET Bits,
         event_backend_add(s, m)
  PROVE  FreshInv'
<1>1. /\ TypeOK /\ pc' = "app" /\ made + 1 \in Ctx /\ made \in Nat
      /\ ctx_map' = [ctx_map EXCEPT ![s] = made + 1] /\ kpoll' = kpoll
      /\ ctx_map \in [Sources -> 0 .. MaxCtx] /\ ctx \in [Ctx -> Context]
  BY ConstantsOK, SMTT(60) DEF Tidy, TypeOK, event_backend_add, AppRuns, Ctx
<1>2. PICK e \in Sqe : /\ sq' = Append(sq, e) /\ e.c = made + 1 /\ e.mask = m
                       /\ ctx'[made + 1].mask = m
                       /\ \A c \in Ctx : c # made + 1 => ctx'[c] = ctx[c]
  BY <1>1 DEF event_backend_add, Submit, Sqe
<1>3. \A c \in Ctx : c # made + 1 => (InMap(c)' => InMap(c))
  BY <1>1 DEF InMap
<1>4. QED
  BY <1>1, <1>2, <1>3, FreshSubmit, SMTT(60) DEF Cancelling

\* event_backend_modify queues the new mask, or leaves it to the re-arming.
LEMMA FreshModify ==
  ASSUME Tidy, FreshInv, NEW s \in Sources, NEW m \in SUBSET Bits, NEW ok \in BOOLEAN,
         event_backend_modify(s, m, ok)
  PROVE  FreshInv'
<1>1. /\ TypeOK /\ pc' = "app" /\ pc = "app" /\ ctx_map' = ctx_map /\ kpoll' = kpoll
      /\ ctx \in [Ctx -> Context] /\ ctx_map[s] # 0 /\ ctx_map[s] \in 0 .. MaxCtx
  BY DEF Tidy, TypeOK, event_backend_modify, AppRuns
<1>2. PICK d \in Ctx : d = ctx_map[s]
  BY <1>1, ConstantsOK, SMTT(60) DEF Ctx
<1>3. \A c \in Ctx : InMap(c)' => InMap(c)
  BY <1>1 DEF InMap
<1>4. CASE ModifyIdle(d, m, ok)
  <2>1. ~ctx[d].armed /\ sq' = sq
        /\ \E a, r : ctx' = [ctx EXCEPT ![d].mask = m, ![d].queued = a, ![d].refs = r]
    BY <1>4 DEF ModifyIdle
  <2>2. ~Watched(d)
    BY <1>1, <2>1, IdleUnpolled DEF Watched
  <2>3. \A c \in Ctx : /\ ctx'[c].closing = ctx[c].closing
                       /\ c # d => ctx'[c].mask = ctx[c].mask
    BY <1>1, <2>1, SMTT(60) DEF Context
  <2>4. QED
    BY <1>1, <1>3, <2>1, <2>2, <2>3, FreshKept DEF Cancelling
<1>5. CASE ModifyArmed(d, m)
  <2>1. PICK e \in Sqe : sq' = Append(sq, e) /\ e.c = d /\ e.mask = m
    BY <1>5, SMTT(60) DEF ModifyArmed, Submit, UpdateMask, Sqe
  <2>2. \E a, r : ctx' = [ctx EXCEPT ![d].mask = m, ![d].refs = r, ![d].pend = a]
    BY <1>5 DEF ModifyArmed
  <2>3. /\ ctx'[d].mask = m
        /\ \A c \in Ctx : c # d => ctx'[c] = ctx[c]
    BY <1>1, <2>2 DEF Context
  <2>4. QED
    BY <1>1, <1>3, <2>1, <2>3, FreshSubmit DEF Cancelling
<1>6. QED
  BY <1>2, <1>4, <1>5 DEF event_backend_modify

\* A context out of the map is not asked about.
LEMMA FreshDetach ==
  ASSUME Tidy, FreshInv, NEW s \in Sources, Detach(s), pc' = pc, pc \notin Cancelling
  PROVE  FreshInv'
<1>1. /\ TypeOK /\ kpoll' = kpoll /\ ctx_map' = [ctx_map EXCEPT ![s] = 0]
      /\ ctx \in [Ctx -> Context] /\ ctx_map[s] # 0 /\ ctx_map \in [Sources -> 0 .. MaxCtx]
      /\ ctx_map[s] \in 0 .. MaxCtx
  BY DEF Tidy, TypeOK, Detach
<1>2. PICK d \in Ctx : d = ctx_map[s]
  BY <1>1, ConstantsOK, SMTT(60) DEF Ctx
<1>3. \A c \in Ctx : InMap(c)' => InMap(c)
  BY <1>1, SMTT(60) DEF InMap, Ctx
<1>4. ctx' = [ctx EXCEPT ![d] = Detached(ctx[d])]
  BY <1>2 DEF Detach
<1>5. Detached(ctx[d]).closing /\ Detached(ctx[d]).mask = ctx[d].mask
  <2>1. ctx[d] \in Context
    BY <1>1
  <2>2. QED
    BY <2>1 DEF Detached, Context
<1>6. /\ ctx'[d].closing /\ ctx'[d].mask = ctx[d].mask
      /\ \A c \in Ctx : c # d => ctx'[c] = ctx[c]
  BY <1>1, <1>4, <1>5
<1>7. CASE ctx[d].armed
  <2>1. sq' = Append(sq, [op |-> "remove", c |-> d, mask |-> {}])
    BY <1>2, <1>7 DEF Detach, Submit
  <2>2. PICK e \in Sqe : sq' = Append(sq, e) /\ e.c = d
    BY <2>1, SMTT(60) DEF Sqe
  <2>3. QED
    BY <1>1, <1>3, <1>6, <2>2, FreshSubmit, SMTT(60)
<1>8. CASE ~ctx[d].armed
  <2>1. sq' = sq
    BY <1>2, <1>8 DEF Detach
  <2>2. QED
    BY <1>1, <1>3, <1>6, <2>1, FreshKept
<1>9. QED
  BY <1>7, <1>8

\* event_backend_wait.
LEMMA FreshRearm ==
  ASSUME Tidy, FreshInv, NEW ok \in BOOLEAN, RearmStep(ok)
  PROVE  FreshInv'
<1>0. /\ pc = "rearm" /\ todo # <<>>
      /\ pc' = pc /\ kpoll' = kpoll /\ ctx_map' = ctx_map
  BY DEF RearmStep
<1>1. TypeOK /\ ctx \in [Ctx -> Context] /\ todo \in Seq(Ctx)
  BY DEF Tidy, TypeOK
<1>2. PICK d \in Ctx : d = Head(todo)
  BY <1>0, <1>1, SMTT(60)
<1>3. \A c \in Ctx : InMap(c)' => InMap(c)
  BY <1>0 DEF InMap
<1>4. \E a, b, p, r : ctx' = [ctx EXCEPT ![d].queued = a, ![d].armed = b,
                                         ![d].pend = p, ![d].refs = r]
  BY <1>2 DEF RearmStep
<1>5. \A c \in Ctx : ctx'[c].mask = ctx[c].mask /\ ctx'[c].closing = ctx[c].closing
  <2>1. SUFFICES ASSUME NEW c \in Ctx
                 PROVE  ctx'[c].mask = ctx[c].mask /\ ctx'[c].closing = ctx[c].closing
    OBVIOUS
  <2>2. CASE c = d
    BY <1>1, <1>4, <2>2, SMTT(60) DEF Context
  <2>3. CASE c # d
    BY <1>1, <1>4, <2>3
  <2>4. QED
    BY <2>2, <2>3
<1>6. sq' = sq \/ sq' = Append(sq, [op |-> "add", c |-> d, mask |-> ctx[d].mask])
  BY <1>2 DEF RearmStep, Submit
<1>7. CASE sq' = sq
  BY <1>0, <1>3, <1>5, <1>7, FreshKept, SMTT(60)
<1>8. CASE sq' = Append(sq, [op |-> "add", c |-> d, mask |-> ctx[d].mask])
  <2>1. ctx[d].mask \in SUBSET Bits
    BY <1>1 DEF Context
  <2>2. PICK e \in Sqe : sq' = Append(sq, e) /\ e.c = d /\ e.mask = ctx[d].mask
    BY <1>8, <2>1, SMTT(60) DEF Sqe
  <2>3. QED
    BY <1>0, <1>1, <1>3, <1>5, <2>2, FreshSubmit, SMTT(60) DEF Cancelling
<1>9. QED
  BY <1>6, <1>7, <1>8

\* A completion disarms, so no armed poll becomes stale.
LEMMA FreshReap ==
  ASSUME Tidy, FreshInv, NEW ok \in BOOLEAN, Reap(ok)
  PROVE  FreshInv'
<1>0. /\ pc = "reap" /\ cq # <<>> /\ pc' = pc
      /\ UNCHANGED <<sq, kpoll, ctx_map>>
  BY DEF Reap
<1>1. ctx \in [Ctx -> Context] /\ cq \in Seq(Sqe)
  BY DEF Tidy, TypeOK
<1>2. PICK d \in Ctx : d = Head(cq).c
  <2>1. Head(cq) \in Sqe
    BY <1>0, <1>1, SMTT(60)
  <2>2. QED
    BY <2>1 DEF Sqe
<1>3. \E a, g : ctx' = [ctx EXCEPT ![d] = Reaped(ctx[d], a, g)]
  BY <1>2 DEF Reap
<1>4. \A a, g : /\ Reaped(ctx[d], a, g).mask = ctx[d].mask
                /\ Reaped(ctx[d], a, g).closing = ctx[d].closing
  <2>1. ctx[d] \in Context
    BY <1>1
  <2>2. QED
    BY <2>1 DEF Reaped, Context
<1>5. \A c \in Ctx : ctx'[c].mask = ctx[c].mask /\ ctx'[c].closing = ctx[c].closing
  BY <1>1, <1>3, <1>4, SMTT(60)
<1>6. \A c \in Ctx : InMap(c)' => InMap(c)
  BY <1>0 DEF InMap
<1>7. QED
  BY <1>0, <1>5, <1>6, FreshKept

\* event_backend_destroy.
LEMMA FreshMark ==
  ASSUME Tidy, DestroyMark
  PROVE  FreshInv'
<1>1. ctx \in [Ctx -> Context] /\ ctx_map' = ctx_map
  BY DEF Tidy, TypeOK, DestroyMark
<1>2. ASSUME NEW c \in Ctx, InMap(c)' PROVE ctx'[c].closing
  <2>1. \E s \in Sources : ctx_map[s] = c
    BY <1>1, <1>2 DEF InMap
  <2>2. ctx'[c] = [ctx[c] EXCEPT !.closing = @ \/ \E s \in Sources : ctx_map[s] = c]
    BY DEF DestroyMark
  <2>3. ctx[c] \in Context
    BY <1>1
  <2>4. QED
    BY <2>1, <2>2, <2>3 DEF Context
<1>3. QED
  BY <1>2, FreshClosing

\* Destruction keeps FreshInv.
LEMMA FreshDestroy ==
  ASSUME Tidy, FreshInv,
         DestroyDrain \/ DrainStep \/ DestroyEnd \/ \E s \in Sources : DestroyCancel(s)
  PROVE  FreshInv'
<1>0. pc \in Cancelling
  BY DEF DestroyDrain, DrainStep, DestroyEnd, DestroyCancel, Cancelling
<1>1. ctx \in [Ctx -> Context] /\ \A c \in Ctx : InMap(c) => ctx[c].closing
  BY <1>0 DEF Tidy, TypeOK, FreshInv
<1>2. CASE DestroyEnd
  <2>1. \A c \in Ctx : ~InMap(c)'
    BY <1>2, SMTT(60) DEF DestroyEnd, InMap, Ctx
  <2>2. QED
    BY <2>1, FreshClosing
<1>3. CASE DestroyDrain \/ DrainStep \/ \E s \in Sources : DestroyCancel(s)
  <2>1. ctx_map' = ctx_map
    BY <1>3 DEF DestroyDrain, DrainStep, DestroyCancel
  <2>2. \A c \in Ctx : InMap(c)' => InMap(c)
    BY <2>1 DEF InMap
  <2>3. ASSUME NEW c \in Ctx PROVE ctx'[c].closing = ctx[c].closing
    <3>0. ctx[c] \in Context
      BY <1>1
    <3>1. CASE DestroyDrain
      BY <3>1 DEF DestroyDrain
    <3>2. CASE DrainStep
      <4>1. PICK d : \E a, p, r : ctx' = [ctx EXCEPT ![d].armed = a, ![d].pend = p,
                                                     ![d].refs = r]
        BY <3>2 DEF DrainStep
      <4>2. CASE c = d
        BY <1>1, <3>0, <4>1, <4>2, SMTT(60) DEF Context
      <4>3. CASE c # d
        BY <1>1, <4>1, <4>3
      <4>4. QED
        BY <4>2, <4>3
    <3>3. CASE \E s \in Sources : DestroyCancel(s)
      <4>1. PICK d : \/ ctx' = [ctx EXCEPT ![d] = Cancelled(ctx[d])]
                     \/ ctx' = [ctx EXCEPT ![d] = ctx[d]]
        BY <3>3 DEF DestroyCancel
      <4>2. CASE c = d
        BY <1>1, <3>0, <4>1, <4>2 DEF Cancelled, Context
      <4>3. CASE c # d
        BY <1>1, <4>1, <4>3, SMTT(60)
      <4>4. QED
        BY <4>2, <4>3
    <3>4. QED
      BY <1>3, <3>1, <3>2, <3>3
  <2>4. QED
    BY <1>1, <2>2, <2>3, FreshClosing
<1>4. QED
  BY <1>2, <1>3

\* The kernel takes the oldest entry: it was the last one of its context, and
\* the poll has its mask now, or a later one is still queued.
LEMMA FreshTake ==
  ASSUME Tidy, FreshInv, KernelTake
  PROVE  FreshInv'
<1>0. /\ sq # <<>> /\ sq' = Tail(sq) /\ UNCHANGED <<ctx, ctx_map, pc>>
  BY DEF KernelTake
<1>1. sq \in Seq(Sqe) /\ kpoll \in [Ctx -> (SUBSET Bits) \cup {NoPoll}]
  BY DEF Tidy, TypeOK
<1>2. PICK e \in Sqe : e = Head(sq)
  BY <1>0, <1>1, SMTT(60)
<1>3. e.c \in Ctx /\ e.mask \in SUBSET Bits
  BY <1>2 DEF Sqe
<1>4. /\ \A c \in Ctx : c # e.c => kpoll'[c] = kpoll[c]
      /\ \/ e.op = "add" /\ kpoll'[e.c] = e.mask
         \/ kpoll[e.c] # NoPoll /\ kpoll'[e.c] = e.mask
         \/ kpoll'[e.c] = NoPoll
  <2>1. \/ e.op = "add" /\ kpoll' = [kpoll EXCEPT ![e.c] = e.mask]
        \/ kpoll[e.c] # NoPoll /\ kpoll' = [kpoll EXCEPT ![e.c] = e.mask]
        \/ kpoll[e.c] = NoPoll /\ kpoll' = kpoll
        \/ kpoll' = [kpoll EXCEPT ![e.c] = NoPoll]
    BY <1>2 DEF KernelTake
  <2>2. QED
    BY <1>1, <1>3, <2>1
<1>5. ASSUME NEW c \in Ctx, Watched(c)' PROVE Fresh(c)'
  <2> DEFINE m == ctx[c].mask
  <2>1. /\ InMap(c) /\ ~ctx[c].closing
        /\ kpoll'[c] # NoPoll \/ Coming(Tail(sq), c)
    BY <1>0, <1>5 DEF Watched, InMap, Coming
  <2> HIDE DEF m
  <2>2. Watched(c)
    <3>1. Coming(Tail(sq), c) => Coming(sq, c)
      BY <1>0, <1>1, TailNames
    <3>2. e.c = c /\ e.op = "add" => Coming(sq, c)
      BY <1>0, <1>1, <1>2, TailNames, SMTT(60)
    <3>3. kpoll[c] # NoPoll \/ Coming(sq, c)
      BY <1>4, <2>1, <3>1, <3>2
    <3>4. QED
      BY <2>1, <3>3 DEF Watched
  <2>3. Latest(sq, c, m) \/ (Unnamed(sq, c) /\ kpoll[c] = m)
    BY <2>2 DEF FreshInv, Fresh, m
  <2>4. Latest(Tail(sq), c, m) \/ (Unnamed(Tail(sq), c) /\ kpoll'[c] = m)
    <3>1. CASE Unnamed(sq, c) /\ kpoll[c] = m
      BY <1>0, <1>1, <1>2, <1>4, <3>1, TailNames, SMTT(60)
    <3>2. CASE e.c = c /\ e.mask = m /\ Unnamed(Tail(sq), c)
      <4>1. ~Coming(Tail(sq), c)
        BY <3>2 DEF Unnamed, Coming
      <4>2. QED
        BY <1>4, <2>1, <3>2, <4>1
    <3>3. QED
      BY <1>0, <1>1, <1>2, <2>3, <3>1, <3>2, TailLatest, SMTT(60)
  <2>5. QED
    BY <1>0, <2>4 DEF Fresh, Latest, Unnamed, m
<1>6. pc' \in Cancelling => \A c \in Ctx : InMap(c)' => ctx'[c].closing
  BY <1>0 DEF FreshInv, InMap
<1>7. QED
  BY <1>5, <1>6 DEF FreshInv

\* A completed poll is not armed any more.
LEMMA FreshComplete ==
  ASSUME Tidy, FreshInv, NEW d \in Ctx, KernelComplete(d)
  PROVE  FreshInv'
<1>0. /\ UNCHANGED <<ctx, ctx_map, pc, sq>>
      /\ kpoll[d] # NoPoll /\ kpoll' = [kpoll EXCEPT ![d] = NoPoll]
  BY DEF KernelComplete
<1>1. kpoll \in [Ctx -> (SUBSET Bits) \cup {NoPoll}]
  BY DEF Tidy, TypeOK
<1>2. ASSUME NEW c \in Ctx, Watched(c)' PROVE Fresh(c)'
  <2>1. InMap(c) /\ ~ctx[c].closing /\ (kpoll'[c] # NoPoll \/ Coming(sq, c))
    BY <1>0, <1>2 DEF Watched, InMap, Coming
  <2>2. Fresh(c)
    <3>1. Watched(c)
      BY <1>0, <1>1, <2>1, SMTT(60) DEF Watched
    <3>2. QED
      BY <3>1 DEF FreshInv
  <2>3. Unnamed(sq, c) => kpoll'[c] = kpoll[c]
    <3>1. Unnamed(sq, c) => ~Coming(sq, c)
      BY DEF Unnamed, Coming
    <3>2. QED
      BY <1>0, <1>1, <2>1, <3>1
  <2>4. QED
    BY <1>0, <2>2, <2>3 DEF Fresh, Latest, Unnamed
<1>3. pc' \in Cancelling => \A c \in Ctx : InMap(c)' => ctx'[c].closing
  BY <1>0 DEF FreshInv, InMap
<1>4. QED
  BY <1>2, <1>3 DEF FreshInv

\* Every step keeps FreshInv.
LEMMA NextFresh ==
  ASSUME Tidy, FreshInv, [Next]_vars
  PROVE  FreshInv'
<1>1. ASSUME UNCHANGED <<ctx, ctx_map, sq, kpoll>>, pc' \in Cancelling => pc \in Cancelling
      PROVE  FreshInv'
  <2>1. \A c \in Ctx : InMap(c)' => InMap(c)
    BY <1>1 DEF InMap
  <2>2. QED
    BY <1>1, <2>1, FreshKept
<1>2. CASE AppStep
  <2>1. ASSUME NEW s \in Sources, event_backend_remove(s) PROVE FreshInv'
    <3>1. Detach(s) /\ pc = "app" /\ pc' = pc
      BY <2>1 DEF event_backend_remove, AppRuns
    <3>2. QED
      BY <3>1, FreshDetach DEF Cancelling
  <2>2. ASSUME NEW s \in Sources, NEW m \in SUBSET Bits, event_backend_add(s, m)
        PROVE  FreshInv'
    BY <2>2, FreshAdd
  <2>3. ASSUME NEW s \in Sources, NEW m \in SUBSET Bits, NEW ok \in BOOLEAN,
               event_backend_modify(s, m, ok)
        PROVE  FreshInv'
    BY <2>3, FreshModify
  <2>4. QED
    BY <1>2, <2>1, <2>2, <2>3, InputsTyped, SMTT(60) DEF AppStep, AddTimer, RemoveTimer
<1>3. CASE WaitBegin \/ WaitCqe \/ WaitEnd \/ Dispatch \/ Return \/ RunReturns \/ Finalize
  <2>1. UNCHANGED <<ctx, ctx_map, sq, kpoll>> /\ pc' \notin Cancelling
    BY <1>3 DEF WaitBegin, WaitCqe, WaitEnd, Dispatch, Return, RunReturns, Finalize,
       AppRuns, Cancelling
  <2>2. QED
    BY <1>1, <2>1
<1>4. CASE \E ok \in Allocs : RearmStep(ok) \/ Reap(ok)
  BY <1>4, InputsTyped, FreshRearm, FreshReap
<1>5. CASE DestroyStep
  <2>1. ASSUME NEW t \in Timers, FinalizeTimer(t) PROVE FreshInv'
    <3>1. pc = "timers" /\ pc' = pc /\ t \in Sources
      BY <2>1, InputsTyped DEF FinalizeTimer
    <3>2. CASE Detach(t)
      BY <3>1, <3>2, FreshDetach, SMTT(60) DEF Cancelling
    <3>3. CASE UNCHANGED <<ctx, ctx_map, sq, kpoll>>
      BY <1>1, <3>1, <3>3, SMTT(60)
    <3>4. QED
      BY <2>1, <3>2, <3>3 DEF FinalizeTimer
  <2>2. QED
    BY <1>5, <2>1, FreshMark, FreshDestroy, SMTT(60) DEF DestroyStep
<1>6. CASE KernelStep
  BY <1>6, FreshTake, FreshComplete DEF KernelStep
<1>7. CASE Done \/ UNCHANGED vars
  <2>1. UNCHANGED <<ctx, ctx_map, sq, kpoll>> /\ pc' = pc
    BY <1>7 DEF Done, vars
  <2>2. QED
    BY <1>1, <2>1
<1>8. QED
  BY <1>2, <1>3, <1>4, <1>5, <1>6, <1>7, SMTT(60) DEF Next, LoopStep

\* FreshInv is strong enough for MaskFresh.
LEMMA FreshSafe == FreshInv => MaskFresh
<1> SUFFICES ASSUME FreshInv, NEW c \in Ctx, InMap(c), ~ctx[c].closing, kpoll[c] # NoPoll
             PROVE  LET I == {i \in 1 .. Len(sq) : sq[i].c = c}
                    IN IF I = {} THEN kpoll[c] = ctx[c].mask
                       ELSE \E i \in I : (\A j \in I : j <= i) /\ sq[i].mask = ctx[c].mask
  BY DEF MaskFresh
<1>1. Fresh(c)
  BY DEF FreshInv, Watched
<1>2. QED
  BY <1>1 DEF Fresh, Latest, Unnamed

\* Nothing is watched at first.
LEMMA InitFresh == Init => FreshInv
BY SMTT(60) DEF Init, FreshInv, Watched, InMap, Ctx, Cancelling

-----------------------------------------------------------------------------
(* The backend implements Reactor. *)

\* An event of the batch has a context, its source and something to report.
EventRight(e) == e.c \in 1 .. made /\ ctx[e.c].src = e.src /\ e.mask # {}

\* A context that still names its socket is the one in ctx_map.
SockInv == \A c \in 1 .. made : ctx[c].src \in Sockets /\ ctx[c].sock =>
             ctx_map[ctx[c].src] = c

\* The loop waits between two callbacks and is torn down from outside.
CallInv == /\ pc \in {"rearm", "reap"} => calling = "none"
           /\ pc \in {"timers", "cancel", "drain", "destroyed"} => calling = "main"

EventsRight == \A i \in 1 .. Len(events) : EventRight(events[i])

RInv == /\ EventsRight
        /\ pc # "destroyed" => SockInv
        /\ CallInv

\* Contexts keep their source, and events come from the batch.
LEMMA RightKept ==
  ASSUME RInv, made \in Nat, made' \in Nat, made <= made',
         \A c \in 1 .. made : ctx'[c].src = ctx[c].src,
         \A i \in 1 .. Len(events') :
           /\ events'[i].mask # {}
           /\ \E j \in 1 .. Len(events) : /\ events'[i].c = events[j].c
                                          /\ events'[i].src = events[j].src
  PROVE  EventsRight'
<1> SUFFICES ASSUME NEW i \in 1 .. Len(events')
             PROVE  /\ events'[i].c \in 1 .. made' /\ events'[i].mask # {}
                    /\ ctx'[events'[i].c].src = events'[i].src
  BY DEF EventsRight, EventRight
<1>1. PICK j \in 1 .. Len(events) : /\ events'[i].c = events[j].c
                                    /\ events'[i].src = events[j].src
  OBVIOUS
<1>2. events[j].c \in 1 .. made /\ ctx[events[j].c].src = events[j].src
  BY DEF RInv, EventsRight, EventRight
<1>3. QED
  BY <1>1, <1>2, SMTT(60)

\* Steps that leave the batch, ctx_map and the sources of contexts alone.
LEMMA RightSame ==
  ASSUME TypeOK, RInv, CallInv', pc = "destroyed" => pc' = "destroyed",
         UNCHANGED <<made, ctx_map, events>>,
         \A c \in Ctx : SameSource(ctx'[c], ctx[c])
  PROVE  RInv'
<1>1. made \in Nat /\ \A c \in 1 .. made : c \in Ctx
  BY ConstantsOK, SMTT(60) DEF TypeOK, Ctx
<1>2. \A c \in 1 .. made : ctx'[c].src = ctx[c].src /\ ctx'[c].sock = ctx[c].sock
  BY <1>1 DEF SameSource
<1>3. EventsRight'
  <2>1. \A i \in 1 .. Len(events) : events[i].mask # {}
    BY DEF RInv, EventsRight, EventRight
  <2>2. QED
    BY <1>1, <1>2, <2>1, RightKept, SMTT(60)
<1>4. pc' # "destroyed" => SockInv'
  BY <1>2 DEF RInv, SockInv
<1>5. QED
  BY <1>3, <1>4 DEF RInv

\* Steps that leave the contexts alone and take events from the batch.
LEMMA RightFewer ==
  ASSUME TypeOK, RInv, CallInv', pc' # "destroyed", pc # "destroyed",
         UNCHANGED <<ctx, made, ctx_map>>,
         \A i \in 1 .. Len(events') :
           /\ events'[i].mask # {}
           /\ \E j \in 1 .. Len(events) : /\ events'[i].c = events[j].c
                                          /\ events'[i].src = events[j].src
  PROVE  RInv'
<1>1. made \in Nat
  BY ConstantsOK, SMTT(60) DEF TypeOK
<1>2. EventsRight'
  BY <1>1, RightKept, SMTT(60)
<1>3. SockInv'
  BY DEF RInv, SockInv
<1>4. QED
  BY <1>2, <1>3 DEF RInv

\* event_backend_add keeps RInv: no event names the new context.
LEMMA RightAdd ==
  ASSUME Tidy, RInv, NEW s \in Sources, NEW m \in SUBSET Bits, event_backend_add(s, m)
  PROVE  RInv'
<1>1. /\ pc = "app" /\ pc' = pc /\ calling' = calling /\ events' = events /\ ctx_map[s] = 0
      /\ made' = made + 1 /\ ctx_map' = [ctx_map EXCEPT ![s] = made + 1]
  BY DEF event_backend_add, AppRuns
<1>2. /\ made \in Nat /\ made + 1 \in Ctx /\ ctx \in [Ctx -> Context]
      /\ ctx_map \in [Sources -> 0 .. MaxCtx] /\ \A c \in 1 .. made : c \in Ctx
  BY ConstantsOK, SMTT(60) DEF Tidy, TypeOK, event_backend_add, Ctx
<1>3. ctx'[made + 1].src = s /\ \A c \in 1 .. made : ctx'[c] = ctx[c]
  BY <1>2, SMTT(60) DEF event_backend_add
<1>4. EventsRight'
  <2>1. \A i \in 1 .. Len(events) : events[i].mask # {}
    BY DEF RInv, EventsRight, EventRight
  <2>2. QED
    BY <1>1, <1>2, <1>3, <2>1, RightKept, SMTT(60)
<1>5. SockInv'
  <2> SUFFICES ASSUME NEW c \in 1 .. made + 1, ctx'[c].src \in Sockets, ctx'[c].sock
               PROVE  ctx_map'[ctx'[c].src] = c
    BY <1>1 DEF SockInv
  <2>1. CASE c = made + 1
    BY <1>1, <1>2, <1>3, <2>1, SMTT(60)
  <2>2. CASE c \in 1 .. made
    <3>1. ctx_map[ctx[c].src] = c /\ ctx'[c] = ctx[c] /\ c # 0
      BY <1>1, <1>3, <2>2, SMTT(60) DEF RInv, SockInv
    <3>2. ctx[c].src # s /\ ctx[c].src \in Sources
      BY <1>1, <3>1 DEF Sources
    <3>3. QED
      BY <1>1, <1>2, <3>1, <3>2, SMTT(60)
  <2>3. QED
    BY <1>2, <2>1, <2>2, SMTT(60)
<1>6. QED
  BY <1>1, <1>4, <1>5 DEF RInv, CallInv

\* event_backend_modify keeps RInv.
LEMMA RightModify ==
  ASSUME Tidy, RInv, NEW s \in Sources, NEW m \in SUBSET Bits, NEW ok \in BOOLEAN,
         event_backend_modify(s, m, ok)
  PROVE  RInv'
<1>1. /\ pc = "app" /\ pc' = pc /\ UNCHANGED <<made, ctx_map, events, calling>>
      /\ TypeOK /\ ctx \in [Ctx -> Context]
  BY DEF event_backend_modify, AppRuns, Tidy, TypeOK
<1>2. PICK d : d = ctx_map[s]
  OBVIOUS
<1>3. ModifyIdle(d, m, ok) \/ ModifyArmed(d, m)
  BY <1>2 DEF event_backend_modify
<1>4. \A c \in Ctx : SameSource(ctx'[c], ctx[c])
  <2>1. CASE ModifyIdle(d, m, ok)
    <3>1. \E a, r : ctx' = [ctx EXCEPT ![d].mask = m, ![d].queued = a, ![d].refs = r]
      BY <2>1 DEF ModifyIdle
    <3>2. QED
      BY <1>1, <3>1, SMTT(60) DEF Context, SameSource
  <2>2. CASE ModifyArmed(d, m)
    <3>1. \E a, r : ctx' = [ctx EXCEPT ![d].mask = m, ![d].refs = r, ![d].pend = a]
      BY <2>2 DEF ModifyArmed
    <3>2. QED
      BY <1>1, <3>1, SMTT(60) DEF Context, SameSource
  <2>3. QED
    BY <1>3, <2>1, <2>2
<1>5. CallInv'
  BY <1>1 DEF CallInv
<1>6. QED
  BY <1>1, <1>4, <1>5, RightSame, SMTT(60)

\* Taking a context out of the map keeps RInv.
LEMMA RightDetach ==
  ASSUME Tidy, RInv, NEW s \in Sources, Detach(s), pc' = pc, pc # "destroyed"
  PROVE  RInv'
<1>1. /\ TypeOK /\ UNCHANGED <<made, events, calling>> /\ ctx_map' = [ctx_map EXCEPT ![s] = 0]
      /\ ctx \in [Ctx -> Context] /\ ctx_map[s] # 0 /\ ctx_map \in [Sources -> 0 .. MaxCtx]
      /\ ctx_map[s] \in 0 .. MaxCtx /\ made \in Nat /\ made <= MaxCtx
  BY ConstantsOK, SMTT(60) DEF Tidy, TypeOK, Detach
<1>2. PICK d \in Ctx : d = ctx_map[s]
  BY <1>1, ConstantsOK, SMTT(60) DEF Ctx
<1>3. ctx' = [ctx EXCEPT ![d] = Detached(ctx[d])] /\ ctx[d].src = s
  <2>1. ctx' = [ctx EXCEPT ![d] = Detached(ctx[d])]
    BY <1>2 DEF Detach
  <2>2. QED
    BY <1>1, <1>2, <2>1 DEF Tidy, Traced
<1>4. Detached(ctx[d]).src = ctx[d].src /\ (Detached(ctx[d]).sock <=> ctx[d].src \in Timers)
  <2>1. ctx[d] \in Context
    BY <1>1
  <2>2. QED
    BY <2>1 DEF Detached, Context
<1>5. /\ \A c \in Ctx : c # d => ctx'[c] = ctx[c]
      /\ ctx'[d].src = s /\ (ctx'[d].sock => s \notin Sockets)
  BY <1>1, <1>3, <1>4, ConstantsOK, SMTT(60)
<1>6. \A c \in 1 .. made : c \in Ctx /\ ctx'[c].src = ctx[c].src
  <2>1. \A c \in 1 .. made : c \in Ctx
    BY <1>1, ConstantsOK, SMTT(60) DEF Ctx
  <2>2. ctx'[d].src = ctx[d].src
    BY <1>3, <1>5
  <2>3. QED
    BY <1>5, <2>1, <2>2
<1>7. EventsRight'
  <2>1. \A i \in 1 .. Len(events) : events[i].mask # {}
    BY DEF RInv, EventsRight, EventRight
  <2>2. QED
    BY <1>1, <1>6, <2>1, RightKept, SMTT(60)
<1>8. SockInv'
  <2> SUFFICES ASSUME NEW c \in 1 .. made, ctx'[c].src \in Sockets, ctx'[c].sock
               PROVE  ctx_map'[ctx'[c].src] = c
    BY <1>1 DEF SockInv
  <2>1. c # d /\ ctx'[c] = ctx[c] /\ ctx_map[ctx[c].src] = c
    BY <1>5, <1>6 DEF RInv, SockInv
  <2>2. ctx[c].src # s /\ ctx[c].src \in Sources
    BY <1>2, <2>1 DEF Sources
  <2>3. QED
    BY <1>1, <2>1, <2>2
<1>9. QED
  BY <1>1, <1>7, <1>8 DEF RInv, CallInv

\* A completion becomes an event of the context it names.
LEMMA RightReap ==
  ASSUME Tidy, RInv, NEW ok \in BOOLEAN, Reap(ok)
  PROVE  RInv'
<1>1. /\ TypeOK /\ pc = "reap" /\ pc' = pc /\ UNCHANGED <<made, ctx_map, calling>>
      /\ cq # <<>> /\ cq \in Seq(Sqe) /\ made \in Nat
  <2>1. pc = "reap" /\ pc' = pc /\ UNCHANGED <<made, ctx_map, calling>> /\ cq # <<>>
    BY DEF Reap
  <2>2. TypeOK /\ made \in 0 .. MaxCtx /\ cq \in Seq(Sqe)
    BY DEF Tidy, TypeOK
  <2>3. made \in Nat
    BY <2>2, ConstantsOK, SMTT(60)
  <2>4. QED
    BY <2>1, <2>2, <2>3
<1>2. \A c \in Ctx : SameSource(ctx'[c], ctx[c])
  BY <1>1, Untouched DEF Same
<1>3. PICK e \in Sqe : e = Head(cq) /\ e = cq[1] /\ 1 \in 1 .. Len(cq)
  BY <1>1, SMTT(60)
<1>4. e.c \in 1 .. made /\ \A c \in 1 .. made : c \in Ctx
  <2>1. e.c \in 1 .. made
    BY <1>1, <1>3, CompletionsMade
  <2>2. QED
    BY <1>1, <2>1, ConstantsOK, SMTT(60) DEF TypeOK, Ctx
<1>5. \/ events' = events
      \/ /\ e.mask # {}
         /\ events' = Append(events, [src |-> ctx[e.c].src, c |-> e.c, mask |-> e.mask])
  BY <1>3 DEF Reap
<1>6. SockInv'
  <2>1. \A c \in 1 .. made : ctx'[c].src = ctx[c].src /\ ctx'[c].sock = ctx[c].sock
    BY <1>2, <1>4 DEF SameSource
  <2>2. QED
    BY <1>1, <2>1 DEF RInv, SockInv
<1>7. EventsRight'
  <2>1. \A c \in 1 .. made : ctx'[c].src = ctx[c].src
    BY <1>2, <1>4 DEF SameSource
  <2>2. CASE events' = events
    <3>1. \A i \in 1 .. Len(events) : events[i].mask # {}
      BY DEF RInv, EventsRight, EventRight
    <3>2. QED
      BY <1>1, <2>1, <2>2, <3>1, RightKept, SMTT(60)
  <2>3. CASE events' # events
    <3>1. PICK v : v = [src |-> ctx[e.c].src, c |-> e.c, mask |-> e.mask]
      OBVIOUS
    <3>2. v.src = ctx[e.c].src /\ v.c = e.c /\ v.mask # {} /\ events' = Append(events, v)
      BY <1>5, <2>3, <3>1
    <3>3. /\ Len(events) \in Nat /\ Len(events') = Len(events) + 1
          /\ events'[Len(events) + 1] = v
          /\ \A i \in 1 .. Len(events) : events'[i] = events[i]
      BY <1>1, <3>2, SMTT(60) DEF TypeOK
    <3>4. SUFFICES ASSUME NEW i \in 1 .. Len(events) + 1
                   PROVE  /\ events'[i].c \in 1 .. made /\ events'[i].mask # {}
                          /\ ctx'[events'[i].c].src = events'[i].src
      BY <1>1, <3>3 DEF EventsRight, EventRight
    <3>5. CASE i = Len(events) + 1
      BY <1>4, <2>1, <3>2, <3>3, <3>5, SMTT(60)
    <3>6. CASE i \in 1 .. Len(events)
      <4>1. events[i].c \in 1 .. made /\ ctx[events[i].c].src = events[i].src /\ events[i].mask # {}
        BY <3>6 DEF RInv, EventsRight, EventRight
      <4>2. QED
        BY <2>1, <3>3, <3>6, <4>1
    <3>7. QED
      BY <3>3, <3>5, <3>6, SMTT(60)
  <2>4. QED
    BY <2>2, <2>3
<1>8. QED
  BY <1>1, <1>6, <1>7 DEF RInv, CallInv

\* What is left of the batch after the dispatch of its first event.
LEMMA Dispatched ==
  ASSUME TypeOK, Dispatch
  PROVE  \A i \in 1 .. Len(events') : \E j \in 1 .. Len(events) :
           /\ events'[i].c = events[j].c /\ events'[i].src = events[j].src
           /\ events'[i].mask \subseteq events[j].mask
           /\ events[j].mask # {} => events'[i].mask # {}
<1>1. events \in Seq(Event) /\ Head(events) \in Event /\ events # <<>>
  BY SMTT(60) DEF TypeOK, Dispatch
<1>2. PICK v : /\ v.c = Head(events).c /\ v.src = Head(events).src
               /\ v.mask \subseteq Head(events).mask
               /\ \/ events' = Tail(events)
                  \/ v.mask # {} /\ events' = <<v>> \o Tail(events)
  <2> DEFINE e == Head(events)
             rest == IF "E" \in e.mask \/ "R" \notin e.mask \/ e.src \in Timers
                     THEN {} ELSE e.mask \ {"R"}
             w == [e EXCEPT !.mask = rest]
  <2>1. w.c = e.c /\ w.src = e.src /\ w.mask = rest /\ rest \subseteq e.mask
    BY <1>1 DEF Event
  <2>2. events' = Tail(events) \/ (rest # {} /\ events' = <<w>> \o Tail(events))
    BY DEF Dispatch
  <2> HIDE DEF w, rest
  <2>3. QED
    BY <2>1, <2>2
<1>3. /\ Len(Tail(events)) = Len(events) - 1 /\ Len(events) \in Nat \ {0}
      /\ Head(events) = events[1] /\ Tail(events) \in Seq(Event)
      /\ \A i \in 1 .. Len(events) - 1 : Tail(events)[i] = events[i + 1]
  BY <1>1, SMTT(60)
<1>4. SUFFICES ASSUME NEW i \in 1 .. Len(events')
               PROVE  \E j \in 1 .. Len(events) :
                        /\ events'[i].c = events[j].c /\ events'[i].src = events[j].src
                        /\ events'[i].mask \subseteq events[j].mask
                        /\ events[j].mask # {} => events'[i].mask # {}
  OBVIOUS
<1>5. CASE events' = Tail(events)
  <2>1. i + 1 \in 1 .. Len(events) /\ events'[i] = events[i + 1]
    BY <1>3, <1>5, SMTT(60)
  <2>2. QED
    BY <2>1
<1>6. CASE v.mask # {} /\ events' = <<v>> \o Tail(events)
  <2>1. Len(events') = Len(events) /\ events'[1] = v
        /\ \A k \in 2 .. Len(events) : events'[k] = Tail(events)[k - 1]
    BY <1>3, <1>6, SMTT(60)
  <2>2. CASE i = 1
    <3>1. 1 \in 1 .. Len(events) /\ events'[i] = v /\ events[1] = Head(events)
      BY <1>3, <2>1, <2>2, SMTT(60)
    <3>2. QED
      BY <1>2, <1>6, <3>1
  <2>3. CASE i # 1
    <3>1. i \in 1 .. Len(events) /\ events'[i] = events[i]
      BY <1>3, <2>1, <2>3, SMTT(60)
    <3>2. QED
      BY <3>1
  <2>4. QED
    BY <2>2, <2>3, SMTT(60)
<1>7. QED
  BY <1>2, <1>5, <1>6, SMTT(60)

\* The phases of event_backend_destroy keep RInv.
LEMMA RightTeardown ==
  ASSUME Tidy, RInv,
         \/ DestroyMark \/ DestroyDrain \/ DrainStep \/ DestroyEnd
         \/ \E s \in Sources : DestroyCancel(s)
  PROVE  RInv'
<1>0. TypeOK /\ ctx \in [Ctx -> Context] /\ made \in Nat /\ \A c \in 1 .. made : c \in Ctx
  BY ConstantsOK, SMTT(60) DEF Tidy, TypeOK, Ctx
<1>1. /\ made' = made /\ events' = events /\ calling' = calling /\ pc # "destroyed"
      /\ pc \in {"timers", "cancel", "drain"} /\ pc' \in {"cancel", "drain", "destroyed"}
  BY DEF DestroyMark, DestroyDrain, DrainStep, DestroyEnd, DestroyCancel
<1>2. CallInv'
  BY <1>1 DEF RInv, CallInv
<1>3. \A c \in Ctx : SameSource(ctx'[c], ctx[c])
  <2>1. CASE DestroyMark
    BY <1>0, <2>1 DEF DestroyMark, Context, SameSource
  <2>2. CASE DestroyDrain
    BY <2>2 DEF DestroyDrain, SameSource
  <2>3. CASE DrainStep \/ DestroyEnd \/ \E s \in Sources : DestroyCancel(s)
    BY <1>0, <2>3, Untouched DEF Same
  <2>4. QED
    BY <2>1, <2>2, <2>3
<1>4. CASE DestroyEnd
  <2>1. pc' = "destroyed"
    BY <1>4 DEF DestroyEnd
  <2>2. \A c \in 1 .. made : ctx'[c].src = ctx[c].src
    BY <1>0, <1>3 DEF SameSource
  <2>3. \A i \in 1 .. Len(events) : events[i].mask # {}
    BY DEF RInv, EventsRight, EventRight
  <2>4. EventsRight'
    BY <1>0, <1>1, <2>2, <2>3, RightKept, SMTT(60)
  <2>5. QED
    BY <1>2, <2>1, <2>4 DEF RInv
<1>5. CASE DestroyMark \/ DestroyDrain \/ DrainStep \/ \E s \in Sources : DestroyCancel(s)
  <2>1. ctx_map' = ctx_map
    BY <1>5 DEF DestroyMark, DestroyDrain, DrainStep, DestroyCancel
  <2>2. QED
    BY <1>0, <1>1, <1>2, <1>3, <2>1, RightSame, SMTT(60)
<1>6. QED
  BY <1>4, <1>5

\* RInv is inductive.
LEMMA NextRight ==
  ASSUME Tidy, RInv, [Next]_vars
  PROVE  RInv'
<1>0. TypeOK /\ made \in Nat
  BY ConstantsOK, SMTT(60) DEF Tidy, TypeOK
<1>1. ASSUME UNCHANGED <<ctx, made, ctx_map, events>>, CallInv',
             pc = "destroyed" => pc' = "destroyed"
      PROVE  RInv'
  <2>1. \A c \in Ctx : SameSource(ctx'[c], ctx[c])
    BY <1>1 DEF SameSource
  <2>2. QED
    BY <1>0, <1>1, <2>1, RightSame
<1>2. CASE AppStep
  <2>1. ASSUME NEW s \in Sources, event_backend_remove(s) PROVE RInv'
    <3>1. Detach(s) /\ pc = "app" /\ pc' = pc
      BY <2>1 DEF event_backend_remove, AppRuns
    <3>2. QED
      BY <3>1, RightDetach, SMTT(60)
  <2>2. ASSUME NEW s \in Sources, NEW m \in SUBSET Bits, event_backend_add(s, m)
        PROVE  RInv'
    BY <2>2, RightAdd
  <2>3. ASSUME NEW s \in Sources, NEW m \in SUBSET Bits, NEW ok \in BOOLEAN,
               event_backend_modify(s, m, ok)
        PROVE  RInv'
    BY <2>3, RightModify
  <2>4. QED
    BY <1>2, <2>1, <2>2, <2>3, InputsTyped DEF AppStep, AddTimer, RemoveTimer
<1>3. CASE WaitBegin \/ WaitCqe \/ Return \/ RunReturns
  <2>1. UNCHANGED <<ctx, made, ctx_map, events>> /\ pc # "destroyed"
    BY <1>3 DEF WaitBegin, WaitCqe, Return, RunReturns, AppRuns
  <2>2. CallInv'
    <3>1. \/ pc' \in {"rearm", "reap"} /\ calling' = "none"
          \/ pc' = "app"
      BY <1>3 DEF WaitBegin, WaitCqe, Return, RunReturns, AppRuns, RInv, CallInv
    <3>2. QED
      BY <3>1 DEF CallInv
  <2>3. QED
    BY <1>1, <2>1, <2>2, SMTT(60)
<1>4. CASE WaitEnd \/ Finalize \/ Dispatch
  <2>1. /\ UNCHANGED <<ctx, made, ctx_map>> /\ pc # "destroyed" /\ pc' # "destroyed"
        /\ CallInv'
    BY <1>4 DEF WaitEnd, Finalize, Dispatch, CallInv
  <2>2. \A i \in 1 .. Len(events) : events[i].mask # {}
    BY DEF RInv, EventsRight, EventRight
  <2>3. \A i \in 1 .. Len(events') :
          /\ events'[i].mask # {}
          /\ \E j \in 1 .. Len(events) : /\ events'[i].c = events[j].c
                                         /\ events'[i].src = events[j].src
    <3>1. CASE Dispatch
      BY <1>0, <2>2, <3>1, Dispatched
    <3>2. CASE WaitEnd \/ Finalize
      <4>1. events' = events \/ events' = <<>>
        BY <3>2 DEF WaitEnd, Finalize
      <4>2. QED
        BY <2>2, <4>1, SMTT(60)
    <3>3. QED
      BY <1>4, <3>1, <3>2
  <2>4. QED
    BY <1>0, <2>1, <2>3, RightFewer
<1>5. CASE \E ok \in Allocs : RearmStep(ok)
  <2>1. PICK ok \in Allocs : RearmStep(ok)
    BY <1>5
  <2>2. UNCHANGED <<made, ctx_map, events, pc, calling>>
    BY <2>1 DEF RearmStep
  <2>3. \A c \in Ctx : SameSource(ctx'[c], ctx[c])
    BY <1>0, <1>5, InputsTyped, Untouched DEF Same
  <2>4. CallInv'
    BY <2>2 DEF RInv, CallInv
  <2>5. QED
    BY <1>0, <2>2, <2>3, <2>4, RightSame
<1>6. CASE \E ok \in Allocs : Reap(ok)
  BY <1>6, InputsTyped, RightReap
<1>7. CASE DestroyStep
  <2>1. ASSUME NEW t \in Timers, FinalizeTimer(t) PROVE RInv'
    <3>1. pc = "timers" /\ pc' = pc /\ t \in Sources
      BY <2>1, InputsTyped DEF FinalizeTimer
    <3>2. CASE Detach(t)
      BY <3>1, <3>2, RightDetach
    <3>3. CASE UNCHANGED <<ctx, made, ctx_map, events, calling>>
      <4>1. CallInv'
        BY <3>1, <3>3 DEF RInv, CallInv
      <4>2. QED
        BY <1>1, <3>1, <3>3, <4>1
    <3>4. QED
      BY <2>1, <3>2, <3>3 DEF FinalizeTimer
  <2>2. QED
    BY <1>7, <2>1, RightTeardown DEF DestroyStep
<1>8. CASE KernelStep \/ Done \/ UNCHANGED vars
  <2>1. UNCHANGED <<ctx, made, ctx_map, events, pc, calling>>
    BY <1>8 DEF KernelStep, KernelTake, KernelComplete, Done, vars
  <2>2. CallInv'
    BY <2>1 DEF RInv, CallInv
  <2>3. QED
    BY <1>1, <2>1, <2>2, SMTT(60)
<1>9. QED
  BY <1>2, <1>3, <1>4, <1>5, <1>6, <1>7, <1>8, SMTT(60) DEF Next, LoopStep

-----------------------------------------------------------------------------
(* The variables of Reactor. *)
Registry == {s \in Sockets : ctx_map[s] # 0}
Signals == [s \in Sockets |-> Signalled(s)]
Caller == IF calling \in Sockets \cup {"none"} THEN calling ELSE "other"
Shrinking == /\ Signals' \in [Sockets -> SUBSET Bits]
             /\ \A s \in Sockets : Signals'[s] \subseteq Signals[s]

\* A step that changes none of the three is a stutter.
LEMMA ReactorStutters ==
  ASSUME Registry' = Registry, Signals' = Signals, Caller' = Caller
  PROVE  UNCHANGED R!vars
BY DEF R!vars, Registry, Signals, Caller

\* What counts as a registration.
LEMMA ReactorRegisters ==
  ASSUME NEW s \in Sockets, Caller # "none", s \notin Registry,
         Registry' = Registry \cup {s}, Signals' = Signals, Caller' = Caller
  PROVE  R!Next
<1>1. R!Register(s)
  BY DEF R!Register, Registry, Signals, Caller
<1>2. QED
  BY <1>1 DEF R!Next

\* What counts as the end of registrations.
LEMMA ReactorUnregisters ==
  ASSUME NEW S \in SUBSET Sockets, Caller # "none", S \subseteq Registry,
         Registry' = Registry \ S, Caller' = Caller,
         Signals' = [s \in Sockets |-> IF s \in S THEN {} ELSE Signals[s]]
  PROVE  R!Next
<1>1. R!Unregister(S)
  BY DEF R!Unregister, Registry, Signals, Caller
<1>2. QED
  BY <1>1 DEF R!Next

\* Signals may be dropped.
LEMMA ReactorForgets ==
  ASSUME Shrinking, Registry' = Registry, Caller' = Caller
  PROVE  R!Next
<1>1. R!Forget
  BY DEF Shrinking, R!Forget, R!Shrinks, Registry, Signals, Caller
<1>2. QED
  BY <1>1 DEF R!Next

\* What counts as a call of a timer's callback.
LEMMA ReactorCallsOther ==
  ASSUME Shrinking, Registry' = Registry, Caller = "none", Caller' = "other"
  PROVE  R!Next
<1>1. R!CallOther
  BY DEF Shrinking, R!CallOther, R!Shrinks, Registry, Signals, Caller
<1>2. QED
  BY <1>1 DEF R!Next

\* What counts as a call of a socket's callback.
LEMMA ReactorDelivers ==
  ASSUME Shrinking, Registry' = Registry, Caller = "none", NEW s \in Sockets,
         s \in Registry, Signals[s] # {}, Caller' = s
  PROVE  R!Next
<1>1. R!Deliver(s)
  BY DEF Shrinking, R!Deliver, R!Shrinks, Registry, Signals, Caller
<1>2. QED
  BY <1>1 DEF R!Next

\* What counts as new signals.
LEMMA ReactorSignals ==
  ASSUME Signals' \in [Sockets -> SUBSET Bits], Registry' = Registry, Caller' = Caller,
         \A s \in Sockets : /\ Signals[s] \subseteq Signals'[s]
                            /\ s \notin Registry => Signals'[s] = Signals[s]
  PROVE  R!Next
<1>1. R!Signal
  BY DEF R!Signal, Registry, Signals, Caller
<1>2. QED
  BY <1>1 DEF R!Next

\* What counts as the return of a callback.
LEMMA ReactorReturns ==
  ASSUME Registry' = Registry, Signals' = Signals, Caller # "none", Caller' = "none"
  PROVE  R!Next
<1>1. R!Return
  BY DEF R!Return, Registry, Signals, Caller
<1>2. QED
  BY <1>1 DEF R!Next

\* What a queue of completions or events reports for a context.
Reports(q, c, b) == \E i \in 1 .. Len(q) : q[i].c = c /\ b \in q[i].mask
Said(q, v, c) == UNION ({q[i].mask : i \in {j \in 1 .. Len(q) : q[j].c = c}}
                   \cup {v[i].mask : i \in {j \in 1 .. Len(v) : v[j].c = c}})

\* The bits said of a context are those of its completions and its events.
LEMMA SaidIs ==
  ASSUME NEW q, NEW v, NEW c, NEW b
  PROVE  b \in Said(q, v, c) <=> Reports(q, c, b) \/ Reports(v, c, b)
BY DEF Said, Reports

\* They are event bits.
LEMMA SaidBits ==
  ASSUME NEW q \in Seq(Sqe), NEW v \in Seq(Event), NEW c
  PROVE  Said(q, v, c) \in SUBSET Bits
<1>1. \A i \in 1 .. Len(q) : q[i].mask \subseteq Bits
  <2>1. \A i \in 1 .. Len(q) : q[i] \in Sqe
    BY SMTT(60)
  <2>2. QED
    BY <2>1 DEF Sqe
<1>2. \A i \in 1 .. Len(v) : v[i].mask \subseteq Bits
  <2>1. \A i \in 1 .. Len(v) : v[i] \in Event
    BY SMTT(60)
  <2>2. QED
    BY <2>1 DEF Event
<1>3. QED
  BY <1>1, <1>2 DEF Said

\* The signals of a socket before and after a step.
LEMMA SignalsAt ==
  ASSUME NEW s \in Sockets
  PROVE  /\ Signals[s] = IF ctx_map[s] = 0 THEN {} ELSE Said(cq, events, ctx_map[s])
         /\ Signals'[s] = IF ctx_map'[s] = 0 THEN {} ELSE Said(cq', events', ctx_map'[s])
<1>1. Signalled(s) = IF ctx_map[s] = 0 THEN {} ELSE Said(cq, events, ctx_map[s])
  BY DEF Signalled, Said
<1>2. Signalled(s)' = IF ctx_map'[s] = 0 THEN {} ELSE Said(cq', events', ctx_map'[s])
  BY DEF Signalled, Said
<1>3. QED
  BY <1>1, <1>2 DEF Signals

\* Signals are sets of bits.
LEMMA SignalsTyped ==
  ASSUME TypeOK'
  PROVE  Signals' \in [Sockets -> SUBSET Bits]
<1>1. cq' \in Seq(Sqe) /\ events' \in Seq(Event)
  BY DEF TypeOK
<1>2. \A c : Said(cq', events', c) \in SUBSET Bits
  BY <1>1, SaidBits
<1>3. \A s \in Sockets : Signals'[s] \in SUBSET Bits
  BY <1>2, SignalsAt
<1>4. Signals' = [s \in Sockets |-> Signals'[s]]
  BY DEF Signals
<1>5. QED
  BY <1>3, <1>4

\* The registry depends on ctx_map alone.
LEMMA SameRegistry ==
  ASSUME \A s \in Sockets : ctx_map'[s] = ctx_map[s]
  PROVE  Registry' = Registry
BY DEF Registry

\* Signals are equal when they agree on every socket.
LEMMA SameSignals ==
  ASSUME \A s \in Sockets : Signals'[s] = Signals[s]
  PROVE  Signals' = Signals
BY DEF Signals

\* When nothing new is reported, signals only shrink.
LEMMA ReportsShrink ==
  ASSUME TypeOK', \A s \in Sockets : ctx_map'[s] = ctx_map[s],
         \A c, b : Reports(cq', c, b) \/ Reports(events', c, b) =>
                     Reports(cq, c, b) \/ Reports(events, c, b)
  PROVE  Registry' = Registry /\ Shrinking
<1>1. \A c : Said(cq', events', c) \subseteq Said(cq, events, c)
  BY SaidIs
<1>2. \A s \in Sockets : Signals'[s] \subseteq Signals[s]
  BY <1>1, SignalsAt
<1>3. QED
  BY <1>2, SignalsTyped, SameRegistry DEF Shrinking

\* Steps that Reactor does not see.
LEMMA SameReactor ==
  ASSUME \A s \in Sockets : ctx_map'[s] = ctx_map[s], UNCHANGED <<cq, events, calling>>
  PROVE  Registry' = Registry /\ Signals' = Signals /\ Caller' = Caller
<1>1. \A s \in Sockets : Signals'[s] = Signals[s]
  BY SignalsAt
<1>2. QED
  BY <1>1, SameSignals, SameRegistry DEF Caller

\* What a queue reports with one entry more.
LEMMA ReportsAppend ==
  ASSUME NEW S, NEW q \in Seq(S), NEW e \in S
  PROVE  \A c, b : Reports(Append(q, e), c, b) <=>
                     Reports(q, c, b) \/ (e.c = c /\ b \in e.mask)
<1>1. /\ Len(q) \in Nat /\ Len(Append(q, e)) = Len(q) + 1
      /\ Append(q, e)[Len(q) + 1] = e
      /\ \A i \in 1 .. Len(q) : Append(q, e)[i] = q[i]
  BY SMTT(60)
<1>2. PICK a : a = Append(q, e)
  OBVIOUS
<1>3. 1 .. Len(a) = 1 .. Len(q) \cup {Len(q) + 1}
  BY <1>1, <1>2, SMTT(60)
<1>4. QED
  BY <1>1, <1>2, <1>3 DEF Reports

\* What a queue reports without its head.
LEMMA ReportsTail ==
  ASSUME NEW S, NEW q \in Seq(S), q # <<>>
  PROVE  \A c, b : Reports(q, c, b) <=>
                     Reports(Tail(q), c, b) \/ (Head(q).c = c /\ b \in Head(q).mask)
<1>1. /\ Len(q) \in Nat \ {0} /\ Len(Tail(q)) = Len(q) - 1 /\ q[1] = Head(q)
      /\ \A i \in 1 .. Len(q) - 1 : Tail(q)[i] = q[i + 1]
  BY SMTT(60)
<1> SUFFICES ASSUME NEW c, NEW b
             PROVE  Reports(q, c, b) <=>
                      Reports(Tail(q), c, b) \/ (Head(q).c = c /\ b \in Head(q).mask)
  OBVIOUS
<1>2. ASSUME NEW i \in 1 .. Len(q), q[i].c = c, b \in q[i].mask, i # 1
      PROVE  Reports(Tail(q), c, b)
  <2>1. i - 1 \in 1 .. Len(Tail(q)) /\ Tail(q)[i - 1] = q[i]
    BY <1>1, <1>2, SMTT(60)
  <2>2. QED
    BY <1>2, <2>1 DEF Reports
<1>3. ASSUME NEW i \in 1 .. Len(Tail(q)), Tail(q)[i].c = c, b \in Tail(q)[i].mask
      PROVE  Reports(q, c, b)
  <2>1. i + 1 \in 1 .. Len(q) /\ q[i + 1] = Tail(q)[i]
    BY <1>1, SMTT(60)
  <2>2. QED
    BY <1>3, <2>1 DEF Reports
<1>4. 1 \in 1 .. Len(q)
  BY <1>1, SMTT(60)
<1>5. QED
  BY <1>1, <1>2, <1>3, <1>4 DEF Reports

\* An entry without bits reports nothing.
LEMMA QuietAppend ==
  ASSUME NEW q \in Seq(Sqe), NEW x \in Sqe, x.mask = {}
  PROVE  \A c, b : Reports(Append(q, x), c, b) <=> Reports(q, c, b)
BY ReportsAppend

\* Nor do two of them.
LEMMA QuietPair ==
  ASSUME NEW q \in Seq(Sqe), NEW x \in Sqe, NEW y \in Sqe, x.mask = {}, y.mask = {}
  PROVE  \A c, b : Reports(q \o <<x, y>>, c, b) <=> Reports(q, c, b)
<1>1. PICK p : p = q \o <<x, y>>
  OBVIOUS
<1>2. /\ Len(q) \in Nat /\ Len(p) = Len(q) + 2 /\ p[Len(q) + 1] = x /\ p[Len(q) + 2] = y
      /\ \A i \in 1 .. Len(q) : p[i] = q[i]
  BY <1>1, SMTT(60)
<1>3. 1 .. Len(p) = 1 .. Len(q) \cup {Len(q) + 1, Len(q) + 2}
  BY <1>2, SMTT(60)
<1>4. p[Len(q) + 1].mask = {} /\ p[Len(q) + 2].mask = {}
  BY <1>2
<1>5. QED
  BY <1>1, <1>2, <1>3, <1>4 DEF Reports

\* A sequence over a set is one over a larger set.
LEMMA SeqWider ==
  ASSUME NEW S, NEW q \in Seq(S), NEW x
  PROVE  q \in Seq(S \cup {x})
BY SMTT(60)

\* A callback of a timer, or the caller of event_loop_run, is none of a socket.
LEMMA Outsiders ==
  "main" \notin Sockets \cup {"none"} /\ \A t \in Timers : t \notin Sockets \cup {"none"}
BY ConstantsOK DEF Sources

\* A completion reaped moves from the queue of completions to the batch.
LEMMA ReapRefines ==
  ASSUME Tidy, Tidy', NEW ok \in BOOLEAN, Reap(ok)
  PROVE  R!Next
<1>0. TypeOK /\ TypeOK' /\ ctx_map' = ctx_map /\ calling' = calling
  <2>1. TypeOK /\ TypeOK'
    BY DEF Tidy
  <2>2. ctx_map' = ctx_map /\ calling' = calling
    BY DEF Reap
  <2>3. QED
    BY <2>1, <2>2
<1>1. PICK e \in Sqe : /\ e = Head(cq) /\ cq # <<>> /\ cq \in Seq(Sqe)
                       /\ cq' = Tail(cq) /\ events \in Seq(Event)
  <2>1. cq # <<>> /\ cq' = Tail(cq)
    BY DEF Reap
  <2>2. cq \in Seq(Sqe) /\ events \in Seq(Event)
    BY <1>0 DEF TypeOK
  <2>3. Head(cq) \in Sqe
    BY <2>1, <2>2, SMTT(60)
  <2>4. QED
    BY <2>1, <2>2, <2>3
<1>2. PICK v : /\ v.c = e.c /\ v.mask = e.mask
               /\ events' = events \/ events' = Append(events, v)
  <2> DEFINE w == [src |-> ctx[e.c].src, c |-> e.c, mask |-> e.mask]
  <2>1. w.c = e.c /\ w.mask = e.mask
    OBVIOUS
  <2>2. events' = events \/ events' = Append(events, w)
    BY <1>1 DEF Reap
  <2> HIDE DEF w
  <2>3. QED
    BY <2>1, <2>2
<1>3. ASSUME NEW c, NEW b, Reports(cq', c, b) \/ Reports(events', c, b)
      PROVE  Reports(cq, c, b) \/ Reports(events, c, b)
  <2>1. Reports(cq, c, b) <=> Reports(cq', c, b) \/ (e.c = c /\ b \in e.mask)
    BY <1>1, ReportsTail
  <2>2. Reports(events', c, b) => Reports(events, c, b) \/ (e.c = c /\ b \in e.mask)
    <3>1. events \in Seq(Event \cup {v}) /\ v \in Event \cup {v}
      BY <1>1, SeqWider
    <3>2. Reports(Append(events, v), c, b) <=> Reports(events, c, b) \/ (v.c = c /\ b \in v.mask)
      BY <3>1, ReportsAppend
    <3>3. QED
      BY <1>2, <3>2
  <2>3. QED
    BY <1>3, <2>1, <2>2
<1>4. Registry' = Registry /\ Shrinking
  BY <1>0, <1>3, ReportsShrink
<1>5. QED
  BY <1>0, <1>4, ReactorForgets DEF Caller

\* A drained completion is a dropped signal.
LEMMA DrainRefines ==
  ASSUME Tidy, Tidy', DrainStep
  PROVE  R!Next
<1>1. /\ TypeOK' /\ cq \in Seq(Sqe) /\ cq # <<>> /\ cq' = Tail(cq)
      /\ UNCHANGED <<ctx_map, calling, events>>
  BY DEF Tidy, DrainStep, TypeOK
<1>2. \A c, b : Reports(cq', c, b) => Reports(cq, c, b)
  BY <1>1, ReportsTail
<1>3. Registry' = Registry /\ Shrinking
  BY <1>1, <1>2, ReportsShrink
<1>4. QED
  BY <1>1, <1>3, ReactorForgets, SMTT(60) DEF Caller

\* event_backend_wait returns, or the loop is finalized.
LEMMA WaitRefines ==
  ASSUME Tidy, Tidy', RInv, WaitEnd \/ Finalize
  PROVE  R!Next
<1>1. /\ TypeOK' /\ UNCHANGED <<ctx_map, cq>> /\ events' \in {events, <<>>}
      /\ \/ calling' = calling
         \/ calling = "none" /\ calling' \in {"main", "none"}
  BY DEF Tidy, WaitEnd, Finalize, RInv, CallInv
<1>2. \A c, b : Reports(events', c, b) => Reports(events, c, b)
  BY <1>1, SMTT(60) DEF Reports
<1>3. Registry' = Registry /\ Shrinking
  BY <1>1, <1>2, ReportsShrink
<1>4. CASE Caller' = Caller
  BY <1>3, <1>4, ReactorForgets
<1>5. CASE calling = "none" /\ calling' = "main"
  <2>1. Caller = "none" /\ Caller' = "other"
    BY <1>5, Outsiders DEF Caller
  <2>2. QED
    BY <1>3, <2>1, ReactorCallsOther, SMTT(60)
<1>6. QED
  BY <1>1, <1>4, <1>5 DEF Caller

\* event_loop_run hands an event over, or drops it.
LEMMA DispatchRefines ==
  ASSUME Tidy, Tidy', RInv, Dispatch
  PROVE  R!Next
<1>1. /\ TypeOK /\ TypeOK' /\ UNCHANGED <<ctx_map, cq>> /\ calling = "none" /\ events # <<>>
      /\ events \in Seq(Event) /\ pc = "app"
  BY DEF Tidy, Dispatch, TypeOK
<1>2. \A c, b : Reports(events', c, b) => Reports(events, c, b)
  BY <1>1, Dispatched DEF Reports
<1>3. Registry' = Registry /\ Shrinking
  BY <1>1, <1>2, ReportsShrink
<1>4. PICK e \in Event : /\ e = Head(events) /\ e = events[1] /\ 1 \in 1 .. Len(events)
                         /\ calling' = IF Registered(e) THEN e.src ELSE "none"
  BY <1>1, SMTT(60) DEF Dispatch
<1>5. Caller = "none"
  BY <1>1 DEF Caller
<1>6. CASE ~Registered(e)
  <2>1. Caller' = Caller
    BY <1>4, <1>5, <1>6 DEF Caller
  <2>2. QED
    BY <1>3, <2>1, ReactorForgets
<1>7. CASE Registered(e) /\ e.src \in Timers
  <2>1. Caller' = "other"
    BY <1>4, <1>7, Outsiders DEF Caller
  <2>2. QED
    BY <1>3, <1>5, <2>1, ReactorCallsOther, SMTT(60)
<1>8. CASE Registered(e) /\ e.src \notin Timers
  <2>1. e.src \in Sockets /\ ctx[e.c].sock
    BY <1>8 DEF Registered, Event, Sources
  <2>2. e.c \in 1 .. made /\ ctx[e.c].src = e.src /\ e.mask # {}
    BY <1>4 DEF RInv, EventsRight, EventRight
  <2>3. ctx_map[e.src] = e.c /\ e.c # 0
    BY <1>1, <2>1, <2>2, SMTT(60) DEF RInv, SockInv
  <2>4. PICK b : b \in e.mask
    BY <2>2
  <2>5. b \in Signals[e.src]
    <3>1. Reports(events, e.c, b)
      BY <1>4, <2>4 DEF Reports
    <3>2. b \in Said(cq, events, e.c)
      BY <3>1, SaidIs
    <3>3. QED
      BY <2>1, <2>3, <3>2, SignalsAt
  <2>6. Caller' = e.src /\ e.src \in Registry
    BY <1>4, <1>8, <2>1, <2>3 DEF Caller, Registry
  <2>7. QED
    BY <1>3, <1>5, <2>1, <2>5, <2>6, ReactorDelivers, SMTT(60)
<1>9. QED
  BY <1>6, <1>7, <1>8, SMTT(60)

\* What the kernel posts for a submission it takes reports nothing.
LEMMA TakeRefines ==
  ASSUME Tidy, KernelTake
  PROVE  UNCHANGED R!vars
<1>1. /\ UNCHANGED <<ctx_map, calling, events>> /\ cq \in Seq(Sqe) /\ sq # <<>>
      /\ sq \in Seq(Sqe)
  BY DEF Tidy, KernelTake, TypeOK
<1>2. PICK e \in Ctx : e = Head(sq).c
  <2>1. Head(sq) \in Sqe
    BY <1>1, SMTT(60)
  <2>2. QED
    BY <2>1 DEF Sqe
<1>3. PICK u \in Sqe, a \in Sqe, r \in Sqe :
        u = Cqe("update", e, {}) /\ a = Cqe("add", e, {}) /\ r = Cqe("remove", e, {})
  BY <1>2 DEF Cqe, Sqe
<1>4. u.mask = {} /\ a.mask = {} /\ r.mask = {}
  BY <1>3 DEF Cqe
<1>6. \A c, b : Reports(cq', c, b) <=> Reports(cq, c, b)
  <2>1. CASE cq' = cq
    BY <2>1
  <2>2. CASE cq' = Append(cq, u)
    BY <1>1, <1>4, <2>2, QuietAppend, SMTT(60)
  <2>3. CASE cq' = Append(cq, r)
    BY <1>1, <1>4, <2>3, QuietAppend, SMTT(60)
  <2>4. ASSUME NEW x \in Sqe, NEW y \in Sqe, x.mask = {}, y.mask = {}, cq' = cq \o <<x, y>>
        PROVE  \A c, b : Reports(cq', c, b) <=> Reports(cq, c, b)
    BY <1>1, <2>4, QuietPair
  <2>5. \/ cq' = cq \/ cq' = Append(cq, u) \/ cq' = Append(cq, r)
        \/ cq' = cq \o <<a, r>> \/ cq' = cq \o <<r, a>>
    BY <1>2, <1>3 DEF KernelTake
  <2>6. QED
    BY <1>4, <2>1, <2>2, <2>3, <2>4, <2>5
<1>7. \A c : Said(cq', events', c) = Said(cq, events, c)
  <2>1. ASSUME NEW c, NEW b
        PROVE  b \in Said(cq', events', c) <=> b \in Said(cq, events, c)
    BY <1>1, <1>6, SaidIs, SMTT(60)
  <2>2. QED
    BY <2>1, SMTT(60)
<1>8. \A s \in Sockets : Signals'[s] = Signals[s]
  BY <1>1, <1>7, SignalsAt
<1>9. QED
  BY <1>1, <1>8, SameSignals, SameRegistry, ReactorStutters, SMTT(60) DEF Caller

\* A completed poll reports readiness of a registered socket, or nothing.
LEMMA CompleteRefines ==
  ASSUME Tidy, Tidy', NEW d \in Ctx, KernelComplete(d)
  PROVE  R!Next
<1>1. TypeOK' /\ UNCHANGED <<ctx_map, calling, events>> /\ cq \in Seq(Sqe) /\ cq' \in Seq(Sqe)
  BY DEF Tidy, KernelComplete, TypeOK
<1>2. PICK x : cq' = Append(cq, x)
  BY DEF KernelComplete
<1>3. \A c, b : Reports(cq, c, b) => Reports(cq', c, b)
  <2>1. cq \in Seq(Sqe \cup {x}) /\ x \in Sqe \cup {x}
    BY <1>1, SeqWider
  <2>2. QED
    BY <1>2, <2>1, ReportsAppend
<1>4. \A c : Said(cq, events, c) \subseteq Said(cq', events', c)
  BY <1>1, <1>3, SaidIs
<1>5. \A s \in Sockets : /\ Signals[s] \subseteq Signals'[s]
                         /\ s \notin Registry => Signals'[s] = Signals[s]
  BY <1>1, <1>4, SignalsAt DEF Registry
<1>6. QED
  BY <1>1, <1>5, SignalsTyped, SameRegistry, ReactorSignals, SMTT(60) DEF Caller

\* Nothing was reported for a context that is made now.
LEMMA AddRefines ==
  ASSUME Tidy, RInv, NEW s \in Sockets, NEW m \in SUBSET Bits, event_backend_add(s, m)
  PROVE  R!Next
<1>1. /\ TypeOK /\ pc = "app" /\ calling # "none" /\ ctx_map[s] = 0 /\ made \in Nat
      /\ ctx_map \in [Sources -> 0 .. MaxCtx] /\ s \in Sources
      /\ ctx_map' = [ctx_map EXCEPT ![s] = made + 1]
      /\ UNCHANGED <<cq, events, calling>>
  <2>1. /\ TypeOK /\ made \in 0 .. MaxCtx /\ ctx_map \in [Sources -> 0 .. MaxCtx] /\ s \in Sources
    BY DEF Tidy, TypeOK, Sources
  <2>2. made \in Nat
    BY <2>1, ConstantsOK, SMTT(60)
  <2>3. QED
    BY <2>1, <2>2 DEF event_backend_add, AppRuns
<1>2. ctx_map'[s] = made + 1 /\ \A x \in Sockets : x # s => ctx_map'[x] = ctx_map[x]
  BY <1>1 DEF Sources
<1>3. \A b : ~Reports(cq, made + 1, b)
  <2>1. \A i \in 1 .. Len(cq) : cq[i].c # made + 1
    BY <1>1, CompletionsMade, SMTT(60)
  <2>2. QED
    BY <2>1 DEF Reports
<1>4. \A b : ~Reports(events, made + 1, b)
  <2>1. \A i \in 1 .. Len(events) : events[i].c # made + 1
    BY <1>1, SMTT(60) DEF RInv, EventsRight, EventRight
  <2>2. QED
    BY <2>1 DEF Reports
<1>5. Said(cq, events, made + 1) = {}
  BY <1>3, <1>4, SaidIs
<1>6. \A x \in Sockets : Signals'[x] = Signals[x]
  BY <1>1, <1>2, <1>5, SignalsAt, SMTT(60)
<1>7. s \notin Registry /\ Registry' = Registry \cup {s}
  BY <1>1, <1>2, SMTT(60) DEF Registry
<1>8. Caller # "none" /\ Caller' = Caller
  BY <1>1 DEF Caller
<1>9. QED
  BY <1>6, <1>7, <1>8, SameSignals, ReactorRegisters, SMTT(60)

\* Sockets leave ctx_map: one, or all when the backend is destroyed.
LEMMA RemoveRefines ==
  ASSUME NEW S \in SUBSET Sockets, calling # "none", calling' = calling,
         \A s \in S : ctx_map[s] # 0 /\ ctx_map'[s] = 0,
         \A s \in Sockets \ S : ctx_map'[s] = ctx_map[s],
         UNCHANGED <<cq, events>>
  PROVE  R!Next
<1>1. Caller # "none" /\ Caller' = Caller
  BY DEF Caller
<1>2. S \subseteq Registry /\ Registry' = Registry \ S
  BY DEF Registry
<1>3. \A s \in Sockets : Signals'[s] = IF s \in S THEN {} ELSE Signals[s]
  BY SignalsAt, SMTT(60)
<1>4. Signals' = [s \in Sockets |-> Signals'[s]]
  BY DEF Signals
<1>5. QED
  BY <1>1, <1>2, <1>3, <1>4, ReactorUnregisters

\* A step of the backend is a step of Reactor or none.
LEMMA StepRefines ==
  ASSUME Tidy, Tidy', RInv, [Next]_vars
  PROVE  [R!Next]_(R!vars)
<1>0. TypeOK /\ ctx_map \in [Sources -> 0 .. MaxCtx] /\ Sockets \subseteq Sources
  BY DEF Tidy, TypeOK, Sources
<1>1. ASSUME \A s \in Sockets : ctx_map'[s] = ctx_map[s], UNCHANGED <<cq, events, calling>>
      PROVE  UNCHANGED R!vars
  BY <1>1, SameReactor, ReactorStutters
<1>2. CASE AppStep
  <2>1. ASSUME NEW s \in Sockets, NEW m \in SUBSET Bits, event_backend_add(s, m)
        PROVE  R!Next
    BY <2>1, AddRefines
  <2>2. ASSUME NEW s \in Sockets, event_backend_remove(s)  PROVE R!Next
    <3>1. /\ calling # "none" /\ ctx_map[s] # 0 /\ UNCHANGED <<cq, events, calling>>
          /\ ctx_map' = [ctx_map EXCEPT ![s] = 0]
      BY <2>2 DEF event_backend_remove, AppRuns, Detach
    <3>2. ctx_map'[s] = 0 /\ \A x \in Sockets : x # s => ctx_map'[x] = ctx_map[x]
      BY <1>0, <3>1
    <3>3. PICK S \in SUBSET Sockets : S = {s}
      OBVIOUS
    <3>4. /\ \A x \in S : ctx_map[x] # 0 /\ ctx_map'[x] = 0
          /\ \A x \in Sockets \ S : ctx_map'[x] = ctx_map[x]
      BY <3>1, <3>2, <3>3, SMTT(60)
    <3>5. QED
      BY <3>1, <3>4, RemoveRefines, SMTT(60)
  <2>3. ASSUME NEW t \in Timers, AddTimer(t) \/ RemoveTimer(t)  PROVE UNCHANGED R!vars
    <3>1. /\ UNCHANGED <<cq, events, calling>>
          /\ \E n : ctx_map' = [ctx_map EXCEPT ![t] = n]
      BY <2>3 DEF AddTimer, RemoveTimer, event_backend_add, event_backend_remove, Detach
    <3>2. \A s \in Sockets : ctx_map'[s] = ctx_map[s]
      <4>1. t \notin Sockets
        BY ConstantsOK
      <4>2. QED
        BY <1>0, <3>1, <4>1, SMTT(60)
    <3>3. QED
      BY <1>1, <3>1, <3>2, SMTT(60)
  <2>4. ASSUME NEW s \in Sockets, NEW m \in Masks, NEW ok \in Allocs,
               event_backend_modify(s, m, ok)
        PROVE  UNCHANGED R!vars
    <3>1. UNCHANGED <<ctx_map, cq, events, calling>>
      BY <2>4 DEF event_backend_modify
    <3>2. QED
      BY <1>1, <3>1
  <2>5. QED
    BY <1>2, <2>1, <2>2, <2>3, <2>4, InputsTyped DEF AppStep
<1>3. CASE Return
  <2>1. UNCHANGED <<ctx_map, cq, events>> /\ calling # "none" /\ calling' = "none"
    BY <1>3 DEF Return, AppRuns
  <2>2. \A s \in Sockets : Signals'[s] = Signals[s]
    BY <2>1, SignalsAt
  <2>3. Caller # "none" /\ Caller' = "none"
    BY <2>1 DEF Caller
  <2>4. QED
    BY <2>1, <2>2, <2>3, SameSignals, SameRegistry, ReactorReturns, SMTT(60)
<1>4. CASE RunReturns
  <2>1. UNCHANGED <<ctx_map, cq, events>> /\ calling = "none" /\ calling' = "main" /\ TypeOK'
    BY <1>4 DEF RunReturns, Tidy
  <2>2. Registry' = Registry /\ Shrinking
    BY <2>1, ReportsShrink
  <2>3. Caller = "none" /\ Caller' = "other"
    BY <2>1, Outsiders DEF Caller
  <2>4. QED
    BY <2>2, <2>3, ReactorCallsOther
<1>5. CASE \/ WaitBegin \/ WaitCqe \/ DestroyMark \/ DestroyDrain \/ Done \/ UNCHANGED vars
           \/ \E s \in Sources : DestroyCancel(s)
           \/ \E ok \in Allocs : RearmStep(ok)
  <2>1. UNCHANGED <<ctx_map, cq, events, calling>>
    BY <1>5 DEF WaitBegin, WaitCqe, DestroyMark, DestroyDrain, Done, vars, DestroyCancel,
       RearmStep
  <2>2. QED
    BY <1>1, <2>1
<1>6. CASE \E t \in Timers : FinalizeTimer(t)
  <2>1. PICK t \in Timers : FinalizeTimer(t)
    BY <1>6
  <2>2. /\ UNCHANGED <<cq, events, calling>>
        /\ \/ ctx_map' = ctx_map
           \/ ctx_map' = [ctx_map EXCEPT ![t] = 0]
    BY <2>1 DEF FinalizeTimer, Detach
  <2>3. \A s \in Sockets : ctx_map'[s] = ctx_map[s]
    <3>1. t \notin Sockets
      BY ConstantsOK
    <3>2. QED
      BY <1>0, <2>2, <3>1, SMTT(60)
  <2>4. QED
    BY <1>1, <2>2, <2>3
<1>7. CASE DestroyEnd
  <2>1. /\ UNCHANGED <<cq, events, calling>> /\ pc = "drain"
        /\ ctx_map' = [s \in Sources |-> 0]
    BY <1>7 DEF DestroyEnd
  <2>2. calling # "none"
    BY <2>1 DEF RInv, CallInv
  <2>3. PICK S \in SUBSET Sockets : \A s \in Sockets : s \in S <=> ctx_map[s] # 0
    <3>1. {s \in Sockets : ctx_map[s] # 0} \in SUBSET Sockets
      OBVIOUS
    <3>2. QED
      BY <3>1
  <2>4. \A s \in Sockets : ctx_map'[s] = 0
    BY <1>0, <2>1
  <2>5. QED
    BY <2>1, <2>2, <2>3, <2>4, RemoveRefines, SMTT(60)
<1>8. CASE WaitEnd \/ Finalize \/ Dispatch \/ DrainStep \/ \E ok \in Allocs : Reap(ok)
  BY <1>8, WaitRefines, DispatchRefines, DrainRefines, ReapRefines, InputsTyped, SMTT(60)
<1>9. CASE KernelStep
  BY <1>9, TakeRefines, CompleteRefines DEF KernelStep
<1>10. QED
  BY <1>2, <1>3, <1>4, <1>5, <1>6, <1>7, <1>8, <1>9 DEF Next, LoopStep, DestroyStep

\* A new backend is a new Reactor.
LEMMA InitRefines == Init => RInv /\ R!Init
<1> SUFFICES ASSUME Init PROVE RInv /\ R!Init
  OBVIOUS
<1>1. RInv
  BY SMTT(60) DEF Init, RInv, EventsRight, SockInv, CallInv
<1>2. \A s \in Sockets : ctx_map[s] = 0
  BY DEF Init, Sources
<1>3. Registry = {}
  BY <1>2 DEF Registry
<1>4. Signals = [s \in Sockets |-> {}]
  BY <1>2 DEF Signals, Signalled
<1>5. Caller = "other"
  BY Outsiders DEF Init, Caller
<1>6. QED
  BY <1>1, <1>3, <1>4, <1>5 DEF R!Init, Registry, Signals, Caller

===============================================================================
