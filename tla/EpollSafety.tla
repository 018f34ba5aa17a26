------------------------------ MODULE EpollSafety -----------------------------
(*****************************************************************************)
(* The event loop on epoll: the steps of the loop preserve the invariant, and *)
(* what it says of contexts: they live as long as an event of the batch may  *)
(* use them.                                                                 *)
(*****************************************************************************)
EXTENDS EpollInvariant

USE ZenonT(60)

-----------------------------------------------------------------------------
(* The loop.                                                               *)

(* An event that epoll reports is of the context in the map.               *)
LEMMA EventGood ==
  ASSUME IInv, NEW f \in Slots, Report(f) # {}
  PROVE  /\ EventOf(f) \in EventRec /\ EventOf(f).mask # {}
         /\ EventOf(f).c = ctx_map[f] /\ ctx_map[f] # 0 /\ EventOf(f).c \in 1..made
         /\ EventOf(f).src = ctx[EventOf(f).c].src
         /\ (f \in Timers => EventOf(f).src = f) /\ (f \in Fds => EventOf(f).src \in Sockets)
<1>1. kep = ctx_map /\ ctx_map[f] # 0
  BY DEF IInv, MapInv, KernelAgrees, Report
<1>2. PICK c : c = ctx_map[f]
  OBVIOUS
<1>3. c \in 1..made /\ c \in Ctx
  BY <1>1, <1>2, InTheMap DEF IInv
<1>4. (f \in Timers => ctx[c].src = f) /\ (f \in Fds => ctx[c].src \in Sockets)
  BY <1>1, <1>2 DEF IInv, MapInv, SocketPlaces, TimerPlaces
<1>5. ctx[c].src \in Sockets \cup Timers
  BY <1>4 DEF Slots
<1>6. Report(f) \in SUBSET Bits
  <2>1. CASE f \in Timers
    BY <2>1 DEF Report, Bits
  <2>2. CASE f \notin Timers
    <3>1. \A s \in Sockets : sock[s].ready \in SUBSET Bits
      BY SocketsTyped, SocketFields DEF IInv
    <3>2. Report(f) = UNION {sock[s].ready \cap (ctx[kep[f]].mask \cup {"E"}) : s \in {x \in Sockets : sock[x].fd = f}}
      BY <1>1, <2>2 DEF Report
    <3> QED BY <3>1, <3>2
  <2> QED BY <2>1, <2>2
<1>7. EventOf(f) = [src |-> ctx[c].src, c |-> c, mask |-> Report(f)]
  BY <1>1, <1>2 DEF EventOf
<1>8. EventOf(f) \in EventRec /\ EventOf(f).src = ctx[c].src /\ EventOf(f).c = c /\ EventOf(f).mask = Report(f)
  BY <1>3, <1>5, <1>6, <1>7, SMTT(60) DEF EventRec
<1> QED BY <1>1, <1>2, <1>3, <1>4, <1>8

(* What a wait collects.                                                   *)
LEMMA CollectGood ==
  ASSUME IInv, Collect
  PROVE  /\ batch' \in Seq(EventRec)
         /\ \A i \in 1..Len(batch') :
               /\ batch'[i].c \in 1..made /\ Mapped(batch'[i].c) /\ batch'[i].src = ctx[batch'[i].c].src
               /\ batch'[i].mask # {}
         /\ \A i, j \in 1..Len(batch') : batch'[i].src \in Timers /\ batch'[i].src = batch'[j].src => i = j
<1>1. PICK n \in 0..MaxEvents, order \in [1..MaxEvents -> Ready \cup {"none"}] :
        /\ \A i \in 1..MaxEvents : (order[i] = "none") <=> (i > n)
        /\ \A i, j \in 1..n : order[i] = order[j] => i = j
        /\ batch' = [i \in 1..n |-> EventOf(order[i])]
  BY DEF Collect
<1>2. n \in Nat /\ 1..n \subseteq 1..MaxEvents
  BY ConstantsOK, SMTT(60)
<1>3. ASSUME NEW i \in 1..n  PROVE order[i] \in Slots /\ Report(order[i]) # {}
  <2>1. i \in 1..MaxEvents /\ ~(i > n)
    BY <1>2, SMTT(60)
  <2>2. order[i] \in Ready
    BY <1>1, <2>1
  <2> QED BY <2>2 DEF Ready
<1>4. \A i \in 1..n :
        /\ batch'[i] = EventOf(order[i]) /\ batch'[i] \in EventRec /\ batch'[i].mask # {}
        /\ batch'[i].c \in 1..made /\ Mapped(batch'[i].c) /\ batch'[i].src = ctx[batch'[i].c].src
  BY <1>1, <1>3, EventGood, SMTT(60) DEF Mapped
<1>5. batch' \in Seq(EventRec) /\ Len(batch') = n
  BY <1>1, <1>4, SMTT(60)
<1>6. ASSUME NEW i \in 1..n, NEW j \in 1..n, batch'[i].src \in Timers, batch'[i].src = batch'[j].src
      PROVE  i = j
  <2>1. \A k \in 1..n : batch'[k].src \in Timers => order[k] = batch'[k].src
    <3> SUFFICES ASSUME NEW k \in 1..n, batch'[k].src \in Timers  PROVE order[k] = batch'[k].src
      OBVIOUS
    <3>1. batch'[k] = EventOf(order[k]) /\ order[k] \in Slots /\ Report(order[k]) # {}
      BY <1>3, <1>4
    <3>2. (order[k] \in Timers => batch'[k].src = order[k]) /\ (order[k] \in Fds => batch'[k].src \in Sockets)
      BY <3>1, EventGood
    <3> QED BY <3>1, <3>2, ConstantsOK, SMTT(60) DEF Slots
  <2> QED BY <1>1, <1>6, <2>1, SMTT(60)
<1> QED BY <1>4, <1>5, <1>6

(* epoll_wait fills the batch from the map.                                *)
LEMMA WaitInv == ASSUME IInv, Wait PROVE IInv'
<1>1. UNCHANGED <<sock, ctx, made, ctx_map, kep, defer, calling, running, failed, stopped>>
  BY DEF Wait
<1>2. phase = "wait" /\ phase' = "batch" /\ batch = <<>> /\ Collect
  BY DEF Wait, IInv, BatchInv
<1>3. /\ batch' \in Seq(EventRec)
      /\ \A i \in 1..Len(batch') :
            /\ batch'[i].c \in 1..made /\ Mapped(batch'[i].c) /\ batch'[i].src = ctx[batch'[i].c].src
            /\ batch'[i].mask # {}
      /\ \A i, j \in 1..Len(batch') : batch'[i].src \in Timers /\ batch'[i].src = batch'[j].src => i = j
  BY <1>2, CollectGood
<1>4. timer \in [Timers -> TimerRec]
  BY TimersTyped DEF IInv
<1>5. ASSUME NEW t \in Timers
      PROVE  /\ timer'[t] \in TimerRec /\ timer'[t].added = timer[t].added /\ timer'[t].owned = timer[t].owned
             /\ timer'[t].refs = timer[t].refs + One(InBatch(t)')
  <2> DEFINE S == {i \in 1..Len(batch') : batch'[i].src = t}
  <2>1. \A i, j \in S : i = j
    BY <1>3
  <2>2. Cardinality(S) = One(\E i \in S : TRUE)
    BY <2>1, CountOne
  <2>3. (\E i \in S : TRUE) <=> InBatch(t)'
    BY DEF InBatch
  <2>4. Retained(t) = Cardinality(S)
    BY DEF Retained
  <2> HIDE DEF S
  <2>5. Retained(t) = One(InBatch(t)')
    BY <2>2, <2>3, <2>4 DEF One
  <2>6. timer[t] \in TimerRec /\ timer[t].refs \in Nat /\ One(InBatch(t)') \in {0, 1}
    BY <1>4, TimerFields, OneNat
  <2>7. PICK n \in Nat : n = timer[t].refs + One(InBatch(t)')
    BY <2>6, SMTT(60)
  <2>8. timer'[t] = Counting(timer[t], n)
    <3>1. timer'[t] = [timer[t] EXCEPT !.refs = timer[t].refs + Retained(t)]
      BY DEF Wait
    <3> QED BY <2>5, <2>7, <3>1 DEF Counting
  <2>9. Kept(timer[t], timer'[t]) /\ timer'[t].refs = n
    BY <2>6, <2>8, TimerCounting
  <2> QED BY <2>7, <2>9 DEF Kept
<1>6. timer' \in [Timers -> TimerRec]
  <2>1. timer' = [t \in Timers |-> timer'[t]]
    BY DEF Wait
  <2> QED BY <1>5, <2>1
<1>7. TypeOK'
  BY <1>1, <1>2, <1>3, <1>6 DEF IInv, TypeOK
<1>8. MapInv' /\ SocketInv'
  BY <1>1, <1>5, MapFrame, SocketFrame DEF IInv, SameMap, SameFds, SameSources
<1>9. LiveInv'
  BY <1>1, <1>2 DEF IInv, LiveInv
<1>10. RefInv'
  BY <1>1, RefFrame DEF IInv
<1>11. BatchInv'
  <2>1. ASSUME NEW i \in 1..Len(batch')
        PROVE  /\ batch'[i].c <= made /\ ctx'[batch'[i].c].src = batch'[i].src
               /\ Mapped(batch[i].c)' /\ batch'[i].mask # {}
    <3>1. PICK c : c = batch'[i].c
      OBVIOUS
    <3>2. c \in 1..made /\ Mapped(c) /\ batch'[i].src = ctx[c].src /\ batch'[i].mask # {}
      BY <1>3, <3>1
    <3>3. Mapped(batch[i].c)' <=> Mapped(c)
      BY <1>1, <3>1 DEF Mapped
    <3> QED BY <1>1, <3>1, <3>2, <3>3, SMTT(60)
  <2> QED BY <1>1, <1>2, <1>3, <2>1 DEF BatchInv
<1>12. TimerInv'
  <2> SUFFICES ASSUME NEW t \in Timers
               PROVE  timer'[t].refs = One(timer'[t].owned) + One(timer'[t].added) + One(calling' = t) + One(InBatch(t)')
    BY DEF TimerInv
  <2>1. timer[t].refs = One(timer[t].owned) + One(timer[t].added) + One(calling = t) + One(InBatch(t))
    BY DEF IInv, TimerInv
  <2>2. One(InBatch(t)) = 0
    BY <1>2, SMTT(60) DEF InBatch, One
  <2>3. One(timer'[t].owned) = One(timer[t].owned) /\ One(timer'[t].added) = One(timer[t].added) /\ One(calling' = t) = One(calling = t)
    BY <1>1, <1>5
  <2>4. PICK a, b, c, d \in {0, 1} : a = One(timer[t].owned) /\ b = One(timer[t].added) /\ c = One(calling = t) /\ d = One(InBatch(t)')
    BY OneNat
  <2>5. timer[t].refs = a + b + c
    BY <2>1, <2>2, <2>4, SMTT(60)
  <2>6. timer'[t].refs = timer[t].refs + d
    BY <1>5, <2>4
  <2> QED BY <2>3, <2>4, <2>5, <2>6
<1> QED BY <1>7, <1>8, <1>9, <1>10, <1>11, <1>12 DEF IInv

(* A reference of a timer moves between the batch and the callback, or is  *)
(* dropped with it.                                                        *)
LEMMA TimerHandOver ==
  ASSUME IInv,
         \A t \in Timers : /\ Kept(timer[t], timer'[t])
                           /\ timer'[t].refs + One(calling = t) + One(InBatch(t))
                                = timer[t].refs + One(calling' = t) + One(InBatch(t)')
  PROVE  TimerInv'
<1> SUFFICES ASSUME NEW t \in Timers
             PROVE  timer'[t].refs = One(timer'[t].owned) + One(timer'[t].added) + One(calling' = t) + One(InBatch(t)')
  BY DEF TimerInv
<1>1. timer[t].refs = One(timer[t].owned) + One(timer[t].added) + One(calling = t) + One(InBatch(t))
  BY DEF IInv, TimerInv
<1>2. One(timer'[t].owned) = One(timer[t].owned) /\ One(timer'[t].added) = One(timer[t].added) /\ timer'[t].refs \in Nat
  BY TimerFields DEF Kept
<1>3. PICK a, b, c, d, e, g \in {0, 1} :
        /\ a = One(timer[t].owned) /\ b = One(timer[t].added) /\ c = One(calling = t) /\ d = One(InBatch(t))
        /\ e = One(calling' = t) /\ g = One(InBatch(t)')
  BY OneNat
<1>4. PICK m \in Nat : m = timer'[t].refs
  BY <1>2
<1>5. m + c + d = (a + b + c + d) + e + g
  BY <1>1, <1>3, <1>4, SMTT(60)
<1>6. m = a + b + e + g
  BY <1>5, SMTT(60)
<1> QED BY <1>2, <1>3, <1>4, <1>6

(* The events that are left are good: the first one is done, or its        *)
(* readable part is.                                                       *)
LEMMA BatchShift ==
  ASSUME IInv, UNCHANGED <<ctx, made, ctx_map, defer, phase>>, NEW k \in {0, 1}, batch # <<>>,
         batch' \in Seq(EventRec), Len(batch') + k = Len(batch),
         \A i \in 1..Len(batch') : batch'[i].src = batch[i + k].src /\ batch'[i].c = batch[i + k].c,
         \A i \in 1..Len(batch') : batch'[i].mask = batch[i + k].mask \/ batch'[i].mask # {}
  PROVE  BatchInv'
<1>1. Len(batch') \in Nat /\ Len(batch) \in Nat /\ \A i \in 1..Len(batch') : i + k \in 1..Len(batch)
  BY SMTT(60) DEF IInv
<1>2. ASSUME NEW i \in 1..Len(batch'), batch'[i].src \in Sockets
      PROVE  /\ batch'[i].c <= made /\ ctx[batch'[i].c].src = batch'[i].src
             /\ Mapped(batch[i].c)' \/ Deferred(batch[i].c)'
             /\ batch'[i].mask # {}
  <2>1. PICK c, j : c = batch'[i].c /\ j = i + k
    OBVIOUS
  <2>2. j \in 1..Len(batch) /\ batch[j].src \in Sockets /\ c = batch[j].c /\ batch'[i].src = batch[j].src
    BY <1>1, <1>2, <2>1
  <2>3. Mapped(batch[j].c) \/ Deferred(batch[j].c)
    BY <2>2 DEF IInv, BatchInv
  <2>4. Mapped(c) \/ Deferred(c)
    BY <2>2, <2>3
  <2>5. c <= made /\ ctx[c].src = batch[j].src /\ batch[j].mask # {}
    BY <2>2 DEF IInv, BatchInv
  <2>6. (Mapped(batch[i].c)' <=> Mapped(c)) /\ (Deferred(batch[i].c)' <=> Deferred(c))
    BY <2>1 DEF Mapped, Deferred
  <2> QED BY <2>1, <2>2, <2>4, <2>5, <2>6
<1>3. ASSUME NEW i \in 1..Len(batch'), NEW j \in 1..Len(batch'), batch'[i].src \in Timers, batch'[i].src = batch'[j].src
      PROVE  i = j
  <2>1. i + k \in 1..Len(batch) /\ j + k \in 1..Len(batch) /\ batch[i + k].src \in Timers /\ batch[i + k].src = batch[j + k].src
    BY <1>1, <1>3
  <2>2. i + k = j + k
    BY <2>1 DEF IInv, BatchInv
  <2> QED BY <2>2, SMTT(60)
<1> QED BY <1>2, <1>3 DEF IInv, BatchInv

(* The batch without its first event.                                      *)
LEMMA TailGood ==
  ASSUME TypeOK, batch # <<>>
  PROVE  /\ Len(batch) \in Nat /\ Len(batch) >= 1 /\ Head(batch) = batch[1] /\ batch[1] \in EventRec
         /\ Tail(batch) \in Seq(EventRec) /\ Len(Tail(batch)) + 1 = Len(batch)
         /\ \A i \in 1..Len(Tail(batch)) : Tail(batch)[i] = batch[i + 1]
<1>1. batch \in Seq(EventRec)
  BY BatchTyped
<1>2. Len(batch) \in Nat /\ Len(batch) >= 1
  BY SMTT(60)
<1>3. batch[1] \in EventRec
  BY <1>1, <1>2, SMTT(60)
<1> QED BY <1>1, <1>3, SMTT(60)

(* A callback returns; a timer's call gives its reference back.            *)
LEMMA ReturnInv == ASSUME IInv, Return PROVE IInv'
<1>1. UNCHANGED <<sock, ctx, made, ctx_map, kep, defer, batch, phase, running, failed, stopped>>
  BY DEF Return
<1>2. calling' = "none" /\ \A t \in Timers : calling' # t
  BY ConstantsOK DEF Return, Slots
<1>3. timer \in [Timers -> TimerRec]
  BY TimersTyped DEF IInv
<1>4. ASSUME NEW t \in Timers
      PROVE  /\ Kept(timer[t], timer'[t]) /\ timer'[t].refs \in Nat /\ timer[t].refs \in Nat
             /\ timer'[t].refs + One(calling = t) = timer[t].refs
  <2>1. CASE calling = t
    <3>1. PICK q : q = Expired(t, timer[t])
      OBVIOUS
    <3>2. timer[t] \in TimerRec /\ timer[t].refs \in Nat /\ timer[t].refs - 1 \in Nat
      BY <2>1, TimerReferenced
    <3>3. Kept(timer[t], q) /\ q.refs = timer[t].refs
      BY <3>1, <3>2, TimerUpdates
    <3>4. PICK n \in Nat : n = timer[t].refs - 1
      BY <3>2
    <3>5. timer'[t] = [q EXCEPT !.refs = q.refs - 1]
      BY <2>1, <3>1 DEF Return, DropTimer
    <3>6. timer'[t] = Counting(q, n)
      BY <3>3, <3>4, <3>5 DEF Counting
    <3>7. Kept(q, timer'[t]) /\ timer'[t].refs = n
      BY <3>3, <3>6, TimerCounting, SMTT(60) DEF Kept
    <3>8. One(calling = t) = 1
      BY <2>1, OneNat
    <3>9. Kept(timer[t], timer'[t])
      BY <3>3, <3>7 DEF Kept
    <3> QED BY <3>2, <3>4, <3>7, <3>8, <3>9, SMTT(60)
  <2>2. CASE calling # t
    <3>1. timer'[t] = timer[t] /\ One(calling = t) = 0
      BY <2>2, OneNat DEF Return
    <3> QED BY <1>3, <3>1, TimerFields, SMTT(60) DEF Kept
  <2> QED BY <2>1, <2>2
<1>5. timer' \in [Timers -> TimerRec]
  <2>1. timer' = [t \in Timers |-> timer'[t]]
    BY DEF Return
  <2> QED BY <1>4, <2>1 DEF Kept
<1>6. TypeOK'
  BY <1>1, <1>2, <1>5 DEF IInv, TypeOK
<1>7. MapInv' /\ SocketInv' /\ LiveInv'
  BY <1>1, <1>4, MapFrame, SocketFrame, LiveFrame DEF IInv, SameMap, SameFds, SameSources,
     Kept
<1>8. RefInv' /\ BatchInv'
  BY <1>1, RefFrame, BatchFrame DEF IInv, SameSources
<1>9. TimerInv'
  <2>1. ASSUME NEW t \in Timers
        PROVE  timer'[t].refs + One(calling = t) + One(InBatch(t)) = timer[t].refs + One(calling' = t) + One(InBatch(t)')
    <3>1. One(calling' = t) = 0 /\ One(InBatch(t)') = One(InBatch(t)) /\ One(InBatch(t)) \in {0, 1}
      BY <1>1, <1>2, OneNat DEF InBatch
    <3> QED BY <1>4, <3>1, SMTT(60)
  <2> QED BY <1>4, <2>1, TimerHandOver
<1> QED BY <1>6, <1>7, <1>8, <1>9 DEF IInv

(* A timer's event: its reference moves to the running callback.           *)
LEMMA DispatchTimerInv ==
  ASSUME IInv, Dispatch, Head(batch).src \in Timers
  PROVE  IInv'
<1>0. PICK t \in Timers : t = Head(batch).src
  OBVIOUS
<1> DEFINE r == timer[t]
<1>1. /\ UNCHANGED <<sock, ctx, made, ctx_map, kep, defer, phase, running, failed, stopped>>
      /\ calling = "none" /\ batch # <<>> /\ batch' = Tail(batch)
      /\ \/ r.added /\ r.fired /\ calling' = t /\ timer' = [timer EXCEPT ![t] = [r EXCEPT !.fired = FALSE]]
         \/ calling' = "none" /\ timer' = [timer EXCEPT ![t] = DropTimer(Expired(t, r))]
         \/ calling' = "none" /\ timer' = [timer EXCEPT ![t] = DropTimer(r)]
  BY <1>0 DEF Dispatch, DispatchTimer
<1>2. /\ Len(batch) \in Nat /\ Len(batch) >= 1 /\ Head(batch) = batch[1] /\ batch[1] \in EventRec
      /\ batch' \in Seq(EventRec) /\ Len(batch') + 1 = Len(batch)
      /\ \A i \in 1..Len(batch') : batch'[i] = batch[i + 1]
  BY <1>1, TailGood DEF IInv
<1>3. Len(batch') \in Nat /\ \A i \in 1..Len(batch') : i + 1 \in 1..Len(batch)
  BY <1>2, SMTT(60)
<1>4. InBatch(t) /\ ~InBatch(t)'
  <2>1. InBatch(t)
    BY <1>0, <1>2, SMTT(60) DEF InBatch
  <2>2. ASSUME NEW i \in 1..Len(batch'), batch'[i].src = t  PROVE FALSE
    <3>1. i + 1 \in 1..Len(batch) /\ 1 \in 1..Len(batch) /\ batch[i + 1].src = batch[1].src /\ batch[1].src \in Timers
      BY <1>0, <1>2, <1>3, <2>2, SMTT(60)
    <3>2. i + 1 = 1
      BY <3>1 DEF IInv, BatchInv
    <3> QED BY <3>2, SMTT(60)
  <2> QED BY <2>1, <2>2 DEF InBatch
<1>5. ASSUME NEW x \in Timers, x # t  PROVE InBatch(x)' <=> InBatch(x)
  <2>1. \A i \in 1..Len(batch) : i = 1 \/ (i - 1 \in 1..Len(batch') /\ (i - 1) + 1 = i)
    BY <1>2, <1>3, SMTT(60)
  <2> QED BY <1>0, <1>2, <1>3, <1>5, <2>1 DEF InBatch
<1>6. timer \in [Timers -> TimerRec]
  BY TimersTyped DEF IInv
<1>7. PICK n \in Nat : n = r.refs - 1 /\ r \in TimerRec /\ r.refs \in Nat /\ 0 \in Nat
  BY <1>4, <1>6, TimerReferenced
<1>8. PICK q : timer' = [timer EXCEPT ![t] = q] /\ Kept(r, q)
               /\ \/ calling' = t /\ q.refs = r.refs
                  \/ calling' = "none" /\ q.refs = n
  <2>1. CASE calling' = t /\ timer' = [timer EXCEPT ![t] = [r EXCEPT !.fired = FALSE]]
    <3>1. PICK q : q = [r EXCEPT !.fired = FALSE]
      OBVIOUS
    <3>2. Kept(r, q) /\ q.refs = r.refs
      BY <1>7, <3>1, TimerUpdates
    <3> QED BY <2>1, <3>1, <3>2
  <2>2. CASE calling' = "none" /\ timer' = [timer EXCEPT ![t] = DropTimer(Expired(t, r))]
    <3>1. PICK p : p = Expired(t, r)
      OBVIOUS
    <3>2. Kept(r, p) /\ p.refs = r.refs
      BY <1>7, <3>1, TimerUpdates
    <3>3. PICK q : q = DropTimer(p)
      OBVIOUS
    <3>4. q = Counting(p, n)
      BY <1>7, <3>2, <3>3 DEF DropTimer, Counting
    <3>5. Kept(p, q) /\ q.refs = n
      BY <3>2, <3>4, TimerCounting DEF Kept
    <3>6. Kept(r, q)
      BY <3>2, <3>5 DEF Kept
    <3> QED BY <2>2, <3>1, <3>3, <3>5, <3>6
  <2>3. CASE calling' = "none" /\ timer' = [timer EXCEPT ![t] = DropTimer(r)]
    <3>1. PICK q : q = DropTimer(r)
      OBVIOUS
    <3>2. q = Counting(r, n)
      BY <1>7, <3>1 DEF DropTimer, Counting
    <3>3. Kept(r, q) /\ q.refs = n
      BY <1>7, <3>2, TimerCounting
    <3> QED BY <2>3, <3>1, <3>3
  <2> QED BY <1>1, <2>1, <2>2, <2>3
<1>9. timer'[t] = q /\ \A x \in Timers : x # t => timer'[x] = timer[x]
  BY <1>6, <1>8
<1>10. timer' \in [Timers -> TimerRec] /\ \A x \in Timers : Kept(timer[x], timer'[x])
  BY <1>6, <1>8, <1>9 DEF Kept
<1>11. TypeOK'
  <2>1. calling' \in Sockets \cup Timers \cup {"none", "main"}
    BY <1>6, <1>8
  <2> QED BY <1>1, <1>2, <1>10, <2>1 DEF IInv, TypeOK
<1>12. MapInv' /\ SocketInv' /\ LiveInv' /\ RefInv'
  BY <1>1, <1>10, MapFrame, SocketFrame, LiveFrame, RefFrame DEF IInv, SameMap, SameFds,
     SameSources, Kept
<1>13. BatchInv'
  BY <1>1, <1>2, BatchShift
<1>14. TimerInv'
  <2>1. \A x \in Timers : "none" # x
    BY ConstantsOK DEF Slots
  <2>2. ASSUME NEW x \in Timers
        PROVE  timer'[x].refs + One(calling = x) + One(InBatch(x)) = timer[x].refs + One(calling' = x) + One(InBatch(x)')
    <3>0. timer[x].refs \in Nat
      BY <1>6, TimerFields
    <3>1. One(calling = x) = 0
      BY <1>1, <2>1 DEF One
    <3>2. CASE x # t
      <4>1. timer'[x] = timer[x] /\ One(InBatch(x)') = One(InBatch(x)) /\ One(InBatch(x)) \in {0, 1}
        BY <1>5, <1>9, <3>2, OneNat, SMTT(60)
      <4>2. One(calling' = x) = 0
        BY <1>8, <2>1, <3>2 DEF One
      <4> QED BY <3>0, <3>1, <4>1, <4>2
    <3>3. CASE x = t
      <4>1. One(InBatch(x)) = 1 /\ One(InBatch(x)') = 0 /\ timer'[x].refs = q.refs /\ timer[x].refs = r.refs
        <5>1. InBatch(x) /\ ~InBatch(x)'
          BY <1>4, <3>3
        <5>2. One(InBatch(x)) = 1 /\ One(InBatch(x)') = 0
          BY <5>1 DEF One
        <5>3. timer'[x].refs = q.refs /\ timer[x].refs = r.refs
          BY <1>9, <3>3
        <5> QED BY <5>2, <5>3
      <4>2. CASE calling' = t /\ q.refs = r.refs
        <5>1. One(calling' = x) = 1
          BY <3>3, <4>2, OneNat
        <5> QED BY <1>7, <3>1, <4>1, <4>2, <5>1, SMTT(60)
      <4>3. CASE calling' = "none" /\ q.refs = n
        <5>1. One(calling' = x) = 0
          BY <2>1, <4>3, OneNat
        <5> QED BY <1>7, <3>1, <4>1, <4>3, <5>1, SMTT(60)
      <4> QED BY <1>8, <4>2, <4>3
    <3> QED BY <3>2, <3>3
  <2> QED BY <1>10, <2>2, TimerHandOver
<1> QED BY <1>11, <1>12, <1>13, <1>14 DEF IInv

(* An event with fewer bits names the same context.                        *)
LEMMA EventMasked ==
  ASSUME NEW e \in EventRec, NEW m \in SUBSET Bits
  PROVE  /\ [e EXCEPT !.mask = m] \in EventRec /\ [e EXCEPT !.mask = m].src = e.src
         /\ [e EXCEPT !.mask = m].c = e.c /\ [e EXCEPT !.mask = m].mask = m
BY DEF EventRec

(* The batch after the head, an event of a socket, was looked at: the      *)
(* event is gone, or its writable half is left.                            *)
SocketTail(k) ==
  /\ batch' \in Seq(EventRec) /\ Len(batch') + k = Len(batch)
  /\ \A i \in 1..Len(batch') : batch'[i].src = batch[i + k].src /\ batch'[i].c = batch[i + k].c
  /\ \A i \in 1..Len(batch') : batch'[i].mask = batch[i + k].mask \/ batch'[i].mask # {}
  /\ \A i \in 1..Len(batch') : batch'[i].mask \subseteq batch[i + k].mask
  /\ k = 1 => batch[1].src \in Sockets

(* Dispatching a socket's event shortens it or takes it away.              *)
LEMMA SocketBatch ==
  ASSUME IInv, Dispatch, Head(batch).src \notin Timers
  PROVE  (\E k \in {0, 1} : SocketTail(k)) /\ \A t \in Timers : InBatch(t)' <=> InBatch(t)
<1> DEFINE e == Head(batch)
           rest == IF "E" \in e.mask \/ "R" \notin e.mask THEN {} ELSE e.mask \ {"R"}
<1>1. /\ UNCHANGED <<sock, timer, ctx, made, ctx_map, kep, defer, phase, running, failed, stopped>>
      /\ calling = "none" /\ batch # <<>> /\ calling' \in {e.src, "none"}
      /\ \/ batch' = Tail(batch)
         \/ rest # {} /\ batch' = <<[e EXCEPT !.mask = rest]>> \o Tail(batch)
  BY DEF Dispatch, DispatchSocket
<1>2. /\ Len(batch) \in Nat /\ Len(batch) >= 1 /\ e = batch[1] /\ batch[1] \in EventRec
      /\ Tail(batch) \in Seq(EventRec) /\ Len(Tail(batch)) + 1 = Len(batch)
      /\ \A i \in 1..Len(Tail(batch)) : Tail(batch)[i] = batch[i + 1]
  BY <1>1, TailGood DEF IInv
<1>3. e.src \in Sockets /\ e.mask \in SUBSET Bits /\ e \in EventRec
  BY <1>2 DEF EventRec
<1>4. PICK k \in {0, 1} : SocketTail(k)
  <2>1. CASE batch' = Tail(batch)
    <3> HIDE DEF e, rest
    <3>1. SocketTail(1)
      BY <1>2, <1>3, <2>1 DEF SocketTail
    <3> QED BY <3>1
  <2>2. CASE rest # {} /\ batch' = <<[e EXCEPT !.mask = rest]>> \o Tail(batch)
    <3>1. PICK m \in SUBSET Bits : m = rest /\ m \subseteq e.mask
      <4>1. rest \in SUBSET Bits /\ rest \subseteq e.mask
        BY <1>3
      <4> QED BY <4>1
    <3>2. PICK x \in EventRec : x = [e EXCEPT !.mask = m] /\ x.src = e.src /\ x.c = e.c /\ x.mask = m
      BY <1>3, EventMasked
    <3>3. batch' = <<x>> \o Tail(batch) /\ m # {}
      BY <2>2, <3>1, <3>2
    <3>4. /\ batch' \in Seq(EventRec) /\ Len(batch') = Len(batch) /\ batch'[1] = x
          /\ \A i \in 1..Len(batch') : i # 1 => batch'[i] = batch[i]
      <4>1. <<x>> \in Seq(EventRec) /\ Len(<<x>>) = 1 /\ <<x>>[1] = x
        BY SMTT(60)
      <4>2. /\ batch' \in Seq(EventRec) /\ Len(batch') = 1 + Len(Tail(batch))
            /\ \A i \in 1..Len(batch') : batch'[i] = IF i <= 1 THEN <<x>>[i] ELSE Tail(batch)[i - 1]
        BY <1>2, <3>3, <4>1, SMTT(60)
      <4> QED BY <1>2, <4>2, SMTT(60)
    <3>5. ASSUME NEW i \in 1..Len(batch')
          PROVE  /\ batch'[i].src = batch[i + 0].src /\ batch'[i].c = batch[i + 0].c
                 /\ batch'[i].mask = batch[i + 0].mask \/ batch'[i].mask # {}
                 /\ batch'[i].mask \subseteq batch[i + 0].mask
      <4>1. i + 0 = i /\ (i = 1 \/ batch'[i] = batch[i])
        BY <3>4, SMTT(60)
      <4>2. i = 1 => batch'[i] = x /\ batch[i] = e
        BY <1>2, <3>4
      <4>3. x.mask \subseteq e.mask
        BY <3>1, <3>2
      <4> HIDE DEF e, rest
      <4>4. CASE i = 1
        BY <3>2, <3>3, <4>1, <4>2, <4>3, <4>4
      <4>5. CASE i # 1
        BY <4>1, <4>5
      <4> QED BY <4>4, <4>5
    <3>6. Len(batch') + 0 = Len(batch)
      BY <3>4, SMTT(60)
    <3> HIDE DEF e, rest
    <3>7. SocketTail(0)
      BY <3>4, <3>5, <3>6, SMTT(60) DEF SocketTail
    <3> QED BY <3>7
  <2> QED BY <1>1, <2>1, <2>2
<1> HIDE DEF e, rest
<1>5. ASSUME NEW t \in Timers  PROVE InBatch(t)' <=> InBatch(t)
  <2>1. Len(batch') \in Nat /\ \A i \in 1..Len(batch') : i + k \in 1..Len(batch)
    BY <1>2, <1>4, SMTT(60) DEF SocketTail
  <2>2. \A i \in 1..Len(batch) : (i - k \in 1..Len(batch') /\ (i - k) + k = i) \/ (k = 1 /\ i = 1)
    BY <1>2, <1>4, <2>1, SMTT(60) DEF SocketTail
  <2>3. k = 1 => batch[1].src # t
    BY SMTT(60) DEF SocketTail
  <2>4. \A i \in 1..Len(batch') : batch'[i].src = batch[i + k].src
    BY <1>4 DEF SocketTail
  <2>5. InBatch(t)' => InBatch(t)
    BY <2>1, <2>4 DEF InBatch
  <2>6. ASSUME NEW i \in 1..Len(batch), batch[i].src = t  PROVE \E j \in 1..Len(batch') : batch'[j].src = t
    <3>1. i - k \in 1..Len(batch') /\ (i - k) + k = i
      BY <2>2, <2>6, SMTT(60)
    <3> QED BY <2>4, <2>6, <3>1
  <2> QED BY <2>5, <2>6 DEF InBatch
<1> QED BY <1>4, <1>5

(* A socket's event is dispatched to its callback, or dropped.             *)
LEMMA DispatchSocketInv ==
  ASSUME IInv, Dispatch, Head(batch).src \notin Timers
  PROVE  IInv'
<1>1. PICK e \in EventRec : e = Head(batch) /\ e.src \in Sockets
  <2>1. batch # <<>>
    BY DEF Dispatch
  <2>2. Head(batch) \in EventRec
    BY <2>1, TailGood DEF IInv
  <2> QED BY <2>2 DEF EventRec
<1>2. /\ UNCHANGED <<sock, timer, ctx, made, ctx_map, kep, defer, phase, running, failed, stopped>>
      /\ calling = "none" /\ batch # <<>> /\ calling' \in {e.src, "none"}
  BY <1>1 DEF Dispatch, DispatchSocket
<1>3. PICK k \in {0, 1} : SocketTail(k)
  BY SocketBatch
<1>4. \A t \in Timers : InBatch(t)' <=> InBatch(t)
  BY SocketBatch
<1>5. BatchInv'
  BY <1>2, <1>3, BatchShift DEF SocketTail
<1>6. TypeOK'
  <2>1. batch' \in Seq(EventRec) /\ calling' \in Sockets \cup {"none"}
    BY <1>1, <1>2, <1>3 DEF SocketTail
  <2> QED BY <1>2, <2>1 DEF IInv, TypeOK
<1>7. MapInv' /\ SocketInv' /\ LiveInv' /\ RefInv'
  BY <1>2, MapFrame, SocketFrame, LiveFrame, RefFrame DEF IInv, SameMap, SameFds,
     SameSources
<1>8. \A t \in Timers : calling' # t /\ calling # t
  BY <1>1, <1>2, ConstantsOK DEF Slots
<1>9. TimerInv'
  <2>1. ASSUME NEW t \in Timers
        PROVE  timer'[t].refs + One(calling = t) + One(InBatch(t)) = timer[t].refs + One(calling' = t) + One(InBatch(t)')
    <3>1. One(calling = t) = 0 /\ One(calling' = t) = 0 /\ One(InBatch(t)') = One(InBatch(t)) /\ timer'[t].refs = timer[t].refs
      BY <1>2, <1>4, <1>8 DEF One
    <3> QED BY <3>1
  <2>2. \A t \in Timers : Kept(timer[t], timer'[t])
    BY <1>2, TimersTyped DEF IInv, Kept
  <2> QED BY <2>1, <2>2, TimerHandOver
<1> QED BY <1>5, <1>6, <1>7, <1>9 DEF IInv

(* A new count of a context leaves the rest of it.                         *)
LEMMA ContextCounted ==
  ASSUME NEW r \in CtxRec, NEW n \in Nat, NEW q, q = [r EXCEPT !.refs = n]
  PROVE  q \in CtxRec /\ q.src = r.src /\ q.sock = r.sock /\ q.refs = n
BY DEF CtxRec

(* The end of a batch releases what was deferred.                          *)
LEMMA BatchEndInv == ASSUME IInv, BatchEnd PROVE IInv'
<1> DEFINE D == {defer[i] : i \in 1..Len(defer)}
           S == D \cap Sockets
<1>1. /\ UNCHANGED <<timer, made, ctx_map, batch, calling, running, failed, stopped>>
      /\ batch = <<>> /\ phase = "batch" /\ phase' = "wait" /\ defer' = <<>>
      /\ ctx' = [c \in Ctx |-> IF c \in D THEN [ctx[c] EXCEPT !.refs = @ - 1] ELSE ctx[c]]
      /\ sock' = Freed(S, sock) /\ kep' = Forgotten(S, kep)
  BY DEF BatchEnd, Flush, FlushOnly
<1>2. \A x : x \in D <=> Deferred(x)
  BY DEF Deferred
<1>3. \A x : ~Deferred(x)'
  BY <1>1, SMTT(60) DEF Deferred
<1>4. S \in SUBSET Sockets /\ \A s \in S : sock[s].fd # NoFd /\ ctx_map[sock[s].fd] = 0
  BY <1>2 DEF IInv, SocketInv
<1> HIDE DEF S, D
<1>5. ctx \in [Ctx -> CtxRec] /\ 1..made \subseteq Ctx
  BY ContextsTyped, MadeTyped, ConstantsOK, SMTT(60) DEF IInv, Ctx
<1>6. ASSUME NEW c \in Ctx
      PROVE  /\ ctx'[c] \in CtxRec /\ ctx'[c].src = ctx[c].src /\ ctx'[c].sock = ctx[c].sock
             /\ c \in 1..made => ctx'[c].refs = One(Mapped(c))
  <2>1. CASE c \in D
    <3>1. Deferred(c) /\ ~Mapped(c) /\ c <= made /\ c \in 1..made
      BY <1>2, <2>1, SMTT(60) DEF IInv, RefInv, Ctx
    <3>2. ctx[c].refs = 1
      BY <3>1, SMTT(60) DEF IInv, RefInv, One
    <3>3. ctx'[c] = [ctx[c] EXCEPT !.refs = 0]
      <4>1. ctx'[c] = [ctx[c] EXCEPT !.refs = ctx[c].refs - 1]
        BY <1>1, <2>1
      <4>2. ctx[c].refs - 1 = 0
        BY <3>2, SMTT(60)
      <4> QED BY <4>1, <4>2
    <3>4. 0 \in Nat /\ ctx[c] \in CtxRec
      BY <1>5
    <3>5. /\ ctx'[c] \in CtxRec /\ ctx'[c].src = ctx[c].src /\ ctx'[c].sock = ctx[c].sock
          /\ ctx'[c].refs = 0
      BY <3>3, <3>4, ContextCounted, SMTT(60)
    <3> QED BY <3>1, <3>5 DEF One
  <2>2. CASE c \notin D
    <3>1. ctx'[c] = ctx[c] /\ ~Deferred(c)
      BY <1>1, <1>2, <2>2
    <3>2. c \in 1..made => ctx[c].refs = One(Mapped(c)) + 0 /\ One(Mapped(c)) \in {0, 1}
      BY <3>1, OneNat DEF IInv, RefInv, One
    <3> QED BY <1>5, <3>1, <3>2, SMTT(60)
  <2> QED BY <2>1, <2>2
<1>7. ctx' \in [Ctx -> CtxRec] /\ SameSources /\ \A c \in Ctx : ctx'[c].sock = ctx[c].sock
  <2>1. ctx' = [c \in Ctx |-> ctx'[c]]
    BY <1>1
  <2> QED BY <1>6, <2>1 DEF SameSources
<1>8. sock' \in [Sockets -> SocketRec] /\ kep' = kep /\ MapInv' /\ SocketInv' /\ LiveInv'
  BY <1>1, <1>3, <1>4, <1>7, ClosedInv
<1>9. TypeOK'
  <2>1. defer' \in Seq(Ctx \cup Sockets)
    BY <1>1, SMTT(60)
  <2> QED BY <1>1, <1>7, <1>8, <2>1 DEF IInv, TypeOK
<1>10. RefInv'
  <2>1. \A c : Mapped(c)' <=> Mapped(c)
    BY <1>1 DEF Mapped
  <2>2. ASSUME NEW c \in 1..made  PROVE ctx'[c].refs = One(Mapped(c)') + One(Deferred(c)')
    <3>1. PICK n \in {0, 1} : n = One(Mapped(c))
      BY OneNat
    <3>2. One(Mapped(c)') = n /\ One(Deferred(c)') = 0 /\ ctx'[c].refs = n
      BY <1>3, <1>5, <1>6, <2>1, <3>1 DEF One
    <3> QED BY <3>2, SMTT(60)
  <2>3. Len(defer') = 0
    BY <1>1
  <2> QED BY <1>1, <1>3, <2>2, <2>3, SMTT(60) DEF RefInv
<1>11. BatchInv'
  BY <1>1, SMTT(60) DEF BatchInv
<1>12. TimerInv'
  BY <1>1, TimerFrame DEF IInv
<1> QED BY <1>8, <1>9, <1>10, <1>11, <1>12 DEF IInv

(* EventLoop_finalize empties the map.                                     *)
LEMMA FinalizeInv == ASSUME IInv, EventLoop_finalize PROVE IInv'
<1> DEFINE D == {defer[i] : i \in 1..Len(defer)}
           S == D \cap Sockets
<1>1. /\ UNCHANGED <<made, batch, calling, running, failed, stopped>>
      /\ phase = "wait" /\ phase' = "destroyed" /\ defer' = <<>>
      /\ ctx' = [c \in Ctx |-> [ctx[c] EXCEPT
              !.refs = @ - Cardinality({c} \cap D)
                         - Cardinality({f \in Slots : ctx_map[f] = c})]]
      /\ sock' = Freed(S, sock)
      /\ timer' = [t \in Timers |-> IF timer[t].added THEN Unlinked(timer[t]) ELSE timer[t]]
      /\ ctx_map' = [f \in Slots |-> 0] /\ kep' = [f \in Slots |-> 0]
  BY DEF EventLoop_finalize
<1>2. \A x : x \in D <=> Deferred(x)
  BY DEF Deferred
<1>3. \A x : ~Deferred(x)'
  BY <1>1, SMTT(60) DEF Deferred
<1>4. S \in SUBSET Sockets /\ \A s \in S : sock[s].fd # NoFd /\ ctx_map[sock[s].fd] = 0
  BY <1>2 DEF IInv, SocketInv
<1> HIDE DEF S, D
<1>5. /\ ctx \in [Ctx -> CtxRec] /\ 1..made \subseteq Ctx /\ made \in Nat
      /\ sock \in [Sockets -> SocketRec] /\ timer \in [Timers -> TimerRec]
      /\ batch = <<>>
  BY <1>1, SocketsTyped, TimersTyped, ContextsTyped, MadeTyped, ConstantsOK, SMTT(60) DEF
     IInv, Ctx, BatchInv
<1>6. ASSUME NEW c \in Ctx
      PROVE  ctx'[c] \in CtxRec /\ (c \in 1..made => ctx'[c].refs = 0)
  <2>1. Cardinality({c} \cap D) = One(Deferred(c))
    <3>1. Cardinality({c} \cap D) = One(\E x \in {c} \cap D : TRUE)
      BY CountOne
    <3> QED BY <1>2, <3>1 DEF One
  <2>2. Cardinality({f \in Slots : ctx_map[f] = c}) = One(Mapped(c))
    <3>1. \A f, g \in {f \in Slots : ctx_map[f] = c} : f = g
      <4>1. c # 0
        BY SMTT(60) DEF Ctx
      <4> QED BY <4>1 DEF IInv, MapInv, KernelAgrees, OnePlace
    <3>2. Cardinality({f \in Slots : ctx_map[f] = c}) = One(\E x \in {f \in Slots : ctx_map[f] = c} : TRUE)
      BY <3>1, CountOne
    <3> QED BY <3>2 DEF Mapped
  <2>3. PICK d \in {0, 1}, m \in {0, 1}, n \in Nat :
           d = One(Deferred(c)) /\ m = One(Mapped(c)) /\ n = ctx[c].refs /\ ctx[c] \in CtxRec
    BY <1>5, OneNat, ContextFields
  <2>4. (c \in 1..made => n = m + d) /\ (c \notin 1..made => m = 0 /\ d = 0)
    <3>1. c \in 1..made => n = m + d
      BY <2>3 DEF IInv, RefInv
    <3>2. Mapped(c) => c \in 1..made
      BY ConstantsOK, <1>5, SMTT(60) DEF IInv, MapInv, PlacesMade, Mapped, Ctx
    <3>3. Deferred(c) => c \in 1..made
      BY SMTT(60) DEF IInv, RefInv, Ctx
    <3> QED BY <2>3, <3>1, <3>2, <3>3 DEF One
  <2>5. PICK k \in Nat : k = n - d - m /\ (c \in 1..made => k = 0)
    BY <2>4, SMTT(60)
  <2>6. ctx'[c] = [ctx[c] EXCEPT !.refs = k]
    <3>1. ctx'[c] = [ctx[c] EXCEPT !.refs = @ - Cardinality({c} \cap D) - Cardinality({f \in Slots : ctx_map[f] = c})]
      BY <1>1
    <3>2. ctx[c].refs - Cardinality({c} \cap D) - Cardinality({f \in Slots : ctx_map[f] = c}) = k
      BY <2>1, <2>2, <2>3, <2>5
    <3> QED BY <3>1, <3>2
  <2> QED BY <2>3, <2>5, <2>6, ContextCounted, SMTT(60)
<1>7. ctx' \in [Ctx -> CtxRec]
  <2>1. ctx' = [c \in Ctx |-> ctx'[c]]
    BY <1>1
  <2> QED BY <1>6, <2>1
<1>8. /\ sock' \in [Sockets -> SocketRec]
      /\ \A s \in S : sock'[s].fd = NoFd /\ sock'[s].freed
      /\ \A s \in Sockets \ S : sock'[s] = sock[s]
  BY <1>1, <1>4, FreedSockets
<1>9. ASSUME NEW t \in Timers
      PROVE  /\ timer'[t] \in TimerRec /\ ~timer'[t].added
             /\ timer'[t].refs = One(timer'[t].owned) + One(timer'[t].added) + One(calling' = t) + One(InBatch(t)')
  <2>1. PICK o \in {0, 1}, k \in {0, 1}, n \in Nat :
           /\ o = One(timer[t].owned) /\ k = One(calling = t) /\ n = timer[t].refs
           /\ n = o + One(timer[t].added) + k + 0
    <3>1. One(InBatch(t)) = 0
      BY <1>5, SMTT(60) DEF InBatch, One
    <3>2. timer[t].refs \in Nat /\ timer[t].refs = One(timer[t].owned) + One(timer[t].added) + One(calling = t) + One(InBatch(t))
      BY <1>5, TimerFields DEF IInv, TimerInv
    <3> QED BY <3>1, <3>2, OneNat, SMTT(60)
  <2>2. One(InBatch(t)') = 0 /\ One(calling' = t) = k
    BY <1>1, <1>5, <2>1, SMTT(60) DEF InBatch, One
  <2>3. CASE timer[t].added
    <3>1. PICK q : q = Unlinked(timer[t])
      OBVIOUS
    <3>2. timer'[t] = q /\ q \in TimerRec /\ ~q.added /\ q.owned = timer[t].owned /\ q.refs = n - 1
      BY <1>1, <2>1, <2>3, <3>1, UnlinkedTimer
    <3>3. One(timer[t].added) = 1 /\ One(q.added) = 0 /\ One(q.owned) = o
      BY <2>1, <2>3, <3>2 DEF One
    <3> QED BY <2>1, <2>2, <3>2, <3>3, SMTT(60)
  <2>4. CASE ~timer[t].added
    <3>1. timer'[t] = timer[t] /\ One(timer[t].added) = 0
      BY <1>1, <2>4 DEF One
    <3> QED BY <1>5, <2>1, <2>2, <2>4, <3>1
  <2> QED BY <2>3, <2>4
<1>10. timer' \in [Timers -> TimerRec]
  <2>1. timer' = [t \in Timers |-> timer'[t]]
    BY <1>1
  <2> QED BY <1>9, <2>1
<1>11. TypeOK'
  <2>1. defer' \in Seq(Ctx \cup Sockets)
    BY <1>1, SMTT(60)
  <2>2. ctx_map' \in [Slots -> 0..MaxCtx] /\ kep' \in [Slots -> 0..MaxCtx]
    BY <1>1, ConstantsOK, SMTT(60)
  <2> QED BY <1>1, <1>7, <1>8, <1>10, <2>1, <2>2 DEF IInv, TypeOK
<1>12. MapInv'
  <2>1. \A f \in Slots : ctx_map'[f] = 0
    BY <1>1
  <2> QED BY <1>1, <1>5, <1>9, <2>1, SMTT(60) DEF MapInv, KernelAgrees, PlacesMade,
             OnePlace, SocketPlaces, TimerPlaces, AddedPlaces, Slots
<1>13. SocketInv'
  <2>1. \A s \in Sockets : sock'[s].fd # NoFd => s \notin S /\ sock'[s] = sock[s]
    BY <1>8
  <2>2. \A s \in Sockets : sock'[s].freed => sock'[s].fd = NoFd
    BY <1>8 DEF IInv, SocketInv
  <2>3. ASSUME NEW s \in Sockets, NEW r \in Sockets, sock'[s].fd # NoFd, sock'[s].fd = sock'[r].fd
        PROVE  s = r
    <3>1. sock'[s] = sock[s] /\ sock'[r] = sock[r]
      BY <2>1, <2>3
    <3> QED BY <2>3, <3>1 DEF IInv, SocketInv
  <2> QED BY <1>3, <2>2, <2>3 DEF SocketInv
<1>14. LiveInv' /\ BatchInv' /\ TimerInv'
  BY <1>1, <1>5, <1>9, SMTT(60) DEF LiveInv, BatchInv, TimerInv
<1>15. RefInv'
  <2>1. \A c \in Ctx : ~Mapped(c)'
    BY <1>1, ConstantsOK, SMTT(60) DEF Mapped, Ctx
  <2>2. ASSUME NEW c \in 1..made  PROVE ctx'[c].refs = One(Mapped(c)') + One(Deferred(c)')
    BY <1>3, <1>5, <1>6, <2>1, SMTT(60) DEF One
  <2>3. Len(defer') = 0
    BY <1>1
  <2>4. made' = made
    BY <1>1
  <2> QED BY <1>3, <2>2, <2>3, <2>4, SMTT(60) DEF RefInv
<1> QED BY <1>11, <1>12, <1>13, <1>14, <1>15 DEF IInv

(* One case for each action of the loop.                                   *)
LEMMA StepInv == IInv /\ [Next]_vars => IInv'
<1> SUFFICES ASSUME IInv, [Next]_vars PROVE IInv'
  OBVIOUS
<1>1. ASSUME NEW s \in Sockets, NEW f \in Fds, OpenSocket(s, f)  PROVE IInv'
  BY <1>1, OpenInv
<1>2. ASSUME NEW s \in Sockets, NEW m \in Masks, event_backend_add(s, m)  PROVE IInv'
  BY <1>2, AddInv
<1>3. ASSUME NEW s \in Sockets, NEW m \in Masks, event_backend_modify(s, m)  PROVE IInv'
  BY <1>3, ModifyInv, QuietInv
<1>4. ASSUME NEW s \in Sockets, event_backend_remove(s)  PROVE IInv'
  BY <1>4, RemoveInv
<1>5. ASSUME NEW s \in Sockets, ReleaseSocket(s)  PROVE IInv'
  BY <1>5, ReleaseSocketInv
<1>6. ASSUME NEW s \in Sockets, DeferSocket(s)  PROVE IInv'
  BY <1>6, DeferSocketInv
<1>7. ASSUME NEW s \in Sockets, Consume(s)  PROVE IInv'
  <2>1. {} \in SUBSET Bits
    OBVIOUS
  <2> QED BY <1>7, <2>1, ReadyInv, QuietInv DEF Consume, loopVars
<1>8. ASSUME NEW t \in Timers, _addTimer(t)  PROVE IInv'
  BY <1>8, AddTimerInv
<1>9. ASSUME NEW t \in Timers, _removeTimer(t)  PROVE IInv'
  BY <1>9, RemoveTimerInv
<1>10. ASSUME NEW t \in Timers, Timer_start(t) \/ Timer_stop(t) \/ Expire(t)  PROVE IInv'
  BY <1>10, TimerCallsQuiet, QuietInv
<1>11. ASSUME NEW t \in Timers, ReleaseTimer(t)  PROVE IInv'
  BY <1>11, ReleaseTimerInv
<1>12. CASE Dispatch
  BY <1>12, DispatchTimerInv, DispatchSocketInv
<1>13. ASSUME NEW s \in Sockets, NEW b \in Readiness, BecomeReady(s, b)  PROVE IInv'
  <2>1. b \in SUBSET Bits
    BY ConstantsOK
  <2> QED BY <1>13, <2>1, ReadyInv, QuietInv DEF BecomeReady, loopVars
<1>14. CASE SocketCall
  BY <1>14, <1>1, <1>2, <1>3, <1>4, <1>5, <1>6, <1>7 DEF SocketCall
<1>15. CASE TimerCall
  BY <1>15, <1>8, <1>9, <1>10, <1>11 DEF TimerCall
<1>16. CASE LoopStep
  BY <1>16, <1>12, WaitInv, ReturnInv, BatchEndInv DEF LoopStep
<1>17. CASE Kernel
  BY <1>17, <1>10, <1>13 DEF Kernel
<1>18. CASE EventLoop_finalize
  BY <1>18, FinalizeInv
<1>19. CASE RunReturns \/ Run \/ Stop \/ Done \/ UNCHANGED vars
  BY <1>19, RunQuiet, QuietInv
<1> QED BY <1>14, <1>15, <1>16, <1>17, <1>18, <1>19 DEF Next

(* The inductive invariant holds in every reachable state.                 *)
LEMMA Invariant == Spec => []IInv
<1>1. Init => IInv
  BY InitInv
<1>2. IInv /\ [Next]_vars => IInv'
  BY StepInv
<1> QED BY <1>1, <1>2, PTL DEF Spec

-----------------------------------------------------------------------------
(* What the invariant gives.                                               *)

(* The invariant is strong enough for the contexts.                        *)
LEMMA KeptContexts == IInv => ContextsKept
<1> SUFFICES ASSUME IInv PROVE BatchAlive /\ NoContextLost
  BY DEF IInv, ContextsKept
<1>1. ASSUME NEW i \in 1..Len(batch)
      PROVE  IF batch[i].src \in Timers THEN timer[batch[i].src].refs > 0
             ELSE ctx[batch[i].c].refs > 0 /\ (ctx[batch[i].c].sock => ~sock[batch[i].src].freed)
  <2>1. PICK e \in EventRec : e = batch[i]
    BY BatchTyped, SMTT(60) DEF IInv
  <2>2. CASE e.src \in Timers
    <3>1. PICK t \in Timers : t = e.src
      BY <2>2
    <3>2. InBatch(t)
      BY <2>1, <3>1 DEF InBatch
    <3>3. timer[t].refs - 1 \in Nat /\ timer[t].refs \in Nat
      BY <3>2, TimerReferenced
    <3>4. timer[t].refs > 0
      BY <3>3, SMTT(60)
    <3> QED BY <2>1, <3>1, <3>4
  <2>3. CASE e.src \notin Timers
    <3>1. e.src \in Sockets /\ e.c \in Ctx
      BY <2>3 DEF EventRec
    <3>2. e.c <= made /\ ctx[e.c].src = e.src /\ (Mapped(e.c) \/ Deferred(e.c))
      BY <2>1, <3>1 DEF IInv, BatchInv
    <3>3. e.c \in 1..made /\ 1..made \subseteq Ctx
      BY <3>1, <3>2, ContextsTyped, MadeTyped, ConstantsOK, SMTT(60) DEF IInv, Ctx
    <3>4. ctx[e.c].refs > 0
      <4>1. PICK m \in {0, 1}, d \in {0, 1} : m = One(Mapped(e.c)) /\ d = One(Deferred(e.c)) /\ (m = 1 \/ d = 1)
        BY <3>2, OneNat
      <4>2. ctx[e.c].refs = m + d
        BY <3>3, <4>1 DEF IInv, RefInv
      <4> QED BY <4>1, <4>2, SMTT(60)
    <3>5. ctx[e.c].sock => sock[e.src].fd # NoFd
      <4>1. phase # "destroyed"
        BY SMTT(60) DEF IInv, BatchInv
      <4> QED BY <3>2, <3>3, <4>1 DEF IInv, LiveInv
    <3>6. ctx[e.c].sock => ~sock[e.src].freed
      BY <3>1, <3>5 DEF IInv, SocketInv
    <3> QED BY <2>1, <2>3, <3>4, <3>6
  <2> QED BY <2>2, <2>3
<1>2. ASSUME NEW c \in 1..made
      PROVE  ctx[c].refs = Cardinality({f \in Slots : ctx_map[f] = c})
                           + Cardinality({i \in 1..Len(defer) : defer[i] = c})
  <2>1. c # 0 /\ c \in Ctx
    BY ContextsTyped, MadeTyped, ConstantsOK, SMTT(60) DEF IInv, Ctx
  <2>2. Cardinality({f \in Slots : ctx_map[f] = c}) = One(Mapped(c))
    <3> DEFINE M == {f \in Slots : ctx_map[f] = c}
    <3>1. \A f, g \in M : f = g
      BY <2>1 DEF IInv, MapInv, OnePlace
    <3>2. Cardinality(M) = One(\E x \in M : TRUE)
      BY <3>1, CountOne
    <3> QED BY <3>2 DEF Mapped
  <2>3. Cardinality({i \in 1..Len(defer) : defer[i] = c}) = One(Deferred(c))
    <3> DEFINE M == {i \in 1..Len(defer) : defer[i] = c}
    <3>1. \A f, g \in M : f = g
      BY <2>1 DEF IInv, RefInv
    <3>2. Cardinality(M) = One(\E x \in M : TRUE)
      BY <3>1, CountOne
    <3> QED BY <3>2 DEF Deferred
  <2> QED BY <2>2, <2>3 DEF IInv, RefInv
<1> QED BY <1>1, <1>2 DEF BatchAlive, NoContextLost

(* The invariant is strong enough for the timers' references.              *)
LEMMA OwnedTimers == IInv => TimerOwnership
<1> SUFFICES ASSUME IInv, NEW t \in Timers
             PROVE  timer[t].refs = One(timer[t].owned) + One(timer[t].added) + One(calling = t)
                      + IF phase = "batch"
                        THEN Cardinality({i \in 1..Len(batch) : batch[i].src = t})
                        ELSE 0
  BY DEF TimerOwnership
<1>1. timer[t].refs = One(timer[t].owned) + One(timer[t].added) + One(calling = t) + One(InBatch(t))
  BY DEF IInv, TimerInv
<1>2. CASE phase = "batch"
  <2> DEFINE M == {i \in 1..Len(batch) : batch[i].src = t}
  <2>1. \A i, j \in M : i = j
    BY DEF IInv, BatchInv
  <2>2. Cardinality(M) = One(\E x \in M : TRUE)
    BY <2>1, CountOne
  <2>3. Cardinality(M) = One(InBatch(t))
    BY <2>2 DEF One, InBatch
  <2> QED BY <1>1, <1>2, <2>3
<1>3. CASE phase # "batch"
  <2>1. batch = <<>>
    BY <1>3 DEF IInv, BatchInv
  <2>2. One(InBatch(t)) = 0
    BY <2>1, SMTT(60) DEF InBatch, One
  <2> QED BY <1>1, <1>3, <2>2
<1> QED BY <1>2, <1>3

(* libcore releases a context that event_backend_remove took out only when *)
(* the batch is over (deferRelease), so no event of the batch points to a  *)
(* freed context, timer or socket; and a context that is neither in        *)
(* ctx_map nor in the defer queue has no reference left.                   *)
THEOREM ContextsLiveLongEnough == Spec => []ContextsKept
BY Invariant, KeptContexts, PTL

=============================================================================
