----------------------------- MODULE EpollProofs -----------------------------
(*****************************************************************************)
(* The event loop on epoll: timers run while the loop owns them, and the loop *)
(* implements Reactor, the abstract event loop.                              *)
(*****************************************************************************)
EXTENDS EpollSafety

USE ZenonT(60)

-----------------------------------------------------------------------------
(* Armed timers.                                                           *)

(* Without a restart of a one-shot timer whose event is pending, a timer   *)
(* that runs is active, and a one-shot timer with an expiry to be handled  *)
(* does not run.                                                           *)
ArmInv ==
  \A t \in Timers :
    /\ timer[t].armed => timer[t].active /\ timer[t].added
    /\ t \notin Repeating /\ (timer[t].fired \/ Pending(t)) => ~timer[t].armed

(* What a step keeps of a timer's clock.                                   *)
SameClock(r, q) == q.armed = r.armed /\ q.active = r.active /\ q.fired = r.fired

(* Counts, owner and registration leave the clock of a timer alone.        *)
LEMMA ClockKept ==
  ASSUME NEW r \in TimerRec, NEW n
  PROVE  /\ SameClock(r, Counting(r, n)) /\ Counting(r, n).added = r.added
         /\ SameClock(r, Disowned(r, n)) /\ Disowned(r, n).added = r.added
         /\ SameClock(r, Added(r, n)) /\ Added(r, n).added
         /\ SameClock(r, Dropped(r, n))
<1>1. SameClock(r, Counting(r, n)) /\ Counting(r, n).added = r.added
  BY DEF TimerRec, Counting, SameClock
<1>2. SameClock(r, Disowned(r, n)) /\ Disowned(r, n).added = r.added
  BY DEF TimerRec, Disowned, SameClock
<1>3. SameClock(r, Added(r, n)) /\ Added(r, n).added
  BY DEF TimerRec, Added, SameClock
<1>4. SameClock(r, Dropped(r, n))
  BY DEF TimerRec, Dropped, SameClock
<1> QED BY <1>1, <1>2, <1>3, <1>4

Started(r) == [r EXCEPT !.active = TRUE, !.armed = TRUE, !.fired = FALSE]
Rung(r, b) == [r EXCEPT !.fired = TRUE, !.armed = b]
Read(r) == [r EXCEPT !.fired = FALSE]
Elapsed(r) == [r EXCEPT !.active = FALSE]

(* What starting, expiry, reading and the callback do to a clock.          *)
LEMMA ClockMoves ==
  ASSUME NEW r \in TimerRec, NEW b \in BOOLEAN
  PROVE  /\ ~Started(r).fired /\ Started(r).active /\ Started(r).added = r.added
         /\ Rung(r, b).armed = b /\ Rung(r, b).active = r.active /\ Rung(r, b).added = r.added
         /\ ~Read(r).fired /\ Read(r).armed = r.armed /\ Read(r).active = r.active /\ Read(r).added = r.added
         /\ Elapsed(r).fired = r.fired /\ Elapsed(r).armed = r.armed /\ Elapsed(r).added = r.added
         /\ ~Disarmed(r).armed /\ Disarmed(r) \in TimerRec
<1>1. ~Started(r).fired /\ Started(r).active /\ Started(r).added = r.added
  BY DEF TimerRec, Started
<1>2. Rung(r, b).armed = b /\ Rung(r, b).active = r.active /\ Rung(r, b).added = r.added
  BY DEF TimerRec, Rung
<1>3. ~Read(r).fired /\ Read(r).armed = r.armed /\ Read(r).active = r.active /\ Read(r).added = r.added
  BY DEF TimerRec, Read
<1>4. Elapsed(r).fired = r.fired /\ Elapsed(r).armed = r.armed /\ Elapsed(r).added = r.added
  BY DEF TimerRec, Elapsed
<1>5. ~Disarmed(r).armed
  BY DEF TimerRec, Disarmed
<1>6. Disarmed(r) \in TimerRec
  BY DEF TimerRec, Disarmed
<1> QED BY <1>1, <1>2, <1>3, <1>4, <1>5, <1>6

ArmOne(t) ==
  /\ timer[t].armed => timer[t].active /\ timer[t].added
  /\ t \notin Repeating /\ (timer[t].fired \/ Pending(t)) => ~timer[t].armed

(* A timer that keeps its clock, and is not put into a batch.              *)
LEMMA ArmKept ==
  ASSUME NEW t \in Timers, ArmOne(t), SameClock(timer[t], timer'[t]),
         timer[t].added => timer'[t].added, Pending(t)' => Pending(t)
  PROVE  ArmOne(t)'
BY DEF ArmOne, SameClock

(* Timer_stop leaves a timer that is not armed.                            *)
LEMMA StopDisarms ==
  ASSUME IInv, NEW t \in Timers, ArmOne(t)
  PROVE  StopTimer(timer[t]) \in TimerRec /\ ~StopTimer(timer[t]).armed
<1>1. timer[t] \in TimerRec
  BY TimersTyped DEF IInv
<1>2. CASE timer[t].active
  BY <1>1, <1>2, ClockMoves DEF StopTimer
<1>3. CASE ~timer[t].active
  BY <1>1, <1>3 DEF StopTimer, ArmOne
<1> QED BY <1>2, <1>3

(* A timer taken off active_timers is disarmed.                            *)
LEMMA UnlinkDisarms ==
  ASSUME IInv, NEW t \in Timers, ArmOne(t), timer[t].added
  PROVE  ~Unlinked(timer[t]).armed
<1>1. PICK q \in TimerRec : q = StopTimer(timer[t]) /\ ~q.armed
  BY StopDisarms
<1>2. PICK n : n = q.refs - 1
  OBVIOUS
<1>3. Unlinked(timer[t]) = Dropped(q, n)
  BY <1>1, <1>2 DEF Unlinked, Dropped
<1> QED BY <1>1, <1>3, ClockKept, SMTT(60) DEF SameClock

(* A disarmed timer satisfies its part of ArmInv.                          *)
LEMMA UnarmedOne ==
  ASSUME NEW t \in Timers, ~timer'[t].armed
  PROVE  ArmOne(t)'
BY DEF ArmOne

(* The calls on a timer keep ArmInv.                                       *)
LEMMA TimerCallsArm ==
  ASSUME IInv, ~RestartPending, ArmInv, NEW t \in Timers,
         _addTimer(t) \/ _removeTimer(t) \/ Timer_start(t) \/ Timer_stop(t) \/ ReleaseTimer(t) \/ Expire(t)
  PROVE  ArmInv'
<1>1. \A x \in Timers : ArmOne(x)
  BY DEF ArmInv, ArmOne
<1>2. timer \in [Timers -> TimerRec] /\ timer[t] \in TimerRec
  BY TimersTyped DEF IInv
<1>3. UNCHANGED <<batch, calling>>
  BY DEF _addTimer, _removeTimer, Timer_start, Timer_stop, ReleaseTimer, Expire, loopVars
<1>4. \A x : Pending(x)' = Pending(x)
  BY <1>3 DEF Pending
<1>5. ASSUME NEW q, timer' = [timer EXCEPT ![t] = q], ArmOne(t)'  PROVE ArmInv'
  <2>1. ASSUME NEW x \in Timers, x # t  PROVE ArmOne(x)'
    <3>1. timer'[x] = timer[x]
      BY <1>2, <1>5, <2>1
    <3>2. SameClock(timer[x], timer'[x]) /\ (timer[x].added => timer'[x].added) /\ ArmOne(x) /\ (Pending(x)' => Pending(x))
      BY <1>1, <1>4, <3>1 DEF SameClock
    <3> QED BY <3>2, ArmKept
  <2>2. \A x \in Timers : ArmOne(x)'
    BY <1>5, <2>1
  <2> QED BY <2>2 DEF ArmInv, ArmOne
<1>6. ASSUME NEW q, timer' = [timer EXCEPT ![t] = q]  PROVE timer'[t] = q
  BY <1>2, <1>6
<1>7. CASE _addTimer(t)
  <2>1. PICK q : q = Added(timer[t], timer[t].refs + 1)
    OBVIOUS
  <2>2. timer' = [timer EXCEPT ![t] = q]
    BY <1>2, <1>7, <2>1 DEF _addTimer, Added
  <2>3. SameClock(timer[t], q) /\ q.added
    BY <1>2, <2>1, ClockKept
  <2>4. ArmOne(t)'
    BY <1>1, <1>4, <1>6, <2>2, <2>3, ArmKept
  <2> QED BY <1>5, <2>2, <2>4
<1>8. CASE _removeTimer(t)
  <2>1. PICK q \in {Unlinked(timer[t]), StopTimer(timer[t])} : timer' = [timer EXCEPT ![t] = q]
    BY <1>8 DEF _removeTimer
  <2>2. timer[t].added
    BY <1>8 DEF _removeTimer
  <2>3. ~q.armed
    BY <1>1, <2>1, <2>2, UnlinkDisarms, StopDisarms
  <2> QED BY <1>5, <1>6, <2>1, <2>3, UnarmedOne
<1>9. CASE Timer_start(t)
  <2>1. PICK q : q = Started(timer[t])
    OBVIOUS
  <2>2. timer' = [timer EXCEPT ![t] = q] /\ timer[t].added /\ (t \in Repeating \/ ~Pending(t))
    BY <1>9, <2>1 DEF Timer_start, Started
  <2>3. ~q.fired /\ q.active /\ q.added
    BY <1>2, <2>1, <2>2, ClockMoves
  <2>4. ArmOne(t)'
    BY <1>4, <1>6, <2>2, <2>3 DEF ArmOne
  <2> QED BY <1>5, <2>2, <2>4
<1>10. CASE Timer_stop(t)
  <2>1. PICK q : q = StopTimer(timer[t])
    OBVIOUS
  <2>2. timer' = [timer EXCEPT ![t] = q]
    BY <1>10, <2>1 DEF Timer_stop
  <2>3. ~q.armed
    BY <1>1, <2>1, StopDisarms
  <2> QED BY <1>5, <1>6, <2>2, <2>3, UnarmedOne
<1>11. CASE ReleaseTimer(t)
  <2>1. PICK q : q = Disowned(timer[t], timer[t].refs - 1)
    OBVIOUS
  <2>2. timer' = [timer EXCEPT ![t] = q]
    BY <1>2, <1>11, <2>1 DEF ReleaseTimer, Disowned
  <2>3. SameClock(timer[t], q) /\ q.added = timer[t].added
    BY <1>2, <2>1, ClockKept
  <2>4. ArmOne(t)'
    BY <1>1, <1>4, <1>6, <2>2, <2>3, ArmKept
  <2> QED BY <1>5, <2>2, <2>4
<1>12. CASE Expire(t)
  <2>1. PICK b \in BOOLEAN : b <=> t \in Repeating
    <3>1. CASE t \in Repeating
      BY <3>1
    <3>2. CASE t \notin Repeating
      BY <3>2
    <3> QED BY <3>1, <3>2
  <2>2. PICK q : q = Rung(timer[t], b)
    OBVIOUS
  <2>3. timer' = [timer EXCEPT ![t] = [timer[t] EXCEPT !.fired = TRUE, !.armed = (t \in Repeating)]] /\ timer[t].armed
    BY <1>12 DEF Expire
  <2>4. timer' = [timer EXCEPT ![t] = q]
    <3>1. b = (t \in Repeating)
      BY <2>1
    <3> QED BY <2>2, <2>3, <3>1 DEF Rung
  <2>5. q.armed = b /\ q.active = timer[t].active /\ q.added = timer[t].added
    BY <1>2, <2>2, ClockMoves, SMTT(60)
  <2>6. timer[t].active /\ timer[t].added
    BY <1>1, <2>3 DEF ArmOne
  <2>7. ArmOne(t)'
    BY <1>6, <2>1, <2>4, <2>5, <2>6 DEF ArmOne
  <2> QED BY <1>5, <2>4, <2>7
<1> QED BY <1>7, <1>8, <1>9, <1>10, <1>11, <1>12

(* epoll_wait keeps ArmInv.                                                *)
LEMMA WaitArm == ASSUME IInv, ArmInv, Wait PROVE ArmInv'
<1>1. \A x \in Timers : ArmOne(x)
  BY DEF ArmInv, ArmOne
<1>2. /\ Collect /\ calling = "none" /\ calling' = "none" /\ phase = "wait"
      /\ timer' = [t \in Timers |-> [timer[t] EXCEPT !.refs = @ + Retained(t)]]
  BY DEF Wait
<1>3. PICK n \in 0..MaxEvents, order \in [1..MaxEvents -> Ready \cup {"none"}] :
        /\ \A i \in 1..MaxEvents : (order[i] = "none") <=> (i > n)
        /\ batch' = [i \in 1..n |-> EventOf(order[i])]
  BY <1>2 DEF Collect
<1>4. n \in Nat /\ 1..n \subseteq 1..MaxEvents /\ Len(batch') = n
  BY <1>3, ConstantsOK, SMTT(60)
<1>5. ASSUME NEW t \in Timers, Pending(t)'  PROVE timer[t].fired
  <2>1. PICK i \in 1..n : batch'[i].src = t
    BY <1>2, <1>4, <1>5, ConstantsOK DEF Pending, Slots
  <2>2. PICK f \in Slots : f = order[i] /\ Report(f) # {}
    <3>1. order[i] # "none"
      BY <1>3, <1>4, SMTT(60)
    <3> QED BY <1>3, <1>4, <3>1 DEF Ready
  <2>3. EventOf(f).src = t
    BY <1>3, <2>1, <2>2
  <2>4. f = t
    BY <2>2, <2>3, EventGood, ConstantsOK DEF Slots
  <2> QED BY <2>2, <2>4 DEF Report
<1>6. ASSUME NEW t \in Timers  PROVE ArmOne(t)'
  <2>1. timer[t] \in TimerRec
    BY TimersTyped DEF IInv
  <2>2. PICK m : m = timer[t].refs + Retained(t)
    OBVIOUS
  <2>3. timer'[t] = Counting(timer[t], m)
    BY <1>2, <2>2 DEF Counting
  <2>4. SameClock(timer[t], timer'[t]) /\ timer'[t].added = timer[t].added
    BY <2>1, <2>3, ClockKept, SMTT(60)
  <2>5. ArmOne(t) /\ (Pending(t)' => timer[t].fired)
    BY <1>1, <1>5
  <2> QED BY <2>4, <2>5 DEF ArmOne, SameClock
<1> QED BY <1>6 DEF ArmInv, ArmOne

(* An expiry handled: a one-shot timer is inactive from then on.           *)
LEMMA ExpiredArm ==
  ASSUME IInv, NEW t \in Timers, ArmOne(t), Pending(t), Pending(t)' => Pending(t),
         timer'[t] = DropTimer(Expired(t, timer[t]))
  PROVE  ArmOne(t)'
<1>1. timer[t] \in TimerRec /\ 0 \in Nat
  BY TimersTyped DEF IInv
<1>2. PICK p : p = Expired(t, timer[t]) /\ p \in TimerRec
  BY <1>1, TimerUpdates DEF Kept
<1>3. PICK n : n = p.refs - 1
  OBVIOUS
<1>4. timer'[t] = Counting(p, n)
  BY <1>2, <1>3 DEF DropTimer, Counting
<1>5. SameClock(p, timer'[t]) /\ timer'[t].added = p.added
  BY <1>2, <1>4, ClockKept, SMTT(60)
<1>6. CASE t \in Repeating
  <2>1. p = timer[t]
    BY <1>2, <1>6 DEF Expired
  <2> QED BY <1>5, <2>1, ArmKept
<1>7. CASE t \notin Repeating
  <2>1. p = Elapsed(timer[t])
    BY <1>2, <1>7 DEF Expired, Elapsed
  <2>2. ~timer[t].armed
    BY <1>7 DEF ArmOne
  <2>3. ~timer'[t].armed
    BY <1>1, <1>5, <2>1, <2>2, ClockMoves DEF SameClock
  <2> QED BY <2>3, UnarmedOne
<1> QED BY <1>6, <1>7

(* The return of a callback keeps ArmInv.                                  *)
LEMMA ReturnArm == ASSUME IInv, ArmInv, Return PROVE ArmInv'
<1>1. \A x \in Timers : ArmOne(x)
  BY DEF ArmInv, ArmOne
<1>2. /\ calling' = "none" /\ batch' = batch
      /\ timer' = [t \in Timers |-> IF t = calling THEN DropTimer(Expired(t, timer[t])) ELSE timer[t]]
  BY DEF Return
<1>3. \A t \in Timers : "none" # t
  BY ConstantsOK DEF Slots
<1>4. \A t \in Timers : Pending(t)' => Pending(t)
  BY <1>2, <1>3 DEF Pending
<1>5. ASSUME NEW t \in Timers  PROVE ArmOne(t)'
  <2>1. CASE t = calling
    <3>1. timer'[t] = DropTimer(Expired(t, timer[t])) /\ Pending(t)
      BY <1>2, <2>1 DEF Pending
    <3> QED BY <1>1, <1>4, <3>1, ExpiredArm
  <2>2. CASE t # calling
    <3>1. timer'[t] = timer[t]
      BY <1>2, <2>2
    <3>2. SameClock(timer[t], timer'[t]) /\ (timer[t].added => timer'[t].added)
      BY <3>1 DEF SameClock
    <3> QED BY <1>1, <1>4, <3>2, ArmKept
  <2> QED BY <2>1, <2>2
<1> QED BY <1>5 DEF ArmInv, ArmOne

(* Dispatching an event keeps ArmInv.                                      *)
LEMMA DispatchArm == ASSUME IInv, ArmInv, Dispatch PROVE ArmInv'
<1>1. \A x \in Timers : ArmOne(x)
  BY DEF ArmInv, ArmOne
<1>2. calling = "none" /\ batch # <<>> /\ timer \in [Timers -> TimerRec]
  BY TimersTyped DEF IInv, Dispatch
<1>3. /\ Len(batch) \in Nat /\ Len(batch) >= 1 /\ Head(batch) = batch[1] /\ batch[1] \in EventRec
      /\ Tail(batch) \in Seq(EventRec) /\ Len(Tail(batch)) + 1 = Len(batch)
      /\ \A i \in 1..Len(Tail(batch)) : Tail(batch)[i] = batch[i + 1]
  BY <1>2, TailGood DEF IInv
<1>4. ASSUME NEW x, NEW i \in 1..Len(Tail(batch)), Tail(batch)[i].src = x  PROVE InBatch(x)
  <2>1. i + 1 \in 1..Len(batch) /\ batch[i + 1].src = x
    BY <1>3, <1>4, SMTT(60)
  <2> QED BY <2>1 DEF InBatch
<1>5. CASE Head(batch).src \in Timers
  <2>1. PICK t \in Timers : t = Head(batch).src
    BY <1>5
  <2>2. /\ batch' = Tail(batch)
        /\ \/ calling' = t /\ timer' = [timer EXCEPT ![t] = Read(timer[t])]
           \/ calling' = "none" /\ timer' = [timer EXCEPT ![t] = DropTimer(Expired(t, timer[t]))]
           \/ calling' = "none" /\ timer' = [timer EXCEPT ![t] = DropTimer(timer[t])]
    BY <2>1 DEF Dispatch, DispatchTimer, Read
  <2>3. InBatch(t) /\ Pending(t)
    BY <1>3, <2>1, SMTT(60) DEF InBatch, Pending
  <2>4. ASSUME NEW x \in Timers, Pending(x)'  PROVE Pending(x)
    <3>1. x = t \/ \E i \in 1..Len(Tail(batch)) : Tail(batch)[i].src = x
      BY <2>2, <2>4, ConstantsOK DEF Pending, Slots
    <3> QED BY <1>4, <2>3, <3>1 DEF InBatch, Pending
  <2>5. ASSUME NEW x \in Timers, x # t  PROVE ArmOne(x)'
    <3>1. timer'[x] = timer[x]
      BY <1>2, <2>2, <2>5
    <3>2. SameClock(timer[x], timer'[x]) /\ (timer[x].added => timer'[x].added)
      BY <3>1 DEF SameClock
    <3> QED BY <1>1, <2>4, <3>2, ArmKept
  <2>6. ArmOne(t)'
    <3>1. CASE timer' = [timer EXCEPT ![t] = Read(timer[t])]
      <4>1. PICK q : q = Read(timer[t])
        OBVIOUS
      <4>2. ~q.fired /\ q.armed = timer[t].armed /\ q.active = timer[t].active /\ q.added = timer[t].added
        BY <1>2, <4>1, ClockMoves
      <4>3. timer'[t] = q
        BY <1>2, <3>1, <4>1
      <4>4. ArmOne(t) /\ (Pending(t)' => Pending(t))
        BY <1>1, <2>4
      <4> QED BY <2>3, <4>2, <4>3, <4>4 DEF ArmOne
    <3>2. CASE timer' = [timer EXCEPT ![t] = DropTimer(Expired(t, timer[t]))]
      <4>1. timer'[t] = DropTimer(Expired(t, timer[t]))
        BY <1>2, <3>2
      <4> QED BY <1>1, <2>3, <2>4, <4>1, ExpiredArm
    <3>3. CASE timer' = [timer EXCEPT ![t] = DropTimer(timer[t])]
      <4>1. PICK q : q = Counting(timer[t], timer[t].refs - 1)
        OBVIOUS
      <4>2. timer'[t] = q
        BY <1>2, <3>3, <4>1 DEF DropTimer, Counting
      <4>3. SameClock(timer[t], timer'[t]) /\ timer'[t].added = timer[t].added
        BY <1>2, <4>1, <4>2, ClockKept, SMTT(60)
      <4> QED BY <1>1, <2>4, <4>3, ArmKept
    <3> QED BY <2>2, <3>1, <3>2, <3>3
  <2> QED BY <2>5, <2>6 DEF ArmInv, ArmOne
<1>6. CASE Head(batch).src \notin Timers
  <2>1. PICK e \in EventRec : e = Head(batch) /\ e.src \in Sockets
    BY <1>3, <1>6 DEF EventRec
  <2>2. UNCHANGED timer /\ calling' \in {e.src, "none"}
    BY <1>6, <2>1 DEF Dispatch, DispatchSocket
  <2>3. ASSUME NEW t \in Timers, Pending(t)'  PROVE Pending(t)
    <3>1. InBatch(t)'
      BY <2>1, <2>2, <2>3, ConstantsOK, SMTT(60) DEF Pending, InBatch, Slots
    <3>2. InBatch(t)
      BY <1>6, <3>1, SocketBatch
    <3> QED BY <3>2 DEF InBatch, Pending
  <2>4. ASSUME NEW t \in Timers  PROVE ArmOne(t)'
    <3>1. SameClock(timer[t], timer'[t]) /\ (timer[t].added => timer'[t].added)
      BY <2>2 DEF SameClock
    <3> QED BY <1>1, <2>3, <3>1, ArmKept
  <2> QED BY <2>4 DEF ArmInv, ArmOne
<1> QED BY <1>5, <1>6

(* EventLoop_finalize keeps ArmInv.                                        *)
LEMMA FinalizeArm == ASSUME IInv, ArmInv, EventLoop_finalize PROVE ArmInv'
<1>1. \A x \in Timers : ArmOne(x)
  BY DEF ArmInv, ArmOne
<1>2. /\ UNCHANGED <<batch, calling>>
      /\ timer' = [t \in Timers |-> IF timer[t].added THEN Unlinked(timer[t]) ELSE timer[t]]
  BY DEF EventLoop_finalize
<1>3. ASSUME NEW t \in Timers  PROVE ArmOne(t)'
  <2>1. CASE timer[t].added
    <3>1. timer'[t] = Unlinked(timer[t])
      BY <1>2, <2>1
    <3>2. ~timer'[t].armed
      BY <1>1, <2>1, <3>1, UnlinkDisarms
    <3> QED BY <3>2, UnarmedOne
  <2>2. CASE ~timer[t].added
    <3>1. timer'[t] = timer[t]
      BY <1>2, <2>2
    <3>2. SameClock(timer[t], timer'[t]) /\ (Pending(t)' => Pending(t)) /\ (timer[t].added => timer'[t].added)
      BY <1>2, <3>1 DEF SameClock, Pending
    <3> QED BY <1>1, <3>2, ArmKept
  <2> QED BY <2>1, <2>2
<1> QED BY <1>3 DEF ArmInv, ArmOne

(* Everything else leaves the timers and the batch as they are.            *)
LEMMA OtherArm ==
  ASSUME ArmInv, UNCHANGED <<timer, batch>>, \A t \in Timers : calling' = t => calling = t
  PROVE  ArmInv'
BY DEF ArmInv, Pending

(* Every step keeps ArmInv while nobody restarts a pending timer.          *)
LEMMA StepArm == ASSUME ~RestartPending PROVE IInv /\ ArmInv /\ [Next]_vars => ArmInv'
<1> SUFFICES ASSUME IInv, ArmInv, [Next]_vars PROVE ArmInv'
  OBVIOUS
<1>1. CASE SocketCall
  <2>1. UNCHANGED <<timer, batch, calling>>
    BY <1>1 DEF SocketCall, OpenSocket, event_backend_add, event_backend_modify,
       event_backend_remove, ReleaseSocket, DeferSocket, Consume, loopVars
  <2> QED BY <2>1, OtherArm
<1>2. CASE TimerCall
  BY <1>2, TimerCallsArm DEF TimerCall
<1>3. CASE LoopStep
  <2>1. CASE BatchEnd
    <3>1. UNCHANGED <<timer, batch, calling>>
      BY <2>1 DEF BatchEnd
    <3> QED BY <3>1, OtherArm
  <2> QED BY <1>3, <2>1, WaitArm, DispatchArm, ReturnArm DEF LoopStep
<1>4. CASE Kernel
  <2>1. ASSUME NEW s \in Sockets, NEW b \in Readiness, BecomeReady(s, b)  PROVE ArmInv'
    <3>1. UNCHANGED <<timer, batch, calling>>
      BY <2>1 DEF BecomeReady, loopVars
    <3> QED BY <3>1, OtherArm
  <2> QED BY <1>4, <2>1, TimerCallsArm DEF Kernel
<1>5. CASE EventLoop_finalize
  BY <1>5, FinalizeArm
<1>6. CASE RunReturns \/ Run \/ Stop \/ Done \/ UNCHANGED vars
  <2>1. UNCHANGED <<timer, batch>> /\ calling' \in {calling, "main", "none"}
    BY <1>6 DEF RunReturns, Run, Stop, Done, vars
  <2>2. \A t \in Timers : calling' = t => calling = t
    BY <2>1, ConstantsOK DEF Slots
  <2> QED BY <2>1, <2>2, OtherArm
<1> QED BY <1>1, <1>2, <1>3, <1>4, <1>5, <1>6 DEF Next

(* A Timer is referenced by its owner, by active_timers, by its event of   *)
(* the batch and by its running callback, and by nothing else: whoever     *)
(* releases it last frees it, once.                                        *)
THEOREM TimersOwned == Spec => []TimerOwnership
BY Invariant, OwnedTimers, PTL

(* Beyond that, while no one-shot timer is restarted before its callback   *)
(* has returned, a timer outside the loop is not armed.                    *)
THEOREM TimersRunInsideTheLoop == ASSUME ~RestartPending PROVE Spec => []TimersKept
<1>1. Init => IInv /\ ArmInv
  <2> SUFFICES ASSUME Init PROVE ArmInv
    BY InitInv
  <2>1. ASSUME NEW t \in Timers  PROVE ~timer[t].armed
    BY DEF Init, NewTimer
  <2> QED BY <2>1 DEF ArmInv
<1>2. IInv /\ ArmInv /\ [Next]_vars => IInv' /\ ArmInv'
  BY StepInv, StepArm
<1>3. IInv /\ ArmInv => TimersKept
  <2>1. ArmInv => IdleTimerDisarmed
    BY DEF ArmInv, IdleTimerDisarmed
  <2> QED BY <2>1, OwnedTimers DEF TimersKept
<1> QED BY <1>1, <1>2, <1>3, PTL DEF Spec

-----------------------------------------------------------------------------
(* The refinement.  An event of the batch, of a timer too, names a context *)
(* of its source: contexts are never reused.                               *)
EventInv == \A i \in 1..Len(batch) : batch[i].c \in 1..made /\ ctx[batch[i].c].src = batch[i].src

(* A new count leaves a context's source and socket.                       *)
LEMMA CtxCounting ==
  ASSUME NEW r \in CtxRec, NEW n
  PROVE  Counting(r, n).src = r.src /\ Counting(r, n).sock = r.sock
BY DEF CtxRec, Counting

(* EventInv depends on the batch and the sources of contexts.              *)
LEMMA EventKept ==
  ASSUME IInv, EventInv, UNCHANGED batch, made' \in {made, made + 1},
         \A c \in 1..made : ctx'[c].src = ctx[c].src
  PROVE  EventInv'
<1>1. made \in Nat /\ \A c \in 1..made : c \in 1..made'
  BY MadeTyped, ConstantsOK, SMTT(60) DEF IInv
<1> QED BY <1>1 DEF EventInv

(* Events that leave the batch, or lose bits, keep EventInv.               *)
LEMMA EventFewer ==
  ASSUME IInv, EventInv, UNCHANGED <<ctx, made>>, NEW k \in {0, 1}, Len(batch) \in Nat, Len(batch') \in Nat,
         Len(batch') + k = Len(batch),
         \A i \in 1..Len(batch') : batch'[i].src = batch[i + k].src /\ batch'[i].c = batch[i + k].c
  PROVE  EventInv'
<1>1. \A i \in 1..Len(batch') : i + k \in 1..Len(batch)
  BY SMTT(60)
<1> QED BY <1>1 DEF EventInv

(* The contexts made so far keep their source.                             *)
LEMMA SourcesKept ==
  ASSUME IInv, [Next]_vars
  PROVE  made' \in {made, made + 1} /\ \A c \in 1..made : ctx'[c].src = ctx[c].src
<1>1. ctx \in [Ctx -> CtxRec] /\ 1..made \subseteq Ctx /\ made \in Nat
  BY ContextsTyped, MadeTyped, ConstantsOK, SMTT(60) DEF IInv, Ctx
<1>2. ASSUME UNCHANGED made, SameSources
      PROVE  made' \in {made, made + 1} /\ \A c \in 1..made : ctx'[c].src = ctx[c].src
  BY <1>1, <1>2 DEF SameSources
<1>3. ASSUME NEW r, made' = made + 1, ctx' = [ctx EXCEPT ![made + 1] = r]
      PROVE  made' \in {made, made + 1} /\ \A c \in 1..made : ctx'[c].src = ctx[c].src
  <2>1. \A c \in 1..made : c # made + 1
    BY <1>1, SMTT(60)
  <2> QED BY <1>1, <1>3, <2>1
<1>4. ASSUME UNCHANGED <<made, ctx>>
      PROVE  made' \in {made, made + 1} /\ \A c \in 1..made : ctx'[c].src = ctx[c].src
  BY <1>4
<1>5. CASE SocketCall
  <2>1. ASSUME NEW s \in Sockets, NEW m \in Masks, event_backend_modify(s, m)
        PROVE  UNCHANGED made /\ SameSources
    BY <2>1, ModifyInv DEF Quiet, SameMap
  <2>2. ASSUME NEW s \in Sockets, event_backend_remove(s)  PROVE UNCHANGED made /\ SameSources
    <3>1. PICK c : ctx' = [ctx EXCEPT ![c].sock = FALSE] /\ made' = made
      BY <2>2 DEF event_backend_remove, Dispose, DelFailed
    <3>2. \A x \in Ctx : ctx'[x] = ctx[x] \/ ctx'[x] = [ctx[x] EXCEPT !.sock = FALSE]
      BY <1>1, <3>1
    <3> QED BY <1>1, <3>1, <3>2, ContextFields, SMTT(60) DEF SameSources
  <2>3. ASSUME NEW s \in Sockets, NEW m \in Masks, event_backend_add(s, m)
        PROVE  made' \in {made, made + 1} /\ \A c \in 1..made : ctx'[c].src = ctx[c].src
    <3>1. made' = made + 1 /\ ctx' = [ctx EXCEPT ![made + 1] = [src |-> s, sock |-> TRUE, mask |-> m, refs |-> 1]]
      BY <2>3 DEF event_backend_add
    <3> QED BY <1>3, <3>1
  <2>4. ASSUME NEW s \in Sockets, (\E f \in Fds : OpenSocket(s, f)) \/ ReleaseSocket(s) \/ DeferSocket(s) \/ Consume(s)
        PROVE  UNCHANGED <<made, ctx>>
    BY <2>4 DEF OpenSocket, ReleaseSocket, DeferSocket, Consume
  <2> QED BY <1>2, <1>4, <1>5, <2>1, <2>2, <2>3, <2>4 DEF SocketCall
<1>6. CASE TimerCall
  <2>1. ASSUME NEW t \in Timers, _addTimer(t)
        PROVE  made' \in {made, made + 1} /\ \A c \in 1..made : ctx'[c].src = ctx[c].src
    <3>1. made' = made + 1 /\ ctx' = [ctx EXCEPT ![made + 1] = [src |-> t, sock |-> FALSE, mask |-> {"R"}, refs |-> 1]]
      BY <2>1 DEF _addTimer
    <3> QED BY <1>3, <3>1
  <2>2. ASSUME NEW t \in Timers, _removeTimer(t)  PROVE UNCHANGED made /\ SameSources
    <3>1. made' = made /\ (ctx' = ctx \/ ctx' = [ctx EXCEPT ![ctx_map[t]].refs = @ - 1])
      BY <2>2 DEF _removeTimer
    <3>2. ASSUME NEW x \in Ctx  PROVE ctx'[x].src = ctx[x].src
      <4>1. ctx'[x] = ctx[x] \/ ctx'[x] = Counting(ctx[x], ctx[x].refs - 1)
        BY <1>1, <3>1 DEF Counting
      <4>2. Counting(ctx[x], ctx[x].refs - 1).src = ctx[x].src
        BY <1>1, CtxCounting
      <4> QED BY <4>1, <4>2
    <3> QED BY <3>1, <3>2 DEF SameSources
  <2>3. ASSUME NEW t \in Timers, Timer_start(t) \/ Timer_stop(t) \/ ReleaseTimer(t)  PROVE UNCHANGED <<made, ctx>>
    BY <2>3 DEF Timer_start, Timer_stop, ReleaseTimer
  <2> QED BY <1>2, <1>4, <1>6, <2>1, <2>2, <2>3 DEF TimerCall
<1>7. CASE BatchEnd \/ EventLoop_finalize
  <2>1. made' = made
    BY <1>7 DEF BatchEnd, EventLoop_finalize
  <2>2. ASSUME NEW x \in Ctx  PROVE ctx'[x].src = ctx[x].src
    <3>1. PICK n : ctx'[x] = ctx[x] \/ ctx'[x] = Counting(ctx[x], n)
      BY <1>7 DEF BatchEnd, Flush, FlushOnly, EventLoop_finalize, Counting
    <3>2. Counting(ctx[x], n).src = ctx[x].src
      BY <1>1, CtxCounting
    <3> QED BY <3>1, <3>2
  <2> QED BY <1>2, <2>1, <2>2 DEF SameSources
<1>8. CASE Wait \/ Dispatch \/ Return \/ Kernel \/ RunReturns \/ Run \/ Stop \/ Done \/ UNCHANGED vars
  <2>1. UNCHANGED <<made, ctx>>
    BY <1>8 DEF Wait, Dispatch, Return, Kernel, BecomeReady, Expire, RunReturns, Run, Stop,
       Done, vars
  <2> QED BY <1>4, <2>1
<1> QED BY <1>5, <1>6, <1>7, <1>8 DEF Next, LoopStep

(* Every step keeps EventInv.                                              *)
LEMMA StepEvents == IInv /\ EventInv /\ [Next]_vars => EventInv'
<1> SUFFICES ASSUME IInv, EventInv, [Next]_vars PROVE EventInv'
  OBVIOUS
<1>1. CASE UNCHANGED batch
  BY <1>1, SourcesKept, EventKept
<1>2. CASE Wait
  <2>1. Collect /\ UNCHANGED <<ctx, made>>
    BY <1>2 DEF Wait
  <2>2. \A i \in 1..Len(batch') : batch'[i].c \in 1..made /\ batch'[i].src = ctx[batch'[i].c].src
    BY <2>1, CollectGood
  <2> QED BY <2>1, <2>2 DEF EventInv
<1>3. CASE Dispatch
  <2>1. UNCHANGED <<ctx, made>> /\ batch # <<>>
    BY <1>3 DEF Dispatch
  <2>2. /\ Len(batch) \in Nat /\ Tail(batch) \in Seq(EventRec) /\ Len(Tail(batch)) + 1 = Len(batch)
        /\ \A i \in 1..Len(Tail(batch)) : Tail(batch)[i] = batch[i + 1]
    BY <2>1, TailGood DEF IInv
  <2>3. CASE Head(batch).src \in Timers
    <3>1. batch' = Tail(batch)
      BY <1>3, <2>3 DEF Dispatch, DispatchTimer
    <3>2. Len(batch') \in Nat /\ 1 \in {0, 1}
      BY <2>2, <3>1, SMTT(60)
    <3> QED BY <2>1, <2>2, <3>1, <3>2, EventFewer
  <2>4. CASE Head(batch).src \notin Timers
    <3>1. PICK k \in {0, 1} : SocketTail(k)
      BY <1>3, <2>4, SocketBatch
    <3>2. Len(batch') \in Nat
      BY <3>1, SMTT(60) DEF SocketTail
    <3> QED BY <2>1, <2>2, <3>1, <3>2, EventFewer DEF SocketTail
  <2> QED BY <2>3, <2>4
<1> QED
  <2>1. UNCHANGED batch \/ Wait \/ Dispatch
    BY DEF Next, SocketCall, TimerCall, LoopStep, Kernel, OpenSocket, event_backend_add,
       event_backend_modify, event_backend_remove, ReleaseSocket, DeferSocket, Consume,
       _addTimer, _removeTimer, Timer_start, Timer_stop, ReleaseTimer, Return, BatchEnd,
       RunReturns, Run, Stop, EventLoop_finalize, BecomeReady, Expire, Done, vars, loopVars
  <2> QED BY <1>1, <1>2, <1>3, <2>1

(* The variables of Reactor.                                               *)
Seen(b, c) == UNION {b[i].mask : i \in {j \in 1..Len(b) : b[j].c = c}}
Registry == {s \in Sockets : Registered(s)}
Signals == [s \in Sockets |-> IF Registered(s) THEN Seen(batch, Context(s)) ELSE {}]
Caller == IF calling \in Sockets \cup {"none"} THEN calling ELSE "other"

(* The variables of Reactor under the mapping.                             *)
LEMMA ReactorVars == R!vars = <<Registry, Signals, Caller>>
BY DEF R!vars, Registry, Signals, Caller, Seen

(* A step that changes none of the three is a stutter.                     *)
LEMMA ReactorStutters ==
  ASSUME Registry' = Registry, Signals' = Signals, Caller' = Caller
  PROVE  UNCHANGED R!vars
BY DEF R!vars, Registry, Signals, Caller, Seen

(* What counts as a registration.                                          *)
LEMMA ReactorRegisters ==
  ASSUME NEW s \in Sockets, Caller # "none", s \notin Registry, Registry' = Registry \cup {s},
         Signals' = Signals, Caller' = Caller
  PROVE  R!Next
<1>1. R!Register(s)
  BY DEF R!Register, Registry, Signals, Caller, Seen
<1> QED BY <1>1 DEF R!Next

(* What counts as the end of registrations.                                *)
LEMMA ReactorUnregisters ==
  ASSUME NEW S \in SUBSET Sockets, Caller # "none", S \subseteq Registry, Registry' = Registry \ S,
         Signals' = [s \in Sockets |-> IF s \in S THEN {} ELSE Signals[s]], Caller' = Caller
  PROVE  R!Next
<1>1. R!Unregister(S)
  BY DEF R!Unregister, Registry, Signals, Caller, Seen
<1> QED BY <1>1 DEF R!Next

Shrinking == Signals' \in [Sockets -> SUBSET Bits] /\ \A s \in Sockets : Signals'[s] \subseteq Signals[s]

(* Signals may be dropped.                                                 *)
LEMMA ReactorForgets ==
  ASSUME Shrinking, Registry' = Registry, Caller' = Caller
  PROVE  R!Next
<1>1. R!Forget
  BY DEF Shrinking, R!Forget, R!Shrinks, Registry, Signals, Caller, Seen
<1> QED BY <1>1 DEF R!Next

(* What counts as a call of a timer's callback.                            *)
LEMMA ReactorCallsOther ==
  ASSUME Shrinking, Registry' = Registry, Caller = "none", Caller' = "other"
  PROVE  R!Next
<1>1. R!CallOther
  BY DEF Shrinking, R!CallOther, R!Shrinks, Registry, Signals, Caller, Seen
<1> QED BY <1>1 DEF R!Next

(* What counts as a call of a socket's callback.                           *)
LEMMA ReactorDelivers ==
  ASSUME Shrinking, Registry' = Registry, Caller = "none", NEW s \in Registry, Signals[s] # {}, Caller' = s
  PROVE  R!Next
<1>1. s \in Sockets
  BY DEF Registry
<1>2. R!Deliver(s)
  BY DEF Shrinking, R!Deliver, R!Shrinks, Registry, Signals, Caller, Seen
<1> QED BY <1>1, <1>2 DEF R!Next

(* What counts as new signals.                                             *)
LEMMA ReactorSignals ==
  ASSUME Signals' \in [Sockets -> SUBSET Bits], Registry' = Registry, Caller' = Caller,
         \A s \in Sockets : Signals[s] \subseteq Signals'[s] /\ (s \notin Registry => Signals'[s] = Signals[s])
  PROVE  R!Next
<1>1. R!Signal
  BY DEF R!Signal, Registry, Signals, Caller, Seen
<1> QED BY <1>1 DEF R!Next

(* What counts as the return of a callback.                                *)
LEMMA ReactorReturns ==
  ASSUME Registry' = Registry, Signals' = Signals, Caller # "none", Caller' = "none"
  PROVE  R!Next
<1>1. R!Return
  BY DEF R!Return, Registry, Signals, Caller, Seen
<1> QED BY <1>1 DEF R!Next

(* Signals are sets of bits.                                               *)
LEMMA SignalsTyped == IInv => Signals \in [Sockets -> SUBSET Bits]
<1> SUFFICES ASSUME IInv PROVE Signals \in [Sockets -> SUBSET Bits]
  OBVIOUS
<1>1. ASSUME NEW c  PROVE Seen(batch, c) \in SUBSET Bits
  <2>1. \A i \in 1..Len(batch) : batch[i].mask \subseteq Bits
    <3>1. \A i \in 1..Len(batch) : batch[i] \in EventRec
      BY BatchTyped, SMTT(60) DEF IInv
    <3> QED BY <3>1 DEF EventRec
  <2> QED BY <2>1 DEF Seen
<1> QED BY <1>1 DEF Signals

(* Registrations with the same contexts have the same signals.             *)
LEMMA SameSignals ==
  ASSUME UNCHANGED batch,
         \A s \in Sockets : /\ Registered(s)' <=> Registered(s)
                            /\ Registered(s) => Context(s)' = Context(s)
  PROVE  Registry' = Registry /\ Signals' = Signals
<1>1. Registry' = Registry
  BY DEF Registry
<1>2. \A s \in Sockets : (IF Registered(s)' THEN Seen(batch', Context(s)') ELSE {})
                           = (IF Registered(s) THEN Seen(batch, Context(s)) ELSE {})
  OBVIOUS
<1> QED BY <1>1, <1>2 DEF Signals

(* What a socket's registration depends on.                                *)
LEMMA RegisteredFrame ==
  ASSUME IInv, NEW s \in Sockets, sock'[s].fd = sock[s].fd,
         sock[s].fd # NoFd => ctx_map'[sock[s].fd] = ctx_map[sock[s].fd],
         \A c \in 1..made : ctx'[c].src = ctx[c].src /\ ctx'[c].sock = ctx[c].sock
  PROVE  (Registered(s)' <=> Registered(s)) /\ Context(s)' = Context(s)
<1>1. Context(s)' = Context(s)
  BY DEF Context, Open
<1>2. Context(s) # 0 => Context(s) \in 1..made
  <2>1. sock[s].fd # NoFd => sock[s].fd \in Slots
    BY SocketsTyped, SocketFields DEF IInv, Slots
  <2> QED BY <2>1, InTheMap DEF Context, Open, IInv
<1>3. PICK c : c = Context(s)
  OBVIOUS
<1>4. Registered(s) <=> c # 0 /\ ctx[c].src = s /\ ctx[c].sock
  BY <1>3 DEF Registered
<1>5. Registered(s)' <=> c # 0 /\ ctx'[c].src = s /\ ctx'[c].sock
  BY <1>1, <1>3 DEF Registered
<1> QED BY <1>1, <1>2, <1>3, <1>4, <1>5

(* A socket that is not in the map before or after is not registered.      *)
LEMMA Unregistered ==
  ASSUME NEW s \in Sockets, Context(s) = 0, Context(s)' = 0
  PROVE  ~Registered(s) /\ ~Registered(s)'
BY DEF Registered

(* Steps that Reactor does not see.                                        *)
LEMMA SameReactor ==
  ASSUME UNCHANGED <<batch, calling>>,
         \A s \in Sockets : /\ Registered(s)' <=> Registered(s)
                            /\ Registered(s) => Context(s)' = Context(s)
  PROVE  UNCHANGED R!vars
<1>1. Caller' = Caller
  BY DEF Caller
<1> QED BY <1>1, SameSignals, ReactorStutters

(* Calls on sockets that Reactor does not see.                             *)
LEMMA SocketStutters ==
  ASSUME IInv, NEW s \in Sockets,
         \/ \E f \in Fds : OpenSocket(s, f)
         \/ ReleaseSocket(s) \/ DeferSocket(s) \/ Consume(s)
         \/ \E m \in Masks : event_backend_modify(s, m)
         \/ \E b \in Readiness : BecomeReady(s, b)
  PROVE  UNCHANGED R!vars
<1>1. UNCHANGED <<batch, calling, ctx_map>>
  BY DEF OpenSocket, ReleaseSocket, DeferSocket, Consume, event_backend_modify, BecomeReady,
     loopVars
<1>2. sock \in [Sockets -> SocketRec]
  BY SocketsTyped DEF IInv
<1>3. \A c \in 1..made : ctx'[c].src = ctx[c].src /\ ctx'[c].sock = ctx[c].sock
  <2>1. CASE \E m \in Masks : event_backend_modify(s, m)
    <3>1. PICK m \in Masks : event_backend_modify(s, m)
      BY <2>1
    <3>2. 1..made \subseteq Ctx
      BY MadeTyped, ConstantsOK, SMTT(60) DEF IInv, Ctx
    <3> QED BY <3>1, <3>2, ModifyInv DEF Quiet, SameSources
  <2>2. CASE ~\E m \in Masks : event_backend_modify(s, m)
    BY <2>2 DEF OpenSocket, ReleaseSocket, DeferSocket, Consume, BecomeReady
  <2> QED BY <2>1, <2>2
<1>4. CASE \E f \in Fds : OpenSocket(s, f)
  <2>1. PICK f \in Fds : OpenSocket(s, f)
    BY <1>4
  <2>2. sock' = [sock EXCEPT ![s] = [sock[s] EXCEPT !.fd = f]] /\ sock[s].fd = NoFd /\ \A x \in Sockets : sock[x].fd # f
    BY <2>1 DEF OpenSocket, Open
  <2>3. [sock[s] EXCEPT !.fd = f].fd = f
    BY <1>2, SocketFields, SMTT(60)
  <2>4. sock'[s].fd = f /\ \A x \in Sockets : x # s => sock'[x] = sock[x]
    BY <1>2, <2>2, <2>3
  <2>5. ctx_map[f] = 0
    BY <2>2 DEF IInv, MapInv, SocketPlaces
  <2>6. Context(s) = 0 /\ Context(s)' = 0
    BY <1>1, <2>2, <2>4, <2>5 DEF Context, Open
  <2>7. ASSUME NEW x \in Sockets, x # s
        PROVE  (Registered(x)' <=> Registered(x)) /\ Context(x)' = Context(x)
    <3>1. sock'[x].fd = sock[x].fd /\ ctx_map'[sock[x].fd] = ctx_map[sock[x].fd]
      BY <1>1, <2>4, <2>7
    <3> QED BY <1>3, <3>1, RegisteredFrame
  <2> QED BY <1>1, <2>6, <2>7, Unregistered, SameReactor
<1>5. CASE ReleaseSocket(s)
  <2>1. sock' = Freed({s}, sock) /\ Context(s) = 0
    BY <1>5 DEF ReleaseSocket, MayRelease
  <2>2. sock'[s].fd = NoFd /\ \A x \in Sockets : x # s => sock'[x] = sock[x]
    BY <2>1 DEF Freed
  <2>3. Context(s)' = 0
    BY <2>2 DEF Context, Open
  <2>4. ASSUME NEW x \in Sockets, x # s
        PROVE  (Registered(x)' <=> Registered(x)) /\ Context(x)' = Context(x)
    <3>1. sock'[x].fd = sock[x].fd /\ ctx_map'[sock[x].fd] = ctx_map[sock[x].fd]
      BY <1>1, <2>2, <2>4
    <3> QED BY <1>3, <3>1, RegisteredFrame
  <2> QED BY <1>1, <2>1, <2>3, <2>4, Unregistered, SameReactor
<1>6. CASE \A x \in Sockets : sock'[x].fd = sock[x].fd
  <2>1. ASSUME NEW x \in Sockets
        PROVE  (Registered(x)' <=> Registered(x)) /\ Context(x)' = Context(x)
    <3>1. sock'[x].fd = sock[x].fd /\ ctx_map'[sock[x].fd] = ctx_map[sock[x].fd]
      BY <1>1, <1>6
    <3> QED BY <1>3, <3>1, RegisteredFrame
  <2> QED BY <1>1, <2>1, SameReactor
<1>7. CASE Consume(s) \/ \E b \in Readiness : BecomeReady(s, b)
  <2>1. PICK b \in SUBSET Bits : sock' = [sock EXCEPT ![s] = [sock[s] EXCEPT !.ready = b]]
    BY <1>7, ConstantsOK DEF Consume, BecomeReady
  <2>2. [sock[s] EXCEPT !.ready = b].fd = sock[s].fd
    BY <1>2, SocketFields
  <2>3. \A x \in Sockets : sock'[x].fd = sock[x].fd
    BY <1>2, <2>1, <2>2
  <2> QED BY <1>6, <2>3
<1>8. CASE DeferSocket(s) \/ \E m \in Masks : event_backend_modify(s, m)
  <2>1. sock' = sock
    BY <1>8 DEF DeferSocket, event_backend_modify
  <2> QED BY <1>6, <2>1
<1> QED BY <1>4, <1>5, <1>7, <1>8

(* Calls on timers are not seen by Reactor.                                *)
LEMMA TimerStutters ==
  ASSUME IInv, NEW t \in Timers,
         _addTimer(t) \/ _removeTimer(t) \/ Timer_start(t) \/ Timer_stop(t) \/ ReleaseTimer(t) \/ Expire(t)
  PROVE  UNCHANGED R!vars
<1>1. UNCHANGED <<batch, calling, sock>>
  BY DEF _addTimer, _removeTimer, Timer_start, Timer_stop, ReleaseTimer, Expire, loopVars
<1>2. /\ ctx \in [Ctx -> CtxRec] /\ 1..made \subseteq Ctx /\ made \in Nat
      /\ ctx_map \in [Slots -> 0..MaxCtx] /\ sock \in [Sockets -> SocketRec]
  BY SocketsTyped, ContextsTyped, MadeTyped, MapTyped, ConstantsOK, SMTT(60) DEF IInv, Ctx
<1>3. \A c \in 1..made : ctx'[c].src = ctx[c].src /\ ctx'[c].sock = ctx[c].sock
  <2>1. CASE _addTimer(t)
    <3>1. PICK r : ctx' = [ctx EXCEPT ![made + 1] = r]
      BY <2>1 DEF _addTimer
    <3>2. \A c \in 1..made : c # made + 1
      BY <1>2, SMTT(60)
    <3> QED BY <1>2, <3>1, <3>2
  <2>2. CASE _removeTimer(t)
    <3>1. ctx' = ctx \/ ctx' = [ctx EXCEPT ![ctx_map[t]].refs = @ - 1]
      BY <2>2 DEF _removeTimer
    <3>2. ASSUME NEW x \in Ctx  PROVE ctx'[x].src = ctx[x].src /\ ctx'[x].sock = ctx[x].sock
      <4>1. ctx'[x] = ctx[x] \/ ctx'[x] = Counting(ctx[x], ctx[x].refs - 1)
        BY <1>2, <3>1 DEF Counting
      <4>2. Counting(ctx[x], ctx[x].refs - 1).src = ctx[x].src /\ Counting(ctx[x], ctx[x].refs - 1).sock = ctx[x].sock
        BY <1>2, CtxCounting
      <4> QED BY <4>1, <4>2
    <3> QED BY <1>2, <3>2
  <2>3. CASE Timer_start(t) \/ Timer_stop(t) \/ ReleaseTimer(t) \/ Expire(t)
    BY <2>3 DEF Timer_start, Timer_stop, ReleaseTimer, Expire
  <2> QED BY <2>1, <2>2, <2>3
<1>4. \A f \in Fds : ctx_map'[f] = ctx_map[f]
  <2>1. \A f \in Fds : f # t /\ f \in Slots
    BY ConstantsOK, SMTT(60) DEF Slots
  <2>2. ctx_map' = ctx_map \/ \E c : ctx_map' = [ctx_map EXCEPT ![t] = c]
    BY DEF _addTimer, _removeTimer, Timer_start, Timer_stop, ReleaseTimer, Expire
  <2> QED BY <1>2, <2>1, <2>2
<1>5. \A s \in Sockets : sock[s].fd # NoFd => sock[s].fd \in Fds
  BY <1>2, SocketFields
<1>6. ASSUME NEW s \in Sockets
      PROVE  (Registered(s)' <=> Registered(s)) /\ Context(s)' = Context(s)
  <2>1. /\ sock'[s].fd = sock[s].fd
        /\ sock[s].fd # NoFd => ctx_map'[sock[s].fd] = ctx_map[sock[s].fd]
    BY <1>1, <1>4, <1>5
  <2> QED BY <1>3, <2>1, RegisteredFrame
<1> QED BY <1>1, <1>6, SameReactor

(* event_backend_add is a registration without signals.                    *)
LEMMA AddRefines ==
  ASSUME IInv, EventInv, NEW s \in Sockets, NEW m \in Masks, event_backend_add(s, m)
  PROVE  R!Next
<1>1. PICK f : f = sock[s].fd /\ f # NoFd
  BY DEF event_backend_add, Owned, Open
<1>2. /\ UNCHANGED <<sock, batch, calling>> /\ calling # "none"
      /\ kep[f] = 0 /\ made < MaxCtx
      /\ ctx' = [ctx EXCEPT ![made + 1] = [src |-> s, sock |-> TRUE, mask |-> m, refs |-> 1]]
      /\ ctx_map' = [ctx_map EXCEPT ![f] = made + 1]
  BY <1>1 DEF event_backend_add, AppRuns, loopVars
<1>3. /\ ctx \in [Ctx -> CtxRec] /\ ctx_map \in [Slots -> 0..MaxCtx] /\ 1..made \subseteq Ctx
      /\ made \in Nat /\ made + 1 \in Ctx /\ sock \in [Sockets -> SocketRec]
  BY <1>2, SocketsTyped, ContextsTyped, MadeTyped, MapTyped, ConstantsOK, SMTT(60) DEF IInv,
     Ctx
<1>4. f \in Slots /\ ctx_map[f] = 0
  BY <1>1, <1>2, <1>3, SocketFields DEF IInv, MapInv, KernelAgrees, Slots
<1>5. ctx_map'[f] = made + 1 /\ ctx'[made + 1].src = s /\ ctx'[made + 1].sock
  BY <1>2, <1>3, <1>4
<1>6. Context(s) = 0 /\ Context(s)' = made + 1
  BY <1>1, <1>2, <1>4, <1>5 DEF Context, Open
<1>7. ~Registered(s) /\ Registered(s)'
  <2>1. PICK c : c = made + 1
    OBVIOUS
  <2>2. c # 0 /\ Context(s)' = c /\ ctx'[c].src = s /\ ctx'[c].sock
    BY <1>3, <1>5, <1>6, <2>1, SMTT(60)
  <2> QED BY <1>6, <2>2 DEF Registered
<1>8. ASSUME NEW x \in Sockets, x # s
      PROVE  (Registered(x)' <=> Registered(x)) /\ Context(x)' = Context(x)
  <2>1. sock[x].fd # f
    BY <1>1, <1>8 DEF IInv, SocketInv
  <2>2. sock[x].fd # NoFd => ctx_map'[sock[x].fd] = ctx_map[sock[x].fd]
    <3>1. sock[x].fd # NoFd => sock[x].fd \in Slots
      BY <1>3, SocketFields DEF Slots
    <3> QED BY <1>2, <1>3, <2>1, <3>1
  <2>3. \A c \in 1..made : ctx'[c] = ctx[c]
    <3>1. \A c \in 1..made : c # made + 1
      BY <1>3, SMTT(60)
    <3> QED BY <1>2, <1>3, <3>1
  <2> QED BY <1>2, <2>2, <2>3, RegisteredFrame
<1>9. Seen(batch, made + 1) = {}
  <2>1. \A i \in 1..Len(batch) : batch[i].c # made + 1
    BY <1>3, SMTT(60) DEF EventInv
  <2> QED BY <2>1 DEF Seen
<1>10. Registry' = Registry \cup {s} /\ s \notin Registry
  BY <1>7, <1>8 DEF Registry
<1>11. Signals' = Signals
  <2>1. ASSUME NEW x \in Sockets
        PROVE  (IF Registered(x)' THEN Seen(batch', Context(x)') ELSE {})
                 = (IF Registered(x) THEN Seen(batch, Context(x)) ELSE {})
    <3>1. CASE x = s
      <4>1. Context(x)' = made + 1 /\ ~Registered(x) /\ batch' = batch
        BY <1>2, <1>6, <1>7, <3>1
      <4>2. Seen(batch', Context(x)') = {}
        BY <1>9, <4>1
      <4> QED BY <4>1, <4>2
    <3>2. CASE x # s
      <4>1. batch' = batch /\ Context(x)' = Context(x) /\ (Registered(x)' <=> Registered(x))
        BY <1>2, <1>8, <3>2
      <4>2. Seen(batch', Context(x)') = Seen(batch, Context(x))
        BY <4>1
      <4> QED BY <4>1, <4>2
    <3> QED BY <3>1, <3>2
  <2> QED BY <2>1 DEF Signals
<1>12. Caller' = Caller /\ Caller # "none"
  BY <1>2 DEF Caller
<1> QED BY <1>10, <1>11, <1>12, ReactorRegisters

(* event_backend_remove ends a registration and its signals.               *)
LEMMA RemoveRefines ==
  ASSUME IInv, NEW s \in Sockets, event_backend_remove(s)
  PROVE  R!Next
<1>1. PICK f, c : f = sock[s].fd /\ c = Context(s) /\ f # NoFd /\ c = ctx_map[f] /\ c # 0
  BY SMTT(60) DEF event_backend_remove, Context, Open
<1>2. /\ UNCHANGED <<sock, batch, calling>> /\ calling # "none"
      /\ ctx' = [ctx EXCEPT ![c] = [ctx[c] EXCEPT !.sock = FALSE]]
      /\ ctx_map' = ctx_map \/ ctx_map' = [ctx_map EXCEPT ![f] = 0]
  BY <1>1 DEF event_backend_remove, AppRuns, loopVars, Dispose, DelFailed
<1>3. /\ ctx \in [Ctx -> CtxRec] /\ ctx_map \in [Slots -> 0..MaxCtx] /\ 1..made \subseteq Ctx
      /\ sock \in [Sockets -> SocketRec]
  <2>1. TypeOK /\ made \in 0..MaxCtx
    BY MadeTyped DEF IInv
  <2>2. 1..made \subseteq Ctx
    BY <2>1, ConstantsOK, SMTT(60) DEF Ctx
  <2> QED BY <2>1, <2>2, SocketsTyped, ContextsTyped, MapTyped
<1>4. f \in Slots /\ c \in Ctx
  <2>1. f \in Slots
    BY <1>1, <1>3, SocketFields DEF Slots
  <2> QED BY <1>1, <2>1, InTheMap DEF IInv
<1>5. ~Registered(s)'
  <2>1. Context(s)' \in {0, c}
    BY <1>1, <1>2, <1>3, <1>4 DEF Context, Open
  <2>2. ~ctx'[c].sock
    <3>1. ~[ctx[c] EXCEPT !.sock = FALSE].sock
      BY <1>3, <1>4, ContextFields
    <3>2. ctx'[c] = [ctx[c] EXCEPT !.sock = FALSE]
      BY <1>2, <1>3, <1>4
    <3> QED BY <3>1, <3>2
  <2> QED BY <2>1, <2>2 DEF Registered
<1>6. ASSUME NEW x \in Sockets, x # s
      PROVE  (Registered(x)' <=> Registered(x)) /\ Context(x)' = Context(x)
  <2>1. sock[x].fd # f
    BY <1>1, <1>6 DEF IInv, SocketInv
  <2>2. sock[x].fd # NoFd => sock[x].fd \in Slots
    BY <1>3, SocketFields DEF Slots
  <2>3. sock[x].fd # NoFd => ctx_map'[sock[x].fd] = ctx_map[sock[x].fd]
    BY <1>2, <1>3, <2>1, <2>2
  <2>4. Context(x)' = Context(x)
    BY <1>2, <2>3 DEF Context, Open
  <2>5. Context(x) # c
    BY <1>1, <1>4, <2>1, <2>2 DEF Context, Open, IInv, MapInv, OnePlace
  <2>6. PICK d : d = Context(x)
    OBVIOUS
  <2>7. d # 0 => ctx'[d] = ctx[d]
    <3>1. d # 0 => d \in Ctx
      BY <2>2, <2>6, InTheMap DEF Context, Open, IInv
    <3> QED BY <1>2, <1>3, <2>5, <2>6, <3>1
  <2>8. (Registered(x) <=> d # 0 /\ ctx[d].src = x /\ ctx[d].sock) /\ (Registered(x)' <=> d # 0 /\ ctx'[d].src = x /\ ctx'[d].sock)
    BY <2>4, <2>6 DEF Registered
  <2> QED BY <2>4, <2>7, <2>8
<1> DEFINE S == {s} \cap Registry
<1>7. S \in SUBSET Sockets /\ S \subseteq Registry /\ Registry' = Registry \ S
  BY <1>5, <1>6 DEF Registry
<1>8. Signals' = [x \in Sockets |-> IF x \in S THEN {} ELSE Signals[x]]
  <2>1. ASSUME NEW x \in Sockets
        PROVE  (IF Registered(x)' THEN Seen(batch', Context(x)') ELSE {})
                 = (IF x \in S THEN {} ELSE Signals[x])
    <3>0. Signals[x] = IF Registered(x) THEN Seen(batch, Context(x)) ELSE {}
      BY DEF Signals
    <3>1. CASE x = s
      BY <1>5, <3>0, <3>1 DEF Registry
    <3>2. CASE x # s
      <4>1. batch' = batch /\ Context(x)' = Context(x) /\ (Registered(x)' <=> Registered(x))
        BY <1>2, <1>6, <3>2
      <4>2. Seen(batch', Context(x)') = Seen(batch, Context(x))
        BY <4>1
      <4> QED BY <3>0, <3>2, <4>1, <4>2
    <3> QED BY <3>1, <3>2
  <2> HIDE DEF S
  <2> QED BY <2>1 DEF Signals
<1>9. Caller' = Caller /\ Caller # "none"
  BY <1>2 DEF Caller
<1> QED BY <1>7, <1>8, <1>9, ReactorUnregisters

(* EventLoop_finalize ends every registration.                             *)
LEMMA FinalizeRefines ==
  ASSUME IInv, EventLoop_finalize
  PROVE  R!Next
<1>1. /\ ctx_map' = [f \in Slots |-> 0] /\ calling = "main" /\ calling' = calling
      /\ sock' = Freed({defer[i] : i \in 1..Len(defer)} \cap Sockets, sock)
  BY DEF EventLoop_finalize
<1>2. sock \in [Sockets -> SocketRec]
  BY SocketsTyped DEF IInv
<1>3. ASSUME NEW s \in Sockets  PROVE ~Registered(s)'
  <2>1. sock'[s].fd # NoFd => sock'[s].fd \in Slots
    <3>1. sock'[s].fd = NoFd \/ sock'[s] = sock[s]
      BY <1>1 DEF Freed
    <3> QED BY <1>2, <3>1, SocketFields DEF Slots
  <2>2. Context(s)' = 0
    BY <1>1, <2>1 DEF Context, Open
  <2> QED BY <2>2 DEF Registered
<1>4. Registry \in SUBSET Sockets /\ Registry \subseteq Registry /\ Registry' = Registry \ Registry
  BY <1>3 DEF Registry
<1>5. Signals' = [s \in Sockets |-> IF s \in Registry THEN {} ELSE Signals[s]]
  <2>1. \A s \in Sockets : s \notin Registry => Signals[s] = {}
    BY DEF Signals, Registry
  <2>2. Signals' = [s \in Sockets |-> {}]
    BY <1>3 DEF Signals
  <2> QED BY <2>1, <2>2
<1>6. Caller' = Caller /\ Caller # "none"
  <2>1. calling # "none"
    BY <1>1
  <2> QED BY <1>1, <2>1 DEF Caller
<1> QED BY <1>4, <1>5, <1>6, ReactorUnregisters

(* Sockets, the map and the contexts as they were: so are registrations.   *)
LEMMA SameRegistry ==
  ASSUME IInv, UNCHANGED <<sock, ctx, ctx_map>>
  PROVE  /\ \A s \in Sockets : (Registered(s)' <=> Registered(s)) /\ Context(s)' = Context(s)
         /\ Registry' = Registry
         /\ \A s \in Sockets : Signals'[s] = IF Registered(s) THEN Seen(batch', Context(s)) ELSE {}
<1>1. \A s \in Sockets : (Registered(s)' <=> Registered(s)) /\ Context(s)' = Context(s)
  BY RegisteredFrame
<1>2. Registry' = Registry
  BY <1>1 DEF Registry
<1>3. ASSUME NEW s \in Sockets  PROVE Signals'[s] = IF Registered(s) THEN Seen(batch', Context(s)) ELSE {}
  <2>1. Signals'[s] = IF Registered(s)' THEN Seen(batch', Context(s)') ELSE {}
    BY DEF Signals
  <2>2. Seen(batch', Context(s)') = Seen(batch', Context(s)) /\ (Registered(s)' <=> Registered(s))
    BY <1>1
  <2> QED BY <2>1, <2>2
<1> QED BY <1>1, <1>2, <1>3

(* Signals are sets of bits after a step, too.                             *)
LEMMA PrimedTyped == ASSUME IInv' PROVE Signals' \in [Sockets -> SUBSET Bits]
<1>1. (IInv => Signals \in [Sockets -> SUBSET Bits])'
  BY SignalsTyped, PTL
<1> QED BY <1>1

(* epoll_wait gives signals to registered sockets only.                    *)
LEMMA WaitRefines == ASSUME IInv, IInv', Wait PROVE R!Next
<1>1. UNCHANGED <<sock, ctx, ctx_map, calling>> /\ batch = <<>>
  BY DEF Wait, IInv, BatchInv
<1>2. Signals' \in [Sockets -> SUBSET Bits]
  BY SignalsTyped, PrimedTyped
<1>3. Registry' = Registry /\ \A s \in Sockets : Signals'[s] = IF Registered(s) THEN Seen(batch', Context(s)) ELSE {}
  BY <1>1, SameRegistry
<1>4. \A s \in Sockets : Signals[s] = {}
  <2>1. \A c : Seen(batch, c) = {}
    BY <1>1, SMTT(60) DEF Seen
  <2> QED BY <2>1 DEF Signals
<1>5. ASSUME NEW s \in Sockets
      PROVE  Signals[s] \subseteq Signals'[s] /\ (s \notin Registry => Signals'[s] = Signals[s])
  BY <1>3, <1>4 DEF Registry
<1>6. Caller' = Caller
  BY <1>1 DEF Caller
<1> QED BY <1>2, <1>3, <1>5, <1>6, ReactorSignals

(* Events only leave the batch, or lose bits.                              *)
LEMMA BatchShrinks ==
  ASSUME IInv, IInv', UNCHANGED <<sock, ctx, ctx_map>>, NEW k \in {0, 1}, Len(batch) \in Nat, Len(batch') \in Nat,
         Len(batch') + k = Len(batch),
         \A i \in 1..Len(batch') : batch'[i].c = batch[i + k].c /\ batch'[i].mask \subseteq batch[i + k].mask
  PROVE  Shrinking /\ Registry' = Registry
<1>1. ASSUME NEW c  PROVE Seen(batch', c) \subseteq Seen(batch, c)
  <2>1. \A i \in 1..Len(batch') : i + k \in 1..Len(batch)
    BY SMTT(60)
  <2>2. ASSUME NEW i \in 1..Len(batch'), batch'[i].c = c, NEW x \in batch'[i].mask
        PROVE  \E j \in 1..Len(batch) : batch[j].c = c /\ x \in batch[j].mask
    BY <2>1, <2>2
  <2> QED BY <2>2, SMTT(60) DEF Seen
<1>2. Registry' = Registry /\ \A s \in Sockets : Signals'[s] = IF Registered(s) THEN Seen(batch', Context(s)) ELSE {}
  BY SameRegistry
<1>3. \A s \in Sockets : Signals[s] = IF Registered(s) THEN Seen(batch, Context(s)) ELSE {}
  BY DEF Signals
<1>4. \A s \in Sockets : Signals'[s] \subseteq Signals[s]
  BY <1>1, <1>2, <1>3
<1> QED BY <1>2, <1>4, PrimedTyped DEF Shrinking

(* A dispatched event is a delivery, another call or a dropped signal.     *)
LEMMA DispatchRefines == ASSUME IInv, IInv', Dispatch PROVE R!Next
<1>1. UNCHANGED <<sock, ctx, ctx_map>> /\ calling = "none" /\ batch # <<>>
  BY DEF Dispatch
<1>2. /\ Len(batch) \in Nat /\ Len(batch) >= 1 /\ Head(batch) = batch[1] /\ batch[1] \in EventRec
      /\ Tail(batch) \in Seq(EventRec) /\ Len(Tail(batch)) + 1 = Len(batch)
      /\ \A i \in 1..Len(Tail(batch)) : Tail(batch)[i] = batch[i + 1]
  BY <1>1, TailGood DEF IInv
<1>3. Caller = "none"
  BY <1>1 DEF Caller
<1>4. CASE Head(batch).src \in Timers
  <2>1. PICK t \in Timers : t = Head(batch).src
    BY <1>4
  <2>2. batch' = Tail(batch) /\ calling' \in {t, "none"}
    BY <2>1 DEF Dispatch, DispatchTimer
  <2>3. Len(batch') \in Nat /\ 1 \in {0, 1}
    BY <1>2, <2>2, SMTT(60)
  <2>4. Shrinking /\ Registry' = Registry
    BY <1>1, <1>2, <2>2, <2>3, BatchShrinks
  <2>5. Caller' \in {"none", "other"}
    <3>1. t \notin Sockets
      BY ConstantsOK
    <3>2. CASE calling' = "none"
      BY <3>2 DEF Caller
    <3>3. CASE calling' = t
      BY <3>1, <3>3 DEF Caller
    <3> QED BY <2>2, <3>2, <3>3
  <2> QED BY <1>3, <2>4, <2>5, ReactorForgets, ReactorCallsOther
<1>5. CASE Head(batch).src \notin Timers
  <2>1. PICK e \in EventRec : e = Head(batch) /\ e.src \in Sockets /\ e.c \in Ctx
    BY <1>2, <1>5 DEF EventRec
  <2>2. calling' = "none" \/ (calling' = e.src /\ ctx[e.c].sock)
    BY <1>5, <2>1 DEF Dispatch, DispatchSocket
  <2>3. PICK k \in {0, 1} : SocketTail(k)
    BY <1>5, SocketBatch
  <2>4. Shrinking /\ Registry' = Registry
    <3>1. Len(batch') \in Nat
      BY <2>3, SMTT(60) DEF SocketTail
    <3> QED BY <1>1, <1>2, <2>3, <3>1, BatchShrinks DEF SocketTail
  <2>5. CASE calling' = "none"
    <3>1. Caller' = Caller
      BY <1>1, <2>5 DEF Caller
    <3> QED BY <2>4, <3>1, ReactorForgets
  <2>6. CASE calling' = e.src /\ ctx[e.c].sock
    <3>1. PICK s \in Sockets, c \in Ctx : s = e.src /\ c = e.c
      BY <2>1
    <3>2. c \in 1..made /\ ctx[c].src = s /\ batch[1].c = c /\ batch[1].mask # {} /\ phase = "batch"
      <4>1. 1 \in 1..Len(batch) /\ batch[1].src \in Sockets
        BY <1>2, <2>1, SMTT(60)
      <4>2. c <= made /\ ctx[c].src = s /\ batch[1].mask # {} /\ phase = "batch"
        BY <1>1, <1>2, <2>1, <3>1, <4>1 DEF IInv, BatchInv
      <4>3. c \in 1..made
        BY <4>2, ConstantsOK, SMTT(60) DEF IInv, Ctx
      <4> QED BY <1>2, <2>1, <3>1, <4>2, <4>3
    <3>3. sock[s].fd # NoFd /\ ctx_map[sock[s].fd] = c /\ c # 0 /\ ctx[c].sock
      <4>1. ctx[c].sock /\ phase # "destroyed" /\ c # 0
        BY <2>6, <3>1, <3>2, ConstantsOK, SMTT(60) DEF Ctx
      <4>2. sock[s].fd # NoFd /\ ctx_map[sock[s].fd] = c
        BY <3>2, <4>1 DEF IInv, LiveInv
      <4> QED BY <4>1, <4>2
    <3>4. Context(s) = c
      BY <3>3 DEF Context, Open
    <3>5. Registered(s)
      BY <3>2, <3>3, <3>4 DEF Registered
    <3>6. s \in Registry /\ Signals[s] = Seen(batch, c)
      BY <3>4, <3>5 DEF Registry, Signals
    <3>7. Signals[s] # {}
      <4>1. PICK x : x \in batch[1].mask
        BY <3>2
      <4>2. 1 \in 1..Len(batch)
        BY <1>2, SMTT(60)
      <4>3. x \in Seen(batch, c)
        BY <3>2, <4>1, <4>2 DEF Seen
      <4> QED BY <3>6, <4>3
    <3>8. Caller' = s
      BY <2>6, <3>1 DEF Caller
    <3> QED BY <1>3, <2>4, <3>6, <3>7, <3>8, ReactorDelivers
  <2> QED BY <2>2, <2>5, <2>6
<1> QED BY <1>4, <1>5

(* Freeing what was deferred is not seen by Reactor.                       *)
LEMMA BatchEndStutters == ASSUME IInv, BatchEnd PROVE UNCHANGED R!vars
<1> DEFINE S == {defer[i] : i \in 1..Len(defer)} \cap Sockets
<1>1. /\ UNCHANGED <<batch, calling, ctx_map>> /\ sock' = Freed(S, sock)
      /\ \A c \in Ctx : ctx'[c] = ctx[c] \/ ctx'[c] = Counting(ctx[c], ctx[c].refs - 1)
  BY DEF BatchEnd, Flush, FlushOnly, Counting
<1>2. \A s \in S : Deferred(s) /\ s \in Sockets
  BY DEF Deferred
<1> HIDE DEF S
<1>3. ctx \in [Ctx -> CtxRec] /\ 1..made \subseteq Ctx
  BY ContextsTyped, MadeTyped, ConstantsOK, SMTT(60) DEF IInv, Ctx
<1>4. \A c \in 1..made : ctx'[c].src = ctx[c].src /\ ctx'[c].sock = ctx[c].sock
  <2>1. \A c \in Ctx : /\ Counting(ctx[c], ctx[c].refs - 1).src = ctx[c].src
                       /\ Counting(ctx[c], ctx[c].refs - 1).sock = ctx[c].sock
    BY <1>3, CtxCounting
  <2>2. \A c \in Ctx : ctx'[c].src = ctx[c].src /\ ctx'[c].sock = ctx[c].sock
    BY <1>1, <2>1
  <2> QED BY <1>3, <2>2
<1>5. ASSUME NEW s \in S
      PROVE  s \in Sockets /\ ~Registered(s) /\ ~Registered(s)'
  <2>1. s \in Sockets /\ sock[s].fd # NoFd /\ ctx_map[sock[s].fd] = 0
    BY <1>2 DEF IInv, SocketInv
  <2>2. sock'[s].fd = NoFd
    BY <1>1, <2>1 DEF Freed
  <2>3. Context(s) = 0 /\ Context(s)' = 0
    BY <2>1, <2>2 DEF Context, Open
  <2> QED BY <2>1, <2>3, Unregistered
<1>6. ASSUME NEW s \in Sockets, s \notin S
      PROVE  (Registered(s)' <=> Registered(s)) /\ Context(s)' = Context(s)
  <2>1. sock'[s] = sock[s]
    BY <1>1, <1>6 DEF Freed
  <2> QED BY <1>1, <1>4, <2>1, RegisteredFrame
<1>7. \A s \in Sockets : (Registered(s)' <=> Registered(s)) /\ (Registered(s) => Context(s)' = Context(s))
  BY <1>5, <1>6
<1> QED BY <1>1, <1>7, SameReactor

(* The loop and its callbacks return, the loop starts and ends.            *)
LEMMA RunRefines ==
  ASSUME IInv, IInv', Return \/ RunReturns \/ Run \/ Stop \/ Done \/ UNCHANGED vars
  PROVE  R!Next \/ UNCHANGED R!vars
<1>1. UNCHANGED <<sock, ctx, ctx_map, batch>>
  BY DEF Return, RunReturns, Run, Stop, Done, vars
<1>2. Registry' = Registry /\ Signals' = Signals
  <2>1. \A s \in Sockets : (Registered(s)' <=> Registered(s)) /\ Context(s)' = Context(s)
    BY <1>1, SameRegistry
  <2> QED BY <1>1, <2>1, SameSignals
<1>3. CASE Return \/ Run
  <2>1. calling # "none" /\ calling' = "none"
    <3>1. "none" \notin Sockets \cup Timers
      BY ConstantsOK DEF Slots
    <3> QED BY <1>3, <3>1 DEF Return, Run
  <2>2. Caller # "none" /\ Caller' = "none"
    BY <2>1 DEF Caller
  <2> QED BY <1>2, <2>2, ReactorReturns
<1>4. CASE RunReturns
  <2>1. calling = "none" /\ calling' = "main"
    BY <1>4 DEF RunReturns
  <2>2. "main" \notin Sockets \cup {"none"}
    BY ConstantsOK
  <2>3. Caller = "none" /\ Caller' = "other"
    BY <2>1, <2>2 DEF Caller
  <2>4. Shrinking
    BY <1>2, SignalsTyped DEF Shrinking
  <2> QED BY <1>2, <2>3, <2>4, ReactorCallsOther
<1>5. CASE Stop \/ Done \/ UNCHANGED vars
  <2>1. calling' = calling
    BY <1>5 DEF Stop, Done, vars
  <2>2. Caller' = Caller
    BY <2>1 DEF Caller
  <2> QED BY <1>2, <2>2, ReactorStutters
<1> QED BY <1>3, <1>4, <1>5

(* Every step is a step of Reactor or a stutter.                           *)
LEMMA StepRefines == IInv /\ IInv' /\ EventInv /\ [Next]_vars => [R!Next]_(R!vars)
<1> SUFFICES ASSUME IInv, IInv', EventInv, [Next]_vars PROVE R!Next \/ UNCHANGED R!vars
  OBVIOUS
<1>1. CASE SocketCall
  BY <1>1, SocketStutters, AddRefines, RemoveRefines DEF SocketCall
<1>2. CASE TimerCall
  BY <1>2, TimerStutters DEF TimerCall
<1>3. CASE LoopStep
  BY <1>3, WaitRefines, DispatchRefines, RunRefines, BatchEndStutters DEF LoopStep
<1>4. CASE Kernel
  BY <1>4, SocketStutters, TimerStutters DEF Kernel
<1>5. CASE EventLoop_finalize
  BY <1>5, FinalizeRefines
<1>6. CASE RunReturns \/ Run \/ Stop \/ Done \/ UNCHANGED vars
  BY <1>6, RunRefines
<1> QED BY <1>1, <1>2, <1>3, <1>4, <1>5, <1>6 DEF Next

(* A new loop is a new Reactor.                                            *)
LEMMA InitRefines == Init => R!Init
<1> SUFFICES ASSUME Init PROVE R!Init
  OBVIOUS
<1>1. \A s \in Sockets : ~Registered(s)
  BY DEF Init, Registered, Context, Open, NewSocket
<1>2. Registry = {} /\ Signals = [s \in Sockets |-> {}]
  BY <1>1 DEF Registry, Signals
<1>3. Caller = "other"
  <2>1. "main" \notin Sockets \cup {"none"}
    BY ConstantsOK
  <2> QED BY <2>1 DEF Init, Caller
<1> QED BY <1>2, <1>3 DEF R!Init, Registry, Signals, Caller, Seen

(* The loop on epoll implements the contract of Reactor: a callback runs   *)
(* only for a socket that event_backend_add registered and                 *)
(* event_backend_remove has not taken out since, and only for readiness    *)
(* epoll_wait reported for this registration; callbacks do not nest.       *)
THEOREM EpollImplementsReactor == Spec => ImplementsReactor
<1>1. Init => IInv /\ EventInv /\ R!Init
  <2>1. Init => EventInv
    BY SMTT(60) DEF Init, EventInv
  <2> QED BY <2>1, InitInv, InitRefines
<1>2. IInv /\ EventInv /\ [Next]_vars => IInv' /\ EventInv'
  BY StepInv, StepEvents
<1>3. IInv /\ IInv' /\ EventInv /\ [Next]_vars => [R!Next]_(R!vars)
  BY StepRefines
<1> QED BY <1>1, <1>2, <1>3, PTL DEF Spec, ImplementsReactor, R!Spec

=============================================================================
