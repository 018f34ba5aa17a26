-------------------------- MODULE ThreadPoolProofs --------------------------
(***************************************************************************)
(* Proofs about ThreadPool, for any number of users, tasks, workers and    *)
(* resources, and about CronScheduler, for any table and any fields.       *)
(***************************************************************************)
EXTENDS ThreadPool, CronScheduler, FiniteSetTheorems, SequenceTheorems, TLAPS

AllExit == \A w \in Workers : worker[w] = "exit"

\* Who may still wait for the workers: while some are left, either a holder of
\* the pool is joining them or no holder is left (the finalizer joins them).
SomeoneJoins == stop => \/ \E u \in holders : user[u] = "join"
                        \/ holders = {}
                        \/ AllExit

JoinedExited == \A u \in Users, w \in Workers : w <= joined[u] => worker[w] = "exit"

ExitStopped == \A w \in Workers : worker[w] = "exit" => stop

\* The inductive invariant of the life of the pool.
LifeInv == /\ TypeOK /\ StopWakesAll /\ SomeoneJoins /\ JoinedExited
           /\ ExitStopped /\ FreedAfterWorkers
           /\ (freed => holders = {})
           /\ (holders = {} => stop)

USE PoolAssumption, ZenonT(60)

\* The workers other than the woken one keep their state, and only a sleeping
\* worker changes.
LEMMA SignalLemma ==
  ASSUME TypeOK, Signal
  PROVE  /\ worker' \in [Workers -> {"top", "wait", "sem", "run", "post", "exit"}]
         /\ \A w \in Workers : \/ worker'[w] = worker[w]
                               \/ worker[w] = "wait" /\ worker'[w] = "top"
BY DEF TypeOK, Signal

\* pthread_cond_broadcast wakes every sleeping worker and touches no other.
LEMMA BroadcastLemma ==
  ASSUME TypeOK, Broadcast
  PROVE  /\ worker' \in [Workers -> {"top", "wait", "sem", "run", "post", "exit"}]
         /\ \A w \in Workers : \/ worker[w] # "wait" /\ worker'[w] = worker[w]
                               \/ worker[w] = "wait" /\ worker'[w] = "top"
BY DEF TypeOK, Broadcast

\* A pool just built satisfies the invariant of its life (new_ThreadPool).
LEMMA LifeInit == Init => LifeInv
<1> SUFFICES ASSUME Init PROVE LifeInv OBVIOUS
<1>1. TypeOK
  <2>1. /\ queue \in Seq(Tasks) /\ sem \in 0 .. MaxResources
        /\ joined \in [Users -> 0 .. NumThreads]
    BY SMTT(60) DEF Init
  <2>2. /\ worker \in [Workers -> {"top", "wait", "sem", "run", "post", "exit"}]
        /\ task \in [Workers -> Tasks \cup {NoTask}]
        /\ user \in [Users -> {"idle", "join", "returned"}]
    BY DEF Init
  <2>3. /\ stop \in BOOLEAN /\ freed \in BOOLEAN /\ holders \subseteq Users
        /\ started \in [Tasks -> Nat] /\ ended \subseteq Tasks /\ late \subseteq Tasks
    BY DEF Init
  <2>4. QED
    BY <2>1, <2>2, <2>3 DEF TypeOK
<1>2. QED
  BY <1>1, SMTT(60) DEF Init, LifeInv, StopWakesAll, SomeoneJoins, JoinedExited,
     ExitStopped, FreedAfterWorkers, TypeOK, Workers

-----------------------------------------------------------------------------
\* The workers between sem_wait and sem_post are finitely many, and counting
\* them follows one worker entering or leaving.
LEMMA BusyFinite == IsFiniteSet(Busy) /\ Cardinality(Busy) \in Nat
<1>1. IsFiniteSet(Workers)
  BY FS_Interval, SMTT(60) DEF Workers
<1>2. Busy \subseteq Workers
  BY DEF Busy
<1>3. QED
  BY <1>1, <1>2, FS_Subset, FS_CardinalityType

\* A step that keeps everyone out of and inside the guarded section keeps the
\* equation of the semaphore.
LEMMA BusySame ==
  ASSUME TypeOK, ResourceBound, sem' = sem,
         \A w \in Workers : worker'[w] \in {"run", "post"} <=> worker[w] \in {"run", "post"}
  PROVE  ResourceBound' /\ sem' \in 0 .. MaxResources
<1>1. Busy' = Busy
  BY DEF Busy
<1>2. QED
  BY <1>1 DEF ResourceBound, TypeOK

\* Every step keeps the equation of the semaphore: permits left plus workers
\* between sem_wait and sem_post equal max_resources (worker_routine).
LEMMA SemStep ==
  ASSUME TypeOK, ResourceBound, [Next]_vars
  PROVE  ResourceBound' /\ sem' \in 0 .. MaxResources
<1>1. CASE UNCHANGED vars
  BY <1>1, BusySame DEF vars
<1>2. ASSUME NEW w \in Workers, Dequeue(w) \/ Sleep(w) \/ Exit(w) \/ Finish(w) \/ SpuriousWakeup(w)
      PROVE  ResourceBound' /\ sem' \in 0 .. MaxResources
  <2>1. sem' = sem
    BY <1>2 DEF Dequeue, Sleep, Exit, Finish, SpuriousWakeup
  <2>2. \A v \in Workers : worker'[v] \in {"run", "post"} <=> worker[v] \in {"run", "post"}
    BY <1>2 DEF Dequeue, Sleep, Exit, Finish, SpuriousWakeup, TypeOK
  <2>3. QED
    BY <2>1, <2>2, BusySame
<1>3. ASSUME NEW w \in Workers, Start(w)
      PROVE  ResourceBound' /\ sem' \in 0 .. MaxResources
  <2>1. Busy' = Busy \cup {w} /\ w \notin Busy
    BY <1>3, SMTT(60) DEF Start, Busy, TypeOK
  <2>2. Cardinality(Busy') = Cardinality(Busy) + 1
    BY <2>1, BusyFinite, FS_AddElement
  <2>3. sem' = sem - 1 /\ sem > 0
    BY <1>3 DEF Start, HasResource
  <2>4. QED
    BY <2>2, <2>3, BusyFinite, SMTT(60) DEF ResourceBound, TypeOK
<1>4. ASSUME NEW w \in Workers, Post(w)
      PROVE  ResourceBound' /\ sem' \in 0 .. MaxResources
  <2>1. Busy' = Busy \ {w} /\ w \in Busy
    BY <1>4 DEF Post, Busy, TypeOK
  <2>2. Cardinality(Busy') = Cardinality(Busy) - 1
    BY <2>1, BusyFinite, FS_RemoveElement
  <2>3. sem' = sem + 1
    BY <1>4 DEF Post, Posted
  <2>4. Cardinality(Busy) > 0
    BY <2>1, BusyFinite, FS_EmptySet, SMTT(60)
  <2>5. QED
    BY <2>2, <2>3, <2>4, BusyFinite, SMTT(60) DEF ResourceBound, TypeOK
<1>5. ASSUME NEW u \in Users, NEW t \in Tasks, submit(u, t)
      PROVE  ResourceBound' /\ sem' \in 0 .. MaxResources
  BY <1>5, SignalLemma, BusySame DEF submit
<1>6. ASSUME NEW u \in Users, shutdown(u) \/ Join(u) \/ JoinEnd(u) \/ Release(u)
      PROVE  ResourceBound' /\ sem' \in 0 .. MaxResources
  <2>1. sem' = sem
    BY <1>6 DEF shutdown, Join, JoinEnd, Release
  <2>2. UNCHANGED worker \/ Broadcast
    BY <1>6 DEF shutdown, Join, JoinEnd, Release, Stopping
  <2>3. QED
    BY <2>1, <2>2, BroadcastLemma, BusySame
<1>7. CASE Done
  BY <1>7, <1>1 DEF Done
<1>8. QED
  BY <1>1, <1>2, <1>3, <1>4, <1>5, <1>6, <1>7 DEF Next, WorkerStep, UserStep

-----------------------------------------------------------------------------
\* A worker holds a task from the dequeue to the release of it.
Held == \A w \in Workers : worker[w] \in {"sem", "run", "post"} <=> task[w] # NoTask

\* Every step keeps the types and that a worker holds a task exactly from the
\* dequeue to the sem_post (worker_routine).
LEMMA TypeStep ==
  ASSUME TypeOK, Held, [Next]_vars, sem' \in 0 .. MaxResources
  PROVE  TypeOK'
<1>1. CASE UNCHANGED vars
  BY <1>1 DEF vars, TypeOK
<1>2. ASSUME NEW w \in Workers, Dequeue(w)
      PROVE  TypeOK'
  <2>1. Head(queue) \in Tasks /\ Tail(queue) \in Seq(Tasks)
    BY <1>2, SMTT(60) DEF Dequeue, TypeOK
  <2>2. QED
    BY <1>2, <2>1 DEF Dequeue, Taken, TypeOK
<1>3. ASSUME NEW w \in Workers, Sleep(w) \/ Exit(w) \/ SpuriousWakeup(w)
      PROVE  TypeOK'
  BY <1>3 DEF Sleep, Exit, SpuriousWakeup, TypeOK
<1>4. ASSUME NEW w \in Workers, Start(w)
      PROVE  TypeOK'
  <2>1. task[w] \in Tasks
    BY <1>4 DEF Start, TypeOK, Held
  <2>2. started' \in [Tasks -> Nat]
    BY <1>4, <2>1, SMTT(60) DEF Start, TypeOK
  <2>3. QED
    BY <1>4, <2>2 DEF Start, TypeOK
<1>5. ASSUME NEW w \in Workers, Finish(w)
      PROVE  TypeOK'
  <2>1. task[w] \in Tasks
    BY <1>5 DEF Finish, TypeOK, Held
  <2>2. QED
    BY <1>5, <2>1 DEF Finish, TypeOK
<1>6. ASSUME NEW w \in Workers, Post(w)
      PROVE  TypeOK'
  BY <1>6 DEF Post, TypeOK
<1>7. ASSUME NEW u \in Users, NEW t \in Tasks, submit(u, t)
      PROVE  TypeOK'
  <2>1. queue' \in Seq(Tasks) /\ late' \subseteq Tasks
    BY <1>7, SMTT(60) DEF submit, TypeOK
  <2>2. QED
    BY <1>7, <2>1, SignalLemma DEF submit, TypeOK
<1>8. ASSUME NEW u \in Users, shutdown(u) \/ Release(u)
      PROVE  TypeOK'
  <2>1. worker' \in [Workers -> {"top", "wait", "sem", "run", "post", "exit"}]
    BY <1>8, BroadcastLemma DEF shutdown, Release, Stopping, TypeOK
  <2>2. user' \in [Users -> {"idle", "join", "returned"}] /\ stop' \in BOOLEAN
    BY <1>8 DEF shutdown, Release, Stopping, TypeOK
  <2>3. holders' \subseteq Users /\ freed' \in BOOLEAN
    BY <1>8 DEF shutdown, Release, Stopping, TypeOK
  <2>4. QED
    BY <1>8, <2>1, <2>2, <2>3 DEF shutdown, Release, TypeOK
<1>9. ASSUME NEW u \in Users, Join(u) \/ JoinEnd(u)
      PROVE  TypeOK'
  <2>1. joined' \in [Users -> 0 .. NumThreads]
    BY <1>9, SMTT(60) DEF Join, JoinEnd, TypeOK
  <2>2. user' \in [Users -> {"idle", "join", "returned"}] /\ freed' \in BOOLEAN
    BY <1>9 DEF Join, JoinEnd, TypeOK
  <2>3. QED
    BY <1>9, <2>1, <2>2 DEF Join, JoinEnd, TypeOK
<1>10. CASE Done
  BY <1>10, <1>1 DEF Done
<1>11. QED
  BY <1>1, <1>2, <1>3, <1>4, <1>5, <1>6, <1>7, <1>8, <1>9, <1>10, SMTT(60) DEF Next,
     WorkerStep, UserStep

-----------------------------------------------------------------------------
\* The step of the invariant of the pool's life, one action at a time.
LEMMA LifeStep ==
  ASSUME LifeInv, [Next]_vars, TypeOK'
  PROVE  LifeInv'
<1> USE DEF LifeInv
<1>1. CASE UNCHANGED vars
  BY <1>1 DEF vars, StopWakesAll, SomeoneJoins, JoinedExited, ExitStopped,
     FreedAfterWorkers, AllExit
<1>2. ASSUME NEW w \in Workers,
             \/ Dequeue(w) \/ Sleep(w) \/ SpuriousWakeup(w)
             \/ Start(w) \/ Finish(w) \/ Post(w)
      PROVE  LifeInv'
  <2>1. /\ UNCHANGED <<stop, user, joined, holders, freed>>
        /\ worker[w] # "exit" /\ worker'[w] # "exit"
        /\ \A v \in Workers \ {w} : worker'[v] = worker[v]
        /\ worker'[w] = "wait" => ~stop
    BY <1>2, SMTT(60) DEF Dequeue, Sleep, SpuriousWakeup, Start, Finish, Post, TypeOK
  <2>2. QED
    BY <2>1 DEF StopWakesAll, SomeoneJoins, JoinedExited, ExitStopped, FreedAfterWorkers,
       AllExit
<1>3. ASSUME NEW w \in Workers, Exit(w)
      PROVE  LifeInv'
  <2>1. /\ UNCHANGED <<stop, user, joined, holders, freed>> /\ stop
        /\ worker'[w] = "exit"
        /\ \A v \in Workers \ {w} : worker'[v] = worker[v]
    BY <1>3 DEF Exit, Leaves, TypeOK
  <2>2. QED
    BY <2>1 DEF StopWakesAll, SomeoneJoins, JoinedExited, ExitStopped, FreedAfterWorkers,
       AllExit
<1>4. ASSUME NEW u \in Users, NEW t \in Tasks, submit(u, t)
      PROVE  LifeInv'
  <2>1. UNCHANGED <<stop, user, joined, holders, freed>>
    BY <1>4 DEF submit
  <2>2. \A w \in Workers : \/ worker'[w] = worker[w]
                           \/ worker[w] = "wait" /\ worker'[w] = "top"
    BY <1>4, SignalLemma DEF submit
  <2>3. QED
    BY <2>1, <2>2 DEF StopWakesAll, SomeoneJoins, JoinedExited, ExitStopped,
       FreedAfterWorkers, AllExit
<1>5. ASSUME NEW u \in Users, shutdown(u)
      PROVE  LifeInv'
  <2>1. CASE stop
    BY <1>5, <2>1 DEF shutdown, StopWakesAll, SomeoneJoins, JoinedExited, ExitStopped,
       FreedAfterWorkers, AllExit, TypeOK
  <2>2. CASE ~stop
    <3>1. /\ stop' /\ user'[u] = "join" /\ u \in holders' /\ ~freed
          /\ UNCHANGED <<joined, holders, freed>>
      BY <1>5, <2>2 DEF shutdown, Stopping, TypeOK
    <3>2. \A w \in Workers : \/ worker[w] # "wait" /\ worker'[w] = worker[w]
                             \/ worker[w] = "wait" /\ worker'[w] = "top"
      BY <1>5, <2>2, BroadcastLemma DEF shutdown, Stopping
    <3>3. QED
      BY <3>1, <3>2 DEF StopWakesAll, SomeoneJoins, JoinedExited, ExitStopped,
         FreedAfterWorkers, AllExit
  <2>3. QED
    BY <2>1, <2>2
<1>6. ASSUME NEW u \in Users, Join(u)
      PROVE  LifeInv'
  <2>1. /\ UNCHANGED <<stop, worker, user, holders, freed>>
        /\ worker[joined[u] + 1] = "exit"
        /\ joined' = [joined EXCEPT ![u] = @ + 1]
    BY <1>6 DEF Join, Joinable
  <2>2. JoinedExited'
    BY <2>1, SMTT(60) DEF JoinedExited, TypeOK, Workers
  <2>3. QED
    BY <2>1, <2>2 DEF StopWakesAll, SomeoneJoins, ExitStopped, FreedAfterWorkers, AllExit
<1>7. ASSUME NEW u \in Users, JoinEnd(u)
      PROVE  LifeInv'
  <2>1. AllExit
    BY <1>7, SMTT(60) DEF JoinEnd, JoinedExited, AllExit, Workers
  <2>2. /\ UNCHANGED <<stop, worker, joined, holders>>
        /\ freed' = (holders = {})
    BY <1>7 DEF JoinEnd
  <2>3. QED
    BY <2>1, <2>2 DEF StopWakesAll, SomeoneJoins, JoinedExited, ExitStopped,
       FreedAfterWorkers, AllExit
<1>8. ASSUME NEW u \in Users, Release(u)
      PROVE  LifeInv'
  <2>1. CASE holders \ {u} # {}
    BY <1>8, <2>1 DEF Release, StopWakesAll, SomeoneJoins, JoinedExited, ExitStopped,
       FreedAfterWorkers, AllExit, TypeOK
  <2>2. CASE holders \ {u} = {} /\ stop
    <3>1. AllExit
      BY <1>8, <2>2 DEF Release, SomeoneJoins
    <3>2. QED
      BY <1>8, <2>2, <3>1 DEF Release, StopWakesAll, SomeoneJoins, JoinedExited,
         ExitStopped, FreedAfterWorkers, AllExit
  <2>3. CASE holders \ {u} = {} /\ ~stop
    <3>1. stop' /\ holders' = {} /\ UNCHANGED <<joined, freed>> /\ ~freed
      BY <1>8, <2>3 DEF Release, Stopping
    <3>2. \A w \in Workers : \/ worker[w] # "wait" /\ worker'[w] = worker[w]
                             \/ worker[w] = "wait" /\ worker'[w] = "top"
      BY <1>8, <2>3, BroadcastLemma DEF Release, Stopping
    <3>3. QED
      BY <3>1, <3>2 DEF StopWakesAll, SomeoneJoins, JoinedExited, ExitStopped,
         FreedAfterWorkers, AllExit
  <2>4. QED
    BY <2>1, <2>2, <2>3
<1>9. CASE Done
  BY <1>9, <1>1 DEF Done
<1>10. QED
  BY <1>1, <1>2, <1>3, <1>4, <1>5, <1>6, <1>7, <1>8, <1>9 DEF Next, WorkerStep, UserStep

-----------------------------------------------------------------------------
\* Where a task can be: in the queue, with one worker, or behind it.
QueueInv == /\ \A i \in 1 .. Len(queue) : started[queue[i]] = 0
            /\ \A i \in 1 .. Len(queue), w \in Workers : task[w] # queue[i]
            /\ \A i, j \in 1 .. Len(queue) : queue[i] = queue[j] => i = j

HolderInv == /\ \A w \in Workers : worker[w] = "sem" => started[task[w]] = 0
             /\ \A w \in Workers : worker[w] \in {"run", "post"} => started[task[w]] = 1
             /\ \A w \in Workers : worker[w] = "post" => task[w] \in ended
             /\ \A v, w \in Workers : task[v] = task[w] /\ task[v] # NoTask => v = w

\* A started task either ended or is still run by a worker; what is left in the
\* queue after a worker left the pool came after stop.
EndInv == /\ \A t \in Tasks : /\ started[t] <= 1
                              /\ started[t] = 1 =>
                                   \/ t \in ended
                                   \/ \E w \in Workers : task[w] = t /\ worker[w] = "run"
          /\ \A w \in Workers : worker[w] = "exit" =>
               \A i \in 1 .. Len(queue) : queue[i] \in late

TaskInv == Held /\ QueueInv /\ HolderInv /\ EndInv

\* No task is queued, held or ended in a pool just built.
LEMMA TaskInit == Init => TaskInv
BY SMTT(60) DEF Init, TaskInv, Held, QueueInv, HolderInv, EndInv

\* Taking the head of the queue moves the others up by one place.
LEMMA TailPlaces ==
  ASSUME NEW S, NEW q \in Seq(S), q # <<>>
  PROVE  /\ Len(q) \in Nat \ {0} /\ Len(Tail(q)) = Len(q) - 1
         /\ Head(q) = q[1] /\ Head(q) \in S /\ Tail(q) \in Seq(S)
         /\ \A i \in 1 .. Len(Tail(q)) : Tail(q)[i] = q[i + 1] /\ i + 1 \in 1 .. Len(q)
BY SMTT(60)

\* Appending a task at the tail of the queue keeps the places of the others.
LEMMA AppendPlaces ==
  ASSUME NEW S, NEW q \in Seq(S), NEW e \in S
  PROVE  /\ Append(q, e) \in Seq(S)
         /\ \A i \in 1 .. Len(Append(q, e)) :
              \/ i \in 1 .. Len(q) /\ Append(q, e)[i] = q[i]
              \/ i = Len(q) + 1 /\ Append(q, e)[i] = e
BY SMTT(60)

\* Every step keeps each task in one place: queued, held by one worker, or ended.
LEMMA TaskStep ==
  ASSUME TypeOK, TaskInv, ExitStopped, [Next]_vars
  PROVE  TaskInv'
<1> USE DEF TaskInv
<1>1. CASE UNCHANGED vars
  BY <1>1, SMTT(60) DEF vars, Held, QueueInv, HolderInv, EndInv
<1>2. ASSUME NEW w \in Workers, Dequeue(w)
      PROVE  TaskInv'
  <2>1. /\ queue # <<>> /\ worker[w] = "top" /\ queue' = Tail(queue)
        /\ task' = [task EXCEPT ![w] = Head(queue)]
        /\ worker' = [worker EXCEPT ![w] = "sem"]
        /\ UNCHANGED <<started, ended, late>>
    BY <1>2 DEF Dequeue, Taken
  <2>2. /\ Len(queue) \in Nat \ {0} /\ Len(queue') = Len(queue) - 1
        /\ Head(queue) = queue[1] /\ Head(queue) \in Tasks
        /\ \A i \in 1 .. Len(queue') : queue'[i] = queue[i + 1] /\ i + 1 \in 1 .. Len(queue)
    BY <2>1, TailPlaces DEF TypeOK
  <2>3. task[w] = NoTask
    BY <2>1 DEF Held
  <2>4. Held'
    BY <2>1, <2>2 DEF Held, TypeOK
  <2>5. QueueInv'
    BY <2>1, <2>2, SMTT(60) DEF QueueInv, TypeOK
  <2>6. HolderInv'
    BY <2>1, <2>2, SMTT(60) DEF HolderInv, QueueInv, TypeOK
  <2>7. EndInv'
    BY <2>1, <2>2, <2>3, SMTT(60) DEF EndInv, TypeOK
  <2>8. QED
    BY <2>4, <2>5, <2>6, <2>7
<1>3. ASSUME NEW w \in Workers, Sleep(w) \/ SpuriousWakeup(w)
      PROVE  TaskInv'
  <2>1. /\ UNCHANGED <<queue, task, started, ended, late>>
        /\ worker[w] \in {"top", "wait"} /\ worker'[w] \in {"top", "wait"}
        /\ \A v \in Workers \ {w} : worker'[v] = worker[v]
    BY <1>3 DEF Sleep, SpuriousWakeup, TypeOK
  <2>2. QED
    BY <2>1, SMTT(60) DEF Held, QueueInv, HolderInv, EndInv
<1>4. ASSUME NEW w \in Workers, Exit(w)
      PROVE  TaskInv'
  <2>1. /\ UNCHANGED <<queue, task, started, ended, late>> /\ queue = <<>>
        /\ worker[w] = "top" /\ worker'[w] = "exit"
        /\ \A v \in Workers \ {w} : worker'[v] = worker[v]
    BY <1>4 DEF Exit, Leaves, TypeOK
  <2>2. QED
    BY <2>1, SMTT(60) DEF Held, QueueInv, HolderInv, EndInv
<1>5. ASSUME NEW w \in Workers, Start(w)
      PROVE  TaskInv'
  <2>1. /\ UNCHANGED <<queue, task, ended, late>> /\ task[w] \in Tasks
        /\ worker[w] = "sem" /\ worker'[w] = "run"
        /\ \A v \in Workers \ {w} : worker'[v] = worker[v]
    BY <1>5 DEF Start, TypeOK, Held
  <2>2. /\ started[task[w]] = 0 /\ started'[task[w]] = 1
        /\ \A t \in Tasks \ {task[w]} : started'[t] = started[t]
    BY <1>5, <2>1, SMTT(60) DEF Start, TypeOK, HolderInv
  <2>3. Held'
    BY <2>1 DEF Held
  <2>4. QueueInv'
    BY <2>1, <2>2, SMTT(60) DEF QueueInv, TypeOK
  <2>5. HolderInv'
    <3>1. \A v \in Workers \ {w} : task[v] # NoTask => task[v] \in Tasks \ {task[w]}
      BY <2>1 DEF HolderInv, TypeOK
    <3>2. \A v \in Workers : worker'[v] = "sem" => started'[task[v]] = 0
      BY <2>1, <2>2, <3>1 DEF HolderInv, Held
    <3>3. \A v \in Workers : worker'[v] \in {"run", "post"} => started'[task[v]] = 1
      BY <2>1, <2>2, <3>1, SMTT(60) DEF HolderInv, Held
    <3>4. \A v \in Workers : worker'[v] = "post" => task[v] \in ended
      BY <2>1 DEF HolderInv
    <3>5. QED
      BY <2>1, <3>2, <3>3, <3>4 DEF HolderInv
  <2>6. EndInv'
    <3>1. \A t \in Tasks \ {task[w]} : started'[t] = 1 =>
             t \in ended \/ \E v \in Workers \ {w} : task[v] = t /\ worker'[v] = "run"
      BY <2>1, <2>2, SMTT(60) DEF EndInv
    <3>2. \A t \in Tasks : started'[t] <= 1
      BY <2>2, SMTT(60) DEF EndInv
    <3>3. \A v \in Workers : worker'[v] = "exit" =>
             \A i \in 1 .. Len(queue) : queue[i] \in late
      BY <2>1, SMTT(60) DEF EndInv
    <3>4. \E v \in Workers : task[v] = task[w] /\ worker'[v] = "run"
      BY <2>1
    <3>5. \A t \in Tasks : started'[t] = 1 =>
             t \in ended \/ \E v \in Workers : task[v] = t /\ worker'[v] = "run"
      BY <3>1, <3>4
    <3>6. QED
      BY <2>1, <3>2, <3>3, <3>5, SMTT(60) DEF EndInv
  <2>7. QED
    BY <2>3, <2>4, <2>5, <2>6
<1>6. ASSUME NEW w \in Workers, Finish(w)
      PROVE  TaskInv'
  <2>1. /\ UNCHANGED <<queue, task, started, late>>
        /\ ended' = ended \cup {task[w]}
        /\ worker[w] = "run" /\ worker'[w] = "post"
        /\ \A v \in Workers \ {w} : worker'[v] = worker[v]
    BY <1>6 DEF Finish, TypeOK
  <2>2. Held' /\ QueueInv'
    BY <2>1 DEF Held, QueueInv
  <2>3. HolderInv'
    BY <2>1 DEF HolderInv
  <2>4. EndInv'
    BY <2>1, SMTT(60) DEF EndInv
  <2>5. QED
    BY <2>2, <2>3, <2>4
<1>7. ASSUME NEW w \in Workers, Post(w)
      PROVE  TaskInv'
  <2>1. /\ UNCHANGED <<queue, started, ended, late>>
        /\ worker[w] = "post" /\ worker'[w] = "top" /\ task'[w] = NoTask
        /\ \A v \in Workers \ {w} : worker'[v] = worker[v] /\ task'[v] = task[v]
    BY <1>7 DEF Post, TypeOK
  <2>2. Held' /\ HolderInv'
    BY <2>1, SMTT(60) DEF Held, HolderInv
  <2>3. QueueInv'
    <3>1. \A i \in 1 .. Len(queue) : queue[i] \in Tasks
      BY SMTT(60) DEF TypeOK
    <3>2. QED
      BY <2>1, <3>1, SMTT(60) DEF QueueInv
  <2>4. EndInv'
    BY <2>1, SMTT(60) DEF EndInv
  <2>5. QED
    BY <2>2, <2>3, <2>4
<1>8. ASSUME NEW u \in Users, NEW t \in Tasks, submit(u, t)
      PROVE  TaskInv'
  <2>1. /\ UNCHANGED <<stop, task, started, ended>> /\ Fresh(t)
        /\ late' = IF stop THEN late \cup {t} ELSE late
        /\ queue' = Append(queue, t)
    BY <1>8 DEF submit
  <2>2. \A w \in Workers : \/ worker'[w] = worker[w]
                           \/ worker[w] = "wait" /\ worker'[w] = "top"
    BY <1>8, SignalLemma DEF submit
  <2>3. \A i \in 1 .. Len(queue') : \/ i \in 1 .. Len(queue) /\ queue'[i] = queue[i]
                                    \/ i = Len(queue) + 1 /\ queue'[i] = t
    BY <2>1, AppendPlaces DEF TypeOK
  <2>4. Held' /\ HolderInv'
    BY <2>1, <2>2 DEF Held, HolderInv
  <2>5. QueueInv'
    <3>1. /\ \A i \in 1 .. Len(queue') : started'[queue'[i]] = 0
          /\ \A i \in 1 .. Len(queue'), v \in Workers : task'[v] # queue'[i]
      BY <2>1, <2>3, SMTT(60) DEF QueueInv, Fresh
    <3>2. \A i, j \in 1 .. Len(queue') : queue'[i] = queue'[j] => i = j
      BY <2>1, <2>3, SMTT(60) DEF QueueInv, Fresh
    <3>3. QED
      BY <3>1, <3>2 DEF QueueInv
  <2>6. EndInv'
    <3>1. \A v \in Workers : worker'[v] = "exit" => worker[v] = "exit" /\ stop
      BY <2>2 DEF ExitStopped
    <3>2. \A v \in Workers : worker'[v] = "exit" =>
             \A i \in 1 .. Len(queue') : queue'[i] \in late'
      BY <2>1, <2>3, <3>1 DEF EndInv
    <3>3. \A v \in Workers : worker[v] = "run" => worker'[v] = "run"
      BY <2>2
    <3>4. QED
      BY <2>1, <3>2, <3>3 DEF EndInv
  <2>7. QED
    BY <2>4, <2>5, <2>6
<1>9. ASSUME NEW u \in Users, shutdown(u) \/ Join(u) \/ JoinEnd(u) \/ Release(u)
      PROVE  TaskInv'
  <2>1. UNCHANGED <<queue, task, started, ended, late>>
    BY <1>9 DEF shutdown, Join, JoinEnd, Release
  <2>2. UNCHANGED worker \/ Broadcast
    BY <1>9 DEF shutdown, Join, JoinEnd, Release, Stopping
  <2>3. \A w \in Workers : \/ worker'[w] = worker[w]
                           \/ worker[w] = "wait" /\ worker'[w] = "top"
    BY <2>2, BroadcastLemma
  <2>4. Held' /\ QueueInv'
    BY <2>1, <2>3 DEF Held, QueueInv
  <2>5. HolderInv'
    BY <2>1, <2>3 DEF HolderInv
  <2>6. EndInv'
    BY <2>1, <2>3, SMTT(60) DEF EndInv
  <2>7. QED
    BY <2>4, <2>5, <2>6
<1>10. CASE Done
  BY <1>10, <1>1 DEF Done
<1>11. QED
  BY <1>1, <1>2, <1>3, <1>4, <1>5, <1>6, <1>7, <1>8, <1>9, <1>10 DEF Next, WorkerStep,
     UserStep

-----------------------------------------------------------------------------
IInv == LifeInv /\ ResourceBound /\ TaskInv

\* The inductive invariant holds of a pool just built.
LEMMA IInvInit == Init => IInv
<1>1. ASSUME Init PROVE ResourceBound
  <2>1. Busy = {}
    BY <1>1 DEF Init, Busy
  <2>2. QED
    BY <1>1, <2>1, FS_EmptySet, SMTT(60) DEF Init, ResourceBound
<1>2. QED
  BY <1>1, LifeInit, TaskInit DEF IInv

\* Every step of a worker or of a user keeps the inductive invariant.
LEMMA IInvStep == IInv /\ [Next]_vars => IInv'
<1> SUFFICES ASSUME IInv, [Next]_vars PROVE IInv' OBVIOUS
<1>1. ResourceBound' /\ sem' \in 0 .. MaxResources
  BY SemStep DEF IInv, LifeInv
<1>2. TypeOK'
  BY <1>1, TypeStep DEF IInv, LifeInv, TaskInv
<1>3. LifeInv'
  BY <1>2, LifeStep DEF IInv
<1>4. TaskInv'
  BY TaskStep DEF IInv, LifeInv
<1>5. QED
  BY <1>1, <1>3, <1>4 DEF IInv

\* The inductive invariant holds in every reachable state of the pool.
LEMMA InvariantHolds == Spec => []IInv
BY IInvInit, IInvStep, PTL DEF Spec

\* No worker uses the pool after ThreadPool_Finalize, none sleeps through a
\* shutdown, and the semaphore bounds the running tasks (worker_routine,
\* impl_shutdown, ThreadPool_Finalize).
THEOREM PoolIsSafe == Spec => [](TypeOK /\ FreedAfterWorkers /\ StopWakesAll /\ ResourceBound)
<1>1. IInv => TypeOK /\ FreedAfterWorkers /\ StopWakesAll /\ ResourceBound
  BY DEF IInv, LifeInv
<1>2. QED
  BY <1>1, InvariantHolds, PTL

\* No task is started twice, however workers and users interleave.
THEOREM TasksStartOnce == Spec => []StartedOnce
<1>1. IInv => StartedOnce
  <2> SUFFICES ASSUME IInv PROVE StartedOnce OBVIOUS
  <2>1. \A i \in 1 .. Len(queue) : queue[i] \in Tasks
    BY SMTT(60) DEF IInv, LifeInv, TypeOK
  <2>2. QED
    BY <2>1, SMTT(60) DEF IInv, TaskInv, EndInv, QueueInv, StartedOnce
<1>2. QED
  BY <1>1, InvariantHolds, PTL

\* The joining shutdown returns only when every task submitted before it ended.
THEOREM ShutdownDrains == Spec => []JoinedIsFinished
<1>1. IInv => JoinedIsFinished
  <2> SUFFICES ASSUME IInv, NEW u \in Users, joined[u] = NumThreads, NumThreads > 0
               PROVE  /\ \A t \in Tasks : started[t] > 0 => t \in ended
                      /\ \A i \in 1 .. Len(queue) : queue[i] \in late
    BY DEF JoinedIsFinished
  <2>1. \A w \in Workers : worker[w] = "exit"
    BY SMTT(60) DEF IInv, LifeInv, JoinedExited, Workers
  <2>2. \A i \in 1 .. Len(queue) : queue[i] \in late
    BY <2>1, SMTT(60) DEF IInv, TaskInv, EndInv, Workers
  <2>3. ASSUME NEW t \in Tasks, started[t] > 0 PROVE t \in ended
    <3>1. started[t] = 1
      BY <2>3, SMTT(60) DEF IInv, LifeInv, TypeOK, TaskInv, EndInv
    <3>2. QED
      BY <2>1, <3>1 DEF IInv, TaskInv, EndInv
  <2>4. QED
    BY <2>2, <2>3
<1>2. QED
  BY <1>1, InvariantHolds, PTL

\* All of it: the pool is safe for every number of threads, users, tasks and
\* resources (threadpool.c).
THEOREM PoolIsSound == Spec => []PoolSafe
<1>1. TypeOK /\ FreedAfterWorkers /\ StopWakesAll /\ ResourceBound
        /\ StartedOnce /\ JoinedIsFinished => PoolSafe
  BY DEF PoolSafe
<1>2. QED
  BY <1>1, PoolIsSafe, TasksStartOnce, ShutdownDrains, PTL

-----------------------------------------------------------------------------
(* ThreadPool implements TaskPool.  A task that ended was started, and the  *)
(* task a worker runs has not ended: so the end of a run is the end of a    *)
(* running task.                                                            *)

RunInv == /\ \A t \in ended : started[t] = 1
          /\ \A w \in Workers : worker[w] = "run" => task[w] \notin ended

PInv == IInv /\ RunInv

\* Starting puts a task that never ended into a worker's hands, finishing takes
\* it out of them; no other step touches started, ended or the running workers.
LEMMA RunStep ==
  ASSUME IInv, RunInv, [Next]_vars
  PROVE  RunInv'
<1> USE DEF RunInv
<1>1. ASSUME NEW w \in Workers, Start(w)
      PROVE  RunInv'
  <2>1. /\ task[w] \in Tasks /\ started[task[w]] = 0
        /\ worker[w] = "sem" /\ UNCHANGED <<task, ended>>
        /\ started' = [started EXCEPT ![task[w]] = @ + 1]
        /\ worker' = [worker EXCEPT ![w] = "run"]
    BY <1>1, SMTT(60) DEF Start, IInv, LifeInv, TypeOK, TaskInv, Held, HolderInv
  <2> QED  BY <2>1, SMTT(60) DEF IInv, LifeInv, TypeOK
<1>2. ASSUME NEW w \in Workers, Finish(w)
      PROVE  RunInv'
  <2>1. /\ task[w] # NoTask /\ started[task[w]] = 1
        /\ worker[w] = "run" /\ UNCHANGED <<task, started>>
        /\ ended' = ended \cup {task[w]}
        /\ worker' = [worker EXCEPT ![w] = "post"]
    BY <1>2 DEF Finish, IInv, LifeInv, TypeOK, TaskInv, Held, HolderInv
  <2>2. \A v \in Workers : v # w => task[v] # task[w]
    BY <2>1 DEF IInv, TaskInv, HolderInv
  <2> QED  BY <2>1, <2>2 DEF IInv, LifeInv, TypeOK
<1>3. ASSUME UNCHANGED <<started, ended>>,
             \A w \in Workers : worker'[w] = "run" => worker[w] = "run" /\ task'[w] = task[w]
      PROVE  RunInv'
  BY <1>3
<1>4. ASSUME NEW w \in Workers, Dequeue(w) \/ Sleep(w) \/ SpuriousWakeup(w) \/ Exit(w) \/ Post(w)
      PROVE  RunInv'
  BY <1>3, <1>4, SMTT(60) DEF Dequeue, Sleep, SpuriousWakeup, Exit, Post, IInv, LifeInv,
     TypeOK
<1>5. ASSUME NEW u \in Users, UserStep(u)
      PROVE  RunInv'
  <2>1. UNCHANGED <<started, ended, task>>
    BY <1>5 DEF UserStep, submit, shutdown, Join, JoinEnd, Release
  <2>2. Signal \/ Broadcast \/ UNCHANGED worker
    BY <1>5 DEF UserStep, submit, shutdown, Join, JoinEnd, Release, Stopping
  <2>3. \A w \in Workers : worker'[w] = "run" => worker[w] = "run"
    BY <2>2 DEF Signal, Broadcast, IInv, LifeInv, TypeOK
  <2> QED  BY <1>3, <2>1, <2>3
<1>6. CASE UNCHANGED vars
  BY <1>6 DEF vars
<1> QED
  BY <1>1, <1>2, <1>4, <1>5, <1>6 DEF Next, WorkerStep, Done

\* RunInv holds in every reachable state of the pool.
LEMMA PoolInvariant == Spec => []PInv
<1>1. Init => RunInv
  BY DEF Init, RunInv
<1>2. IInv /\ RunInv /\ [Next]_vars => RunInv'
  BY RunStep
<1> QED  BY <1>1, <1>2, IInvInit, IInvStep, PTL DEF Spec, PInv

\* A task runs, to the user of the pool, while a worker runs it.
LEMMA RunningHeld ==
  ASSUME PInv
  PROVE  \A t \in P!Running : \E w \in Workers : task[w] = t /\ worker[w] = "run"
<1> SUFFICES ASSUME NEW t \in P!Running
             PROVE  \E w \in Workers : task[w] = t /\ worker[w] = "run"
  OBVIOUS
<1>1. t \in Tasks /\ Status(t) = "running"
  BY DEF P!Running
<1>2. t \notin ended /\ started[t] > 0
  BY <1>1 DEF Status
<1> QED  BY <1>1, <1>2, SMTT(60) DEF PInv, IInv, LifeInv, TypeOK, TaskInv, EndInv

\* resourceSem bounds them: a worker that passes the semaphore finds fewer than
\* max_resources tasks running.
LEMMA RoomToRun ==
  ASSUME PInv, sem > 0
  PROVE  Cardinality(P!Running) < MaxResources
<1> DEFINE R == P!Running
           S == {w \in Busy : task[w] \in R}
           f == [w \in S |-> task[w]]
<1>1. IsFiniteSet(S) /\ Cardinality(S) <= Cardinality(Busy) /\ Cardinality(S) \in Nat
  BY BusyFinite, FS_Subset, FS_CardinalityType
<1>2. \A t \in R : \E w \in S : f[w] = t
  BY RunningHeld DEF Busy
<1>3. f \in Surjection(S, R)
  BY <1>2 DEF Surjection
<1>4. IsFiniteSet(R) /\ Cardinality(R) <= Cardinality(S)
  BY <1>1, <1>3, FS_Surjection
<1>5. Cardinality(R) \in Nat /\ Cardinality(Busy) \in Nat
  BY <1>4, FS_CardinalityType, BusyFinite
<1>6. sem \in Nat /\ sem + Cardinality(Busy) = MaxResources
  BY SMTT(60) DEF PInv, IInv, LifeInv, TypeOK, ResourceBound
<1> QED  BY <1>1, <1>4, <1>5, <1>6, SMTT(60)

\* A step that only moves tasks about, in the queue and among the workers, is
\* not seen by the users of the pool.
LEMMA NotSeen ==
  ASSUME UNCHANGED <<started, ended>>,
         \A t \in Tasks : started[t] = 0 => (Fresh(t)' <=> Fresh(t)),
         PInv
  PROVE  [t \in Tasks |-> Status(t)]' = [t \in Tasks |-> Status(t)]
<1>1. ASSUME NEW t \in Tasks PROVE Status(t)' = Status(t)
  <2>1. CASE started[t] = 0
    BY <2>1 DEF Status
  <2>2. CASE started[t] > 0
    BY <2>2 DEF Status
  <2>3. started[t] \in Nat
    BY DEF PInv, IInv, LifeInv, TypeOK
  <2> QED  BY <2>1, <2>2, <2>3, SMTT(60)
<1> QED  BY <1>1

\* worker_routine takes a task out of the queue: it is no more fresh than before.
LEMMA DequeueNotSeen ==
  ASSUME PInv, NEW w \in Workers, Dequeue(w)
  PROVE  UNCHANGED P!vars
<1>1. /\ queue # <<>> /\ worker[w] = "top" /\ queue' = Tail(queue)
      /\ task' = [task EXCEPT ![w] = Head(queue)]
      /\ UNCHANGED <<started, ended, freed>>
  BY DEF Dequeue, Taken
<1>2. /\ queue \in Seq(Tasks) /\ task \in [Workers -> Tasks \cup {NoTask}]
      /\ task[w] = NoTask
  <2>1. TypeOK /\ Held
    BY DEF PInv, IInv, LifeInv, TaskInv
  <2>2. task[w] = NoTask
    BY <1>1, <2>1 DEF Held
  <2> QED  BY <2>1, <2>2 DEF TypeOK
<1>3. /\ Len(queue) \in Nat \ {0} /\ Len(queue') = Len(queue) - 1
      /\ Head(queue) = queue[1] /\ Head(queue) \in Tasks
      /\ \A i \in 1 .. Len(queue') : queue'[i] = queue[i + 1] /\ i + 1 \in 1 .. Len(queue)
  BY <1>1, <1>2, TailPlaces
<1>4. \A i \in 1 .. Len(queue) : i = 1 \/ (i - 1 \in 1 .. Len(queue') /\ queue'[i - 1] = queue[i])
  BY <1>3, SMTT(60)
<1>5. ASSUME NEW t \in Tasks PROVE Fresh(t)' <=> Fresh(t)
  <2>1. CASE t = Head(queue)
    <3>1. ~Fresh(t)
      BY <1>3, <2>1, SMTT(60) DEF Fresh
    <3>2. task'[w] = t
      BY <1>1, <1>2, <2>1
    <3> QED  BY <3>1, <3>2 DEF Fresh
  <2>2. CASE t # Head(queue)
    <3>1. (\A i \in 1 .. Len(queue') : queue'[i] # t) <=> (\A i \in 1 .. Len(queue) : queue[i] # t)
      <4>1. ASSUME \A i \in 1 .. Len(queue') : queue'[i] # t, NEW i \in 1 .. Len(queue)
            PROVE  queue[i] # t
        BY <1>3, <1>4, <2>2, <4>1
      <4>2. ASSUME \A i \in 1 .. Len(queue) : queue[i] # t, NEW i \in 1 .. Len(queue')
            PROVE  queue'[i] # t
        BY <1>3, <4>2
      <4> QED  BY <4>1, <4>2
    <3>2. (\A v \in Workers : task'[v] # t) <=> (\A v \in Workers : task[v] # t)
      BY <1>1, <1>2, <2>2
    <3> QED  BY <1>1, <3>1, <3>2 DEF Fresh
  <2> QED  BY <2>1, <2>2
<1> QED  BY <1>1, <1>5, NotSeen DEF P!vars

\* The call of a task is the start of a queued one.
LEMMA StartSeen ==
  ASSUME PInv, NEW w \in Workers, Start(w)
  PROVE  task[w] \in Tasks /\ P!Start(task[w])
<1>1. /\ worker[w] = "sem" /\ sem > 0 /\ UNCHANGED <<queue, task, ended, freed>>
      /\ started' = [started EXCEPT ![task[w]] = @ + 1]
  BY DEF Start, HasResource
<1>2. task[w] \in Tasks /\ started[task[w]] = 0 /\ started \in [Tasks -> Nat]
  BY <1>1, SMTT(60) DEF PInv, IInv, LifeInv, TypeOK, TaskInv, Held, HolderInv
<1>3. task[w] \notin ended /\ ~Fresh(task[w])
  BY <1>2, SMTT(60) DEF PInv, RunInv, Fresh
<1>4. Status(task[w]) = "queued"
  BY <1>2, <1>3, SMTT(60) DEF Status
<1>5. Status(task[w])' = "running"
  BY <1>1, <1>2, <1>3, SMTT(60) DEF Status
<1>6. \A o \in Tasks \ {task[w]} : started'[o] = started[o]
  BY <1>1, <1>2
<1>7. \A o \in Tasks \ {task[w]} : Status(o)' = Status(o)
  BY <1>1, <1>6 DEF Status, Fresh
<1>8. ~freed
  BY <1>1 DEF PInv, IInv, LifeInv, FreedAfterWorkers
<1>9. Cardinality(P!Running) < MaxResources
  BY <1>1, RoomToRun
<1>10. [o \in Tasks |-> Status(o)]' = [[o \in Tasks |-> Status(o)] EXCEPT ![task[w]] = "running"]
  BY <1>1, <1>2, <1>5, <1>7
<1>11. P!Cardinality(P!Running) < MaxResources
  BY <1>9 DEF Cardinality, P!Cardinality
<1> QED  BY <1>1, <1>2, <1>4, <1>8, <1>10, <1>11 DEF P!Start

\* The return of a task is the end of a running one.
LEMMA FinishSeen ==
  ASSUME PInv, NEW w \in Workers, Finish(w)
  PROVE  task[w] \in Tasks /\ P!Finish(task[w])
<1>1. /\ worker[w] = "run" /\ UNCHANGED <<queue, task, started, freed>>
      /\ ended' = ended \cup {task[w]}
  BY DEF Finish
<1>2. task[w] \in Tasks /\ started[task[w]] = 1 /\ task[w] \notin ended
  BY <1>1, SMTT(60) DEF PInv, IInv, LifeInv, TypeOK, TaskInv, Held, HolderInv, RunInv
<1>3. Status(task[w]) = "running" /\ Status(task[w])' = "finished"
  BY <1>1, <1>2, SMTT(60) DEF Status
<1>4. \A o \in Tasks \ {task[w]} : Status(o)' = Status(o)
  BY <1>1 DEF Status, Fresh
<1>5. [o \in Tasks |-> Status(o)]' = [[o \in Tasks |-> Status(o)] EXCEPT ![task[w]] = "finished"]
  BY <1>1, <1>2, <1>3, <1>4
<1> QED  BY <1>1, <1>2, <1>3, <1>5 DEF P!Finish

\* impl_submit submits a task nobody had submitted, to a pool that is held.
LEMMA SubmitSeen ==
  ASSUME PInv, NEW u \in Users, NEW t \in Tasks, submit(u, t)
  PROVE  P!Submit(t)
<1>1. /\ u \in holders /\ Fresh(t) /\ queue' = Append(queue, t)
      /\ UNCHANGED <<task, freed, started, ended>>
  BY DEF submit
<1>2. queue \in Seq(Tasks) /\ t \notin ended /\ started[t] = 0 /\ ~freed
  BY <1>1, SMTT(60) DEF PInv, IInv, LifeInv, TypeOK, RunInv, Fresh
<1>3. /\ Len(queue') = Len(queue) + 1 /\ queue'[Len(queue) + 1] = t /\ Len(queue) \in Nat
      /\ \A i \in 1 .. Len(queue) : queue'[i] = queue[i]
  BY <1>1, <1>2, SMTT(60)
<1>4. Status(t) = "new"
  BY <1>1, <1>2, SMTT(60) DEF Status
<1>5. Len(queue) + 1 \in 1 .. Len(queue')
  BY <1>3, SMTT(60)
<1>6. ~Fresh(t)'
  BY <1>3, <1>5 DEF Fresh
<1>7. Status(t)' = "queued"
  BY <1>1, <1>2, <1>6, SMTT(60) DEF Status
<1>8. ASSUME NEW o \in Tasks \ {t} PROVE Status(o)' = Status(o)
  <2>1. (\A i \in 1 .. Len(queue') : queue'[i] # o) <=> (\A i \in 1 .. Len(queue) : queue[i] # o)
    BY <1>3, SMTT(60)
  <2>2. Fresh(o)' <=> Fresh(o)
    BY <1>1, <2>1 DEF Fresh
  <2> QED  BY <1>1, <2>2 DEF Status
<1>9. [o \in Tasks |-> Status(o)]' = [[o \in Tasks |-> Status(o)] EXCEPT ![t] = "queued"]
  BY <1>7, <1>8
<1> QED  BY <1>1, <1>2, <1>4, <1>9 DEF P!Submit

\* The pool closes when its finalizer has joined, or found joined, every worker.
LEMMA FreeSeen ==
  ASSUME PInv, UNCHANGED <<started, ended, queue, task>>, ~freed, freed', AllExit
  PROVE  P!Close
<1>1. P!Running = {}
  BY RunningHeld DEF AllExit
<1>2. [t \in Tasks |-> Status(t)]' = [t \in Tasks |-> Status(t)]
  BY DEF Status, Fresh
<1>3. freed' = TRUE
  BY DEF PInv, IInv, LifeInv, TypeOK
<1> QED  BY <1>1, <1>2, <1>3 DEF P!Close

\* What a user does is a submission, the close, or nothing the others can see.
LEMMA UserSeen ==
  ASSUME PInv, NEW u \in Users, UserStep(u)
  PROVE  P!Next \/ UNCHANGED P!vars
<1>1. ASSUME NEW t \in Tasks, submit(u, t) PROVE P!Next
  BY <1>1, SubmitSeen DEF P!Next
<1>2. ASSUME UNCHANGED <<started, ended, queue, task, freed>> PROVE UNCHANGED P!vars
  BY <1>2 DEF P!vars, Status, Fresh
<1>3. CASE shutdown(u) \/ Join(u)
  BY <1>2, <1>3 DEF shutdown, Join
<1>4. CASE JoinEnd(u)
  <2>1. /\ UNCHANGED <<started, ended, queue, task>> /\ joined[u] = NumThreads
        /\ freed' = (holders = {})
    BY <1>4 DEF JoinEnd
  <2>2. AllExit /\ freed \in BOOLEAN /\ (freed => holders = {})
    <3>1. TypeOK /\ JoinedExited /\ (freed => holders = {})
      BY DEF PInv, IInv, LifeInv
    <3>2. AllExit
      BY <2>1, <3>1, SMTT(60) DEF JoinedExited, AllExit, Workers
    <3>3. freed \in BOOLEAN
      BY <3>1 DEF TypeOK
    <3> QED  BY <3>1, <3>2, <3>3
  <2>3. CASE ~freed /\ holders = {}
    BY <2>1, <2>2, <2>3, FreeSeen DEF P!Next
  <2>4. CASE freed \/ holders # {}
    <3>1. freed' = freed
      BY <2>1, <2>2, <2>4
    <3> QED  BY <1>2, <2>1, <3>1
  <2> QED  BY <2>3, <2>4
<1>5. CASE Release(u)
  <2>1. /\ UNCHANGED <<started, ended, queue, task>> /\ u \in holders /\ user[u] # "join"
        /\ \/ UNCHANGED freed
           \/ holders \ {u} = {} /\ stop /\ freed'
    BY <1>5 DEF Release
  <2>2. ~freed
    BY <2>1 DEF PInv, IInv, LifeInv
  <2>3. CASE UNCHANGED freed
    BY <1>2, <2>1, <2>3
  <2>4. CASE holders \ {u} = {} /\ stop /\ freed'
    <3>1. AllExit
      BY <2>1, <2>4 DEF PInv, IInv, LifeInv, SomeoneJoins
    <3> QED  BY <2>1, <2>2, <2>4, <3>1, FreeSeen DEF P!Next
  <2> QED  BY <2>1, <2>3, <2>4
<1> QED  BY <1>1, <1>3, <1>4, <1>5 DEF UserStep

\* What a worker does is a start, a finish, or nothing the users can see.
LEMMA WorkerSeen ==
  ASSUME PInv, NEW w \in Workers, WorkerStep(w) \/ SpuriousWakeup(w)
  PROVE  P!Next \/ UNCHANGED P!vars
<1>1. CASE Start(w)
  BY <1>1, StartSeen DEF P!Next
<1>2. CASE Finish(w)
  BY <1>2, FinishSeen DEF P!Next
<1>3. CASE Dequeue(w)
  BY <1>3, DequeueNotSeen
<1>4. CASE Sleep(w) \/ SpuriousWakeup(w) \/ Exit(w)
  <2>1. UNCHANGED <<started, ended, queue, task, freed>>
    BY <1>4 DEF Sleep, SpuriousWakeup, Exit
  <2> QED  BY <2>1 DEF P!vars, Status, Fresh
<1>5. CASE Post(w)
  <2>1. /\ UNCHANGED <<started, ended, queue, freed>> /\ worker[w] = "post"
        /\ task' = [task EXCEPT ![w] = NoTask]
    BY <1>5 DEF Post
  <2>2. started[task[w]] = 1 /\ task \in [Workers -> Tasks \cup {NoTask}]
    BY <2>1 DEF PInv, IInv, LifeInv, TypeOK, TaskInv, HolderInv
  <2>3. ASSUME NEW t \in Tasks, started[t] = 0 PROVE Fresh(t)' <=> Fresh(t)
    <3>1. task[w] # t /\ NoTask # t
      BY <2>2, <2>3, SMTT(60)
    <3>2. \A v \in Workers : task'[v] # t <=> task[v] # t
      BY <2>1, <2>2, <3>1
    <3> QED  BY <2>1, <3>2 DEF Fresh
  <2> QED  BY <2>1, <2>3, NotSeen DEF P!vars
<1> QED  BY <1>1, <1>2, <1>3, <1>4, <1>5 DEF WorkerStep

\* The pool keeps the promise of TaskPool: whatever the workers and the users
\* do, a task is submitted, started once, within max_resources, and finished,
\* and nothing starts in a pool that was freed (worker_routine, impl_submit,
\* impl_shutdown, ThreadPool_Finalize).
THEOREM PoolImplementsTaskPool == Spec => ImplementsTaskPool
<1>1. Init => P!Init
  BY SMTT(60) DEF Init, P!Init, Status, Fresh
<1>2. PInv /\ [Next]_vars => [P!Next]_(P!vars)
  <2> SUFFICES ASSUME PInv, [Next]_vars PROVE P!Next \/ UNCHANGED P!vars
    OBVIOUS
  <2>1. CASE UNCHANGED vars
    BY <2>1 DEF vars, P!vars, Status, Fresh
  <2> QED  BY <2>1, UserSeen, WorkerSeen DEF Next, Done
<1> QED  BY <1>1, <1>2, PoolInvariant, PTL DEF Spec, ImplementsTaskPool, P!Spec

-----------------------------------------------------------------------------
(* The cron scheduler.  Every job stands once in the table, so it is due   *)
(* at most once in a turn, and a turn that starts jobs marks its second.   *)

HIDE PoolAssumption

CronJob == [id : Nat, name : CronNames,
            seconds : {parse_field(f, 0, MinuteLength - 1) : f \in CronFields}]

CronTypes ==
    /\ crons \in Seq(CronJob)
    /\ adds \in Nat
    /\ cron_time \in Nat
    /\ fired \in [(1..MaxCrons) \X (0..MaxTime) -> Nat]

CronIds == {crons[i].id : i \in 1..Len(crons)}

(* A number stands once in the table.                                      *)
OneEntry == \A i, j \in 1..Len(crons) : crons[i].id = crons[j].id => i = j

TableInv ==
    /\ CronTypes
    /\ OneEntry
    /\ CronIds = live
    /\ \A k \in live : k \in Nat /\ k <= adds
    /\ IsFiniteSet(live) /\ Len(crons) = Cardinality(live)

(* Nothing was started for a later time, and for this one only once the    *)
(* worker has seen its second.                                             *)
FireInv ==
    /\ \A e \in DOMAIN fired : fired[e] <= 1
    /\ \A e \in DOMAIN fired : fired[e] > 0 => e[2] <= cron_time
    /\ \A e \in DOMAIN fired :
          fired[e] > 0 /\ e[2] = cron_time => last_sec = cron_time % MinuteLength

(* CronScheduler_addCron gives the new job the next number.               *)
LEMMA AddCronInv ==
    ASSUME TableInv, NEW name \in CronNames, CronScheduler_addCron(name)
    PROVE  TableInv'
<1> USE DEF TableInv, CronTypes
<1>1. PICK n \in Nat : n = adds + 1
  BY SMTT(60)
<1>2. PICK f \in CronFields : crons' = Append(crons, [id |-> n, name |-> name, seconds |-> parse_field(f, 0, MinuteLength - 1)])
  BY <1>1 DEF CronScheduler_addCron
<1> DEFINE job == [id |-> n, name |-> name, seconds |-> parse_field(f, 0, MinuteLength - 1)]
<1>4. job \in CronJob /\ job.id = n
  BY DEF CronJob
<1>5. adds' = n /\ live' = live \cup {n} /\ n \notin live /\ UNCHANGED <<cron_time, last_sec, fired>>
  BY <1>1, SMTT(60) DEF CronScheduler_addCron
<1> HIDE DEF job
<1>6. /\ crons' \in Seq(CronJob) /\ Len(crons') = Len(crons) + 1
      /\ \A i \in 1..Len(crons) : crons'[i] = crons[i]
      /\ crons'[Len(crons) + 1] = job
  BY <1>2, <1>4, AppendProperties, SMTT(60) DEF job
<1>7. Len(crons) \in Nat /\ \A i \in 1..Len(crons) : crons[i].id \in live
  BY SMTT(60) DEF CronIds
<1>8. OneEntry'
  <2>1. \A k \in 1..Len(crons') : k \in 1..Len(crons) \/ k = Len(crons) + 1
    BY <1>6, <1>7, SMTT(60)
  <2>2. \A k \in 1..Len(crons) : crons'[k].id \in live /\ crons'[k].id = crons[k].id
    BY <1>6, <1>7
  <2>3. crons'[Len(crons) + 1].id \notin live
    BY <1>4, <1>5, <1>6
  <2>4. ASSUME NEW i \in 1..Len(crons'), NEW j \in 1..Len(crons'), crons'[i].id = crons'[j].id
        PROVE  i = j
    <3>1. CASE i \in 1..Len(crons) /\ j \in 1..Len(crons)
      BY <2>2, <2>4, <3>1 DEF OneEntry
    <3> QED  BY <2>1, <2>2, <2>3, <2>4, <3>1
  <2> QED  BY <2>4 DEF OneEntry
<1>9. CronIds' = live'
  <2> DEFINE N == Len(crons)
  <2>1. \A k \in 1..(N + 1) : k \in 1..N \/ k = N + 1
    BY <1>7, SMTT(60)
  <2>2. N + 1 \in 1..(N + 1) /\ crons'[N + 1].id = n /\ \A k \in 1..N : k \in 1..(N + 1)
    BY <1>4, <1>6, <1>7, SMTT(60)
  <2>3. CronIds' = {crons'[k].id : k \in 1..(N + 1)}
    BY <1>6 DEF CronIds
  <2>4. \A k \in 1..N : crons'[k].id = crons[k].id
    BY <1>6
  <2>5. live = {crons[k].id : k \in 1..N}
    BY DEF CronIds
  <2> HIDE DEF N
  <2> QED BY <1>5, <2>1, <2>2, <2>3, <2>4, <2>5
<1>10. IsFiniteSet(live') /\ Cardinality(live') = Cardinality(live) + 1
  BY <1>5, FS_AddElement
<1> QED  BY <1>1, <1>5, <1>6, <1>8, <1>9, <1>10, SMTT(60)

(* CronScheduler_removeCron moves the last entry into the freed place.     *)
LEMMA RemoveCronInv ==
    ASSUME TableInv, NEW name \in CronNames, CronScheduler_removeCron(name)
    PROVE  TableInv'
<1> USE DEF TableInv, CronTypes
<1>1. PICK i \in 1..Len(crons) :
          /\ crons' = SubSeq([crons EXCEPT ![i] = crons[Len(crons)]], 1, Len(crons) - 1)
          /\ live' = live \ {crons[i].id}
  BY DEF CronScheduler_removeCron
<1>2. UNCHANGED <<adds, cron_time, last_sec, fired>>
  BY DEF CronScheduler_removeCron
<1>3. PICK n \in Nat : n = Len(crons) /\ n > 0 /\ i \in 1..n
  BY SMTT(60)
<1> DEFINE moved == [crons EXCEPT ![i] = crons[n]]
<1>4. crons[n] \in CronJob
  BY <1>3, ElementOfSeq, SMTT(60)
<1>5. /\ moved \in Seq(CronJob) /\ Len(moved) = n
      /\ \A k \in 1..n : moved[k] = IF k = i THEN crons[n] ELSE crons[k]
  BY <1>3, <1>4, ExceptSeq, SMTT(60)
<1> HIDE DEF moved
<1>6. /\ crons' \in Seq(CronJob) /\ Len(crons') = n - 1
      /\ \A k \in 1..(n - 1) : crons'[k] = moved[k]
  BY <1>1, <1>3, <1>5, SubSeqProperties, SMTT(60) DEF moved
<1>7. \A k \in 1..(n - 1) : crons'[k] = IF k = i THEN crons[n] ELSE crons[k]
  BY <1>5, <1>6, SMTT(60)
<1>8. \A j, k \in 1..n : crons[j].id = crons[k].id => j = k
  BY <1>3 DEF OneEntry
<1>9. OneEntry'
  <2>1. ASSUME NEW j \in 1..(n - 1), NEW k \in 1..(n - 1), crons'[j].id = crons'[k].id
        PROVE  j = k
    <3>1. j \in 1..n /\ k \in 1..n /\ n \in 1..n /\ j # n /\ k # n
      BY <1>3, SMTT(60)
    <3> QED BY <1>7, <1>8, <2>1, <3>1
  <2> QED BY <1>6, <2>1 DEF OneEntry
<1>10. CronIds' = live'
  <2>1. live = {crons[k].id : k \in 1..n}
    BY <1>3 DEF CronIds
  <2>2. ASSUME NEW k \in 1..(n - 1)  PROVE crons'[k].id \in live'
    <3>1. PICK j \in 1..n : j # i /\ crons'[k] = crons[j]
      BY <1>3, <1>7, SMTT(60)
    <3>2. crons[j].id \in live /\ crons[j].id # crons[i].id
      BY <1>3, <1>8, <2>1, <3>1
    <3> QED  BY <1>1, <3>1, <3>2
  <2>3. ASSUME NEW k \in 1..n, k # i  PROVE \E j \in 1..(n - 1) : crons'[j].id = crons[k].id
    <3>1. CASE k = n
      <4>1. i \in 1..(n - 1) /\ crons'[i] = crons[n]
        BY <1>3, <1>7, <2>3, <3>1, SMTT(60)
      <4> QED  BY <3>1, <4>1
    <3>2. CASE k # n
      <4>1. k \in 1..(n - 1) /\ crons'[k] = crons[k]
        BY <1>3, <1>7, <2>3, <3>2, SMTT(60)
      <4> QED  BY <4>1
    <3> QED  BY <3>1, <3>2
  <2>4. CronIds' = {crons'[k].id : k \in 1..(n - 1)}
    BY <1>6 DEF CronIds
  <2>5. ASSUME NEW e \in live'  PROVE e \in CronIds'
    BY <1>1, <2>1, <2>3, <2>4
  <2> QED  BY <2>2, <2>4, <2>5
<1>11. crons[i].id \in live
  BY DEF CronIds
<1>12. IsFiniteSet(live') /\ Cardinality(live') = Cardinality(live) - 1
  BY <1>1, <1>11, FS_RemoveElement
<1> QED  BY <1>1, <1>2, <1>3, <1>6, <1>9, <1>10, <1>12

(* A job is due at most once: its number stands once in the table.         *)
LEMMA DueOnce ==
    ASSUME TableInv, NEW k
    PROVE  Cardinality(Due(k)) \in {0, 1}
<1>1. \A i, j \in Due(k) : i = j
  BY DEF TableInv, OneEntry, Due
<1>2. CASE Due(k) = {}
  BY <1>2, FS_EmptySet
<1>3. CASE \E i : i \in Due(k)
  <2>1. PICK i : Due(k) = {i}
    BY <1>1, <1>3
  <2> QED  BY <2>1, FS_Singleton
<1> QED  BY <1>2, <1>3

(* A turn of the worker starts each due job once and marks the second.     *)
LEMMA CronWorkerInv ==
    ASSUME TableInv, FireInv, cron_worker
    PROVE  TableInv' /\ FireInv'
<1>1. UNCHANGED <<crons, adds, live, cron_time>> /\ last_sec' = cron_time % MinuteLength
  BY DEF cron_worker
<1>2. last_sec # cron_time % MinuteLength
  BY DEF cron_worker
<1> DEFINE D == (1..MaxCrons) \X (0..MaxTime)
<1>3. DOMAIN fired = D /\ fired \in [D -> Nat] /\ cron_time \in Nat
  BY DEF TableInv, CronTypes
<1> HIDE DEF D
<1>4. /\ DOMAIN fired' = D
      /\ \A e \in D : fired'[e] = fired[e] + IF e[2] = cron_time THEN Cardinality(Due(e[1])) ELSE 0
  BY <1>3 DEF cron_worker, Started
<1>5. ASSUME NEW e \in D
      PROVE  /\ fired'[e] \in Nat /\ fired'[e] <= 1
             /\ fired'[e] > 0 => fired[e] > 0 \/ e[2] = cron_time
  <2>1. Cardinality(Due(e[1])) \in {0, 1}
    BY DueOnce
  <2>2. fired[e] \in Nat /\ fired[e] <= 1
    BY <1>3 DEF FireInv
  <2>3. CASE e[2] = cron_time
    <3>1. fired[e] = 0
      BY <1>2, <1>3, <2>2, <2>3, SMTT(60) DEF FireInv
    <3> QED  BY <1>4, <2>1, <2>3, <3>1, SMTT(60)
  <2>4. CASE e[2] # cron_time
    <3>1. fired'[e] = fired[e] + 0
      BY <1>4, <2>4
    <3> QED  BY <2>2, <3>1, SMTT(60)
  <2> QED  BY <2>3, <2>4
<1>6. fired' \in [D -> Nat]
  <2>1. fired' = [e \in D |-> fired'[e]]
    BY <1>3 DEF cron_worker, Started
  <2> QED  BY <1>5, <2>1
<1>7. TableInv'
  <2>1. CronTypes'
    BY <1>1, <1>6 DEF TableInv, CronTypes, D
  <2>2. OneEntry' /\ CronIds' = CronIds
    BY <1>1 DEF TableInv, OneEntry, CronIds
  <2> QED BY <1>1, <2>1, <2>2 DEF TableInv
<1>8. FireInv'
  BY <1>1, <1>3, <1>4, <1>5, SMTT(60) DEF FireInv
<1> QED  BY <1>7, <1>8

(* However often the worker looks, a job is started at most once in a      *)
(* second, and the table holds every job that was not removed exactly once *)
(* (cron_worker and CronScheduler_removeCron), for any number of jobs and any*)
(* length of the minute.                                                   *)
THEOREM CronFiresOnce == CronInit /\ [][CronNext]_cronVars => []FiresOncePerSecond
<1>1. CronInit => TableInv /\ FireInv
  BY CronConstants, FS_EmptySet, EmptySeq, SMTT(60) DEF CronInit, TableInv, FireInv,
     CronTypes, OneEntry, CronIds
<1>2. TableInv /\ FireInv /\ [CronNext]_cronVars => TableInv' /\ FireInv'
  <2> SUFFICES ASSUME TableInv, FireInv, [CronNext]_cronVars
               PROVE  TableInv' /\ FireInv'
    OBVIOUS
  <2>1. CASE cron_worker
    BY <2>1, CronWorkerInv
  <2>2. CASE CronTime
    <3>1. cron_time \in Nat /\ fired \in [(1..MaxCrons) \X (0..MaxTime) -> Nat]
      BY DEF TableInv, CronTypes
    <3>2. cron_time' = cron_time + 1 /\ UNCHANGED <<crons, adds, live, last_sec, fired>>
      BY <2>2 DEF CronTime
    <3>3. TableInv'
      BY <3>1, <3>2, SMTT(60) DEF TableInv, CronTypes, OneEntry, CronIds
    <3>4. \A e \in DOMAIN fired : e[2] \in Nat
      BY <3>1, CronConstants, SMTT(60)
    <3>5. FireInv'
      BY <3>1, <3>2, <3>4, SMTT(60) DEF FireInv
    <3> QED  BY <3>3, <3>5
  <2>3. ASSUME NEW name \in CronNames, CronScheduler_addCron(name)
        PROVE  TableInv' /\ FireInv'
    BY <2>3, AddCronInv DEF CronScheduler_addCron, FireInv
  <2>4. ASSUME NEW name \in CronNames, CronScheduler_removeCron(name)
        PROVE  TableInv' /\ FireInv'
    BY <2>4, RemoveCronInv DEF CronScheduler_removeCron, FireInv
  <2>5. CASE UNCHANGED cronVars
    BY <2>5 DEF cronVars, TableInv, FireInv, CronTypes, OneEntry, CronIds
  <2> QED  BY <2>1, <2>2, <2>3, <2>4, <2>5 DEF CronNext
<1>3. TableInv /\ FireInv => FiresOncePerSecond
  BY DEF TableInv, FireInv, CronIds, FiresOncePerSecond
<1> QED  BY <1>1, <1>2, <1>3, PTL

=============================================================================
