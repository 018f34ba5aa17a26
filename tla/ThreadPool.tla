----------------------------- MODULE ThreadPool -----------------------------
(***************************************************************************)
(* The thread pool of threadpool.c with the Queue, Semaphore and Thread    *)
(* objects it is built from.                                               *)
(*                                                                         *)
(* Workers and users run concurrently.  What a thread does between locking *)
(* and unlocking self->lock is one step (pthread_cond_wait ends a step);   *)
(* the rest is interleaved: waiting for the semaphore, running the task,   *)
(* joining the workers one by one.  The pool is reference counted; the     *)
(* user that drops the last reference runs ThreadPool_Finalize.            *)
(***************************************************************************)
EXTENDS Integers, Sequences, FiniteSets

CONSTANTS Users,         \* threads that hold a reference of the pool
          Tasks,         \* tasks that may be submitted
          NumThreads,    \* num_threads
          MaxResources,  \* initial value of resourceSem
          NoTask

ASSUME PoolAssumption == /\ NumThreads \in Nat
                         /\ MaxResources \in Nat \ {0}
                         /\ NoTask \notin Tasks
                         /\ Users # {}

Workers == 1 .. NumThreads

VARIABLES
  queue,    \* taskQueue
  stop,     \* self->stop
  sem,      \* value of resourceSem
  worker,   \* worker -> "top", "wait", "sem", "run", "post" or "exit"
  task,     \* worker -> the task it took, or NoTask
  user,     \* user -> "idle", "join" or "returned" (from shutdown)
  joined,   \* user -> workers it has joined so far
  holders,  \* users holding a reference
  freed,    \* ThreadPool_Finalize released everything
  started,  \* history: how often each task was started
  ended,    \* history: tasks whose function returned
  late      \* history: tasks submitted when the pool was stopping

vars == <<queue, stop, sem, worker, task, user, joined, holders, freed,
          started, ended, late>>

Init == /\ queue = <<>> /\ stop = FALSE /\ sem = MaxResources
        /\ worker = [w \in Workers |-> "top"]
        /\ task = [w \in Workers |-> NoTask]
        /\ user = [u \in Users |-> "idle"] /\ joined = [u \in Users |-> 0]
        /\ holders = Users /\ freed = FALSE
        /\ started = [t \in Tasks |-> 0] /\ ended = {} /\ late = {}

(***************************************************************************)
(* worker_routine.                                                         *)
(***************************************************************************)
Taken == Tail(queue)

Dequeue(w) ==
  /\ worker[w] = "top" /\ queue # <<>>
  /\ task' = [task EXCEPT ![w] = Head(queue)]
  /\ queue' = Taken
  /\ worker' = [worker EXCEPT ![w] = "sem"]
  /\ UNCHANGED <<stop, sem, user, joined, holders, freed, started, ended,
                 late>>

Sleep(w) ==
  /\ worker[w] = "top" /\ queue = <<>> /\ ~stop
  /\ worker' = [worker EXCEPT ![w] = "wait"]
  /\ UNCHANGED <<queue, stop, sem, task, user, joined, holders, freed, started,
                 ended, late>>

\* pthread_cond_wait may return without a signal.
SpuriousWakeup(w) ==
  /\ worker[w] = "wait"
  /\ worker' = [worker EXCEPT ![w] = "top"]
  /\ UNCHANGED <<queue, stop, sem, task, user, joined, holders, freed, started,
                 ended, late>>

\* The queue is drained before a stopped worker leaves.
LeavesAtOnce == stop                              \* mutant: queue not looked at
Leaves == stop /\ queue = <<>>

Exit(w) ==
  /\ worker[w] = "top" /\ Leaves
  /\ worker' = [worker EXCEPT ![w] = "exit"]
  /\ UNCHANGED <<queue, stop, sem, task, user, joined, holders, freed, started,
                 ended, late>>

\* resourceSem->wait, then the call of the task.
HasResourceOffByOne == sem >= 0                   \* mutant: one too many
HasResource == sem > 0

Start(w) ==
  /\ worker[w] = "sem" /\ HasResource
  /\ sem' = sem - 1
  /\ worker' = [worker EXCEPT ![w] = "run"]
  /\ started' = [started EXCEPT ![task[w]] = @ + 1]
  /\ UNCHANGED <<queue, stop, task, user, joined, holders, freed, ended, late>>

Finish(w) ==
  /\ worker[w] = "run"
  /\ worker' = [worker EXCEPT ![w] = "post"]
  /\ ended' = ended \cup {task[w]}
  /\ UNCHANGED <<queue, stop, sem, task, user, joined, holders, freed, started,
                 late>>

\* resourceSem->post and RELEASE of the task.
Posted == sem + 1

Post(w) ==
  /\ worker[w] = "post"
  /\ sem' = Posted
  /\ task' = [task EXCEPT ![w] = NoTask]
  /\ worker' = [worker EXCEPT ![w] = "top"]
  /\ UNCHANGED <<queue, stop, user, joined, holders, freed, started, ended,
                 late>>

(***************************************************************************)
(* Users.  A task is submitted once.                                       *)
(***************************************************************************)
Fresh(t) == /\ started[t] = 0
            /\ \A i \in 1 .. Len(queue) : queue[i] # t
            /\ \A w \in Workers : task[w] # t

\* pthread_cond_signal wakes some waiting worker, if there is one.
Signal == IF \E w \in Workers : worker[w] = "wait"
          THEN \E w \in Workers : /\ worker[w] = "wait"
                                  /\ worker' = [worker EXCEPT ![w] = "top"]
          ELSE UNCHANGED worker

\* impl_submit; parallel_for is a sequence of them.
submit(u, t) ==
  /\ u \in holders /\ user[u] # "join" /\ Fresh(t)
  /\ queue' = Append(queue, t)
  /\ Signal
  /\ late' = IF stop THEN late \cup {t} ELSE late
  /\ UNCHANGED <<stop, sem, task, user, joined, holders, freed, started, ended>>

\* pthread_cond_broadcast.
WakeOne == Signal                                 \* mutant: signal, not broadcast
Broadcast == worker' = [w \in Workers |-> IF worker[w] = "wait" THEN "top"
                                          ELSE worker[w]]

Stopping(u) == /\ stop' = TRUE
               /\ Broadcast
               /\ user' = [user EXCEPT ![u] = "join"]

\* impl_shutdown: the first caller goes on to join the workers, any other
\* returns at once.
shutdown(u) ==
  /\ u \in holders /\ user[u] # "join"
  /\ IF stop THEN /\ user' = [user EXCEPT ![u] = "returned"]
                  /\ UNCHANGED <<stop, worker>>
             ELSE Stopping(u)
  /\ UNCHANGED <<queue, sem, task, joined, holders, freed, started, ended,
                 late>>

\* Thread join of the workers in order.
Joinable(w) == worker[w] = "exit"

Join(u) ==
  /\ user[u] = "join" /\ joined[u] < NumThreads
  /\ Joinable(joined[u] + 1)
  /\ joined' = [joined EXCEPT ![u] = @ + 1]
  /\ UNCHANGED <<queue, stop, sem, worker, task, user, holders, freed, started,
                 ended, late>>

\* The shutdown that joined everyone returns, to its caller or to the finalizer
\* that called it.
JoinEnd(u) ==
  /\ user[u] = "join" /\ joined[u] = NumThreads
  /\ user' = [user EXCEPT ![u] = "returned"]
  /\ freed' = (holders = {})
  /\ UNCHANGED <<queue, stop, sem, worker, task, joined, holders, started, ended,
                 late>>

\* RELEASE of the pool.  The last one finalizes: shutdown unless stop is set.
Release(u) ==
  /\ u \in holders /\ user[u] # "join"
  /\ holders' = holders \ {u}
  /\ IF holders' # {} THEN UNCHANGED <<stop, worker, user, freed>>
     ELSE IF stop THEN freed' = TRUE /\ UNCHANGED <<stop, worker, user>>
     ELSE Stopping(u) /\ UNCHANGED freed
  /\ UNCHANGED <<queue, sem, task, joined, started, ended,
                 late>>

WorkerStep(w) == \/ Dequeue(w) \/ Sleep(w) \/ Exit(w)
                 \/ Start(w) \/ Finish(w) \/ Post(w)
UserStep(u) == \/ \E t \in Tasks : submit(u, t)
               \/ shutdown(u) \/ Join(u) \/ JoinEnd(u) \/ Release(u)
Done == freed /\ UNCHANGED vars

Next == \/ \E w \in Workers : WorkerStep(w) \/ SpuriousWakeup(w)
        \/ \E u \in Users : UserStep(u)
        \/ Done

Spec == Init /\ [][Next]_vars

(***************************************************************************)
(* Properties.                                                             *)
(***************************************************************************)
\* The variables stay in their types.
TypeOK == /\ queue \in Seq(Tasks) /\ stop \in BOOLEAN
          /\ sem \in 0 .. MaxResources
          /\ worker \in [Workers -> {"top", "wait", "sem", "run", "post", "exit"}]
          /\ task \in [Workers -> Tasks \cup {NoTask}]
          /\ user \in [Users -> {"idle", "join", "returned"}]
          /\ joined \in [Users -> 0 .. NumThreads]
          /\ holders \subseteq Users /\ freed \in BOOLEAN
          /\ started \in [Tasks -> Nat]
          /\ ended \subseteq Tasks /\ late \subseteq Tasks

Busy == {w \in Workers : worker[w] \in {"run", "post"}}

\* resourceSem limits the tasks that run at a time: its value and the workers
\* between wait and post always add up to max_resources.
ResourceBound == sem + Cardinality(Busy) = MaxResources

\* No wakeup is lost: nobody sleeps once the pool is stopping, so shutdown
\* cannot wait for a worker that waits for it.
StopWakesAll == stop => \A w \in Workers : worker[w] # "wait"

\* ThreadPool_Finalize reads stop without the lock and destroys the queue, the
\* mutex and the condition: no worker can still use them.
FreedAfterWorkers == freed => \A w \in Workers : worker[w] = "exit"

\* A task is started at most once, and is not in the queue any more by then.
StartedOnce == \A t \in Tasks : /\ started[t] <= 1
                                /\ started[t] = 1 =>
                                     \A i \in 1 .. Len(queue) : queue[i] # t

\* The shutdown call that stops the pool returns only after every task that was
\* submitted before it has run to its end: a task may be left in the queue only
\* if it came after stop was set.
JoinedIsFinished ==
  \A u \in Users : joined[u] = NumThreads /\ NumThreads > 0 =>
    /\ \A t \in Tasks : started[t] > 0 => t \in ended
    /\ \A i \in 1 .. Len(queue) : queue[i] \in late

\* The pool is safe: its workers, its semaphore and its tasks, while it runs and
\* when it is shut down and freed.
PoolSafe == /\ TypeOK /\ ResourceBound /\ StopWakesAll /\ FreedAfterWorkers
            /\ StartedOnce /\ JoinedIsFinished

Status(t) == IF t \in ended THEN "finished"
             ELSE IF started[t] > 0 THEN "running"
             ELSE IF Fresh(t) THEN "new" ELSE "queued"
P == INSTANCE TaskPool WITH status <- [t \in Tasks |-> Status(t)],
                            closed <- freed, MaxRunning <- MaxResources
\* The pool implements the promise of TaskPool.
ImplementsTaskPool == P!Spec
=============================================================================
