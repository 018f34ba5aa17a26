------------------------------ MODULE TaskPool ------------------------------
(***************************************************************************)
(* What a thread pool promises its users: a submitted task runs at most    *)
(* once, no more than MaxRunning tasks run at a time, and once the pool    *)
(* has been given up nothing of it runs any more.  ThreadPool implements   *)
(* this specification.                                                     *)
(***************************************************************************)
EXTENDS Integers, FiniteSets

CONSTANTS Tasks, MaxRunning

VARIABLES status,  \* of each task
          closed   \* the pool was given up

vars == <<status, closed>>

Running == {t \in Tasks : status[t] = "running"}

Init == status = [t \in Tasks |-> "new"] /\ closed = FALSE

Submit(t) == /\ ~closed /\ status[t] = "new"
             /\ status' = [status EXCEPT ![t] = "queued"]
             /\ UNCHANGED closed

Start(t) == /\ ~closed /\ status[t] = "queued"
            /\ Cardinality(Running) < MaxRunning
            /\ status' = [status EXCEPT ![t] = "running"]
            /\ UNCHANGED closed

Finish(t) == /\ status[t] = "running"
             /\ status' = [status EXCEPT ![t] = "finished"]
             /\ UNCHANGED closed

Close == /\ ~closed /\ Running = {}
         /\ closed' = TRUE
         /\ UNCHANGED status

Next == Close \/ \E t \in Tasks : Submit(t) \/ Start(t) \/ Finish(t)

Spec == Init /\ [][Next]_vars
=============================================================================
