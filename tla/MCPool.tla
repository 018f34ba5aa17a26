------------------------------- MODULE MCPool -------------------------------
(***************************************************************************)
(* Small instances of ThreadPool for TLC.                                  *)
(***************************************************************************)
EXTENDS ThreadPool
CONSTANTS u1, u2, k1, k2, k3


\* Worker threads are scheduled, tasks return, and a joining caller goes on.
\* Semaphores and mutexes are not starved: a worker waiting for the resource
\* that is given back again and again gets it.
FairSpec == /\ Spec
            /\ \A w \in Workers : WF_vars(Dequeue(w) \/ Exit(w) \/ Finish(w) \/ Post(w))
            /\ \A w \in Workers : SF_vars(Start(w))
            /\ \A u \in Users : WF_vars(Join(u) \/ JoinEnd(u))

\* A task submitted before shutdown runs to its end, even if shutdown or the
\* last release comes while it is queued.
SubmittedIsRun ==
  \A t \in Tasks : (~stop /\ \E i \in 1 .. Len(queue) : queue[i] = t) ~> t \in ended

\* A shutdown call returns.
ShutdownReturns == \A u \in Users : user[u] = "join" ~> user[u] = "returned"

\* The pool serves every task and every shutdown.
PoolServes == SubmittedIsRun /\ ShutdownReturns
=============================================================================
