------------------------------- MODULE MCUring -------------------------------
(***************************************************************************)
(* Small instances of UringBackend for TLC, and the fairness under which   *)
(* its liveness properties are checked.                                    *)
(***************************************************************************)
EXTENDS UringBackend
CONSTANTS s1, t1

ReadOrBoth == {{"R"}, {"R", "W"}}   \* reading, or reading and writing

\* The loop thread runs and callbacks return; the kernel takes what was
\* submitted.  Nothing forces a poll to complete or the loop to be stopped.
FairSpec == Spec /\ WF_vars(LoopStep) /\ WF_vars(DestroyStep)
                 /\ WF_vars(KernelTake)

\* A context that was removed is freed, as long as the loop goes on waiting:
\* event_backend_remove leaves it to the completions of its operations.
RemovedIsFreed ==
  \A c \in Ctx : ctx[c].closing ~> (ctx[c].refs = 0 \/ calling = "main")

\* A registered source with a non-empty mask is polled again by the kernel with
\* exactly that mask, after every completion, modification, interrupted wait
\* and full submission queue.
InterestReachesKernel ==
  \A c \in Ctx : (InMap(c) /\ ctx[c].mask # {})
                   ~> (kpoll[c] = ctx[c].mask \/ ~InMap(c) \/ calling = "main")

\* What is removed is freed, and what is wanted is polled.
BackendProgresses == RemovedIsFreed /\ InterestReachesKernel
==============================================================================
