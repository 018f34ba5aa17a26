------------------------------- MODULE MCEpoll -------------------------------
(***************************************************************************)
(* Small instances of EpollLoop for TLC, and the fairness under which its  *)
(* liveness properties are checked.                                        *)
(***************************************************************************)
EXTENDS EpollLoop
CONSTANTS s1, s2, t1, t2, f1

Both == {{"R", "W"}}
DataOrError == {{"R", "W"}, {"E"}}

\* The loop thread runs and callbacks return; nothing forces the application to
\* call anything or the kernel to report anything new.
FairSpec == Spec /\ WF_vars(LoopStep \/ (RunReturns /\ ~running))

\* A ready registered socket gets its callback unless it is unregistered, no
\* longer ready, or the loop returns.
SocketServed ==
  \A s \in Sockets :
    (Registered(s) /\ Report(sock[s].fd) # {} /\ calling # "main")
      ~> (calling \in {s, "main"} \/ ~Registered(s) \/ Report(sock[s].fd) = {})

\* An expired timer that stays registered calls back unless it is stopped.
TimerServed ==
  \A t \in Timers :
    (timer[t].added /\ timer[t].fired /\ calling # "main")
      ~> (calling \in {t, "main"} \/ ~timer[t].added \/ ~timer[t].fired)

\* event_loop_stop makes event_loop_run return.
StopReturns == (~running /\ calling # "main") ~> calling = "main"

\* The loop serves its timers until it is stopped, and then returns.
LoopServes == TimerServed /\ StopReturns
==============================================================================
