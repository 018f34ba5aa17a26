------------------------------- MODULE MCHttp -------------------------------
EXTENDS HttpServer

CONSTANTS c1, c2

\* A peer that reads: the kernel reports writability and some output leaves
PeerReads(c) == HttpConnection_on_writable(c) /\ conn'[c] # conn[c]

\* The loop runs its handlers and the retry timer, and work in progress releases
\* its drain reference: strong fairness, since the forced walk keeps disabling and
\* re-enabling the handlers.  Peers need not read anything.
LoopSpec ==
    /\ Spec
    /\ WF_vars(Walk)
    /\ WF_vars(Tick)
    /\ SF_vars(HttpServer_drain_release)

\* The kernel moreover drains the output of peers that read.
FairSpec == LoopSpec /\ \A c \in Conns : SF_vars(PeerReads(c))

\* A graceful shutdown ends by stopping the loop, even if some peers never read
\* and some removals have to be retried (on_shutdown_retry_tick).
ShutdownCompletes == down ~> ~running

\* A closing connection whose peer keeps reading is removed without any help
\* from a shutdown.
ClosingIsRemoved ==
    \A c \in Conns : Linked(c) /\ conn[c].closing
                     ~> conn[c].done \/ conn[c].pending \/ conn[c].peer # "up"

\* A closing connection sends what it has to say and is gone.
ClosingFlushes == FlushedBeforeRemoval /\ ClosingIsRemoved

\* A connection that is flushing its CLOSE frame when the peer resets it is
\* removed.
ClosingResetIsRemoved ==
    \A c \in Conns : Linked(c) /\ conn[c].closing /\ conn[c].peer = "rst" ~> conn[c].done
=============================================================================
