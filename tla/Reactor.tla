------------------------------- MODULE Reactor -------------------------------
(***************************************************************************)
(* What the event loop promises the owner of a socket, whatever backend    *)
(* (epoll, io_uring) carries it out:                                       *)
(*                                                                         *)
(*   - on_readable / on_writable run only for a socket that is registered  *)
(*     at that moment, and only for readiness reported since the present   *)
(*     registration (an event of an earlier registration never surfaces);  *)
(*   - callbacks do not nest: the loop starts one when none is running;    *)
(*   - registrations change only while application code runs.              *)
(*                                                                         *)
(* UringBackend and EpollLoop implement this specification.                *)
(***************************************************************************)
CONSTANTS Sockets,   \* the sockets the application may register
          Bits       \* what the kernel reports: readable, writable, error

VARIABLES registered,  \* sockets with a live registration
          signalled,   \* readiness reported for it and not yet handed over
          calling      \* a socket whose callback runs, "other", or "none"

vars == <<registered, signalled, calling>>

TypeOK == /\ registered \subseteq Sockets
          /\ signalled \in [Sockets -> SUBSET Bits]
          /\ calling \in Sockets \cup {"none", "other"}

Init == /\ registered = {}
        /\ signalled = [s \in Sockets |-> {}]
        /\ calling = "other"

\* Readiness may be forgotten (a level-triggered kernel reports it again),
\* never invented.
Shrinks == \A s \in Sockets : signalled'[s] \subseteq signalled[s]

Register(s) == /\ calling # "none"
               /\ s \notin registered
               /\ registered' = registered \cup {s}
               /\ UNCHANGED <<signalled, calling>>

Unregister(S) == /\ calling # "none"
                 /\ S \subseteq registered
                 /\ registered' = registered \ S
                 /\ signalled' = [s \in Sockets |->
                                    IF s \in S THEN {} ELSE signalled[s]]
                 /\ UNCHANGED calling

\* The kernel reports readiness, of registered sockets only.
Signal == /\ signalled' \in [Sockets -> SUBSET Bits]
          /\ \A s \in Sockets : /\ signalled[s] \subseteq signalled'[s]
                                /\ s \notin registered => signalled'[s] = signalled[s]
          /\ UNCHANGED <<registered, calling>>

Forget == /\ signalled' \in [Sockets -> SUBSET Bits]
          /\ Shrinks
          /\ UNCHANGED <<registered, calling>>

Deliver(s) == /\ calling = "none"
              /\ s \in registered
              /\ signalled[s] # {}
              /\ calling' = s
              /\ signalled' \in [Sockets -> SUBSET Bits]
              /\ Shrinks
              /\ UNCHANGED registered

\* A timer callback, or application code outside the loop, takes over.
CallOther == /\ calling = "none"
             /\ calling' = "other"
             /\ signalled' \in [Sockets -> SUBSET Bits]
             /\ Shrinks
             /\ UNCHANGED registered

Return == /\ calling # "none"
          /\ calling' = "none"
          /\ UNCHANGED <<registered, signalled>>

Next == \/ \E s \in Sockets : Register(s) \/ Deliver(s)
        \/ \E S \in SUBSET Sockets : Unregister(S)
        \/ Signal \/ Forget \/ CallOther \/ Return

Spec == Init /\ [][Next]_vars
==============================================================================
