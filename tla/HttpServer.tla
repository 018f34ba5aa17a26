----------------------------- MODULE HttpServer -----------------------------
(***************************************************************************)
(* The life of the connections of src/http_server.c: accept, request,      *)
(* upgrade to WebSocket, buffered output, closing, removal from the event  *)
(* loop, and the graceful shutdown of the whole server.                    *)
(*                                                                         *)
(* Everything runs on the loop thread, so a handler is one action.  Two    *)
(* handlers walk the intrusive connection list while they call back into   *)
(* the application (HttpServer_begin_shutdown and the forced part of       *)
(* on_shutdown_retry_tick); each iteration of those walks is a step, and   *)
(* cur is the loop variable: the next pointer saved before the callback.   *)
(*                                                                         *)
(* Output is counted in frames.  event_backend_remove and _modify may      *)
(* fail, at most MaxFail times (io_uring: the submission queue is full).   *)
(* The 5000 ms deadline is ForceAfter ticks of the 50 ms retry timer.      *)
(* Allocations succeed.                                                    *)
(***************************************************************************)
EXTENDS Integers, Sequences, SequencesExt

CONSTANTS
    Conns,        \* connections that may be accepted
    MaxOut,       \* MAX_WS_OUT_QUEUE, in frames; also the bound for responses
                  \* and HttpConnection_ws_send, which have no limit
    MaxFail,      \* bound: backend calls that fail
    MaxDrain,     \* bound: HttpServer_drain_retain outstanding at once
    ForceAfter,   \* ticks before connections are forced out
    Broadcasts    \* may on_ws_close write to other connections?

ASSUME ConstantsOK ==
    /\ {MaxOut, MaxFail, MaxDrain, ForceAfter} \subseteq Nat
    /\ Broadcasts \in BOOLEAN

VARIABLES
    conn,         \* HttpConnection fields of every connection
    list,         \* server->conns_head, first connection first
    listener,     \* server->server_sock is not NULL
    down,         \* server->shutting_down
    drain,        \* server->drain_count
    elapsed,      \* ticks since shutdown_started_ms, up to ForceAfter + 1
    running,      \* loop->running
    pc,           \* "idle", "begin" (begin_shutdown walk), "tick" (forced walk)
    cur,          \* curr of the walk, or "null"
    fails         \* backend calls that failed so far

vars == <<conn, list, listener, down, drain, elapsed, running, pc, cur, fails>>
server == <<listener, down, drain, elapsed>>

Modes == {"http", "ws"}
Peers == {"up", "fin", "rst"}
Null == "null"

Connection == [born : BOOLEAN, mode : Modes, closing : BOOLEAN, pending : BOOLEAN,
               done : BOOLEAN, opened : Nat, closed : Nat, out : 0 .. MaxOut + 1,
               wreg : BOOLEAN, wonly : BOOLEAN, open : BOOLEAN, peer : Peers]

new_HttpConnection ==
    [born |-> FALSE, mode |-> "http", closing |-> FALSE, pending |-> FALSE,
     done |-> FALSE, opened |-> 0, closed |-> 0, out |-> 0,
     wreg |-> FALSE, wonly |-> FALSE, open |-> TRUE, peer |-> "up"]

Init ==
    /\ conn = [c \in Conns |-> new_HttpConnection]
    /\ list = <<>>
    /\ listener = TRUE
    /\ down = FALSE
    /\ drain = 0
    /\ elapsed = 0
    /\ running = TRUE
    /\ pc = "idle"
    /\ cur = Null
    /\ fails = 0

-----------------------------------------------------------------------------
Linked(c) == conn[c].born /\ ~conn[c].done
Idle == running /\ pc = "idle"

\* curr->next: an unlinked connection has no successor
Next_(c) ==
    IF \E i \in 1 .. Len(list) - 1 : list[i] = c
    THEN list[1 + CHOOSE i \in 1 .. Len(list) - 1 : list[i] = c]
    ELSE Null

First(s) == IF s = <<>> THEN Null ELSE Head(s)

\* remove_conn_from_server for the connections that are done after the step
Relink == list' = SelectSeq(list, LAMBDA d : ~conn'[d].done)

\* HttpServer_maybe_finish_shutdown, evaluated on the state a handler leaves
Finished == ~listener' /\ list' = <<>> /\ drain' = 0

HttpServer_maybe_finish_shutdown == running' = ~(down' /\ Finished)

\* notify_ws_close and the outcome of event_backend_remove in conn_shutdown
ClosedSilent(x, fails_) ==
    IF x.done \/ x.pending THEN x
    ELSE [x EXCEPT !.closing = TRUE, !.pending = fails_, !.done = ~fails_]

Closed(x, fails_) ==
    IF x.done \/ x.pending THEN x
    ELSE [x EXCEPT !.closing = TRUE, !.pending = fails_, !.done = ~fails_,
                   !.closed = @ + (IF x.mode = "ws" /\ x.closed = 0 THEN 1 ELSE 0)]

\* Connections an on_ws_close handler may write to whose send then fails
Victims(c, x) ==
    IF Broadcasts /\ x.mode = "ws" /\ ~x.pending /\ ~x.done
    THEN {d \in Conns \ {c} : /\ Linked(d) /\ ~conn[d].closing
                              /\ conn[d].mode = "ws" /\ conn[d].peer = "rst"}
    ELSE {}

\* conn_shutdown(conn[c] = x), with the shutdowns nested in on_ws_close
conn_shutdown(c, x) ==
    \E V \in SUBSET Victims(c, x) :
    \E F \in SUBSET (V \cup (IF x.pending \/ x.done THEN {} ELSE {c})) :
        /\ fails + Cardinality(F) <= MaxFail
        /\ fails' = fails + Cardinality(F)
        /\ conn' = [d \in Conns |-> IF d = c THEN Closed(x, d \in F)
                                    ELSE IF d \in V THEN Closed(conn[d], d \in F)
                                    ELSE conn[d]]
        /\ Relink

-----------------------------------------------------------------------------
\* HttpConnection_flush: send, then adjust the write interest in the backend.
\* A result is the connection and whether flush goes on to conn_shutdown.
\* Registered: the interest after a flush that leaves r frames unsent
RegisteredOnce(x, r) ==
    [x EXCEPT !.out = r,
              !.wreg = IF r > 0 THEN TRUE ELSE @ /\ x.closing,
              !.wonly = IF r > 0 THEN @ \/ (x.closing /\ ~x.wreg) ELSE @ /\ x.closing]

Registered(x, r) ==
    [x EXCEPT !.out = r,
              !.wreg = IF r > 0 THEN TRUE ELSE @ /\ x.closing,
              !.wonly = IF r > 0 THEN @ \/ x.closing ELSE @ /\ x.closing]

\* Does the flush call event_backend_modify?
Modifies(x, r) ==
    IF r > 0 THEN IF x.closing THEN ~x.wonly ELSE ~x.wreg
    ELSE x.wreg /\ ~x.closing

FlushedEager(x) ==
    {[to |-> Registered(x, r), shut |-> x.closing] : r \in 0 .. x.out}

Flushed(x) ==
    IF ~x.open THEN {[to |-> x, shut |-> FALSE]}
    ELSE IF x.out > 0 /\ x.peer = "rst" THEN {[to |-> x, shut |-> TRUE]}
    ELSE {[to |-> Registered(x, r), shut |-> x.closing /\ r = 0] : r \in 0 .. x.out}
         \cup {[to |-> [x EXCEPT !.out = r], shut |-> TRUE] :
                  r \in {q \in 0 .. x.out : Modifies(x, q) /\ fails < MaxFail}}

HttpConnection_flush(c, x) ==
    \E f \in Flushed(x) :
        IF f.shut THEN conn_shutdown(c, f.to)
        ELSE /\ conn' = [conn EXCEPT ![c] = f.to]
             /\ UNCHANGED <<list, fails>>

-----------------------------------------------------------------------------
\* on_accept_cb: a client arrives; while shutting down the listener goes instead
Accept(c) ==
    /\ Idle /\ listener /\ ~down /\ ~conn[c].born
    /\ conn' = [conn EXCEPT ![c].born = TRUE]
    /\ list' = <<c>> \o list
    /\ UNCHANGED <<server, running, pc, cur, fails>>

AcceptWhileDown ==
    /\ Idle /\ listener /\ down
    /\ listener' = FALSE
    /\ UNCHANGED <<conn, list, down, drain, elapsed, pc, cur, fails>>
    /\ HttpServer_maybe_finish_shutdown

\* The guard at the top of HttpConnection_on_readable
Reads(c) == Idle /\ Linked(c) /\ ~conn[c].closing /\ ~conn[c].pending

Handled == UNCHANGED <<server, pc, cur>> /\ HttpServer_maybe_finish_shutdown

\* recv returns 0 (the socket is marked not open) or an error, or the bytes are
\* not a request and an error response is sent past the output buffer
ReadEnds(c) ==
    /\ Reads(c)
    /\ \E open \in BOOLEAN :
         /\ IF open THEN conn[c].mode = "http" \/ conn[c].peer = "rst"
            ELSE conn[c].peer = "fin"
         /\ conn_shutdown(c, [conn[c] EXCEPT !.open = open])
    /\ Handled

\* A complete request: 503 while shutting down, else dispatch, whose response is
\* appended and flushed; without keep-alive the connection is then shut down
RequestKept(c) ==
    /\ Reads(c) /\ ~down /\ conn[c].mode = "http" /\ conn[c].peer # "rst"
    /\ conn[c].out < MaxOut
    /\ HttpConnection_flush(c, [conn[c] EXCEPT !.out = @ + 1])
    /\ Handled

RequestClosed(c) ==
    /\ Reads(c) /\ conn[c].mode = "http" /\ conn[c].peer # "rst"
    /\ conn[c].out < MaxOut
    /\ IF down THEN conn_shutdown(c, conn[c])
       ELSE \E f \in Flushed([conn[c] EXCEPT !.out = @ + 1]) : conn_shutdown(c, f.to)
    /\ Handled

\* The 101 response is flushed in HTTP mode; on_ws_open follows whenever the
\* connection still has a server, even if the flush already shut it down
Upgrade(c) ==
    /\ Reads(c) /\ ~down /\ conn[c].mode = "http" /\ conn[c].peer # "rst"
    /\ conn[c].out < MaxOut
    /\ \E f \in Flushed([conn[c] EXCEPT !.out = @ + 1]) :
       \E failed \in BOOLEAN :
          LET x == IF f.shut THEN Closed(f.to, failed) ELSE f.to
          IN /\ failed => f.shut /\ fails < MaxFail
             /\ fails' = fails + (IF failed THEN 1 ELSE 0)
             /\ conn' = [conn EXCEPT ![c] = [x EXCEPT !.mode = "ws",
                                                      !.opened = IF x.done THEN 0 ELSE 1]]
             /\ Relink
    /\ Handled

\* Any of the HttpConnection_ws_send functions, from a handler
WsSend(c) ==
    /\ Idle /\ Linked(c) /\ ~conn[c].closing /\ conn[c].mode = "ws"
    /\ conn[c].out < MaxOut
    /\ HttpConnection_flush(c, [conn[c] EXCEPT !.out = @ + 1])
    /\ Handled

\* A PING whose PONG does not fit the output queue ends the connection
PongRefused(c) ==
    /\ Reads(c) /\ conn[c].mode = "ws" /\ conn[c].out >= MaxOut
    /\ conn_shutdown(c, conn[c])
    /\ Handled

\* HttpConnection_ws_close: the CLOSE frame is queued and flushed
ws_close(c) == HttpConnection_flush(c, [conn[c] EXCEPT !.closing = TRUE, !.out = @ + 1])

\* A CLOSE frame, a frame that does not decode, or the application closing
WsClose(c) ==
    /\ Idle /\ Linked(c) /\ ~conn[c].closing /\ conn[c].mode = "ws"
    /\ ws_close(c)
    /\ Handled

\* HttpConnection_on_writable: reported while registered and the peer is not reset
\* (a reset is reported as CLOSE | ERROR, which only reaches on_readable)
HttpConnection_on_writable(c) ==
    /\ Idle /\ Linked(c) /\ conn[c].wreg /\ conn[c].peer # "rst"
    /\ HttpConnection_flush(c, conn[c])
    /\ Handled

-----------------------------------------------------------------------------
\* HttpServer_sweep_closing: retry the listener and the pending removals
SweptNever(R) == conn

Swept(R) == [c \in Conns |-> IF c \in R
                             THEN [conn[c] EXCEPT !.done = TRUE, !.pending = FALSE]
                             ELSE conn[c]]

HttpServer_sweep_closing ==
    LET waiting == {c \in Conns : Linked(c) /\ conn[c].pending}
    IN \E R \in SUBSET waiting, gone \in BOOLEAN :
          LET failed == Cardinality(waiting \ R) + (IF listener /\ ~gone THEN 1 ELSE 0)
          IN /\ fails + failed <= MaxFail
             /\ fails' = fails + failed
             /\ listener' = (listener /\ ~gone)
             /\ conn' = Swept(R)
             /\ Relink

\* HttpServer_begin_shutdown: timer, sweep, then the walk over the connections
HttpServer_begin_shutdown ==
    /\ Idle /\ ~down
    /\ down' = TRUE
    /\ elapsed' = 0
    /\ HttpServer_sweep_closing
    /\ pc' = "begin"
    /\ cur' = First(list')
    /\ UNCHANGED <<drain, running>>

\* One connection of the walk: a CLOSE frame for a WebSocket, the end for HTTP
BeginConn(c) ==
    IF conn[c].mode = "ws"
    THEN IF conn[c].closing THEN UNCHANGED <<conn, list, fails>> ELSE ws_close(c)
    ELSE conn_shutdown(c, [conn[c] EXCEPT !.closing = TRUE])

BeginStep ==
    /\ pc = "begin" /\ cur # Null
    /\ cur' = Next_(cur)
    /\ BeginConn(cur)
    /\ UNCHANGED <<server, pc>>
    /\ HttpServer_maybe_finish_shutdown

BeginEnd ==
    /\ pc = "begin" /\ cur = Null
    /\ pc' = "idle"
    /\ UNCHANGED <<conn, list, server, cur, fails>>
    /\ HttpServer_maybe_finish_shutdown

\* on_shutdown_retry_tick: sweep, and past the deadline first force everyone out
Tick ==
    /\ Idle /\ down
    /\ elapsed' = IF elapsed > ForceAfter THEN elapsed ELSE elapsed + 1
    /\ IF elapsed' > ForceAfter
       THEN /\ pc' = "tick"
            /\ cur' = First(list)
            /\ UNCHANGED <<conn, list, listener, down, drain, running, fails>>
       ELSE /\ HttpServer_sweep_closing
            /\ UNCHANGED <<down, drain, pc, cur>>
            /\ HttpServer_maybe_finish_shutdown

TickStep ==
    /\ pc = "tick" /\ cur # Null
    /\ cur' = Next_(cur)
    /\ conn_shutdown(cur, [conn[cur] EXCEPT !.out = 0])
    /\ UNCHANGED <<server, pc>>
    /\ HttpServer_maybe_finish_shutdown

TickEnd ==
    /\ pc = "tick" /\ cur = Null
    /\ pc' = "idle"
    /\ HttpServer_sweep_closing
    /\ UNCHANGED <<down, drain, elapsed, cur>>
    /\ HttpServer_maybe_finish_shutdown

HttpServer_drain_retain ==
    /\ Idle /\ drain < MaxDrain
    /\ drain' = drain + 1
    /\ UNCHANGED <<conn, list, listener, down, elapsed, running, pc, cur, fails>>

HttpServer_drain_release ==
    /\ Idle /\ drain > 0
    /\ drain' = drain - 1
    /\ IF down THEN HttpServer_sweep_closing
       ELSE UNCHANGED <<conn, list, listener, fails>>
    /\ UNCHANGED <<down, elapsed, pc, cur>>
    /\ HttpServer_maybe_finish_shutdown

\* The remote end finishes (FIN) or resets the connection
PeerEnds(c, p) ==
    /\ running /\ Linked(c) /\ conn[c].peer = "up" /\ p # "up"
    /\ conn' = [conn EXCEPT ![c].peer = p]
    /\ UNCHANGED <<list, server, running, pc, cur, fails>>

-----------------------------------------------------------------------------
ConnStep(c) ==
    \/ Accept(c) \/ ReadEnds(c) \/ RequestKept(c) \/ RequestClosed(c) \/ Upgrade(c)
    \/ WsSend(c) \/ PongRefused(c) \/ WsClose(c) \/ HttpConnection_on_writable(c)
    \/ \E p \in Peers : PeerEnds(c, p)

Walk == BeginStep \/ BeginEnd \/ TickStep \/ TickEnd

ServerStep ==
    \/ AcceptWhileDown \/ HttpServer_begin_shutdown \/ Walk \/ Tick
    \/ HttpServer_drain_retain \/ HttpServer_drain_release

\* After the loop stops nothing of the server runs
Stopped == ~running /\ pc = "idle" /\ UNCHANGED vars

Next == (\E c \in Conns : ConnStep(c)) \/ ServerStep \/ Stopped

Spec == Init /\ [][Next]_vars

-----------------------------------------------------------------------------
\* Field types, and the list holds each linked connection exactly once.
TypeOK ==
    /\ conn \in [Conns -> Connection]
    /\ Range(list) = {c \in Conns : Linked(c)} /\ IsInjective(list)
    /\ {listener, down, running} \subseteq BOOLEAN
    /\ drain \in 0 .. MaxDrain
    /\ elapsed \in 0 .. ForceAfter + 1
    /\ pc \in {"idle", "begin", "tick"}
    /\ cur \in Conns \cup {Null}
    /\ fails \in 0 .. MaxFail

\* Between handlers a connection that is closing but not removed is either
\* waiting for a retried removal, or has output left and is registered for
\* writability alone: it is never forgotten, and its unread input cannot make
\* the level-triggered backend report it for ever.
ClosingWaitsForWrite ==
    pc = "idle" =>
        \A c \in Conns : Linked(c) /\ conn[c].closing /\ ~conn[c].pending =>
            conn[c].out > 0 /\ conn[c].wreg /\ conn[c].wonly

\* A removed WebSocket connection that was announced by on_ws_open has been
\* reported to on_ws_close, and no connection is ever reported twice,
\* whatever path (read error, failed send, shutdown, forced tick) removed it.
OpenClosePaired ==
    \A c \in Conns :
        /\ conn[c].closed <= 1
        /\ conn[c].done => conn[c].closed = conn[c].opened

\* No connection is ever reported to on_ws_close twice.
ClosedOnce == \A c \in Conns : conn[c].closed <= 1

\* A connection that closes is neither forgotten nor closed twice.
ClosingRight == TypeOK /\ ClosingWaitsForWrite /\ ClosedOnce

\* Once begin_shutdown has returned every remaining connection is closing.
\* (Stated for on_ws_close handlers that do not write to other connections.)
AllClosing == down /\ pc = "idle" => \A c \in Conns : Linked(c) => conn[c].closing

\* A shutdown reaches every connection, and each close is reported once.
ClosePaired == OpenClosePaired /\ AllClosing

\* A WebSocket connection leaves with output unsent only if its peer has ended,
\* a PING came while its output queue was full, or the shutdown deadline has
\* passed: once it is closing, everything queued up to the CLOSE frame reaches a
\* peer that keeps reading.  (Stated for a backend that refuses no change.)
FlushedBeforeRemoval ==
    [][\A c \in Conns :
         /\ Linked(c) /\ conn[c].mode = "ws" /\ conn[c].peer = "up"
         /\ conn[c].closing \/ conn[c].out < MaxOut
         /\ conn'[c].done /\ elapsed <= ForceAfter
         => conn'[c].out = 0]_vars

=============================================================================
