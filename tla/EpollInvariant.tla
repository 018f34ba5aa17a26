---------------------------- MODULE EpollInvariant ----------------------------
(*****************************************************************************)
(* The event loop on epoll: the invariant every step of the model preserves, *)
(* and the steps of the application: sockets and timers are opened, added,   *)
(* removed and released.                                                     *)
(*****************************************************************************)
EXTENDS EpollLoop, TLAPS

USE ZenonT(60)

-----------------------------------------------------------------------------
(* The inductive invariant.                                                *)

Mapped(c) == \E f \in Slots : ctx_map[f] = c
Deferred(x) == \E i \in 1..Len(defer) : defer[i] = x
InBatch(t) == \E i \in 1..Len(batch) : batch[i].src = t

(* The kernel's set and ctx_map agree, a context stands in one place of    *)
(* the map and belongs to the source that has that descriptor.             *)
KernelAgrees == kep = ctx_map
PlacesMade == \A f \in Slots : ctx_map[f] <= made
OnePlace == \A f, g \in Slots : ctx_map[f] # 0 /\ ctx_map[f] = ctx_map[g] => f = g
SocketPlaces == \A f \in Fds : ctx_map[f] # 0 =>
                  ctx[ctx_map[f]].src \in Sockets /\ sock[ctx[ctx_map[f]].src].fd = f
TimerPlaces == \A t \in Timers : ctx_map[t] # 0 => ctx[ctx_map[t]].src = t
AddedPlaces == \A t \in Timers : timer[t].added => ctx_map[t] # 0
MapInv == KernelAgrees /\ PlacesMade /\ OnePlace /\ SocketPlaces /\ TimerPlaces /\ AddedPlaces

(* Descriptors of open sockets differ; a freed socket is closed and a      *)
(* socket in the defer queue is open and out of the map.                   *)
SocketInv ==
  /\ \A s, r \in Sockets : sock[s].fd # NoFd /\ sock[s].fd = sock[r].fd => s = r
  /\ \A s \in Sockets : sock[s].freed => sock[s].fd = NoFd
  /\ \A s \in Sockets : Deferred(s) => sock[s].fd # NoFd /\ ctx_map[sock[s].fd] = 0

(* A context that names its socket is the one in the map for it.           *)
LiveInv ==
  phase # "destroyed" =>
    \A c \in 1..made : ctx[c].sock =>
       /\ ctx[c].src \in Sockets /\ sock[ctx[c].src].fd # NoFd
       /\ ctx_map[sock[ctx[c].src].fd] = c

(* A context is referenced from the map or from the defer queue, not both. *)
RefInv ==
  /\ \A c \in 1..made : ctx[c].refs = One(Mapped(c)) + One(Deferred(c))
  /\ \A c \in Ctx : Deferred(c) => c <= made /\ ~Mapped(c)
  /\ \A i, j \in 1..Len(defer) : defer[i] \in Ctx /\ defer[i] = defer[j] => i = j

(* An event's context is its source's, and still referenced.  A timer has  *)
(* one event at most.                                                      *)
BatchInv ==
  /\ batch # <<>> => phase = "batch"
  /\ \A i \in 1..Len(batch) : batch[i].src \in Sockets =>
        /\ batch[i].c <= made /\ ctx[batch[i].c].src = batch[i].src
        /\ Mapped(batch[i].c) \/ Deferred(batch[i].c)
        /\ batch[i].mask # {}
  /\ \A i, j \in 1..Len(batch) : batch[i].src \in Timers /\ batch[i].src = batch[j].src => i = j

(* A timer's references are those of its owner, of active_timers, of the  *)
(* running callback and of its event in the batch.                         *)
TimerInv ==
  \A t \in Timers :
    timer[t].refs = One(timer[t].owned) + One(timer[t].added) + One(calling = t) + One(InBatch(t))

IInv == TypeOK /\ MapInv /\ SocketInv /\ LiveInv /\ RefInv /\ BatchInv /\ TimerInv

-----------------------------------------------------------------------------
(* The records: what an update of a field leaves.                          *)

(* The sockets' part of TypeOK.                                            *)
LEMMA SocketsTyped == ASSUME TypeOK PROVE sock \in [Sockets -> SocketRec]
BY DEF TypeOK

(* The timers' part of TypeOK.                                             *)
LEMMA TimersTyped == ASSUME TypeOK PROVE timer \in [Timers -> TimerRec]
BY DEF TypeOK

(* The contexts' part of TypeOK.                                           *)
LEMMA ContextsTyped == ASSUME TypeOK PROVE ctx \in [Ctx -> CtxRec]
BY DEF TypeOK

(* The count of contexts is within its bound.                              *)
LEMMA MadeTyped == ASSUME TypeOK PROVE made \in 0..MaxCtx
BY DEF TypeOK

(* ctx_map and the kernel's set map descriptors to contexts.               *)
LEMMA MapTyped == ASSUME TypeOK PROVE ctx_map \in [Slots -> 0..MaxCtx] /\ kep \in [Slots -> 0..MaxCtx]
BY DEF TypeOK

(* The defer queue holds contexts and sockets.                             *)
LEMMA DeferTyped == ASSUME TypeOK PROVE defer \in Seq(Ctx \cup Sockets)
BY DEF TypeOK

(* The batch holds events.                                                 *)
LEMMA BatchTyped == ASSUME TypeOK PROVE batch \in Seq(EventRec)
BY DEF TypeOK

(* The types of what the loop itself keeps.                                *)
LEMMA LoopTyped == ASSUME TypeOK
                   PROVE  /\ calling \in Sockets \cup Timers \cup {"none", "main"}
                          /\ phase \in {"wait", "batch", "destroyed"}
                          /\ running \in BOOLEAN /\ failed \in 0..MaxFail /\ stopped \subseteq Timers
BY DEF TypeOK

(* What setting the descriptor or the readiness of a socket leaves.        *)
LEMMA SocketFields ==
  ASSUME NEW r \in SocketRec
  PROVE  /\ r.fd \in Fds \cup {NoFd} /\ r.freed \in BOOLEAN /\ r.ready \in SUBSET Bits
         /\ \A f \in Fds : /\ [r EXCEPT !.fd = f] \in SocketRec
                           /\ [r EXCEPT !.fd = f].fd = f
                           /\ [r EXCEPT !.fd = f].freed = r.freed
         /\ \A b \in SUBSET Bits : /\ [r EXCEPT !.ready = b] \in SocketRec
                                   /\ [r EXCEPT !.ready = b].fd = r.fd
                                   /\ [r EXCEPT !.ready = b].freed = r.freed
BY DEF SocketRec

(* What an update of a context leaves.                                     *)
LEMMA ContextFields ==
  ASSUME NEW r \in CtxRec
  PROVE  /\ r.src \in Sockets \cup Timers \cup {"none"} /\ r.sock \in BOOLEAN
         /\ r.mask \in SUBSET Bits /\ r.refs \in Nat
         /\ \A m \in SUBSET Bits :
               /\ [r EXCEPT !.mask = m] \in CtxRec /\ [r EXCEPT !.mask = m].src = r.src
               /\ [r EXCEPT !.mask = m].sock = r.sock /\ [r EXCEPT !.mask = m].refs = r.refs
         /\ /\ [r EXCEPT !.sock = FALSE] \in CtxRec /\ [r EXCEPT !.sock = FALSE].src = r.src
            /\ ~[r EXCEPT !.sock = FALSE].sock /\ [r EXCEPT !.sock = FALSE].refs = r.refs
         /\ \A n \in Nat :
               /\ [r EXCEPT !.refs = n] \in CtxRec /\ [r EXCEPT !.refs = n].src = r.src
               /\ [r EXCEPT !.refs = n].sock = r.sock /\ [r EXCEPT !.refs = n].refs = n
<1>1. /\ r.src \in Sockets \cup Timers \cup {"none"} /\ r.sock \in BOOLEAN
      /\ r.mask \in SUBSET Bits /\ r.refs \in Nat
  BY DEF CtxRec
<1>2. \A m \in SUBSET Bits :
         /\ [r EXCEPT !.mask = m] \in CtxRec /\ [r EXCEPT !.mask = m].src = r.src
         /\ [r EXCEPT !.mask = m].sock = r.sock /\ [r EXCEPT !.mask = m].refs = r.refs
  BY DEF CtxRec
<1>3. /\ [r EXCEPT !.sock = FALSE] \in CtxRec /\ [r EXCEPT !.sock = FALSE].src = r.src
      /\ ~[r EXCEPT !.sock = FALSE].sock /\ [r EXCEPT !.sock = FALSE].refs = r.refs
  BY DEF CtxRec
<1>4. \A n \in Nat :
         /\ [r EXCEPT !.refs = n] \in CtxRec /\ [r EXCEPT !.refs = n].src = r.src
         /\ [r EXCEPT !.refs = n].sock = r.sock /\ [r EXCEPT !.refs = n].refs = n
  BY DEF CtxRec
<1> QED BY <1>1, <1>2, <1>3, <1>4

(* The types of a timer's fields.                                          *)
LEMMA TimerFields ==
  ASSUME NEW r \in TimerRec
  PROVE  /\ r.added \in BOOLEAN /\ r.active \in BOOLEAN /\ r.armed \in BOOLEAN
         /\ r.fired \in BOOLEAN /\ r.owned \in BOOLEAN /\ r.refs \in Nat
BY DEF TimerRec

(* What a timer's step leaves of its registration and its references.      *)
Kept(r, q) == q \in TimerRec /\ q.added = r.added /\ q.owned = r.owned

(* Stop, expiry and the callback leave registration and owner alone.       *)
LEMMA TimerUpdates ==
  ASSUME NEW r \in TimerRec, NEW n \in Nat, NEW t
  PROVE  /\ Kept(r, [r EXCEPT !.refs = n]) /\ [r EXCEPT !.refs = n].refs = n
         /\ Kept(r, StopTimer(r)) /\ StopTimer(r).refs = r.refs
         /\ Kept(r, Expired(t, r)) /\ Expired(t, r).refs = r.refs
         /\ \A b \in BOOLEAN : Kept(r, [r EXCEPT !.fired = b]) /\ [r EXCEPT !.fired = b].refs = r.refs
         /\ \A b \in BOOLEAN : /\ Kept(r, [r EXCEPT !.fired = TRUE, !.armed = b])
                               /\ [r EXCEPT !.fired = TRUE, !.armed = b].refs = r.refs
         /\ /\ Kept(r, [r EXCEPT !.active = TRUE, !.armed = TRUE, !.fired = FALSE])
            /\ [r EXCEPT !.active = TRUE, !.armed = TRUE, !.fired = FALSE].refs = r.refs
<1>1. Kept(r, [r EXCEPT !.refs = n]) /\ [r EXCEPT !.refs = n].refs = n
  BY DEF TimerRec, Kept
<1>2. Kept(r, StopTimer(r)) /\ StopTimer(r).refs = r.refs
  <2>1. Kept(r, r)
    BY DEF Kept
  <2>2. Kept(r, Disarmed(r)) /\ Disarmed(r).refs = r.refs
    BY DEF TimerRec, Kept, Disarmed
  <2> QED BY <2>1, <2>2 DEF StopTimer
<1>3. Kept(r, Expired(t, r)) /\ Expired(t, r).refs = r.refs
  <2>1. Kept(r, r)
    BY DEF Kept
  <2>2. Kept(r, [r EXCEPT !.active = FALSE]) /\ [r EXCEPT !.active = FALSE].refs = r.refs
    BY DEF TimerRec, Kept
  <2> QED BY <2>1, <2>2 DEF Expired
<1>4. \A b \in BOOLEAN : Kept(r, [r EXCEPT !.fired = b]) /\ [r EXCEPT !.fired = b].refs = r.refs
  BY DEF TimerRec, Kept
<1>5. \A b \in BOOLEAN : /\ Kept(r, [r EXCEPT !.fired = TRUE, !.armed = b])
                         /\ [r EXCEPT !.fired = TRUE, !.armed = b].refs = r.refs
  BY DEF TimerRec, Kept
<1>6. /\ Kept(r, [r EXCEPT !.active = TRUE, !.armed = TRUE, !.fired = FALSE])
      /\ [r EXCEPT !.active = TRUE, !.armed = TRUE, !.fired = FALSE].refs = r.refs
  BY DEF TimerRec, Kept
<1> QED BY <1>1, <1>2, <1>3, <1>4, <1>5, <1>6

Counting(r, n) == [r EXCEPT !.refs = n]

(* A new count leaves registration and owner alone.                        *)
LEMMA TimerCounting ==
  ASSUME NEW r \in TimerRec, NEW n \in Nat
  PROVE  Kept(r, Counting(r, n)) /\ Counting(r, n).refs = n
BY DEF TimerRec, Kept, Counting

Disowned(r, n) == [r EXCEPT !.owned = FALSE, !.refs = n]

(* The owner gives its reference up.                                       *)
LEMMA TimerDisowned ==
  ASSUME NEW r \in TimerRec, NEW n \in Nat
  PROVE  Disowned(r, n) \in TimerRec /\ Disowned(r, n).added = r.added /\ ~Disowned(r, n).owned /\ Disowned(r, n).refs = n
BY DEF TimerRec, Disowned

Added(r, n) == [r EXCEPT !.added = TRUE, !.refs = n]

(* active_timers takes a timer.                                            *)
LEMMA TimerAdded ==
  ASSUME NEW r \in TimerRec, NEW n \in Nat
  PROVE  Added(r, n) \in TimerRec /\ Added(r, n).added /\ Added(r, n).owned = r.owned /\ Added(r, n).refs = n
BY DEF TimerRec, Added

Dropped(r, n) == [r EXCEPT !.added = FALSE, !.refs = n]

(* active_timers gives a timer up.                                         *)
LEMMA TimerDropped ==
  ASSUME NEW r \in TimerRec, NEW n \in Nat
  PROVE  Dropped(r, n) \in TimerRec /\ ~Dropped(r, n).added /\ Dropped(r, n).owned = r.owned /\ Dropped(r, n).refs = n
BY DEF TimerRec, Dropped

(* One is 1 for TRUE and 0 for FALSE.                                      *)
LEMMA OneNat == \A b : One(b) \in {0, 1} /\ (b => One(b) = 1) /\ (~b => One(b) = 0)
BY DEF One

(* Sets of at most one element, from the definition of Cardinality.        *)
LEMMA CountNone == Cardinality({}) = 0
<1> DEFINE P(f) == f = [T \in SUBSET {} |-> IF T = {} THEN 0 ELSE 1 + f[T \ {CHOOSE x : x \in T}]]
           CS == CHOOSE f : P(f)
<1>1. P([T \in SUBSET {} |-> 0])
  OBVIOUS
<1>2. P(CS)
  BY <1>1
<1>3. Cardinality({}) = CS[{}]
  BY DEF Cardinality
<1>4. CS[{}] = 0
  OBVIOUS
<1> QED BY <1>3, <1>4

(* A set of one element has size 1.                                        *)
LEMMA CountSingle == ASSUME NEW a PROVE Cardinality({a}) = 1
<1> DEFINE P(f) == f = [T \in SUBSET {a} |-> IF T = {} THEN 0 ELSE 1 + f[T \ {CHOOSE x : x \in T}]]
           CS == CHOOSE f : P(f)
           g == [T \in SUBSET {a} |-> IF T = {} THEN 0 ELSE 1]
<1>1. SUBSET {a} = {{}, {a}} /\ {a} # {} /\ {a} \ {CHOOSE x : x \in {a}} = {}
  <2>1. (CHOOSE x : x \in {a}) = a
    OBVIOUS
  <2> QED OBVIOUS
<1>2. P(g)
  <2>1. \A T \in SUBSET {a} : g[T] = IF T = {} THEN 0 ELSE 1 + g[T \ {CHOOSE x : x \in T}]
    BY SMTT(60)
  <2> QED BY SMTT(60)
<1>3. P(CS)
  BY <1>2
<1>4. Cardinality({a}) = CS[{a}]
  BY DEF Cardinality
<1>5. CS[{a}] = 1
  <2> HIDE DEF CS
  <2>1. CS[{}] = 0 /\ CS[{a}] = 1 + CS[{a} \ {CHOOSE x : x \in {a}}]
    BY <1>3
  <2> QED BY <2>1, SMTT(60)
<1> QED BY <1>4, <1>5

(* A set of at most one element has size 0 or 1.                           *)
LEMMA CountOne ==
  ASSUME NEW S, \A x, y \in S : x = y
  PROVE  Cardinality(S) = One(\E x \in S : TRUE)
<1>1. CASE S = {}
  BY <1>1, CountNone DEF One
<1>2. CASE S # {}
  <2>1. PICK x : S = {x}
    BY <1>2, SMTT(60)
  <2>2. Cardinality({x}) = 1
    BY CountSingle
  <2> QED BY <1>2, <2>1, <2>2 DEF One
<1> QED BY <1>1, <1>2

(* The invariant holds of a new loop.                                      *)
LEMMA InitInv == Init => IInv
<1> SUFFICES ASSUME Init PROVE IInv
  OBVIOUS
<1>1. TypeOK
  <2>1. sock \in [Sockets -> SocketRec]
    BY DEF Init, NewSocket, SocketRec
  <2>2. timer \in [Timers -> TimerRec]
    BY DEF Init, NewTimer, TimerRec
  <2>3. ctx \in [Ctx -> CtxRec]
    BY DEF Init, CtxRec
  <2>4. made \in 0..MaxCtx /\ failed \in 0..MaxFail
    BY ConstantsOK, SMTT(60) DEF Init
  <2>5. ctx_map \in [Slots -> 0..MaxCtx] /\ kep \in [Slots -> 0..MaxCtx]
    BY ConstantsOK, SMTT(60) DEF Init
  <2>6. defer \in Seq(Ctx \cup Sockets) /\ batch \in Seq(EventRec)
    BY SMTT(60) DEF Init
  <2> QED BY <2>1, <2>2, <2>3, <2>4, <2>5, <2>6 DEF Init, TypeOK
<1>2. MapInv /\ SocketInv /\ LiveInv /\ RefInv /\ BatchInv
  <2>1. MapInv
    BY SMTT(60) DEF Init, MapInv, KernelAgrees, PlacesMade, OnePlace, SocketPlaces,
       TimerPlaces, AddedPlaces, NewTimer, Slots
  <2>2. SocketInv
    BY SMTT(60) DEF Init, SocketInv, NewSocket, Deferred
  <2>3. LiveInv /\ RefInv /\ BatchInv
    BY SMTT(60) DEF Init, LiveInv, RefInv, BatchInv, Deferred
  <2> QED BY <2>1, <2>2, <2>3
<1>3. TimerInv
  <2> SUFFICES ASSUME NEW t \in Timers
               PROVE  timer[t].refs = One(timer[t].owned) + One(timer[t].added) + One(calling = t) + One(InBatch(t))
    BY DEF TimerInv
  <2>1. timer[t].refs = 1 /\ timer[t].owned /\ ~timer[t].added
    BY DEF Init, NewTimer
  <2>2. calling # t /\ ~InBatch(t)
    BY ConstantsOK, SMTT(60) DEF Init, InBatch, Slots
  <2> QED BY <2>1, <2>2, SMTT(60) DEF One
<1> QED BY <1>1, <1>2, <1>3 DEF IInv

-----------------------------------------------------------------------------
(* What the parts of the invariant depend on.                              *)

SameFds == \A s \in Sockets : sock'[s].fd = sock[s].fd /\ sock'[s].freed = sock[s].freed
SameSources == \A c \in Ctx : ctx'[c].src = ctx[c].src
SameMap == ctx_map' = ctx_map /\ kep' = kep /\ made' = made

(* What ctx_map names is a context that was made.                          *)
LEMMA InTheMap ==
  ASSUME TypeOK, MapInv, NEW f \in Slots, ctx_map[f] # 0
  PROVE  ctx_map[f] \in 1..made /\ ctx_map[f] \in Ctx /\ made \in Nat
<1>1. ctx_map[f] \in 0..MaxCtx /\ made \in 0..MaxCtx /\ ctx_map[f] <= made
  BY MadeTyped, MapTyped DEF MapInv, PlacesMade
<1> QED BY <1>1, SMTT(60) DEF Ctx

(* MapInv depends on the map, descriptors, sources and active_timers.      *)
LEMMA MapFrame ==
  ASSUME TypeOK, MapInv, SameMap, SameFds, SameSources,
         \A t \in Timers : timer'[t].added => timer[t].added
  PROVE  MapInv'
<1>1. \A f \in Slots : ctx_map[f] # 0 => ctx_map[f] \in Ctx
  BY InTheMap
<1>2. ASSUME NEW f \in Fds, ctx_map[f] # 0
      PROVE  ctx'[ctx_map[f]].src \in Sockets /\ sock'[ctx'[ctx_map[f]].src].fd = f
  BY <1>1, <1>2 DEF MapInv, SocketPlaces, SameFds, SameSources, Slots
<1>3. ASSUME NEW t \in Timers, ctx_map[t] # 0  PROVE ctx'[ctx_map[t]].src = t
  BY <1>1, <1>3 DEF MapInv, TimerPlaces, SameSources, Slots
<1> QED BY <1>2, <1>3 DEF MapInv, KernelAgrees, PlacesMade, OnePlace, SocketPlaces,
           TimerPlaces, AddedPlaces, SameMap

(* SocketInv depends on descriptors, map and defer queue.                  *)
LEMMA SocketFrame ==
  ASSUME SocketInv, SameFds, UNCHANGED <<ctx_map, defer>>
  PROVE  SocketInv'
BY SMTT(60) DEF SocketInv, SameFds, Deferred

(* LiveInv survives when contexts only lose their socket.                  *)
LEMMA LiveFrame ==
  ASSUME TypeOK, LiveInv, SameMap, SameFds, SameSources, UNCHANGED phase,
         \A c \in Ctx : ctx'[c].sock => ctx[c].sock
  PROVE  LiveInv'
<1> SUFFICES ASSUME phase # "destroyed", NEW c \in 1..made, ctx'[c].sock
             PROVE  /\ ctx'[c].src \in Sockets /\ sock'[ctx'[c].src].fd # NoFd
                    /\ ctx_map[sock'[ctx'[c].src].fd] = c
  BY DEF LiveInv, SameMap
<1>1. c \in Ctx
  BY MadeTyped, ConstantsOK, SMTT(60) DEF Ctx
<1>2. ctx[c].sock /\ ctx'[c].src = ctx[c].src
  BY <1>1 DEF SameSources
<1>3. /\ ctx[c].src \in Sockets /\ sock[ctx[c].src].fd # NoFd
      /\ ctx_map[sock[ctx[c].src].fd] = c
  BY <1>2 DEF LiveInv
<1> QED BY <1>2, <1>3 DEF SameFds

(* RefInv depends on map, defer queue and counts.                          *)
LEMMA RefFrame ==
  ASSUME TypeOK, RefInv, UNCHANGED <<ctx_map, made, defer>>, \A c \in Ctx : ctx'[c].refs = ctx[c].refs
  PROVE  RefInv'
<1>1. \A c : Mapped(c)' = Mapped(c) /\ Deferred(c)' = Deferred(c)
  BY DEF Mapped, Deferred
<1>2. \A c \in 1..made : c \in Ctx
  BY MadeTyped, ConstantsOK, SMTT(60) DEF Ctx
<1>3. \A c \in 1..made : ctx'[c].refs = One(Mapped(c)) + One(Deferred(c))
  BY <1>2 DEF RefInv
<1> QED BY <1>1, <1>3 DEF RefInv

(* BatchInv depends on batch, map, defer queue and sources.                *)
LEMMA BatchFrame ==
  ASSUME TypeOK, BatchInv, SameSources, UNCHANGED <<ctx_map, made, defer, batch, phase>>
  PROVE  BatchInv'
<1>1. \A c : Mapped(c)' = Mapped(c) /\ Deferred(c)' = Deferred(c)
  BY DEF Mapped, Deferred
<1>2. \A i \in 1..Len(batch) : batch[i].c \in Ctx
  <2>1. \A i \in 1..Len(batch) : batch[i] \in EventRec
    BY BatchTyped, SMTT(60)
  <2> QED BY <2>1 DEF EventRec
<1>3. \A i \in 1..Len(batch) : ctx'[batch[i].c].src = ctx[batch[i].c].src
  BY <1>2 DEF SameSources
<1>4. ASSUME NEW i \in 1..Len(batch), batch[i].src \in Sockets
      PROVE  /\ batch[i].c <= made /\ ctx'[batch[i].c].src = batch[i].src
             /\ Mapped(batch[i].c)' \/ Deferred(batch[i].c)'
             /\ batch[i].mask # {}
  <2>1. /\ batch[i].c <= made /\ ctx[batch[i].c].src = batch[i].src
        /\ Mapped(batch[i].c) \/ Deferred(batch[i].c)
        /\ batch[i].mask # {}
    BY <1>4 DEF BatchInv
  <2>2. Mapped(batch[i].c)' = Mapped(batch[i].c) /\ Deferred(batch[i].c)' = Deferred(batch[i].c)
    BY DEF Mapped, Deferred
  <2> QED BY <1>3, <2>1, <2>2
<1> QED BY <1>4 DEF BatchInv

(* The events of the batch stay good while contexts keep their source and  *)
(* those of sockets stay referenced.                                       *)
LEMMA BatchKept ==
  ASSUME TypeOK, BatchInv, UNCHANGED <<batch, phase>>, made <= made', made' \in Nat,
         \A c \in 1..made : ctx'[c].src = ctx[c].src,
         \A c \in 1..made : ctx[c].src \in Sockets /\ (Mapped(c) \/ Deferred(c)) => Mapped(c)' \/ Deferred(c)'
  PROVE  BatchInv'
<1>1. ASSUME NEW i \in 1..Len(batch), batch[i].src \in Sockets
      PROVE  /\ batch[i].c <= made' /\ ctx'[batch[i].c].src = batch[i].src
             /\ Mapped(batch[i].c)' \/ Deferred(batch[i].c)'
             /\ batch[i].mask # {}
  <2>1. PICK c : c = batch[i].c
    OBVIOUS
  <2>2. c \in Ctx
    <3>1. batch[i] \in EventRec
      BY BatchTyped, SMTT(60)
    <3> QED BY <2>1, <3>1 DEF EventRec
  <2>3. c <= made /\ ctx[c].src = batch[i].src /\ (Mapped(c) \/ Deferred(c)) /\ batch[i].mask # {}
    BY <1>1, <2>1 DEF BatchInv
  <2>4. c \in 1..made /\ c <= made'
    BY <2>2, <2>3, MadeTyped, ConstantsOK, SMTT(60) DEF Ctx
  <2>5. ctx'[c].src = batch[i].src /\ (Mapped(c)' \/ Deferred(c)')
    BY <1>1, <2>3, <2>4
  <2>6. (Mapped(batch[i].c)' <=> Mapped(c)') /\ (Deferred(batch[i].c)' <=> Deferred(c)')
    BY <2>1 DEF Deferred
  <2> QED BY <2>1, <2>3, <2>4, <2>5, <2>6
<1> QED BY <1>1 DEF BatchInv

(* TimerInv depends on batch, owners, active_timers and counts.            *)
LEMMA TimerFrame ==
  ASSUME TimerInv, UNCHANGED batch,
         \A t \in Timers : /\ timer'[t].added = timer[t].added /\ timer'[t].owned = timer[t].owned
                           /\ timer'[t].refs = timer[t].refs /\ (calling' = t <=> calling = t)
  PROVE  TimerInv'
<1>1. \A t : InBatch(t)' = InBatch(t)
  BY DEF InBatch
<1>2. \A t \in Timers : One(calling' = t) = One(calling = t)
  OBVIOUS
<1> QED BY <1>1 DEF TimerInv

(* A step that changes no owner, no place and no reference.                *)
Quiet ==
  /\ SameMap /\ SameFds /\ SameSources /\ UNCHANGED <<defer, batch, phase>>
  /\ \A c \in Ctx : ctx'[c].refs = ctx[c].refs /\ (ctx'[c].sock => ctx[c].sock)
  /\ \A t \in Timers : /\ timer'[t].added = timer[t].added /\ timer'[t].owned = timer[t].owned
                       /\ timer'[t].refs = timer[t].refs /\ (calling' = t <=> calling = t)

(* A quiet step keeps the invariant.                                       *)
LEMMA QuietInv == ASSUME IInv, TypeOK', Quiet PROVE IInv'
<1>1. MapInv'
  BY MapFrame DEF IInv, Quiet
<1>2. SocketInv'
  BY SocketFrame DEF IInv, Quiet, SameMap
<1>3. LiveInv'
  BY LiveFrame DEF IInv, Quiet
<1>4. RefInv'
  BY RefFrame DEF IInv, Quiet, SameMap
<1>5. BatchInv'
  BY BatchFrame DEF IInv, Quiet, SameMap
<1>6. TimerInv'
  BY TimerFrame DEF IInv, Quiet
<1> QED BY <1>1, <1>2, <1>3, <1>4, <1>5, <1>6 DEF IInv

-----------------------------------------------------------------------------
(* Steps that change no owner, no place and no reference.                  *)

(* event_backend_modify is quiet: it only sets a mask.                     *)
LEMMA ModifyInv ==
  ASSUME IInv, NEW s \in Sockets, NEW m \in Masks, event_backend_modify(s, m)
  PROVE  Quiet /\ TypeOK' /\ \A x \in Ctx : ctx'[x].sock = ctx[x].sock
<1> DEFINE c == Context(s)
<1>1. UNCHANGED <<sock, timer, made, ctx_map, kep, defer, failed, stopped, batch, calling, phase, running>>
  BY DEF event_backend_modify, loopVars
<1>2. c \in Ctx
  <2>1. c # 0 /\ Open(s)
    BY DEF event_backend_modify, Context
  <2>2. sock[s].fd \in Slots
    BY <2>1, SocketsTyped, SocketFields DEF IInv, Open, Slots
  <2> QED BY <2>1, <2>2, InTheMap DEF IInv, Context
<1>3. ctx' = [ctx EXCEPT ![c] = [ctx[c] EXCEPT !.mask = m]]
  BY DEF event_backend_modify
<1>4. ctx \in [Ctx -> CtxRec] /\ m \in SUBSET Bits
  BY ContextsTyped, ConstantsOK DEF IInv, Bits
<1> HIDE DEF c
<1>5. ctx' \in [Ctx -> CtxRec]
  BY <1>2, <1>3, <1>4, ContextFields
<1>6. \A x \in Ctx : /\ ctx'[x].src = ctx[x].src /\ ctx'[x].sock = ctx[x].sock
                     /\ ctx'[x].refs = ctx[x].refs
  BY <1>2, <1>3, SMTT(60)
<1>7. TypeOK'
  BY <1>1, <1>5 DEF IInv, TypeOK
<1> QED BY <1>1, <1>6, <1>7 DEF Quiet, SameMap, SameFds, SameSources

(* Only the readiness of a socket changes.                                 *)
LEMMA ReadyInv ==
  ASSUME IInv, NEW s \in Sockets, NEW b \in SUBSET Bits, sock' = [sock EXCEPT ![s].ready = b],
         UNCHANGED <<timer, ctx, made, ctx_map, kep, defer, failed, stopped, batch, calling, phase, running>>
  PROVE  Quiet /\ TypeOK'
<1>1. sock \in [Sockets -> SocketRec]
  BY SocketsTyped DEF IInv
<1>2. sock' = [sock EXCEPT ![s] = [sock[s] EXCEPT !.ready = b]]
  OBVIOUS
<1>3. sock' \in [Sockets -> SocketRec]
  BY <1>1, <1>2, SocketFields, SMTT(60)
<1>4. \A x \in Sockets : sock'[x].fd = sock[x].fd /\ sock'[x].freed = sock[x].freed
  BY SocketFields, SMTT(60)
<1>5. TypeOK'
  BY <1>3 DEF IInv, TypeOK
<1> QED BY <1>4, <1>5 DEF Quiet, SameMap, SameFds, SameSources

(* A timer is started, stopped or expires.                                 *)
LEMMA TimerMoves ==
  ASSUME IInv, NEW t \in Timers, NEW r, Kept(timer[t], r), r.refs = timer[t].refs,
         timer' = [timer EXCEPT ![t] = r], stopped' \subseteq Timers, failed' \in 0..MaxFail,
         UNCHANGED <<sock, ctx, made, ctx_map, kep, defer, batch, calling, phase, running>>
  PROVE  Quiet /\ TypeOK'
<1>1. timer \in [Timers -> TimerRec]
  BY TimersTyped DEF IInv
<1>2. timer' \in [Timers -> TimerRec]
  BY <1>1 DEF Kept
<1>3. \A x \in Timers : /\ timer'[x].added = timer[x].added /\ timer'[x].owned = timer[x].owned
                        /\ timer'[x].refs = timer[x].refs
  BY SMTT(60) DEF Kept
<1>4. TypeOK'
  BY <1>2 DEF IInv, TypeOK
<1> QED BY <1>3, <1>4 DEF Quiet, SameMap, SameFds, SameSources

(* Starting, stopping and the expiry of a timer are quiet.                 *)
LEMMA TimerCallsQuiet ==
  ASSUME IInv, NEW t \in Timers, Timer_start(t) \/ Timer_stop(t) \/ Expire(t)
  PROVE  Quiet /\ TypeOK'
<1>1. timer[t] \in TimerRec /\ stopped \subseteq Timers /\ failed \in 0..MaxFail /\ 0 \in Nat
  BY SocketsTyped, TimersTyped, LoopTyped DEF IInv
<1>2. CASE Timer_start(t)
  <2> DEFINE r == [timer[t] EXCEPT !.active = TRUE, !.armed = TRUE, !.fired = FALSE]
  <2>1. timer' = [timer EXCEPT ![t] = r]
    BY <1>2 DEF Timer_start
  <2>2. Kept(timer[t], r) /\ r.refs = timer[t].refs
    BY <1>1, TimerUpdates
  <2> HIDE DEF r
  <2>3. stopped' \subseteq Timers /\ failed' \in 0..MaxFail
    BY <1>1, <1>2 DEF Timer_start
  <2>4. UNCHANGED <<sock, ctx, made, ctx_map, kep, defer, batch, calling, phase, running>>
    BY <1>2 DEF Timer_start, loopVars
  <2> QED BY <2>1, <2>2, <2>3, <2>4, TimerMoves
<1>3. CASE Timer_stop(t)
  <2> DEFINE r == StopTimer(timer[t])
  <2>1. timer' = [timer EXCEPT ![t] = r]
    BY <1>3 DEF Timer_stop
  <2>2. Kept(timer[t], r) /\ r.refs = timer[t].refs
    BY <1>1, TimerUpdates
  <2> HIDE DEF r
  <2>3. stopped' \subseteq Timers /\ failed' \in 0..MaxFail
    BY <1>1, <1>3 DEF Timer_stop
  <2>4. UNCHANGED <<sock, ctx, made, ctx_map, kep, defer, batch, calling, phase, running>>
    BY <1>3 DEF Timer_stop, loopVars
  <2> QED BY <2>1, <2>2, <2>3, <2>4, TimerMoves
<1>4. CASE Expire(t)
  <2> DEFINE r == [timer[t] EXCEPT !.fired = TRUE, !.armed = (t \in Repeating)]
  <2>1. timer' = [timer EXCEPT ![t] = r]
    BY <1>4 DEF Expire
  <2>2. Kept(timer[t], r) /\ r.refs = timer[t].refs
    <3>1. PICK b \in BOOLEAN : b = (t \in Repeating)
      <4>1. CASE t \in Repeating
        <5>1. TRUE = (t \in Repeating)
          BY <4>1
        <5> QED BY <5>1
      <4>2. CASE t \notin Repeating
        <5>1. FALSE = (t \in Repeating)
          BY <4>2, SMTT(60)
        <5> QED BY <5>1
      <4> QED BY <4>1, <4>2
    <3>2. r = [timer[t] EXCEPT !.fired = TRUE, !.armed = b]
      BY <3>1
    <3>3. \A x \in BOOLEAN : /\ Kept(timer[t], [timer[t] EXCEPT !.fired = TRUE, !.armed = x])
                             /\ [timer[t] EXCEPT !.fired = TRUE, !.armed = x].refs = timer[t].refs
      BY <1>1, TimerUpdates
    <3> QED BY <3>2, <3>3
  <2> HIDE DEF r
  <2>3. stopped' \subseteq Timers /\ failed' \in 0..MaxFail
    BY <1>1, <1>4 DEF Expire
  <2>4. UNCHANGED <<sock, ctx, made, ctx_map, kep, defer, batch, calling, phase, running>>
    BY <1>4 DEF Expire, loopVars
  <2> QED BY <2>1, <2>2, <2>3, <2>4, TimerMoves
<1> QED BY <1>2, <1>3, <1>4

(* The loop starts, is told to stop, and returns.                          *)
LEMMA RunQuiet ==
  ASSUME IInv, RunReturns \/ Run \/ Stop \/ Done \/ UNCHANGED vars
  PROVE  Quiet /\ TypeOK'
<1>1. UNCHANGED <<sock, timer, ctx, made, ctx_map, kep, defer, batch, phase, failed, stopped>>
  BY DEF RunReturns, Run, Stop, Done, vars
<1>2. calling' = calling \/ (calling \in {"none", "main"} /\ calling' \in {"none", "main"})
  BY DEF RunReturns, Run, Stop, Done, vars
<1>3. running' \in BOOLEAN
  BY LoopTyped DEF IInv, RunReturns, Run, Stop, Done, vars
<1>4. \A t \in Timers : calling' = t <=> calling = t
  BY <1>2, ConstantsOK DEF Slots
<1>5. TypeOK'
  BY <1>1, <1>2, <1>3 DEF IInv, TypeOK
<1> QED BY <1>1, <1>4, <1>5 DEF Quiet, SameMap, SameFds, SameSources

-----------------------------------------------------------------------------
(* A context is created and put into the map.                              *)

(* A new context takes a free place of the map, with one reference.        *)
LEMMA NewContext ==
  ASSUME IInv, NEW f \in Slots, NEW x \in CtxRec, x.refs = 1, kep[f] = 0, made < MaxCtx,
         made' = made + 1, ctx' = [ctx EXCEPT ![made + 1] = x],
         ctx_map' = [ctx_map EXCEPT ![f] = made + 1], kep' = [kep EXCEPT ![f] = made + 1],
         SameFds, UNCHANGED <<defer, batch, phase>>,
         f \in Fds => x.src \in Sockets /\ sock[x.src].fd = f,
         f \in Timers => x.src = f /\ ~x.sock,
         \A t \in Timers : timer'[t].added => timer[t].added \/ t = f,
         \A s \in Sockets : Deferred(s) => sock[s].fd # f
  PROVE  /\ MapInv' /\ SocketInv' /\ LiveInv' /\ RefInv' /\ BatchInv'
         /\ ctx' \in [Ctx -> CtxRec] /\ made' \in 0..MaxCtx
         /\ ctx_map' \in [Slots -> 0..MaxCtx] /\ kep' \in [Slots -> 0..MaxCtx]
         /\ \A c \in 1..made : ctx'[c] = ctx[c]
<1>1. PICK n \in Nat : n = made + 1 /\ n \in 1..MaxCtx /\ n \in Ctx /\ n # 0
  BY MadeTyped, ConstantsOK, SMTT(60) DEF IInv, Ctx
<1>2. /\ ctx \in [Ctx -> CtxRec] /\ ctx_map \in [Slots -> 0..MaxCtx] /\ kep = ctx_map /\ made \in Nat
      /\ 1..made \subseteq Ctx /\ made < n /\ \A c \in 1..n : c \in 1..made \/ c = n
  BY <1>1, ContextsTyped, MadeTyped, MapTyped, ConstantsOK, SMTT(60) DEF IInv, MapInv,
     KernelAgrees, Ctx
<1>3. /\ ctx' \in [Ctx -> CtxRec] /\ ctx'[n] = x /\ \A c \in Ctx : c # n => ctx'[c] = ctx[c]
  BY <1>1, <1>2
<1>4. \A c \in 1..made : ctx'[c] = ctx[c] /\ c # n
  BY <1>2, <1>3, SMTT(60)
<1>5. /\ ctx_map' \in [Slots -> 0..MaxCtx] /\ kep' = ctx_map' /\ ctx_map'[f] = n
      /\ \A g \in Slots : g # f => ctx_map'[g] = ctx_map[g]
  BY <1>1, <1>2, SMTT(60)
<1>6. ctx_map[f] = 0 /\ \A g \in Slots : ctx_map[g] # n /\ (ctx_map[g] # 0 => ctx_map[g] \in 1..made)
  BY <1>1, <1>2, InTheMap, SMTT(60) DEF IInv
<1>7. MapInv'
  <2>1. \A g \in Slots : ctx_map'[g] <= made'
    BY <1>1, <1>2, <1>5, <1>6, SMTT(60)
  <2>2. \A g, h \in Slots : ctx_map'[g] # 0 /\ ctx_map'[g] = ctx_map'[h] => g = h
    BY <1>5, <1>6 DEF IInv, MapInv, KernelAgrees, PlacesMade, OnePlace
  <2>3. ASSUME NEW g \in Fds, ctx_map'[g] # 0
        PROVE  ctx'[ctx_map'[g]].src \in Sockets /\ sock'[ctx'[ctx_map'[g]].src].fd = g
    <3>1. CASE g = f
      BY <1>3, <1>5, <3>1, SMTT(60) DEF SameFds
    <3>2. CASE g # f
      <4>1. ctx_map'[g] = ctx_map[g] /\ ctx_map[g] \in 1..made
        BY <1>5, <1>6, <2>3, <3>2 DEF Slots
      <4> QED BY <1>4, <2>3, <4>1, SMTT(60) DEF IInv, MapInv, KernelAgrees, PlacesMade,
                 OnePlace, SocketPlaces, SameFds
    <3> QED BY <3>1, <3>2
  <2>4. ASSUME NEW t \in Timers, ctx_map'[t] # 0  PROVE ctx'[ctx_map'[t]].src = t
    <3>1. CASE t = f
      BY <1>3, <1>5, <3>1
    <3>2. CASE t # f
      <4>1. ctx_map'[t] = ctx_map[t] /\ ctx_map[t] \in 1..made
        BY <1>5, <1>6, <2>4, <3>2 DEF Slots
      <4> QED BY <1>4, <2>4, <4>1, SMTT(60) DEF IInv, MapInv, KernelAgrees, PlacesMade,
                 OnePlace, TimerPlaces
    <3> QED BY <3>1, <3>2
  <2>5. \A t \in Timers : timer'[t].added => ctx_map'[t] # 0
    BY <1>1, <1>5 DEF IInv, MapInv, SocketPlaces, AddedPlaces, Slots
  <2> QED BY <1>5, <2>1, <2>2, <2>3, <2>4, <2>5 DEF MapInv, KernelAgrees, PlacesMade,
             OnePlace, SocketPlaces, TimerPlaces, AddedPlaces
<1>8. SocketInv'
  <2>1. \A s : Deferred(s)' = Deferred(s)
    BY DEF Deferred
  <2>2. ASSUME NEW s \in Sockets, Deferred(s)  PROVE sock'[s].fd # NoFd /\ ctx_map'[sock'[s].fd] = 0
    <3>1. sock[s].fd # NoFd /\ ctx_map[sock[s].fd] = 0 /\ sock[s].fd # f /\ sock'[s].fd = sock[s].fd
      BY <2>2 DEF IInv, SocketInv, SameFds
    <3>2. sock[s].fd \in Slots
      BY <3>1, SocketsTyped, SocketFields DEF IInv, Slots
    <3> QED BY <3>1, <3>2, SMTT(60)
  <2> QED BY <2>1, <2>2, SMTT(60) DEF IInv, SocketInv, SameFds
<1>9. LiveInv'
  <2> SUFFICES ASSUME phase # "destroyed", NEW c \in 1..n, ctx'[c].sock
               PROVE  /\ ctx'[c].src \in Sockets /\ sock'[ctx'[c].src].fd # NoFd
                      /\ ctx_map'[sock'[ctx'[c].src].fd] = c
    BY <1>1 DEF LiveInv
  <2>1. CASE c = n
    <3>1. f \in Fds /\ f # NoFd
      BY <1>3, <2>1, ConstantsOK, SMTT(60) DEF Slots
    <3> QED BY <1>3, <1>5, <2>1, <3>1, SMTT(60) DEF SameFds
  <2>2. CASE c \in 1..made
    <3>1. /\ ctx'[c] = ctx[c] /\ ctx[c].src \in Sockets /\ sock[ctx[c].src].fd # NoFd
          /\ ctx_map[sock[ctx[c].src].fd] = c /\ c # 0
      BY <1>4, <2>2, SMTT(60) DEF IInv, LiveInv
    <3>2. sock[ctx[c].src].fd \in Slots /\ sock[ctx[c].src].fd # f
      BY <1>6, <3>1, SocketsTyped, SocketFields DEF IInv, Slots
    <3> QED BY <1>5, <3>1, <3>2, SMTT(60) DEF SameFds
  <2> QED BY <1>2, <2>1, <2>2
<1>10. /\ \A c : Deferred(c)' = Deferred(c)
       /\ \A c \in 1..made : Mapped(c)' <=> Mapped(c)
       /\ Mapped(n)' /\ ~Deferred(n)
  <2>1. \A c : Deferred(c)' = Deferred(c)
    BY DEF Deferred
  <2>2. ASSUME NEW c \in 1..made  PROVE Mapped(c)' <=> Mapped(c)
    BY <1>4, <1>5, <1>6, SMTT(60) DEF Mapped
  <2>3. ~Deferred(n)
    BY <1>1, <1>2, SMTT(60) DEF IInv, RefInv
  <2> QED BY <1>5, <2>1, <2>2, <2>3 DEF Mapped
<1>11. RefInv'
  <2>1. ASSUME NEW c \in 1..n  PROVE ctx'[c].refs = One(Mapped(c)') + One(Deferred(c)')
    <3>1. CASE c = n
      <4>1. ctx'[c].refs = 1 /\ Mapped(c)' /\ ~Deferred(c)'
        BY <1>3, <1>10, <3>1
      <4> QED BY <4>1, SMTT(60) DEF One
    <3>2. CASE c \in 1..made
      <4>1. ctx'[c].refs = ctx[c].refs /\ (Mapped(c)' <=> Mapped(c)) /\ (Deferred(c)' <=> Deferred(c))
        BY <1>4, <1>10, <3>2
      <4>2. ctx[c].refs = One(Mapped(c)) + One(Deferred(c))
        BY <3>2 DEF IInv, RefInv
      <4> QED BY <4>1, <4>2 DEF One
    <3> QED BY <1>2, <3>1, <3>2
  <2>2. ASSUME NEW c \in Ctx, Deferred(c)  PROVE c <= n /\ ~Mapped(c)'
    <3>1. c <= made /\ ~Mapped(c) /\ c \in 1..made
      BY <1>2, <2>2, SMTT(60) DEF IInv, RefInv, Ctx
    <3> QED BY <1>1, <1>2, <1>10, <3>1, SMTT(60)
  <2> QED BY <1>1, <1>10, <2>1, <2>2, SMTT(60) DEF IInv, RefInv
<1>12. BatchInv'
  <2>1. made' \in Nat /\ made <= made' /\ \A c \in 1..made : ctx'[c].src = ctx[c].src
    BY <1>2, <1>4, SMTT(60)
  <2> QED BY <1>10, <2>1, BatchKept DEF IInv
<1> QED BY <1>1, <1>3, <1>4, <1>5, <1>7, <1>8, <1>9, <1>11, <1>12

-----------------------------------------------------------------------------
(* Sockets.                                                                *)

(* A socket is opened on a descriptor nobody has.                          *)
LEMMA OpenInv ==
  ASSUME IInv, NEW s \in Sockets, NEW f \in Fds, OpenSocket(s, f)
  PROVE  IInv'
<1>1. UNCHANGED <<timer, ctx, made, ctx_map, kep, defer, failed, stopped, batch, calling, phase, running>>
  BY DEF OpenSocket, loopVars
<1>2. /\ sock \in [Sockets -> SocketRec] /\ sock[s].fd = NoFd /\ ~sock[s].freed
      /\ \A x \in Sockets : sock[x].fd # f
      /\ sock' = [sock EXCEPT ![s] = [sock[s] EXCEPT !.fd = f]]
  BY SocketsTyped, TimersTyped DEF IInv, OpenSocket, Open
<1>3. /\ sock' \in [Sockets -> SocketRec] /\ sock'[s].fd = f /\ ~sock'[s].freed
      /\ \A x \in Sockets : x # s => sock'[x] = sock[x]
  BY <1>2, SocketFields, SMTT(60)
<1>4. TypeOK'
  BY <1>1, <1>3 DEF IInv, TypeOK
<1>5. \A x \in Sockets : sock[x].fd # NoFd => sock'[x] = sock[x]
  BY <1>2
<1>6. MapInv'
  <2>1. ASSUME NEW g \in Fds, ctx_map[g] # 0
        PROVE  ctx[ctx_map[g]].src \in Sockets /\ sock'[ctx[ctx_map[g]].src].fd = g
    BY <1>5, <2>1, ConstantsOK DEF IInv, MapInv, SocketPlaces
  <2> QED BY <1>1, <2>1 DEF IInv, MapInv, KernelAgrees, PlacesMade, OnePlace, SocketPlaces,
             TimerPlaces, AddedPlaces
<1>7. SocketInv'
  BY <1>1, <1>2, <1>3, <1>5, SMTT(60) DEF IInv, SocketInv, Deferred
<1>8. LiveInv'
  BY <1>1, <1>5 DEF IInv, LiveInv
<1>9. RefInv' /\ BatchInv' /\ TimerInv'
  <2>1. RefInv'
    BY <1>1, RefFrame DEF IInv
  <2>2. BatchInv'
    BY <1>1, BatchFrame DEF IInv, SameSources
  <2>3. TimerInv'
    BY <1>1, TimerFrame DEF IInv
  <2> QED BY <2>1, <2>2, <2>3
<1> QED BY <1>4, <1>6, <1>7, <1>8, <1>9 DEF IInv

(* event_backend_add makes a context for the socket.                       *)
LEMMA AddInv ==
  ASSUME IInv, NEW s \in Sockets, NEW m \in Masks, event_backend_add(s, m)
  PROVE  IInv'
<1> DEFINE x == [src |-> s, sock |-> TRUE, mask |-> m, refs |-> 1]
           f == sock[s].fd
<1>1. UNCHANGED <<sock, timer, defer, failed, stopped, batch, calling, phase, running>>
  BY DEF event_backend_add, loopVars
<1>2. f \in Fds /\ f \in Slots /\ f \notin Timers /\ f # NoFd /\ ~Deferred(s)
  BY SocketsTyped, SocketFields, ConstantsOK, SMTT(60) DEF IInv, event_backend_add, Owned,
     Open, Deferred, Slots
<1>3. x \in CtxRec /\ x.refs = 1 /\ x.src = s
  BY ConstantsOK DEF CtxRec, Bits
<1>4. /\ kep[f] = 0 /\ made < MaxCtx /\ made' = made + 1 /\ ctx' = [ctx EXCEPT ![made + 1] = x]
      /\ ctx_map' = [ctx_map EXCEPT ![f] = made + 1] /\ kep' = [kep EXCEPT ![f] = made + 1]
  BY DEF event_backend_add
<1> HIDE DEF x
<1>5. \A r \in Sockets : Deferred(r) => sock[r].fd # f
  BY <1>2 DEF IInv, SocketInv
<1>6. SameFds /\ \A t \in Timers : timer'[t].added => timer[t].added \/ t = f
  BY <1>1 DEF SameFds
<1>7. /\ MapInv' /\ SocketInv' /\ LiveInv' /\ RefInv' /\ BatchInv'
      /\ ctx' \in [Ctx -> CtxRec] /\ made' \in 0..MaxCtx
      /\ ctx_map' \in [Slots -> 0..MaxCtx] /\ kep' \in [Slots -> 0..MaxCtx]
  BY <1>1, <1>2, <1>3, <1>4, <1>5, <1>6, NewContext
<1>8. TypeOK'
  BY <1>1, <1>7 DEF IInv, TypeOK
<1>9. TimerInv'
  BY <1>1, TimerFrame DEF IInv
<1> QED BY <1>7, <1>8, <1>9 DEF IInv

(* A closed socket leaves nothing in the map.                              *)
LEMMA FreedSockets ==
  ASSUME IInv, NEW S \in SUBSET Sockets, \A s \in S : sock[s].fd # NoFd /\ ctx_map[sock[s].fd] = 0
  PROVE  /\ Freed(S, sock) \in [Sockets -> SocketRec]
         /\ \A s \in S : Freed(S, sock)[s].fd = NoFd /\ Freed(S, sock)[s].freed
         /\ \A s \in Sockets \ S : Freed(S, sock)[s] = sock[s]
         /\ Forgotten(S, kep) = kep
<1>1. sock \in [Sockets -> SocketRec] /\ kep \in [Slots -> 0..MaxCtx] /\ kep = ctx_map
  BY SocketsTyped, MapTyped DEF IInv, MapInv, KernelAgrees
<1>2. [fd |-> NoFd, freed |-> TRUE, ready |-> {}] \in SocketRec
  BY DEF SocketRec
<1>3. Freed(S, sock) \in [Sockets -> SocketRec]
  BY <1>1, <1>2 DEF Freed
<1>4. \A s \in S : Freed(S, sock)[s].fd = NoFd /\ Freed(S, sock)[s].freed
  BY DEF Freed
<1>5. \A s \in Sockets \ S : Freed(S, sock)[s] = sock[s]
  BY DEF Freed
<1>6. \A f \in Slots : (\E s \in S : sock[s].fd = f) => kep[f] = 0
  BY <1>1
<1>7. Forgotten(S, kep) = kep
  BY <1>1 DEF Forgotten
<1> QED BY <1>3, <1>4, <1>5, <1>7

(* Sockets out of the map are closed: the rest of the invariant holds on.  *)
LEMMA ClosedInv ==
  ASSUME IInv, NEW S \in SUBSET Sockets, \A s \in S : sock[s].fd # NoFd /\ ctx_map[sock[s].fd] = 0,
         sock' = Freed(S, sock), kep' = Forgotten(S, kep),
         UNCHANGED <<timer, made, ctx_map>>, SameSources,
         \A c \in Ctx : ctx'[c].sock = ctx[c].sock,
         \A s \in Sockets : Deferred(s)' => Deferred(s) /\ s \notin S
  PROVE  /\ sock' \in [Sockets -> SocketRec] /\ kep' = kep
         /\ MapInv' /\ SocketInv' /\ (phase # "destroyed" => LiveInv')
<1>1. /\ sock' \in [Sockets -> SocketRec] /\ kep' = kep
      /\ \A s \in S : sock'[s].fd = NoFd /\ sock'[s].freed
      /\ \A s \in Sockets \ S : sock'[s] = sock[s]
  BY FreedSockets
<1>2. \A s \in Sockets : sock[s].fd # NoFd /\ ctx_map[sock[s].fd] # 0 => sock'[s] = sock[s]
  BY <1>1
<1>3. \A f \in Slots : ctx_map[f] # 0 => ctx_map[f] \in Ctx
  BY InTheMap DEF IInv
<1>4. MapInv'
  <2>1. ASSUME NEW g \in Fds, ctx_map[g] # 0
        PROVE  ctx'[ctx_map[g]].src \in Sockets /\ sock'[ctx'[ctx_map[g]].src].fd = g
    <3>1. ctx[ctx_map[g]].src \in Sockets /\ sock[ctx[ctx_map[g]].src].fd = g /\ g # NoFd
      BY <2>1, ConstantsOK DEF IInv, MapInv, SocketPlaces, TimerPlaces
    <3>2. ctx'[ctx_map[g]].src = ctx[ctx_map[g]].src
      BY <1>3, <2>1 DEF SameSources, Slots
    <3> QED BY <1>2, <2>1, <3>1, <3>2
  <2>2. ASSUME NEW t \in Timers, ctx_map[t] # 0  PROVE ctx'[ctx_map[t]].src = t
    BY <1>3, <2>2 DEF IInv, MapInv, KernelAgrees, PlacesMade, TimerPlaces, SameSources,
       Slots
  <2> QED BY <1>1, <2>1, <2>2 DEF IInv, MapInv, KernelAgrees, PlacesMade, OnePlace,
             SocketPlaces, TimerPlaces, AddedPlaces
<1>5. SocketInv'
  <2>1. \A s, r \in Sockets : sock'[s].fd # NoFd /\ sock'[s].fd = sock'[r].fd => s = r
    BY <1>1, SMTT(60) DEF IInv, SocketInv
  <2>2. \A s \in Sockets : sock'[s].freed => sock'[s].fd = NoFd
    BY <1>1 DEF IInv, SocketInv
  <2>3. \A s \in Sockets : Deferred(s)' => sock'[s].fd # NoFd /\ ctx_map[sock'[s].fd] = 0
    BY <1>1, SMTT(60) DEF IInv, SocketInv
  <2> QED BY <2>1, <2>2, <2>3 DEF SocketInv
<1>6. ASSUME phase # "destroyed", NEW c \in 1..made, ctx'[c].sock
      PROVE  /\ ctx'[c].src \in Sockets /\ sock'[ctx'[c].src].fd # NoFd
             /\ ctx_map[sock'[ctx'[c].src].fd] = c
  <2>1. c \in Ctx /\ c # 0
    BY SocketsTyped, MadeTyped, MapTyped, ConstantsOK, SMTT(60) DEF IInv, Ctx
  <2>2. ctx[c].sock /\ ctx'[c].src = ctx[c].src
    BY <1>6, <2>1 DEF SameSources
  <2>3. /\ ctx[c].src \in Sockets /\ sock[ctx[c].src].fd # NoFd
        /\ ctx_map[sock[ctx[c].src].fd] = c
    BY <1>6, <2>2 DEF IInv, LiveInv
  <2> QED BY <1>2, <2>1, <2>2, <2>3
<1>7. phase # "destroyed" => LiveInv'
  BY <1>6 DEF LiveInv
<1> QED BY <1>1, <1>4, <1>5, <1>7

(* A socket that is out of the map is released and closed.                 *)
LEMMA ReleaseSocketInv ==
  ASSUME IInv, NEW s \in Sockets, ReleaseSocket(s)
  PROVE  IInv'
<1>1. UNCHANGED <<timer, ctx, made, ctx_map, defer, failed, stopped, batch, calling, phase, running>>
  BY DEF ReleaseSocket, loopVars
<1>2. /\ sock' = Freed({s}, sock) /\ kep' = Forgotten({s}, kep)
      /\ sock[s].fd # NoFd /\ ctx_map[sock[s].fd] = 0 /\ ~Deferred(s) /\ phase # "destroyed"
  BY DEF ReleaseSocket, MayRelease, Owned, Open, Context, Deferred, AppRuns
<1>3. \A r \in Sockets : Deferred(r)' => Deferred(r) /\ r \notin {s}
  BY <1>1, <1>2 DEF Deferred
<1>4. sock' \in [Sockets -> SocketRec] /\ kep' = kep /\ MapInv' /\ SocketInv' /\ LiveInv'
  <2>1. {s} \in SUBSET Sockets /\ \A r \in {s} : sock[r].fd # NoFd /\ ctx_map[sock[r].fd] = 0
    BY <1>2
  <2>2. SameSources /\ \A c \in Ctx : ctx'[c].sock = ctx[c].sock
    BY <1>1 DEF SameSources
  <2> QED BY <1>1, <1>2, <1>3, <2>1, <2>2, ClosedInv
<1>5. TypeOK'
  BY <1>1, <1>4 DEF IInv, TypeOK
<1>6. RefInv' /\ BatchInv' /\ TimerInv'
  <2>1. RefInv'
    BY <1>1, RefFrame DEF IInv
  <2>2. BatchInv'
    BY <1>1, BatchFrame DEF IInv, SameSources
  <2>3. TimerInv'
    BY <1>1, TimerFrame DEF IInv
  <2> QED BY <2>1, <2>2, <2>3
<1> QED BY <1>4, <1>5, <1>6 DEF IInv

(* An entry more in the defer queue.                                       *)
LEMMA DeferMore ==
  ASSUME TypeOK, NEW x \in Ctx \cup Sockets, defer' = Append(defer, x)
  PROVE  /\ defer' \in Seq(Ctx \cup Sockets)
         /\ \A y : Deferred(y)' <=> Deferred(y) \/ y = x
         /\ Len(defer') = Len(defer) + 1 /\ Len(defer) \in Nat /\ defer'[Len(defer) + 1] = x
         /\ \A i \in 1..Len(defer) : defer'[i] = defer[i]
<1>1. defer \in Seq(Ctx \cup Sockets)
  BY DeferTyped
<1>2. /\ defer' \in Seq(Ctx \cup Sockets) /\ Len(defer') = Len(defer) + 1 /\ Len(defer) \in Nat
      /\ defer'[Len(defer) + 1] = x /\ \A i \in 1..Len(defer) : defer'[i] = defer[i]
  BY <1>1, SMTT(60)
<1>3. ASSUME NEW y  PROVE Deferred(y)' <=> Deferred(y) \/ y = x
  <2>1. \A i \in 1..Len(defer') : i \in 1..Len(defer) \/ i = Len(defer) + 1
    BY SMTT(60)
  <2>2. \A i \in 1..Len(defer) : i \in 1..Len(defer')
    BY SMTT(60)
  <2>3. Len(defer) + 1 \in 1..Len(defer')
    BY SMTT(60)
  <2> QED BY SMTT(60) DEF Deferred
<1> QED BY <1>2, <1>3

(* A socket that is out of the map waits in the defer queue.               *)
LEMMA DeferSocketInv ==
  ASSUME IInv, NEW s \in Sockets, DeferSocket(s)
  PROVE  IInv'
<1>1. UNCHANGED <<sock, timer, ctx, made, ctx_map, kep, failed, stopped, batch, calling, phase, running>>
  BY DEF DeferSocket, loopVars
<1>2. sock[s].fd # NoFd /\ ctx_map[sock[s].fd] = 0 /\ defer' = Append(defer, s)
  BY DEF DeferSocket, MayRelease, Owned, Open, Context
<1>3. /\ defer' \in Seq(Ctx \cup Sockets) /\ \A y : Deferred(y)' <=> Deferred(y) \/ y = s
      /\ Len(defer') = Len(defer) + 1 /\ Len(defer) \in Nat /\ defer'[Len(defer) + 1] = s
      /\ \A i \in 1..Len(defer) : defer'[i] = defer[i]
  BY <1>2, DeferMore DEF IInv
<1>4. s \notin Ctx /\ 1..made \subseteq Ctx
  BY MadeTyped, ConstantsOK, SMTT(60) DEF IInv, Ctx
<1>5. \A c \in Ctx : (Deferred(c)' <=> Deferred(c)) /\ (Mapped(c)' <=> Mapped(c))
  BY <1>1, <1>3, <1>4 DEF Mapped
<1>6. TypeOK'
  BY <1>1, <1>3 DEF IInv, TypeOK
<1>7. MapInv' /\ LiveInv'
  BY <1>1, MapFrame, LiveFrame DEF IInv, SameMap, SameFds, SameSources
<1>8. SocketInv'
  BY <1>1, <1>2, <1>3 DEF IInv, SocketInv
<1>9. RefInv'
  <2>1. \A c \in 1..made : ctx'[c].refs = One(Mapped(c)') + One(Deferred(c)')
    BY <1>1, <1>4, <1>5 DEF IInv, RefInv, One
  <2>2. \A c \in Ctx : Deferred(c)' => c <= made' /\ ~Mapped(c)'
    BY <1>1, <1>5 DEF IInv, RefInv
  <2>3. ASSUME NEW i \in 1..Len(defer'), NEW j \in 1..Len(defer'), defer'[i] \in Ctx, defer'[i] = defer'[j]
        PROVE  i = j
    <3>1. i # Len(defer) + 1 /\ j # Len(defer) + 1
      BY <1>3, <1>4, <2>3
    <3>2. i \in 1..Len(defer) /\ j \in 1..Len(defer)
      BY <1>3, <3>1, SMTT(60)
    <3> QED BY <1>3, <2>3, <3>2 DEF IInv, RefInv
  <2> QED BY <1>1, <2>1, <2>2, <2>3 DEF RefInv
<1>10. BatchInv'
  <2>1. made' \in Nat /\ made <= made' /\ \A c \in 1..made : ctx'[c].src = ctx[c].src
    BY <1>1, ContextsTyped, MadeTyped, SMTT(60) DEF IInv
  <2> QED BY <1>1, <1>4, <1>5, <2>1, BatchKept DEF IInv
<1>11. TimerInv'
  BY <1>1, TimerFrame DEF IInv
<1> QED BY <1>6, <1>7, <1>8, <1>9, <1>10, <1>11 DEF IInv

(* A context leaves the map.                                               *)
LEMMA Unmapped ==
  ASSUME IInv, NEW f \in Slots, NEW c \in Ctx, ctx_map[f] = c,
         ctx_map' = [ctx_map EXCEPT ![f] = 0], kep' = [kep EXCEPT ![f] = 0],
         SameFds, SameSources, UNCHANGED <<made, phase>>,
         \A x \in Ctx : ctx'[x].sock => ctx[x].sock, phase # "destroyed" => ~ctx'[c].sock,
         \A t \in Timers : timer'[t].added => timer[t].added /\ t # f,
         \A s \in Sockets : Deferred(s)' => Deferred(s)
  PROVE  /\ MapInv' /\ SocketInv' /\ LiveInv'
         /\ ctx_map' \in [Slots -> 0..MaxCtx] /\ kep' \in [Slots -> 0..MaxCtx]
         /\ \A x \in Ctx : Mapped(x)' <=> Mapped(x) /\ x # c
<1>1. /\ ctx_map \in [Slots -> 0..MaxCtx] /\ kep = ctx_map /\ made \in Nat /\ c # 0 /\ 0 \in 0..MaxCtx
      /\ 1..made \subseteq Ctx
  BY MadeTyped, MapTyped, ConstantsOK, SMTT(60) DEF IInv, MapInv, KernelAgrees, Ctx
<1>2. /\ ctx_map' \in [Slots -> 0..MaxCtx] /\ kep' = ctx_map' /\ ctx_map'[f] = 0
      /\ \A g \in Slots : g # f => ctx_map'[g] = ctx_map[g]
  BY <1>1
<1>3. \A g \in Slots : ctx_map[g] # 0 => ctx_map[g] \in Ctx
  BY InTheMap DEF IInv
<1>4. \A g \in Slots : ctx_map'[g] # 0 => g # f /\ ctx_map'[g] = ctx_map[g]
  BY <1>2
<1>5. MapInv'
  <2>1. \A g \in Slots : ctx_map'[g] <= made'
    BY <1>1, <1>2, SMTT(60) DEF IInv, MapInv, KernelAgrees, PlacesMade
  <2>2. \A g, h \in Slots : ctx_map'[g] # 0 /\ ctx_map'[g] = ctx_map'[h] => g = h
    BY <1>4, SMTT(60) DEF IInv, MapInv, KernelAgrees, OnePlace
  <2>3. ASSUME NEW g \in Fds, ctx_map'[g] # 0
        PROVE  ctx'[ctx_map'[g]].src \in Sockets /\ sock'[ctx'[ctx_map'[g]].src].fd = g
    <3>1. ctx_map'[g] = ctx_map[g] /\ ctx_map[g] \in Ctx
      BY <1>3, <1>4, <2>3 DEF Slots
    <3> QED BY <2>3, <3>1, SMTT(60) DEF IInv, MapInv, KernelAgrees, PlacesMade,
               SocketPlaces, SameFds, SameSources
  <2>4. ASSUME NEW t \in Timers, ctx_map'[t] # 0  PROVE ctx'[ctx_map'[t]].src = t
    <3>1. ctx_map'[t] = ctx_map[t] /\ ctx_map[t] \in Ctx
      BY <1>3, <1>4, <2>4 DEF Slots
    <3> QED BY <2>4, <3>1 DEF IInv, MapInv, KernelAgrees, TimerPlaces, SameSources
  <2>5. \A t \in Timers : timer'[t].added => ctx_map'[t] # 0
    BY <1>2 DEF IInv, MapInv, AddedPlaces, Slots
  <2> QED BY <1>2, <2>1, <2>2, <2>3, <2>4, <2>5 DEF MapInv, KernelAgrees, PlacesMade,
             OnePlace, SocketPlaces, TimerPlaces, AddedPlaces
<1>6. SocketInv'
  <2>1. ASSUME NEW s \in Sockets, Deferred(s)'  PROVE sock'[s].fd # NoFd /\ ctx_map'[sock'[s].fd] = 0
    <3>1. sock[s].fd # NoFd /\ ctx_map[sock[s].fd] = 0 /\ sock'[s].fd = sock[s].fd
      BY <2>1 DEF IInv, SocketInv, SameFds
    <3>2. sock[s].fd \in Slots
      BY <3>1, SocketsTyped, SocketFields DEF IInv, Slots
    <3> QED BY <1>2, <3>1, <3>2
  <2> QED BY <2>1, SMTT(60) DEF IInv, SocketInv, SameFds
<1>7. LiveInv'
  <2> SUFFICES ASSUME phase # "destroyed", NEW x \in 1..made, ctx'[x].sock
               PROVE  /\ ctx'[x].src \in Sockets /\ sock'[ctx'[x].src].fd # NoFd
                      /\ ctx_map'[sock'[ctx'[x].src].fd] = x
    BY DEF LiveInv
  <2>1. x \in Ctx /\ x # c /\ ctx[x].sock /\ ctx'[x].src = ctx[x].src
    BY <1>1 DEF SameSources
  <2>2. /\ ctx[x].src \in Sockets /\ sock[ctx[x].src].fd # NoFd
        /\ ctx_map[sock[ctx[x].src].fd] = x
    BY <2>1 DEF IInv, LiveInv
  <2>3. sock[ctx[x].src].fd \in Slots /\ sock[ctx[x].src].fd # f
    BY <2>1, <2>2, SocketsTyped, SocketFields DEF IInv, Slots
  <2> QED BY <1>2, <2>1, <2>2, <2>3, SMTT(60) DEF SameFds
<1>8. ASSUME NEW x \in Ctx  PROVE Mapped(x)' <=> Mapped(x) /\ x # c
  <2>1. x # 0
    BY SMTT(60) DEF Ctx
  <2>2. \A g \in Slots : ctx_map[g] = c => g = f
    BY <1>1 DEF IInv, MapInv, OnePlace
  <2> QED BY <1>2, <2>1, <2>2 DEF Mapped
<1> QED BY <1>2, <1>5, <1>6, <1>7, <1>8

(* event_backend_remove: out of the map, and to the defer queue.           *)
LEMMA RemoveInv ==
  ASSUME IInv, NEW s \in Sockets, event_backend_remove(s)
  PROVE  IInv'
<1>1. UNCHANGED <<sock, timer, made, stopped, batch, calling, phase, running>>
  BY DEF event_backend_remove, loopVars
<1>2. PICK f, c : f = sock[s].fd /\ c = Context(s)
  OBVIOUS
<1>3. f \in Fds /\ f \in Slots /\ f \notin Timers /\ ctx_map[f] = c /\ c # 0
  BY <1>2, SocketsTyped, SocketFields, ConstantsOK DEF IInv, event_backend_remove, Context,
     Open, Slots
<1>4. c \in Ctx /\ c \in 1..made /\ 1..made \subseteq Ctx /\ made \in Nat
  BY <1>3, InTheMap, MadeTyped, ConstantsOK, SMTT(60) DEF IInv, Ctx
<1>5. \/ /\ ctx_map' = [ctx_map EXCEPT ![f] = 0] /\ kep' = [kep EXCEPT ![f] = 0]
         /\ ctx' = [ctx EXCEPT ![c].sock = FALSE] /\ defer' = Append(defer, c) /\ UNCHANGED failed
      \/ /\ failed < MaxFail /\ failed' = failed + 1
         /\ ctx' = [ctx EXCEPT ![c].sock = FALSE] /\ UNCHANGED <<ctx_map, kep, defer>>
  BY <1>2 DEF event_backend_remove, Dispose, DelFailed
<1>6. ctx' = [ctx EXCEPT ![c] = [ctx[c] EXCEPT !.sock = FALSE]] /\ ctx \in [Ctx -> CtxRec]
  BY <1>5, SocketsTyped, ContextsTyped DEF IInv
<1>7. /\ ctx' \in [Ctx -> CtxRec] /\ ~ctx'[c].sock
      /\ \A x \in Ctx : ctx'[x].src = ctx[x].src /\ ctx'[x].refs = ctx[x].refs
      /\ \A x \in Ctx : ctx'[x].sock => ctx[x].sock
  <2>1. /\ [ctx[c] EXCEPT !.sock = FALSE] \in CtxRec /\ [ctx[c] EXCEPT !.sock = FALSE].src = ctx[c].src
        /\ ~[ctx[c] EXCEPT !.sock = FALSE].sock /\ [ctx[c] EXCEPT !.sock = FALSE].refs = ctx[c].refs
    BY <1>4, <1>6, ContextFields
  <2>2. PICK r \in CtxRec : r = [ctx[c] EXCEPT !.sock = FALSE]
    BY <2>1
  <2>3. ctx' = [ctx EXCEPT ![c] = r] /\ r.src = ctx[c].src /\ ~r.sock /\ r.refs = ctx[c].refs
    BY <1>6, <2>2, SMTT(60)
  <2> QED BY <1>4, <1>6, <2>3
<1>8. SameFds /\ SameSources
  BY <1>1, <1>7 DEF SameFds, SameSources
<1>9. CASE /\ failed < MaxFail /\ failed' = failed + 1 /\ UNCHANGED <<ctx_map, kep, defer>>
  <2>1. failed' \in 0..MaxFail
    BY <1>9, LoopTyped, ConstantsOK, SMTT(60) DEF IInv
  <2>2. TypeOK'
    BY <1>1, <1>7, <1>9, <2>1 DEF IInv, TypeOK
  <2>3. Quiet
    BY <1>1, <1>7, <1>8, <1>9 DEF Quiet, SameMap
  <2> QED BY <2>2, <2>3, QuietInv
<1>10. CASE /\ ctx_map' = [ctx_map EXCEPT ![f] = 0] /\ kep' = [kep EXCEPT ![f] = 0]
            /\ defer' = Append(defer, c) /\ UNCHANGED failed
  <2>1. /\ defer' \in Seq(Ctx \cup Sockets) /\ \A y : Deferred(y)' <=> Deferred(y) \/ y = c
        /\ Len(defer') = Len(defer) + 1 /\ Len(defer) \in Nat /\ defer'[Len(defer) + 1] = c
        /\ \A i \in 1..Len(defer) : defer'[i] = defer[i]
    BY <1>4, <1>10, DeferMore DEF IInv
  <2>2. \A r \in Sockets : Deferred(r)' => Deferred(r)
    BY <1>4, <2>1, ConstantsOK, SMTT(60) DEF Ctx
  <2>3. /\ MapInv' /\ SocketInv' /\ LiveInv'
        /\ ctx_map' \in [Slots -> 0..MaxCtx] /\ kep' \in [Slots -> 0..MaxCtx]
        /\ \A x \in Ctx : Mapped(x)' <=> Mapped(x) /\ x # c
    BY <1>1, <1>3, <1>4, <1>7, <1>8, <1>10, <2>2, Unmapped
  <2>4. TypeOK'
    BY <1>1, <1>7, <1>10, <2>1, <2>3 DEF IInv, TypeOK
  <2>5. Mapped(c) /\ ~Deferred(c)
    BY <1>3, <1>4 DEF Mapped, IInv, RefInv
  <2>6. RefInv'
    <3>1. ASSUME NEW x \in 1..made  PROVE ctx'[x].refs = One(Mapped(x)') + One(Deferred(x)')
      <4>1. x \in Ctx /\ ctx'[x].refs = One(Mapped(x)) + One(Deferred(x))
        BY <1>4, <1>7 DEF IInv, RefInv
      <4>2. CASE x = c
        BY <2>1, <2>3, <2>5, <4>1, <4>2, SMTT(60) DEF One
      <4>3. CASE x # c
        <5>1. (Mapped(x)' <=> Mapped(x)) /\ (Deferred(x)' <=> Deferred(x))
          BY <2>1, <2>3, <4>1, <4>3
        <5> QED BY <4>1, <5>1 DEF One
      <4> QED BY <4>2, <4>3
    <3>2. \A x \in Ctx : Deferred(x)' => x <= made' /\ ~Mapped(x)'
      BY <1>1, <1>4, <2>1, <2>3, SMTT(60) DEF IInv, RefInv
    <3>3. \A i \in 1..Len(defer) : defer[i] # c
      BY <2>5 DEF Deferred
    <3>4. ASSUME NEW i \in 1..Len(defer'), NEW j \in 1..Len(defer'), defer'[i] \in Ctx, defer'[i] = defer'[j]
          PROVE  i = j
      <4>1. CASE i \in 1..Len(defer) /\ j \in 1..Len(defer)
        BY <2>1, <3>4, <4>1 DEF IInv, RefInv
      <4>2. (i \in 1..Len(defer) \/ i = Len(defer) + 1) /\ (j \in 1..Len(defer) \/ j = Len(defer) + 1)
        BY <2>1, SMTT(60)
      <4> QED BY <2>1, <3>3, <3>4, <4>1, <4>2
    <3> QED BY <1>1, <3>1, <3>2, <3>4 DEF RefInv
  <2>7. BatchInv'
    <3>1. \A x \in 1..made : Mapped(x) \/ Deferred(x) => Mapped(x)' \/ Deferred(x)'
      BY <1>4, <2>1, <2>3
    <3>2. \A x \in 1..made : ctx'[x].src = ctx[x].src
      BY <1>4, <1>7
    <3>3. made' \in Nat /\ made <= made'
      BY <1>1, <1>4, SMTT(60)
    <3> QED BY <1>1, <3>1, <3>2, <3>3, BatchKept DEF IInv
  <2>8. TimerInv'
    BY <1>1, TimerFrame DEF IInv
  <2> QED BY <2>3, <2>4, <2>6, <2>7, <2>8 DEF IInv
<1> QED BY <1>5, <1>9, <1>10

-----------------------------------------------------------------------------
(* Timers.                                                                 *)

(* The references of a timer, and what it takes that they balance.         *)
LEMMA TimerBalance ==
  ASSUME IInv, NEW t \in Timers, NEW r \in TimerRec, timer' = [timer EXCEPT ![t] = r], UNCHANGED <<calling, batch>>,
         r.refs + One(timer[t].owned) + One(timer[t].added) = timer[t].refs + One(r.owned) + One(r.added)
  PROVE  TimerInv' /\ timer' \in [Timers -> TimerRec] /\ \A x \in Timers : x # t => timer'[x] = timer[x]
<1>1. timer \in [Timers -> TimerRec]
  BY TimersTyped DEF IInv
<1>2. timer' \in [Timers -> TimerRec] /\ timer'[t] = r /\ \A x \in Timers : x # t => timer'[x] = timer[x]
  BY <1>1
<1>3. \A x : InBatch(x)' = InBatch(x)
  BY DEF InBatch
<1>4. ASSUME NEW x \in Timers
      PROVE  timer'[x].refs = One(timer'[x].owned) + One(timer'[x].added) + One(calling' = x) + One(InBatch(x)')
  <2>1. timer[x].refs = One(timer[x].owned) + One(timer[x].added) + One(calling = x) + One(InBatch(x))
    BY DEF IInv, TimerInv
  <2>2. One(calling' = x) = One(calling = x) /\ One(InBatch(x)') = One(InBatch(x))
    BY <1>3
  <2>3. CASE x # t
    BY <1>2, <2>1, <2>2, <2>3
  <2>4. CASE x = t
    <3>1. PICK a, b, c, d \in {0, 1} : a = One(timer[t].owned) /\ b = One(timer[t].added) /\ c = One(calling = t) /\ d = One(InBatch(t))
      BY OneNat
    <3>2. PICK e, g \in {0, 1} : e = One(r.owned) /\ g = One(r.added)
      BY OneNat
    <3>3. PICK m, n \in Nat : m = r.refs /\ n = timer[t].refs
      BY <1>1, TimerFields
    <3>4. n = a + b + c + d /\ m + a + b = n + e + g
      BY <2>1, <2>4, <3>1, <3>2, <3>3
    <3>5. m = e + g + c + d
      BY <3>4, SMTT(60)
    <3> QED BY <1>2, <2>2, <2>4, <3>1, <3>2, <3>3, <3>5
  <2> QED BY <2>3, <2>4
<1> QED BY <1>2, <1>4 DEF TimerInv

(* A referenced timer counts its references.                               *)
LEMMA TimerReferenced ==
  ASSUME IInv, NEW t \in Timers, timer[t].owned \/ timer[t].added \/ calling = t \/ InBatch(t)
  PROVE  timer[t] \in TimerRec /\ timer[t].refs \in Nat /\ timer[t].refs > 0 /\ timer[t].refs - 1 \in Nat
<1>1. timer[t] \in TimerRec /\ timer[t].refs \in Nat
  BY TimersTyped, TimerFields DEF IInv
<1>2. timer[t].refs = One(timer[t].owned) + One(timer[t].added) + One(calling = t) + One(InBatch(t))
  BY DEF IInv, TimerInv
<1>3. PICK a, b, c, d \in {0, 1} : a = One(timer[t].owned) /\ b = One(timer[t].added) /\ c = One(calling = t) /\ d = One(InBatch(t))
  BY OneNat
<1>4. a = 1 \/ b = 1 \/ c = 1 \/ d = 1
  BY <1>3, OneNat
<1>5. PICK n \in Nat : n = timer[t].refs /\ n = a + b + c + d
  BY <1>1, <1>2, <1>3
<1>6. n > 0 /\ n - 1 \in Nat
  BY <1>4, <1>5, SMTT(60)
<1> QED BY <1>1, <1>5, <1>6

(* _addTimer makes a context and takes a reference of the timer.           *)
LEMMA AddTimerInv ==
  ASSUME IInv, NEW t \in Timers, _addTimer(t)
  PROVE  IInv'
<1> DEFINE x == [src |-> t, sock |-> FALSE, mask |-> {"R"}, refs |-> 1]
<1>1. UNCHANGED <<sock, defer, failed, stopped, batch, calling, phase, running>>
  BY DEF _addTimer, loopVars
<1>2. t \in Slots /\ t \notin Fds
  BY ConstantsOK DEF Slots
<1>3. x \in CtxRec /\ x.refs = 1 /\ x.src = t /\ ~x.sock
  BY DEF CtxRec, Bits
<1>4. /\ kep[t] = 0 /\ made < MaxCtx /\ made' = made + 1 /\ ctx' = [ctx EXCEPT ![made + 1] = x]
      /\ ctx_map' = [ctx_map EXCEPT ![t] = made + 1] /\ kep' = [kep EXCEPT ![t] = made + 1]
  BY DEF _addTimer
<1> HIDE DEF x
<1>5. timer[t] \in TimerRec /\ timer[t].refs \in Nat /\ ~timer[t].added /\ timer \in [Timers -> TimerRec]
  BY TimersTyped, TimerFields DEF IInv, _addTimer
<1>6. PICK n \in Nat : n = timer[t].refs + 1
  BY <1>5, SMTT(60)
<1>r. PICK r : r = Added(timer[t], n)
  OBVIOUS
<1>7. timer' = [timer EXCEPT ![t] = r]
  BY <1>6, <1>r DEF _addTimer, Added
<1>8. r \in TimerRec /\ r.added /\ r.owned = timer[t].owned /\ r.refs = n
  BY <1>5, <1>r, TimerAdded
<1>9. r.refs + One(timer[t].owned) + One(timer[t].added) = timer[t].refs + One(r.owned) + One(r.added)
  <2>1. One(r.added) = 1 /\ One(timer[t].added) = 0 /\ One(r.owned) = One(timer[t].owned) /\ One(r.owned) \in {0, 1}
    BY <1>5, <1>8, OneNat
  <2>2. PICK o \in {0, 1}, m \in Nat : o = One(r.owned) /\ o = One(timer[t].owned) /\ m = timer[t].refs /\ n = m + 1
    BY <1>5, <1>6, <2>1
  <2>3. n + o + 0 = m + o + 1
    BY <2>2, SMTT(60)
  <2> QED BY <1>8, <2>1, <2>2, <2>3
<1>10. TimerInv' /\ timer' \in [Timers -> TimerRec] /\ \A y \in Timers : y # t => timer'[y] = timer[y]
  BY <1>1, <1>7, <1>8, <1>9, TimerBalance
<1>11. SameFds /\ \A y \in Timers : timer'[y].added => timer[y].added \/ y = t
  BY <1>1, <1>10 DEF SameFds
<1>12. \A s \in Sockets : Deferred(s) => sock[s].fd # t
  BY <1>2, SocketsTyped, SocketFields, SMTT(60) DEF IInv, SocketInv
<1>13. /\ MapInv' /\ SocketInv' /\ LiveInv' /\ RefInv' /\ BatchInv'
       /\ ctx' \in [Ctx -> CtxRec] /\ made' \in 0..MaxCtx
       /\ ctx_map' \in [Slots -> 0..MaxCtx] /\ kep' \in [Slots -> 0..MaxCtx]
  BY <1>1, <1>2, <1>3, <1>4, <1>11, <1>12, NewContext
<1>14. TypeOK'
  BY <1>1, <1>10, <1>13 DEF IInv, TypeOK
<1> QED BY <1>10, <1>13, <1>14 DEF IInv

(* The owner of a timer releases it.                                       *)
LEMMA ReleaseTimerInv ==
  ASSUME IInv, NEW t \in Timers, ReleaseTimer(t)
  PROVE  IInv'
<1>1. UNCHANGED <<sock, ctx, made, ctx_map, kep, defer, failed, stopped, batch, calling, phase, running>>
  BY DEF ReleaseTimer, loopVars
<1>2. timer[t].owned
  BY DEF ReleaseTimer
<1>3. PICK n \in Nat : n = timer[t].refs - 1 /\ timer[t].refs \in Nat /\ timer[t] \in TimerRec
  BY <1>2, TimerReferenced
<1>r. PICK r : r = Disowned(timer[t], n)
  OBVIOUS
<1>4. timer' = [timer EXCEPT ![t] = r]
  BY <1>3, <1>r DEF ReleaseTimer, Disowned
<1>5. r \in TimerRec /\ r.added = timer[t].added /\ ~r.owned /\ r.refs = n
  BY <1>3, <1>r, TimerDisowned
<1>6. r.refs + One(timer[t].owned) + One(timer[t].added) = timer[t].refs + One(r.owned) + One(r.added)
  <2>1. One(r.owned) = 0 /\ One(timer[t].owned) = 1 /\ One(r.added) = One(timer[t].added) /\ One(r.added) \in {0, 1}
    BY <1>2, <1>5, OneNat
  <2> QED BY <1>3, <1>5, <2>1, SMTT(60)
<1>7. TimerInv' /\ timer' \in [Timers -> TimerRec] /\ \A y \in Timers : y # t => timer'[y] = timer[y]
  BY <1>1, <1>4, <1>5, <1>6, TimerBalance
<1>8. \A y \in Timers : timer'[y].added = timer[y].added
  BY <1>4, <1>5, <1>7
<1>9. TypeOK'
  BY <1>1, <1>7 DEF IInv, TypeOK
<1>10. MapInv' /\ LiveInv' /\ SocketInv'
  BY <1>1, <1>8, MapFrame, LiveFrame, SocketFrame DEF IInv, SameMap, SameFds, SameSources
<1>11. RefInv' /\ BatchInv'
  BY <1>1, RefFrame, BatchFrame DEF IInv, SameSources
<1> QED BY <1>7, <1>9, <1>10, <1>11 DEF IInv

(* A timer taken off active_timers loses that reference.                   *)
LEMMA UnlinkedTimer ==
  ASSUME IInv, NEW t \in Timers, timer[t].added
  PROVE  /\ Unlinked(timer[t]) \in TimerRec /\ ~Unlinked(timer[t]).added
         /\ Unlinked(timer[t]).owned = timer[t].owned
         /\ Unlinked(timer[t]).refs = timer[t].refs - 1 /\ timer[t].refs \in Nat
<1>1. PICK n \in Nat : n = timer[t].refs - 1 /\ timer[t].refs \in Nat /\ timer[t] \in TimerRec
  BY TimerReferenced
<1>2. PICK q : q = StopTimer(timer[t])
  OBVIOUS
<1>3. q \in TimerRec /\ q.owned = timer[t].owned /\ q.refs = timer[t].refs
  BY <1>1, <1>2, TimerUpdates DEF Kept
<1>4. Unlinked(timer[t]) = Dropped(q, n)
  BY <1>1, <1>2, <1>3 DEF Unlinked, Dropped
<1>5. /\ Dropped(q, n) \in TimerRec /\ ~Dropped(q, n).added
      /\ Dropped(q, n).owned = q.owned /\ Dropped(q, n).refs = n
  BY <1>3, TimerDropped
<1> QED BY <1>1, <1>3, <1>4, <1>5

(* _removeTimer takes the timer's context out of the map.                  *)
LEMMA RemoveTimerInv ==
  ASSUME IInv, NEW t \in Timers, _removeTimer(t)
  PROVE  IInv'
<1>1. UNCHANGED <<sock, made, defer, batch, calling, phase, running>> /\ stopped' \subseteq Timers
  BY LoopTyped DEF IInv, _removeTimer, loopVars
<1>2. timer[t].added /\ t \in Slots /\ timer[t] \in TimerRec /\ failed \in 0..MaxFail /\ 0 \in Nat
  BY TimersTyped, LoopTyped DEF IInv, _removeTimer, Slots
<1>3. CASE /\ failed < MaxFail /\ failed' = failed + 1 /\ timer' = [timer EXCEPT ![t] = StopTimer(@)]
           /\ UNCHANGED <<ctx, ctx_map, kep>>
  <2>1. PICK r : r = StopTimer(timer[t])
    OBVIOUS
  <2>2. Kept(timer[t], r) /\ r.refs = timer[t].refs
    BY <1>2, <2>1, TimerUpdates
  <2>3. timer' = [timer EXCEPT ![t] = r] /\ failed' \in 0..MaxFail
    BY <1>2, <1>3, <2>1, ConstantsOK, SMTT(60)
  <2> QED BY <1>1, <1>3, <2>2, <2>3, TimerMoves, QuietInv
<1>4. CASE /\ timer' = [timer EXCEPT ![t] = Unlinked(@)] /\ ctx' = [ctx EXCEPT ![ctx_map[t]].refs = @ - 1]
           /\ ctx_map' = [ctx_map EXCEPT ![t] = 0] /\ kep' = [kep EXCEPT ![t] = 0] /\ UNCHANGED failed
  <2>1. PICK c : c = ctx_map[t]
    OBVIOUS
  <2>2. c # 0
    BY <1>2, <2>1 DEF IInv, MapInv, AddedPlaces
  <2>3. c \in Ctx /\ c \in 1..made /\ 1..made \subseteq Ctx /\ made \in Nat /\ ctx[c].src = t
    BY <1>2, <2>1, <2>2, InTheMap, MadeTyped, ConstantsOK, SMTT(60) DEF IInv, MapInv,
       TimerPlaces, Ctx
  <2>4. Mapped(c) /\ ~Deferred(c) /\ ctx[c].refs = 1
    <3>1. Mapped(c) /\ ~Deferred(c) /\ ctx[c].refs = One(Mapped(c)) + One(Deferred(c))
      BY <1>2, <2>1, <2>3 DEF IInv, RefInv, Mapped
    <3> QED BY <3>1, SMTT(60) DEF One
  <2>5. PICK x : x = [ctx[c] EXCEPT !.refs = 0]
    OBVIOUS
  <2>6. x \in CtxRec /\ x.src = ctx[c].src /\ x.sock = ctx[c].sock /\ x.refs = 0 /\ ctx \in [Ctx -> CtxRec]
    <3>1. ctx \in [Ctx -> CtxRec] /\ ctx[c] \in CtxRec
      BY <2>3, ContextsTyped DEF IInv
    <3>2. \A n \in Nat :
            /\ [ctx[c] EXCEPT !.refs = n] \in CtxRec /\ [ctx[c] EXCEPT !.refs = n].src = ctx[c].src
            /\ [ctx[c] EXCEPT !.refs = n].sock = ctx[c].sock /\ [ctx[c] EXCEPT !.refs = n].refs = n
      BY <3>1, ContextFields
    <3> QED BY <1>2, <2>5, <3>1, <3>2
  <2>7. ctx' = [ctx EXCEPT ![c] = x]
    BY <1>4, <2>1, <2>4, <2>5, SMTT(60)
  <2>8. /\ ctx' \in [Ctx -> CtxRec] /\ ctx'[c].refs = 0
        /\ \A y \in Ctx : ctx'[y].src = ctx[y].src /\ ctx'[y].sock = ctx[y].sock
        /\ \A y \in Ctx : y # c => ctx'[y].refs = ctx[y].refs
    BY <2>3, <2>6, <2>7
  <2>9. phase # "destroyed" => ~ctx'[c].sock
    BY <2>3, <2>8, ConstantsOK DEF IInv, LiveInv
  <2>10. PICK r : r = Unlinked(timer[t])
    OBVIOUS
  <2>11. /\ r \in TimerRec /\ ~r.added /\ r.owned = timer[t].owned
         /\ r.refs = timer[t].refs - 1 /\ timer[t].refs \in Nat
    BY <1>2, <2>10, UnlinkedTimer
  <2>12. timer' = [timer EXCEPT ![t] = r]
    BY <1>4, <2>10
  <2>13. r.refs + One(timer[t].owned) + One(timer[t].added) = timer[t].refs + One(r.owned) + One(r.added)
    <3>1. One(r.added) = 0 /\ One(timer[t].added) = 1 /\ One(r.owned) = One(timer[t].owned) /\ One(r.owned) \in {0, 1}
      BY <1>2, <2>11, OneNat
    <3>2. PICK o \in {0, 1}, m, n \in Nat : o = One(r.owned) /\ o = One(timer[t].owned) /\ m = timer[t].refs /\ n = r.refs /\ n = m - 1
      BY <2>11, <3>1, TimerFields
    <3>3. n + o + 1 = m + o + 0
      BY <3>2, SMTT(60)
    <3> QED BY <3>1, <3>2, <3>3
  <2>14. TimerInv' /\ timer' \in [Timers -> TimerRec] /\ \A y \in Timers : y # t => timer'[y] = timer[y]
    BY <1>1, <2>11, <2>12, <2>13, TimerBalance
  <2>15. \A y \in Timers : timer'[y].added => timer[y].added /\ y # t
    BY <2>11, <2>12, <2>14 DEF IInv
  <2>16. SameFds /\ SameSources /\ \A s \in Sockets : Deferred(s)' => Deferred(s)
    BY <1>1, <2>8 DEF SameFds, SameSources, Deferred
  <2>17. /\ MapInv' /\ SocketInv' /\ LiveInv'
         /\ ctx_map' \in [Slots -> 0..MaxCtx] /\ kep' \in [Slots -> 0..MaxCtx]
         /\ \A y \in Ctx : Mapped(y)' <=> Mapped(y) /\ y # c
    <3>1. \A y \in Ctx : ctx'[y].sock => ctx[y].sock
      BY <2>8
    <3> QED BY <1>1, <1>2, <1>4, <2>1, <2>3, <2>9, <2>15, <2>16, <3>1, Unmapped
  <2>18. TypeOK'
    BY <1>1, <1>4, <2>8, <2>14, <2>17 DEF IInv, TypeOK
  <2>19. \A y : Deferred(y)' = Deferred(y)
    BY <1>1 DEF Deferred
  <2>20. RefInv'
    <3>1. ASSUME NEW y \in 1..made  PROVE ctx'[y].refs = One(Mapped(y)') + One(Deferred(y)')
      <4>1. y \in Ctx /\ ctx[y].refs = One(Mapped(y)) + One(Deferred(y))
        BY <2>3 DEF IInv, RefInv
      <4>2. CASE y = c
        BY <2>3, <2>4, <2>8, <2>17, <2>19, <4>2, SMTT(60) DEF One
      <4>3. CASE y # c
        <5>1. (Mapped(y)' <=> Mapped(y)) /\ (Deferred(y)' <=> Deferred(y)) /\ ctx'[y].refs = ctx[y].refs
          BY <2>8, <2>17, <2>19, <4>1, <4>3
        <5> QED BY <4>1, <5>1 DEF One
      <4> QED BY <4>2, <4>3
    <3>2. \A y \in Ctx : Deferred(y)' => y <= made' /\ ~Mapped(y)'
      BY <1>1, <2>17, <2>19 DEF IInv, RefInv
    <3> QED BY <1>1, <3>1, <3>2 DEF IInv, RefInv
  <2>21. BatchInv'
    <3>1. \A y \in 1..made : ctx[y].src \in Sockets /\ (Mapped(y) \/ Deferred(y)) => Mapped(y)' \/ Deferred(y)'
      BY <2>3, <2>17, <2>19, ConstantsOK
    <3>2. \A y \in 1..made : ctx'[y].src = ctx[y].src
      BY <2>3, <2>8
    <3>3. made' \in Nat /\ made <= made'
      BY <1>1, <2>3, SMTT(60)
    <3> QED BY <1>1, <3>1, <3>2, <3>3, BatchKept DEF IInv
  <2> QED BY <2>14, <2>17, <2>18, <2>20, <2>21 DEF IInv
<1> QED BY <1>3, <1>4 DEF _removeTimer
===============================================================================
