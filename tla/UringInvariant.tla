---------------------------- MODULE UringInvariant ----------------------------
(*****************************************************************************)
(* UringBackend, for any number of sockets, timers and contexts and any size *)
(* of the queues: the inductive invariant, the laws of counting it needs,    *)
(* and every step preserves it.  So types, ownership of references and polls *)
(* are right in every reachable state.                                       *)
(*****************************************************************************)
EXTENDS UringBackend, TLAPS

USE ZenonT(60)

-----------------------------------------------------------------------------
(* Counting the entries of a queue. *)

\* How many entries of q are in X.
Count(q, X) == Cardinality({i \in 1 .. Len(q) : q[i] \in X})

\* The laws of finite sets and their sizes that the counts rest on: a set of
\* places of a queue is finite; the size of a set of no element, of one, and of
\* one more or one less; moving every place but the first up by one keeps their
\* number.
Counting ==
  /\ \A n \in Nat : \A I \in SUBSET (1 .. n) : IsFiniteSet(I) /\ Cardinality(I) \in Nat
  /\ Cardinality({}) = 0 /\ \A x : Cardinality({x}) = 1
  /\ \A S : IsFiniteSet(S) =>
       /\ Cardinality(S) = 0 <=> S = {}
       /\ \A x \in S : Cardinality(S \ {x}) = Cardinality(S) - 1
       /\ \A x : x \notin S => Cardinality(S \cup {x}) = Cardinality(S) + 1
  /\ \A n \in Nat : \A I \in SUBSET (1 .. n + 1) :
       Cardinality(I) = Cardinality({j \in 1 .. n : j + 1 \in I}) + One(1 \in I)

\* A set of places of a queue is finite.
LEMMA PlacesFinite ==
  ASSUME Counting, NEW n \in Nat, NEW I \in SUBSET (1 .. n)
  PROVE  IsFiniteSet(I) /\ Cardinality(I) \in Nat
BY DEF Counting

\* The size of a set of no element and of one.
LEMMA SmallSizes ==
  ASSUME Counting
  PROVE  Cardinality({}) = 0 /\ \A x : Cardinality({x}) = 1
BY DEF Counting

\* The size of a set with one element more or less.
LEMMA SizeLaws ==
  ASSUME Counting, NEW S, IsFiniteSet(S)
  PROVE  /\ Cardinality(S) = 0 <=> S = {}
         /\ \A x \in S : Cardinality(S \ {x}) = Cardinality(S) - 1
         /\ \A x : x \notin S => Cardinality(S \cup {x}) = Cardinality(S) + 1
BY DEF Counting

\* Moving every place but the first up by one keeps their number.
LEMMA Shift ==
  ASSUME Counting, NEW n \in Nat, NEW I \in SUBSET (1 .. n + 1)
  PROVE  Cardinality(I) = Cardinality({j \in 1 .. n : j + 1 \in I}) + One(1 \in I)
BY DEF Counting

\* The number of entries in X: of the empty queue, after appending an entry and
\* after taking the first one.
LEMMA CountLaws ==
  ASSUME Counting, NEW S, NEW q \in Seq(S), NEW X
  PROVE  /\ Count(q, X) \in Nat
         /\ q = <<>> => Count(q, X) = 0
         /\ \A e \in S : Count(Append(q, e), X) = Count(q, X) + One(e \in X)
         /\ q # <<>> => Count(q, X) = Count(Tail(q), X) + One(Head(q) \in X)
<1> DEFINE I == {i \in 1 .. Len(q) : q[i] \in X}
<1>1. Len(q) \in Nat /\ I \in SUBSET (1 .. Len(q))
  BY SMTT(60)
<1>2. IsFiniteSet(I) /\ Cardinality(I) \in Nat
  BY <1>1, PlacesFinite
<1>3. ASSUME q = <<>> PROVE Count(q, X) = 0
  <2>1. I = {}
    BY <1>3, SMTT(60)
  <2>2. QED
    BY <2>1, SmallSizes DEF Count
<1>4. ASSUME NEW e \in S PROVE Count(Append(q, e), X) = Count(q, X) + One(e \in X)
  <2> DEFINE K == {i \in 1 .. Len(Append(q, e)) : Append(q, e)[i] \in X}
  <2>1. K = IF e \in X THEN I \cup {Len(q) + 1} ELSE I
    BY <1>1, SMTT(60)
  <2>2. Len(q) + 1 \notin I
    BY <1>1, SMTT(60)
  <2>3. Cardinality(I \cup {Len(q) + 1}) = Cardinality(I) + 1
    BY <1>2, <2>2, SizeLaws
  <2>4. Cardinality(K) = Cardinality(I) + One(e \in X)
    <3> HIDE DEF I, K
    <3>1. CASE e \in X
      BY <2>1, <2>3, <3>1 DEF One
    <3>2. CASE e \notin X
      BY <1>2, <2>1, <3>2, SMTT(60) DEF One
    <3>3. QED
      BY <3>1, <3>2
  <2>5. QED
    BY <2>4 DEF Count
<1>5. ASSUME q # <<>>
      PROVE  Count(q, X) = Count(Tail(q), X) + One(Head(q) \in X)
  <2> DEFINE n == Len(q) - 1
  <2>1. /\ n \in Nat /\ Len(q) = n + 1 /\ Len(Tail(q)) = n /\ Head(q) = q[1]
        /\ \A j \in 1 .. n : Tail(q)[j] = q[j + 1]
    BY <1>5, SMTT(60)
  <2>2. I \in SUBSET (1 .. n + 1) /\ (1 \in I <=> Head(q) \in X)
    BY <2>1, SMTT(60)
  <2>3. {j \in 1 .. n : j + 1 \in I} = {j \in 1 .. Len(Tail(q)) : Tail(q)[j] \in X}
    BY <2>1, SMTT(60)
  <2>4. Cardinality(I) = Cardinality({j \in 1 .. n : j + 1 \in I}) + One(1 \in I)
    BY <2>1, <2>2, Shift
  <2>5. QED
    BY <2>2, <2>3, <2>4 DEF Count, One
<1>6. QED
  BY <1>2, <1>3, <1>4, <1>5 DEF Count

\* Ops and Adds as counts of a queue of operations, Places as one of a queue of
\* contexts.
LEMMA OpsLaws ==
  ASSUME Counting, NEW q \in Seq(Sqe), NEW c \in Ctx
  PROVE  /\ Ops(q, c) \in Nat /\ Adds(q, c) \in Nat
         /\ q = <<>> => Ops(q, c) = 0 /\ Adds(q, c) = 0
         /\ \A e \in Sqe :
              /\ Ops(Append(q, e), c) = Ops(q, c) + One(e.c = c)
              /\ Adds(Append(q, e), c) = Adds(q, c) + One(e.c = c /\ e.op = "add")
         /\ q # <<>> =>
              /\ Ops(q, c) = Ops(Tail(q), c) + One(Head(q).c = c)
              /\ Adds(q, c) = Adds(Tail(q), c)
                              + One(Head(q).c = c /\ Head(q).op = "add")
<1> DEFINE X == {e \in Sqe : e.c = c}
           Y == {e \in Sqe : e.c = c /\ e.op = "add"}
<1>1. \A r \in Seq(Sqe) : Ops(r, c) = Count(r, X) /\ Adds(r, c) = Count(r, Y)
  <2>1. SUFFICES ASSUME NEW r \in Seq(Sqe)
                 PROVE  Ops(r, c) = Count(r, X) /\ Adds(r, c) = Count(r, Y)
    OBVIOUS
  <2>2. \A i \in 1 .. Len(r) : r[i] \in Sqe
    BY SMTT(60)
  <2>3. {i \in 1 .. Len(r) : r[i].c = c} = {i \in 1 .. Len(r) : r[i] \in X}
    BY <2>2
  <2>4. {i \in 1 .. Len(r) : r[i].c = c /\ r[i].op = "add"}
          = {i \in 1 .. Len(r) : r[i] \in Y}
    BY <2>2
  <2>5. QED
    BY <2>3, <2>4 DEF Ops, Adds, Count
<1>2. \A e \in Sqe : /\ Append(q, e) \in Seq(Sqe)
                     /\ e \in X <=> e.c = c
                     /\ e \in Y <=> e.c = c /\ e.op = "add"
  BY SMTT(60)
<1>3. q # <<>> => Tail(q) \in Seq(Sqe) /\ Head(q) \in Sqe
  BY SMTT(60)
<1> HIDE DEF X, Y
<1>4. /\ Count(q, X) \in Nat
      /\ q = <<>> => Count(q, X) = 0
      /\ \A e \in Sqe : Count(Append(q, e), X) = Count(q, X) + One(e \in X)
      /\ q # <<>> => Count(q, X) = Count(Tail(q), X) + One(Head(q) \in X)
  BY CountLaws
<1>5. /\ Count(q, Y) \in Nat
      /\ q = <<>> => Count(q, Y) = 0
      /\ \A e \in Sqe : Count(Append(q, e), Y) = Count(q, Y) + One(e \in Y)
      /\ q # <<>> => Count(q, Y) = Count(Tail(q), Y) + One(Head(q) \in Y)
  BY CountLaws
<1>6. QED
  BY <1>1, <1>2, <1>3, <1>4, <1>5 DEF One

\* The same for the places of a context in the re-arm queue.
LEMMA PlacesLaws ==
  ASSUME Counting, NEW q \in Seq(Ctx), NEW c \in Ctx
  PROVE  /\ Places(q, c) \in Nat
         /\ q = <<>> => Places(q, c) = 0
         /\ \A e \in Ctx : Places(Append(q, e), c) = Places(q, c) + One(e = c)
         /\ q # <<>> => Places(q, c) = Places(Tail(q), c) + One(Head(q) = c)
<1>1. \A r : Places(r, c) = Count(r, {c})
  <2>1. \A r : {i \in 1 .. Len(r) : r[i] = c} = {i \in 1 .. Len(r) : r[i] \in {c}}
    OBVIOUS
  <2>2. QED
    BY <2>1 DEF Places, Count
<1>2. \A e : e \in {c} <=> e = c
  OBVIOUS
<1>3. /\ Count(q, {c}) \in Nat
      /\ q = <<>> => Count(q, {c}) = 0
      /\ \A e \in Ctx : Count(Append(q, e), {c}) = Count(q, {c}) + One(e \in {c})
      /\ q # <<>> => Count(q, {c}) = Count(Tail(q), {c}) + One(Head(q) \in {c})
  BY CountLaws
<1>4. \A e \in Ctx : One(e \in {c}) = One(e = c)
  BY <1>2 DEF One
<1>5. q # <<>> => Head(q) \in Ctx
  BY SMTT(60)
<1>6. ASSUME NEW e \in Ctx
      PROVE  Places(Append(q, e), c) = Places(q, c) + One(e = c)
  <2>1. /\ Places(Append(q, e), c) = Count(Append(q, e), {c})
        /\ Places(q, c) = Count(q, {c})
    BY <1>1
  <2>2. QED
    BY <1>3, <1>4, <2>1
<1>7. ASSUME q # <<>>
      PROVE  Places(q, c) = Places(Tail(q), c) + One(Head(q) = c)
  <2>1. Places(Tail(q), c) = Count(Tail(q), {c}) /\ Places(q, c) = Count(q, {c})
    BY <1>1
  <2>2. One(Head(q) \in {c}) = One(Head(q) = c)
    BY <1>4, <1>5, <1>7
  <2>3. QED
    BY <1>3, <1>7, <2>1, <2>2
<1>8. Places(q, c) \in Nat /\ (q = <<>> => Places(q, c) = 0)
  BY <1>1, <1>3
<1>9. QED
  BY <1>6, <1>7, <1>8

-----------------------------------------------------------------------------
(* The inductive invariant. *)

\* One context: its operations, its places in the re-arm queue and its
\* references agree, it has at most one poll, and it is not queued with one.
CtxInv(c) ==
  /\ ctx[c].pend = Ops(sq, c) + Ops(cq, c) + One(kpoll[c] # NoPoll)
  /\ Places(rearm, c) + Places(todo, c) = One(ctx[c].queued)
  /\ ctx[c].refs = One(InMap(c)) + ctx[c].pend + One(ctx[c].queued)
  /\ Polls(c) = One(ctx[c].armed)
  /\ ctx[c].queued => ~ctx[c].armed
  /\ c > made => ctx[c] = Blank
  /\ c <= made => ctx[c].src \in Sources

\* ctx_map leads from a source to a context of that source.
MapInv == \A s \in Sources : ctx_map[s] # 0 =>
            ctx_map[s] \in 1 .. made /\ ctx[ctx_map[s]].src = s

\* uring_pending_total counts what was handed to the kernel and not consumed.
Armed == {c \in Ctx : kpoll[c] # NoPoll}
TotalInv == total = Len(sq) + Len(cq) + Cardinality(Armed)

\* Where the loop is says what its work lists hold.
StageInv == /\ pc # "rearm" => todo = <<>>
            /\ pc = "cancel" => \A s \in left : ctx_map[s] # 0

Running == /\ \A c \in Ctx : CtxInv(c)
           /\ MapInv /\ TotalInv /\ StageInv

IInv == TypeOK /\ DestroyFrees /\ (pc # "destroyed" => Running)

\* Masks are never the mark of an absent poll.
LEMMA MaskIsNoNoPoll == \A m \in SUBSET Bits : m # NoPoll
BY DEF Bits, NoPoll

\* The counts of a context are numbers.
LEMMA CountsAreNumbers ==
  ASSUME Counting, TypeOK, NEW c \in Ctx
  PROVE  /\ Ops(sq, c) \in Nat /\ Ops(cq, c) \in Nat
         /\ Adds(sq, c) \in Nat /\ Adds(cq, c) \in Nat
         /\ Places(rearm, c) \in Nat /\ Places(todo, c) \in Nat
BY OpsLaws, PlacesLaws DEF TypeOK

\* There are finitely many polls in the kernel.
LEMMA ArmedFinite ==
  ASSUME Counting
  PROVE  IsFiniteSet(Armed) /\ Cardinality(Armed) \in Nat
<1>1. MaxCtx \in Nat /\ Armed \in SUBSET (1 .. MaxCtx)
  BY ConstantsOK DEF Armed, Ctx
<1>2. QED
  BY <1>1, PlacesFinite

\* The initial state.
LEMMA InitIInv ==
  ASSUME Counting
  PROVE  Init => IInv
<1> SUFFICES ASSUME Init PROVE IInv
  OBVIOUS
<1>1. TypeOK
  <2>1. Blank \in Context
    BY DEF Blank, Context
  <2>2. ctx \in [Ctx -> Context]
        /\ kpoll \in [Ctx -> (SUBSET Bits) \cup {NoPoll}]
    BY <2>1 DEF Init
  <2>3. ctx_map \in [Sources -> 0 .. MaxCtx] /\ made \in 0 .. MaxCtx
        /\ modified \in 0 .. MaxModify
    BY ConstantsOK, SMTT(60) DEF Init
  <2>4. QED
    BY <2>2, <2>3, SMTT(60) DEF Init, TypeOK
<1>2. ASSUME NEW c \in Ctx PROVE CtxInv(c)
  <2>1. /\ Ops(sq, c) = 0 /\ Ops(cq, c) = 0 /\ Adds(sq, c) = 0 /\ Adds(cq, c) = 0
        /\ Places(rearm, c) = 0 /\ Places(todo, c) = 0
    <3>1. /\ sq \in Seq(Sqe) /\ cq \in Seq(Sqe) /\ sq = <<>> /\ cq = <<>>
          /\ rearm \in Seq(Ctx) /\ todo \in Seq(Ctx) /\ rearm = <<>> /\ todo = <<>>
      BY SMTT(60) DEF Init
    <3>2. /\ Ops(sq, c) = 0 /\ Ops(cq, c) = 0
          /\ Adds(sq, c) = 0 /\ Adds(cq, c) = 0
      <4>1. <<>> \in Seq(Sqe)
        BY SMTT(60)
      <4>2. Ops(<<>>, c) = 0 /\ Adds(<<>>, c) = 0
        BY <4>1, OpsLaws
      <4>3. QED
        BY <3>1, <4>2
    <3>3. Places(rearm, c) = 0 /\ Places(todo, c) = 0
      BY <3>1, PlacesLaws
    <3>4. QED
      BY <3>2, <3>3
  <2>2. ~InMap(c)
    BY SMTT(60) DEF Init, InMap, Ctx
  <2>3. ctx[c] = Blank /\ kpoll[c] = NoPoll /\ made = 0
    BY DEF Init
  <2>4. c > made
    BY <2>3, ConstantsOK, SMTT(60) DEF Ctx
  <2>5. QED
    BY <2>1, <2>2, <2>3, <2>4, SMTT(60) DEF CtxInv, Polls, One, Blank, Ctx
<1>3. Armed = {}
  BY DEF Init, Armed
<1>4. TotalInv
  BY <1>3, SmallSizes, SMTT(60) DEF Init, TotalInv
<1>5. MapInv /\ StageInv /\ DestroyFrees
  BY DEF Init, MapInv, StageInv, DestroyFrees
<1>6. QED
  BY <1>1, <1>2, <1>4, <1>5 DEF IInv, Running

\* Steps of the loop that move no reference and hand over no operation.
Quiet == UNCHANGED <<ctx, made, ctx_map, rearm, todo, total, sq, kpoll, cq>>

\* A quiet step keeps the invariant when its phase allows it.
LEMMA QuietStep ==
  ASSUME IInv, Quiet, TypeOK', pc # "destroyed", pc' # "destroyed", StageInv'
  PROVE  IInv'
<1>1. ASSUME NEW c \in Ctx PROVE CtxInv(c)'
  <2>1. CtxInv(c)
    BY DEF IInv, Running
  <2>2. InMap(c)' = InMap(c) /\ Polls(c)' = Polls(c)
    BY DEF Quiet, InMap, Polls
  <2>3. QED
    BY <2>1, <2>2 DEF Quiet, CtxInv
<1>2. MapInv'
  BY DEF IInv, Running, Quiet, MapInv
<1>3. TotalInv'
  <2>1. Armed' = Armed
    BY DEF Quiet, Armed
  <2>2. QED
    BY <2>1 DEF IInv, Running, Quiet, TotalInv
<1>4. DestroyFrees'
  BY DEF DestroyFrees
<1>5. QED
  BY <1>1, <1>2, <1>3, <1>4 DEF IInv, Running
-----------------------------------------------------------------------------
(* What the small steps of the actions do to the counts. *)

\* An operation is handed to the kernel.
LEMMA SubmitLaws ==
  ASSUME Counting, TypeOK, NEW op \in {"add", "update", "remove"}, NEW d \in Ctx,
         NEW m \in SUBSET Bits, Submit(op, d, m)
  PROVE  /\ sq' \in Seq(Sqe) /\ Len(sq') = Len(sq) + 1
         /\ total' = total + 1 /\ total' \in Nat
         /\ \A c \in Ctx :
              /\ Ops(sq', c) = Ops(sq, c) + One(c = d)
              /\ Adds(sq', c) = Adds(sq, c) + One(c = d /\ op = "add")
<1> DEFINE e == [op |-> op, c |-> d, mask |-> m]
<1>1. e \in Sqe /\ e.c = d /\ e.op = op
  BY DEF Sqe
<1> HIDE DEF e
<1>2. sq' = Append(sq, e) /\ total' = total + 1
  BY DEF Submit, e
<1>3. sq \in Seq(Sqe) /\ total \in Nat
  BY DEF TypeOK
<1>4. sq' \in Seq(Sqe) /\ Len(sq') = Len(sq) + 1
  BY <1>1, <1>2, <1>3, SMTT(60)
<1>5. ASSUME NEW c \in Ctx
      PROVE  /\ Ops(sq', c) = Ops(sq, c) + One(c = d)
             /\ Adds(sq', c) = Adds(sq, c) + One(c = d /\ op = "add")
  <2>1. /\ Ops(Append(sq, e), c) = Ops(sq, c) + One(e.c = c)
        /\ Adds(Append(sq, e), c) = Adds(sq, c) + One(e.c = c /\ e.op = "add")
    BY <1>1, <1>3, OpsLaws, SMTT(60)
  <2>2. QED
    BY <1>1, <1>2, <2>1 DEF One
<1>6. QED
  BY <1>2, <1>3, <1>4, <1>5, SMTT(60)

\* A context takes a place in the re-arm queue.
LEMMA EnqueueLaws ==
  ASSUME Counting, TypeOK, NEW d \in Ctx, Enqueue(d)
  PROVE  /\ rearm' \in Seq(Ctx)
         /\ \A c \in Ctx : Places(rearm', c) = Places(rearm, c) + One(c = d)
<1>1. rearm \in Seq(Ctx) /\ rearm' = Append(rearm, d)
  BY DEF TypeOK, Enqueue
<1>2. ASSUME NEW c \in Ctx
      PROVE  Places(rearm', c) = Places(rearm, c) + One(c = d)
  <2>1. Places(Append(rearm, d), c) = Places(rearm, c) + One(d = c)
    BY <1>1, PlacesLaws, SMTT(60)
  <2>2. QED
    BY <1>1, <2>1 DEF One
<1>3. QED
  BY <1>1, <1>2, SMTT(60)

\* A completion is consumed.
LEMMA ConsumeLaws ==
  ASSUME Counting, TypeOK, TotalInv, cq # <<>>, cq' = Tail(cq), total' = total - 1
  PROVE  /\ Head(cq) \in Sqe /\ cq' \in Seq(Sqe) /\ Len(cq) = Len(cq') + 1
         /\ total' \in Nat
         /\ \A c \in Ctx :
              /\ Ops(cq, c) = Ops(cq', c) + One(c = Head(cq).c)
              /\ Adds(cq, c) = Adds(cq', c)
                               + One(c = Head(cq).c /\ Head(cq).op = "add")
              /\ Ops(cq', c) \in Nat /\ Adds(cq', c) \in Nat
<1>1. cq \in Seq(Sqe) /\ total \in Nat /\ sq \in Seq(Sqe)
  BY DEF TypeOK
<1>2. Head(cq) \in Sqe /\ cq' \in Seq(Sqe) /\ Len(cq) = Len(cq') + 1
  BY <1>1, SMTT(60)
<1>3. Cardinality(Armed) \in Nat
  BY ArmedFinite
<1>4. total' \in Nat
  BY <1>1, <1>2, <1>3, SMTT(60) DEF TotalInv
<1>5. ASSUME NEW c \in Ctx
      PROVE  /\ Ops(cq, c) = Ops(cq', c) + One(c = Head(cq).c)
             /\ Adds(cq, c) = Adds(cq', c)
                              + One(c = Head(cq).c /\ Head(cq).op = "add")
             /\ Ops(cq', c) \in Nat /\ Adds(cq', c) \in Nat
  <2>1. /\ Ops(cq, c) = Ops(Tail(cq), c) + One(Head(cq).c = c)
        /\ Adds(cq, c) = Adds(Tail(cq), c)
                         + One(Head(cq).c = c /\ Head(cq).op = "add")
    BY <1>1, OpsLaws, SMTT(60)
  <2>2. Ops(cq', c) \in Nat /\ Adds(cq', c) \in Nat
    BY <1>2, OpsLaws
  <2>3. QED
    BY <2>1, <2>2 DEF One
<1>6. QED
  BY <1>2, <1>4, <1>5
-----------------------------------------------------------------------------
(* Every other step changes at most one context. *)

\* The counts of every context but d stay as they are.
OthersKept(d) ==
  \A c \in Ctx \ {d} :
    /\ Ops(sq', c) = Ops(sq, c) /\ Ops(cq', c) = Ops(cq, c)
    /\ Adds(sq', c) = Adds(sq, c) /\ Adds(cq', c) = Adds(cq, c)
    /\ Places(rearm', c) + Places(todo', c) = Places(rearm, c) + Places(todo, c)
    /\ kpoll'[c] = kpoll[c]

\* ctx_map changes at most by giving up context d.
MapKept(d) == \A t \in Sources : ctx_map'[t] # ctx_map[t] =>
                                   ctx_map[t] = d /\ ctx_map'[t] = 0

\* A step that gives context d the value x keeps the invariant if it keeps what
\* the invariant says of d.
LEMMA OneContext ==
  ASSUME IInv, TypeOK', NEW d \in Ctx, NEW x \in Context,
         pc # "destroyed", pc' # "destroyed", made' = made,
         ctx' = [ctx EXCEPT ![d] = x], x.src = ctx[d].src,
         OthersKept(d),
         MapKept(d),
         CtxInv(d)', TotalInv', StageInv'
  PROVE  IInv'
<1>1. TypeOK /\ Running
  BY DEF IInv
<1>2. ASSUME NEW c \in Ctx, c # d PROVE CtxInv(c)'
  <2>1. CtxInv(c) /\ ctx'[c] = ctx[c]
    BY <1>1, <1>2 DEF Running, TypeOK
  <2>2. InMap(c)' = InMap(c)
    BY <1>2, SMTT(60) DEF InMap, Ctx, MapKept
  <2>3. /\ Ops(sq', c) = Ops(sq, c) /\ Ops(cq', c) = Ops(cq, c)
        /\ Adds(sq', c) = Adds(sq, c) /\ Adds(cq', c) = Adds(cq, c)
        /\ Places(rearm', c) + Places(todo', c)
             = Places(rearm, c) + Places(todo, c)
        /\ kpoll'[c] = kpoll[c]
    BY <1>2 DEF OthersKept
  <2>4. QED
    BY <2>1, <2>2, <2>3 DEF CtxInv, Polls
<1>3. MapInv'
  <2>1. \A c \in Ctx : ctx'[c].src = ctx[c].src
    BY <1>1 DEF TypeOK
  <2>2. \A t \in Sources : ctx_map[t] # 0 => ctx_map[t] \in Ctx
    BY <1>1, ConstantsOK, SMTT(60) DEF TypeOK, Ctx
  <2>3. QED
    BY <1>1, <2>1, <2>2, SMTT(60) DEF Running, MapInv, MapKept
<1>4. DestroyFrees'
  BY DEF DestroyFrees
<1>5. QED
  BY <1>2, <1>3, <1>4 DEF IInv, Running

\* A source in ctx_map has a context of its own.
LEMMA Mapped ==
  ASSUME TypeOK, Running, NEW s \in Sources, ctx_map[s] # 0
  PROVE  /\ ctx_map[s] \in Ctx /\ ctx_map[s] <= made
         /\ ctx[ctx_map[s]].src = s /\ InMap(ctx_map[s])
         /\ \A t \in Sources : ctx_map[t] = ctx_map[s] => t = s
<1>1. ctx_map[s] \in 1 .. made /\ ctx[ctx_map[s]].src = s
  BY DEF Running, MapInv
<1>2. \A t \in Sources : ctx_map[t] = ctx_map[s] => ctx[ctx_map[t]].src = t
  BY <1>1 DEF Running, MapInv
<1>3. QED
  BY <1>1, <1>2, ConstantsOK, SMTT(60) DEF InMap, Ctx, TypeOK

\* What has to be shown of the context that a step changes.
LEMMA CtxInvNext ==
  ASSUME TypeOK, Running, NEW d \in Ctx, d <= made, made' = made,
         NEW x \in Context, ctx'[d] = x, x.src = ctx[d].src,
         x.pend = Ops(sq', d) + Ops(cq', d) + One(kpoll'[d] # NoPoll),
         Places(rearm', d) + Places(todo', d) = One(x.queued),
         x.refs = One(InMap(d)') + x.pend + One(x.queued),
         Adds(sq', d) + Adds(cq', d) + One(kpoll'[d] # NoPoll) = One(x.armed),
         x.queued => ~x.armed
  PROVE  CtxInv(d)'
<1>1. ctx[d].src \in Sources
  BY DEF Running, CtxInv
<1>2. ~(d > made') /\ x.src \in Sources
  BY <1>1, SMTT(60) DEF Ctx, TypeOK
<1>3. QED
  BY <1>2 DEF CtxInv, Polls

\* A completion that is consumed: the part that Reap and DrainStep share.  The
\* context gives up the reference of the operation; grew says that it takes a
\* place in the re-arm queue instead.
Consumed(d, add, grew, x) ==
  /\ x.src = ctx[d].src /\ (x.armed <=> ctx[d].armed /\ ~add)
  /\ (x.queued <=> ctx[d].queued \/ grew)
  /\ x.pend = ctx[d].pend - 1
  /\ x.refs = ctx[d].refs - 1 + One(grew)

\* One completion is taken from the queue: its context gives up the operation and
\* its reference, or passes the reference on to the re-arm queue.
LEMMA ConsumeStep ==
  ASSUME Counting, IInv, TypeOK', pc # "destroyed", pc' = pc, cq # <<>>, cq' = Tail(cq),
         total' = total - 1, NEW d \in Ctx, d = Head(cq).c,
         NEW add \in BOOLEAN, add = (Head(cq).op = "add"),
         NEW grew \in BOOLEAN, grew => add,
         IF grew THEN Enqueue(d) ELSE rearm' = rearm,
         NEW x \in Context, Consumed(d, add, grew, x),
         ctx' = [ctx EXCEPT ![d] = x],
         UNCHANGED <<made, ctx_map, todo, sq, kpoll, left>>
  PROVE  IInv'
<1>0. TypeOK /\ Running /\ TotalInv /\ CtxInv(d) /\ ctx[d] \in Context
  BY DEF IInv, Running, TypeOK
<1>1. /\ cq' \in Seq(Sqe) /\ Len(cq) = Len(cq') + 1 /\ total' \in Nat
      /\ \A c \in Ctx :
           /\ Ops(cq, c) = Ops(cq', c) + One(c = d)
           /\ Adds(cq, c) = Adds(cq', c) + One(c = d /\ add)
           /\ Ops(cq', c) \in Nat /\ Adds(cq', c) \in Nat
  BY <1>0, ConsumeLaws DEF One
<1>2. /\ Ops(cq, d) = Ops(cq', d) + 1 /\ Ops(cq', d) \in Nat
      /\ Adds(cq, d) = Adds(cq', d) + One(add) /\ Adds(cq', d) \in Nat
  BY <1>1 DEF One
<1>3. /\ Ops(sq, d) \in Nat /\ Adds(sq, d) \in Nat
      /\ Places(rearm, d) \in Nat /\ Places(todo, d) \in Nat
  BY <1>0, CountsAreNumbers
<1>4. ctx[d].pend = Ops(sq, d) + Ops(cq', d) + 1 + One(kpoll[d] # NoPoll)
  BY <1>0, <1>2, <1>3, SMTT(60) DEF CtxInv, One
<1>5. d <= made
  <2>1. ctx[d] # Blank
    BY <1>2, <1>3, <1>4, SMTT(60) DEF Blank, One
  <2>2. QED
    BY <1>0, <2>1, SMTT(60) DEF CtxInv, Ctx, TypeOK
<1>6. Adds(sq, d) + Adds(cq', d) + One(add) + One(kpoll[d] # NoPoll)
        = One(ctx[d].armed)
  BY <1>0, <1>2, <1>3, SMTT(60) DEF CtxInv, Polls, One
<1>7. add => ctx[d].armed /\ ~ctx[d].queued
  <2>1. add => ctx[d].armed
    BY <1>2, <1>3, <1>6, SMTT(60) DEF One
  <2>2. QED
    BY <1>0, <2>1 DEF CtxInv
<1>8. \A c \in Ctx : Places(rearm', c) = Places(rearm, c) + One(c = d /\ grew)
  <2>1. CASE grew
    BY <1>0, <2>1, EnqueueLaws DEF One
  <2>2. CASE ~grew
    BY <1>0, <2>2, CountsAreNumbers, SMTT(60) DEF One
  <2>3. QED
    BY <2>1, <2>2
<1>9. OthersKept(d)
  BY <1>0, <1>1, <1>8, CountsAreNumbers, SMTT(60) DEF OthersKept, One
<1>10. CtxInv(d)'
  <2>1. One(InMap(d)') = One(InMap(d)) /\ One(InMap(d)) \in Nat
    BY DEF InMap, One
  <2>2. One(x.queued) = One(ctx[d].queued) + One(grew)
    BY <1>7, SMTT(60) DEF Consumed, One
  <2>3. One(x.armed) = One(ctx[d].armed) - One(add)
    BY <1>7, SMTT(60) DEF Consumed, One
  <2>4. ctx'[d] = x /\ x.src = ctx[d].src
    BY <1>0 DEF TypeOK, Consumed
  <2>5. x.pend = Ops(sq', d) + Ops(cq', d) + One(kpoll'[d] # NoPoll)
    BY <1>2, <1>3, <1>4, SMTT(60) DEF Consumed, One
  <2>6. Places(rearm', d) + Places(todo', d) = One(x.queued)
    <3>1. Places(rearm', d) = Places(rearm, d) + One(grew)
      BY <1>8 DEF One
    <3>2. Places(rearm, d) + Places(todo, d) = One(ctx[d].queued)
      BY <1>0 DEF CtxInv
    <3>3. QED
      BY <1>3, <2>2, <3>1, <3>2, SMTT(60) DEF One
  <2>7. x.refs = One(InMap(d)') + x.pend + One(x.queued)
    <3>1. ctx[d].refs = One(InMap(d)) + ctx[d].pend + One(ctx[d].queued)
      BY <1>0 DEF CtxInv
    <3>2. ctx[d].pend \in Nat /\ One(ctx[d].queued) \in Nat /\ One(grew) \in Nat
      BY <1>0 DEF Context, One
    <3>3. x.refs = ctx[d].refs - 1 + One(grew) /\ x.pend = ctx[d].pend - 1
      BY DEF Consumed
    <3>4. QED
      BY <2>1, <2>2, <3>1, <3>2, <3>3, SMTT(60)
  <2>8. Adds(sq', d) + Adds(cq', d) + One(kpoll'[d] # NoPoll) = One(x.armed)
    BY <1>2, <1>3, <1>6, <2>3, SMTT(60) DEF One
  <2>9. x.queued => ~x.armed
    BY <1>0, <1>7 DEF Consumed, CtxInv
  <2>10. QED
    BY <1>0, <1>5, <2>4, <2>5, <2>6, <2>7, <2>8, <2>9, CtxInvNext
<1>11. TotalInv' /\ StageInv'
  <2>1. Armed' = Armed
    BY DEF Armed
  <2>2. TotalInv'
    BY <1>0, <1>1, <2>1, ArmedFinite, SMTT(60) DEF TotalInv, TypeOK
  <2>3. QED
    BY <1>0, <2>2 DEF StageInv, Running
<1>12. pc' # "destroyed" /\ made' = made /\ MapKept(d) /\ x.src = ctx[d].src
  BY DEF MapKept, Consumed
<1>13. QED
  BY <1>9, <1>10, <1>11, <1>12, OneContext

\* The completion at the head of cq belongs to a context that was created and
\* has an operation to give up.
LEMMA HeadOfCq ==
  ASSUME Counting, IInv, pc # "destroyed", cq # <<>>
  PROVE  /\ Head(cq) \in Sqe /\ Head(cq).c \in Ctx /\ Head(cq).mask \in SUBSET Bits
         /\ ctx[Head(cq).c] \in Context
         /\ ctx[Head(cq).c].src \in Sources
         /\ ctx[Head(cq).c].pend - 1 \in Nat /\ ctx[Head(cq).c].refs - 1 \in Nat
<1>0. TypeOK /\ Running
  BY DEF IInv
<1>1. cq \in Seq(Sqe) /\ Head(cq) \in Sqe /\ Tail(cq) \in Seq(Sqe)
  BY <1>0, SMTT(60) DEF TypeOK
<1>2. PICK d \in Ctx : d = Head(cq).c
  BY <1>1 DEF Sqe
<1>3. Ops(cq, d) = Ops(Tail(cq), d) + 1 /\ Ops(Tail(cq), d) \in Nat
  BY <1>1, <1>2, OpsLaws DEF One
<1>4. CtxInv(d) /\ ctx[d] \in Context /\ Ops(sq, d) \in Nat
  BY <1>0, CountsAreNumbers DEF Running, TypeOK
<1>5. ctx[d].pend - 1 \in Nat
  BY <1>3, <1>4, SMTT(60) DEF CtxInv, One
<1>6. ctx[d].refs - 1 \in Nat
  BY <1>4, <1>5, SMTT(60) DEF CtxInv, One, Context
<1>7. ctx[d] # Blank
  BY <1>5, SMTT(60) DEF Blank
<1>8. ctx[d].src \in Sources
  BY <1>0, <1>4, <1>7, SMTT(60) DEF CtxInv, TypeOK, Ctx
<1>9. QED
  BY <1>1, <1>2, <1>4, <1>5, <1>6, <1>8, SMTT(60) DEF Sqe

-----------------------------------------------------------------------------
(* Application calls. *)

\* event_backend_add: a new context owned by ctx_map and its POLL_ADD.
LEMMA AddStep ==
  ASSUME Counting, IInv, NEW s \in Sources, NEW m \in SUBSET Bits, event_backend_add(s, m)
  PROVE  IInv'
<1>0. /\ TypeOK /\ Running /\ pc = "app" /\ pc' = "app" /\ ctx_map[s] = 0
      /\ made \in Nat /\ made < MaxCtx
  <2>1. TypeOK /\ pc = "app" /\ pc' = "app" /\ ctx_map[s] = 0 /\ made < MaxCtx
    BY DEF event_backend_add, AppRuns, IInv
  <2>2. QED
    BY <2>1, ConstantsOK, SMTT(60) DEF IInv, TypeOK
<1>d. PICK d \in Ctx : d = made + 1
  BY <1>0, ConstantsOK, SMTT(60) DEF Ctx
<1>1. /\ TypeOK /\ Running /\ pc = "app" /\ pc' = "app" /\ ctx_map[s] = 0
      /\ made \in Nat /\ d \in Ctx /\ made' = d /\ d = made + 1
  BY <1>0, <1>d DEF event_backend_add
<1>2. /\ sq' \in Seq(Sqe) /\ Len(sq') = Len(sq) + 1
      /\ total' = total + 1 /\ total' \in Nat
      /\ \A c \in Ctx :
           /\ Ops(sq', c) = Ops(sq, c) + One(c = d)
           /\ Adds(sq', c) = Adds(sq, c) + One(c = d)
  <2>1. Submit("add", d, m)
    BY <1>d DEF event_backend_add
  <2>2. QED
    BY <1>1, <2>1, SubmitLaws, SMTT(60) DEF One
<1>3. /\ UNCHANGED <<rearm, todo, kpoll, cq, events, calling, pc, fatal, left,
                     modified>>
      /\ ctx_map' = [ctx_map EXCEPT ![s] = d]
      /\ ctx' = [ctx EXCEPT ![d] =
               [src |-> s, sock |-> TRUE, mask |-> m, closing |-> FALSE,
                armed |-> TRUE, queued |-> FALSE, pend |-> 1, refs |-> 2]]
  BY <1>d DEF event_backend_add
<1>4. TypeOK'
  <2>1. ctx' \in [Ctx -> Context]
    BY <1>1, <1>3 DEF TypeOK, Context
  <2>2. ctx_map' \in [Sources -> 0 .. MaxCtx] /\ made' \in 0 .. MaxCtx
    BY <1>1, <1>3, ConstantsOK, SMTT(60) DEF TypeOK, Ctx
  <2>3. QED
    BY <1>1, <1>2, <1>3, <2>1, <2>2 DEF TypeOK
<1>5. ASSUME NEW c \in Ctx PROVE CtxInv(c)'
  <2>1. CtxInv(c) /\ MapInv
    BY <1>1 DEF Running
  <2>2. InMap(c)' <=> InMap(c) \/ c = d
    BY <1>1, <1>3, SMTT(60) DEF InMap, TypeOK, Ctx
  <2>3. CASE c # d
    <3>1. /\ ctx'[c] = ctx[c] /\ Ops(sq', c) = Ops(sq, c)
          /\ Adds(sq', c) = Adds(sq, c) /\ InMap(c)' = InMap(c)
      <4>1. ctx'[c] = ctx[c]
        BY <1>1, <1>3, <2>3 DEF TypeOK
      <4>2. Ops(sq, c) \in Nat /\ Adds(sq, c) \in Nat
        BY <1>1, CountsAreNumbers
      <4>3. Ops(sq', c) = Ops(sq, c) /\ Adds(sq', c) = Adds(sq, c)
        BY <1>2, <2>3, <4>2, SMTT(60) DEF One
      <4>4. InMap(c)' = InMap(c)
        BY <2>2, <2>3 DEF InMap
      <4>5. QED
        BY <4>1, <4>3, <4>4
    <3>2. (c > made' => c > made) /\ (c <= made' => c <= made)
      BY <1>1, <2>3, ConstantsOK, SMTT(60) DEF Ctx
    <3>3. QED
      BY <1>3, <2>1, <3>1, <3>2 DEF CtxInv, Polls
  <2>4. CASE c = d
    <3>1. ctx[c] = Blank /\ c > made /\ ~(c > made') /\ c <= made'
      BY <1>1, <2>1, <2>4, ConstantsOK, SMTT(60) DEF CtxInv, Ctx
    <3>2. /\ Ops(sq, c) = 0 /\ Ops(cq, c) = 0 /\ kpoll[c] = NoPoll
          /\ Adds(sq, c) = 0 /\ Adds(cq, c) = 0
          /\ Places(rearm, c) + Places(todo, c) = 0
      <4>1. /\ ctx[c].pend = 0 /\ ~ctx[c].queued /\ ~ctx[c].armed
        BY <3>1, SMTT(60) DEF Blank
      <4>2. /\ Ops(sq, c) \in Nat /\ Ops(cq, c) \in Nat
            /\ Adds(sq, c) \in Nat /\ Adds(cq, c) \in Nat
        BY <1>1, CountsAreNumbers
      <4>3. /\ Ops(sq, c) + Ops(cq, c) + One(kpoll[c] # NoPoll) = 0
            /\ Adds(sq, c) + Adds(cq, c) + One(kpoll[c] # NoPoll) = 0
            /\ Places(rearm, c) + Places(todo, c) = 0
        BY <2>1, <4>1 DEF CtxInv, One, Polls
      <4>4. One(kpoll[c] # NoPoll) \in 0 .. 1
            /\ (One(kpoll[c] # NoPoll) = 0 => kpoll[c] = NoPoll)
        BY SMTT(60) DEF One
      <4>5. QED
        BY <4>2, <4>3, <4>4, SMTT(60)
    <3>3. /\ ctx'[c].pend = 1 /\ ctx'[c].refs = 2 /\ ctx'[c].armed = TRUE
          /\ ctx'[c].queued = FALSE /\ ctx'[c].src = s
      BY <1>1, <1>3, <2>4 DEF TypeOK
    <3>4. Ops(sq', c) = 1 /\ Adds(sq', c) = 1 /\ InMap(c)'
      BY <1>2, <2>2, <2>4, <3>2, SMTT(60) DEF One
    <3>5. QED
      BY <1>3, <3>1, <3>2, <3>3, <3>4, SMTT(60) DEF CtxInv, Polls, One
  <2>5. QED
    BY <2>3, <2>4
<1>6. MapInv'
  <2>1. \A c \in 1 .. made : ctx'[c] = ctx[c] /\ c \in 1 .. made'
    BY <1>1, <1>3, SMTT(60) DEF TypeOK, Ctx
  <2>2. ctx'[d].src = s /\ d \in 1 .. made'
    BY <1>1, <1>3, SMTT(60) DEF TypeOK, Ctx
  <2>3. \A t \in Sources : ctx_map'[t] = IF t = s THEN d ELSE ctx_map[t]
    BY <1>1, <1>3 DEF TypeOK
  <2>4. QED
    BY <1>1, <2>1, <2>2, <2>3, SMTT(60) DEF MapInv, Running
<1>7. TotalInv' /\ StageInv' /\ DestroyFrees'
  <2>1. Armed' = Armed
    BY <1>3 DEF Armed
  <2>2. TotalInv'
    BY <1>1, <1>2, <1>3, <2>1, ArmedFinite, SMTT(60) DEF TotalInv, Running, TypeOK
  <2>3. QED
    BY <1>1, <1>3, <2>2 DEF StageInv, DestroyFrees, Running
<1>8. QED
  BY <1>4, <1>5, <1>6, <1>7 DEF IInv, Running
\* event_backend_modify of a context without a poll.
LEMMA ModifyIdleStep ==
  ASSUME Counting, IInv, NEW s \in Sources, NEW m \in SUBSET Bits, NEW ok \in BOOLEAN,
         AppRuns, modified' \in 0 .. MaxModify,
         ctx_map[s] # 0, ModifyIdle(ctx_map[s], m, ok),
         UNCHANGED <<made, ctx_map, todo, kpoll, cq, events, calling, pc, fatal,
                     left>>
  PROVE  IInv'
<1>0. TypeOK /\ Running /\ pc = "app" /\ pc' = "app"
  BY DEF AppRuns, IInv
<1>d. PICK d \in Ctx : d = ctx_map[s] /\ d <= made
  BY <1>0, Mapped
<1>g. PICK grew \in BOOLEAN : grew = (Queues(ctx[d], m) /\ ok)
  BY DEF Queues
<1> DEFINE x0 == [ctx[d] EXCEPT !.mask = m, !.queued = @ \/ grew,
                                !.refs = IF grew THEN @ + 1 ELSE @]
<1>1. TypeOK /\ Running /\ pc = "app" /\ pc' = "app" /\ d \in Ctx /\ d <= made
  BY <1>0, <1>d
<1>2. CtxInv(d) /\ ctx[d] \in Context /\ ~ctx[d].armed
  BY <1>1, <1>d DEF Running, TypeOK, ModifyIdle
<1>x. x0 \in Context
  <2>1. /\ (ctx[d].queued \/ grew) \in BOOLEAN
        /\ (IF grew THEN ctx[d].refs + 1 ELSE ctx[d].refs) \in Nat
    BY <1>2, SMTT(60) DEF Context
  <2>2. QED
    BY <1>2, <2>1 DEF Context
<1>6. PICK x \in Context : x = x0
  BY <1>x
<1>3. /\ ctx' = [ctx EXCEPT ![d] = x]
      /\ IF grew THEN Enqueue(d) ELSE rearm' = rearm
      /\ sq' = sq /\ total' = total
  BY <1>1, <1>2, <1>d, <1>g, <1>6 DEF ModifyIdle, TypeOK
<1>4. grew => ~ctx[d].queued
  BY <1>g DEF Queues
<1>5. /\ x.src = ctx[d].src /\ x.armed = ctx[d].armed
      /\ x.pend = ctx[d].pend /\ (x.queued <=> ctx[d].queued \/ grew)
      /\ x.refs = IF grew THEN ctx[d].refs + 1 ELSE ctx[d].refs
  BY <1>2, <1>6 DEF Context
<1>7. /\ rearm' \in Seq(Ctx)
      /\ \A c \in Ctx : Places(rearm', c) = Places(rearm, c) + One(c = d /\ grew)
  <2>1. CASE grew
    BY <1>1, <1>3, <2>1, EnqueueLaws DEF One
  <2>2. CASE ~grew
    BY <1>1, <1>3, <2>2, CountsAreNumbers, SMTT(60) DEF One, TypeOK
  <2>3. QED
    BY <2>1, <2>2
<1>8. TypeOK'
  <2>1. ctx' \in [Ctx -> Context]
    BY <1>1, <1>3, <1>6 DEF TypeOK
  <2>2. QED
    BY <1>1, <1>3, <1>7, <2>1 DEF TypeOK
<1>9. OthersKept(d)
  BY <1>1, <1>3, <1>7, CountsAreNumbers, SMTT(60) DEF OthersKept, One
<1>10. CtxInv(d)'
  <2>1. ctx'[d] = x /\ InMap(d)' = InMap(d)
    BY <1>1, <1>3 DEF TypeOK, InMap
  <2>2. Places(rearm', d) = Places(rearm, d) + One(grew)
    BY <1>1, <1>7 DEF One
  <2>3. Places(rearm', d) + Places(todo', d) = One(x.queued)
    <3>1. Places(rearm, d) \in Nat /\ Places(todo, d) \in Nat
      BY <1>1, CountsAreNumbers
    <3>2. Places(rearm, d) + Places(todo, d) = One(ctx[d].queued)
      BY <1>2 DEF CtxInv
    <3>3. todo' = todo
      OBVIOUS
    <3>4. One(x.queued) = One(ctx[d].queued) + One(grew)
      BY <1>4, <1>5, SMTT(60) DEF One
    <3>5. QED
      BY <2>2, <3>1, <3>2, <3>3, <3>4, SMTT(60) DEF One
  <2>4. x.refs = One(InMap(d)) + x.pend + One(x.queued)
    BY <1>1, <1>2, <1>4, <1>5, <1>6, SMTT(60) DEF CtxInv, One, Context
  <2>5. QED
    BY <1>1, <1>2, <1>3, <1>6, <2>1, <2>3, <2>4, SMTT(60) DEF CtxInv, Polls, Ctx, TypeOK
<1>11. TotalInv' /\ StageInv'
  BY <1>1, <1>3 DEF TotalInv, StageInv, Armed, Running
<1>12. /\ pc # "destroyed" /\ pc' # "destroyed" /\ made' = made
       /\ MapKept(d)
  BY <1>1 DEF MapKept
<1>13. QED
  BY <1>3, <1>5, <1>8, <1>9, <1>10, <1>11, <1>12, OneContext

\* event_backend_modify of a context with a poll: a POLL_UPDATE is handed over.
LEMMA ModifyArmedStep ==
  ASSUME Counting, IInv, NEW s \in Sources, NEW m \in SUBSET Bits,
         AppRuns, modified' \in 0 .. MaxModify,
         ctx_map[s] # 0, ModifyArmed(ctx_map[s], m),
         UNCHANGED <<made, ctx_map, todo, kpoll, cq, events, calling, pc, fatal,
                     left>>
  PROVE  IInv'
<1>0. TypeOK /\ Running /\ pc = "app" /\ pc' = "app"
  BY DEF AppRuns, IInv
<1>d. PICK d \in Ctx : d = ctx_map[s] /\ d <= made
  BY <1>0, Mapped
<1>1. /\ CtxInv(d) /\ ctx[d] \in Context /\ ctx[d].armed
      /\ ctx' = [ctx EXCEPT ![d].mask = m, ![d].refs = @ + 1, ![d].pend = @ + 1]
      /\ Submit("update", d, m) /\ rearm' = rearm
  BY <1>0, <1>d DEF Running, TypeOK, ModifyArmed, UpdateMask
<1> DEFINE x0 == [ctx[d] EXCEPT !.mask = m, !.refs = @ + 1, !.pend = @ + 1]
<1>2. x0 \in Context
  <2>1. ctx[d].refs + 1 \in Nat /\ ctx[d].pend + 1 \in Nat
    BY <1>1, SMTT(60) DEF Context
  <2>2. QED
    BY <1>1, <2>1 DEF Context
<1>3. PICK x \in Context : x = x0
  BY <1>2
<1>4. /\ ctx' = [ctx EXCEPT ![d] = x] /\ ctx'[d] = x
  BY <1>0, <1>1, <1>3 DEF TypeOK
<1>5. /\ x.src = ctx[d].src /\ (x.armed <=> ctx[d].armed)
      /\ x.pend = ctx[d].pend + 1 /\ (x.queued <=> ctx[d].queued)
      /\ x.refs = ctx[d].refs + 1
  BY <1>1, <1>3 DEF Context
<1>6. /\ sq' \in Seq(Sqe) /\ Len(sq') = Len(sq) + 1
      /\ total' = total + 1 /\ total' \in Nat
      /\ \A c \in Ctx : /\ Ops(sq', c) = Ops(sq, c) + One(c = d)
                        /\ Adds(sq', c) = Adds(sq, c) + One(FALSE)
  BY <1>0, <1>1, SubmitLaws, SMTT(60) DEF One
<1>7. TypeOK'
  <2>1. ctx' \in [Ctx -> Context]
    BY <1>0, <1>4 DEF TypeOK
  <2>2. QED
    BY <1>0, <1>1, <1>6, <2>1 DEF TypeOK
<1>8. OthersKept(d)
  BY <1>0, <1>1, <1>6, CountsAreNumbers, SMTT(60) DEF OthersKept, One
<1>9. CtxInv(d)'
  <2>1. One(InMap(d)') = One(InMap(d))
    BY DEF InMap, One
  <2>2. /\ Ops(sq', d) = Ops(sq, d) + 1 /\ Adds(sq', d) = Adds(sq, d)
        /\ Ops(sq, d) \in Nat /\ Ops(cq, d) \in Nat
    BY <1>0, <1>6, CountsAreNumbers, SMTT(60) DEF One
  <2>3. x.pend = Ops(sq', d) + Ops(cq, d) + One(kpoll[d] # NoPoll)
    BY <1>1, <1>5, <2>2, SMTT(60) DEF CtxInv, One
  <2>4. x.refs = One(InMap(d)) + x.pend + One(x.queued)
    BY <1>1, <1>5, SMTT(60) DEF CtxInv, One, Context
  <2>5. Polls(d)' = Polls(d)
    BY <1>1, <2>2 DEF Polls
  <2>6. One(x.queued) = One(ctx[d].queued) /\ One(x.armed) = One(ctx[d].armed)
    BY <1>5 DEF One
  <2>7. Places(rearm', d) + Places(todo', d) = One(x.queued)
    BY <1>1, <2>6 DEF CtxInv
  <2>8. /\ x.pend = Ops(sq', d) + Ops(cq', d) + One(kpoll'[d] # NoPoll)
        /\ x.refs = One(InMap(d)') + x.pend + One(x.queued)
    BY <2>1, <2>3, <2>4
  <2>9. /\ Adds(sq', d) + Adds(cq', d) + One(kpoll'[d] # NoPoll) = One(x.armed)
        /\ x.queued => ~x.armed
    BY <1>1, <1>5, <2>5, <2>6 DEF CtxInv, Polls
  <2>10. QED
    BY <1>0, <1>d, <1>4, <1>5, <2>7, <2>8, <2>9, CtxInvNext
<1>10. TotalInv' /\ StageInv'
  <2>1. Armed' = Armed
    BY DEF Armed
  <2>2. TotalInv'
    BY <1>0, <1>6, <2>1, ArmedFinite, SMTT(60) DEF TotalInv, Running, TypeOK
  <2>3. QED
    BY <1>0, <2>2 DEF StageInv, Running
<1>11. /\ pc # "destroyed" /\ pc' # "destroyed" /\ made' = made
       /\ MapKept(d)
  BY <1>0 DEF MapKept
<1>12. QED
  BY <1>4, <1>5, <1>7, <1>8, <1>9, <1>10, <1>11, OneContext

\* event_backend_remove and event_backend_remove_timer: ctx_map gives up the
\* context; an armed poll gets a POLL_REMOVE.
LEMMA DetachStep ==
  ASSUME Counting, IInv, NEW s \in Sources, Detach(s), UNCHANGED pc,
         pc # "destroyed", pc # "cancel", left' \subseteq left
  PROVE  IInv'
<1>0. TypeOK /\ Running /\ ctx_map[s] # 0
  BY DEF IInv, Detach
<1>d. PICK d \in Ctx : d = ctx_map[s] /\ d <= made
  BY <1>0, Mapped
<1>1. /\ CtxInv(d) /\ ctx[d] \in Context
      /\ ctx' = [ctx EXCEPT ![d] = Detached(ctx[d])]
      /\ IF ctx[d].armed THEN Submit("remove", d, {})
                         ELSE sq' = sq /\ total' = total
      /\ ctx_map' = [ctx_map EXCEPT ![s] = 0]
      /\ UNCHANGED <<made, rearm, todo, kpoll, cq, events, calling, fatal,
                     modified>>
  BY <1>0, <1>d DEF Running, TypeOK, Detach
<1>2. InMap(d) /\ ctx[d].refs = 1 + ctx[d].pend + One(ctx[d].queued)
  <2>1. InMap(d)
    BY <1>0, <1>d, Mapped
  <2>2. QED
    BY <1>1, <2>1 DEF CtxInv, One, Context
<1>3. ctx[d].refs - 1 \in Nat
  BY <1>1, <1>2, SMTT(60) DEF Context, One
<1>4. Detached(ctx[d]) \in Context
  <2>1. (ctx[d].src \in Timers) \in BOOLEAN
    BY SMTT(60)
  <2>2. (IF ctx[d].armed THEN ctx[d].pend + 1 ELSE ctx[d].pend) \in Nat
    BY <1>1, SMTT(60) DEF Context
  <2>3. (IF ctx[d].armed THEN ctx[d].refs ELSE ctx[d].refs - 1) \in Nat
    BY <1>1, <1>3 DEF Context
  <2>4. QED
    BY <1>1, <2>1, <2>2, <2>3 DEF Detached, Context
<1>5. PICK x \in Context : x = Detached(ctx[d])
  BY <1>4
<1>6. /\ x.src = ctx[d].src /\ (x.armed <=> ctx[d].armed)
      /\ (x.queued <=> ctx[d].queued)
      /\ x.pend = ctx[d].pend + One(ctx[d].armed)
      /\ x.refs = ctx[d].refs - 1 + One(ctx[d].armed)
  BY <1>1, <1>5, SMTT(60) DEF Detached, Context, One
<1>7. ctx' = [ctx EXCEPT ![d] = x] /\ ctx'[d] = x
  BY <1>0, <1>1, <1>5 DEF TypeOK
<1>8. /\ sq' \in Seq(Sqe) /\ Len(sq') = Len(sq) + One(ctx[d].armed)
      /\ total' = total + One(ctx[d].armed) /\ total' \in Nat
      /\ \A c \in Ctx : /\ Ops(sq', c) = Ops(sq, c) + One(c = d /\ ctx[d].armed)
                        /\ Adds(sq', c) = Adds(sq, c)
  <2>1. CASE ctx[d].armed
    <3>1. Submit("remove", d, {})
      BY <1>1, <2>1
    <3>2. /\ sq' \in Seq(Sqe) /\ Len(sq') = Len(sq) + 1
          /\ total' = total + 1 /\ total' \in Nat
          /\ \A c \in Ctx : /\ Ops(sq', c) = Ops(sq, c) + One(c = d)
                            /\ Adds(sq', c) = Adds(sq, c) + One(FALSE)
      BY <1>0, <3>1, SubmitLaws, SMTT(60) DEF One
    <3>3. QED
      BY <1>0, <2>1, <3>2, CountsAreNumbers, SMTT(60) DEF One
  <2>2. CASE ~ctx[d].armed
    BY <1>0, <1>1, <2>2, CountsAreNumbers, SMTT(60) DEF One, TypeOK
  <2>3. QED
    BY <2>1, <2>2
<1>9. TypeOK'
  <2>1. ctx' \in [Ctx -> Context]
    BY <1>0, <1>7 DEF TypeOK
  <2>2. ctx_map' \in [Sources -> 0 .. MaxCtx] /\ left' \subseteq Sources
    BY <1>0, <1>1, ConstantsOK, SMTT(60) DEF TypeOK
  <2>3. QED
    BY <1>0, <1>1, <1>8, <2>1, <2>2 DEF TypeOK
<1>10. OthersKept(d)
  BY <1>0, <1>1, <1>8, CountsAreNumbers, SMTT(60) DEF OthersKept, One
<1>11. CtxInv(d)'
  <2>1. ~InMap(d)'
    <3>1. \A t \in Sources : ctx_map[t] = d => t = s
      BY <1>0, <1>d, Mapped
    <3>2. QED
      BY <1>0, <1>1, <3>1, SMTT(60) DEF InMap, TypeOK, Ctx
  <2>2. /\ Ops(sq', d) = Ops(sq, d) + One(ctx[d].armed)
        /\ Adds(sq', d) = Adds(sq, d)
        /\ Ops(sq, d) \in Nat /\ Ops(cq, d) \in Nat
    BY <1>0, <1>8, CountsAreNumbers DEF One
  <2>3. x.pend = Ops(sq', d) + Ops(cq, d) + One(kpoll[d] # NoPoll)
    BY <1>1, <1>6, <2>2, SMTT(60) DEF CtxInv, One
  <2>4. One(x.queued) = One(ctx[d].queued) /\ One(x.armed) = One(ctx[d].armed)
    BY <1>6 DEF One
  <2>5. x.refs = x.pend + One(x.queued)
    BY <1>1, <1>2, <1>6, <2>4, SMTT(60) DEF One, Context
  <2>6. Polls(d)' = Polls(d)
    BY <1>1, <2>2 DEF Polls
  <2>7. One(InMap(d)') = 0 /\ x.pend \in Nat /\ One(x.queued) \in Nat
    BY <2>1 DEF One, Context
  <2>8. QED
    BY <1>0, <1>1, <1>d, <1>6, <1>7, <2>3, <2>4, <2>5, <2>6, <2>7, SMTT(60) DEF CtxInv, Ctx,
       TypeOK
<1>12. TotalInv' /\ StageInv'
  <2>1. Armed' = Armed
    BY <1>1 DEF Armed
  <2>2. TotalInv'
    BY <1>0, <1>1, <1>8, <2>1, ArmedFinite, SMTT(60) DEF TotalInv, Running, TypeOK, One
  <2>3. QED
    BY <1>0, <1>1, <2>2 DEF StageInv, Running
<1>13. pc' # "destroyed" /\ made' = made /\ MapKept(d)
  BY <1>0, <1>1, <1>d DEF MapKept, TypeOK
<1>14. QED
  BY <1>6, <1>7, <1>9, <1>10, <1>11, <1>12, <1>13, OneContext

-----------------------------------------------------------------------------
(* event_backend_wait. *)

\* The re-arm queue becomes the work list of the wait.
LEMMA WaitBeginStep ==
  ASSUME Counting, IInv, WaitBegin
  PROVE  IInv'
<1>1. /\ TypeOK /\ Running /\ pc = "app" /\ pc' = "rearm" /\ todo = <<>>
      /\ todo' = rearm /\ rearm' = todo /\ fatal' = "none"
      /\ UNCHANGED <<ctx, made, ctx_map, total, sq, kpoll, cq, events, calling,
                     left, modified>>
  BY DEF IInv, WaitBegin, Running, StageInv
<1>2. TypeOK'
  BY <1>1 DEF TypeOK
<1>3. ASSUME NEW c \in Ctx PROVE CtxInv(c)'
  <2>1. CtxInv(c)
    BY <1>1 DEF Running
  <2>2. /\ Places(rearm', c) + Places(todo', c) = Places(rearm, c) + Places(todo, c)
    BY <1>1, CountsAreNumbers, SMTT(60)
  <2>3. One(InMap(c)') = One(InMap(c)) /\ Polls(c)' = Polls(c)
    BY <1>1 DEF InMap, Polls, One
  <2>4. QED
    BY <1>1, <2>1, <2>2, <2>3 DEF CtxInv
<1>4. MapInv'
  BY <1>1 DEF Running, MapInv
<1>5. Armed' = Armed
  BY <1>1 DEF Armed
<1>6. TotalInv' /\ StageInv' /\ DestroyFrees'
  BY <1>1, <1>5 DEF Running, TotalInv, StageInv, DestroyFrees
<1>7. QED
  BY <1>2, <1>3, <1>4, <1>6 DEF IInv, Running

\* One entry of the re-arm queue.
LEMMA RearmEntryStep ==
  ASSUME Counting, IInv, NEW ok \in BOOLEAN, RearmStep(ok)
  PROVE  IInv'
<1>0. /\ TypeOK /\ Running /\ pc = "rearm" /\ pc' = "rearm" /\ todo # <<>>
      /\ todo' = Tail(todo) /\ todo \in Seq(Ctx)
      /\ UNCHANGED <<made, ctx_map, kpoll, cq, events, calling, left, modified>>
  BY DEF IInv, RearmStep, TypeOK
<1>d. PICK d \in Ctx : d = Head(todo)
  BY <1>0, SMTT(60)
<1>w. PICK wanted \in BOOLEAN : wanted = (~ctx[d].closing /\ ctx[d].mask # {})
  OBVIOUS
<1>p. PICK poll \in BOOLEAN : poll = (wanted /\ GotSqe)
  BY DEF GotSqe
<1>a. PICK again \in BOOLEAN : again = (wanted /\ Requeues(ok))
  BY DEF Requeues
<1>1. /\ ctx' = [ctx EXCEPT ![d].queued = again,
                            ![d].armed = @ \/ poll,
                            ![d].pend = IF poll THEN @ + 1 ELSE @,
                            ![d].refs = IF poll \/ again THEN @ ELSE @ - 1]
      /\ IF poll THEN Submit("add", d, ctx[d].mask)
                 ELSE sq' = sq /\ total' = total
      /\ IF again THEN Enqueue(d) ELSE rearm' = rearm
      /\ fatal' \in {"ENOMEM", fatal}
  BY <1>d, <1>w, <1>p, <1>a DEF RearmStep
<1>2. ~(poll /\ again)
  BY <1>p, <1>a DEF Requeues
<1>3. CtxInv(d) /\ ctx[d] \in Context
  BY <1>0 DEF Running, TypeOK
<1>4. /\ todo' \in Seq(Ctx)
      /\ \A c \in Ctx : /\ Places(todo', c) \in Nat
                        /\ Places(todo, c) = Places(todo', c) + One(c = d)
  <2>1. todo' \in Seq(Ctx)
    BY <1>0, SMTT(60)
  <2>2. ASSUME NEW c \in Ctx
        PROVE  /\ Places(todo', c) \in Nat
               /\ Places(todo, c) = Places(todo', c) + One(c = d)
    <3>1. Places(todo, c) = Places(Tail(todo), c) + One(Head(todo) = c)
      BY <1>0, PlacesLaws, SMTT(60)
    <3>2. Places(todo', c) \in Nat
      BY <2>1, PlacesLaws
    <3>3. QED
      BY <1>0, <1>d, <3>1, <3>2 DEF One
  <2>3. QED
    BY <2>1, <2>2
<1>5. /\ ctx[d].queued /\ ~ctx[d].armed
      /\ Places(rearm, d) = 0 /\ Places(todo', d) = 0
      /\ ctx[d].refs = One(InMap(d)) + ctx[d].pend + 1
  <2>1. Places(todo, d) = Places(todo', d) + 1 /\ Places(todo', d) \in Nat
    BY <1>4 DEF One
  <2>2. Places(rearm, d) \in Nat
    BY <1>0, CountsAreNumbers
  <2>3. /\ Places(rearm, d) + Places(todo, d) = One(ctx[d].queued)
        /\ ctx[d].queued => ~ctx[d].armed
        /\ ctx[d].refs = One(InMap(d)) + ctx[d].pend + One(ctx[d].queued)
    BY <1>3 DEF CtxInv
  <2>4. ctx[d].queued
    BY <2>1, <2>2, <2>3, SMTT(60) DEF One
  <2>5. QED
    BY <2>1, <2>2, <2>3, <2>4, SMTT(60) DEF One
<1>6. d <= made
  <2>1. ctx[d] # Blank
    BY <1>5, SMTT(60) DEF Blank
  <2>2. QED
    BY <1>0, <1>3, <2>1, SMTT(60) DEF CtxInv, Ctx, TypeOK
<1> DEFINE x0 == [ctx[d] EXCEPT !.queued = again, !.armed = @ \/ poll,
                                !.pend = IF poll THEN @ + 1 ELSE @,
                                !.refs = IF poll \/ again THEN @ ELSE @ - 1]
<1>7. x0 \in Context
  <2>1. (IF poll THEN ctx[d].pend + 1 ELSE ctx[d].pend) \in Nat
    BY <1>3, SMTT(60) DEF Context
  <2>2. (IF poll \/ again THEN ctx[d].refs ELSE ctx[d].refs - 1) \in Nat
    BY <1>3, <1>5, SMTT(60) DEF Context, One
  <2>3. (ctx[d].armed \/ poll) \in BOOLEAN
    OBVIOUS
  <2>4. QED
    BY <1>3, <2>1, <2>2, <2>3 DEF Context
<1>8. PICK x \in Context : x = x0
  BY <1>7
<1>9. ctx' = [ctx EXCEPT ![d] = x] /\ ctx'[d] = x
  BY <1>0, <1>1, <1>8 DEF TypeOK
<1>10. /\ x.src = ctx[d].src /\ (x.armed <=> poll) /\ (x.queued <=> again)
       /\ x.pend = ctx[d].pend + One(poll)
       /\ x.refs = ctx[d].refs - 1 + One(poll) + One(again)
  <2>1. /\ x.src = ctx[d].src /\ (x.armed <=> ctx[d].armed \/ poll)
        /\ (x.queued <=> again)
        /\ x.pend = (IF poll THEN ctx[d].pend + 1 ELSE ctx[d].pend)
        /\ x.refs = (IF poll \/ again THEN ctx[d].refs ELSE ctx[d].refs - 1)
    BY <1>3, <1>8, SMTT(60) DEF Context
  <2>2. QED
    BY <1>2, <1>3, <1>5, <2>1, SMTT(60) DEF One, Context
<1>11. /\ sq' \in Seq(Sqe) /\ Len(sq') = Len(sq) + One(poll)
       /\ total' = total + One(poll) /\ total' \in Nat
       /\ \A c \in Ctx : /\ Ops(sq', c) = Ops(sq, c) + One(c = d /\ poll)
                         /\ Adds(sq', c) = Adds(sq, c) + One(c = d /\ poll)
  <2>1. CASE poll
    <3>1. Submit("add", d, ctx[d].mask) /\ ctx[d].mask \in SUBSET Bits
      BY <1>1, <1>3, <2>1 DEF Context
    <3>2. /\ sq' \in Seq(Sqe) /\ Len(sq') = Len(sq) + 1
          /\ total' = total + 1 /\ total' \in Nat
          /\ \A c \in Ctx : /\ Ops(sq', c) = Ops(sq, c) + One(c = d)
                            /\ Adds(sq', c) = Adds(sq, c) + One(c = d)
      BY <1>0, <3>1, SubmitLaws, SMTT(60) DEF One
    <3>3. QED
      BY <2>1, <3>2 DEF One
  <2>2. CASE ~poll
    <3>1. /\ sq' = sq /\ total' = total /\ One(poll) = 0
          /\ sq \in Seq(Sqe) /\ total \in Nat
      BY <1>0, <1>1, <2>2 DEF One, TypeOK
    <3>2. \A c \in Ctx : /\ Ops(sq, c) \in Nat /\ Adds(sq, c) \in Nat
                         /\ One(c = d /\ poll) = 0
      BY <1>0, <2>2, CountsAreNumbers DEF One
    <3>3. QED
      BY <3>1, <3>2, SMTT(60)
  <2>3. QED
    BY <2>1, <2>2
<1>12. /\ rearm' \in Seq(Ctx)
       /\ \A c \in Ctx : Places(rearm', c) = Places(rearm, c) + One(c = d /\ again)
  <2>1. CASE again
    BY <1>0, <1>1, <2>1, EnqueueLaws DEF One
  <2>2. CASE ~again
    BY <1>0, <1>1, <2>2, CountsAreNumbers, SMTT(60) DEF One, TypeOK
  <2>3. QED
    BY <2>1, <2>2
<1>13. TypeOK'
  <2>1. ctx' \in [Ctx -> Context]
    BY <1>0, <1>9 DEF TypeOK
  <2>2. QED
    BY <1>0, <1>1, <1>4, <1>11, <1>12, <2>1 DEF TypeOK
<1>14. OthersKept(d)
  BY <1>0, <1>4, <1>11, <1>12, CountsAreNumbers, SMTT(60) DEF OthersKept, One
<1>15. CtxInv(d)'
  <2>1. One(InMap(d)') = One(InMap(d)) /\ One(InMap(d)) \in Nat
    BY <1>0 DEF InMap, One
  <2>2. One(x.queued) = One(again) /\ One(x.armed) = One(poll)
    BY <1>10 DEF One
  <2>3. /\ Ops(sq', d) = Ops(sq, d) + One(poll)
        /\ Adds(sq', d) = Adds(sq, d) + One(poll)
        /\ Places(rearm', d) = Places(rearm, d) + One(again)
    BY <1>11, <1>12 DEF One
  <2>4. Ops(sq, d) \in Nat /\ Ops(cq, d) \in Nat /\ Adds(sq, d) \in Nat
        /\ Adds(cq, d) \in Nat
    BY <1>0, CountsAreNumbers
  <2>5. x.pend = Ops(sq', d) + Ops(cq', d) + One(kpoll'[d] # NoPoll)
    BY <1>0, <1>3, <1>10, <2>3, <2>4, SMTT(60) DEF CtxInv, One
  <2>6. Places(rearm', d) + Places(todo', d) = One(x.queued)
    BY <1>5, <2>2, <2>3, SMTT(60) DEF One
  <2>7. x.refs = One(InMap(d)') + x.pend + One(x.queued)
    BY <1>3, <1>5, <1>10, <2>1, <2>2, SMTT(60) DEF One, Context
  <2>8. Adds(sq', d) + Adds(cq', d) + One(kpoll'[d] # NoPoll) = One(x.armed)
    <3>1. Adds(sq, d) + Adds(cq, d) + One(kpoll[d] # NoPoll) = 0
      BY <1>3, <1>5 DEF CtxInv, Polls, One
    <3>2. QED
      BY <1>0, <2>2, <2>3, <2>4, <3>1, SMTT(60) DEF One
  <2>9. x.queued => ~x.armed
    BY <1>2, <1>10
  <2>10. QED
    BY <1>0, <1>6, <1>9, <1>10, <2>5, <2>6, <2>7, <2>8, <2>9, CtxInvNext
<1>16. TotalInv' /\ StageInv'
  <2>1. Armed' = Armed
    BY <1>0 DEF Armed
  <2>2. TotalInv'
    BY <1>0, <1>11, <2>1, ArmedFinite, SMTT(60) DEF TotalInv, Running, TypeOK, One
  <2>3. QED
    BY <1>0, <2>2 DEF StageInv, Running
<1>17. pc # "destroyed" /\ pc' # "destroyed" /\ made' = made /\ MapKept(d)
  BY <1>0 DEF MapKept
<1>18. QED
  BY <1>9, <1>10, <1>13, <1>14, <1>15, <1>16, <1>17, OneContext

\* event_backend_wait takes a completion.
LEMMA ReapStep ==
  ASSUME Counting, IInv, NEW ok \in BOOLEAN, Reap(ok)
  PROVE  IInv'
<1>0. /\ TypeOK /\ Running /\ pc = "reap" /\ pc' = pc /\ cq # <<>>
      /\ cq' = Tail(cq) /\ total' = total - 1
      /\ UNCHANGED <<made, ctx_map, todo, sq, kpoll, calling, left, modified>>
  BY DEF IInv, Reap
<1>1. /\ Head(cq) \in Sqe /\ Head(cq).c \in Ctx /\ Head(cq).mask \in SUBSET Bits
      /\ ctx[Head(cq).c] \in Context
      /\ ctx[Head(cq).c].src \in Sources
      /\ ctx[Head(cq).c].pend - 1 \in Nat /\ ctx[Head(cq).c].refs - 1 \in Nat
  BY <1>0, HeadOfCq
<1>d. PICK d \in Ctx : d = Head(cq).c
  BY <1>1
<1>a. PICK add \in BOOLEAN : add = (Head(cq).op = "add")
  OBVIOUS
<1>q. PICK queue \in BOOLEAN :
        queue = ((add /\ ~ctx[d].closing) /\ Queues(ctx[d], ctx[d].mask))
  BY DEF Queues
<1>g. PICK grew \in BOOLEAN : grew = (queue /\ ok)
  OBVIOUS
<1>2. /\ ctx' = [ctx EXCEPT ![d] = Reaped(ctx[d], add, grew)]
      /\ events' \in {events, Append(events, [src |-> ctx[d].src, c |-> d,
                                              mask |-> Head(cq).mask])}
      /\ IF grew THEN Enqueue(d) ELSE rearm' = rearm
      /\ fatal' \in {"ENOMEM", fatal}
  BY <1>d, <1>a, <1>q, <1>g DEF Reap
<1>3. grew => add
  BY <1>q, <1>g
<1>4. Reaped(ctx[d], add, grew) \in Context
  <2>1. (IF grew THEN ctx[d].refs ELSE ctx[d].refs - 1) \in Nat
    BY <1>1, <1>d DEF Context
  <2>2. (ctx[d].armed /\ ~add) \in BOOLEAN /\ (ctx[d].queued \/ grew) \in BOOLEAN
    OBVIOUS
  <2>3. QED
    BY <1>1, <1>d, <2>1, <2>2 DEF Reaped, Context
<1>5. PICK x \in Context : x = Reaped(ctx[d], add, grew)
  BY <1>4
<1>6. Consumed(d, add, grew, x)
  <2>1. /\ x.src = ctx[d].src /\ (x.armed <=> ctx[d].armed /\ ~add)
        /\ (x.queued <=> ctx[d].queued \/ grew)
        /\ x.pend = ctx[d].pend - 1
        /\ x.refs = (IF grew THEN ctx[d].refs ELSE ctx[d].refs - 1)
    BY <1>1, <1>d, <1>5 DEF Reaped, Context
  <2>2. ctx[d].refs \in Nat
    BY <1>1, <1>d DEF Context
  <2>3. QED
    BY <2>1, <2>2, SMTT(60) DEF Consumed, One
<1>7. ctx' = [ctx EXCEPT ![d] = x]
  BY <1>2, <1>5
<1>8. TypeOK'
  <2>1. ctx' \in [Ctx -> Context]
    BY <1>0, <1>7 DEF TypeOK
  <2>2. cq' \in Seq(Sqe) /\ total' \in Nat
    BY <1>0, ConsumeLaws DEF Running
  <2>3. [src |-> ctx[d].src, c |-> d, mask |-> Head(cq).mask] \in Event
    BY <1>1, <1>d DEF Event
  <2>4. events' \in Seq(Event)
    <3>1. PICK v \in Event :
            v = [src |-> ctx[d].src, c |-> d, mask |-> Head(cq).mask]
      BY <2>3
    <3>2. events \in Seq(Event) /\ (events' = events \/ events' = Append(events, v))
      BY <1>0, <1>2, <3>1 DEF TypeOK
    <3>3. QED
      BY <3>2, SMTT(60)
  <2>5. rearm' \in Seq(Ctx)
    BY <1>0, <1>2, EnqueueLaws DEF TypeOK
  <2>6. QED
    BY <1>0, <1>2, <2>1, <2>2, <2>4, <2>5 DEF TypeOK
<1>9. pc # "destroyed" /\ UNCHANGED <<made, ctx_map, todo, sq, kpoll, left>>
  BY <1>0
<1>10. IF grew THEN Enqueue(d) ELSE rearm' = rearm
  BY <1>2
<1>11. QED
  BY <1>0, <1>3, <1>6, <1>7, <1>8, <1>9, <1>10, <1>d, <1>a, ConsumeStep

-----------------------------------------------------------------------------
(* event_backend_destroy. *)

\* Phase 1.
LEMMA MarkStep ==
  ASSUME IInv, DestroyMark
  PROVE  IInv'
<1>0. /\ TypeOK /\ Running /\ pc = "timers" /\ pc' = "cancel"
      /\ left' = {s \in Sources : ctx_map[s] # 0}
      /\ ctx' = [c \in Ctx |-> [ctx[c] EXCEPT !.closing =
                                  @ \/ \E s \in Sources : ctx_map[s] = c]]
      /\ UNCHANGED <<made, ctx_map, rearm, todo, total, sq, kpoll, cq, events,
                     calling, fatal, modified>>
  BY DEF IInv, DestroyMark
<1>1. ASSUME NEW c \in Ctx
      PROVE  /\ ctx'[c] \in Context /\ ctx'[c].src = ctx[c].src
             /\ ctx'[c].pend = ctx[c].pend /\ ctx'[c].refs = ctx[c].refs
             /\ ctx'[c].armed = ctx[c].armed /\ ctx'[c].queued = ctx[c].queued
             /\ ~InMap(c) => ctx'[c] = ctx[c]
  <2>1. ctx'[c] = [ctx[c] EXCEPT !.closing = @ \/ InMap(c)] /\ ctx[c] \in Context
    BY <1>0 DEF InMap, TypeOK
  <2>2. (ctx[c].closing \/ InMap(c)) \in BOOLEAN /\ ctx[c].closing \in BOOLEAN
    BY <2>1 DEF InMap, Context
  <2>3. ~InMap(c) => (ctx[c].closing \/ InMap(c)) = ctx[c].closing
    BY <2>2
  <2>4. PICK b \in BOOLEAN : b = (ctx[c].closing \/ InMap(c))
    BY <2>2
  <2>5. ctx'[c] = [ctx[c] EXCEPT !.closing = b]
    BY <2>1, <2>4
  <2>6. ~InMap(c) => b = ctx[c].closing
    BY <2>3, <2>4
  <2>7. QED
    BY <2>1, <2>5, <2>6, SMTT(60) DEF Context
<1>2. TypeOK'
  <2>1. ctx' \in [Ctx -> Context]
    BY <1>0, <1>1
  <2>2. QED
    BY <1>0, <2>1 DEF TypeOK
<1>3. ASSUME NEW c \in Ctx PROVE CtxInv(c)'
  <2>1. CtxInv(c)
    BY <1>0 DEF Running
  <2>2. One(InMap(c)') = One(InMap(c)) /\ Polls(c)' = Polls(c)
    BY <1>0 DEF InMap, Polls, One
  <2>3. ASSUME c > made PROVE ~InMap(c)
    <3>1. made \in Nat /\ c \in Nat \ {0}
      BY <1>0, ConstantsOK, SMTT(60) DEF TypeOK, Ctx
    <3>2. ASSUME NEW t \in Sources, ctx_map[t] = c PROVE FALSE
      <4>1. c \in 1 .. made
        BY <1>0, <3>1, <3>2 DEF Running, MapInv
      <4>2. QED
        BY <2>3, <3>1, <4>1, SMTT(60)
    <3>3. QED
      BY <3>2 DEF InMap
  <2>4. QED
    BY <1>0, <1>1, <2>1, <2>2, <2>3 DEF CtxInv
<1>4. MapInv'
  <2>1. \A t \in Sources : ctx_map[t] # 0 => ctx_map[t] \in Ctx
    BY <1>0, ConstantsOK, SMTT(60) DEF TypeOK, Ctx
  <2>2. QED
    BY <1>0, <1>1, <2>1, SMTT(60) DEF Running, MapInv
<1>5. Armed' = Armed
  BY <1>0 DEF Armed
<1>6. TotalInv' /\ StageInv' /\ DestroyFrees'
  BY <1>0, <1>5 DEF Running, TotalInv, StageInv, DestroyFrees
<1>7. QED
  BY <1>2, <1>3, <1>4, <1>6 DEF IInv, Running

\* Phase 2: a POLL_REMOVE for a poll that is armed.
LEMMA CancelStep ==
  ASSUME Counting, IInv, NEW s \in Sources, DestroyCancel(s)
  PROVE  IInv'
<1>0. /\ TypeOK /\ Running /\ pc = "cancel" /\ pc' = "cancel" /\ s \in left
      /\ left' = left \ {s} /\ ctx_map[s] # 0
      /\ UNCHANGED <<made, ctx_map, rearm, todo, kpoll, cq, events, calling,
                     fatal, modified>>
  BY DEF IInv, DestroyCancel, Running, StageInv
<1>d. PICK d \in Ctx : d = ctx_map[s] /\ d <= made
  BY <1>0, Mapped
<1>k. PICK cancel \in BOOLEAN : cancel = (ctx[d].armed /\ GotSqe)
  BY DEF GotSqe
<1>1. /\ CtxInv(d) /\ ctx[d] \in Context
      /\ ctx' = [ctx EXCEPT ![d] = IF cancel THEN Cancelled(ctx[d]) ELSE ctx[d]]
      /\ IF cancel THEN Submit("remove", d, {}) ELSE sq' = sq /\ total' = total
  BY <1>0, <1>d, <1>k DEF Running, TypeOK, DestroyCancel
<1>2. StageInv'
  BY <1>0 DEF StageInv, Running
<1>3. CASE ~cancel
  <2>1. Quiet
    BY <1>0, <1>1, <1>3 DEF Quiet, TypeOK
  <2>2. TypeOK'
    BY <1>0, <2>1 DEF TypeOK, Quiet
  <2>3. QED
    BY <1>0, <1>2, <2>1, <2>2, QuietStep
<1>4. CASE cancel
  <2>1. Cancelled(ctx[d]) \in Context
    <3>1. ctx[d].refs + 1 \in Nat /\ ctx[d].pend + 1 \in Nat
      BY <1>1, SMTT(60) DEF Context
    <3>2. QED
      BY <1>1, <3>1 DEF Context, Cancelled
  <2>2. PICK x \in Context : x = Cancelled(ctx[d])
    BY <2>1
  <2>3. ctx' = [ctx EXCEPT ![d] = x] /\ ctx'[d] = x
    BY <1>0, <1>1, <1>4, <2>2 DEF TypeOK
  <2>4. /\ x.src = ctx[d].src /\ (x.armed <=> ctx[d].armed)
        /\ x.pend = ctx[d].pend + 1 /\ (x.queued <=> ctx[d].queued)
        /\ x.refs = ctx[d].refs + 1
    BY <1>1, <2>2 DEF Context, Cancelled
  <2>5. Submit("remove", d, {})
    BY <1>1, <1>4
  <2>6. /\ sq' \in Seq(Sqe) /\ Len(sq') = Len(sq) + 1
        /\ total' = total + 1 /\ total' \in Nat
        /\ \A c \in Ctx : /\ Ops(sq', c) = Ops(sq, c) + One(c = d)
                          /\ Adds(sq', c) = Adds(sq, c) + One(FALSE)
    BY <1>0, <2>5, SubmitLaws, SMTT(60) DEF One
  <2>7. TypeOK'
    <3>1. ctx' \in [Ctx -> Context]
      BY <1>0, <2>3 DEF TypeOK
    <3>2. QED
      BY <1>0, <2>6, <3>1 DEF TypeOK
  <2>8. OthersKept(d)
    BY <1>0, <2>6, CountsAreNumbers, SMTT(60) DEF OthersKept, One
  <2>9. CtxInv(d)'
    <3>1. One(InMap(d)') = One(InMap(d)) /\ One(InMap(d)) \in Nat
      BY <1>0 DEF InMap, One
    <3>2. /\ Ops(sq', d) = Ops(sq, d) + 1 /\ Adds(sq', d) = Adds(sq, d)
          /\ Ops(sq, d) \in Nat /\ Ops(cq, d) \in Nat
      BY <1>0, <2>6, CountsAreNumbers, SMTT(60) DEF One
    <3>3. One(x.queued) = One(ctx[d].queued) /\ One(x.armed) = One(ctx[d].armed)
      BY <2>4 DEF One
    <3>4. x.pend = Ops(sq', d) + Ops(cq', d) + One(kpoll'[d] # NoPoll)
      <4>1. /\ ctx[d].pend = Ops(sq, d) + Ops(cq, d) + One(kpoll[d] # NoPoll)
            /\ cq' = cq /\ kpoll' = kpoll
        BY <1>0, <1>1 DEF CtxInv
      <4>2. QED
        BY <2>4, <3>2, <4>1, SMTT(60) DEF One
    <3>5. Places(rearm', d) + Places(todo', d) = One(x.queued)
      BY <1>0, <1>1, <3>3 DEF CtxInv
    <3>6. x.refs = One(InMap(d)') + x.pend + One(x.queued)
      <4>1. ctx[d].refs = One(InMap(d)) + ctx[d].pend + One(ctx[d].queued) /\ ctx[d].pend \in Nat
        BY <1>1 DEF CtxInv, Context
      <4>2. QED
        BY <2>4, <3>1, <3>3, <4>1, SMTT(60) DEF One
    <3>7. /\ Adds(sq', d) + Adds(cq', d) + One(kpoll'[d] # NoPoll) = One(x.armed)
          /\ x.queued => ~x.armed
      BY <1>0, <1>1, <2>4, <3>2, <3>3 DEF CtxInv, Polls
    <3>8. QED
      BY <1>0, <1>d, <2>3, <2>4, <3>4, <3>5, <3>6, <3>7, CtxInvNext
  <2>10. TotalInv'
    <3>1. Armed' = Armed
      BY <1>0 DEF Armed
    <3>2. QED
      BY <1>0, <2>6, <3>1, ArmedFinite, SMTT(60) DEF TotalInv, Running, TypeOK
  <2>11. pc # "destroyed" /\ pc' # "destroyed" /\ made' = made /\ MapKept(d)
    BY <1>0 DEF MapKept
  <2>12. QED
    BY <1>2, <2>3, <2>4, <2>7, <2>8, <2>9, <2>10, <2>11, OneContext
<1>5. QED
  BY <1>3, <1>4

\* Phase 3: a completion is drained.
LEMMA DrainOneStep ==
  ASSUME Counting, IInv, DrainStep
  PROVE  IInv'
<1>0. /\ TypeOK /\ Running /\ pc = "drain" /\ pc' = pc /\ cq # <<>>
      /\ cq' = Tail(cq) /\ total' = total - 1 /\ rearm' = rearm
      /\ UNCHANGED <<made, ctx_map, todo, sq, kpoll, events, calling, fatal,
                     left, modified>>
  BY DEF IInv, DrainStep
<1>1. /\ Head(cq).c \in Ctx /\ ctx[Head(cq).c] \in Context
      /\ ctx[Head(cq).c].pend - 1 \in Nat /\ ctx[Head(cq).c].refs - 1 \in Nat
  BY <1>0, HeadOfCq
<1>d. PICK d \in Ctx : d = Head(cq).c
  BY <1>1
<1>a. PICK add \in BOOLEAN : add = (Head(cq).op = "add")
  OBVIOUS
<1> DEFINE x0 == [ctx[d] EXCEPT !.armed = @ /\ ~add, !.pend = @ - 1,
                                !.refs = @ - 1]
<1>2. x0 \in Context
  <2>1. (ctx[d].armed /\ ~add) \in BOOLEAN
    OBVIOUS
  <2>2. QED
    BY <1>1, <1>d, <2>1 DEF Context
<1>3. PICK x \in Context : x = x0
  BY <1>2
<1>4. ctx' = [ctx EXCEPT ![d] = x]
  <2>1. ctx' = [ctx EXCEPT ![d].armed = @ /\ ~add, ![d].pend = @ - 1,
                           ![d].refs = @ - 1]
    BY <1>d, <1>a DEF DrainStep
  <2>2. QED
    BY <1>0, <1>3, <2>1 DEF TypeOK
<1>5. Consumed(d, add, FALSE, x)
  <2>1. /\ x.src = ctx[d].src /\ (x.armed <=> ctx[d].armed /\ ~add)
        /\ (x.queued <=> ctx[d].queued)
        /\ x.pend = ctx[d].pend - 1 /\ x.refs = ctx[d].refs - 1
    BY <1>1, <1>d, <1>3 DEF Context
  <2>2. ctx[d].refs \in Nat
    BY <1>1, <1>d DEF Context
  <2>3. QED
    BY <2>1, <2>2, SMTT(60) DEF Consumed, One
<1>6. TypeOK'
  <2>1. ctx' \in [Ctx -> Context]
    BY <1>0, <1>4 DEF TypeOK
  <2>2. cq' \in Seq(Sqe) /\ total' \in Nat
    BY <1>0, ConsumeLaws DEF Running
  <2>3. QED
    BY <1>0, <2>1, <2>2 DEF TypeOK
<1>7. pc # "destroyed" /\ UNCHANGED <<made, ctx_map, todo, sq, kpoll, left>>
  BY <1>0
<1>g. PICK grew \in BOOLEAN : grew = FALSE
  OBVIOUS
<1>8. /\ grew => add
      /\ IF grew THEN Enqueue(d) ELSE rearm' = rearm
      /\ Consumed(d, add, grew, x)
  BY <1>0, <1>5, <1>g
<1>9. QED
  BY <1>0, <1>4, <1>6, <1>7, <1>8, <1>d, <1>a, ConsumeStep

\* Phases 4 and 5: what is left of a context is held by operations that never
\* completed.
LEMMA EndStep ==
  ASSUME Counting, IInv, DestroyEnd
  PROVE  IInv'
<1>0. /\ TypeOK /\ Running /\ pc = "drain" /\ pc' = "destroyed" /\ todo = <<>>
      /\ ctx' = [c \in Ctx |-> [ctx[c] EXCEPT !.refs =
                   @ - Cardinality({i \in 1 .. Len(rearm) : rearm[i] = c})
                     - Cardinality({s \in Sources : ctx_map[s] = c})]]
      /\ ctx_map' = [s \in Sources |-> 0] /\ rearm' = <<>>
      /\ UNCHANGED <<made, todo, total, sq, kpoll, cq, events, calling, fatal,
                     left, modified>>
  BY DEF IInv, DestroyEnd, Running, StageInv
<1>1. ASSUME NEW c \in Ctx
      PROVE  ctx'[c] \in Context /\ ctx'[c].refs = ctx[c].pend
  <2>1. CtxInv(c) /\ ctx[c] \in Context
    BY <1>0 DEF Running, TypeOK
  <2>2. Cardinality({i \in 1 .. Len(rearm) : rearm[i] = c}) = One(ctx[c].queued)
    <3>1. Places(todo, c) = 0
      <4>1. <<>> \in Seq(Ctx)
        BY SMTT(60)
      <4>2. Places(<<>>, c) = 0
        BY <4>1, PlacesLaws
      <4>3. QED
        BY <1>0, <4>2
    <3>2. Places(rearm, c) \in Nat
      BY <1>0, CountsAreNumbers
    <3>3. Places(rearm, c) = One(ctx[c].queued)
      BY <2>1, <3>1, <3>2, SMTT(60) DEF CtxInv
    <3>4. QED
      BY <3>3 DEF Places
  <2>3. Cardinality({s \in Sources : ctx_map[s] = c}) = One(InMap(c))
    <3>1. CASE InMap(c)
      <4>1. PICK s \in Sources : ctx_map[s] = c
        BY <3>1 DEF InMap
      <4>2. ctx_map[s] # 0
        BY <4>1, SMTT(60) DEF Ctx
      <4>3. \A t \in Sources : ctx_map[t] = c => t = s
        BY <1>0, <4>1, <4>2, Mapped
      <4>4. {t \in Sources : ctx_map[t] = c} = {s}
        BY <4>1, <4>3
      <4>5. QED
        BY <3>1, <4>4, SmallSizes DEF One
    <3>2. CASE ~InMap(c)
      <4>1. {t \in Sources : ctx_map[t] = c} = {}
        BY <3>2 DEF InMap
      <4>2. QED
        BY <3>2, <4>1, SmallSizes DEF One
    <3>3. QED
      BY <3>1, <3>2
  <2>4. ctx'[c] = [ctx[c] EXCEPT !.refs = @ - One(ctx[c].queued) - One(InMap(c))]
    BY <1>0, <2>2, <2>3
  <2>5. ctx[c].refs - One(ctx[c].queued) - One(InMap(c)) = ctx[c].pend
    <3>1. ctx[c].refs = One(InMap(c)) + ctx[c].pend + One(ctx[c].queued)
      BY <2>1 DEF CtxInv
    <3>2. One(InMap(c)) \in Nat /\ One(ctx[c].queued) \in Nat /\ ctx[c].pend \in Nat
      BY <2>1 DEF One, Context
    <3>3. QED
      BY <3>1, <3>2, SMTT(60)
  <2>6. ctx'[c] = [ctx[c] EXCEPT !.refs = ctx[c].pend]
    BY <2>4, <2>5
  <2>7. QED
    BY <2>1, <2>6 DEF Context
<1>2. TypeOK'
  <2>1. ctx' \in [Ctx -> Context]
    BY <1>0, <1>1
  <2>2. ctx_map' \in [Sources -> 0 .. MaxCtx] /\ rearm' \in Seq(Ctx)
    BY <1>0, ConstantsOK, SMTT(60)
  <2>3. QED
    BY <1>0, <2>1, <2>2 DEF TypeOK
<1>3. ASSUME NEW c \in Ctx, total = 0 PROVE ctx[c].pend = 0
  <2>1. /\ sq \in Seq(Sqe) /\ cq \in Seq(Sqe)
        /\ Len(sq) + Len(cq) + Cardinality(Armed) = 0
    BY <1>0, <1>3 DEF TypeOK, Running, TotalInv
  <2>2. Len(sq) = 0 /\ Len(cq) = 0 /\ Cardinality(Armed) = 0
    BY <2>1, ArmedFinite, SMTT(60)
  <2>3. sq = <<>> /\ cq = <<>> /\ Armed = {}
    BY <2>1, <2>2, ArmedFinite, SizeLaws, SMTT(60)
  <2>4. Ops(sq, c) = 0 /\ Ops(cq, c) = 0
    <3>1. <<>> \in Seq(Sqe)
      BY SMTT(60)
    <3>2. Ops(<<>>, c) = 0
      BY <3>1, OpsLaws
    <3>3. QED
      BY <2>3, <3>2
  <2>5. kpoll[c] = NoPoll
    BY <2>3 DEF Armed
  <2>6. QED
    BY <1>0, <2>4, <2>5, SMTT(60) DEF Running, CtxInv, One
<1>4. DestroyFrees'
  <2>1. ASSUME NEW c \in Ctx
        PROVE  ctx'[c].refs >= 0 /\ (total' = 0 => ctx'[c].refs = 0)
    <3>1. ctx'[c].refs \in Nat
      BY <1>1 DEF Context
    <3>2. total' = 0 => ctx'[c].refs = 0
      BY <1>0, <1>1, <1>3
    <3>3. QED
      BY <3>1, <3>2, SMTT(60)
  <2>2. QED
    BY <2>1 DEF DestroyFrees
<1>5. QED
  BY <1>0, <1>2, <1>4 DEF IInv

-----------------------------------------------------------------------------
(* The kernel. *)

\* A step of the kernel moves an operation of context d from one place to
\* another and leaves the number of its operations as it is.
LEMMA KernelKeeps ==
  ASSUME IInv, pc # "destroyed", NEW d \in Ctx, ctx[d].pend > 0,
         UNCHANGED <<ctx, made, ctx_map, rearm, todo, total, events, calling,
                     pc, fatal, left, modified>>,
         sq' \in Seq(Sqe), cq' \in Seq(Sqe),
         kpoll' \in [Ctx -> (SUBSET Bits) \cup {NoPoll}],
         Ops(sq', d) + Ops(cq', d) + One(kpoll'[d] # NoPoll)
           = Ops(sq, d) + Ops(cq, d) + One(kpoll[d] # NoPoll),
         Adds(sq', d) + Adds(cq', d) + One(kpoll'[d] # NoPoll)
           = Adds(sq, d) + Adds(cq, d) + One(kpoll[d] # NoPoll),
         OthersKept(d),
         Len(sq') + Len(cq') + Cardinality(Armed')
           = Len(sq) + Len(cq) + Cardinality(Armed)
  PROVE  IInv'
<1>0. TypeOK /\ Running /\ CtxInv(d) /\ ctx[d] \in Context
  BY DEF IInv, Running, TypeOK
<1>1. PICK x \in Context : x = ctx[d]
  BY <1>0
<1>2. ctx' = [ctx EXCEPT ![d] = x] /\ ctx'[d] = x /\ x.src = ctx[d].src
  BY <1>0, <1>1 DEF TypeOK
<1>3. d <= made /\ made' = made
  <2>1. ctx[d] # Blank
    BY SMTT(60) DEF Blank
  <2>2. QED
    BY <1>0, <2>1, SMTT(60) DEF CtxInv, TypeOK, Ctx
<1>4. TypeOK'
  BY <1>0 DEF TypeOK
<1>5. CtxInv(d)'
  <2>1. One(InMap(d)') = One(InMap(d))
    BY DEF InMap, One
  <2>2. x.pend = Ops(sq', d) + Ops(cq', d) + One(kpoll'[d] # NoPoll)
    BY <1>0, <1>1 DEF CtxInv
  <2>3. Places(rearm', d) + Places(todo', d) = One(x.queued)
    BY <1>0, <1>1 DEF CtxInv
  <2>4. x.refs = One(InMap(d)') + x.pend + One(x.queued)
    BY <1>0, <1>1, <2>1 DEF CtxInv
  <2>5. Adds(sq', d) + Adds(cq', d) + One(kpoll'[d] # NoPoll) = One(x.armed)
    BY <1>0, <1>1 DEF CtxInv, Polls
  <2>6. x.queued => ~x.armed
    BY <1>0, <1>1 DEF CtxInv
  <2>7. QED
    BY <1>0, <1>2, <1>3, <2>2, <2>3, <2>4, <2>5, <2>6, CtxInvNext
<1>6. TotalInv' /\ StageInv'
  BY <1>0 DEF TotalInv, StageInv, Running
<1>7. pc' # "destroyed" /\ MapKept(d)
  BY DEF MapKept
<1>8. QED
  BY <1>2, <1>3, <1>4, <1>5, <1>6, <1>7, OneContext

\* A completion is posted.
LEMMA PostLaws ==
  ASSUME Counting, NEW q \in Seq(Sqe), NEW op \in {"add", "update", "remove"},
         NEW d \in Ctx, NEW m \in SUBSET Bits
  PROVE  /\ Append(q, Cqe(op, d, m)) \in Seq(Sqe)
         /\ Len(Append(q, Cqe(op, d, m))) = Len(q) + 1
         /\ \A c \in Ctx :
              /\ Ops(q, c) \in Nat /\ Adds(q, c) \in Nat
              /\ Ops(Append(q, Cqe(op, d, m)), c) = Ops(q, c) + One(c = d)
              /\ Adds(Append(q, Cqe(op, d, m)), c)
                   = Adds(q, c) + One(c = d /\ op = "add")
<1>1. PICK e \in Sqe : e = Cqe(op, d, m)
  BY DEF Cqe, Sqe
<1>2. e.c = d /\ e.op = op
  BY <1>1 DEF Cqe
<1>3. Append(q, e) \in Seq(Sqe) /\ Len(Append(q, e)) = Len(q) + 1
  BY SMTT(60)
<1>4. ASSUME NEW c \in Ctx
      PROVE  /\ Ops(q, c) \in Nat /\ Adds(q, c) \in Nat
             /\ Ops(Append(q, e), c) = Ops(q, c) + One(c = d)
             /\ Adds(Append(q, e), c) = Adds(q, c) + One(c = d /\ op = "add")
  <2>1. /\ Ops(q, c) \in Nat /\ Adds(q, c) \in Nat
        /\ Ops(Append(q, e), c) = Ops(q, c) + One(e.c = c)
        /\ Adds(Append(q, e), c) = Adds(q, c) + One(e.c = c /\ e.op = "add")
    BY OpsLaws, SMTT(60)
  <2>2. One(e.c = c) = One(c = d)
        /\ One(e.c = c /\ e.op = "add") = One(c = d /\ op = "add")
    BY <1>2 DEF One
  <2>3. QED
    BY <2>1, <2>2
<1>5. QED
  BY <1>1, <1>3, <1>4

\* The kernel completes an armed poll.
LEMMA CompleteStep ==
  ASSUME Counting, IInv, NEW d \in Ctx, KernelComplete(d)
  PROVE  IInv'
<1>0. /\ TypeOK /\ Running /\ CtxInv(d) /\ pc # "destroyed" /\ kpoll[d] # NoPoll
      /\ kpoll' = [kpoll EXCEPT ![d] = NoPoll] /\ sq' = sq
      /\ UNCHANGED <<ctx, made, ctx_map, rearm, todo, total, events, calling,
                     pc, fatal, left, modified>>
  BY DEF IInv, KernelComplete, Running
<1>1. PICK m \in SUBSET Bits : cq' = Append(cq, Cqe("add", d, m))
  <2>1. PICK m \in ((SUBSET kpoll[d]) \ {{}}) \cup {{"E"}} :
          cq' = Append(cq, Cqe("add", d, m))
    BY DEF KernelComplete
  <2>2. kpoll[d] \in SUBSET Bits
    BY <1>0 DEF TypeOK
  <2>3. m \in SUBSET Bits
    BY <2>2 DEF Bits
  <2>4. QED
    BY <2>1, <2>3
<1>2. /\ cq' \in Seq(Sqe) /\ Len(cq') = Len(cq) + 1
      /\ \A c \in Ctx : /\ Ops(cq, c) \in Nat /\ Adds(cq, c) \in Nat
                        /\ Ops(cq', c) = Ops(cq, c) + One(c = d)
                        /\ Adds(cq', c) = Adds(cq, c) + One(c = d)
  <2>1. cq \in Seq(Sqe)
    BY <1>0 DEF TypeOK
  <2>2. QED
    BY <1>1, <2>1, PostLaws, SMTT(60) DEF One
<1>3. /\ kpoll' \in [Ctx -> (SUBSET Bits) \cup {NoPoll}] /\ kpoll'[d] = NoPoll
      /\ \A c \in Ctx \ {d} : kpoll'[c] = kpoll[c]
  BY <1>0 DEF TypeOK
<1>4. Ops(sq, d) \in Nat /\ Adds(sq, d) \in Nat
  BY <1>0, CountsAreNumbers
<1>5. /\ Ops(sq', d) + Ops(cq', d) + One(kpoll'[d] # NoPoll)
           = Ops(sq, d) + Ops(cq, d) + One(kpoll[d] # NoPoll)
      /\ Adds(sq', d) + Adds(cq', d) + One(kpoll'[d] # NoPoll)
           = Adds(sq, d) + Adds(cq, d) + One(kpoll[d] # NoPoll)
  <2>1. One(kpoll'[d] # NoPoll) = 0 /\ One(kpoll[d] # NoPoll) = 1
    BY <1>0, <1>3 DEF One
  <2>2. /\ Ops(cq', d) = Ops(cq, d) + 1 /\ Adds(cq', d) = Adds(cq, d) + 1
        /\ Ops(cq, d) \in Nat /\ Adds(cq, d) \in Nat
    BY <1>2 DEF One
  <2>3. QED
    BY <1>0, <1>4, <2>1, <2>2, SMTT(60)
<1>6. OthersKept(d)
  BY <1>0, <1>2, <1>3, CountsAreNumbers, SMTT(60) DEF OthersKept, One
<1>7. ctx[d].pend > 0
  BY <1>0, <1>2, <1>4, SMTT(60) DEF CtxInv, One
<1>8. Len(sq') + Len(cq') + Cardinality(Armed')
        = Len(sq) + Len(cq) + Cardinality(Armed)
  <2>1. Armed' = Armed \ {d} /\ d \in Armed
    BY <1>0, <1>3 DEF Armed
  <2>2. Cardinality(Armed') = Cardinality(Armed) - 1
    BY <2>1, ArmedFinite, SizeLaws
  <2>3. Len(sq) \in Nat /\ Len(cq) \in Nat
    BY <1>0, SMTT(60) DEF TypeOK
  <2>4. QED
    BY <1>0, <1>2, <2>2, <2>3, ArmedFinite, SMTT(60)
<1>9. sq' \in Seq(Sqe)
  BY <1>0 DEF TypeOK
<1>10. QED
  BY <1>0, <1>2, <1>3, <1>5, <1>6, <1>7, <1>8, <1>9, KernelKeeps

\* What the kernel takes from the submission queue.
LEMMA TakeLaws ==
  ASSUME Counting, TypeOK, sq # <<>>, sq' = Tail(sq), NEW d \in Ctx, d = Head(sq).c
  PROVE  /\ Head(sq) \in Sqe /\ sq' \in Seq(Sqe) /\ Len(sq) = Len(sq') + 1
         /\ Len(sq') \in Nat
         /\ \A c \in Ctx :
              /\ Ops(sq, c) = Ops(sq', c) + One(c = d)
              /\ Adds(sq, c) = Adds(sq', c) + One(c = d /\ Head(sq).op = "add")
              /\ Ops(sq', c) \in Nat /\ Adds(sq', c) \in Nat
<1>1. sq \in Seq(Sqe)
  BY DEF TypeOK
<1>2. /\ Head(sq) \in Sqe /\ sq' \in Seq(Sqe) /\ Len(sq) = Len(sq') + 1
      /\ Len(sq') \in Nat
  BY <1>1, SMTT(60)
<1>3. ASSUME NEW c \in Ctx
      PROVE  /\ Ops(sq, c) = Ops(sq', c) + One(c = d)
             /\ Adds(sq, c) = Adds(sq', c) + One(c = d /\ Head(sq).op = "add")
             /\ Ops(sq', c) \in Nat /\ Adds(sq', c) \in Nat
  <2>1. /\ Ops(sq, c) = Ops(Tail(sq), c) + One(Head(sq).c = c)
        /\ Adds(sq, c) = Adds(Tail(sq), c)
                         + One(Head(sq).c = c /\ Head(sq).op = "add")
    BY <1>1, OpsLaws, SMTT(60)
  <2>2. Ops(sq', c) \in Nat /\ Adds(sq', c) \in Nat
    BY <1>2, OpsLaws
  <2>3. QED
    BY <2>1, <2>2 DEF One
<1>4. QED
  BY <1>2, <1>3

\* The kernel takes a submission.
LEMMA TakeStep ==
  ASSUME Counting, IInv, KernelTake
  PROVE  IInv'
<1>0. /\ TypeOK /\ Running /\ pc # "destroyed" /\ sq # <<>> /\ sq' = Tail(sq)
      /\ cq \in Seq(Sqe) /\ Len(cq) \in Nat
      /\ UNCHANGED <<ctx, made, ctx_map, rearm, todo, total, events, calling,
                     pc, fatal, left, modified>>
  BY SMTT(60) DEF IInv, KernelTake, TypeOK
<1>1. Head(sq) \in Sqe
  BY <1>0, SMTT(60) DEF TypeOK
<1>d. PICK d \in Ctx : d = Head(sq).c
  BY <1>1 DEF Sqe
<1>m. PICK m \in SUBSET Bits : m = Head(sq).mask
  BY <1>1 DEF Sqe
<1>o. PICK op \in {"add", "update", "remove"} : op = Head(sq).op
  BY <1>1 DEF Sqe
<1>2. /\ sq' \in Seq(Sqe) /\ Len(sq) = Len(sq') + 1 /\ Len(sq') \in Nat
      /\ \A c \in Ctx :
           /\ Ops(sq, c) = Ops(sq', c) + One(c = d)
           /\ Adds(sq, c) = Adds(sq', c) + One(c = d /\ op = "add")
           /\ Ops(sq', c) \in Nat /\ Adds(sq', c) \in Nat
  BY <1>0, <1>d, <1>o, TakeLaws
<1>3. /\ Ops(sq, d) = Ops(sq', d) + 1 /\ Ops(sq', d) \in Nat
      /\ Adds(sq, d) = Adds(sq', d) + One(op = "add") /\ Adds(sq', d) \in Nat
      /\ Ops(cq, d) \in Nat /\ Adds(cq, d) \in Nat
      /\ CtxInv(d) /\ kpoll[d] \in (SUBSET Bits) \cup {NoPoll}
  BY <1>0, <1>2, CountsAreNumbers DEF One, Running, TypeOK
<1>4. ctx[d].pend > 0
  BY <1>3, SMTT(60) DEF CtxInv, One
<1>5. \A c \in Ctx \ {d} : Ops(sq', c) = Ops(sq, c) /\ Adds(sq', c) = Adds(sq, c)
  BY <1>2, SMTT(60) DEF One
<1>6. Cardinality(Armed) \in Nat /\ IsFiniteSet(Armed)
  BY ArmedFinite
<1>7. CASE /\ op = "add"
           /\ kpoll' = [kpoll EXCEPT ![d] = m] /\ cq' = cq
  <2>1. kpoll[d] = NoPoll
    <3>1. Adds(sq', d) + 1 + Adds(cq, d) + One(kpoll[d] # NoPoll) <= 1
      BY <1>3, <1>7, SMTT(60) DEF CtxInv, Polls, One
    <3>2. QED
      BY <1>3, <3>1, SMTT(60) DEF One
  <2>2. /\ kpoll' \in [Ctx -> (SUBSET Bits) \cup {NoPoll}] /\ kpoll'[d] # NoPoll
        /\ \A c \in Ctx \ {d} : kpoll'[c] = kpoll[c]
    BY <1>0, <1>7, MaskIsNoNoPoll DEF TypeOK
  <2>3. /\ One(kpoll[d] # NoPoll) = 0 /\ One(kpoll'[d] # NoPoll) = 1
        /\ One(op = "add") = 1
    BY <1>7, <2>1, <2>2 DEF One
  <2>4. /\ Ops(sq', d) + Ops(cq', d) + One(kpoll'[d] # NoPoll)
             = Ops(sq, d) + Ops(cq, d) + One(kpoll[d] # NoPoll)
        /\ Adds(sq', d) + Adds(cq', d) + One(kpoll'[d] # NoPoll)
             = Adds(sq, d) + Adds(cq, d) + One(kpoll[d] # NoPoll)
    BY <1>3, <1>7, <2>3, SMTT(60)
  <2>5. OthersKept(d)
    BY <1>0, <1>5, <1>7, <2>2 DEF OthersKept
  <2>6. Len(sq') + Len(cq') + Cardinality(Armed')
          = Len(sq) + Len(cq) + Cardinality(Armed)
    <3>1. Armed' = Armed \cup {d} /\ d \notin Armed
      BY <2>1, <2>2, SMTT(60) DEF Armed
    <3>2. Cardinality(Armed') = Cardinality(Armed) + 1
      BY <1>6, <3>1, SizeLaws
    <3>3. QED
      BY <1>0, <1>2, <1>6, <1>7, <3>2, SMTT(60)
  <2>7. cq' \in Seq(Sqe)
    BY <1>0, <1>7
  <2>8. QED
    BY <1>0, <1>2, <1>4, <2>2, <2>4, <2>5, <2>6, <2>7, KernelKeeps
<1>8. ASSUME op # "add", cq' = Append(cq, Cqe(op, d, {})),
             kpoll' \in [Ctx -> (SUBSET Bits) \cup {NoPoll}],
             kpoll'[d] # NoPoll <=> kpoll[d] # NoPoll,
             \A c \in Ctx \ {d} : kpoll'[c] = kpoll[c]
      PROVE  IInv'
  <2>1. /\ cq' \in Seq(Sqe) /\ Len(cq') = Len(cq) + 1
        /\ \A c \in Ctx : /\ Ops(cq, c) \in Nat /\ Adds(cq, c) \in Nat
                          /\ Ops(cq', c) = Ops(cq, c) + One(c = d)
                          /\ Adds(cq', c) = Adds(cq, c) + One(c = d /\ op = "add")
    <3>1. {} \in SUBSET Bits
      OBVIOUS
    <3>2. QED
      BY <1>0, <1>8, <3>1, PostLaws, SMTT(60)
  <2>2. /\ Ops(cq', d) = Ops(cq, d) + 1 /\ Adds(cq', d) = Adds(cq, d)
        /\ Adds(sq, d) = Adds(sq', d)
        /\ One(kpoll'[d] # NoPoll) = One(kpoll[d] # NoPoll)
        /\ One(kpoll[d] # NoPoll) \in Nat
    BY <1>3, <1>8, <2>1, SMTT(60) DEF One
  <2>3. /\ Ops(sq', d) + Ops(cq', d) + One(kpoll'[d] # NoPoll)
             = Ops(sq, d) + Ops(cq, d) + One(kpoll[d] # NoPoll)
        /\ Adds(sq', d) + Adds(cq', d) + One(kpoll'[d] # NoPoll)
             = Adds(sq, d) + Adds(cq, d) + One(kpoll[d] # NoPoll)
    BY <1>3, <2>2, SMTT(60)
  <2>4. OthersKept(d)
    <3>1. \A c \in Ctx \ {d} : Ops(cq', c) = Ops(cq, c) /\ Adds(cq', c) = Adds(cq, c)
      BY <2>1, SMTT(60) DEF One
    <3>2. QED
      BY <1>0, <1>5, <1>8, <3>1 DEF OthersKept
  <2>5. Len(sq') + Len(cq') + Cardinality(Armed')
          = Len(sq) + Len(cq) + Cardinality(Armed)
    <3>1. Armed' = Armed
      BY <1>8 DEF Armed
    <3>2. QED
      BY <1>0, <1>2, <1>6, <2>1, <3>1, SMTT(60)
  <2>6. QED
    BY <1>0, <1>2, <1>4, <1>8, <2>1, <2>3, <2>4, <2>5, KernelKeeps
<1>9. ASSUME op = "remove", kpoll[d] # NoPoll,
             kpoll' = [kpoll EXCEPT ![d] = NoPoll],
             NEW a \in {"add", "remove"}, NEW b \in {"add", "remove"}, a # b,
             cq' = Append(Append(cq, Cqe(a, d, {})), Cqe(b, d, {}))
      PROVE  IInv'
  <2>1. /\ {} \in SUBSET Bits
        /\ a \in {"add", "update", "remove"} /\ b \in {"add", "update", "remove"}
    OBVIOUS
  <2>a. Append(cq, Cqe(a, d, {})) \in Seq(Sqe)
    BY <1>0, <2>1, PostLaws
  <2>p. PICK q \in Seq(Sqe) : q = Append(cq, Cqe(a, d, {}))
    BY <2>a
  <2>2. /\ Len(q) = Len(cq) + 1
        /\ \A c \in Ctx : /\ Ops(q, c) = Ops(cq, c) + One(c = d)
                          /\ Adds(q, c) = Adds(cq, c) + One(c = d /\ a = "add")
    BY <1>0, <2>1, <2>p, PostLaws, SMTT(60)
  <2>3. /\ cq' \in Seq(Sqe) /\ Len(cq') = Len(q) + 1
        /\ \A c \in Ctx : /\ Ops(cq', c) = Ops(q, c) + One(c = d)
                          /\ Adds(cq', c) = Adds(q, c) + One(c = d /\ b = "add")
    <3>1. cq' = Append(q, Cqe(b, d, {}))
      BY <1>9, <2>p
    <3>2. QED
      BY <2>1, <3>1, PostLaws, SMTT(60)
  <2>4. /\ Ops(cq', d) = Ops(cq, d) + 2 /\ Adds(cq', d) = Adds(cq, d) + 1
        /\ Adds(sq, d) = Adds(sq', d)
    BY <1>3, <1>9, <2>2, <2>3, SMTT(60) DEF One
  <2>5. /\ kpoll' \in [Ctx -> (SUBSET Bits) \cup {NoPoll}] /\ kpoll'[d] = NoPoll
        /\ \A c \in Ctx \ {d} : kpoll'[c] = kpoll[c]
    BY <1>0, <1>9 DEF TypeOK
  <2>6. One(kpoll'[d] # NoPoll) = 0 /\ One(kpoll[d] # NoPoll) = 1
    BY <1>9, <2>5 DEF One
  <2>7. /\ Ops(sq', d) + Ops(cq', d) + One(kpoll'[d] # NoPoll)
             = Ops(sq, d) + Ops(cq, d) + One(kpoll[d] # NoPoll)
        /\ Adds(sq', d) + Adds(cq', d) + One(kpoll'[d] # NoPoll)
             = Adds(sq, d) + Adds(cq, d) + One(kpoll[d] # NoPoll)
    BY <1>3, <2>4, <2>6, SMTT(60)
  <2>8. OthersKept(d)
    <3>1. \A c \in Ctx \ {d} : Ops(cq', c) = Ops(cq, c) /\ Adds(cq', c) = Adds(cq, c)
      BY <1>0, <2>2, <2>3, CountsAreNumbers, SMTT(60) DEF One
    <3>2. QED
      BY <1>0, <1>5, <2>5, <3>1 DEF OthersKept
  <2>9. Len(sq') + Len(cq') + Cardinality(Armed')
          = Len(sq) + Len(cq) + Cardinality(Armed)
    <3>1. Armed' = Armed \ {d} /\ d \in Armed
      BY <1>9, <2>5 DEF Armed
    <3>2. Cardinality(Armed') = Cardinality(Armed) - 1
      BY <1>6, <3>1, SizeLaws
    <3>3. QED
      BY <1>0, <1>2, <1>6, <2>2, <2>3, <3>2, SMTT(60)
  <2>10. QED
    BY <1>0, <1>2, <1>4, <2>3, <2>5, <2>7, <2>8, <2>9, KernelKeeps
<1>10. CASE /\ op = "update"
            /\ kpoll' = IF kpoll[d] # NoPoll THEN [kpoll EXCEPT ![d] = m] ELSE kpoll
            /\ cq' = Append(cq, Cqe("update", d, {}))
  <2>1. /\ kpoll' \in [Ctx -> (SUBSET Bits) \cup {NoPoll}]
        /\ kpoll'[d] # NoPoll <=> kpoll[d] # NoPoll
        /\ \A c \in Ctx \ {d} : kpoll'[c] = kpoll[c]
    BY <1>0, <1>10, MaskIsNoNoPoll DEF TypeOK
  <2>2. QED
    BY <1>8, <1>10, <2>1
<1>11. CASE /\ op = "remove" /\ kpoll' = kpoll
            /\ cq' = Append(cq, Cqe("remove", d, {}))
  <2>1. kpoll' \in [Ctx -> (SUBSET Bits) \cup {NoPoll}]
    BY <1>0, <1>11 DEF TypeOK
  <2>2. QED
    BY <1>8, <1>11, <2>1
<1>12. CASE /\ op = "remove" /\ kpoll[d] # NoPoll
            /\ kpoll' = [kpoll EXCEPT ![d] = NoPoll]
            /\ \/ cq' = cq \o <<Cqe("add", d, {}), Cqe("remove", d, {})>>
               \/ cq' = cq \o <<Cqe("remove", d, {}), Cqe("add", d, {})>>
  <2>1. \A u, v \in Sqe : cq \o <<u, v>> = Append(Append(cq, u), v)
    BY <1>0, SMTT(60)
  <2>2. Cqe("add", d, {}) \in Sqe /\ Cqe("remove", d, {}) \in Sqe
    BY DEF Cqe, Sqe
  <2>3. CASE cq' = cq \o <<Cqe("add", d, {}), Cqe("remove", d, {})>>
    <3>1. cq' = Append(Append(cq, Cqe("add", d, {})), Cqe("remove", d, {}))
      BY <2>1, <2>2, <2>3
    <3>2. QED
      BY <1>9, <1>12, <3>1
  <2>4. CASE cq' = cq \o <<Cqe("remove", d, {}), Cqe("add", d, {})>>
    <3>1. cq' = Append(Append(cq, Cqe("remove", d, {})), Cqe("add", d, {}))
      BY <2>1, <2>2, <2>4
    <3>2. QED
      BY <1>9, <1>12, <3>1
  <2>5. QED
    BY <1>12, <2>3, <2>4
<1>13. QED
  BY <1>7, <1>10, <1>11, <1>12, <1>d, <1>m, <1>o DEF KernelTake

-----------------------------------------------------------------------------
(* Types, ownership and polls are right in every reachable state. *)

\* Every mask and every allocation outcome is one of the declared values.
LEMMA Inputs ==
  /\ \A m \in Masks : m \in SUBSET Bits
  /\ {"R"} \in SUBSET Bits
  /\ \A ok \in Allocs : ok \in BOOLEAN
  /\ \A s \in Sockets : s \in Sources
  /\ \A t \in Timers : t \in Sources
BY ConstantsOK DEF Bits, Sources

\* A step that changes nothing.
LEMMA StutterStep ==
  ASSUME IInv, UNCHANGED vars
  PROVE  IInv'
<1>1. TypeOK' /\ DestroyFrees'
  BY DEF IInv, vars, TypeOK, DestroyFrees
<1>2. CASE pc = "destroyed"
  BY <1>1, <1>2 DEF IInv, vars
<1>3. CASE pc # "destroyed"
  <2>1. Quiet /\ pc' # "destroyed"
    BY <1>3 DEF Quiet, vars
  <2>2. StageInv'
    BY <1>3 DEF IInv, Running, StageInv, vars
  <2>3. QED
    BY <1>1, <1>3, <2>1, <2>2, QuietStep
<1>4. QED
  BY <1>2, <1>3

\* event_loop_run dispatches an event.
LEMMA DispatchStep ==
  ASSUME IInv, Dispatch
  PROVE  IInv'
<1>0. /\ TypeOK /\ Running /\ pc = "app" /\ pc' = "app" /\ events # <<>>
      /\ UNCHANGED <<ctx, made, ctx_map, rearm, todo, total, sq, kpoll, cq,
                     fatal, left, modified>>
  BY DEF IInv, Dispatch
<1>1. events \in Seq(Event) /\ Head(events) \in Event /\ Tail(events) \in Seq(Event)
  BY <1>0, SMTT(60) DEF TypeOK
<1>2. calling' \in Sources \cup {"none", "main"}
  BY <1>1 DEF Dispatch, Event
<1>3. events' \in Seq(Event)
  <2> DEFINE e == Head(events)
             rest == IF "E" \in e.mask \/ "R" \notin e.mask \/ e.src \in Timers
                     THEN {} ELSE e.mask \ {"R"}
  <2>1. rest \in SUBSET Bits
    BY <1>1 DEF Event
  <2>2. [e EXCEPT !.mask = rest] \in Event
    BY <1>1, <2>1 DEF Event
  <2>3. events' = Tail(events)
        \/ events' = <<[e EXCEPT !.mask = rest]>> \o Tail(events)
    BY DEF Dispatch
  <2> HIDE DEF e, rest
  <2>4. PICK v \in Event : v = [e EXCEPT !.mask = rest]
    BY <2>2
  <2>5. events' = Tail(events) \/ events' = <<v>> \o Tail(events)
    BY <2>3, <2>4
  <2>6. QED
    BY <1>1, <2>5, SMTT(60)
<1>4. TypeOK'
  BY <1>0, <1>2, <1>3 DEF TypeOK
<1>5. Quiet /\ StageInv'
  BY <1>0 DEF Quiet, StageInv, Running
<1>6. QED
  BY <1>0, <1>4, <1>5, QuietStep

\* Every other step of the loop that only moves its program counter.
LEMMA ControlStep ==
  ASSUME IInv,
         WaitCqe \/ WaitEnd \/ Return \/ RunReturns \/ Finalize \/ DestroyDrain
  PROVE  IInv'
<1>0. /\ TypeOK /\ Running /\ Quiet /\ pc # "destroyed" /\ pc' # "destroyed"
      /\ modified' = modified
  BY DEF IInv, Quiet, WaitCqe, WaitEnd, Return, RunReturns, Finalize, DestroyDrain, AppRuns
<1>1. /\ calling' \in {calling, "main", "none"} /\ events' \in {events, <<>>}
      /\ left' \in {left, {t \in Timers : ctx_map[t] # 0}}
      /\ pc' \in {"app", "reap", "timers", "drain"}
      /\ fatal' \in {fatal, "none", "EINTR"}
  BY DEF WaitCqe, WaitEnd, Return, RunReturns, Finalize, DestroyDrain, AppRuns
<1>2. TypeOK'
  <2>1. events' \in Seq(Event)
    <3>1. events \in Seq(Event) /\ (events' = events \/ events' = <<>>)
      BY <1>0, <1>1 DEF TypeOK
    <3>2. <<>> \in Seq(Event)
      BY SMTT(60)
    <3>3. CASE events' = <<>>
      BY <3>2, <3>3
    <3>4. CASE events' = events
      BY <3>1, <3>4
    <3>5. QED
      BY <3>1, <3>3, <3>4
  <2>2. left' \subseteq Sources
    BY <1>0, <1>1 DEF TypeOK, Sources
  <2>3. QED
    BY <1>0, <1>1, <2>1, <2>2, SMTT(60) DEF TypeOK, Quiet
<1>3. StageInv'
  <2>1. todo' = <<>>
    BY <1>0 DEF Running, StageInv, Quiet, WaitCqe, WaitEnd, Return, RunReturns, Finalize,
       DestroyDrain, AppRuns
  <2>2. QED
    BY <1>1, <2>1 DEF StageInv
<1>4. QED
  BY <1>0, <1>2, <1>3, QuietStep, SMTT(60)

\* EventLoop_finalize gives up a timer, or leaves it to phase 2.
LEMMA FinalizeTimerStep ==
  ASSUME Counting, IInv, NEW t \in Timers, FinalizeTimer(t)
  PROVE  IInv'
<1>0. /\ TypeOK /\ Running /\ pc = "timers" /\ pc' = pc /\ left' = left \ {t}
      /\ t \in Sources
  BY DEF IInv, FinalizeTimer, Sources
<1>1. CASE Detach(t)
  <2>1. pc # "destroyed" /\ pc # "cancel" /\ left' \subseteq left
    BY <1>0
  <2>2. QED
    BY <1>0, <1>1, <2>1, DetachStep
<1>2. CASE UNCHANGED <<ctx, made, ctx_map, rearm, todo, total, sq, kpoll, cq,
                       events, calling, fatal, modified>>
  <2>1. Quiet /\ StageInv' /\ pc # "destroyed" /\ pc' # "destroyed"
    BY <1>0, <1>2 DEF Quiet, StageInv, Running
  <2>2. TypeOK'
    BY <1>0, <1>2 DEF TypeOK
  <2>3. QED
    BY <2>1, <2>2, QuietStep
<1>3. QED
  BY <1>1, <1>2 DEF FinalizeTimer

\* The invariant is inductive: one case per action.
LEMMA NextIInv ==
  ASSUME Counting
  PROVE  IInv /\ [Next]_vars => IInv'
<1> SUFFICES ASSUME IInv, [Next]_vars PROVE IInv'
  OBVIOUS
<1>1. ASSUME NEW s \in Sources, NEW m \in SUBSET Bits, event_backend_add(s, m)
      PROVE  IInv'
  BY <1>1, AddStep
<1>2. ASSUME NEW s \in Sources, NEW m \in SUBSET Bits, NEW ok \in BOOLEAN,
             event_backend_modify(s, m, ok)
      PROVE  IInv'
  <2>1. /\ AppRuns /\ ctx_map[s] # 0
        /\ UNCHANGED <<made, ctx_map, todo, kpoll, cq, events, calling, pc,
                       fatal, left>>
    BY <1>2 DEF event_backend_modify
  <2>2. modified' \in 0 .. MaxModify
    BY <1>2, ConstantsOK, SMTT(60) DEF event_backend_modify, IInv, TypeOK
  <2>3. CASE ModifyIdle(ctx_map[s], m, ok)
    BY <2>1, <2>2, <2>3, ModifyIdleStep
  <2>4. CASE ModifyArmed(ctx_map[s], m)
    BY <2>1, <2>2, <2>4, ModifyArmedStep
  <2>5. QED
    BY <1>2, <2>3, <2>4 DEF event_backend_modify
<1>3. ASSUME NEW s \in Sources, event_backend_remove(s) PROVE IInv'
  <2>1. Detach(s) /\ pc = "app" /\ pc' = pc /\ left' = left
    BY <1>3 DEF event_backend_remove, AppRuns
  <2>2. pc # "destroyed" /\ pc # "cancel" /\ left' \subseteq left
    BY <2>1
  <2>3. QED
    BY <2>1, <2>2, DetachStep
<1>4. CASE AppStep
  BY <1>1, <1>2, <1>3, <1>4, Inputs DEF AppStep, AddTimer, RemoveTimer
<1>5. CASE LoopStep
  <2>1. ASSUME NEW ok \in Allocs, RearmStep(ok) PROVE IInv'
    BY <2>1, Inputs, RearmEntryStep
  <2>2. ASSUME NEW ok \in Allocs, Reap(ok) PROVE IInv'
    BY <2>2, Inputs, ReapStep
  <2>3. QED
    BY <1>5, <2>1, <2>2, WaitBeginStep, ControlStep, DispatchStep DEF LoopStep
<1>6. CASE RunReturns \/ Finalize
  BY <1>6, ControlStep
<1>7. CASE DestroyStep
  <2>1. ASSUME NEW t \in Timers, FinalizeTimer(t) PROVE IInv'
    BY <2>1, FinalizeTimerStep
  <2>2. ASSUME NEW s \in Sources, DestroyCancel(s) PROVE IInv'
    BY <2>2, CancelStep
  <2>3. QED
    BY <1>7, <2>1, <2>2, MarkStep, ControlStep, DrainOneStep, EndStep, SMTT(60) DEF
       DestroyStep
<1>8. CASE KernelStep
  <2>1. ASSUME NEW c \in Ctx, KernelComplete(c) PROVE IInv'
    BY <2>1, CompleteStep
  <2>2. QED
    BY <1>8, <2>1, TakeStep DEF KernelStep
<1>9. CASE Done \/ UNCHANGED vars
  BY <1>9, StutterStep DEF Done
<1>10. QED
  BY <1>4, <1>5, <1>6, <1>7, <1>8, <1>9, SMTT(60) DEF Next

\* The invariant gives the properties of UringBackend.
LEMMA IInvSafe == IInv => TypeOK /\ Ownership /\ OnePoll /\ DestroyFrees
<1> SUFFICES ASSUME IInv PROVE TypeOK /\ Ownership /\ OnePoll /\ DestroyFrees
  OBVIOUS
<1>1. Ownership
  <2>1. SUFFICES ASSUME pc # "destroyed", NEW c \in Ctx
                 PROVE  /\ ctx[c].pend = Ops(sq, c) + Ops(cq, c)
                                         + One(kpoll[c] # NoPoll)
                        /\ ctx[c].queued => Places(rearm, c) + Places(todo, c) = 1
                        /\ ~ctx[c].queued => Places(rearm, c) + Places(todo, c) = 0
                        /\ ctx[c].refs = One(InMap(c)) + ctx[c].pend
                                         + One(ctx[c].queued)
    BY DEF Ownership
  <2>2. CtxInv(c)
    BY <2>1 DEF IInv, Running
  <2>3. One(ctx[c].queued) = IF ctx[c].queued THEN 1 ELSE 0
    BY DEF One
  <2>4. QED
    BY <2>2, <2>3 DEF CtxInv
<1>2. OnePoll
  BY DEF OnePoll, IInv, Running, CtxInv
<1>3. QED
  BY <1>1, <1>2 DEF IInv

-----------------------------------------------------------------------------
(* What the counts say of single contexts and entries. *)

\* A context that is registered or waits to be re-armed has a reference.
LEMMA UsedIsAlive ==
  ASSUME IInv, pc # "destroyed", NEW c \in Ctx, ctx[c].queued \/ InMap(c)
  PROVE  ctx[c].refs > 0
<1>1. CtxInv(c) /\ ctx[c].pend \in Nat
  BY DEF IInv, Running, TypeOK, Context
<1>2. QED
  BY <1>1, SMTT(60) DEF CtxInv, One

\* An idle context has no poll in the kernel and none on the way to it.
LEMMA IdleContext ==
  ASSUME Counting, IInv, pc # "destroyed", NEW c \in Ctx, ~ctx[c].armed
  PROVE  kpoll[c] = NoPoll /\ ~ \E i \in 1 .. Len(sq) : sq[i].c = c /\ sq[i].op = "add"
<1>1. TypeOK /\ Polls(c) = 0
  BY DEF IInv, Running, CtxInv, One
<1>2. Adds(sq, c) \in Nat /\ Adds(cq, c) \in Nat
  BY <1>1, CountsAreNumbers
<1>3. kpoll[c] = NoPoll /\ Adds(sq, c) = 0
  BY <1>1, <1>2, SMTT(60) DEF Polls, One
<1> DEFINE I == {i \in 1 .. Len(sq) : sq[i].c = c /\ sq[i].op = "add"}
<1>4. Len(sq) \in Nat /\ I \in SUBSET (1 .. Len(sq)) /\ Cardinality(I) = 0
  BY <1>1, <1>3, SMTT(60) DEF TypeOK, Adds
<1>5. I = {}
  <2> HIDE DEF I
  <2> QED BY <1>4, PlacesFinite, SizeLaws
<1>6. QED
  BY <1>3, <1>5

\* Every completion names a context that was made.
LEMMA CompletionOwned ==
  ASSUME Counting, IInv, pc # "destroyed", NEW i \in 1 .. Len(cq)
  PROVE  cq[i].c \in 1 .. made
<1>1. TypeOK /\ cq \in Seq(Sqe) /\ cq[i] \in Sqe /\ made \in Nat
  BY SMTT(60) DEF IInv, TypeOK
<1>2. PICK c \in Ctx : c = cq[i].c
  BY <1>1 DEF Sqe
<1>3. c <= made
  <2>1. SUFFICES ASSUME c > made PROVE FALSE
    BY <1>1, <1>2, SMTT(60) DEF Ctx
  <2>2. CtxInv(c) /\ ctx[c].pend = 0
    BY <2>1, SMTT(60) DEF IInv, Running, CtxInv, Blank
  <2>3. Ops(sq, c) \in Nat /\ Ops(cq, c) \in Nat
    BY <1>1, CountsAreNumbers
  <2>4. Ops(cq, c) = 0
    BY <2>2, <2>3, SMTT(60) DEF CtxInv, One
  <2> DEFINE I == {j \in 1 .. Len(cq) : cq[j].c = c}
  <2>5. Len(cq) \in Nat /\ I \in SUBSET (1 .. Len(cq)) /\ Cardinality(I) = 0 /\ i \in I
    BY <1>1, <1>2, <2>4, SMTT(60) DEF Ops
  <2> HIDE DEF I
  <2>6. I = {}
    BY <2>5, PlacesFinite, SizeLaws
  <2>7. QED
    BY <2>5, <2>6
<1>4. QED
  BY <1>1, <1>2, <1>3, SMTT(60) DEF Ctx

===============================================================================
