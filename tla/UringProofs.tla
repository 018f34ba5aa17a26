---------------------------- MODULE UringProofs ----------------------------
(*****************************************************************************)
(* UringBackend, for any number of sockets, timers and contexts and any size *)
(* of the queues: references and polls are owned, the contexts of a batch    *)
(* are alive, the interest the kernel has is never stale, and the backend    *)
(* implements Reactor.                                                       *)
(*****************************************************************************)
EXTENDS UringInvariant, UringDelivery

LOCAL FS == INSTANCE FiniteSetTheorems

USE ZenonT(60)

-----------------------------------------------------------------------------
(* The laws of counting. *)

\* Cardinality and IsFiniteSet are those of the library's theorems.
LEMMA SameSets ==
  ASSUME NEW S
  PROVE  Cardinality(S) = FS!Cardinality(S) /\ (IsFiniteSet(S) <=> FS!IsFiniteSet(S))
<1>1. Cardinality(S) = FS!Cardinality(S)
  BY DEF Cardinality, FS!Cardinality
<1>2. IsFiniteSet(S) <=> FS!IsFiniteSet(S)
  BY DEF IsFiniteSet, FS!IsFiniteSet
<1>3. QED
  BY <1>1, <1>2

\* A set of places of a queue is finite.
LEMMA FinitePlaces ==
  ASSUME NEW n \in Nat, NEW I \in SUBSET (1 .. n)
  PROVE  IsFiniteSet(I) /\ Cardinality(I) \in Nat
<1>1. FS!IsFiniteSet(1 .. n)
  BY FS!FS_Interval, SMTT(60)
<1>2. FS!IsFiniteSet(I)
  BY <1>1, FS!FS_Subset
<1>3. FS!Cardinality(I) \in Nat
  BY <1>2, FS!FS_CardinalityType
<1>4. QED
  BY <1>2, <1>3, SameSets

\* The size of a set of no element, of one, and of one more or one less.
LEMMA EmptyAndSingle == Cardinality({}) = 0 /\ \A x : Cardinality({x}) = 1
<1>1. FS!Cardinality({}) = 0
  BY FS!FS_EmptySet
<1>2. ASSUME NEW x PROVE FS!Cardinality({x}) = 1
  BY FS!FS_Singleton
<1>3. QED
  BY <1>1, <1>2, SameSets

\* The size of a set with one element more or less.
LEMMA OneMoreOrLess ==
  ASSUME NEW S, IsFiniteSet(S)
  PROVE  /\ Cardinality(S) = 0 <=> S = {}
         /\ \A x \in S : Cardinality(S \ {x}) = Cardinality(S) - 1
         /\ \A x : x \notin S => Cardinality(S \cup {x}) = Cardinality(S) + 1
<1>1. FS!IsFiniteSet(S)
  BY SameSets
<1>2. FS!Cardinality(S) = 0 <=> S = {}
  BY <1>1, FS!FS_EmptySet
<1>3. ASSUME NEW x \in S PROVE FS!Cardinality(S \ {x}) = FS!Cardinality(S) - 1
  BY <1>1, FS!FS_RemoveElement
<1>4. ASSUME NEW x, x \notin S PROVE FS!Cardinality(S \cup {x}) = FS!Cardinality(S) + 1
  BY <1>1, <1>4, FS!FS_AddElement
<1>5. QED
  BY <1>2, <1>3, <1>4, SameSets

\* Moving every place but the first up by one keeps their number.
LEMMA MovedPlaces ==
  ASSUME NEW n \in Nat, NEW I \in SUBSET (1 .. n + 1)
  PROVE  Cardinality(I) = Cardinality({j \in 1 .. n : j + 1 \in I}) + One(1 \in I)
<1> DEFINE J == {j \in 1 .. n : j + 1 \in I}
           f == [j \in J |-> j + 1]
<1>1. IsFiniteSet(J) /\ Cardinality(J) \in Nat
  BY FinitePlaces
<1>2. f \in FS!Bijection(J, I \ {1})
  <2>1. f \in [J -> I \ {1}]
    BY SMTT(60)
  <2>2. \A a, b \in J : f[a] = f[b] => a = b
    BY SMTT(60)
  <2>3. \A k \in I \ {1} : k - 1 \in J /\ f[k - 1] = k
    BY SMTT(60)
  <2>4. f \in FS!Injection(J, I \ {1})
    <3> HIDE DEF f, J
    <3> QED BY <2>1, <2>2 DEF FS!Injection, FS!IsInjective
  <2>5. f \in FS!Surjection(J, I \ {1})
    <3> HIDE DEF f, J
    <3> QED BY <2>1, <2>3 DEF FS!Surjection
  <2>6. QED
    BY <2>4, <2>5 DEF FS!Bijection
<1>3. Cardinality(I \ {1}) = Cardinality(J)
  <2> HIDE DEF f, J
  <2>1. FS!IsFiniteSet(J)
    BY <1>1, SameSets
  <2>2. FS!Cardinality(I \ {1}) = FS!Cardinality(J)
    BY <1>2, <2>1, FS!FS_Bijection DEF FS!ExistsBijection
  <2>3. QED
    BY <2>2, SameSets
<1>4. IsFiniteSet(I) /\ Cardinality(I) \in Nat
  <2>1. n + 1 \in Nat
    BY SMTT(60)
  <2>2. QED
    BY <2>1, FinitePlaces
<1>5. Cardinality(I \ {1}) = IF 1 \in I THEN Cardinality(I) - 1 ELSE Cardinality(I)
  <2>1. CASE 1 \in I
    BY <1>4, <2>1, OneMoreOrLess
  <2>2. CASE 1 \notin I
    <3>1. I \ {1} = I
      BY <2>2
    <3>2. QED
      BY <2>2, <3>1
  <2>3. QED
    BY <2>1, <2>2
<1>6. QED
  BY <1>1, <1>3, <1>4, <1>5, SMTT(60) DEF One

\* The laws that UringInvariant counts by hold.
LEMMA CountingHolds == Counting
<1>1. \A n \in Nat : \A I \in SUBSET (1 .. n) : IsFiniteSet(I) /\ Cardinality(I) \in Nat
  BY FinitePlaces
<1>2. \A S : IsFiniteSet(S) =>
        /\ Cardinality(S) = 0 <=> S = {}
        /\ \A x \in S : Cardinality(S \ {x}) = Cardinality(S) - 1
        /\ \A x : x \notin S => Cardinality(S \cup {x}) = Cardinality(S) + 1
  BY OneMoreOrLess
<1>3. \A n \in Nat : \A I \in SUBSET (1 .. n + 1) :
        Cardinality(I) = Cardinality({j \in 1 .. n : j + 1 \in I}) + One(1 \in I)
  BY MovedPlaces
<1>4. QED
  BY <1>1, <1>2, <1>3, EmptyAndSingle DEF Counting

-----------------------------------------------------------------------------
(* What holds in every reachable state. *)

\* In every reachable state of the io_uring backend, for any number of sources,
\* contexts and submission entries: the variables have their types, every
\* reference of a context belongs to ctx_map, to its place in the re-arm queue
\* or to an operation of the kernel, poll_armed says whether a POLL_ADD is
\* outstanding, and event_backend_destroy releases nothing twice and frees
\* every context when its drain finished.
THEOREM UringIsSafe ==
  Spec => []ContextsOwned
<1>1. Init => IInv
  BY CountingHolds, InitIInv
<1>2. IInv /\ [Next]_vars => IInv'
  BY CountingHolds, NextIInv
<1>3. IInv => ContextsOwned
  BY IInvSafe DEF ContextsOwned
<1>4. QED
  BY <1>1, <1>2, <1>3, PTL DEF Spec

\* The invariant says of contexts and entries what UringDelivery relies on.
LEMMA InvariantIsTidy == IInv => Tidy
<1> SUFFICES ASSUME IInv, pc # "destroyed" PROVE Traced
  BY DEF Tidy, IInv
<1>1. TypeOK /\ Running
  BY DEF IInv
<1>2. \A s \in Sources : ctx_map[s] # 0 =>
        ctx_map[s] \in 1 .. made /\ ctx[ctx_map[s]].src = s
  BY <1>1 DEF Running, MapInv
<1>3. \A c \in Ctx : /\ c > made => ctx[c] = Blank
                     /\ c <= made => ctx[c].src \in Sources
  BY <1>1 DEF Running, CtxInv
<1>4. \A c \in Ctx : ~ctx[c].armed => kpoll[c] = NoPoll /\ ~Coming(sq, c)
  BY CountingHolds, IdleContext DEF Coming
<1>5. \A i \in 1 .. Len(cq) : cq[i].c \in 1 .. made
  BY CountingHolds, CompletionOwned
<1>6. \A i \in 1 .. Len(cq) : cq[i].c <= made
  <2>1. made \in Nat
    BY <1>1, SMTT(60) DEF TypeOK
  <2>2. QED
    BY <1>5, <2>1, SMTT(60)
<1>7. QED
  BY <1>2, <1>3, <1>4, <1>6 DEF Traced

\* A held context has a reference.
LEMMA HeldIsAlive == IInv /\ EInv => EventsAlive
<1> SUFFICES ASSUME IInv, EInv, NEW i \in 1 .. Len(events)
             PROVE  ctx[events[i].c].refs > 0
  BY DEF EventsAlive
<1>1. PICK c \in Ctx : c = events[i].c
  BY EventsTyped DEF IInv
<1>2. Held(c)
  BY <1>1 DEF EInv, BatchHeld
<1>3. pc # "destroyed" /\ (ctx[c].queued \/ InMap(c))
  BY <1>2 DEF Held
<1>4. QED
  BY <1>1, <1>3, UsedIsAlive

\* When sockets are registered with a non-empty interest, no event of a batch
\* points to a freed SocketContext, whatever the callbacks of the events before
\* it have removed: the re-arm queue still holds a reference until the next
\* event_backend_wait.
THEOREM BatchIsAlive ==
  ASSUME {} \notin Masks
  PROVE  Spec => []EventsAlive
<1>1. IInv /\ EInv /\ [Next]_vars => EInv'
  BY InvariantIsTidy, NextEInv
<1>2. QED
  BY <1>1, CountingHolds, InitIInv, InitEInv, NextIInv, HeldIsAlive, PTL DEF Spec

\* MaskFresh of UringBackend: event_backend_modify of an armed poll, the
\* re-arming in event_backend_wait and the kernel's own pace never leave a
\* socket polled with an older mask than the registered one.
THEOREM InterestIsFresh == Spec => []MaskFresh
<1>1. IInv /\ FreshInv /\ [Next]_vars => FreshInv'
  BY InvariantIsTidy, NextFresh
<1>2. QED
  BY <1>1, CountingHolds, InitIInv, InitFresh, NextIInv, FreshSafe, PTL DEF Spec

\* The backend on io_uring implements the contract of Reactor: a callback runs
\* only for a socket that event_backend_add registered and
\* event_backend_remove has not taken out since, and only for a completion
\* io_uring posted for this registration; callbacks do not nest.
THEOREM UringImplementsReactor == Spec => ImplementsReactor
<1>1. Init => IInv /\ RInv /\ R!Init
  BY CountingHolds, InitIInv, InitRefines
<1>2. IInv /\ RInv /\ [Next]_vars => IInv' /\ RInv'
  BY InvariantIsTidy, CountingHolds, NextIInv, NextRight
<1>3. Tidy /\ Tidy' /\ RInv /\ [Next]_vars => [R!Next]_(R!vars)
  BY StepRefines
<1>4. QED
  BY <1>1, <1>2, <1>3, InvariantIsTidy, PTL DEF Spec, ImplementsReactor, R!Spec

============================================================================
