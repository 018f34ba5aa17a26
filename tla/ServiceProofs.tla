--------------------------- MODULE ServiceProofs ---------------------------
(***************************************************************************)
(* Proofs about the services that run beside the event loop: the shared    *)
(* memory segment, the job scheduler, and the asynchronous file writer     *)
(* with its ring buffer.                                                   *)
(***************************************************************************)
EXTENDS SharedMemory, JobScheduler, AsyncFile,
        FiniteSetTheorems, SequenceTheorems, TLAPS

USE ZenonT(60)

-----------------------------------------------------------------------------
(* Shared memory.  A process between lock and unlock holds the semaphore   *)
(* of its segment alone; only the holder that has stored the bytes of a    *)
(* write and not yet its length leaves a segment that is not one message.  *)

Segment == [bytes : Nat, data_len : Nat]
Place == [pc : {"out", "idle", "locked", "half", "copy"}, seg : Nat, msg : Nat, read : SUBSET Nat]

ShmTypes ==
    /\ segments \in Seq(Segment) /\ sems \in Seq(BOOLEAN) /\ Len(sems) = Len(segments)
    /\ shm \in [Procs -> Place]
    /\ writes \in Nat

Attached == \A p \in Procs : shm[p].pc # "out" => shm[p].seg \in 1..Len(segments)

Holds(p) == shm[p].pc \in {"locked", "half", "copy"}

ShmExclusive ==
    /\ \A p \in Procs : Holds(p) => ~sems[shm[p].seg]
    /\ \A p, q \in Procs : Holds(p) /\ Holds(q) /\ shm[p].seg = shm[q].seg => p = q

HalfWritten(k) == \E p \in Procs : shm[p].pc = "half" /\ shm[p].seg = k

ShmWhole ==
    /\ \A k \in 1..Len(segments) : ~HalfWritten(k) => segments[k].bytes = segments[k].data_len
    /\ \A p \in Procs : shm[p].pc = "half" => segments[shm[p].seg].bytes = shm[p].msg
    /\ \A p \in Procs : shm[p].pc = "copy" => segments[shm[p].seg].data_len = shm[p].msg

ReadOne == \A p \in Procs : \A x, y \in shm[p].read : x = y

ShmInv == ShmTypes /\ Attached /\ ShmExclusive /\ ShmWhole /\ ReadOne

(* ShmInv holds at first: nothing is created.                              *)
LEMMA ShmInitInv == ShmInit => ShmInv
<1> SUFFICES ASSUME ShmInit PROVE ShmInv
    OBVIOUS
<1>1. \A p \in Procs : shm[p] = [pc |-> "out", seg |-> 0, msg |-> 0, read |-> {}]
    BY DEF ShmInit, Detached
<1>2. ShmTypes
    BY SMTT(60) DEF ShmInit, ShmTypes, Detached, Place
<1>3. Attached /\ ReadOne
    BY <1>1, SMTT(60) DEF Attached, ReadOne
<1>4. ShmExclusive
    BY <1>1, SMTT(60) DEF ShmExclusive, Holds
<1>5. ShmWhole
    BY <1>1, SMTT(60) DEF ShmInit, ShmWhole
<1> QED BY <1>2, <1>3, <1>4, <1>5 DEF ShmInv

(* The owner creates a segment that nobody else is attached to.            *)
LEMMA ShmCreateInv == ShmInv /\ create_SharedMemory => ShmInv'
<1> SUFFICES ASSUME ShmInv, create_SharedMemory PROVE ShmInv'
    OBVIOUS
<1> DEFINE n == Len(segments)
<1>1. n \in Nat /\ n = Len(sems) /\ segments \in Seq(Segment) /\ sems \in Seq(BOOLEAN) /\ shm \in [Procs -> Place]
    BY SMTT(60) DEF ShmInv, ShmTypes
<1>2. /\ segments' \in Seq(Segment) /\ Len(segments') = n + 1
      /\ \A k \in 1..n : segments'[k] = segments[k]
      /\ segments'[n + 1] = Cleared
  <2>1. Cleared \in Segment
    BY DEF Cleared, Segment
  <2> QED BY <1>1, <2>1, AppendProperties, SMTT(60) DEF create_SharedMemory
<1>3. /\ sems' \in Seq(BOOLEAN) /\ Len(sems') = n + 1
      /\ \A k \in 1..n : sems'[k] = sems[k]
    BY <1>1, AppendProperties, SMTT(60) DEF create_SharedMemory
<1>4. /\ \A q \in Procs : q # Owner => shm'[q] = shm[q]
      /\ shm'[Owner] = [pc |-> "idle", seg |-> n + 1, msg |-> 0, read |-> {}]
    BY <1>1, ShmConstants DEF create_SharedMemory, Mapped
<1>5. ShmTypes'
  <2>1. shm'[Owner] \in Place
    BY <1>1, <1>4, SMTT(60) DEF Place
  <2>2. shm' \in [Procs -> Place]
    BY <1>1, <2>1 DEF create_SharedMemory
  <2> QED BY <1>2, <1>3, <2>2 DEF ShmTypes, ShmInv, create_SharedMemory
<1>6. Attached'
    BY <1>1, <1>2, <1>4, SMTT(60) DEF Attached, ShmInv
<1>7. ShmExclusive'
  <2>1. \A q \in Procs : Holds(q)' => q # Owner /\ Holds(q) /\ shm'[q] = shm[q] /\ shm[q].seg \in 1..n
    BY <1>4, SMTT(60) DEF Attached, Holds, ShmInv
  <2> QED BY <1>3, <2>1, SMTT(60) DEF ShmExclusive, ShmInv
<1>8. ShmWhole'
  <2>1. \A q \in Procs : shm'[q].pc \in {"half", "copy"} =>
             q # Owner /\ shm'[q] = shm[q] /\ shm[q].seg \in 1..n
    BY <1>4, SMTT(60) DEF Attached, ShmInv
  <2>2. \A q \in Procs : shm[q].pc = "half" => shm'[q] = shm[q]
    BY <1>4 DEF create_SharedMemory
  <2>3. \A k \in 1..n : HalfWritten(k) => HalfWritten(k)'
    BY <2>2 DEF HalfWritten
  <2>4. \A k \in 1..n + 1 : ~HalfWritten(k)' => segments'[k].bytes = segments'[k].data_len
    <3>1. ASSUME NEW k \in 1..n, ~HalfWritten(k)'  PROVE segments'[k].bytes = segments'[k].data_len
      <4>1. ~HalfWritten(k)
        BY <2>3, <3>1
      <4> QED BY <1>1, <1>2, <4>1 DEF ShmWhole, ShmInv
    <3>2. segments'[n + 1].bytes = segments'[n + 1].data_len
      BY <1>2, SMTT(60) DEF Cleared
    <3>3. \A k \in 1..n + 1 : k \in 1..n \/ k = n + 1
      BY <1>1, SMTT(60)
    <3> QED BY <3>1, <3>2, <3>3
  <2>5. \A q \in Procs : shm'[q].pc = "half" => segments'[shm'[q].seg].bytes = shm'[q].msg
    BY <1>2, <2>1, SMTT(60) DEF ShmWhole, ShmInv
  <2>6. \A q \in Procs : shm'[q].pc = "copy" => segments'[shm'[q].seg].data_len = shm'[q].msg
    BY <1>2, <2>1, SMTT(60) DEF ShmWhole, ShmInv
  <2>7. \A k \in 1..Len(segments') : ~HalfWritten(k)' => segments'[k].bytes = segments'[k].data_len
    BY <1>2, <2>4
  <2> QED BY <2>5, <2>6, <2>7 DEF ShmWhole
<1>9. ReadOne'
    BY <1>4, SMTT(60) DEF ReadOne, ShmInv
<1> QED BY <1>5, <1>6, <1>7, <1>8, <1>9 DEF ShmInv

(* A step of process p alone, which leaves r as its place.                 *)
LEMMA ShmMove ==
    ASSUME NEW p \in Procs, shm \in [Procs -> Place], NEW r \in Place, shm' = [shm EXCEPT ![p] = r]
    PROVE  shm' \in [Procs -> Place] /\ shm'[p] = r /\ \A q \in Procs : q # p => shm'[q] = shm[q]
OBVIOUS

(* What an update of a process's place leaves.                             *)
LEMMA PlaceSet ==
    ASSUME NEW r \in Place, NEW m \in Nat, NEW c \in {"locked", "half", "copy"}
    PROVE  /\ [r EXCEPT !.pc = c, !.msg = m] \in Place
           /\ [r EXCEPT !.pc = c, !.msg = m].pc = c /\ [r EXCEPT !.pc = c, !.msg = m].msg = m
           /\ [r EXCEPT !.pc = c, !.msg = m].seg = r.seg /\ [r EXCEPT !.pc = c, !.msg = m].read = r.read
BY DEF Place

(* What a store into a segment leaves.                                     *)
LEMMA SegmentSet ==
    ASSUME NEW g \in Segment, NEW m \in Nat
    PROVE  /\ [g EXCEPT !.bytes = m] \in Segment /\ [g EXCEPT !.bytes = m].bytes = m
           /\ [g EXCEPT !.data_len = m] \in Segment
           /\ [g EXCEPT !.data_len = m].data_len = m /\ [g EXCEPT !.data_len = m].bytes = g.bytes
BY DEF Segment

(* new_SharedMemory attaches to the newest segment, finalize detaches.     *)
LEMMA ShmAttachInv ==
    ASSUME NEW p \in Procs, ShmInv, new_SharedMemory(p) \/ SharedMemory_finalize(p)
    PROVE  ShmInv'
<1>1. shm \in [Procs -> Place] /\ Len(segments) \in Nat
    BY SMTT(60) DEF ShmInv, ShmTypes
<1>2. PICK r \in Place : /\ shm' = [shm EXCEPT ![p] = r] /\ r.read = {}
                        /\ \/ r.pc = "out"
                           \/ r.pc = "idle" /\ r.seg \in 1..Len(segments)
  <2>1. CASE new_SharedMemory(p)
    <3>1. shm[Owner].seg \in 1..Len(segments)
      BY <2>1, ShmConstants DEF new_SharedMemory, ShmInv, Attached
    <3> DEFINE r == Mapped(Len(segments))
    <3>2. r \in Place /\ r.read = {} /\ r.pc = "idle" /\ r.seg \in 1..Len(segments)
      BY <1>1, <3>1, SMTT(60) DEF Place, Mapped
    <3>3. shm' = [shm EXCEPT ![p] = r]
      BY <2>1 DEF new_SharedMemory
    <3> QED BY <3>2, <3>3
  <2>2. CASE SharedMemory_finalize(p)
    <3>1. Detached \in Place
      BY DEF Detached, Place
    <3> QED BY <2>2, <3>1 DEF SharedMemory_finalize, Detached
  <2> QED BY <2>1, <2>2
<1>3. shm' \in [Procs -> Place] /\ shm'[p] = r /\ \A q \in Procs : q # p => shm'[q] = shm[q]
    BY <1>1, <1>2, ShmMove
<1>4. UNCHANGED <<segments, sems, writes>> /\ shm[p].pc \in {"out", "idle"}
    BY DEF new_SharedMemory, SharedMemory_finalize
<1>5. ShmTypes' /\ Attached' /\ ReadOne'
    BY <1>2, <1>3, <1>4, SMTT(60) DEF ShmInv, ShmTypes, Attached, ReadOne
<1>6. ShmExclusive'
    BY <1>2, <1>3, <1>4, SMTT(60) DEF ShmInv, ShmExclusive, Holds
<1>7. ShmWhole'
    BY <1>2, <1>3, <1>4 DEF ShmInv, ShmWhole, HalfWritten
<1> QED BY <1>5, <1>6, <1>7 DEF ShmInv

(* The semaphore changes hands.                                            *)
LEMMA ShmSemaphoreInv ==
    ASSUME NEW p \in Procs, ShmInv, SharedMemory_lock(p) \/ SharedMemory_unlock(p)
    PROVE  ShmInv'
<1> DEFINE s == shm[p].seg
<1>1. /\ shm \in [Procs -> Place] /\ shm[p] \in Place
      /\ sems \in Seq(BOOLEAN) /\ Len(sems) = Len(segments)
    BY DEF ShmInv, ShmTypes
<1>2. shm[p].pc \in {"idle", "locked"} /\ UNCHANGED <<segments, writes>> /\ s \in 1..Len(segments)
    BY DEF SharedMemory_lock, SharedMemory_unlock, ShmInv, Attached
<1>3. PICK r \in Place :
        /\ shm' = [shm EXCEPT ![p] = r] /\ r.seg = s
        /\ \/ r.pc = "locked" /\ r.read = {} /\ SharedMemory_lock(p)
           \/ r.pc = "idle" /\ r.read = shm[p].read /\ SharedMemory_unlock(p)
  <2>1. CASE SharedMemory_lock(p)
    <3> DEFINE r == [shm[p] EXCEPT !.pc = "locked", !.read = {}]
    <3>1. r \in Place /\ r.seg = s /\ r.pc = "locked" /\ r.read = {}
      BY <1>1 DEF Place
    <3>2. shm' = [shm EXCEPT ![p] = r]
      BY <2>1 DEF SharedMemory_lock
    <3> QED BY <2>1, <3>1, <3>2
  <2>2. CASE SharedMemory_unlock(p)
    <3> DEFINE r == [shm[p] EXCEPT !.pc = "idle"]
    <3>1. r \in Place /\ r.seg = s /\ r.pc = "idle" /\ r.read = shm[p].read
      BY <1>1 DEF Place
    <3>2. shm' = [shm EXCEPT ![p] = r]
      BY <2>2 DEF SharedMemory_unlock
    <3> QED BY <2>2, <3>1, <3>2
  <2> QED BY <2>1, <2>2
<1>4. shm' \in [Procs -> Place] /\ shm'[p] = r /\ \A q \in Procs : q # p => shm'[q] = shm[q]
    BY <1>1, <1>3, ShmMove
<1>5. /\ sems' \in Seq(BOOLEAN) /\ Len(sems') = Len(segments)
      /\ r.pc = "locked" => ~sems'[s]
      /\ \A k \in 1..Len(segments) : k # s => sems'[k] = sems[k]
  <2>1. CASE r.pc = "locked"
    <3>1. sems' = [sems EXCEPT ![s] = FALSE]
      BY <1>3, <2>1 DEF SharedMemory_lock
    <3>2. sems' \in Seq(BOOLEAN) /\ Len(sems') = Len(sems)
      BY <1>1, <1>2, <3>1, ExceptSeq, SMTT(60)
    <3>3. ~sems'[s] /\ \A k \in 1..Len(segments) : k # s => sems'[k] = sems[k]
      BY <1>1, <1>2, <3>1, SMTT(60)
    <3> QED BY <1>1, <2>1, <3>2, <3>3
  <2>2. CASE r.pc = "idle"
    <3>1. sems' = [sems EXCEPT ![s] = TRUE]
      BY <1>3, <2>2 DEF SharedMemory_unlock
    <3>2. sems' \in Seq(BOOLEAN) /\ Len(sems') = Len(sems)
      BY <1>1, <1>2, <3>1, ExceptSeq, SMTT(60)
    <3>3. sems'[s] /\ \A k \in 1..Len(segments) : k # s => sems'[k] = sems[k]
      BY <1>1, <1>2, <3>1, SMTT(60)
    <3> QED BY <1>1, <2>2, <3>2, <3>3
  <2> QED BY <1>3, <2>1, <2>2
<1>6. ShmTypes' /\ Attached' /\ ReadOne'
    BY <1>2, <1>3, <1>4, <1>5, SMTT(60) DEF ShmInv, ShmTypes, Attached, ReadOne
<1>7. ShmExclusive'
  <2>1. \A q \in Procs : q # p /\ Holds(q) => shm[q].seg # s
    <3>1. CASE r.pc = "locked"
      BY <1>3, <3>1 DEF SharedMemory_lock, ShmInv, ShmExclusive
    <3>2. CASE r.pc = "idle"
      BY <1>3, <3>2 DEF SharedMemory_unlock, ShmInv, ShmExclusive, Holds
    <3> QED BY <1>3, <3>1, <3>2
  <2>2. \A q \in Procs : Holds(q) => shm[q].seg \in 1..Len(segments)
    BY DEF ShmInv, Attached, Holds
  <2>3. \A q \in Procs : q # p => shm'[q] = shm[q] /\ Holds(q)' = Holds(q)
    BY <1>4 DEF Holds
  <2>4. Holds(p)' => ~sems'[s]
    BY <1>3, <1>4, <1>5 DEF Holds
  <2>5. \A q \in Procs : Holds(q)' => ~sems'[shm'[q].seg]
    BY <1>3, <1>4, <1>5, <2>1, <2>2, <2>3, <2>4 DEF ShmInv, ShmExclusive
  <2>6. \A q, u \in Procs : Holds(q)' /\ Holds(u)' /\ shm'[q].seg = shm'[u].seg => q = u
    BY <1>3, <1>4, <2>1, <2>3, SMTT(60) DEF ShmInv, ShmExclusive
  <2> QED BY <2>5, <2>6 DEF ShmExclusive
<1>8. ShmWhole'
    BY <1>2, <1>3, <1>4 DEF ShmInv, ShmWhole, HalfWritten
<1> QED BY <1>6, <1>7, <1>8 DEF ShmInv

(* A write stores the bytes and then the length; clear does both at once.  *)
LEMMA ShmWriteInv ==
    ASSUME NEW p \in Procs, ShmInv, write_bytes(p) \/ write_length(p) \/ SharedMemory_clear(p)
    PROVE  ShmInv'
<1> DEFINE s == shm[p].seg
<1>1. /\ shm \in [Procs -> Place] /\ shm[p] \in Place /\ writes \in Nat
      /\ segments \in Seq(Segment)
    BY DEF ShmInv, ShmTypes
<1>2. Holds(p) /\ UNCHANGED sems /\ s \in 1..Len(segments) /\ segments[s] \in Segment
    BY <1>1, SMTT(60) DEF write_bytes, write_length, SharedMemory_clear, ShmInv, Attached,
       Holds
<1>3. PICK r \in Place, g \in Segment :
        /\ shm' = [shm EXCEPT ![p] = r] /\ segments' = [segments EXCEPT ![s] = g]
        /\ r.seg = s /\ r.read = shm[p].read /\ writes' \in Nat
        /\ \/ r.pc = "half" /\ g.bytes = r.msg
           \/ r.pc = "locked" /\ g.bytes = g.data_len
  <2>1. CASE write_bytes(p)
    <3>n. PICK n \in Nat : n = writes + 1
      BY <1>1, SMTT(60)
    <3> DEFINE r == [shm[p] EXCEPT !.pc = "half", !.msg = n]
               g == [segments[s] EXCEPT !.bytes = n]
    <3>1. r \in Place /\ r.seg = s /\ r.pc = "half" /\ r.read = shm[p].read /\ r.msg = n
      BY <1>1, <3>n DEF Place
    <3>2. g \in Segment /\ g.bytes = n
      BY <1>2, SegmentSet
    <3>3. shm' = [shm EXCEPT ![p] = r] /\ segments' = [segments EXCEPT ![s] = g] /\ writes' \in Nat
      BY <2>1, <3>n DEF write_bytes
    <3> QED BY <3>1, <3>2, <3>3
  <2>2. CASE write_length(p)
    <3> DEFINE r == [shm[p] EXCEPT !.pc = "locked"]
               g == [segments[s] EXCEPT !.data_len = shm[p].msg]
    <3>1. r \in Place /\ r.seg = s /\ r.pc = "locked" /\ r.read = shm[p].read
      BY <1>1 DEF Place
    <3>2. g \in Segment /\ g.data_len = shm[p].msg /\ g.bytes = segments[s].bytes
      BY <1>1, <1>2 DEF Segment, Place
    <3>3. segments[s].bytes = shm[p].msg
      BY <2>2 DEF write_length, ShmInv, ShmWhole
    <3>4. shm' = [shm EXCEPT ![p] = r] /\ segments' = [segments EXCEPT ![s] = g] /\ writes' \in Nat
      BY <1>1, <2>2 DEF write_length
    <3> QED BY <3>1, <3>2, <3>3, <3>4
  <2>3. CASE SharedMemory_clear(p)
    <3>1. Cleared \in Segment /\ Cleared.bytes = Cleared.data_len
      BY DEF Cleared, Segment
    <3>2. shm' = [shm EXCEPT ![p] = shm[p]] /\ segments' = [segments EXCEPT ![s] = Cleared] /\ writes' \in Nat
      BY <1>1, <2>3 DEF SharedMemory_clear
    <3>3. shm[p].pc = "locked"
      BY <2>3 DEF SharedMemory_clear
    <3> QED BY <1>1, <3>1, <3>2, <3>3
  <2> QED BY <2>1, <2>2, <2>3
<1>4. shm' \in [Procs -> Place] /\ shm'[p] = r /\ \A q \in Procs : q # p => shm'[q] = shm[q]
    BY <1>1, <1>3, ShmMove
<1>5. /\ segments' \in Seq(Segment) /\ Len(segments') = Len(segments)
      /\ segments'[s] = g /\ \A k \in 1..Len(segments) : k # s => segments'[k] = segments[k]
    BY <1>1, <1>2, <1>3, ExceptSeq, SMTT(60)
<1>6. ShmTypes'
    BY <1>2, <1>3, <1>4, <1>5 DEF ShmInv, ShmTypes
<1>7. Attached' /\ ReadOne'
    BY <1>2, <1>3, <1>4, <1>5, SMTT(60) DEF ShmInv, Attached, ReadOne
<1>8. ShmExclusive'
    BY <1>2, <1>3, <1>4, SMTT(60) DEF ShmInv, ShmExclusive, Holds
<1>9. ShmWhole'
  <2>1. \A q \in Procs : q # p /\ shm[q].pc \in {"half", "copy"} =>
            shm[q].seg # s /\ shm[q].seg \in 1..Len(segments) /\ segments'[shm[q].seg] = segments[shm[q].seg]
    BY <1>2, <1>5 DEF ShmInv, ShmExclusive, Holds, Attached
  <2>2. \A k \in 1..Len(segments) : k # s => HalfWritten(k)' = HalfWritten(k)
    BY <1>3, <1>4 DEF HalfWritten
  <2>3. \A k \in 1..Len(segments) : k = s => HalfWritten(k)' \/ g.bytes = g.data_len
    BY <1>3, <1>4 DEF HalfWritten
  <2>4. \A k \in 1..Len(segments') : ~HalfWritten(k)' => segments'[k].bytes = segments'[k].data_len
    <3>1. ASSUME NEW k \in 1..Len(segments), ~HalfWritten(k)'
          PROVE  segments'[k].bytes = segments'[k].data_len
      <4>1. CASE k = s
        BY <1>5, <2>3, <3>1, <4>1
      <4>2. CASE k # s
        BY <1>5, <2>2, <3>1, <4>2 DEF ShmInv, ShmWhole
      <4> QED BY <4>1, <4>2
    <3> QED BY <1>5, <3>1
  <2>5. \A q \in Procs : shm'[q].pc = "half" => segments'[shm'[q].seg].bytes = shm'[q].msg
    BY <1>3, <1>4, <1>5, <2>1, SMTT(60) DEF ShmInv, ShmWhole
  <2>6. \A q \in Procs : shm'[q].pc = "copy" => segments'[shm'[q].seg].data_len = shm'[q].msg
    BY <1>3, <1>4, <1>5, <2>1, SMTT(60) DEF ShmInv, ShmWhole
  <2> QED BY <2>4, <2>5, <2>6 DEF ShmWhole
<1> QED BY <1>6, <1>7, <1>8, <1>9 DEF ShmInv

(* A read takes the length and then the bytes; nobody writes in between.   *)
LEMMA ShmReadInv ==
    ASSUME NEW p \in Procs, ShmInv, stored_length(p) \/ read_bytes(p)
    PROVE  ShmInv'
<1> DEFINE s == shm[p].seg
<1>1. /\ shm \in [Procs -> Place] /\ shm[p] \in Place
      /\ segments \in Seq(Segment)
    BY DEF ShmInv, ShmTypes
<1>2. /\ Holds(p) /\ shm[p].pc # "half" /\ UNCHANGED <<segments, sems, writes>>
      /\ s \in 1..Len(segments) /\ segments[s] \in Segment
    BY <1>1, SMTT(60) DEF stored_length, read_bytes, ShmInv, Attached, Holds
<1>3. segments[s].bytes = segments[s].data_len
    BY <1>2 DEF ShmInv, ShmExclusive, ShmWhole, HalfWritten, Holds
<1>4. PICK r \in Place :
        /\ shm' = [shm EXCEPT ![p] = r] /\ r.seg = s
        /\ \A x, y \in r.read : x = y
        /\ r.pc = "locked" \/ (r.pc = "copy" /\ r.msg = segments[s].data_len)
  <2>1. CASE stored_length(p)
    <3> DEFINE r == [shm[p] EXCEPT !.pc = "copy", !.msg = segments[s].data_len]
    <3>1. r \in Place /\ r.seg = s /\ r.pc = "copy" /\ r.read = shm[p].read /\ r.msg = segments[s].data_len
      BY <1>1, <1>2 DEF Place, Segment
    <3>2. shm' = [shm EXCEPT ![p] = r]
      BY <2>1 DEF stored_length
    <3> QED BY <3>1, <3>2 DEF ShmInv, ReadOne
  <2>2. CASE read_bytes(p)
    <3> DEFINE r == [shm[p] EXCEPT !.pc = "locked", !.read = {shm[p].msg, segments[s].bytes}]
    <3>1. shm[p].msg = segments[s].bytes
      BY <1>3, <2>2 DEF read_bytes, ShmInv, ShmWhole
    <3>2. r \in Place /\ r.seg = s /\ r.pc = "locked" /\ r.read = {shm[p].msg, segments[s].bytes}
      BY <1>1, <1>2 DEF Place, Segment
    <3>3. shm' = [shm EXCEPT ![p] = r]
      BY <2>2 DEF read_bytes
    <3> QED BY <3>1, <3>2, <3>3
  <2> QED BY <2>1, <2>2
<1>5. shm' \in [Procs -> Place] /\ shm'[p] = r /\ \A q \in Procs : q # p => shm'[q] = shm[q]
    BY <1>1, <1>4, ShmMove
<1>6. ShmTypes' /\ Attached' /\ ReadOne'
    BY <1>2, <1>4, <1>5, SMTT(60) DEF ShmInv, ShmTypes, Attached, ReadOne
<1>7. ShmExclusive'
    BY <1>2, <1>4, <1>5, SMTT(60) DEF ShmInv, ShmExclusive, Holds
<1>8. ShmWhole'
    BY <1>2, <1>4, <1>5, SMTT(60) DEF ShmInv, ShmWhole, HalfWritten
<1> QED BY <1>6, <1>7, <1>8 DEF ShmInv

(* What a process reads between lock and unlock is one message             *)
(* (SharedMemory_read against SharedMemory_write), for every number of     *)
(* processes, writes and lives of the owner.                               *)
THEOREM SharedReadsWhole == ShmInit /\ [][ShmNext]_shmVars => []ReadsWhole
<1>1. ShmInit => ShmInv
    BY ShmInitInv
<1>2. ShmInv /\ [ShmNext]_shmVars => ShmInv'
  <2> SUFFICES ASSUME ShmInv, [ShmNext]_shmVars PROVE ShmInv'
    OBVIOUS
  <2>1. CASE create_SharedMemory
    BY <2>1, ShmCreateInv
  <2>2. CASE UNCHANGED shmVars
    BY <2>2 DEF shmVars, ShmInv, ShmTypes, Attached, ShmExclusive, Holds, ShmWhole,
       HalfWritten, ReadOne
  <2> QED
    BY <2>1, <2>2, ShmAttachInv, ShmSemaphoreInv, ShmWriteInv, ShmReadInv DEF ShmNext
<1>3. ShmInv => ReadsWhole
  <2> SUFFICES ASSUME ShmInv, NEW p \in Procs PROVE Cardinality(shm[p].read) <= 1
    BY DEF ReadsWhole
  <2>1. CASE shm[p].read = {}
    BY <2>1, FS_EmptySet, SMTT(60)
  <2>2. ASSUME NEW x \in shm[p].read PROVE Cardinality(shm[p].read) <= 1
    <3>1. shm[p].read = {x}
      BY <2>2, SMTT(60) DEF ShmInv, ReadOne
    <3>2. Cardinality({x}) = 1
      BY FS_Singleton
    <3> QED BY <3>1, <3>2, SMTT(60)
  <2> QED BY <2>1, <2>2
<1> QED BY <1>1, <1>2, <1>3, PTL

-----------------------------------------------------------------------------
(* The job scheduler.  The references of a job are those of the list and   *)
(* of its runs; a submission that the pool refused leaves one too many.    *)

Uses(j) == (IF j \in listed THEN 1 ELSE 0) + queued[j] + active[j]

JobTypes ==
    /\ listed \subseteq Jobs /\ armed \subseteq listed /\ freed \subseteq Jobs
    /\ ref_count \in [Jobs -> Nat] /\ queued \in [Jobs -> Nat] /\ active \in [Jobs -> Nat]

Counted ==
    /\ \A j \in Jobs : ref_count[j] >= Uses(j)
    /\ accepting => \A j \in Jobs : ref_count[j] = Uses(j)
    /\ \A j \in freed : ref_count[j] = 0

JobInv == JobTypes /\ Counted

(* Only one job's counters change in a step.                               *)
LEMMA JobFrame ==
    ASSUME NEW j \in Jobs, JobInv, JobTypes',
           accepting' = accepting,
           \A k \in Jobs : k # j => ref_count'[k] = ref_count[k] /\ Uses(k)' = Uses(k) /\ (k \in freed' <=> k \in freed),
           ref_count'[j] >= Uses(j)', accepting => ref_count'[j] = Uses(j)',
           j \in freed' => ref_count'[j] = 0
    PROVE  JobInv'
BY DEF JobInv, JobTypes, Counted

(* The list and the worker let go of a reference they hold, and the last   *)
(* one finalizes the job.                                                  *)
LEMMA ReleaseCounts ==
    ASSUME NEW j \in Jobs, JobInv, Release(j), Uses(j) > 0
    PROVE  /\ ref_count' \in [Jobs -> Nat] /\ freed' \subseteq Jobs
           /\ ref_count'[j] = ref_count[j] - 1 /\ (j \in freed' => ref_count'[j] = 0)
           /\ \A k \in Jobs : k # j => ref_count'[k] = ref_count[k] /\ (k \in freed' <=> k \in freed)
<1>1. ref_count \in [Jobs -> Nat] /\ ref_count[j] >= Uses(j) /\ Uses(j) \in Nat
    BY SMTT(60) DEF JobInv, JobTypes, Counted, Uses
<1>2. ref_count[j] - 1 \in Nat /\ j \notin freed
    BY <1>1, SMTT(60) DEF JobInv, JobTypes, Counted
<1>3. ref_count' = [ref_count EXCEPT ![j] = ref_count[j] - 1]
    BY DEF Release
<1>4. freed' = IF ref_count[j] = 1 THEN freed \cup {j} ELSE freed
    BY DEF Release
<1>5. j \in freed' => ref_count[j] = 1
    BY <1>2, <1>4
<1> QED BY <1>1, <1>2, <1>3, <1>4, <1>5, SMTT(60) DEF JobInv, JobTypes

(* JobInv is inductive.                                                    *)
LEMMA JobStepInv == JobInv /\ [JobNext]_jobVars => JobInv'
<1> SUFFICES ASSUME JobInv, [JobNext]_jobVars PROVE JobInv'
    OBVIOUS
<1>1. CASE UNCHANGED jobVars
    BY <1>1 DEF jobVars, JobInv, JobTypes, Counted, Uses
<1>2. CASE Scheduler_start_impl \/ Scheduler_stop_impl
    BY <1>2, SMTT(60) DEF Scheduler_start_impl, Scheduler_stop_impl, JobInv, JobTypes,
       Counted, Uses
<1>3. CASE PoolShutdown
  <2>1. ~accepting' /\ UNCHANGED <<listed, armed, ref_count, freed, queued, active>>
    BY <1>3 DEF PoolShutdown
  <2>2. JobTypes' /\ \A j \in Jobs : Uses(j)' = Uses(j)
    <3>1. JobTypes'
      BY <2>1 DEF JobInv, JobTypes
    <3>2. \A j \in Jobs : Uses(j)' = Uses(j)
      BY <2>1 DEF Uses
    <3> QED BY <3>1, <3>2
  <2> QED BY <2>1, <2>2 DEF JobInv, Counted
<1>4. ASSUME NEW j \in Jobs, Scheduler_addEx_impl(j) PROVE JobInv'
  <2>1. ref_count[j] = 0 /\ Uses(j) = 0 /\ queued[j] = 0 /\ active[j] = 0
    <3>1. ref_count[j] = 0 /\ ref_count[j] >= Uses(j) /\ queued[j] \in Nat /\ active[j] \in Nat
      BY <1>4 DEF Scheduler_addEx_impl, JobInv, JobTypes, Counted
    <3> QED BY <3>1, SMTT(60) DEF Uses
  <2>2. CASE listed' = listed \cup {j}
    BY <1>4, <2>1, <2>2, SMTT(60) DEF Scheduler_addEx_impl, JobInv, JobTypes, Counted, Uses
  <2>3. CASE listed' = listed /\ freed' = freed \cup {j} /\ ref_count' = ref_count
    BY <1>4, <2>1, <2>3 DEF Scheduler_addEx_impl, JobInv, JobTypes, Counted, Uses
  <2> QED BY <1>4, <2>2, <2>3 DEF Scheduler_addEx_impl
<1>5. ASSUME NEW j \in Jobs, Scheduler_remove_impl(j) PROVE JobInv'
  <2>1. Uses(j) > 0 /\ Uses(j)' = Uses(j) - 1 /\ \A k \in Jobs : k # j => Uses(k)' = Uses(k)
    BY <1>5, SMTT(60) DEF Scheduler_remove_impl, JobInv, JobTypes, Uses
  <2>2. /\ ref_count' \in [Jobs -> Nat] /\ freed' \subseteq Jobs
        /\ ref_count'[j] = ref_count[j] - 1 /\ (j \in freed' => ref_count'[j] = 0)
        /\ \A k \in Jobs : k # j => ref_count'[k] = ref_count[k] /\ (k \in freed' <=> k \in freed)
    BY <1>5, <2>1, ReleaseCounts DEF Scheduler_remove_impl
  <2>3. JobTypes'
    BY <1>5, <2>2 DEF Scheduler_remove_impl, JobInv, JobTypes
  <2>4. ref_count'[j] >= Uses(j)' /\ (accepting => ref_count'[j] = Uses(j)')
    BY <2>1, <2>2, SMTT(60) DEF JobInv, JobTypes, Counted, Uses
  <2>5. accepting' = accepting
    BY <1>5 DEF Scheduler_remove_impl
  <2> QED BY <2>1, <2>2, <2>3, <2>4, <2>5, JobFrame
<1>6. ASSUME NEW j \in Jobs, on_scheduler_timer_tick(j) PROVE JobInv'
  <2>1. j \in listed /\ j \notin freed /\ ref_count[j] \in Nat /\ Uses(j) \in Nat
    BY <1>6, SMTT(60) DEF on_scheduler_timer_tick, JobInv, JobTypes, Counted, Uses
  <2>2. ref_count' = [ref_count EXCEPT ![j] = ref_count[j] + 1]
    BY <1>6 DEF on_scheduler_timer_tick
  <2>3. \/ accepting /\ queued' = [queued EXCEPT ![j] = queued[j] + 1]
        \/ ~accepting /\ queued' = queued
    BY <1>6 DEF on_scheduler_timer_tick
  <2>4. JobTypes'
    BY <1>6, <2>2, <2>3, SMTT(60) DEF on_scheduler_timer_tick, JobInv, JobTypes
  <2>5. /\ \A k \in Jobs : k # j => Uses(k)' = Uses(k)
        /\ Uses(j)' = IF accepting THEN Uses(j) + 1 ELSE Uses(j)
    BY <1>6, <2>3, SMTT(60) DEF on_scheduler_timer_tick, JobInv, JobTypes, Uses
  <2>6. ref_count'[j] = ref_count[j] + 1 /\ \A k \in Jobs : k # j => ref_count'[k] = ref_count[k]
    BY <2>2 DEF JobInv, JobTypes
  <2>7. ref_count'[j] >= Uses(j)' /\ (accepting => ref_count'[j] = Uses(j)')
    BY <2>1, <2>5, <2>6, SMTT(60) DEF JobInv, Counted
  <2>8. accepting' = accepting /\ freed' = freed
    BY <1>6 DEF on_scheduler_timer_tick
  <2> QED BY <2>1, <2>4, <2>5, <2>6, <2>7, <2>8, JobFrame
<1>7. ASSUME NEW j \in Jobs, schedule_job_start(j) PROVE JobInv'
  <2>1. queued' = [queued EXCEPT ![j] = queued[j] - 1] /\ active' = [active EXCEPT ![j] = active[j] + 1]
        /\ queued[j] > 0 /\ UNCHANGED <<listed, armed, ref_count, freed, accepting>>
    BY <1>7 DEF schedule_job_start
  <2>2. JobTypes'
    BY <2>1, SMTT(60) DEF JobInv, JobTypes
  <2>3. \A k \in Jobs : Uses(k)' = Uses(k)
    BY <2>1, SMTT(60) DEF JobInv, JobTypes, Uses
  <2> QED BY <2>1, <2>2, <2>3 DEF JobInv, Counted
<1>8. ASSUME NEW j \in Jobs, schedule_job_worker_bridge(j) PROVE JobInv'
  <2>1. Uses(j) > 0 /\ Uses(j)' = Uses(j) - 1 /\ \A k \in Jobs : k # j => Uses(k)' = Uses(k)
    BY <1>8, SMTT(60) DEF schedule_job_worker_bridge, JobInv, JobTypes, Uses
  <2>2. /\ ref_count' \in [Jobs -> Nat] /\ freed' \subseteq Jobs
        /\ ref_count'[j] = ref_count[j] - 1 /\ (j \in freed' => ref_count'[j] = 0)
        /\ \A k \in Jobs : k # j => ref_count'[k] = ref_count[k] /\ (k \in freed' <=> k \in freed)
    BY <1>8, <2>1, ReleaseCounts DEF schedule_job_worker_bridge
  <2>3. JobTypes'
    <3>1. active' = [active EXCEPT ![j] = active[j] - 1] /\ active[j] > 0
          /\ UNCHANGED <<listed, armed, queued>>
      BY <1>8 DEF schedule_job_worker_bridge
    <3>2. active' \in [Jobs -> Nat]
      BY <3>1, SMTT(60) DEF JobInv, JobTypes
    <3> QED BY <2>2, <3>1, <3>2 DEF JobInv, JobTypes
  <2>4. ref_count'[j] >= Uses(j)' /\ (accepting => ref_count'[j] = Uses(j)')
    BY <2>1, <2>2, SMTT(60) DEF JobInv, JobTypes, Counted, Uses
  <2>5. accepting' = accepting
    BY <1>8 DEF schedule_job_worker_bridge
  <2> QED BY <2>1, <2>2, <2>3, <2>4, <2>5, JobFrame
<1> QED BY <1>1, <1>2, <1>3, <1>4, <1>5, <1>6, <1>7, <1>8 DEF JobNext

(* A job is not finalized while the list, its timer, a queued run or a     *)
(* callback uses it, and is finalized when nothing does, for any jobs and  *)
(* any number of runs (on_scheduler_timer_tick, RELEASE in scheduler.c).   *)
THEOREM JobsKept == JobInit /\ [][JobNext]_jobVars => []JobsOutliveRuns
<1>1. JobInit => JobInv
    BY SMTT(60) DEF JobInit, JobInv, JobTypes, Counted, Uses
<1>2. JobInv => JobsOutliveRuns
  <2> SUFFICES ASSUME JobInv, NEW j \in Jobs
               PROVE  /\ (j \in listed \/ j \in armed \/ queued[j] + active[j] > 0) => j \notin freed
                      /\ (accepting /\ j \notin listed /\ queued[j] + active[j] = 0) => ref_count[j] = 0
    BY DEF JobsOutliveRuns
  <2>1. /\ ref_count[j] \in Nat /\ queued[j] \in Nat /\ active[j] \in Nat
        /\ ref_count[j] >= Uses(j) /\ (accepting => ref_count[j] = Uses(j))
        /\ (j \in freed => ref_count[j] = 0) /\ (j \in armed => j \in listed)
    BY DEF JobInv, JobTypes, Counted
  <2> QED BY <2>1, SMTT(60) DEF Uses
<1> QED BY <1>1, <1>2, JobStepInv, PTL

-----------------------------------------------------------------------------
(* The ring buffer is a queue: a push appends to rb_queued, a pop takes    *)
(* its head, whatever the head and the tail index are.                     *)

Last == RingCapacity - 1
Lines == Nat \cup {Empty}
Ring == [items : [0..Last -> Lines], head : 0..Last, tail : 0..Last, count : 0..RingCapacity]

Sound(r) == r \in Ring /\ r.head = (r.tail + r.count) % RingCapacity /\ rb_queued(r) \in Seq(Nat)

(* Indices that are less than the capacity apart, and the next one.        *)
LEMMA RingIndex ==
    ASSUME NEW t \in 0..Last, NEW k \in 0..RingCapacity
    PROVE  (t + k) % RingCapacity = IF t + k < RingCapacity THEN t + k ELSE t + k - RingCapacity
BY RingConstants, SMTT(60) DEF Last

(* The index after the last one used is unused.                            *)
LEMMA RingIndices ==
    ASSUME NEW t \in 0..Last, NEW n \in 0..Last
    PROVE  /\ (((t + n) % RingCapacity) + 1) % RingCapacity = (t + (n + 1)) % RingCapacity
           /\ (t + n) % RingCapacity \in 0..Last /\ (t + (n + 1)) % RingCapacity \in 0..Last
           /\ (t + 0) % RingCapacity = t
           /\ \A k \in 0..Last : (t + k) % RingCapacity = (t + n) % RingCapacity => k = n
<1>1. RingCapacity \in Nat \ {0} /\ \A k \in 0..Last : k \in 0..RingCapacity /\ k + 1 \in 0..RingCapacity
    BY RingConstants, SMTT(60) DEF Last
<1>2. (t + n) % RingCapacity = IF t + n < RingCapacity THEN t + n ELSE t + n - RingCapacity
    BY <1>1, RingIndex
<1>3. (t + (n + 1)) % RingCapacity = IF t + (n + 1) < RingCapacity THEN t + (n + 1) ELSE t + (n + 1) - RingCapacity
    BY <1>1, RingIndex
<1>4. \A k \in 0..Last : (t + k) % RingCapacity = IF t + k < RingCapacity THEN t + k ELSE t + k - RingCapacity
    BY <1>1, RingIndex
<1>5. (t + n) % RingCapacity \in 0..Last /\ (t + (n + 1)) % RingCapacity \in 0..Last
    BY <1>1, <1>2, <1>3, SMTT(60) DEF Last
<1>6. \A h \in 0..Last : (h + 1) % RingCapacity = IF h + 1 < RingCapacity THEN h + 1 ELSE h + 1 - RingCapacity
    BY <1>1, RingIndex, SMTT(60) DEF Last
<1>7. (((t + n) % RingCapacity) + 1) % RingCapacity = (t + (n + 1)) % RingCapacity
  <2>1. PICK h \in 0..Last : h = (t + n) % RingCapacity
    BY <1>5
  <2> QED BY <1>1, <1>2, <1>3, <1>6, <2>1, SMTT(60) DEF Last
<1>8. (t + 0) % RingCapacity = t
    BY <1>1, <1>4, SMTT(60) DEF Last
<1>9. \A k \in 0..Last : (t + k) % RingCapacity = (t + n) % RingCapacity => k = n
    BY <1>1, <1>2, <1>4, SMTT(60) DEF Last
<1> QED BY <1>5, <1>7, <1>8, <1>9

(* Indices counted from the next tail.                                     *)
LEMMA RingShift ==
    ASSUME NEW a \in 0..Last
    PROVE  /\ (a + 1) % RingCapacity \in 0..Last
           /\ \A k \in 0..Last : (((a + 1) % RingCapacity) + k) % RingCapacity = (a + (k + 1)) % RingCapacity
<1>1. RingCapacity \in Nat \ {0} /\ 1 \in 0..RingCapacity
    BY RingConstants, SMTT(60)
<1>2. (a + 1) % RingCapacity = IF a + 1 < RingCapacity THEN a + 1 ELSE a + 1 - RingCapacity
    BY <1>1, RingIndex
<1>3. PICK t \in 0..Last : t = (a + 1) % RingCapacity
    BY <1>1, <1>2, SMTT(60) DEF Last
<1>4. ASSUME NEW k \in 0..Last PROVE (t + k) % RingCapacity = (a + (k + 1)) % RingCapacity
  <2>1. k \in 0..RingCapacity /\ k + 1 \in 0..RingCapacity
    BY <1>1, SMTT(60) DEF Last
  <2>2. (t + k) % RingCapacity = IF t + k < RingCapacity THEN t + k ELSE t + k - RingCapacity
    BY <2>1, RingIndex
  <2>3. (a + (k + 1)) % RingCapacity = IF a + (k + 1) < RingCapacity THEN a + (k + 1) ELSE a + (k + 1) - RingCapacity
    BY <2>1, RingIndex
  <2>4. t = IF a + 1 < RingCapacity THEN a + 1 ELSE a + 1 - RingCapacity
    BY <1>2, <1>3
  <2> QED BY <1>1, <2>2, <2>3, <2>4, SMTT(60) DEF Last
<1> QED BY <1>3, <1>4

(* rb_push appends.                                                        *)
LEMMA PushQueued ==
    ASSUME NEW r, Sound(r), ~rb_is_full(r), NEW x \in Nat
    PROVE  Sound(rb_push(r, x)) /\ rb_queued(rb_push(r, x)) = Append(rb_queued(r), x)
<1> DEFINE q == rb_push(r, x)
           C == RingCapacity
<1>1. /\ r \in Ring /\ r.head \in 0..Last /\ r.tail \in 0..Last
      /\ r.count \in 0..Last /\ r.count + 1 \in 0..C /\ r.items \in [0..Last -> Lines]
    BY RingConstants, SMTT(60) DEF Sound, Ring, rb_is_full, Last
<1>2. r.head = (r.tail + r.count) % C /\ (r.head + 1) % C = (r.tail + (r.count + 1)) % C
      /\ (r.head + 1) % C \in 0..Last
  <2>1. r.head = (r.tail + r.count) % C
    BY DEF Sound
  <2>2. /\ (((r.tail + r.count) % C) + 1) % C = (r.tail + (r.count + 1)) % C
        /\ (r.tail + (r.count + 1)) % C \in 0..Last
    BY <1>1, RingIndices
  <2> QED BY <2>1, <2>2
<1>3. q = [r EXCEPT !.items = [r.items EXCEPT ![r.head] = x], !.head = (r.head + 1) % C, !.count = r.count + 1]
    BY DEF rb_push
<1>4. [r.items EXCEPT ![r.head] = x] \in [0..Last -> Lines]
    BY <1>1 DEF Lines
<1>i. PICK I \in [0..Last -> Lines], h \in 0..Last, n \in 0..C :
        I = [r.items EXCEPT ![r.head] = x] /\ h = (r.head + 1) % C /\ n = r.count + 1
    BY <1>1, <1>2, <1>4
<1>j. q = [r EXCEPT !.items = I, !.head = h, !.count = n]
    BY <1>3, <1>i
<1>k. q \in Ring /\ q.items = I /\ q.head = h /\ q.count = n /\ q.tail = r.tail
    BY <1>1, <1>j DEF Ring
<1>6. q \in Ring /\ q.items = [r.items EXCEPT ![r.head] = x] /\ q.head = (r.head + 1) % C
      /\ q.tail = r.tail /\ q.count = r.count + 1
    BY <1>i, <1>k
<1>7. rb_queued(q) = Append(rb_queued(r), x)
  <2>1. rb_queued(r) \in Seq(Nat) /\ Len(rb_queued(r)) = r.count
    BY <1>1, SMTT(60) DEF Sound, rb_queued, Last
  <2>2. /\ Append(rb_queued(r), x) \in Seq(Nat) /\ Len(Append(rb_queued(r), x)) = r.count + 1
        /\ \A i \in 1..r.count : Append(rb_queued(r), x)[i] = rb_queued(r)[i]
        /\ Append(rb_queued(r), x)[r.count + 1] = x
    BY <2>1, AppendProperties, SMTT(60)
  <2>3. ASSUME NEW i \in 1..r.count PROVE rb_queued(q)[i] = rb_queued(r)[i]
    <3>1. i - 1 \in 0..Last /\ i - 1 # r.count /\ r.tail + i - 1 = r.tail + (i - 1) /\ i \in 1..(r.count + 1)
      BY <1>1, RingConstants, SMTT(60) DEF Last
    <3>2. (r.tail + (i - 1)) % C \in 0..Last /\ (r.tail + (i - 1)) % C # (r.tail + r.count) % C
      BY <1>1, <3>1, RingIndices
    <3>3. rb_queued(q)[i] = q.items[(r.tail + i - 1) % C] /\ rb_queued(r)[i] = r.items[(r.tail + i - 1) % C]
      BY <1>6, <3>1 DEF rb_queued
    <3> QED BY <1>1, <1>2, <1>6, <3>1, <3>2, <3>3
  <2>4. rb_queued(q)[r.count + 1] = x
    <3>1. r.tail + (r.count + 1) - 1 = r.tail + r.count /\ r.count + 1 \in 1..(r.count + 1)
      BY <1>1, SMTT(60) DEF Last
    <3>2. rb_queued(q)[r.count + 1] = q.items[(r.tail + r.count) % C]
      BY <1>6, <3>1 DEF rb_queued
    <3> QED BY <1>1, <1>2, <1>6, <3>2
  <2>5. rb_queued(q) = [i \in 1..(r.count + 1) |-> rb_queued(q)[i]]
    BY <1>6 DEF rb_queued
  <2>6. \A i \in 1..(r.count + 1) : i \in 1..r.count \/ i = r.count + 1
    BY <1>1, SMTT(60) DEF Last
  <2>7. rb_queued(q) \in Seq(Nat) /\ Len(rb_queued(q)) = r.count + 1
    <3>1. \A i \in 1..r.count : rb_queued(r)[i] \in Nat
      BY <2>1, SMTT(60)
    <3>2. \A i \in 1..(r.count + 1) : rb_queued(q)[i] \in Nat
      BY <2>3, <2>4, <2>6, <3>1
    <3>3. r.count + 1 \in Nat
      BY <1>1, SMTT(60) DEF Last
    <3>4. rb_queued(q) \in [1..(r.count + 1) -> Nat]
      BY <2>5, <3>2
    <3> QED BY <3>3, <3>4, SMTT(60)
  <2>8. \A i \in 1..Len(rb_queued(q)) : rb_queued(q)[i] = Append(rb_queued(r), x)[i]
    BY <2>2, <2>3, <2>4, <2>6, <2>7
  <2> QED BY <2>2, <2>7, <2>8, SeqEqual
<1>8. rb_queued(q) \in Seq(Nat)
    BY <1>7, AppendProperties, SMTT(60) DEF Sound
<1> QED BY <1>2, <1>6, <1>7, <1>8 DEF Sound

(* rb_pop takes the oldest item.                                           *)
LEMMA PopQueued ==
    ASSUME NEW r, Sound(r), r.count > 0
    PROVE  /\ Sound(rb_pop(r)) /\ rb_front(r) \in Nat
           /\ rb_queued(r) = <<rb_front(r)>> \o rb_queued(rb_pop(r))
<1> DEFINE q == rb_pop(r)
           C == RingCapacity
<1>1. /\ r \in Ring /\ r.head \in 0..Last /\ r.tail \in 0..Last
      /\ r.count - 1 \in 0..Last /\ r.count \in 1..C /\ r.items \in [0..Last -> Lines]
    BY RingConstants, SMTT(60) DEF Sound, Ring, Last
<1>2. PICK I \in [0..Last -> Lines], t \in 0..Last, n \in 0..Last :
        I = [r.items EXCEPT ![r.tail] = Empty] /\ t = (r.tail + 1) % C /\ n = r.count - 1
  <2>1. [r.items EXCEPT ![r.tail] = Empty] \in [0..Last -> Lines]
    BY <1>1 DEF Lines
  <2>2. (r.tail + 1) % C \in 0..Last
    BY <1>1, RingShift
  <2> QED BY <1>1, <2>1, <2>2
<1>3. q = [r EXCEPT !.items = I, !.tail = t, !.count = n]
    BY <1>2 DEF rb_pop
<1>4. n \in 0..C /\ r.count = n + 1
    BY <1>1, <1>2, RingConstants, SMTT(60) DEF Last
<1>5. q \in Ring /\ q.items = I /\ q.head = r.head /\ q.count = n /\ q.tail = t
    BY <1>1, <1>3, <1>4 DEF Ring
(* The k-th item after the pop is the next one before it.                  *)
<1>6. \A k \in 0..n : (t + k) % C = (r.tail + (k + 1)) % C
  <2>1. \A k \in 0..n : k \in 0..Last
    BY <1>1, <1>2, RingConstants, SMTT(60) DEF Last
  <2> QED BY <1>1, <1>2, <2>1, RingShift
<1>7. r.head = (t + n) % C
    BY <1>1, <1>4, <1>6, SMTT(60) DEF Sound
<1>8. /\ rb_queued(r) \in Seq(Nat) /\ Len(rb_queued(r)) = n + 1
      /\ \A i \in 1..(n + 1) : rb_queued(r)[i] = r.items[(r.tail + i - 1) % C]
    BY <1>1, <1>4, SMTT(60) DEF Sound, rb_queued
<1>9. rb_front(r) = rb_queued(r)[1] /\ rb_front(r) \in Nat
  <2>1. r.tail + 1 - 1 = r.tail + 0 /\ 1 \in 1..(n + 1)
    BY <1>1, <1>4, SMTT(60) DEF Last
  <2>2. (r.tail + 0) % C = r.tail
    BY <1>1, RingIndices
  <2> QED BY <1>8, <2>1, <2>2, SMTT(60) DEF rb_front
<1>10. ASSUME NEW i \in 1..n PROVE rb_queued(q)[i] = rb_queued(r)[i + 1]
  <2>1. /\ i - 1 \in 0..n /\ i + 1 \in 1..(n + 1) /\ t + i - 1 = t + (i - 1)
        /\ r.tail + (i + 1) - 1 = r.tail + ((i - 1) + 1) /\ i \in 0..Last /\ 0 \in 0..Last /\ i # 0
        /\ (i - 1) + 1 = i
    BY <1>1, <1>2, RingConstants, SMTT(60) DEF Last
  <2>2. rb_queued(q)[i] = I[(t + (i - 1)) % C]
    BY <1>5, <2>1 DEF rb_queued
  <2>3. (t + (i - 1)) % C = (r.tail + i) % C
    BY <1>6, <2>1
  <2>4. rb_queued(r)[i + 1] = r.items[(r.tail + i) % C]
    BY <1>8, <2>1
  <2>5. (r.tail + i) % C \in 0..Last /\ (r.tail + i) % C # (r.tail + 0) % C /\ (r.tail + 0) % C = r.tail
    <3>1. (r.tail + i) % C \in 0..Last /\ (r.tail + 0) % C = r.tail
      BY <1>1, <2>1, RingIndices
    <3>2. (r.tail + i) % C # (r.tail + 0) % C
      BY <1>1, <2>1, RingIndices
    <3> QED BY <3>1, <3>2
  <2> QED BY <1>1, <1>2, <2>2, <2>3, <2>4, <2>5
<1>11. rb_queued(q) \in Seq(Nat) /\ Len(rb_queued(q)) = n
  <2>1. \A i \in 1..n : i + 1 \in 1..(n + 1) /\ rb_queued(r)[i + 1] \in Nat
    BY <1>4, <1>8, SMTT(60)
  <2>2. rb_queued(q) = [i \in 1..n |-> rb_queued(q)[i]]
    BY <1>5 DEF rb_queued
  <2>3. rb_queued(q) \in [1..n -> Nat]
    BY <1>10, <2>1, <2>2
  <2> QED BY <1>4, <2>3, SMTT(60)
<1>12. rb_queued(r) = <<rb_front(r)>> \o rb_queued(q)
  <2> DEFINE s == <<rb_front(r)>> \o rb_queued(q)
  <2>1. <<rb_front(r)>> \in Seq(Nat) /\ Len(<<rb_front(r)>>) = 1 /\ <<rb_front(r)>>[1] = rb_front(r)
    BY <1>9, SMTT(60)
  <2>2. /\ s \in Seq(Nat) /\ Len(s) = 1 + n
        /\ \A i \in 1..(1 + n) : s[i] = IF i <= 1 THEN <<rb_front(r)>>[i] ELSE rb_queued(q)[i - 1]
    BY <1>11, <2>1, ConcatProperties
  <2>3. ASSUME NEW i \in 1..(n + 1) PROVE s[i] = rb_queued(r)[i]
    <3>1. CASE i = 1
      BY <1>4, <1>9, <2>1, <2>2, <3>1, SMTT(60)
    <3>2. CASE i # 1
      <4>1. i - 1 \in 1..n /\ (i - 1) + 1 = i /\ i \in 1..(1 + n) /\ ~(i <= 1)
        BY <1>4, <3>2, SMTT(60)
      <4> QED BY <1>10, <2>2, <4>1
    <3> QED BY <3>1, <3>2
  <2>4. Len(s) = Len(rb_queued(r)) /\ \A i \in 1..Len(s) : s[i] = rb_queued(r)[i]
    BY <1>4, <1>8, <2>2, <2>3, SMTT(60)
  <2> QED BY <1>8, <2>2, <2>4, SeqEqual
<1> QED BY <1>5, <1>7, <1>9, <1>11, <1>12 DEF Sound

-----------------------------------------------------------------------------
(* The asynchronous file.                                                  *)

Worker == [running : BOOLEAN, pc : {"loop", "write", "exit"}, item : Lines,
           fp : Nat, current_day : Int, last_check_time : Int]
HandledLine == [item : Nat, to : Nat, day : Nat]

FileTypes ==
    /\ Sound(ring) /\ rotate_daily \in BOOLEAN /\ file \in Worker
    /\ clock \in [second : Nat, day : Nat]
    /\ accepted \in Seq(Nat) /\ handled \in Seq(HandledLine) /\ stopped \in Int

HandledItems == [i \in 1..Len(handled) |-> handled[i].item]
Held == IF file.item = Empty THEN <<>> ELSE <<file.item>>

(* Where each accepted line is; the worker leaves with nothing queued that *)
(* was accepted before stop().                                             *)
LineInv ==
    /\ accepted = HandledItems \o Held \o rb_queued(ring)
    /\ file.item = Empty <=> file.pc # "write"
    /\ stopped <= Len(accepted)
    /\ file.pc = "exit" => Len(handled) >= stopped /\ ~file.running

(* HandledItems of a handled line more.                                    *)
LEMMA HandledItemsSeq == handled \in Seq(HandledLine) => HandledItems \in Seq(Nat) /\ Len(HandledItems) = Len(handled)
<1> SUFFICES ASSUME handled \in Seq(HandledLine) PROVE HandledItems \in Seq(Nat) /\ Len(HandledItems) = Len(handled)
    OBVIOUS
<1>1. Len(handled) \in Nat /\ \A i \in 1..Len(handled) : handled[i].item \in Nat
  <2>1. \A i \in 1..Len(handled) : handled[i] \in HandledLine
    BY ElementOfSeq
  <2> QED BY <2>1, SMTT(60) DEF HandledLine
<1>2. HandledItems \in [1..Len(handled) -> Nat]
    BY <1>1 DEF HandledItems
<1> QED BY <1>1, <1>2, SMTT(60)

(* Between two lines, the accepted ones are those handled and those queued. *)
LEMMA LineLengths ==
    ASSUME FileTypes, LineInv, file.item = Empty
    PROVE  Len(accepted) = Len(handled) + Len(rb_queued(ring)) /\ accepted = HandledItems \o rb_queued(ring)
<1>1. HandledItems \in Seq(Nat) /\ Len(HandledItems) = Len(handled) /\ rb_queued(ring) \in Seq(Nat)
    BY HandledItemsSeq DEF FileTypes, Sound
<1>2. accepted = HandledItems \o <<>> \o rb_queued(ring)
    BY DEF LineInv, Held
<1>3. HandledItems \o <<>> = HandledItems
    BY <1>1, ConcatEmptySeq
<1>4. accepted = HandledItems \o rb_queued(ring)
    BY <1>2, <1>3
<1>5. Len(HandledItems \o rb_queued(ring)) = Len(HandledItems) + Len(rb_queued(ring))
    BY <1>1, ConcatProperties
<1> QED BY <1>1, <1>4, <1>5

(* The worker takes the oldest line (rb_pop_wait, the leftover loop).      *)
LEMMA TakeLineInv ==
    ASSUME FileTypes, LineInv, file.pc = "loop", ring.count > 0,
           file' = [file EXCEPT !.pc = "write", !.item = rb_front(ring)], ring' = rb_pop(ring),
           UNCHANGED <<rotate_daily, clock, accepted, handled, stopped>>
    PROVE  FileTypes' /\ LineInv'
<1>1. /\ Sound(ring') /\ rb_front(ring) \in Nat
      /\ rb_queued(ring) = <<rb_front(ring)>> \o rb_queued(ring')
    BY PopQueued DEF FileTypes
<1>2. rb_front(ring) # Empty /\ rb_front(ring) \in Lines
    BY <1>1, RingConstants DEF Lines
<1>3. file' \in Worker /\ file'.pc = "write" /\ file'.item = rb_front(ring) /\ file'.running = file.running
    BY <1>2 DEF FileTypes, Worker
<1>4. FileTypes'
    BY <1>1, <1>3 DEF FileTypes
<1>5. accepted = HandledItems \o <<rb_front(ring)>> \o rb_queued(ring')
  <2>1. file.item = Empty
    BY DEF LineInv
  <2>2. HandledItems \in Seq(Nat) /\ <<rb_front(ring)>> \in Seq(Nat) /\ rb_queued(ring') \in Seq(Nat)
    BY <1>1, HandledItemsSeq, SMTT(60) DEF FileTypes, Sound
  <2>3. accepted = HandledItems \o (<<rb_front(ring)>> \o rb_queued(ring'))
    BY <1>1, <2>1, LineLengths
  <2>4. (HandledItems \o <<rb_front(ring)>>) \o rb_queued(ring')
          = HandledItems \o (<<rb_front(ring)>> \o rb_queued(ring'))
    BY <2>2, ConcatAssociative, SMTT(60)
  <2> QED BY <2>3, <2>4
<1>6. HandledItems' = HandledItems /\ Held' = <<rb_front(ring)>>
    BY <1>2, <1>3 DEF HandledItems, Held
<1>7. accepted' = HandledItems' \o Held' \o rb_queued(ring')
    BY <1>5, <1>6
<1>8. rb_queued(ring)' = rb_queued(ring')
    BY DEF rb_queued
<1> QED BY <1>2, <1>3, <1>4, <1>7, <1>8 DEF LineInv

(* A line is accepted, or refused when the ring is full.                   *)
LEMMA WriteAsyncInv ==
    ASSUME FileTypes, LineInv, AsyncFile_writeAsync
    PROVE  FileTypes' /\ LineInv'
<1>1. UNCHANGED <<rotate_daily, file, clock, handled, stopped>>
    BY DEF AsyncFile_writeAsync
<1>2. HandledItems' = HandledItems /\ Held' = Held
    BY <1>1 DEF HandledItems, Held
<1>3. CASE UNCHANGED <<ring, accepted>>
    BY <1>1, <1>2, <1>3 DEF FileTypes, LineInv, Sound, rb_queued
<1>4. CASE /\ ~rb_is_full(ring) /\ ring' = rb_push(ring, Len(accepted) + 1)
           /\ accepted' = Append(accepted, Len(accepted) + 1)
  <2>1. PICK x \in Nat : x = Len(accepted) + 1
    BY SMTT(60) DEF FileTypes
  <2>2. Sound(ring') /\ rb_queued(ring') = Append(rb_queued(ring), x)
    BY <1>4, <2>1, PushQueued DEF FileTypes
  <2>3. /\ accepted \in Seq(Nat) /\ rb_queued(ring) \in Seq(Nat) /\ HandledItems \in Seq(Nat)
        /\ Held \in Seq(Nat) /\ <<x>> \in Seq(Nat)
    <3>1. Held \in Seq(Nat)
      BY SMTT(60) DEF FileTypes, Worker, Lines, Held
    <3> QED BY <3>1, HandledItemsSeq, SMTT(60) DEF FileTypes, Sound
  <2>4. HandledItems \o Held \in Seq(Nat)
    BY <2>3, ConcatProperties
  <2>5. /\ Append(accepted, x) = accepted \o <<x>>
        /\ Append(rb_queued(ring), x) = rb_queued(ring) \o <<x>>
    BY <2>3, AppendIsConcat
  <2>6. (HandledItems \o Held \o rb_queued(ring)) \o <<x>> = HandledItems \o Held \o (rb_queued(ring) \o <<x>>)
    BY <2>3, <2>4, ConcatAssociative, SMTT(60)
  <2>7. accepted' = HandledItems' \o Held' \o rb_queued(ring')
    BY <1>2, <1>4, <2>1, <2>2, <2>5, <2>6 DEF LineInv
  <2>8. accepted' \in Seq(Nat) /\ Len(accepted') = Len(accepted) + 1
    BY <1>4, <2>1, <2>3, AppendProperties
  <2>9. rb_queued(ring)' = rb_queued(ring')
    BY DEF rb_queued
  <2>10. FileTypes'
    BY <1>1, <2>2, <2>8 DEF FileTypes
  <2>11. stopped' <= Len(accepted')
    BY <1>1, <2>3, <2>8, SMTT(60) DEF LineInv, FileTypes
  <2> QED BY <1>1, <2>7, <2>9, <2>10, <2>11 DEF LineInv
<1> QED BY <1>3, <1>4 DEF AsyncFile_writeAsync

(* The worker is done with the line it took.                               *)
LEMMA WriteLineInv ==
    ASSUME FileTypes, LineInv, async_file_worker
    PROVE  FileTypes' /\ LineInv'
<1>1. UNCHANGED <<ring, rotate_daily, clock, accepted, stopped>> /\ file.pc = "write"
    BY DEF async_file_worker
<1>2. PICK f \in Rotated(file) :
          /\ file' = [f EXCEPT !.pc = "loop", !.item = Empty]
          /\ handled' = Append(handled, [item |-> file.item, to |-> f.fp, day |-> clock.day])
    BY DEF async_file_worker
<1>3. clock.day \in Nat /\ clock.second \in Int /\ file \in Worker /\ file.item \in Nat
    BY <1>1, SMTT(60) DEF FileTypes, LineInv, Worker, Lines
<1>4. f \in Worker /\ f.running = file.running
  <2>1. tm_mday \in Int
    BY <1>3, FileConstants, SMTT(60) DEF tm_mday
  <2>2. \A o \in Nat : /\ [file EXCEPT !.fp = o] \in Worker
                       /\ [file EXCEPT !.fp = o].running = file.running
    BY <1>3 DEF Worker
  <2>3. \A c \in Int : /\ [file EXCEPT !.last_check_time = c] \in Worker
                       /\ [file EXCEPT !.last_check_time = c].running = file.running
    BY <1>3 DEF Worker
  <2>4. \A g \in Worker, d \in Int, o \in Nat : /\ [g EXCEPT !.current_day = d, !.fp = o] \in Worker
                                             /\ [g EXCEPT !.current_day = d, !.fp = o].running = g.running
    BY DEF Worker
  <2>5. \/ f = file
        \/ \E o \in {NoFile, clock.day} : f = [file EXCEPT !.fp = o]
        \/ f = [file EXCEPT !.last_check_time = clock.second]
        \/ \E o \in {NoFile, clock.day} :
              f = [[file EXCEPT !.last_check_time = clock.second] EXCEPT !.current_day = tm_mday, !.fp = o]
    BY <1>2 DEF Rotated
  <2>6. NoFile \in Nat
    BY DEF NoFile
  <2>7. PICK g \in Worker : g = [file EXCEPT !.last_check_time = clock.second] /\ g.running = file.running
    BY <1>3, <2>3
  <2>8. \/ f = file \/ f = g
        \/ \E o \in Nat : f = [file EXCEPT !.fp = o]
        \/ \E o \in Nat, d \in Int : f = [g EXCEPT !.current_day = d, !.fp = o]
    BY <1>3, <2>1, <2>5, <2>6, <2>7
  <2>9. ASSUME NEW o \in Nat, f = [file EXCEPT !.fp = o] PROVE f \in Worker /\ f.running = file.running
    BY <2>2, <2>9
  <2>10. ASSUME NEW o \in Nat, NEW d \in Int, f = [g EXCEPT !.current_day = d, !.fp = o]
         PROVE  f \in Worker /\ f.running = file.running
    <3>1. f \in Worker /\ f.running = g.running
      BY <2>4, <2>10
    <3> QED BY <2>7, <3>1
  <2> QED BY <1>3, <2>7, <2>8, <2>9, <2>10
<1>5. file' \in Worker /\ file'.pc = "loop" /\ file'.item = Empty /\ file'.running = file.running
    BY <1>2, <1>4 DEF Worker, Lines
<1>6. [item |-> file.item, to |-> f.fp, day |-> clock.day] \in HandledLine
    BY <1>3, <1>4 DEF Worker, HandledLine
<1>7. handled \in Seq(HandledLine) /\ rb_queued(ring) \in Seq(Nat) /\ HandledItems \in Seq(Nat)
    BY HandledItemsSeq DEF FileTypes, Sound
<1>8. /\ handled' \in Seq(HandledLine) /\ Len(handled') = Len(handled) + 1
      /\ \A i \in 1..Len(handled) : handled'[i] = handled[i]
      /\ handled'[Len(handled) + 1] = [item |-> file.item, to |-> f.fp, day |-> clock.day]
    BY <1>2, <1>6, <1>7, AppendProperties, SMTT(60)
<1>9. FileTypes'
    BY <1>1, <1>5, <1>8 DEF FileTypes, Sound, rb_queued
<1>10. HandledItems' = HandledItems \o <<file.item>>
  <2>1. HandledItems' \in Seq(Nat) /\ Len(HandledItems') = Len(handled) + 1
    <3>1. Len(handled') \in Nat /\ \A i \in 1..Len(handled') : handled'[i].item \in Nat
      <4>1. \A i \in 1..Len(handled') : handled'[i] \in HandledLine
        BY <1>8, ElementOfSeq
      <4> QED BY <1>8, <4>1, SMTT(60) DEF HandledLine
    <3>2. HandledItems' \in [1..Len(handled') -> Nat]
      BY <3>1 DEF HandledItems
    <3> QED BY <1>8, <3>1, <3>2, SMTT(60)
  <2>2. <<file.item>> \in Seq(Nat) /\ Len(<<file.item>>) = 1 /\ <<file.item>>[1] = file.item
    BY <1>3, SMTT(60)
  <2>3. Len(HandledItems) = Len(handled) /\ Len(handled) \in Nat
    BY <1>7, HandledItemsSeq, SMTT(60)
  <2>4. /\ HandledItems \o <<file.item>> \in Seq(Nat) /\ Len(HandledItems \o <<file.item>>) = Len(handled) + 1
        /\ \A i \in 1..(Len(handled) + 1) : (HandledItems \o <<file.item>>)[i] =
               IF i <= Len(handled) THEN HandledItems[i] ELSE <<file.item>>[i - Len(handled)]
    <3>1. /\ HandledItems \o <<file.item>> \in Seq(Nat)
          /\ Len(HandledItems \o <<file.item>>) = Len(HandledItems) + Len(<<file.item>>)
          /\ \A i \in 1..(Len(HandledItems) + Len(<<file.item>>)) : (HandledItems \o <<file.item>>)[i] =
               IF i <= Len(HandledItems) THEN HandledItems[i] ELSE <<file.item>>[i - Len(HandledItems)]
      BY <1>7, <2>2, ConcatProperties
    <3> QED BY <2>2, <2>3, <3>1
  <2>5. ASSUME NEW i \in 1..(Len(handled) + 1) PROVE HandledItems'[i] = (HandledItems \o <<file.item>>)[i]
    <3>1. HandledItems'[i] = handled'[i].item
      BY <1>8, <2>3 DEF HandledItems
    <3>2. CASE i = Len(handled) + 1
      <4>1. ~(i <= Len(handled)) /\ i - Len(handled) = 1
        BY <2>3, <3>2, SMTT(60)
      <4> QED BY <1>8, <2>2, <2>4, <3>1, <3>2, <4>1, SMTT(60)
    <3>3. CASE i # Len(handled) + 1
      <4>1. i \in 1..Len(handled) /\ i <= Len(handled)
        BY <2>3, <3>3, SMTT(60)
      <4> QED BY <1>8, <2>4, <3>1, <4>1 DEF HandledItems
    <3> QED BY <3>2, <3>3
  <2> QED BY <2>1, <2>4, <2>5, SeqEqual
<1>11. accepted' = HandledItems' \o Held' \o rb_queued(ring)'
  <2>1. file.item # Empty
    BY <1>3, RingConstants
  <2>2. accepted = HandledItems \o <<file.item>> \o rb_queued(ring)
    BY <2>1 DEF LineInv, Held
  <2>3. Held' = <<>> /\ rb_queued(ring)' = rb_queued(ring)
    BY <1>1, <1>5 DEF Held, rb_queued
  <2>4. HandledItems' \o <<>> = HandledItems'
    <3>1. HandledItems \o <<file.item>> \in Seq(Nat)
      BY <1>3, <1>7, ConcatProperties, SMTT(60)
    <3> QED BY <1>10, <3>1, ConcatEmptySeq
  <2> QED BY <1>1, <1>10, <2>2, <2>3, <2>4
<1> QED BY <1>1, <1>5, <1>9, <1>11 DEF LineInv

(* LineInv is inductive.                                                   *)
LEMMA LineStepInv ==
    ASSUME FileTypes, LineInv, [FileNext]_fileVars
    PROVE  FileTypes' /\ LineInv'
<1>1. CASE AsyncFile_writeAsync
    BY <1>1, WriteAsyncInv
<1>2. CASE rb_pop_wait
    BY <1>2, TakeLineInv DEF rb_pop_wait
<1>3. CASE TakeLeftover
  <2>1. CASE ring.count # 0
    <3>1. ring.count > 0
      BY <2>1, SMTT(60) DEF FileTypes, Sound, Ring
    <3> QED BY <1>3, <2>1, <3>1, TakeLineInv DEF TakeLeftover
  <2>2. CASE ring.count = 0
    <3>1. /\ file' = [file EXCEPT !.pc = "exit", !.fp = NoFile] /\ file.pc = "loop" /\ ~file.running
          /\ UNCHANGED <<ring, rotate_daily, clock, accepted, handled, stopped>>
      BY <1>3, <2>2 DEF TakeLeftover
    <3>2. file' \in Worker /\ file'.pc = "exit" /\ file'.item = file.item /\ file'.running = file.running
      BY <3>1 DEF FileTypes, Worker, NoFile
    <3>3. file.item = Empty
      BY <3>1 DEF LineInv
    <3>4. Len(rb_queued(ring)) = 0
      BY <2>2, SMTT(60) DEF rb_queued
    <3>5. Len(handled) >= stopped
      BY <3>3, <3>4, LineLengths, SMTT(60) DEF LineInv, FileTypes
    <3>6. HandledItems' = HandledItems /\ Held' = Held /\ rb_queued(ring)' = rb_queued(ring)
      BY <3>1, <3>2, SMTT(60) DEF HandledItems, Held, rb_queued
    <3>7. FileTypes'
      BY <3>1, <3>2 DEF FileTypes, Sound, rb_queued
    <3> QED BY <3>1, <3>2, <3>3, <3>5, <3>6, <3>7 DEF LineInv
  <2> QED BY <2>1, <2>2
<1>4. CASE async_file_worker
    BY <1>4, WriteLineInv
<1>5. CASE AsyncFile_stop
  <2>1. /\ file.running /\ file' = [file EXCEPT !.running = FALSE] /\ stopped' = Len(accepted)
        /\ UNCHANGED <<ring, rotate_daily, clock, accepted, handled>>
    BY <1>5 DEF AsyncFile_stop
  <2>2. file' \in Worker /\ file'.pc = file.pc /\ file'.item = file.item
    BY <2>1 DEF FileTypes, Worker
  <2>3. file.pc # "exit"
    BY <2>1 DEF LineInv
  <2>4. HandledItems' = HandledItems /\ Held' = Held /\ rb_queued(ring)' = rb_queued(ring)
    BY <2>1, <2>2, SMTT(60) DEF HandledItems, Held, rb_queued
  <2>5. FileTypes'
    BY <2>1, <2>2, SMTT(60) DEF FileTypes, Sound, rb_queued
  <2>6. stopped' <= Len(accepted')
    BY <2>1, SMTT(60) DEF FileTypes
  <2> QED BY <2>1, <2>2, <2>3, <2>4, <2>5, <2>6 DEF LineInv
<1>6. CASE NextSecond
  <2>1. UNCHANGED <<ring, rotate_daily, file, accepted, handled, stopped>>
    BY <1>6 DEF NextSecond
  <2>2. clock' \in [second : Nat, day : Nat]
    BY <1>6, SMTT(60) DEF NextSecond, FileTypes
  <2>3. HandledItems' = HandledItems /\ Held' = Held /\ rb_queued(ring)' = rb_queued(ring)
    BY <2>1 DEF HandledItems, Held, rb_queued
  <2>4. FileTypes'
    BY <2>1, <2>2 DEF FileTypes, Sound, rb_queued
  <2> QED BY <2>1, <2>3, <2>4 DEF LineInv
<1>7. CASE UNCHANGED fileVars
  <2>1. UNCHANGED <<ring, rotate_daily, file, clock, accepted, handled, stopped>>
    BY <1>7 DEF fileVars
  <2>2. HandledItems' = HandledItems /\ Held' = Held /\ rb_queued(ring)' = rb_queued(ring)
    BY <2>1 DEF HandledItems, Held, rb_queued
  <2>3. FileTypes'
    BY <2>1 DEF FileTypes, Sound, rb_queued
  <2> QED BY <2>1, <2>2, <2>3 DEF LineInv
<1> QED BY <1>1, <1>2, <1>3, <1>4, <1>5, <1>6, <1>7 DEF FileNext

-----------------------------------------------------------------------------
(* Daily rotation.  The days of the handled lines grow; the worker's file, *)
(* the day of the month it remembers and the second it looked at last are  *)
(* those of the last line.                                                 *)

Busy == \A i \in 2..Len(handled) : handled[i].day - handled[i - 1].day < MonthLength
OnItsDay ==
    \A i \in 1..Len(handled) :
        /\ handled[i].to \in {NoFile, handled[i].day}
        /\ \A j \in 1..i : handled[j].day = handled[i].day => handled[j].to = handled[i].to

DayOrder ==
    /\ \A i, j \in 1..Len(handled) : i <= j => handled[i].day <= handled[j].day
    /\ \A i \in 1..Len(handled) : handled[i].day <= clock.day
    /\ file.last_check_time <= clock.second

LastLine ==
    IF Len(handled) = 0 THEN file.current_day = -1 /\ file.last_check_time = -1
    ELSE /\ file.current_day = handled[Len(handled)].day % MonthLength
         /\ file.fp = handled[Len(handled)].to
         /\ file.last_check_time = clock.second => handled[Len(handled)].day = clock.day

DayInv == rotate_daily => (Busy => OnItsDay) /\ DayOrder /\ (file.pc # "exit" => LastLine)

(* Division with remainder.                                                *)
LEMMA DivMod ==
    ASSUME NEW m \in Nat, m > 0, NEW a \in Int
    PROVE  a = m * (a \div m) + (a % m)
BY SMTT(60)

(* Numbers less than m apart with the same remainder are the same.         *)
LEMMA ModSame ==
    ASSUME NEW m \in Nat, m > 0, NEW a \in Nat, NEW b \in Nat, a <= b, b - a < m, a % m = b % m
    PROVE  a = b
<1>1. PICK p \in Int : a = m * p + (a % m)
  <2>1. a \div m \in Int /\ a = m * (a \div m) + (a % m)
    BY DivMod, SMTT(60)
  <2> QED BY <2>1
<1>2. PICK q \in Int : b = m * q + (a % m)
  <2>1. b \div m \in Int /\ b = m * (b \div m) + (b % m)
    BY DivMod, SMTT(60)
  <2> QED BY <2>1
<1>3. PICK r \in Int : r = a % m
    BY SMTT(60)
<1>4. PICK d \in Int : d = q - p
    BY SMTT(60)
<1>5. b - a = m * d
  <2>1. a = m * p + r /\ b = m * q + r
    BY <1>1, <1>2, <1>3
  <2> QED BY <1>4, <2>1, SMTT(60)
<1>6. d = 0
  <2>1. d >= 1 => m * d >= m
    BY SMTT(60)
  <2>2. d <= -1 => m * d <= -m
    BY SMTT(60)
  <2> QED BY <1>5, <2>1, <2>2, SMTT(60)
<1> QED BY <1>5, <1>6, SMTT(60)

(* The file that the worker writes a line to, seen from the last line: the *)
(* same file, or another one opened on a day that is not the last line's.  *)
LEMMA RotatedFile ==
    ASSUME FileTypes, LineInv, DayInv, rotate_daily, file.pc = "write", NEW f \in Rotated(file)
    PROVE  /\ f.current_day = clock.day % MonthLength /\ f.last_check_time = clock.second
           /\ \/ /\ Len(handled) > 0 /\ f.fp = handled[Len(handled)].to
                 /\ handled[Len(handled)].day % MonthLength = clock.day % MonthLength
              \/ /\ f.fp \in {NoFile, clock.day}
                 /\ Len(handled) > 0 => handled[Len(handled)].day # clock.day
<1>1. /\ clock.day \in Nat /\ clock.second \in Nat /\ file \in Worker /\ Len(handled) \in Nat
      /\ MonthLength \in Nat \ {0} /\ tm_mday = clock.day % MonthLength
    BY FileConstants, SMTT(60) DEF FileTypes, tm_mday
<1>2. tm_mday \in Nat
    BY <1>1, SMTT(60)
<1>3. LastLine
    BY DEF DayInv
<1>4. CASE file.last_check_time = clock.second
  <2>1. f = file /\ Len(handled) > 0
    BY <1>1, <1>3, <1>4, SMTT(60) DEF Rotated, LastLine
  <2> QED BY <1>1, <1>3, <1>4, <2>1, SMTT(60) DEF LastLine
<1>5. CASE file.last_check_time # clock.second /\ file.current_day = tm_mday
  <2>1. f = [file EXCEPT !.last_check_time = clock.second]
    BY <1>5 DEF Rotated
  <2>2. f.fp = file.fp /\ f.current_day = file.current_day /\ f.last_check_time = clock.second
    BY <1>1, <2>1 DEF Worker
  <2>3. Len(handled) > 0
    BY <1>1, <1>2, <1>3, <1>5, SMTT(60) DEF LastLine
  <2> QED BY <1>1, <1>3, <1>5, <2>2, <2>3, SMTT(60) DEF LastLine
<1>6. CASE file.last_check_time # clock.second /\ file.current_day # tm_mday
  <2>1. PICK o \in {NoFile, clock.day} :
          f = [[file EXCEPT !.last_check_time = clock.second] EXCEPT !.current_day = tm_mday, !.fp = o]
    BY <1>6 DEF Rotated
  <2>2. f.fp = o /\ f.current_day = tm_mday /\ f.last_check_time = clock.second
    BY <1>1, <2>1 DEF Worker
  <2>3. Len(handled) > 0 => handled[Len(handled)].day # clock.day
    BY <1>1, <1>3, <1>6, SMTT(60) DEF LastLine
  <2> QED BY <1>1, <2>2, <2>3
<1> QED BY <1>4, <1>5, <1>6

(* One more line keeps DayInv.                                             *)
LEMMA WriteDayInv ==
    ASSUME FileTypes, LineInv, DayInv, async_file_worker
    PROVE  DayInv'
<1> SUFFICES ASSUME rotate_daily' PROVE (Busy' => OnItsDay') /\ DayOrder' /\ (file'.pc # "exit" => LastLine')
    BY DEF DayInv
<1> DEFINE n == Len(handled)
<1>1. UNCHANGED <<ring, rotate_daily, clock, accepted, stopped>> /\ file.pc = "write" /\ rotate_daily
    BY DEF async_file_worker
<1>2. PICK f \in Rotated(file) :
          /\ file' = [f EXCEPT !.pc = "loop", !.item = Empty]
          /\ handled' = Append(handled, [item |-> file.item, to |-> f.fp, day |-> clock.day])
    BY DEF async_file_worker
<1>3. /\ f.current_day = clock.day % MonthLength /\ f.last_check_time = clock.second
      /\ \/ /\ n > 0 /\ f.fp = handled[n].to
            /\ handled[n].day % MonthLength = clock.day % MonthLength
         \/ /\ f.fp \in {NoFile, clock.day}
            /\ n > 0 => handled[n].day # clock.day
    BY <1>1, RotatedFile
<1>4. FileTypes' /\ LineInv'
    BY WriteLineInv
<1>5. /\ n \in Nat /\ clock.day \in Nat /\ clock.second \in Nat /\ MonthLength \in Nat /\ MonthLength > 0
      /\ \A i \in 1..n : handled[i].day \in Nat
  <2>1. \A i \in 1..n : handled[i] \in HandledLine
    BY ElementOfSeq DEF FileTypes
  <2> QED BY <2>1, FileConstants, SMTT(60) DEF FileTypes, HandledLine
<1>6. file'.current_day = f.current_day /\ file'.last_check_time = f.last_check_time /\ file'.fp = f.fp
  <2>1. file' \in Worker
    BY <1>4 DEF FileTypes
  <2>2. DOMAIN f = {"running", "pc", "item", "fp", "current_day", "last_check_time"}
    BY <1>2, <2>1 DEF Worker
  <2> QED BY <1>2, <2>2
<1>7. /\ Len(handled') = n + 1 /\ \A i \in 1..n : handled'[i] = handled[i]
      /\ handled'[n + 1].to = f.fp /\ handled'[n + 1].day = clock.day
    BY <1>2, SMTT(60) DEF FileTypes
<1>8. DayOrder'
  <2>1. \A i \in 1..(n + 1) : i \in 1..n \/ i = n + 1
    BY <1>5, SMTT(60)
  <2>2. \A i \in 1..(n + 1) : handled'[i].day <= clock.day
    BY <1>1, <1>5, <1>7, <2>1, SMTT(60) DEF DayInv, DayOrder
  <2>3. ASSUME NEW i \in 1..(n + 1), NEW j \in 1..(n + 1), i <= j PROVE handled'[i].day <= handled'[j].day
    <3>1. CASE j = n + 1
      BY <1>7, <2>2, <3>1
    <3>2. CASE j # n + 1
      <4>1. i \in 1..n /\ j \in 1..n
        BY <1>5, <2>3, <3>2, SMTT(60)
      <4> QED BY <1>1, <1>7, <2>3, <4>1 DEF DayInv, DayOrder
    <3> QED BY <3>1, <3>2
  <2>4. file'.last_check_time <= clock'.second
    BY <1>1, <1>3, <1>5, <1>6, SMTT(60)
  <2> QED BY <1>1, <1>7, <2>2, <2>3, <2>4 DEF DayOrder
<1>9. LastLine'
    BY <1>1, <1>3, <1>5, <1>6, <1>7, SMTT(60) DEF LastLine
<1>10. ASSUME Busy' PROVE OnItsDay'
  <2>1. Busy
    <3>1. ASSUME NEW i \in 2..n PROVE handled[i].day - handled[i - 1].day < MonthLength
      <4>1. i \in 2..Len(handled') /\ i \in 1..n /\ i - 1 \in 1..n
        BY <1>5, <1>7, SMTT(60)
      <4> QED BY <1>7, <1>10, <4>1 DEF Busy
    <3> QED BY <3>1 DEF Busy
  <2>2. OnItsDay /\ DayOrder
    BY <1>1, <2>1 DEF DayInv
  <2>3. \/ n > 0 /\ f.fp = handled[n].to /\ handled[n].day = clock.day
        \/ f.fp \in {NoFile, clock.day} /\ (n > 0 => handled[n].day # clock.day)
    <3>1. CASE n > 0 /\ f.fp = handled[n].to /\ handled[n].day % MonthLength = clock.day % MonthLength
      <4>1. n \in 1..n /\ n + 1 \in 2..Len(handled') /\ (n + 1) - 1 = n
        BY <1>5, <1>7, <3>1, SMTT(60)
      <4>2. clock.day - handled[n].day < MonthLength
        BY <1>7, <1>10, <4>1 DEF Busy
      <4>3. handled[n].day <= clock.day /\ handled[n].day \in Nat
        BY <1>5, <2>2, <4>1 DEF DayOrder
      <4>4. handled[n].day = clock.day
        BY <1>5, <3>1, <4>2, <4>3, ModSame
      <4> QED BY <3>1, <4>4
    <3> QED BY <1>3, <3>1
  <2>4. \A i \in 1..n : /\ handled'[i].to \in {NoFile, handled'[i].day}
                       /\ \A j \in 1..i : handled'[j].day = handled'[i].day => handled'[j].to = handled'[i].to
    <3>1. \A i \in 1..n : \A j \in 1..i : j \in 1..n
      BY <1>5, SMTT(60)
    <3> QED BY <1>7, <2>2, <3>1, SMTT(60) DEF OnItsDay
  <2>5. f.fp \in {NoFile, clock.day}
    <3>1. CASE n > 0 /\ f.fp = handled[n].to /\ handled[n].day = clock.day
      <4>1. n \in 1..n
        BY <1>5, <3>1, SMTT(60)
      <4> QED BY <2>2, <3>1, <4>1 DEF OnItsDay
    <3> QED BY <2>3, <3>1
  <2>6. ASSUME NEW j \in 1..n, handled[j].day = clock.day PROVE handled[j].to = f.fp
    <3>1. n \in 1..n /\ j <= n /\ n > 0 /\ j \in 1..n
      BY <1>5, SMTT(60)
    <3>2. handled[j].day <= handled[n].day /\ handled[n].day <= clock.day
      BY <2>2, <3>1 DEF DayOrder
    <3>3. handled[n].day = clock.day
      BY <1>5, <2>6, <3>1, <3>2, SMTT(60)
    <3>4. f.fp = handled[n].to
      BY <2>3, <3>1, <3>3
    <3> QED BY <2>2, <2>6, <3>1, <3>3, <3>4 DEF OnItsDay
  <2>7. /\ handled'[n + 1].to \in {NoFile, handled'[n + 1].day}
        /\ \A j \in 1..(n + 1) : handled'[j].day = handled'[n + 1].day => handled'[j].to = handled'[n + 1].to
    <3>1. \A j \in 1..(n + 1) : j \in 1..n \/ j = n + 1
      BY <1>5, SMTT(60)
    <3> QED BY <1>7, <2>5, <2>6, <3>1
  <2>8. \A i \in 1..(n + 1) : i \in 1..n \/ i = n + 1
    BY <1>5, SMTT(60)
  <2> QED BY <1>7, <2>4, <2>7, <2>8 DEF OnItsDay
<1> QED BY <1>8, <1>9, <1>10

(* DayInv is inductive.                                                    *)
LEMMA DayStepInv ==
    ASSUME FileTypes, LineInv, DayInv, [FileNext]_fileVars
    PROVE  DayInv'
<1>1. CASE async_file_worker
    BY <1>1, WriteDayInv
<1>2. CASE NextSecond
  <2>1. UNCHANGED <<ring, rotate_daily, file, accepted, handled, stopped>>
    BY <1>2 DEF NextSecond
  <2>2. /\ clock'.second = clock.second + 1 /\ clock'.day >= clock.day
        /\ clock.second \in Nat /\ clock.day \in Nat /\ clock'.day \in Nat
    BY <1>2, SMTT(60) DEF NextSecond, FileTypes
  <2>3. \A i \in 1..Len(handled) : handled[i].day \in Nat
    <3>1. \A i \in 1..Len(handled) : handled[i] \in HandledLine
      BY ElementOfSeq DEF FileTypes
    <3> QED BY <3>1 DEF HandledLine
  <2>4. file.last_check_time \in Int
    BY DEF FileTypes, Worker
  <2>5. (Busy' <=> Busy) /\ (OnItsDay' <=> OnItsDay)
    BY <2>1 DEF Busy, OnItsDay
  <2>6. DayOrder => DayOrder'
    BY <2>1, <2>2, <2>3, <2>4, SMTT(60) DEF DayOrder
  <2>7. DayOrder /\ LastLine => LastLine'
    BY <2>1, <2>2, <2>4, SMTT(60) DEF DayOrder, LastLine
  <2> QED BY <2>1, <2>5, <2>6, <2>7 DEF DayInv
<1>3. CASE TakeLeftover /\ ring.count = 0
  <2>1. file' = [file EXCEPT !.pc = "exit", !.fp = NoFile] /\ UNCHANGED <<rotate_daily, clock, handled>>
    BY <1>3 DEF TakeLeftover
  <2>2. file'.pc = "exit" /\ file'.last_check_time = file.last_check_time
    BY <2>1 DEF FileTypes, Worker
  <2> QED BY <2>1, <2>2 DEF DayInv, Busy, OnItsDay, DayOrder
<1>4. CASE /\ UNCHANGED <<rotate_daily, clock, handled>>
           /\ file'.current_day = file.current_day /\ file'.last_check_time = file.last_check_time
           /\ file'.fp = file.fp /\ (file'.pc = "exit" <=> file.pc = "exit")
    BY <1>4 DEF DayInv, Busy, OnItsDay, DayOrder, LastLine
<1>5. CASE rb_pop_wait \/ (TakeLeftover /\ ring.count # 0)
  <2>1. /\ file' = [file EXCEPT !.pc = "write", !.item = rb_front(ring)] /\ file.pc = "loop"
        /\ UNCHANGED <<rotate_daily, clock, handled>>
    BY <1>5 DEF rb_pop_wait, TakeLeftover
  <2>2. /\ file'.current_day = file.current_day /\ file'.last_check_time = file.last_check_time
        /\ file'.fp = file.fp /\ file'.pc = "write"
    BY <2>1 DEF FileTypes, Worker
  <2> QED BY <1>4, <2>1, <2>2
<1>6. CASE AsyncFile_stop
  <2>1. file' = [file EXCEPT !.running = FALSE] /\ UNCHANGED <<rotate_daily, clock, handled>>
    BY <1>6 DEF AsyncFile_stop
  <2>2. /\ file'.current_day = file.current_day /\ file'.last_check_time = file.last_check_time
        /\ file'.fp = file.fp /\ file'.pc = file.pc
    BY <2>1 DEF FileTypes, Worker
  <2> QED BY <1>4, <2>1, <2>2
<1>7. CASE AsyncFile_writeAsync \/ UNCHANGED fileVars
    BY <1>4, <1>7 DEF AsyncFile_writeAsync, fileVars
<1> QED BY <1>1, <1>2, <1>3, <1>5, <1>6, <1>7 DEF FileNext

(* Every line that writeAsync accepted reaches the file, once and in       *)
(* order, before stop() returns, and with rotation the file of its day,    *)
(* for every capacity of the ring and any number of lines and days.        *)
THEOREM FileKeepsLines == FileInit /\ [][FileNext]_fileVars => []LinesKept
<1> DEFINE Inv == FileTypes /\ LineInv /\ DayInv
<1>1. FileInit => Inv
  <2> SUFFICES ASSUME FileInit PROVE Inv
    OBVIOUS
  <2>1. /\ file = [running |-> TRUE, pc |-> "loop", item |-> Empty, fp |-> NoFile, current_day |-> -1,
                   last_check_time |-> -1]
        /\ handled = <<>> /\ accepted = <<>> /\ stopped = -1 /\ ring = new_RingBuffer
        /\ clock = [second |-> 0, day |-> 1] /\ rotate_daily \in BOOLEAN
    BY DEF FileInit
  <2>2. rb_queued(ring) = <<>> /\ Sound(ring)
    <3>1. ring.count = 0 /\ ring.tail = 0 /\ ring.head = 0
      BY <2>1 DEF new_RingBuffer
    <3>2. ring \in Ring
      BY <2>1, RingConstants, SMTT(60) DEF new_RingBuffer, Ring, Lines, Last
    <3>3. 0 \in 0..Last /\ (0 + 0) % RingCapacity = 0
      <4>1. 0 \in 0..Last
        BY RingConstants, SMTT(60) DEF Last
      <4> QED BY <4>1, RingIndices
    <3>4. rb_queued(ring) = <<>>
      BY <3>1, SMTT(60) DEF rb_queued
    <3> QED BY <3>1, <3>2, <3>3, <3>4, SMTT(60) DEF Sound
  <2>3. file \in Worker
    BY <2>1, SMTT(60) DEF Worker, Lines, NoFile
  <2>4. FileTypes
    <3>1. clock \in [second : Nat, day : Nat]
      BY <2>1
    <3>2. accepted \in Seq(Nat) /\ handled \in Seq(HandledLine) /\ stopped \in Int
      BY <2>1, SMTT(60)
    <3> QED BY <2>1, <2>2, <2>3, <3>1, <3>2 DEF FileTypes
  <2>5. HandledItems = <<>> /\ Held = <<>>
    BY <2>1, SMTT(60) DEF HandledItems, Held
  <2>6. LineInv
    BY <2>1, <2>2, <2>5, SMTT(60) DEF LineInv
  <2>7. DayInv
    BY <2>1, SMTT(60) DEF DayInv, Busy, OnItsDay, DayOrder, LastLine
  <2> QED BY <2>4, <2>6, <2>7
<1>2. Inv /\ [FileNext]_fileVars => Inv'
    BY LineStepInv, DayStepInv
<1>3. Inv => LinesKept
  <2>1. Inv => AcceptedIsHandled
    BY DEF LineInv, AcceptedIsHandled, HandledItems, Held
  <2>2. Inv => WrittenOnItsDay
    BY DEF DayInv, Busy, OnItsDay, WrittenOnItsDay
  <2> QED BY <2>1, <2>2 DEF LinesKept
<1> QED BY <1>1, <1>2, <1>3, PTL

=============================================================================
