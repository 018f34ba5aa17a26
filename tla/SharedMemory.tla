---------------------------- MODULE SharedMemory ----------------------------
(***************************************************************************)
(* shared_memory.c: a segment shared by processes, and a named semaphore   *)
(* that its users lock around write and read.  The owner creates both and  *)
(* unlinks both when it is finalized.  A write is two steps, the bytes and *)
(* then the length; a read is two, the length and then the bytes.          *)
(***************************************************************************)
EXTENDS Integers, Sequences, FiniteSets

CONSTANTS Procs, Owner,
          MaxWrites, MaxLives   \* bounds on the writes and on how often the owner creates

ASSUME ShmConstants == Owner \in Procs /\ MaxWrites \in Nat /\ MaxLives \in Nat

VARIABLES segments,  \* every segment made so far: the message its bytes and its length are of
          sems,      \* its semaphore: TRUE when it can be taken
          shm,       \* for each process its place, its segment (0: none), and what it read
          writes

shmVars == <<segments, sems, shm, writes>>

Cleared == [bytes |-> 0, data_len |-> 0]

Detached == [pc |-> "out", seg |-> 0, msg |-> 0, read |-> {}]

Mapped(k) == [pc |-> "idle", seg |-> k, msg |-> 0, read |-> {}]

ShmInit ==
    /\ segments = <<>> /\ sems = <<>>
    /\ shm = [p \in Procs |-> Detached]
    /\ writes = 0

(* create: the finalizer of the last owner has unlinked the segment and    *)
(* the semaphore, so that both are made anew.                              *)
create_SharedMemory ==
    /\ shm[Owner].pc = "out" /\ Len(segments) < MaxLives
    /\ segments' = Append(segments, Cleared) /\ sems' = Append(sems, TRUE)
    /\ shm' = [shm EXCEPT ![Owner] = Mapped(Len(segments) + 1)]
    /\ UNCHANGED writes

(* Without create the names must exist: the owner is there.                *)
new_SharedMemory(p) ==
    /\ p # Owner /\ shm[p].pc = "out" /\ shm[Owner].pc # "out"
    /\ shm' = [shm EXCEPT ![p] = Mapped(Len(segments))]
    /\ UNCHANGED <<segments, sems, writes>>

(* Others may stay attached to what the owner unlinks.                     *)
SharedMemory_finalize(p) ==
    /\ shm[p].pc = "idle"
    /\ shm' = [shm EXCEPT ![p] = Detached]
    /\ UNCHANGED <<segments, sems, writes>>

LockUntaken(p) ==
    /\ shm[p].pc = "idle"
    /\ sems' = [sems EXCEPT ![shm[p].seg] = FALSE]
    /\ shm' = [shm EXCEPT ![p].pc = "locked", ![p].read = {}]
    /\ UNCHANGED <<segments, writes>>

SharedMemory_lock(p) ==
    /\ shm[p].pc = "idle" /\ sems[shm[p].seg]
    /\ sems' = [sems EXCEPT ![shm[p].seg] = FALSE]
    /\ shm' = [shm EXCEPT ![p].pc = "locked", ![p].read = {}]
    /\ UNCHANGED <<segments, writes>>

SharedMemory_unlock(p) ==
    /\ shm[p].pc = "locked"
    /\ sems' = [sems EXCEPT ![shm[p].seg] = TRUE]
    /\ shm' = [shm EXCEPT ![p].pc = "idle"]
    /\ UNCHANGED <<segments, writes>>

write_bytes(p) ==
    /\ shm[p].pc = "locked" /\ writes < MaxWrites
    /\ writes' = writes + 1
    /\ segments' = [segments EXCEPT ![shm[p].seg].bytes = writes + 1]
    /\ shm' = [shm EXCEPT ![p].pc = "half", ![p].msg = writes + 1]
    /\ UNCHANGED sems

write_length(p) ==
    /\ shm[p].pc = "half"
    /\ segments' = [segments EXCEPT ![shm[p].seg].data_len = shm[p].msg]
    /\ shm' = [shm EXCEPT ![p].pc = "locked"]
    /\ UNCHANGED <<sems, writes>>

(* The length is read first and the bytes are copied after it.             *)
stored_length(p) ==
    /\ shm[p].pc = "locked" /\ segments[shm[p].seg].data_len # 0
    /\ shm' = [shm EXCEPT ![p].pc = "copy", ![p].msg = segments[shm[p].seg].data_len]
    /\ UNCHANGED <<segments, sems, writes>>

read_bytes(p) ==
    /\ shm[p].pc = "copy"
    /\ shm' = [shm EXCEPT ![p].pc = "locked", ![p].read = {shm[p].msg, segments[shm[p].seg].bytes}]
    /\ UNCHANGED <<segments, sems, writes>>

SharedMemory_clear(p) ==
    /\ shm[p].pc = "locked"
    /\ segments' = [segments EXCEPT ![shm[p].seg] = Cleared]
    /\ UNCHANGED <<sems, shm, writes>>

ShmNext ==
    \/ create_SharedMemory
    \/ \E p \in Procs : \/ new_SharedMemory(p) \/ SharedMemory_finalize(p)
                        \/ SharedMemory_lock(p) \/ SharedMemory_unlock(p)
                        \/ write_bytes(p) \/ write_length(p) \/ stored_length(p) \/ read_bytes(p)
                        \/ SharedMemory_clear(p)

(* What a process reads under the lock is one message: the length and the  *)
(* bytes are of the same write, also for processes that are still attached *)
(* to a segment whose owner has gone and created a new one.                *)
ReadsWhole == \A p \in Procs : Cardinality(shm[p].read) <= 1

=============================================================================
