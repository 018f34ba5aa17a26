---------------------------- MODULE JobScheduler ----------------------------
(***************************************************************************)
(* scheduler.c: named jobs, each with a timer of the event loop, run by    *)
(* the thread pool.  A job is counted by reference: the job list holds one *)
(* and every run queued to the pool holds one.  The list is changed by the *)
(* loop's thread; the pool's workers run beside it.                        *)
(***************************************************************************)
EXTENDS Integers, FiniteSets

CONSTANTS Jobs, MaxRuns   \* the jobs, and how many runs may wait in the pool

ASSUME JobConstants == MaxRuns \in Nat

VARIABLES listed,    \* the jobs in the list
          armed,     \* the jobs whose timer runs
          ref_count, \* 0 before addEx and once finalized
          freed,     \* the jobs that were finalized
          queued,    \* for each job, the runs in the pool's queue
          active,    \* for each job, the runs a worker is executing
          accepting  \* the pool takes submissions

jobVars == <<listed, armed, ref_count, freed, queued, active, accepting>>

JobInit ==
    /\ listed = {} /\ armed = {} /\ freed = {}
    /\ ref_count = [j \in Jobs |-> 0]
    /\ queued = [j \in Jobs |-> 0] /\ active = [j \in Jobs |-> 0]
    /\ accepting = TRUE

(* RELEASE: the last reference finalizes the job and its timer.            *)
Release(j) ==
    /\ ref_count' = [ref_count EXCEPT ![j] = @ - 1]
    /\ freed' = IF ref_count[j] = 1 THEN freed \cup {j} ELSE freed

(* Created with one reference, retained by the list, released by addEx;    *)
(* when the loop refuses the timer the list gives the job back.            *)
Scheduler_addEx_impl(j) ==
    /\ j \notin listed /\ j \notin freed /\ ref_count[j] = 0
    /\ \/ /\ listed' = listed \cup {j}
          /\ ref_count' = [ref_count EXCEPT ![j] = 1] /\ UNCHANGED freed
       \/ freed' = freed \cup {j} /\ UNCHANGED <<listed, ref_count>>
    /\ UNCHANGED <<armed, queued, active, accepting>>

Scheduler_start_impl ==
    /\ armed' = listed
    /\ UNCHANGED <<listed, ref_count, freed, queued, active, accepting>>

Scheduler_stop_impl ==
    /\ armed' = {}
    /\ UNCHANGED <<listed, ref_count, freed, queued, active, accepting>>

(* remove: the timer leaves the loop, then the list releases the job; when *)
(* the loop fails to remove the timer nothing changes.                     *)
Scheduler_remove_impl(j) ==
    /\ j \in listed
    /\ armed' = armed \ {j} /\ listed' = listed \ {j}
    /\ Release(j)
    /\ UNCHANGED <<queued, active, accepting>>

TickUnretained(j) ==
    /\ j \in armed /\ queued[j] + active[j] < MaxRuns
    /\ queued' = IF accepting THEN [queued EXCEPT ![j] = @ + 1] ELSE queued
    /\ UNCHANGED <<listed, armed, ref_count, freed, active, accepting>>

(* The tick retains the job for the run it submits.  What submit answers   *)
(* is ignored: a pool that refuses leaves the reference behind.            *)
on_scheduler_timer_tick(j) ==
    /\ j \in armed /\ ref_count[j] <= MaxRuns
    /\ ref_count' = [ref_count EXCEPT ![j] = @ + 1]
    /\ queued' = IF accepting THEN [queued EXCEPT ![j] = @ + 1] ELSE queued
    /\ UNCHANGED <<listed, armed, freed, active, accepting>>

schedule_job_start(j) ==
    /\ queued[j] > 0
    /\ queued' = [queued EXCEPT ![j] = @ - 1] /\ active' = [active EXCEPT ![j] = @ + 1]
    /\ UNCHANGED <<listed, armed, ref_count, freed, accepting>>

schedule_job_worker_bridge(j) ==
    /\ active[j] > 0
    /\ active' = [active EXCEPT ![j] = @ - 1]
    /\ Release(j)
    /\ UNCHANGED <<listed, armed, queued, accepting>>

PoolShutdown ==
    /\ accepting /\ accepting' = FALSE
    /\ UNCHANGED <<listed, armed, ref_count, freed, queued, active>>

JobNext ==
    \/ Scheduler_start_impl \/ Scheduler_stop_impl \/ PoolShutdown
    \/ \E j \in Jobs : \/ Scheduler_addEx_impl(j) \/ Scheduler_remove_impl(j)
                       \/ on_scheduler_timer_tick(j) \/ schedule_job_start(j)
                       \/ schedule_job_worker_bridge(j)

(* A job is not finalized while the list, its timer, a queued run or a     *)
(* running callback still uses it, and while the pool accepts runs it is   *)
(* finalized once nothing does.                                            *)
JobsOutliveRuns ==
    \A j \in Jobs :
        /\ (j \in listed \/ j \in armed \/ queued[j] + active[j] > 0) => j \notin freed
        /\ (accepting /\ j \notin listed /\ queued[j] + active[j] = 0) => ref_count[j] = 0

=============================================================================
