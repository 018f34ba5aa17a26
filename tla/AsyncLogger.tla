---------------------------- MODULE AsyncLogger ----------------------------
(***************************************************************************)
(* async_logger.c: log events wait in a queue for one worker, which sleeps *)
(* on a condition variable.  What is done under the mutex is one step;     *)
(* the worker writes an event without it.                                  *)
(***************************************************************************)
EXTENDS Integers, Sequences

CONSTANTS QueueLimit,   \* 10000: a log call drops its event when more than that are queued
          MaxEvents

ASSUME LoggerConstants == QueueLimit \in Nat /\ MaxEvents \in Nat

VARIABLES logq, logger_running, logger_pc, event, taken, logged, stop_pc, before

logVars == <<logq, logger_running, logger_pc, event, taken, logged, stop_pc, before>>

LoggerInit ==
    /\ logq = <<>> /\ logger_running = TRUE
    /\ logger_pc = "check" /\ event = 0
    /\ taken = 0 /\ logged = <<>>
    /\ stop_pc = "none" /\ before = 0

(* pthread_cond_signal wakes the worker if it waits.                       *)
Signalled(p) == IF p = "wait" THEN "check" ELSE p

AsyncLogger_log ==
    /\ taken < MaxEvents
    /\ IF Len(logq) > QueueLimit THEN UNCHANGED <<logq, taken, logger_pc>>
       ELSE /\ logq' = Append(logq, taken + 1) /\ taken' = taken + 1
            /\ logger_pc' = Signalled(logger_pc)
    /\ UNCHANGED <<logger_running, event, logged, stop_pc, before>>

(* Under the mutex: wait while running and empty, leave when stopped and   *)
(* empty, else take the oldest event.                                      *)
worker_main ==
    /\ logger_pc = "check"
    /\ IF logq = <<>> THEN /\ logger_pc' = IF logger_running THEN "wait" ELSE "exit"
                           /\ UNCHANGED <<logq, event>>
       ELSE /\ event' = Head(logq) /\ logq' = Tail(logq)
            /\ logger_pc' = "write"
    /\ UNCHANGED <<logger_running, taken, logged, stop_pc, before>>

write_event ==
    /\ logger_pc = "write"
    /\ logged' = Append(logged, event)
    /\ event' = 0 /\ logger_pc' = "check"
    /\ UNCHANGED <<logq, logger_running, taken, stop_pc, before>>

StopUnsignalled ==
    /\ stop_pc = "none"
    /\ logger_running' = FALSE
    /\ stop_pc' = "join" /\ before' = taken
    /\ UNCHANGED <<logq, event, taken, logged, logger_pc>>

AsyncLogger_stop ==
    /\ stop_pc = "none"
    /\ logger_running' = FALSE
    /\ logger_pc' = Signalled(logger_pc)
    /\ stop_pc' = "join" /\ before' = taken
    /\ UNCHANGED <<logq, event, taken, logged>>

pthread_join ==
    /\ stop_pc = "join" /\ logger_pc = "exit"
    /\ stop_pc' = "returned"
    /\ UNCHANGED <<logq, logger_running, logger_pc, event, taken, logged, before>>

LoggerNext == AsyncLogger_log \/ worker_main \/ write_event \/ AsyncLogger_stop \/ pthread_join

(* stop() "after flush" (libcore_api_en.md:494): a stop() that was called  *)
(* returns, and by then every event accepted before it has been written,   *)
(* in order.                                                               *)
StopFlushes ==
    stop_pc = "join" ~> /\ stop_pc = "returned"
                        /\ Len(logged) >= before
                        /\ \A i \in 1..Len(logged) : logged[i] = i

=============================================================================
