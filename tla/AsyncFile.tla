----------------------------- MODULE AsyncFile -----------------------------
(***************************************************************************)
(* async_file.c: callers queue lines in a ring buffer, one worker appends  *)
(* them to a file that may be changed every day.  stop() lets the worker   *)
(* drain what is queued and joins it.                                      *)
(***************************************************************************)
EXTENDS RingBuffer

CONSTANTS MaxItems, MaxSeconds,
          MonthLength

ASSUME FileConstants == MaxItems \in Nat /\ MaxSeconds \in Nat /\ MonthLength \in Nat \ {0}

VARIABLES ring, rotate_daily,
          file,      \* running, and the worker's place, its item and its local variables
          clock,     \* the second and the day
          accepted,  \* the lines writeAsync took, in order
          handled,   \* the lines the worker is done with: the file's day, and the day it was
          stopped    \* how many lines had been accepted when stop was called, or -1

fileVars == <<ring, rotate_daily, file, clock, accepted, handled, stopped>>

NoFile == 0

FileInit ==
    /\ ring = new_RingBuffer
    /\ rotate_daily \in BOOLEAN
    /\ file = [running |-> TRUE, pc |-> "loop", item |-> Empty, fp |-> NoFile, current_day |-> -1,
               last_check_time |-> -1]
    /\ clock = [second |-> 0, day |-> 1]
    /\ accepted = <<>> /\ handled = <<>>
    /\ stopped = -1

AsyncFile_writeAsync ==
    /\ Len(accepted) < MaxItems
    /\ IF rb_is_full(ring) THEN UNCHANGED <<ring, accepted>>
       ELSE /\ ring' = rb_push(ring, Len(accepted) + 1)
            /\ accepted' = Append(accepted, Len(accepted) + 1)
    /\ UNCHANGED <<rotate_daily, file, clock, handled, stopped>>

(* The worker takes a line, or popWait times out; once running is FALSE it *)
(* takes what is left and then closes the file.                            *)
LeaveLeftover ==
    /\ file.pc = "loop" /\ ~file.running
    /\ file' = [file EXCEPT !.pc = "exit", !.fp = NoFile]
    /\ UNCHANGED <<ring, rotate_daily, clock, accepted, handled, stopped>>

TakeLeftover ==
    /\ file.pc = "loop" /\ ~file.running
    /\ IF ring.count = 0
       THEN file' = [file EXCEPT !.pc = "exit", !.fp = NoFile] /\ UNCHANGED ring
       ELSE file' = [file EXCEPT !.pc = "write", !.item = rb_front(ring)] /\ ring' = rb_pop(ring)
    /\ UNCHANGED <<rotate_daily, clock, accepted, handled, stopped>>

rb_pop_wait ==
    /\ file.pc = "loop" /\ file.running /\ ring.count > 0
    /\ file' = [file EXCEPT !.pc = "write", !.item = rb_front(ring)]
    /\ ring' = rb_pop(ring)
    /\ UNCHANGED <<rotate_daily, clock, accepted, handled, stopped>>

(* The file to write to: with rotation a new one when the day of the month *)
(* has changed, looked at no more than once a second; else the one file,   *)
(* opened on the first line.  fopen may fail.                              *)
tm_mday == clock.day % MonthLength

Rotated(f) ==
    IF ~rotate_daily
    THEN IF f.fp # NoFile THEN {f} ELSE {[f EXCEPT !.fp = o] : o \in {NoFile, clock.day}}
    ELSE IF f.last_check_time = clock.second THEN {f}
    ELSE LET g == [f EXCEPT !.last_check_time = clock.second]
         IN  IF f.current_day = tm_mday THEN {g}
             ELSE {[g EXCEPT !.current_day = tm_mday, !.fp = o] : o \in {NoFile, clock.day}}

async_file_worker ==
    /\ file.pc = "write"
    /\ \E f \in Rotated(file) :
          /\ file' = [f EXCEPT !.pc = "loop", !.item = Empty]
          /\ handled' = Append(handled, [item |-> file.item, to |-> f.fp, day |-> clock.day])
    /\ UNCHANGED <<ring, rotate_daily, clock, accepted, stopped>>

AsyncFile_stop ==
    /\ file.running
    /\ file' = [file EXCEPT !.running = FALSE]
    /\ stopped' = Len(accepted)
    /\ UNCHANGED <<ring, rotate_daily, clock, accepted, handled>>

NextSecond ==
    /\ clock.second < MaxSeconds
    /\ \E d \in {0, 1} : clock' = [second |-> clock.second + 1, day |-> clock.day + d]
    /\ UNCHANGED <<ring, rotate_daily, file, accepted, handled, stopped>>

FileNext == AsyncFile_writeAsync \/ rb_pop_wait \/ TakeLeftover \/ async_file_worker
            \/ AsyncFile_stop \/ NextSecond

(* No accepted line is lost, repeated or overtaken between writeAsync, the *)
(* ring and the worker, and when the worker has ended, which is when       *)
(* stop() returns, every line accepted before stop() has been handled.     *)
AcceptedIsHandled ==
    /\ accepted = [i \in 1..Len(handled) |-> handled[i].item]
                    \o (IF file.item = Empty THEN <<>> ELSE <<file.item>>) \o rb_queued(ring)
    /\ file.pc = "exit" => Len(handled) >= stopped

(* With daily rotation a line goes to the file of the day it is written    *)
(* on, even when the day changes between two lines, and is dropped only on *)
(* a day whose file could not be opened, as long as lines come less than a *)
(* month apart: only the day of the month is compared.                     *)
WrittenOnItsDay ==
    LET day(i) == handled[i].day
        busy == \A i \in 2..Len(handled) : day(i) - day(i - 1) < MonthLength
    IN  rotate_daily /\ busy => \A i \in 1..Len(handled) :
            /\ handled[i].to \in {NoFile, day(i)}
            /\ \A j \in 1..i : day(j) = day(i) => handled[j].to = handled[i].to

(* Every accepted line reaches the worker, and the right file.             *)
LinesKept == AcceptedIsHandled /\ WrittenOnItsDay

=============================================================================
