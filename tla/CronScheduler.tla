--------------------------- MODULE CronScheduler ---------------------------
(***************************************************************************)
(* cron_scheduler.c: jobs with cron expressions, looked at by a worker     *)
(* about five times a second; each due job gets a detached thread.  The    *)
(* job table is an array under a mutex.                                    *)
(***************************************************************************)
EXTENDS Integers, Sequences, FiniteSets

CONSTANTS CronNames,
          CronFields,    \* the seconds fields that addCron may be given
          MinuteLength,  \* 60
          MaxTime, MaxCrons

ASSUME CronConstants == MinuteLength \in Nat \ {0} /\ MaxTime \in Nat /\ MaxCrons \in Nat

VARIABLES crons,       \* jobs[0 .. job_count - 1], each with a number of its own
          adds,        \* how many jobs were added
          live,        \* the numbers of those that were not removed
          cron_time,   \* the time in seconds
          last_sec,
          fired        \* for a job's number and a time, how many callbacks were started

cronVars == <<crons, adds, live, cron_time, last_sec, fired>>

-----------------------------------------------------------------------------
(* A field is [every |-> n] for "*" (n = 1) and "*/n", or [list |-> s] for *)
(* a comma separated list of ranges; "v" is the range from v to v, which   *)
(* is ignored unless v is within bounds, while a range is cut to them.     *)

parse_step(step, lo, hi) ==
    LET by == IF step <= 0 THEN 1 ELSE step IN {i \in lo..hi : (i - lo) % by = 0}

parse_token(tok, lo, hi) ==
    IF tok.single THEN {tok.from} \cap (lo..hi)
    ELSE (IF tok.from < lo THEN lo ELSE tok.from)..(IF tok.to > hi THEN hi ELSE tok.to)

parse_field(f, lo, hi) ==
    IF f.kind = "every" THEN parse_step(f.step, lo, hi)
    ELSE UNION {parse_token(f.tokens[i], lo, hi) : i \in 1..Len(f.tokens)}

cron_matches(job, now) == now % MinuteLength \in job.seconds

-----------------------------------------------------------------------------
CronInit ==
    /\ crons = <<>> /\ adds = 0 /\ live = {}
    /\ cron_time = 0 /\ last_sec = -1
    /\ fired = [e \in (1..MaxCrons) \X (0..MaxTime) |-> 0]

(* An expression that has not six fields is refused.                       *)
CronScheduler_addCron(name) ==
    /\ adds < MaxCrons
    /\ \E f \in CronFields :
          crons' = Append(crons, [id |-> adds + 1, name |-> name,
                                  seconds |-> parse_field(f, 0, MinuteLength - 1)])
    /\ adds' = adds + 1 /\ live' = live \cup {adds + 1}
    /\ UNCHANGED <<cron_time, last_sec, fired>>

(* The first job of that name is overwritten by the last one.              *)
CronScheduler_removeCron(name) ==
    /\ \E i \in 1..Len(crons) :
          /\ crons[i].name = name /\ \A k \in 1..(i - 1) : crons[k].name # name
          /\ crons' = SubSeq([crons EXCEPT ![i] = crons[Len(crons)]], 1, Len(crons) - 1)
          /\ live' = live \ {crons[i].id}
    /\ UNCHANGED <<adds, cron_time, last_sec, fired>>

(* The entries of job k that are due; each gets a thread (they can be      *)
(* created).                                                               *)
Due(k) == {i \in 1..Len(crons) : crons[i].id = k /\ cron_matches(crons[i], cron_time)}

Started == [e \in DOMAIN fired |-> fired[e] + IF e[2] = cron_time THEN Cardinality(Due(e[1])) ELSE 0]

FireEveryTurn ==
    /\ \A e \in DOMAIN fired : fired[e] < 2
    /\ fired' = Started
    /\ last_sec' = cron_time % MinuteLength
    /\ UNCHANGED <<crons, adds, live, cron_time>>

(* One turn of the worker: nothing when tm_sec is the one it saw last.     *)
cron_worker ==
    /\ last_sec # cron_time % MinuteLength
    /\ fired' = Started
    /\ last_sec' = cron_time % MinuteLength
    /\ UNCHANGED <<crons, adds, live, cron_time>>

CronTime ==
    /\ cron_time < MaxTime /\ cron_time' = cron_time + 1
    /\ UNCHANGED <<crons, adds, live, last_sec, fired>>

CronNext ==
    \/ cron_worker \/ CronTime
    \/ \E name \in CronNames : CronScheduler_addCron(name) \/ CronScheduler_removeCron(name)

(* However often the worker looks, a job is started at most once in a      *)
(* second, and removal, which moves the last job into the gap, keeps every *)
(* other job exactly once in the table.                                    *)
FiresOncePerSecond ==
    /\ Len(crons) = Cardinality(live) /\ {crons[i].id : i \in 1..Len(crons)} = live
    /\ \A e \in DOMAIN fired : fired[e] <= 1

=============================================================================
