----------------------------- MODULE MCServices -----------------------------
(***************************************************************************)
(* The services that run beside the event loop: the writers of files and   *)
(* logs, the schedulers, shared memory, the database clients and the HTTP  *)
(* client.  They share nothing: a behaviour is one of a single service,    *)
(* chosen in the initial state.                                            *)
(***************************************************************************)
EXTENDS AsyncFile, AsyncLogger, JobScheduler, CronScheduler, SharedMemory, DBClient, HttpClient

VARIABLE service

vars == <<service, fileVars, logVars, jobVars, cronVars, shmVars, dbVars, clientVars>>

MCCronFields ==
    {[kind |-> "every", step |-> 2, tokens |-> <<>>],
     [kind |-> "list", step |-> 0, tokens |-> <<[single |-> TRUE, from |-> 1, to |-> 1],
                                               [single |-> FALSE, from |-> 1, to |-> 9]>>]}

Means(m, f, s, b, ls) == [method |-> m, framing |-> f, status |-> s, body |-> b, lines |-> ls]
Get(f, s, b, ls) == Means("GET", f, s, b, ls)

MCAnswers ==
    {Get("length", 200, <<"x", "y">>, <<"200", "cookie:a1", "len:2", "end", "x", "y">>),
     Get("length", 200, <<"x">>, <<"103", "h", "end", "103", "end", "200", "len:1", "cookie:b1", "cookie:a2",
                                   "end", "x">>),
     Get("length", 200, <<"x">>, <<"103", "end", "103", "end", "103", "end", "200", "len:1", "end", "x">>),
     Get("chunked", 200, <<"x", "y">>, <<"200", "chunked", "end", "size:1", "x", "crlf", "size:1",
                                         "y", "crlf", "size:0", "h", "end">>),
     Get("chunked", 200, <<>>, <<"200", "chunked", "end", "size:2", "x", "y", "crlf", "size:2", "x">>),
     Get("eof", 200, <<"x", "y">>, <<"200", "end", "x", "y">>),
     Get("eof", 200, <<"x", "y", "x", "y">>, <<"200", "end", "x", "y", "x", "y">>),
     Get("length", 204, <<>>, <<"204", "len:0", "end">>),
     Get("length", 302, <<>>, <<"302", "loc:path", "cookie:a2", "len:0", "end">>),
     Get("length", 302, <<>>, <<"302", "loc:h2", "cookie:a1", "len:0", "end">>),
     Get("length", 302, <<>>, <<"302", "len:0", "end">>),
     Get("length", 0, <<>>, <<"200", "len:1", "len:2", "end", "x">>),
     Get("length", 0, <<>>, <<"200", "len:1", "chunked", "end", "x">>),
     Get("length", 0, <<>>, <<"200", "len:big", "end", "x">>),
     Get("length", 0, <<>>, <<"200", "h", "h", "h", "h", "end">>),
     Get("length", 0, <<>>, <<"101", "end">>),
     Means("HEAD", "length", 200, <<>>, <<"200", "len:2", "end">>),
     Means("POST", "length", 200, <<"x">>, <<"200", "len:1", "end", "x">>),
     Means("POST", "length", 200, <<"x">>, <<"100", "end", "200", "len:1", "end", "x">>),
     Means("POST", "length", 200, <<"x">>, <<"100", "h", "end", "103", "end", "200", "len:1", "end", "x">>)}

MCCalls == {[method |-> "GET", body |-> FALSE, expect |-> FALSE],
            [method |-> "HEAD", body |-> FALSE, expect |-> FALSE],
            [method |-> "POST", body |-> TRUE, expect |-> FALSE],
            [method |-> "POST", body |-> TRUE, expect |-> TRUE]}

Set(n, v, d) == [name |-> n, value |-> v, domain |-> d]
MCCookie == [t \in {"cookie:a1", "cookie:a2", "cookie:b1"} |->
    CASE t = "cookie:a1" -> Set("a", 1, "h1") [] t = "cookie:a2" -> Set("a", 2, "h1")
      [] OTHER -> Set("a", 1, "none")]
MCHost == [t \in {"loc:path", "loc:h2"} |-> IF t = "loc:path" THEN "same" ELSE "h2"]

Init ==
    /\ service \in {"file", "logger", "jobs", "cron", "shm", "db", "client"}
    /\ FileInit /\ LoggerInit /\ JobInit /\ CronInit /\ ShmInit /\ DBInit /\ ClientInit
    /\ service = "file" \/ rotate_daily
    /\ service = "db" \/ backend = "PGSQL"

(* A step of the service s leaves what the others have.                    *)
Of(s, others) == service = s /\ UNCHANGED <<service, others>>
File == Of("file", <<logVars, jobVars, cronVars, shmVars, dbVars, clientVars>>)
Logger == Of("logger", <<fileVars, jobVars, cronVars, shmVars, dbVars, clientVars>>)
Scheduler == Of("jobs", <<fileVars, logVars, cronVars, shmVars, dbVars, clientVars>>)
Cron == Of("cron", <<fileVars, logVars, jobVars, shmVars, dbVars, clientVars>>)
Shm == Of("shm", <<fileVars, logVars, jobVars, cronVars, dbVars, clientVars>>)
DB == Of("db", <<fileVars, logVars, jobVars, cronVars, shmVars, clientVars>>)
Http == Of("client", <<fileVars, logVars, jobVars, cronVars, shmVars, dbVars>>)

Next ==
    \/ File /\ FileNext
    \/ Logger /\ LoggerNext
    \/ Scheduler /\ JobNext
    \/ Cron /\ CronNext
    \/ Shm /\ ShmNext
    \/ DB /\ DBNext
    \/ Http /\ ClientNext

(* The logger's threads, the threads of a database client and the HTTP     *)
(* client run on, and a peer sends what it has and then closes.            *)
Spec ==
    /\ Init /\ [][Next]_vars
    /\ WF_vars(Logger /\ (worker_main \/ write_event))
    /\ WF_vars(Logger /\ pthread_join)
    /\ \A t \in Threads : WF_vars(DB /\ Step(t))
    /\ WF_vars(Http /\ Client)
    /\ WF_vars(Http /\ PeerSends)
    /\ WF_vars(Http /\ coming = <<>> /\ PeerCloses)
=============================================================================
