------------------------------ MODULE DBClient ------------------------------
(***************************************************************************)
(* A DBClient shared by threads.  Each thread carries out one unit of      *)
(* work: a transaction of two writes as the board's handlers do it, a      *)
(* query, a schema change, a reconnection, or a disconnection and a        *)
(* connection.  What a function does under one acquisition of the client's *)
(* recursive lock is one step; PostgreSQL's begin keeps the lock until     *)
(* commit or rollback.                                                     *)
(***************************************************************************)
EXTENDS SQLite

CONSTANTS Threads,
          Shared     \* the backends whose client several threads use at once

Backends == {"PGSQL", "MYSQL", "SQLITE"}

ASSUME ClientConstants == Shared \subseteq Backends /\ NoThread \notin Threads

VARIABLES backend,  \* whose functions are bound to the client
          cl, srv,
          owner,    \* who keeps the lock between two calls
          at,       \* where each thread is in its unit of work
          got       \* the insert id that each thread read

dbVars == <<backend, cl, srv, owner, at, got>>

Done == {"committed", "failed", "finished"}

DBInit ==
    /\ backend \in Backends
    /\ cl = NewClient /\ srv = NewServer
    /\ owner = NoThread
    /\ at = [t \in Threads |-> "idle"]
    /\ got = [t \in Threads |-> NoThread]

-----------------------------------------------------------------------------
(* The function that is bound to the client.                               *)
Bound(pg, my, sqlite) == CASE backend = "PGSQL" -> pg [] backend = "MYSQL" -> my [] OTHER -> sqlite

Goto(t, where) == at' = [at EXCEPT ![t] = where]

(* A unit begins; the threads of a backend that is not shared take turns.  *)
Begins(t) ==
    /\ at[t] = "idle"
    /\ backend \in Shared \/ \A u \in Threads : at[u] \in Done \cup {"idle"}

(* One call: t waits for the lock, and the result decides where it goes.   *)
Call(t, results, ok, failed) ==
    /\ owner \in {NoThread, t}
    /\ \E r \in results :
          /\ cl' = r.cl /\ srv' = r.srv
          /\ owner' = CASE r.lock = "kept" -> t [] r.lock = "freed" -> NoThread [] OTHER -> owner
          /\ Goto(t, IF r.ok THEN ok ELSE failed)
    /\ UNCHANGED <<backend, got>>

beginTransaction(t) ==
    /\ Begins(t)
    /\ Call(t, Bound(DB_beginTransaction_pg(cl, srv), DB_beginTransaction_my(cl, srv),
                     DB_beginTransaction_sqlite(cl, srv)),
            IF backend = "MYSQL" THEN "flag" ELSE "fields", "failed")

in_transaction(t) ==
    at[t] = "flag" /\ Call(t, SetFlag_my(cl, srv, TRUE), "fields", "fields")

(* insertTable: the columns, the statement, the id.  All but MySQL's clear *)
(* the last id first.                                                      *)
validateFields(t) ==
    /\ at[t] = "fields"
    /\ LET c == [cl EXCEPT !.last_insert_id = NoThread]
       IN  Call(t, Bound(DB_validateFields_pg(c, srv), DB_validateFields_my(cl, srv),
                         DB_validateFields_sqlite(c, srv)), "insert", "rollback")

insertTable(t) ==
    /\ at[t] = "insert"
    /\ Call(t, Bound(DB_insertTable_pg(cl, srv, t), DB_insertTable_my(cl, srv, t),
                     DB_insertTable_sqlite_internal(cl, srv, t, 1)),
            IF backend = "SQLITE" THEN "read" ELSE "id", "rollback")

last_insert_id(t) ==
    /\ at[t] = "id"
    /\ Call(t, Bound({Returns(TRUE, [cl EXCEPT !.last_insert_id = t], srv)}, mysql_insert_id(cl, srv), {}),
            "read", "read")

(* The handler reads db->last_insert_id without the lock.                  *)
read_insert_id(t) ==
    /\ at[t] = "read"
    /\ got' = [got EXCEPT ![t] = cl.last_insert_id]
    /\ Goto(t, "write")
    /\ UNCHANGED <<backend, cl, srv, owner>>

(* The second write: an update or a replace, whose fields are validated    *)
(* first, or a delete.                                                     *)
validateAgain(t) ==
    /\ at[t] = "write"
    /\ \E next \in {"update", "replace"} :
          Call(t, Bound(DB_validateFields_pg(cl, srv), DB_validateFields_my(cl, srv),
                        DB_validateFields_sqlite(cl, srv)), next, "rollback")

updateTable(t) ==
    /\ at[t] = "update"
    /\ Call(t, Bound(DB_updateTable_pg(cl, srv, t), DB_updateTable_my(cl, srv, t),
                     DB_updateTable_sqlite(cl, srv, t)), "commit", "rollback")

replaceTable(t) ==
    /\ at[t] = "replace"
    /\ Call(t, Bound(DB_replaceTable_pg(cl, srv, t), DB_replaceTable_my(cl, srv, t),
                     DB_insertTable_sqlite_internal(cl, srv, t, 2)), "commit", "rollback")

deleteTable(t) ==
    /\ at[t] = "write"
    /\ Call(t, Bound(DB_deleteTable_pg(cl, srv, t), DB_deleteTable_my(cl, srv, t),
                     DB_deleteTable_sqlite(cl, srv, t)), "commit", "rollback")

(* The handler rolls back whatever failed, a failed commit included.       *)
commit(t) ==
    /\ at[t] = "commit"
    /\ Call(t, Bound(DB_commit_pg(cl, srv), DB_commit_my(cl, srv), DB_commit_sqlite(cl, srv)),
            IF backend = "MYSQL" THEN "committing" ELSE "committed",
            IF backend = "MYSQL" THEN "refused" ELSE "rollback")

rollback(t) ==
    /\ at[t] = "rollback"
    /\ LET next == IF backend = "MYSQL" THEN "aborting" ELSE "failed"
       IN  Call(t, Bound(DB_rollback_pg(cl, srv), DB_rollback_my(cl, srv), DB_rollback_sqlite(cl, srv)),
                next, next)

not_in_transaction(t) ==
    \E step \in {<<"committing", "committed">>, <<"refused", "rollback">>, <<"aborting", "failed">>} :
        at[t] = step[1] /\ Call(t, SetFlag_my(cl, srv, FALSE), step[2], step[2])

(* getRecords and the other queries of one statement.                      *)
getRecords(t) ==
    /\ Begins(t)
    /\ Call(t, Bound(DB_getRecordsFromQuery_pg(cl, srv, Select), DB_getRecordsFromQuery_my(cl, srv, Select),
                     DB_getRecordsFromQuery_sqlite(cl, srv, Select)), "finished", "finished")

(* A schema change; the cache is dropped whatever became of the statement. *)
renameTable(t) ==
    /\ Begins(t) /\ backend # "SQLITE"
    /\ Call(t, Bound(DB_renameTable_pg(cl, srv), DB_renameTable_my(cl, srv), {}), "drop", "drop")

dropCache(t) ==
    /\ at[t] = "drop"
    /\ Call(t, Bound(DB_schema_cache_drop_pg(cl, srv), DB_schema_cache_drop(cl, srv), {}),
            "finished", "finished")

reconnect(t) ==
    /\ Begins(t)
    /\ Call(t, Bound(DB_reconnect_pg(cl, srv), DB_reconnect_my(cl, srv), DB_connect_sqlite(cl, srv)),
            "finished", "finished")

disconnect(t) ==
    /\ Begins(t)
    /\ Call(t, Bound(DB_disconnect_pg(cl, srv), DB_disconnect_my(cl, srv), DB_disconnect_sqlite(cl, srv)),
            "connect", "connect")

connect(t) ==
    /\ at[t] = "connect"
    /\ Call(t, Bound(DB_connect_pg(cl, srv), DB_connect_my(cl, srv), DB_connect_sqlite(cl, srv)),
            "finished", "finished")

(* The server or the network ends an idle session.                         *)
Lose ==
    /\ cl.conn = "up" /\ backend # "SQLITE" /\ srv.drops < MaxDrops
    /\ cl' = [cl EXCEPT !.conn = "bad"] /\ srv' = Dropped(srv)
    /\ UNCHANGED <<backend, owner, at, got>>

Step(t) ==
    \/ beginTransaction(t) \/ in_transaction(t) \/ validateFields(t) \/ insertTable(t)
    \/ last_insert_id(t) \/ read_insert_id(t) \/ validateAgain(t) \/ updateTable(t)
    \/ replaceTable(t) \/ deleteTable(t) \/ commit(t) \/ rollback(t) \/ not_in_transaction(t)
    \/ getRecords(t) \/ renameTable(t) \/ dropCache(t)
    \/ reconnect(t) \/ disconnect(t) \/ connect(t)

DBNext == Lose \/ \E t \in Threads : Step(t)

(* Every thread keeps running, and a lock that stays free is had.          *)
DBSpec == DBInit /\ [][DBNext]_dbVars /\ \A t \in Threads : WF_dbVars(Step(t))

-----------------------------------------------------------------------------
(* Properties.                                                             *)

Written(t) == {k \in {1, 2} : <<t, k>> \in srv.durable}

(* The transaction flag keeps a lost connection from committing a part of  *)
(* a transaction (db.h:108-110): once a transaction has ended, all of its  *)
(* writes are durable or none is, and all of them when commit said so,     *)
(* whatever other threads did with the same client.                        *)
NoPartialCommit ==
    \A t \in Threads : /\ at[t] \in Done => Written(t) \in {{}, {1, 2}}
                       /\ at[t] = "committed" => Written(t) = {1, 2}

(* The id that a handler reads after its INSERT is the id of that INSERT,  *)
(* never 0 and never another thread's.                                     *)
InsertIdIsOwn == \A t \in Threads : at[t] \in {"write", "commit", "committed"} => got[t] = t

(* Once no schema change is between its statement and the drop of the      *)
(* cache, a cached table description is the server's: no statement is      *)
(* built for columns that are gone.                                        *)
CacheFresh == (\A t \in Threads : at[t] # "drop") => cl.cache \in {NoCache, srv.schema}

(* Work done through one client is whole: its transactions, the ids it     *)
(* reads and the table descriptions it builds statements from.             *)
DBUnitsRight == NoPartialCommit /\ InsertIdIsOwn /\ CacheFresh

(* Once work is begun, every unit of work ends: neither the lock that      *)
(* PostgreSQL's begin keeps nor a lost connection leaves a thread waiting. *)
UnitsFinish == (\E t \in Threads : at[t] # "idle") ~> (\A t \in Threads : at[t] \in Done)

=============================================================================
