------------------------------- MODULE SQLite -------------------------------
(***************************************************************************)
(* The functions sqlite.c binds to a DBClient.  The database is a file:    *)
(* there is no connection to lose, no cache, and nothing is repeated.      *)
(***************************************************************************)
EXTENDS MySQL

sqlite3_exec(conn, s, sql) == Exec("SQLITE", conn, s, sql)

DB_disconnect_sqlite(c, s) ==
    {Returns(TRUE, [c EXCEPT !.conn = "none", !.isConnected = FALSE, !.in_transaction = FALSE],
             EndSession(s))}

(* The old handle is closed first; sqlite3_open_v2, the busy timeout or    *)
(* the foreign key pragma may fail.                                        *)
DB_connect_sqlite(c, s) ==
    LET closed == [c EXCEPT !.conn = "none", !.isConnected = FALSE, !.in_transaction = FALSE,
                            !.last_insert_id = NoThread]
    IN  {Returns(TRUE, [closed EXCEPT !.conn = "up", !.isConnected = TRUE], EndSession(s)),
         Returns(FALSE, closed, EndSession(s))}

DB_sqlQuery_sqlite(c, s, sql) == {Returned(c, a) : a \in sqlite3_exec(c.conn, s, sql)}

DB_getRecordsFromQuery_sqlite(c, s, sql) == {Returned(c, a) : a \in sqlite3_exec(c.conn, s, sql)}

(* The flag follows the statement only when it succeeds.                   *)
DB_tx_query_sqlite(c, s, sql, target) ==
    Flagged({Returned(c, a) : a \in sqlite3_exec(c.conn, s, sql)}, target)

DB_beginTransaction_sqlite(c, s) == DB_tx_query_sqlite(c, s, Begin, TRUE)

DB_commit_sqlite(c, s) == DB_tx_query_sqlite(c, s, Commit, FALSE)

DB_rollback_sqlite(c, s) == DB_tx_query_sqlite(c, s, Rollback, FALSE)

DB_validateFields_sqlite(c, s) == DB_getRecordsFromQuery_sqlite(c, s, Select)

(* INSERT, or the k-th write as INSERT OR REPLACE: the id is read in the   *)
(* critical section of the statement.                                      *)
DB_insertTable_sqlite_internal(c, s, t, k) ==
    {[r EXCEPT !.cl.last_insert_id = IF r.ok THEN t ELSE @] : r \in DB_sqlQuery_sqlite(c, s, Write(t, k))}

DB_updateTable_sqlite(c, s, t) == DB_sqlQuery_sqlite(c, s, Write(t, 2))

DB_deleteTable_sqlite(c, s, t) == DB_sqlQuery_sqlite(c, s, Write(t, 2))

=============================================================================
