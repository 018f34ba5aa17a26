-------------------------------- MODULE MySQL --------------------------------
(***************************************************************************)
(* The functions mysql.c binds to a DBClient.                              *)
(***************************************************************************)
EXTENDS PgSQL

mysql_query(conn, s, sql) == Exec("MYSQL", conn, s, sql)

DB_reconnect_internal(c, s) ==
    LET closed == [c EXCEPT !.cache = NoCache, !.in_transaction = FALSE]
    IN  {Returns(TRUE, [closed EXCEPT !.conn = "up", !.isConnected = TRUE], EndSession(s)),
         Returns(FALSE, [closed EXCEPT !.conn = "bad", !.isConnected = FALSE], EndSession(s))}

DB_disconnect_my(c, s) ==
    {Returns(TRUE, [c EXCEPT !.conn = "none", !.isConnected = FALSE, !.in_transaction = FALSE,
                             !.cache = NoCache], EndSession(s))}

(* A handle that is connected cannot be connected again: it is closed.     *)
DB_connect_my(c, s) ==
    (IF c.conn = "up" THEN {}
     ELSE {Returns(TRUE, [c EXCEPT !.conn = "up", !.isConnected = TRUE, !.in_transaction = FALSE], s)})
    \cup {Returns(FALSE, [c EXCEPT !.conn = "none", !.isConnected = FALSE, !.in_transaction = FALSE],
                  EndSession(s))}

DB_reconnect_my(c, s) ==
    UNION {IF r.ok THEN {r} ELSE DB_disconnect_my(c, s) : r \in DB_reconnect_internal(c, s)}

Repeated_my(c, s, sql) ==
    UNION {IF r.ok THEN {Returned(r.cl, a) : a \in mysql_query(r.cl.conn, r.srv, sql)} ELSE {r}
           : r \in DB_reconnect_internal(c, s)}

(* Errors 2006 and 2013: reconnect and repeat, unless in a transaction.    *)
DB_sqlQuery_my(c, s, sql) ==
    UNION {IF a.conn # "bad" THEN {Returned(c, a)}
           ELSE IF c.in_transaction THEN {Recorded(c, a)}
           ELSE Repeated_my(c, a.srv, sql)
           : a \in mysql_query(c.conn, s, sql)}

(* The list is empty, never NULL, when the query fails.                    *)
DB_getRecordsFromQuery_my(c, s, sql) ==
    UNION {IF a.conn # "bad" THEN {Returned(c, a)}
           ELSE IF c.in_transaction THEN {Recorded(c, a)}
           ELSE Repeated_my(c, a.srv, sql)
           : a \in mysql_query(c.conn, s, sql)}

DB_tx_query_my(c, s, sql) == {Recorded(c, a) : a \in mysql_query(c.conn, s, sql)}

(* begin, commit and rollback change the flag under a second acquisition   *)
(* of the lock, whatever became of the first.                              *)
DB_beginTransaction_my(c, s) == DB_sqlQuery_my(c, s, Begin)

DB_commit_my(c, s) == DB_tx_query_my(c, s, Commit)

DB_rollback_my(c, s) == DB_tx_query_my(c, s, Rollback)

SetFlag_my(c, s, flag) == {Returns(TRUE, [c EXCEPT !.in_transaction = flag], s)}

DB_schema_columns_locked(c, s) ==
    IF c.cache # NoCache /\ c.conn # "none" THEN {Returns(TRUE, c, s)}
    ELSE {IF a.ok THEN Returns(TRUE, [c EXCEPT !.cache = s.schema], s) ELSE Returned(c, a)
            : a \in mysql_query(c.conn, s, Select)}

DB_validateFields_my(c, s) == DB_schema_columns_locked(c, s)

DB_insertTable_my(c, s, t) == DB_sqlQuery_my(c, s, Write(t, 1))

(* mysql_insert_id belongs to the session, not to the statement.           *)
mysql_insert_id(c, s) ==
    {Returns(TRUE, IF c.conn = "none" THEN c ELSE [c EXCEPT !.last_insert_id = s.insert_id], s)}

DB_updateTable_my(c, s, t) == DB_sqlQuery_my(c, s, Write(t, 2))

DB_replaceTable_my(c, s, t) ==
    UNION {IF r.ok THEN mysql_insert_id(r.cl, r.srv) ELSE {r} : r \in DB_sqlQuery_my(c, s, Write(t, 2))}

DB_deleteTable_my(c, s, t) == DB_sqlQuery_my(c, s, Write(t, 2))

DB_renameTable_my(c, s) == DB_sqlQuery_my(c, s, Alter)

DB_schema_cache_drop(c, s) == {Returns(TRUE, [c EXCEPT !.cache = NoCache], s)}

=============================================================================
