-------------------------------- MODULE PgSQL --------------------------------
(***************************************************************************)
(* The functions pgsql.c binds to a DBClient.  A call with client c and    *)
(* server s is the set of its outcomes (DBServer!Returns).                 *)
(***************************************************************************)
EXTENDS DBServer

PQexec(conn, s, sql) == Exec("PGSQL", conn, s, sql)

(* A new connection in the place of the old one; the schema cache and the  *)
(* transaction flag go with the old one.                                   *)
DB_reconnect_internal_pg(c, s) ==
    LET closed == [c EXCEPT !.cache = NoCache, !.isConnected = FALSE, !.in_transaction = FALSE]
    IN  {Returns(TRUE, [closed EXCEPT !.conn = "up", !.isConnected = TRUE], EndSession(s)),
         Returns(FALSE, [closed EXCEPT !.conn = "bad"], EndSession(s))}

DB_connect_pg(c, s) ==
    IF c.in_transaction THEN {Returns(FALSE, c, s)}
    ELSE LET closed == [c EXCEPT !.cache = NoCache, !.isConnected = FALSE]
         IN  {Returns(TRUE, [closed EXCEPT !.conn = "up", !.isConnected = TRUE], EndSession(s)),
              Returns(FALSE, [closed EXCEPT !.conn = "bad"], EndSession(s))}

DB_reconnect_pg(c, s) ==
    IF c.in_transaction THEN {Returns(FALSE, c, s)} ELSE DB_reconnect_internal_pg(c, s)

DB_disconnect_pg(c, s) ==
    IF c.in_transaction THEN {Returns(FALSE, c, s)}
    ELSE {Returns(TRUE, [c EXCEPT !.conn = "none", !.isConnected = FALSE, !.cache = NoCache], EndSession(s))}

(* The statement again, over a new connection.                             *)
Repeated_pg(c, s, sql) ==
    UNION {IF r.ok THEN {Returned(r.cl, a) : a \in PQexec(r.cl.conn, r.srv, sql)} ELSE {r}
           : r \in DB_reconnect_internal_pg(c, s)}

ReconnectAlways_pg(c, s, sql) ==
    UNION {IF a.conn # "bad" THEN {Returned(c, a)} ELSE Repeated_pg(c, a.srv, sql)
           : a \in PQexec(c.conn, s, sql)}

(* A statement whose connection is lost is repeated, but never inside a    *)
(* transaction.                                                            *)
DB_sqlQuery_pg(c, s, sql) ==
    UNION {IF a.conn # "bad" THEN {Returned(c, a)}
           ELSE IF c.in_transaction THEN {Recorded(c, a)}
           ELSE Repeated_pg(c, a.srv, sql)
           : a \in PQexec(c.conn, s, sql)}

DB_getRecordsFromQuery_pg(c, s, sql) ==
    UNION {IF a.conn # "bad" THEN {Returned(c, a)}
           ELSE IF c.in_transaction THEN {Recorded(c, a)}
           ELSE Repeated_pg(c, a.srv, sql)
           : a \in PQexec(c.conn, s, sql)}

DB_tx_query_pg(c, s, sql) == {Recorded(c, a) : a \in PQexec(c.conn, s, sql)}

(* The flag is raised with the lock held, and the lock is kept.            *)
DB_beginTransaction_pg(c, s) ==
    IF c.in_transaction THEN {Returns(FALSE, c, s)}
    ELSE {[r EXCEPT !.lock = IF r.ok THEN "kept" ELSE "same"] : r \in Flagged(DB_sqlQuery_pg(c, s, Begin), TRUE)}

ClosedHolding(r) == [r EXCEPT !.cl.in_transaction = FALSE]

(* Both holds on the lock are released, this call's and begin's.           *)
Closed_pg(r) == [r EXCEPT !.cl.in_transaction = FALSE, !.lock = "freed"]

(* A COMMIT that fails is followed by a ROLLBACK whose result is ignored.  *)
DB_commit_pg(c, s) ==
    IF ~c.in_transaction THEN {Returns(FALSE, c, s)}
    ELSE UNION {IF r.ok THEN {Closed_pg(r)}
                ELSE {Closed_pg([q EXCEPT !.ok = FALSE]) : q \in DB_tx_query_pg(r.cl, r.srv, Rollback)}
                : r \in DB_tx_query_pg(c, s, Commit)}

DB_rollback_pg(c, s) ==
    IF ~c.in_transaction THEN {Returns(FALSE, c, s)}
    ELSE {Closed_pg(r) : r \in DB_tx_query_pg(c, s, Rollback)}

(* A table's columns and key: from the cache, or from the server and then  *)
(* cached.  A connection lost here is neither recorded nor renewed.        *)
DB_schema_meta_locked_pg(c, s) ==
    IF c.cache # NoCache /\ c.conn # "none" THEN {Returns(TRUE, c, s)}
    ELSE {IF a.ok THEN Returns(TRUE, [c EXCEPT !.cache = s.schema], s) ELSE Returned(c, a)
            : a \in PQexec(c.conn, s, Select)}

DB_validateFields_pg(c, s) == DB_schema_meta_locked_pg(c, s)

(* insertTable takes the id from the row that INSERT ... RETURNING yields. *)
DB_insertTable_pg(c, s, t) == DB_getRecordsFromQuery_pg(c, s, Write(t, 1))

DB_updateTable_pg(c, s, t) == DB_sqlQuery_pg(c, s, Write(t, 2))

(* replaceTable asks for the key a second time.                            *)
DB_replaceTable_pg(c, s, t) ==
    UNION {IF m.ok THEN DB_sqlQuery_pg(m.cl, m.srv, Write(t, 2)) ELSE {m}
           : m \in DB_schema_meta_locked_pg(c, s)}

DB_deleteTable_pg(c, s, t) == DB_sqlQuery_pg(c, s, Write(t, 2))

DB_renameTable_pg(c, s) == DB_sqlQuery_pg(c, s, Alter)

DB_schema_cache_drop_pg(c, s) == {Returns(TRUE, [c EXCEPT !.cache = NoCache], s)}

=============================================================================
