------------------------------ MODULE DBServer ------------------------------
(***************************************************************************)
(* The database behind a DBClient, as the client libraries show it: one    *)
(* session per connection, a transaction that ends with its session, and   *)
(* calls that succeed, fail, or lose the connection.  What differs between *)
(* PostgreSQL, MySQL and SQLite is kept.                                   *)
(***************************************************************************)
EXTENDS Integers

CONSTANTS NoThread,
          MaxDrops    \* a bound on how often the connection is lost

ASSUME ServerConstants == MaxDrops \in Nat

NoCache == 0

(* The client: its handle, its flags, its cached table description and the *)
(* thread whose INSERT gave last_insert_id.                                *)
NewClient == [conn |-> "up", isConnected |-> TRUE, in_transaction |-> FALSE,
              cache |-> NoCache, last_insert_id |-> NoThread]

(* The server: the open transaction and its writes, what is durable, the   *)
(* version of the schema, the session's last INSERT.                       *)
NewServer == [open |-> FALSE, work |-> {}, durable |-> {}, schema |-> 1,
              insert_id |-> NoThread, drops |-> 0]

(* Statements.  Write(t, k) is the k-th write of thread t's transaction.   *)
Begin == [op |-> "BEGIN"]
Commit == [op |-> "COMMIT"]
Rollback == [op |-> "ROLLBACK"]
Alter == [op |-> "ALTER"]
Select == [op |-> "SELECT"]
Write(t, k) == [op |-> "WRITE", by |-> t, nth |-> k]

(* SQLite knows no nested BEGIN and no COMMIT or ROLLBACK without a BEGIN. *)
Refused(db, s, sql) ==
    db = "SQLITE" /\ sql.op \in (IF s.open THEN {"BEGIN"} ELSE {"COMMIT", "ROLLBACK"})

EndSession(s) == [s EXCEPT !.open = FALSE, !.work = {}]

(* MySQL's START TRANSACTION and its schema changes commit what is open.   *)
Executed(db, s, sql) ==
    LET implicit == [EndSession(s) EXCEPT !.durable = @ \cup s.work]
    IN  CASE sql.op = "BEGIN" -> [(IF db = "MYSQL" THEN implicit ELSE s) EXCEPT !.open = TRUE]
          [] sql.op = "COMMIT" -> implicit
          [] sql.op = "ROLLBACK" -> EndSession(s)
          [] sql.op = "ALTER" -> [(IF db = "MYSQL" THEN implicit ELSE s) EXCEPT !.schema = @ + 1]
          [] sql.op = "SELECT" -> s
          [] OTHER -> [s EXCEPT !.work = IF s.open THEN @ \cup {<<sql.by, sql.nth>>} ELSE @,
                                !.durable = IF s.open THEN @ ELSE @ \cup {<<sql.by, sql.nth>>},
                                !.insert_id = IF sql.nth = 1 THEN sql.by ELSE @]

(* A COMMIT that PostgreSQL refuses ends the transaction; elsewhere it     *)
(* stays open.                                                             *)
Erred(db, s, sql) == IF db = "PGSQL" /\ sql.op = "COMMIT" THEN EndSession(s) ELSE s

Dropped(s) == [EndSession(s) EXCEPT !.drops = @ + 1]

(* What PQexec, mysql_query or sqlite3_exec may come to over a handle:     *)
(* success, an error, or a connection lost before the statement or after   *)
(* it, so that only the reply is missing.  ROLLBACK fails only with the    *)
(* connection.                                                             *)
Exec(db, conn, s, sql) ==
    IF conn # "up" THEN {[ok |-> FALSE, conn |-> conn, srv |-> s]}
    ELSE (IF sql.op = "ROLLBACK" /\ ~Refused(db, s, sql) THEN {}
          ELSE {[ok |-> FALSE, conn |-> "up", srv |-> Erred(db, s, sql)]})
         \cup (IF Refused(db, s, sql) THEN {}
               ELSE {[ok |-> TRUE, conn |-> "up", srv |-> Executed(db, s, sql)]})
         \cup (IF db = "SQLITE" \/ s.drops >= MaxDrops THEN {}
               ELSE {[ok |-> FALSE, conn |-> "bad", srv |-> Dropped(s)],
                     [ok |-> FALSE, conn |-> "bad", srv |-> Dropped(Executed(db, s, sql))]})

(* A call of the client under its lock, as the set of what it may return   *)
(* and leave behind, and whether it keeps the lock or gives it up.         *)
Returns(ok, c, s) == [ok |-> ok, cl |-> c, srv |-> s, lock |-> "same"]

(* The outcome of one call of the library, with the handle as it left it.  *)
Returned(c, a) == Returns(a.ok, [c EXCEPT !.conn = a.conn], a.srv)

(* Inside a transaction, and for COMMIT and ROLLBACK, a lost connection is *)
(* only recorded.                                                          *)
Recorded(c, a) == Returns(a.ok, [c EXCEPT !.conn = a.conn, !.isConnected = @ /\ a.conn = "up"], a.srv)

Flagged(results, flag) ==
    {IF r.ok THEN [r EXCEPT !.cl.in_transaction = flag] ELSE r : r \in results}

=============================================================================
