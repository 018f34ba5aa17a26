------------------------------- MODULE Board -------------------------------
(***************************************************************************)
(* The web board (board_handler.c) over its database and its upload        *)
(* directory.  Handlers run one at a time on the event loop's thread.  A   *)
(* handler that stores a file does so before its transaction and deletes   *)
(* files after it, so the process may crash between those three phases;    *)
(* they are separate steps here.  A statement may fail, and the connection *)
(* may be lost at any statement of a transaction, the commit included.     *)
(***************************************************************************)
EXTENDS Integers, Sequences, FiniteSets, FiniteSetsExt

CONSTANTS Backends,      \* "PGSQL", "MYSQL", "SQLITE"
          Limits,        \* the page sizes limit_update accepts
          DefaultLimit,  \* the page size of a board without a setting
          SkinDirs,      \* the skins whose directory exists
          MaxRows, MaxFiles   \* bounds on the rows inserted and the files saved

ASSUME BoardConstants ==
    /\ Backends \subseteq {"PGSQL", "MYSQL", "SQLITE"}
    /\ Limits \subseteq Nat \ {0} /\ DefaultLimit \in Limits
    /\ "white" \in SkinDirs /\ SkinDirs \subseteq {"white", "dark"}

VARIABLES backend,       \* db_type
          db,            \* what is durable: posts, attachments, comments, settings
          files,         \* the files of the upload directory
          saved,         \* how many files were ever saved: the source of fresh names
          job,           \* the handler in progress
          isConnected,   \* DBClient.isConnected
          left,          \* ghost: files that a crash or a failed delete left behind
          unsure,        \* ghost: files of transactions whose commit reply was lost
          misread        \* ghost: a failed query was taken for one without rows

ghosts == <<left, unsure, misread>>
boardVars == <<backend, db, files, saved, job, isConnected, ghosts>>

None == "none"
NoFile == 0
NoLimit == 0
Idle == [op |-> "idle", id |-> 0, par |-> 0, file |-> NoFile, drop |-> {}]

Posts(d) == {p \in DOMAIN d.posts : d.posts[p].live}
AttsOf(d, p) == {a \in DOMAIN d.atts : d.atts[a].post = p}
LiveAtts(d, p) == {a \in AttsOf(d, p) : d.atts[a].live}
LiveCmts(d, p) == {c \in DOMAIN d.cmts : d.cmts[c].post = p /\ d.cmts[c].live}

BoardInit ==
    /\ backend \in Backends
    /\ \E s \in {None, "dark"} :
          db = [posts |-> <<>>, atts |-> <<>>, cmts |-> <<>>, skin |-> s, limit |-> NoLimit]
    /\ files = {} /\ saved = 0
    /\ job = Idle
    /\ isConnected = TRUE
    /\ left = {} /\ unsure = {} /\ misread = FALSE

-----------------------------------------------------------------------------
(* What the list and detail pages show.                                    *)

(* The page size: the stored one if it is allowed, else the default.       *)
list_limit(d) == IF d.limit \in Limits THEN d.limit ELSE DefaultLimit

(* The WHERE clause: the live posts among those that match the search.     *)
list_filter(d, match) == Posts(d) \cap match

PagesByDivision(total, limit) == (total \div limit) + 1

total_pages(total, limit) == IF total > 0 THEN ((total - 1) \div limit) + 1 ELSE 1

(* A page past the last one is the last one; the offset starts its rows.   *)
list_offset(total, limit, page) ==
    LET last == total_pages(total, limit)
    IN  ((IF page > last THEN last ELSE page) - 1) * limit

(* ORDER BY id DESC LIMIT limit OFFSET offset: the rows shown, each with   *)
(* its place on the page, counted from 0.                                  *)
Place(found, p) == Cardinality({q \in found : q > p})
list_rows(found, limit, offset) ==
    {p \in found : Place(found, p) \in offset .. offset + limit - 1}

(* The number shown beside the row at place i of the page.                 *)
virtual_no(total, offset, i) == total - offset - i

(* The links of the pager: the block of block_size pages around this one.  *)
BlockSize == 5
list_block(total, limit, page) ==
    LET last == total_pages(total, limit)
        p == IF page > last THEN last ELSE page
        start == ((p - 1) \div BlockSize) * BlockSize + 1
    IN  start .. Min({start + BlockSize - 1, last})

(* The detail page of a live post, with its attachments and comments.      *)
detail_atts(d, p) == LiveAtts(d, p)
detail_cmts(d, p) == LiveCmts(d, p)
detail_page(d, p) ==
    IF p \in Posts(d) THEN [atts |-> detail_atts(d, p), cmts |-> detail_cmts(d, p)]
    ELSE [atts |-> {}, cmts |-> {}]

(* The download of an attachment is answered with a file.                  *)
BoardHandler_attach(d, fs, a) == d.atts[a].live /\ d.atts[a].file \in fs

-----------------------------------------------------------------------------
(* The statements of each transaction: whether its checks pass, the tables *)
(* it leaves, and the files to delete once it is committed.  "blind" means *)
(* that the look for an old attachment failed and was taken for no rows.   *)

Result(found, d, old) == [found |-> found, db |-> d, old |-> old]

insert_att(d, p, file) ==
    IF file = NoFile THEN d
    ELSE [d EXCEPT !.atts = Append(@, [post |-> p, file |-> file, live |-> TRUE])]

write_tx(d, j) ==
    LET d1 == [d EXCEPT !.posts = Append(@, [live |-> TRUE])]
    IN  Result(TRUE, insert_att(d1, Len(d1.posts), j.file), {})

modify_tx(d, j, blind) ==
    LET old == IF blind THEN {} ELSE LiveAtts(d, j.id)
    IN  IF j.id \notin Posts(d) THEN Result(FALSE, d, {})
        ELSE IF j.file = NoFile THEN Result(TRUE, d, {})
        ELSE IF old = {} THEN Result(TRUE, insert_att(d, j.id, j.file), {})
        ELSE Result(TRUE,
                    [d EXCEPT !.atts = [a \in DOMAIN @ |->
                        IF a \in LiveAtts(d, j.id) THEN [@[a] EXCEPT !.file = j.file] ELSE @[a]]],
                    {d.atts[Min(old)].file})

remove_tx(d, j, blind) ==
    LET d1 == [d EXCEPT !.posts[j.id].live = FALSE,
                        !.atts = [a \in DOMAIN @ |->
                            IF @[a].post = j.id THEN [@[a] EXCEPT !.live = FALSE] ELSE @[a]]]
    IN  IF j.id \notin Posts(d) THEN Result(FALSE, d, {})
        ELSE Result(TRUE, d1, IF blind THEN {} ELSE {d.atts[a].file : a \in AttsOf(d, j.id)})

attach_remove_tx(d, j) ==
    IF j.id \notin DOMAIN d.atts \/ ~d.atts[j.id].live THEN Result(FALSE, d, {})
    ELSE Result(TRUE, [d EXCEPT !.atts[j.id].live = FALSE], {d.atts[j.id].file})

(* A reply needs a live comment of depth 0 of the same post.               *)
comment_write_tx(d, j) ==
    LET parent == d.cmts[j.par]
    IN  IF \/ j.id \notin Posts(d)
           \/ j.par # 0 /\ (j.par \notin LiveCmts(d, j.id) \/ parent.depth # 0)
        THEN Result(FALSE, d, {})
        ELSE Result(TRUE,
                    [d EXCEPT !.cmts = Append(@, [post |-> j.id, parent |-> j.par, live |-> TRUE,
                                                  depth |-> IF j.par = 0 THEN 0 ELSE 1])],
                    {})

comment_modify_tx(d, j) ==
    Result(j.id \in DOMAIN d.cmts /\ d.cmts[j.id].live, d, {})

(* Deleting a comment of depth 0 deletes its replies with it.              *)
comment_remove_tx(d, j) ==
    IF j.id \notin DOMAIN d.cmts \/ ~d.cmts[j.id].live THEN Result(FALSE, d, {})
    ELSE Result(TRUE,
                [d EXCEPT !.cmts = [c \in DOMAIN @ |->
                    IF c = j.id \/ (d.cmts[j.id].depth = 0 /\ @[c].parent = j.id)
                    THEN [@[c] EXCEPT !.live = FALSE] ELSE @[c]]],
                {})

Statements(d, j, blind) ==
    CASE j.op = "write" -> write_tx(d, j)
      [] j.op = "modify" -> modify_tx(d, j, blind)
      [] j.op = "remove" -> remove_tx(d, j, blind)
      [] j.op = "attach_remove" -> attach_remove_tx(d, j)
      [] j.op = "comment_write" -> comment_write_tx(d, j)
      [] j.op = "comment_modify" -> comment_modify_tx(d, j)
      [] j.op = "comment_remove" -> comment_remove_tx(d, j)

-----------------------------------------------------------------------------
Rows == Len(db.posts) + Len(db.atts) + Len(db.cmts)

(* A handler is admitted: it checks its request and the connection, and    *)
(* saves the uploaded file under a fresh name before anything else.        *)

file_save(attach) ==
    /\ files' = IF attach THEN files \cup {saved + 1} ELSE files
    /\ saved' = IF attach THEN saved + 1 ELSE saved

Admit(op, id, par, attach) ==
    /\ job = Idle /\ isConnected
    /\ attach => saved < MaxFiles /\ Rows + 1 < MaxRows
    /\ job' = [op |-> op, id |-> id, par |-> par, drop |-> {},
               file |-> IF attach THEN saved + 1 ELSE NoFile]
    /\ file_save(attach)
    /\ UNCHANGED <<backend, db, isConnected, ghosts>>

BoardHandler_write == \E attach \in BOOLEAN :
    Rows < MaxRows /\ Admit("write", 0, 0, attach)

BoardHandler_modify == \E p \in DOMAIN db.posts, attach \in BOOLEAN :
    Admit("modify", p, 0, attach)

BoardHandler_remove == \E p \in DOMAIN db.posts : Admit("remove", p, 0, FALSE)

BoardHandler_attach_remove == \E a \in DOMAIN db.atts :
    Admit("attach_remove", a, 0, FALSE)

BoardHandler_comment_write == \E p \in DOMAIN db.posts, c \in {0} \cup DOMAIN db.cmts :
    Rows < MaxRows /\ Admit("comment_write", p, c, FALSE)

BoardHandler_comment_modify == \E c \in DOMAIN db.cmts :
    Admit("comment_modify", c, 0, FALSE)

BoardHandler_comment_remove == \E c \in DOMAIN db.cmts :
    Admit("comment_remove", c, 0, FALSE)

(* What remains to be done after the transaction: the files to delete.     *)
Remaining(drop) == IF drop = {} THEN Idle ELSE [Idle EXCEPT !.op = "cleanup", !.drop = drop]

OwnFile == {job.file} \ {NoFile}

(* A transaction that commits deletes the files it replaced.  MySQL's      *)
(* getRecordsFromQuery answers a failed query with an empty list.          *)
Commit(blind) ==
    LET r == Statements(db, job, blind)
    IN  /\ r.found
        /\ db' = r.db
        /\ job' = Remaining(r.old)
        /\ misread' = (misread \/ blind)
        /\ UNCHANGED <<backend, files, saved, isConnected, left, unsure>>

RollbackDropsOld(lost) ==
    /\ job' = Remaining(OwnFile \cup Statements(db, job, FALSE).old)
    /\ isConnected' = (isConnected /\ ~lost)
    /\ UNCHANGED <<backend, db, files, saved, ghosts>>

(* A check or a statement that fails, and a failed BEGIN or COMMIT, end in *)
(* a rollback and in the deletion of the file this request saved.  A lost  *)
(* connection is noticed in isConnected.                                   *)
Rollback(lost) ==
    /\ job' = Remaining(OwnFile)
    /\ isConnected' = (isConnected /\ ~lost)
    /\ UNCHANGED <<backend, db, files, saved, ghosts>>

(* The server commits but its reply is lost with the connection: the       *)
(* handler takes it for a failure.                                         *)
CommitReplyLost ==
    LET r == Statements(db, job, FALSE)
    IN  /\ r.found
        /\ db' = r.db
        /\ unsure' = unsure \cup OwnFile \cup r.old
        /\ job' = Remaining(OwnFile)
        /\ isConnected' = FALSE
        /\ UNCHANGED <<backend, files, saved, left, misread>>

Transact ==
    /\ job.op \notin {"idle", "cleanup"}
    /\ \/ Commit(FALSE)
       \/ backend = "MYSQL" /\ job.op \in {"modify", "remove"} /\ Commit(TRUE)
       \/ Rollback(FALSE)
       \/ backend # "SQLITE" /\ (Rollback(TRUE) \/ CommitReplyLost)

(* One file of the job is deleted, or its deletion fails and is logged.    *)
BoardHandler_file_delete == \E f \in job.drop, removed \in BOOLEAN :
    /\ files' = IF removed THEN files \ {f} ELSE files
    /\ left' = IF removed THEN left ELSE left \cup {f}
    /\ job' = Remaining(job.drop \ {f})
    /\ UNCHANGED <<backend, db, saved, isConnected, unsure, misread>>

(* The process stops in the middle of a handler and is started again.  The *)
(* server rolls an open transaction back.                                  *)
Crash ==
    /\ job # Idle
    /\ job' = Idle
    /\ left' = left \cup OwnFile \cup job.drop
    /\ isConnected' = TRUE
    /\ UNCHANGED <<backend, db, files, saved, unsure, misread>>

-----------------------------------------------------------------------------
(* The settings.                                                           *)

(* The skin that refresh_skin stores: the one found, or white when none is *)
(* found, its name is unknown or its directory is missing.                 *)
refreshed(s, answered) == IF answered /\ s \in SkinDirs THEN s ELSE "white"

(* The outcomes of refresh_skin.  A query that fails ends it, except that  *)
(* MySQL's failed SELECT looks like a missing row.                         *)
BoardHandler_refresh_skin(s) ==
    {[ok |-> TRUE, skin |-> refreshed(s, TRUE), blind |-> FALSE],
     [ok |-> FALSE, skin |-> s, blind |-> FALSE]}
    \cup (IF backend = "MYSQL" THEN {[ok |-> TRUE, skin |-> refreshed(s, FALSE), blind |-> TRUE]}
          ELSE {})

(* A query outside a transaction reconnects; if that fails it gives up.    *)
Reconnected(ok) == IF ok THEN {TRUE} ELSE IF backend = "SQLITE" THEN {isConnected}
                                          ELSE {isConnected, FALSE}

(* A page is asked for: the skin is refreshed, and "store" says whether    *)
(* the default page size is stored where there is none.                    *)
Visit(store) ==
    /\ job = Idle /\ isConnected
    /\ \E r \in BoardHandler_refresh_skin(db.skin) :
          /\ isConnected' \in Reconnected(r.ok)
          /\ db' = [db EXCEPT !.skin = r.skin,
                              !.limit = IF store /\ r.ok /\ @ = NoLimit THEN DefaultLimit ELSE @]
          /\ misread' = (misread \/ r.blind)
    /\ UNCHANGED <<backend, files, saved, job, left, unsure>>

BoardHandler_read_write == Visit(FALSE)
BoardHandler_list == \E limited \in BOOLEAN : Visit(limited)
BoardHandler_detail == Visit(FALSE)

(* The stored skin is replaced, and then read again by refresh_skin.       *)
BoardHandler_skin_update == \E s \in SkinDirs, ok \in BOOLEAN :
    /\ job = Idle
    /\ isConnected' \in Reconnected(ok)
    /\ IF ok
       THEN \E r \in BoardHandler_refresh_skin(s) :
                db' = [db EXCEPT !.skin = r.skin] /\ misread' = (misread \/ r.blind)
       ELSE UNCHANGED <<db, misread>>
    /\ UNCHANGED <<backend, files, saved, job, left, unsure>>

BoardHandler_limit_update == \E l \in Limits, ok \in BOOLEAN :
    /\ job = Idle
    /\ isConnected' \in Reconnected(ok)
    /\ db' = IF ok THEN [db EXCEPT !.limit = l] ELSE db
    /\ UNCHANGED <<backend, files, saved, job, ghosts>>

BoardNext ==
    \/ BoardHandler_write \/ BoardHandler_modify \/ BoardHandler_remove
    \/ BoardHandler_attach_remove
    \/ BoardHandler_comment_write \/ BoardHandler_comment_modify \/ BoardHandler_comment_remove
    \/ Transact \/ BoardHandler_file_delete \/ Crash
    \/ BoardHandler_read_write \/ BoardHandler_list \/ BoardHandler_detail
    \/ BoardHandler_skin_update \/ BoardHandler_limit_update

BoardSpec == BoardInit /\ [][BoardNext]_boardVars

-----------------------------------------------------------------------------
(* Every attachment that a detail page names can be downloaded, whatever   *)
(* failed or crashed on the way: files are saved before the transaction    *)
(* that names them and deleted after the one that drops them.  A lost      *)
(* commit reply is the exception: the handler deletes the file it saved.   *)
Downloadable == ~misread =>
    \A p \in DOMAIN db.posts : \A a \in detail_page(db, p).atts :
        BoardHandler_attach(db, files, a) \/ db.atts[a].file \in unsure

(* A file in the upload directory belongs to an attachment or to the       *)
(* handler in progress, unless a crash, a failed delete or a lost commit   *)
(* reply left it: no error path of a handler forgets the file it saved.    *)
NoOrphans == ~misread =>
    \A f \in files :
        \/ \E a \in DOMAIN db.atts : db.atts[a].live /\ db.atts[a].file = f
        \/ f \in OwnFile \cup job.drop \cup left \cup unsure

(* The comments of a detail page are a tree of two levels: a reply is      *)
(* shown only under a shown comment of depth 0 of the same post, after any *)
(* sequence of writes and removals.                                        *)
CommentTree ==
    \A p \in DOMAIN db.posts : \A c \in detail_page(db, p).cmts :
        LET parent == db.cmts[c].parent
        IN  parent # 0 => parent \in detail_page(db, p).cmts /\ db.cmts[parent].depth = 0

(* The pages of a list partition the posts found: walking them in order    *)
(* shows each post once, newest first, with the numbers total .. 1, every  *)
(* page but an only one has rows, and each page links to itself.           *)
ListCovers ==
    \A match \in SUBSET DOMAIN db.posts :
        LET found == list_filter(db, match)
            limit == list_limit(db)
            total == Cardinality(found)
            pages == 1 .. total_pages(total, limit)
            offset(p) == list_offset(total, limit, p)
            rows(p) == list_rows(found, limit, offset(p))
        IN  /\ \A p \in pages :
                  /\ total > 0 => rows(p) # {}
                  /\ p \in list_block(total, limit, p)
                  /\ \A q \in rows(p) :
                        virtual_no(total, offset(p), Place(found, q) - offset(p))
                            = Cardinality({r \in found : r <= q})
            /\ \A q \in found : Cardinality({p \in pages : q \in rows(p)}) = 1

(* The files and the rows of the board agree.                              *)
FilesMatch == Downloadable /\ NoOrphans

(* The pages of the board show what its rows say.                          *)
PagesWhole == CommentTree /\ ListCovers
=============================================================================
