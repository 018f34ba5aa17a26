------------------------------ MODULE GameRoom ------------------------------
(***************************************************************************)
(* src/game_room.c: the room of the pixel game as a record and its         *)
(* operations as operators on it.  timer says that game_timer is not NULL: *)
(* it is added to the loop but never started, so it does not expire.       *)
(***************************************************************************)
EXTENDS PixelBoard, FiniteSetsExt

CONSTANTS
    Clients,        \* connections; a user_id is the address of its connection
    Seats,          \* indices of player_sessions: 0 .. MAX_PLAYERS - 1
    TeamMax,        \* players of a team: 3 in the code
    CooldownMs      \* COOLDOWN_MS

ASSUME RoomConstants == Seats \subseteq Nat /\ {TeamMax, CooldownMs} \subseteq Nat

NoOne == "0"

new_GameRoom(w, h, brush, duration) ==
    [state |-> "waiting", generation |-> 1, board |-> new_PixelBoard(w, h),
     timer |-> FALSE, ends_at |-> 0, brush |-> 0, initializer |-> NoOne,
     configured |-> [brush |-> brush, duration |-> duration],
     session |-> [s \in Seats |-> NoOne], team |-> [s \in Seats |-> "empty"],
     cooldown |-> [s \in Seats |-> 0]]

Taken(r) == {s \in Seats : r.session[s] # NoOne}
Members(r, t) == {s \in Taken(r) : r.team[s] = t}

-----------------------------------------------------------------------------
\* GameRoom_assign_player: u asks for team t.

MayJoin(r, u, t) ==
    /\ r.state = "waiting"
    /\ Cardinality({s \in Members(r, t) : r.session[s] # u}) < TeamMax

FreshSeat(r, u) == {s \in Seats : r.session[s] = NoOne}

SeatFor(r, u) ==
    LET own == {s \in Seats : r.session[s] = u}
    IN  IF own # {} THEN own ELSE {s \in Seats : r.session[s] = NoOne}

\* seat s, the first one of SeatFor, goes to u
GameRoom_assign_player(r, u, t, s) ==
    [r EXCEPT !.initializer = IF @ = NoOne THEN u ELSE @,
              !.session[s] = u, !.team[s] = t,
              !.cooldown[s] = IF r.session[s] = u THEN @ ELSE 0]

-----------------------------------------------------------------------------
\* _GameRoom_force_reset: fails without a board of a new size, or if the loop
\* keeps the timer.

Resized(r, w, h) == <<w, h>> # <<r.board.width, r.board.height>>

ResetWorks(r, w, h, alloc, removed) ==
    (Resized(r, w, h) => alloc) /\ (r.timer => removed)

\* the timer of the last game stays
ForceResetKeepsTimer(r, w, h, brush, duration) ==
    [r EXCEPT !.board = IF Resized(r, w, h) THEN new_PixelBoard(w, h)
                        ELSE PixelBoard_clear(@),
              !.generation = @ + 1, !.brush = 0, !.ends_at = 0,
              !.configured = [brush |-> brush, duration |-> duration],
              !.cooldown = [s \in Seats |-> 0], !.state = "waiting"]

_GameRoom_force_reset(r, w, h, brush, duration) ==
    [r EXCEPT !.board = IF Resized(r, w, h) THEN new_PixelBoard(w, h)
                        ELSE PixelBoard_clear(@),
              !.timer = FALSE, !.generation = @ + 1, !.brush = 0, !.ends_at = 0,
              !.configured = [brush |-> brush, duration |-> duration],
              !.cooldown = [s \in Seats |-> 0], !.state = "waiting"]

MayReset(r, u) == r.state # "running" /\ r.initializer = u

\* GameRoom_remove_player of a taken seat; removed: the loop gives up the timer
GameRoom_remove_player(r, s, removed) ==
    LET left == [r EXCEPT !.session[s] = NoOne, !.team[s] = "empty", !.cooldown[s] = 0]
        fresh == IF r.state = "waiting" THEN left
                 ELSE _GameRoom_force_reset(left, r.board.width, r.board.height,
                                            r.configured.brush, r.configured.duration)
    IN  IF Taken(left) # {} THEN left
        ELSE IF r.state # "waiting" /\ r.timer /\ ~removed THEN left
        ELSE [fresh EXCEPT !.initializer = NoOne]

-----------------------------------------------------------------------------
GameRoom_can_start(r) == r.state = "waiting" /\ \A t \in Teams : Members(r, t) # {}

\* GameRoom_start once the timer could be created and added
GameRoom_start(r, clock) ==
    [r EXCEPT !.timer = TRUE, !.cooldown = [s \in Seats |-> 0],
              !.brush = r.configured.brush, !.ends_at = clock + r.configured.duration,
              !.state = "running"]

\* GameRoom_check_game_over and GameRoom_trigger_time_over
TimeOver(r, clock) == r.state = "running" /\ clock >= r.ends_at
GameRoom_trigger_time_over(r) == [r EXCEPT !.state = "finished"]

\* the pixels of the board under a brush of size bs at <<x, y>>
Brush(r, x, y) ==
    {<<x - (r.brush \div 2) + dx, y - (r.brush \div 2) + dy>> :
        dx, dy \in 0 .. r.brush - 1} \cap DOMAIN r.board.pixels

\* GameRoom_paint after its checks
GameRoom_paint(r, s, x, y, clock) ==
    [r EXCEPT !.cooldown[s] = clock + CooldownMs,
              !.board = FoldSet(LAMBDA c, b : PixelBoard_paint(b, c, r.team[s]), @,
                                Brush(r, x, y))]
=============================================================================
