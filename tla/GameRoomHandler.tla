-------------------------- MODULE GameRoomHandler ---------------------------
(***************************************************************************)
(* src/game_room_handler.c: the WebSocket callbacks of the pixel game.     *)
(* They run on the loop thread, so each is one action.  A request that is  *)
(* only refused changes nothing and is left out.  view[c] is what the      *)
(* client of c knows from the messages it was sent.                        *)
(*                                                                         *)
(* A send never fails inside a callback: a peer that is gone is noticed    *)
(* later, by HttpServer.                                                   *)
(***************************************************************************)
EXTENDS GameRoom

CONSTANTS
    Sizes,          \* board sizes a RESET may ask for; the first is the server's
    FirstSize,
    Brushes, Durations,
    MaxClock,       \* bound: the clock
    MaxGeneration,  \* bound: resets
    MaxSequence,    \* bound: changes of a board
    MaxFail         \* bound: allocations and removals of the timer that fail

ASSUME HandlerConstants ==
    /\ FirstSize \in Sizes /\ Sizes \subseteq (Nat \ {0}) \X (Nat \ {0})
    /\ Brushes \subseteq Nat \ {0} /\ Durations \subseteq Nat \ {0}
    /\ {MaxClock, MaxGeneration, MaxSequence, MaxFail} \subseteq Nat

VARIABLES
    gameRoom,       \* g_active_room
    link,           \* of a connection: "none", "open", "closing"
    session,        \* conn->ws_user_data: "null", "new" or "joined" (is_joined), player_idx
    view,
    bound,          \* the callbacks are installed
    clock,          \* get_monotonic_ms
    fails

roomVars == <<gameRoom, link, session, view, bound, clock, fails>>

NoSession == [is |-> "null", idx |-> 0]
NewSession == [is |-> "new", idx |-> 0]
NoView == [state |-> "untold"]

\* Send_Room_Status: what a ROOM_STATUS says of r
Send_Room_Status(r) ==
    [state |-> r.state, generation |-> r.generation, configured |-> r.configured,
     red |-> Cardinality(Members(r, "red")), blue |-> Cardinality(Members(r, "blue")),
     ready |-> GameRoom_can_start(r), width |-> r.board.width, height |-> r.board.height,
     sequence |-> r.board.sequence, redScore |-> r.board.score["red"],
     blueScore |-> r.board.score["blue"]]

\* Broadcast_Room_Status and Broadcast_To_Room reach these
Joined(ss) == {c \in Clients : link[c] = "open" /\ ss[c].is = "joined"}

Broadcast_Room_Status(r, ss) ==
    [c \in Clients |-> IF c \in Joined(ss) THEN Send_Room_Status(r) ELSE view[c]]

\* PAINT_APPLIED: the sequence and the scores only
PaintApplied(r, ss) ==
    [c \in Clients |-> IF c \in Joined(ss)
                     THEN [view[c] EXCEPT !.sequence = r.board.sequence,
                                          !.redScore = r.board.score["red"],
                                          !.blueScore = r.board.score["blue"]]
                     ELSE view[c]]

RoomInit ==
    /\ \E b \in Brushes, d \in Durations :
           gameRoom = new_GameRoom(FirstSize[1], FirstSize[2], b, d)
    /\ link = [c \in Clients |-> "none"]
    /\ session = [c \in Clients |-> NoSession]
    /\ view = [c \in Clients |-> NoView]
    /\ bound = TRUE /\ clock = 0 /\ fails = 0

Fail(oks) == fails + Cardinality({i \in DOMAIN oks : ~oks[i]})

-----------------------------------------------------------------------------
GameRoomHandler_on_ws_open(c, alloc) ==
    /\ bound /\ link[c] = "none"
    /\ link' = [link EXCEPT ![c] = "open"]
    /\ fails' = Fail(<<alloc>>) /\ fails' <= MaxFail
    /\ session' = [session EXCEPT ![c] =
                      IF alloc THEN NewSession ELSE @]
    /\ view' = [view EXCEPT ![c] = IF alloc THEN Send_Room_Status(gameRoom) ELSE @]
    /\ UNCHANGED <<gameRoom, bound, clock>>

Talks(c) == bound /\ link[c] = "open" /\ session[c].is # "null"

JOIN_GAME(c, t) ==
    /\ Talks(c)
    /\ MayJoin(gameRoom, c, t) /\ SeatFor(gameRoom, c) # {}
    /\ LET s == Min(SeatFor(gameRoom, c))
       IN  /\ gameRoom' = GameRoom_assign_player(gameRoom, c, t, s)
           /\ session' = [session EXCEPT ![c] = [is |-> "joined", idx |-> s]]
    /\ view' = Broadcast_Room_Status(gameRoom', session')
    /\ UNCHANGED <<link, bound, clock, fails>>

RESET_GAME(c, size, brush, duration, alloc, removed) ==
    /\ Talks(c) /\ MayReset(gameRoom, c)
    /\ fails' = Fail(<<alloc, removed>>) /\ fails' <= MaxFail
    /\ IF ResetWorks(gameRoom, size[1], size[2], alloc, removed)
       THEN /\ gameRoom' = _GameRoom_force_reset(gameRoom, size[1], size[2], brush, duration)
            /\ view' = Broadcast_Room_Status(gameRoom', session)
       ELSE UNCHANGED <<gameRoom, view>>
    /\ UNCHANGED <<link, session, bound, clock>>

START_GAME(c) ==
    /\ Talks(c) /\ session[c].is = "joined"
    /\ GameRoom_can_start(gameRoom) /\ ~gameRoom.timer
    /\ gameRoom' = GameRoom_start(gameRoom, clock)
    /\ view' = Broadcast_Room_Status(gameRoom', session)
    /\ UNCHANGED <<link, session, bound, clock, fails>>

\* The first PAINT after the end finds out that the game is over.
PaintTooLate(c) ==
    /\ Talks(c) /\ session[c].is = "joined"
    /\ TimeOver(gameRoom, clock)
    /\ gameRoom' = GameRoom_trigger_time_over(gameRoom)
    /\ view' = Broadcast_Room_Status(gameRoom', session)
    /\ UNCHANGED <<link, session, bound, clock, fails>>

PAINT(c, x, y) ==
    /\ Talks(c) /\ session[c].is = "joined"
    /\ gameRoom.state = "running" /\ ~TimeOver(gameRoom, clock)
    /\ <<x, y>> \in DOMAIN gameRoom.board.pixels
    /\ clock >= gameRoom.cooldown[session[c].idx]
    /\ gameRoom' = GameRoom_paint(gameRoom, session[c].idx, x, y, clock)
    /\ view' = IF gameRoom'.board = gameRoom.board THEN view ELSE PaintApplied(gameRoom', session)
    /\ UNCHANGED <<link, session, bound, clock, fails>>

\* The server decides to close c; its session stays until on_ws_close.
IsClosing(c) ==
    /\ link[c] = "open"
    /\ link' = [link EXCEPT ![c] = "closing"]
    /\ UNCHANGED <<gameRoom, session, view, bound, clock, fails>>

\* the players that stay are not told
CloseSilent(c, removed) ==
    /\ bound /\ link[c] # "none"
    /\ link' = [link EXCEPT ![c] = "none"]
    /\ fails' = Fail(<<removed>>) /\ fails' <= MaxFail
    /\ gameRoom' = IF session[c].is = "joined"
               THEN GameRoom_remove_player(gameRoom, session[c].idx, removed) ELSE gameRoom
    /\ view' = [view EXCEPT ![c] = NoView]
    /\ session' = [session EXCEPT ![c] = NoSession]
    /\ UNCHANGED <<bound, clock>>

\* Connection and session are gone afterwards, so the view is dropped.
GameRoomHandler_on_ws_close(c, removed) ==
    /\ bound /\ link[c] # "none"
    /\ link' = [link EXCEPT ![c] = "none"]
    /\ fails' = Fail(<<removed>>) /\ fails' <= MaxFail
    /\ IF session[c].is = "joined"
       THEN /\ gameRoom' = GameRoom_remove_player(gameRoom, session[c].idx, removed)
            /\ view' = [Broadcast_Room_Status(gameRoom', session) EXCEPT ![c] = NoView]
       ELSE /\ view' = [view EXCEPT ![c] = NoView]
            /\ UNCHANGED gameRoom
    /\ session' = [session EXCEPT ![c] = NoSession]
    /\ UNCHANGED <<bound, clock>>

\* GameRoomHandler_unbind: every session leaves the room, the timer is detached.
\* The loop does not refuse the timer: fails counts refusals before.
GameRoomHandler_unbind ==
    /\ bound
    /\ bound' = FALSE
    /\ LET J == {c \in Clients : session[c].is = "joined"}
       IN  gameRoom' = [FoldSet(LAMBDA c, r : GameRoom_remove_player(r, session[c].idx, TRUE),
                            gameRoom, J) EXCEPT !.timer = FALSE]
    /\ session' = [c \in Clients |-> NoSession]
    /\ UNCHANGED <<link, view, clock, fails>>

ClockAdvances == clock < MaxClock /\ clock' = clock + 1 /\ UNCHANGED <<gameRoom, link, session, view, bound, fails>>

Callback(c) ==
    \/ \E ok \in BOOLEAN : \/ GameRoomHandler_on_ws_open(c, ok)
                           \/ GameRoomHandler_on_ws_close(c, ok)
    \/ \E t \in Teams : JOIN_GAME(c, t)
    \/ \E z \in Sizes, b \in Brushes, d \in Durations, alloc, removed \in BOOLEAN :
           RESET_GAME(c, z, b, d, alloc, removed)
    \/ START_GAME(c)
    \/ PaintTooLate(c)
    \/ \E p \in DOMAIN gameRoom.board.pixels : PAINT(c, p[1], p[2])
    \/ IsClosing(c)

RoomNext ==
    /\ \/ \E c \in Clients : Callback(c)
       \/ GameRoomHandler_unbind
       \/ ClockAdvances
    /\ gameRoom'.generation <= MaxGeneration /\ gameRoom'.board.sequence <= MaxSequence

RoomSpec == RoomInit /\ [][RoomNext]_roomVars

-----------------------------------------------------------------------------
\* A joined session and its seat name each other, no seat is left to a session
\* that is gone, and no team exceeds its size: player_idx stays right through
\* joining again, changing teams, resets and removals.
SeatsOwned ==
    /\ \A c \in Clients : session[c].is = "joined"
                            => gameRoom.session[session[c].idx] = c
    /\ \A s \in Taken(gameRoom) : LET c == gameRoom.session[s]
                                  IN  session[c] = [is |-> "joined", idx |-> s]
    /\ \A t \in Teams : Cardinality(Members(gameRoom, t)) <= TeamMax

\* What a joined client was told agrees with the room: every change of the room
\* or of the board reaches all of them in the callback that makes it, and the
\* scores among it count the pixels, whatever was painted over.
ViewsFresh ==
    \A c \in Joined(session) :
        view[c] = Send_Room_Status(gameRoom) /\ ScoresCount(gameRoom.board)

\* The timer is held exactly while a game is running or waits for its reset, and
\* an empty room takes new players again unless the loop kept the timer.
RoomRecovers ==
    /\ bound => (gameRoom.timer <=> gameRoom.state # "waiting")
    /\ Taken(gameRoom) = {} /\ fails = 0 => /\ gameRoom.state = "waiting" /\ ~gameRoom.timer
                                            /\ gameRoom.initializer = NoOne
=============================================================================
