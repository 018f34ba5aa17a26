---------------------------- MODULE ToosTypeGame -----------------------------
(***************************************************************************)
(* src/toos_type_game_context.c behind src/toos_type_ws.c: one room of the *)
(* typing game.  Messages, closes and ticks are handled one at a time on   *)
(* the loop thread; ticks come from a 50 ms timer and may be late.  An     *)
(* answer travels: answer[c] is the one the client of c has sent and that  *)
(* has not arrived, with the number of the sentence it was typed for.      *)
(*                                                                         *)
(* A message that is only refused changes nothing and is left out.         *)
(***************************************************************************)
EXTENDS ToosTypeSpawn

CONSTANTS
    Conns, Slots,   \* connections; 1 .. TOOS_TYPE_MAX_ROOM_PLAYERS
    MinPlayers,     \* TOOS_TYPE_MIN_ROOM_PLAYERS
    Languages, Minutes,
    CorrectScore,   \* profile.phases[i].correct_score
    PlayScore,      \* profile.play_score_per_sec, per unit of time
    AccuracyScore,  \* profile.accuracy_score_multiplier
    Draws,          \* random numbers a seed may give
    MaxTime, MaxJoins, MaxAnswers   \* bounds: clock, joins, answers judged of a player

ASSUME GameConstants ==
    /\ Slots = 1 .. Cardinality(Slots) /\ MinPlayers \in Nat \ {0}
    /\ DOMAIN Rows = Languages

VARIABLES
    room, players, active, spawn,   \* ToosTypeGameContext; active is active_player_count
    joins,                          \* next_join_seq - 1
    last_tick, now,
    rng,                            \* the random numbers of the seed
    answer

vars == <<room, players, active, spawn, joins, last_tick, now, rng, answer>>

Nobody == "nobody"
NoAnswer == [nr |-> 0, sid |-> 0, right |-> FALSE]

Vacant ==
    [occupied |-> FALSE, conn |-> Nobody, join_seq |-> 0, ready |-> FALSE,
     cursor |-> [d \in Phases |-> 0], sid |-> 0, phase |-> 0, deadline |-> 0,
     awaiting |-> FALSE, correct |-> [d \in Phases |-> 0], incorrect |-> 0, expired |-> 0,
     played |-> 0, finish |-> "NONE"]

Occupied(ps) == {s \in Slots : ps[s].occupied}
Connected(ps) == {s \in Slots : ps[s].occupied /\ ps[s].conn # Nobody}
Of(c) == {s \in Connected(players) : players[s].conn = c}

\* number of the sentence a player is at: none is counted twice
Number(p) == SumFunction(p.cursor) + 1

recalculate_host(r, ps) ==
    [r EXCEPT !.host = IF Connected(ps) = {} THEN 0
                       ELSE CHOOSE s \in Connected(ps) : \A t \in Connected(ps) :
                                ps[s].join_seq <= ps[t].join_seq]

refresh_config_lock(r, ps) == [r EXCEPT !.locked = \E s \in Connected(ps) : ps[s].ready]

Init ==
    /\ room = ToosTypeRoom_init
    /\ players = [s \in Slots |-> Vacant]
    /\ active = 0 /\ spawn = NoDeck /\ joins = 0 /\ last_tick = 1 /\ now = 1
    /\ rng \in Draws
    /\ answer = [c \in Conns |-> NoAnswer]

-----------------------------------------------------------------------------
ToosTypeGameContext_join(c) ==
    /\ room.state = "WAITING" /\ Of(c) = {} /\ Occupied(players) # Slots
    /\ joins < MaxJoins
    /\ players' = [players EXCEPT ![Min(Slots \ Occupied(players))] =
                      [Vacant EXCEPT !.occupied = TRUE, !.conn = c, !.join_seq = joins + 1]]
    /\ joins' = joins + 1 /\ active' = active + 1
    /\ room' = recalculate_host(room, players')
    /\ UNCHANGED <<spawn, last_tick, now, rng, answer>>

IsHost(c) == Of(c) = {room.host}

ToosTypeGameContext_set_language(c, lang) ==
    /\ room.state = "WAITING" /\ ~room.locked /\ IsHost(c)
    /\ room' = [room EXCEPT !.language = lang]
    /\ UNCHANGED <<players, active, spawn, joins, last_tick, now, rng, answer>>

ToosTypeGameContext_set_duration(c, minutes) ==
    /\ room.state = "WAITING" /\ IsHost(c) /\ ~room.locked
    /\ \A s \in Connected(players) : ~players[s].ready
    /\ room' = ToosTypeRoom_set_duration_minutes(room, minutes)
    /\ UNCHANGED <<players, active, spawn, joins, last_tick, now, rng, answer>>

ToosTypeGameContext_set_ready(c) ==
    /\ room.state = "WAITING" /\ room.language # "NONE" /\ Of(c) # {}
    /\ room' = [room EXCEPT !.locked = TRUE]
    /\ players' = [s \in Slots |-> IF s \in Of(c) THEN [players[s] EXCEPT !.ready = TRUE]
                                   ELSE players[s]]
    /\ UNCHANGED <<active, spawn, joins, last_tick, now, rng, answer>>

MayStart(c) ==
    /\ room.state = "WAITING" /\ IsHost(c) /\ room.language \in Languages
    /\ Cardinality(Connected(players)) >= MinPlayers
    /\ \A s \in Connected(players) : players[s].ready

\* START_GAME: prepare_start and start_game.  Without a deck or a clock (which calls
\* abort_start) the room stays as it was; the guard on MaxTime lets the game end.
ToosTypeGameContext_start_game(c) ==
    /\ MayStart(c) /\ ~spawn.loaded
    /\ DeckBuilds(Rows[room.language], rng)
    /\ now + CountdownMs + ToosTypeRoom_total_duration_ms(room) <= MaxTime
    /\ spawn' = ToosTypeSpawnEngine_build_deck(Rows[room.language], rng)
    /\ room' = ToosTypeRoom_start_countdown(room, now)
    /\ UNCHANGED <<players, active, joins, last_tick, now, rng, answer>>

-----------------------------------------------------------------------------
\* update_player_stats: the time played while the game is on; the scores are Stats
update_player_stats(r, p, t) ==
    IF p.finish = "NONE" /\ r.state = "PLAYING" /\ t > r.game_start
    THEN [p EXCEPT !.played = Min({t - r.game_start, r.game_end - r.game_start})]
    ELSE p

Stats(p) ==
    LET correct == SumFunction(p.correct)
        attempts == correct + p.incorrect + p.expired
        accuracy == IF attempts = 0 THEN 0 ELSE (correct * 10000) \div attempts
        phase == SumFunction([d \in Phases |-> p.correct[d] * CorrectScore[d]])
    IN  [accuracy |-> accuracy, phase |-> phase,
         total |-> p.played * PlayScore + phase + (accuracy * AccuracyScore) \div 100,
         wpm |-> IF p.played = 0 THEN 0 ELSE (correct * 12000) \div p.played]

Cleared(p) == [p EXCEPT !.sid = 0, !.phase = 0, !.deadline = 0]

\* the end of the game is not looked at
IssueAlways(r, p, deck, t) ==
    LET d == ToosTypeRoom_phase_at(r, t)
    IN  [p EXCEPT !.sid = ToosTypeSpawnEngine_sentence_at(deck, d, p.cursor[d]),
                  !.phase = d, !.deadline = t + ToosTypeRoom_sentence_timeout_ms(r, t)]

TooLate(r, t) == t >= r.game_end \/ r.game_end - t < ToosTypeRoom_sentence_timeout_ms(r, t)

\* issue_next_sentence with the ensured deck
issue_next_sentence(r, p, deck, t) ==
    LET d == ToosTypeRoom_phase_at(r, t)
    IN  IF TooLate(r, t) THEN [Cleared(p) EXCEPT !.awaiting = TRUE]
        ELSE [p EXCEPT !.sid = ToosTypeSpawnEngine_sentence_at(deck, d, p.cursor[d]),
                       !.phase = d, !.deadline = t + ToosTypeRoom_sentence_timeout_ms(r, t)]

\* The players S of ps are given their next sentences one after the other.  All are in
\* the same phase and the deck only grows, so it suffices to ensure the largest cursor.
Ensured(r, ps, S, deck, t) ==
    LET d == ToosTypeRoom_phase_at(r, t)
    IN  IF S = {} \/ TooLate(r, t) THEN deck
        ELSE ToosTypeSpawnEngine_ensure_cursor(deck, d, Max({ps[s].cursor[d] : s \in S}), rng)

Issued(r, ps, S, deck, t) ==
    [s \in Slots |-> IF s \in S THEN issue_next_sentence(r, ps[s], deck, t) ELSE ps[s]]

Past(p) == [p EXCEPT !.cursor[p.phase] = @ + 1]

-----------------------------------------------------------------------------
\* The player of c types an answer for the sentence on the screen and sends it.
Type(c, right) ==
    /\ answer[c] = NoAnswer
    /\ \E s \in Of(c) :
           /\ room.state = "PLAYING" /\ players[s].sid # 0
           /\ Number(players[s]) + players[s].incorrect <= MaxAnswers
           /\ answer' = [answer EXCEPT ![c] = [nr |-> Number(players[s]),
                                               sid |-> players[s].sid, right |-> right]]
    /\ UNCHANGED <<room, players, active, spawn, joins, last_tick, now, rng>>

\* what the judge says of the answer of c, for the player in slot s
Verdict(p, a) ==
    IF p.awaiting \/ p.sid = 0 THEN "STALE"
    ELSE ToosTypeJudge_submit(ToosTypeSpawnEngine_sentence_at(spawn, p.phase, p.cursor[p.phase]),
                              p.sid, a.sid, a.right, now, p.deadline)

Judged(p, verdict) ==
    CASE verdict = "CORRECT"   -> [p EXCEPT !.correct[p.phase] = @ + 1]
      [] verdict = "INCORRECT" -> [p EXCEPT !.incorrect = @ + 1]
      [] verdict = "EXPIRED"   -> [p EXCEPT !.expired = @ + 1]
      [] OTHER                 -> p

\* TYPE_RESULT arrives: a CORRECT or EXPIRED answer moves on to the next sentence
ToosTypeGameContext_submit(c) ==
    /\ answer[c] # NoAnswer
    /\ answer' = [answer EXCEPT ![c] = NoAnswer]
    /\ IF room.state # "PLAYING" \/ Of(c) = {} THEN UNCHANGED <<players, spawn>>
       ELSE LET s == Min(Of(c))
                verdict == Verdict(players[s], answer[c])
                p == update_player_stats(room, Judged(players[s], verdict), now)
                past == [players EXCEPT ![s] = Past(p)]
            IN  CASE verdict \in {"STALE", "ERROR"} -> UNCHANGED <<players, spawn>>
                  [] verdict = "INCORRECT" -> players' = [players EXCEPT ![s] = p] /\ UNCHANGED spawn
                  [] OTHER -> /\ spawn' = Ensured(room, past, {s}, spawn, now)
                              /\ players' = Issued(room, past, {s}, spawn', now)
    /\ UNCHANGED <<room, active, joins, last_tick, now, rng>>

-----------------------------------------------------------------------------
\* reset_empty_room keeps joins and last_tick
EmptyRoom == ToosTypeRoom_init

\* the room keeps what the player had locked
LeaveKeepsLock(s) ==
    LET ps == [players EXCEPT ![s] = Vacant]
        r == ToosTypeRoom_cancel_countdown(recalculate_host(room, ps))
    IN  /\ players' = ps /\ active' = active - 1
        /\ room' = IF active = 1 THEN EmptyRoom ELSE r
        /\ spawn' = IF active = 1 \/ room.state = "COUNTDOWN" THEN NoDeck ELSE spawn

\* WAITING or COUNTDOWN: the slot is free again and a countdown is cancelled
Leave(s) ==
    LET ps == [players EXCEPT ![s] = Vacant]
        r == ToosTypeRoom_cancel_countdown(recalculate_host(room, ps))
    IN  /\ players' = ps /\ active' = active - 1
        /\ room' = IF active = 1 THEN EmptyRoom ELSE refresh_config_lock(r, ps)
        /\ spawn' = IF active = 1 \/ room.state = "COUNTDOWN" THEN NoDeck ELSE spawn

\* PLAYING or RESULT: the player stays in the ranking as DNF; t is the clock or, when
\* it fails, the last tick
Quit(s, t) ==
    LET end == Min({t, room.game_end})
        p == [players[s] EXCEPT !.conn = Nobody]
        dnf == [p EXCEPT !.played = Max({0, end - room.game_start}), !.finish = "DNF"]
        ps == [players EXCEPT ![s] = IF p.finish = "NONE" THEN dnf ELSE p]
    IN  IF Connected(ps) # {} THEN players' = ps /\ UNCHANGED <<room, active, spawn>>
        ELSE /\ players' = [x \in Slots |-> Vacant] /\ active' = 0
             /\ room' = EmptyRoom /\ spawn' = NoDeck

ToosTypeGameContext_disconnect(c, t) ==
    /\ \E s \in Of(c) : IF room.state \in {"WAITING", "COUNTDOWN"} THEN Leave(s) ELSE Quit(s, t)
    /\ answer' = [answer EXCEPT ![c] = NoAnswer]
    /\ UNCHANGED <<joins, last_tick, now, rng>>

-----------------------------------------------------------------------------
\* e1, e2: entries of the ranking; e2 goes before e1
Swaps(e1, e2) ==
    LET dnf == e1.finish = "DNF"
        before == <<e2.total, IF dnf THEN e2.played ELSE 0, e2.accuracy, e2.phase, e2.wpm, -e2.no>>
        after == <<e1.total, IF dnf THEN e1.played ELSE 0, e1.accuracy, e1.phase, e1.wpm, -e1.no>>
    IN  \/ dnf /\ e2.finish = "FINISHED"
        \/ /\ e1.finish = e2.finish
           /\ \E i \in 1 .. 6 : before[i] > after[i] /\ \A j \in 1 .. i - 1 : before[j] = after[j]

Tied(e1, e2) ==
    /\ e1.finish = e2.finish /\ (e1.finish = "FINISHED" \/ e1.played = e2.played)
    /\ \A f \in {"total", "accuracy", "phase", "wpm"} : e1[f] = e2[f]

Entry(s, p) == Stats(p) @@ [no |-> s, finish |-> p.finish, played |-> p.played]

\* for i, for j > i: exchange when they are in the wrong order
Sorted(es) ==
    LET pairs == SetToSortSeq({<<i, j>> \in (1 .. Len(es)) \X (1 .. Len(es)) : i < j},
                     LAMBDA a, b : a[1] < b[1] \/ (a[1] = b[1] /\ a[2] < b[2]))
    IN  FoldLeft(LAMBDA s, ij : IF Swaps(s[ij[1]], s[ij[2]]) THEN Swap(s, ij[1], ij[2]) ELSE s,
                 es, pairs)

\* ranks: the place, or the rank of the entry before in a tie
Ranked(es) ==
    LET rank[i \in 1 .. Len(es)] == IF i > 1 /\ Tied(es[i], es[i - 1]) THEN rank[i - 1] ELSE i
    IN  [i \in DOMAIN es |-> es[i] @@ [rank |-> rank[i]]]

\* FINAL_RANKING
Ranking(ps) == Ranked(Sorted([i \in 1 .. Cardinality(Occupied(ps)) |->
    LET s == SetToSortSeq(Occupied(ps), <)[i] IN Entry(s, ps[s])]))

\* GAME_ENDED for a player who is still in the game
AtEnd(r, p) ==
    LET q == IF p.sid # 0 /\ p.deadline <= r.game_end
             THEN [Cleared(p) EXCEPT !.expired = @ + 1] ELSE p
    IN  IF ~p.occupied \/ p.finish # "NONE" THEN p
        ELSE [q EXCEPT !.played = r.game_end - r.game_start, !.finish = "FINISHED"]

Expires(p) == p.occupied /\ p.conn # Nobody /\ p.finish = "NONE" /\ p.sid # 0 /\ now >= p.deadline

\* the players after the tick of room r has counted the sentences that ran out
RunOut(r) ==
    [s \in Slots |-> IF r.state = "PLAYING" /\ Expires(players[s])
                     THEN Past(update_player_stats(r, [players[s] EXCEPT !.expired = @ + 1], now))
                     ELSE players[s]]

\* those who get a sentence in that tick
Served(r) ==
    IF r.state # "PLAYING" THEN {}
    ELSE IF room.state = "COUNTDOWN" THEN Connected(players)
    ELSE {s \in Slots : Expires(players[s])}

ToosTypeGameContext_tick ==
    LET r == ToosTypeRoom_tick(room, now)
    IN  /\ last_tick' = now /\ room' = r
        /\ IF r.state = "RESULT" /\ room.state # "RESULT"
           THEN players' = [s \in Slots |-> AtEnd(r, players[s])] /\ UNCHANGED spawn
           ELSE /\ spawn' = Ensured(r, RunOut(r), Served(r), spawn, now)
                /\ players' = Issued(r, RunOut(r), Served(r), spawn', now)
        /\ UNCHANGED <<active, joins, now, rng, answer>>

Advance ==
    /\ now < MaxTime /\ now' = now + 1
    /\ UNCHANGED <<room, players, active, spawn, joins, last_tick, rng, answer>>

on_ws_message(c) ==
    \/ ToosTypeGameContext_join(c)
    \/ \E lang \in Languages : ToosTypeGameContext_set_language(c, lang)
    \/ \E m \in Minutes : ToosTypeGameContext_set_duration(c, m)
    \/ ToosTypeGameContext_set_ready(c)
    \/ ToosTypeGameContext_start_game(c)
    \/ ToosTypeGameContext_submit(c)

on_ws_close(c) == \E t \in {now, last_tick} : ToosTypeGameContext_disconnect(c, t)

Next ==
    \/ \E c \in Conns : on_ws_message(c) \/ on_ws_close(c)
    \/ \E c \in Conns, right \in BOOLEAN : Type(c, right)
    \/ ToosTypeGameContext_tick
    \/ Advance

\* a tick that begins or ends the game
TickDue ==
    /\ \/ room.state = "COUNTDOWN" /\ now >= room.countdown_ends
       \/ room.state = "PLAYING" /\ now >= room.game_end
    /\ ToosTypeGameContext_tick

\* time passes, and the repeating timer of the loop goes on ticking
Spec == Init /\ [][Next]_vars /\ WF_vars(Advance) /\ WF_vars(TickDue)

-----------------------------------------------------------------------------
\* While the room waits or counts down it has exactly the players that are connected,
\* its host is the one who joined first, the configuration is locked exactly while
\* someone is ready, and a deck exists exactly once a game was started: so after any
\* sequence of joins, cancelled countdowns and departures a game can be configured
\* and started again.
RoomConsistent ==
    /\ room.state \in {"WAITING", "COUNTDOWN"} =>
           /\ active = Cardinality(Occupied(players)) /\ Occupied(players) = Connected(players)
           /\ room = recalculate_host(room, players)
           /\ room.locked <=> \E s \in Slots : players[s].ready
    /\ spawn.loaded <=> room.state # "WAITING"
    /\ \A c \in Conns : Cardinality(Of(c)) <= 1

\* Every sentence a player was given is the one of the shared deck at their cursor (so
\* the judge never finds the server inconsistent), it ends within the game, and each of
\* those passed was counted once, as correct or as expired.
SentencesCounted ==
    \A s \in Occupied(players) :
        LET p == players[s]
            passed == SumFunction(p.correct) + p.expired
        IN  /\ p.sid # 0 =>
                  /\ p.sid = ToosTypeSpawnEngine_sentence_at(spawn, p.phase, p.cursor[p.phase])
                  /\ p.deadline <= room.game_end
            /\ IF p.finish = "FINISHED" THEN p.sid = 0 /\ passed - SumFunction(p.cursor) \in 0 .. 1
               ELSE passed = SumFunction(p.cursor)

\* The final ranking has every player of the game once, those who finished before those
\* who left, and a rank is one more than the number of players who did better.
RankingFair ==
    room.state = "RESULT" =>
        LET ranking == Ranking(players)
            Beats(f, g) == ~Tied(f, g) /\ Swaps(g, f)
        IN  /\ {ranking[i].no : i \in DOMAIN ranking} = Occupied(players)
            /\ \A i \in DOMAIN ranking :
                   /\ ranking[i].rank = 1 + Cardinality({e \in Range(ranking) : Beats(e, ranking[i])})
                   /\ ranking[i].finish = "FINISHED" =>
                          \A j \in 1 .. i : ranking[j].finish = "FINISHED"

\* The result of a game is right from the first sentence to the last rank.
GameScored == SentencesCounted /\ RankingFair

\* A countdown ends: in a result, or back in the waiting room when a player left.
GameEnds == room.state = "COUNTDOWN" ~> room.state \in {"RESULT", "WAITING"}
==============================================================================
