---------------------------- MODULE ToosTypeRoom -----------------------------
(***************************************************************************)
(* src/toos_type_room.c: the clockwork of a typing game (waiting,          *)
(* countdown, the phases of the game, result) as operators on the room     *)
(* record, and src/toos_type_judge.c, which judges an answer.              *)
(***************************************************************************)
EXTENDS Integers, Functions, FiniteSetsExt

CONSTANTS
    Phases,         \* 1 .. TOOS_TYPE_MAX_PHASES
    MinuteMs,       \* 60000; a multiple of the number of phases
    ResetMinutes,   \* the duration of a fresh room: 3
    CountdownMs,    \* profile.countdown_ms
    InputTimeout    \* profile.phases[i].input_timeout_ms

ASSUME RoomConstants ==
    /\ Phases = 1 .. Cardinality(Phases)
    /\ MinuteMs \in Nat \ {0} /\ MinuteMs % Cardinality(Phases) = 0
    /\ {ResetMinutes, CountdownMs} \subseteq Nat \ {0}
    /\ InputTimeout \in [Phases -> Nat \ {0}]

PhaseMs(minutes) == (minutes * MinuteMs) \div Cardinality(Phases)

ToosTypeRoom_init ==
    [state |-> "WAITING", language |-> "NONE", locked |-> FALSE, host |-> 0,
     phase_ms |-> PhaseMs(ResetMinutes), game_start |-> 0, game_end |-> 0,
     countdown_ends |-> 0, phase |-> 0]

ToosTypeRoom_set_duration_minutes(r, minutes) == [r EXCEPT !.phase_ms = PhaseMs(minutes)]

ToosTypeRoom_total_duration_ms(r) == r.phase_ms * Cardinality(Phases)

ToosTypeRoom_phase_at(r, now) ==
    IF r.game_start = 0 \/ now <= r.game_start THEN 1
    ELSE LET open == {i \in Phases : now - r.game_start < i * r.phase_ms}
         IN  IF open = {} THEN Max(Phases) ELSE Min(open)

ToosTypeRoom_sentence_timeout_ms(r, now) == InputTimeout[ToosTypeRoom_phase_at(r, now)]

ToosTypeRoom_start_countdown(r, now) ==
    [r EXCEPT !.state = "COUNTDOWN", !.countdown_ends = now + CountdownMs]

ToosTypeRoom_cancel_countdown(r) ==
    IF r.state # "COUNTDOWN" THEN r
    ELSE [r EXCEPT !.state = "WAITING", !.countdown_ends = 0, !.game_start = 0,
                   !.game_end = 0, !.phase = 0]

\* The game starts when the countdown ended, however late the tick is.
StartGame(r, now) ==
    LET s == [r EXCEPT !.game_start = r.countdown_ends,
                       !.game_end = r.countdown_ends + ToosTypeRoom_total_duration_ms(r)]
    IN  IF now >= s.game_end THEN [s EXCEPT !.state = "RESULT", !.phase = Max(Phases)]
        ELSE [s EXCEPT !.state = "PLAYING", !.phase = ToosTypeRoom_phase_at(s, now)]

\* a tick that is late misses the end of the countdown
TickExact(r, now) ==
    IF r.state = "COUNTDOWN" /\ now = r.countdown_ends THEN StartGame(r, now)
    ELSE IF r.state # "PLAYING" THEN r
    ELSE IF now >= r.game_end THEN [r EXCEPT !.state = "RESULT"]
    ELSE [r EXCEPT !.phase = ToosTypeRoom_phase_at(r, now)]

ToosTypeRoom_tick(r, now) ==
    IF r.state = "COUNTDOWN" /\ now >= r.countdown_ends THEN StartGame(r, now)
    ELSE IF r.state # "PLAYING" THEN r
    ELSE IF now >= r.game_end THEN [r EXCEPT !.state = "RESULT"]
    ELSE [r EXCEPT !.phase = ToosTypeRoom_phase_at(r, now)]

ToosTypeJudge_submit(target, expected, submitted, right, now, deadline) ==
    IF target # expected THEN "ERROR"
    ELSE IF submitted # expected THEN "STALE"
    ELSE IF now >= deadline THEN "EXPIRED"
    ELSE IF right THEN "CORRECT" ELSE "INCORRECT"
==============================================================================
