SPECIFICATION Spec
CONSTANTS
    Conns = {c1, c2}
    Slots = {1, 2}
    Phases = {1, 2}
    MinPlayers = 2
    MinuteMs = 2
    ResetMinutes = 2
    CountdownMs = 1
    InputTimeout <- Timeouts
    Rows <- Sentences
    PoolMax = 3
    MaxEpochs = 8
    Languages = {"EN", "KO"}
    Minutes = {1}
    CorrectScore <- Scores
    PlayScore = 1
    AccuracyScore = 1
    Draws <- Seeds
    MaxTime = 6
    MaxJoins = 2
    MaxAnswers = 2
INVARIANTS RoomConsistent GameScored
PROPERTY GameEnds
CHECK_DEADLOCK FALSE
