SPECIFICATION EngineSpec
CONSTANTS
    Part = {"accounts", "supervisor", "pool"}
    Request = {r1, r2}
    Program = {"server", "easy"}
    MaxAttempts = 2
    ErrorHttp = {200, 400}
    LiveFlow = TRUE
    BotRequest = {q1, q2}
    Reconnect = {TRUE, FALSE}
    Task = {t1, t2}
    NoTask = NoTask
    Bot = {b1, b2}
    CommandBuffer = 2
    PerBot = 4
INVARIANTS EngineTypeOK AccountSettles NewestToken OneTask
PROPERTIES ShutdownEnds
CHECK_DEADLOCK FALSE
