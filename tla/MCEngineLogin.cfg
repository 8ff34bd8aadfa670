SPECIFICATION EngineSpec
CONSTANTS
    Part = {"accounts"}
    Request = {r1}
    Program = {"easy"}
    MaxAttempts = 2
    ErrorHttp = {400}
    LiveFlow = TRUE
    BotRequest = {q1}
    Reconnect = {TRUE}
    Task = {t1}
    NoTask = NoTask
    Bot = {b1}
    CommandBuffer = 1
    PerBot = 4
PROPERTIES LoginWaits
CHECK_DEADLOCK FALSE
