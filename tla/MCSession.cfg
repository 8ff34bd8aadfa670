SPECIFICATION SessionFairSpec
CONSTANTS
    Required = 2
    Grace = 1
    Versions = 2
    Driver = {"validate", "script"}
    Batches <- AnyBatch
    MaxKept = 2
    Script <- SpawnGuiScript
    ResetOnSpawn = TRUE
    SkipSteps = 1
INVARIANTS SessionTypeOK AskedIsAnswered InitAfterSpawn SuccessIsEarned
PROPERTIES SessionEnds RefusedBotStops
CHECK_DEADLOCK FALSE
