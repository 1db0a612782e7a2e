\* One source, channels of one, a worker that may hang at any alert.
\* After a cancellation the tasks return and only time passes.
SPECIFICATION WedgedPipelineSpec
CONSTANTS
    Sources = {s1}
    OVERFLOW = overflow
    MAX_SOURCES = 1
    COOLDOWN = 1
    REALERT = 0
    ACTIVE_TTL = 1
    AGE_CAP = 2
    FireTypes = {tma}
    OtherTypes = {motion}
    EVENT_QUEUE = 1
    ALARM_QUEUE = 1
    MAX_TRACKED = 1
    COUNTER_CAP = 0
    Requests <- MCRequests
    ATTEMPTS = 1
    Statuses = {200}
    Events <- MCEvents
    CHUNK_FRAMES = 1
    RECONNECT_INITIAL = 1
    RECONNECT_MAX = 1
    HEALTHY_SESSION = 0
    STREAM_IDLE = 1
INVARIANTS PipelineTypeOK NoTaskReturnsUnasked
PROPERTIES ImplementsTasks BackToCamera ProcessorNeverStuck ShutdownReachesAll
