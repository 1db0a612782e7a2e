\* A camera that accepts the connection and never answers the request.
SPECIFICATION SupervisorSpec
CONSTANTS
    EVENT_QUEUE = 2
    ALARM_QUEUE = 1
    MAX_TRACKED = 1
    COUNTER_CAP = 0
    Events <- MCEvents
    CHUNK_FRAMES = 2
    RECONNECT_INITIAL = 1
    RECONNECT_MAX = 3
    HEALTHY_SESSION = 2
    STREAM_IDLE = 2
PROPERTY CancellationAware
