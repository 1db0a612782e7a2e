\* Edge-only mode: an `inactive` lost on a full event channel.
SPECIFICATION FiresSpec
CONSTANTS
    Sources = {s1}
    OVERFLOW = overflow
    MAX_SOURCES = 1
    COOLDOWN = 1
    REALERT = 0
    ACTIVE_TTL = 1
    AGE_CAP = 2
    FireTypes = {tma}
    OtherTypes = {}
    EVENT_QUEUE = 1
    ALARM_QUEUE = 1
    MAX_TRACKED = 1
    COUNTER_CAP = 0
    Requests <- MCRequests
    ATTEMPTS = 1
    Statuses = {200}
    Events <- MCEvents
    CHUNK_FRAMES = 1
    RECONNECT_INITIAL = 1
    RECONNECT_MAX = 1
    HEALTHY_SESSION = 0
    STREAM_IDLE = 1
    ANSWERED = "raised"
PROPERTY NeverLatchedOff
