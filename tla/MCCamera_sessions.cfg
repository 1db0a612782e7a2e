\* Sessions of every kind and end, with an event channel of two.
\* After a cancellation the task returns and nothing moves any more.
SPECIFICATION SessionsSpec
CONSTANTS
    EVENT_QUEUE = 2
    ALARM_QUEUE = 1
    MAX_TRACKED = 1
    COUNTER_CAP = 0
    Events <- MCEvents
    CHUNK_FRAMES = 2
    RECONNECT_INITIAL = 1
    RECONNECT_MAX = 3
    HEALTHY_SESSION = 2
    STREAM_IDLE = 2
INVARIANTS CameraTypeOK ConnectedInSession ResetBetweenSessions
PROPERTIES DelayShrinksAfterHealthy SilentStreamLeft CancellationStops
