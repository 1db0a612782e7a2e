\* One source and channels of one: every alert meets a full alarm channel.
\* After a cancellation the tasks return and only time passes.
SPECIFICATION DeliverySafety
CONSTANTS
    Sources = {s1}
    OVERFLOW = overflow
    MAX_SOURCES = 1
    COOLDOWN = 1
    REALERT = 0
    ACTIVE_TTL = 1
    AGE_CAP = 2
    FireTypes = {tma}
    OtherTypes = {}
    EVENT_QUEUE = 1
    ALARM_QUEUE = 1
    MAX_TRACKED = 1
    COUNTER_CAP = 3
    Requests <- MCRequests
    ATTEMPTS = 1
    Statuses = {200, 403}
INVARIANT AlertsAccounted
PROPERTY RedUntilRung
