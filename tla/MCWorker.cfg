\* Answers of every class: success, redirect, permanent, and retryable.
\* After a cancellation the worker returns and nothing moves any more.
SPECIFICATION WorkerSpec
CHECK_DEADLOCK FALSE
CONSTANTS
    EVENT_QUEUE = 1
    ALARM_QUEUE = 2
    MAX_TRACKED = 0
    COUNTER_CAP = 0
    Requests <- MCRequests
    ATTEMPTS = 3
    Statuses = {200, 302, 403, 408, 429, 503}
INVARIANTS WorkerTypeOK SuccessRang
PROPERTIES OutcomeRecorded WorkerStops
