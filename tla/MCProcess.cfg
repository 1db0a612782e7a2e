\* The process from its environment to its exit status, with every task at
\* the mercy of its fate.  Once it has exited nothing moves any more.
SPECIFICATION ProcessSpec
CHECK_DEADLOCK FALSE
CONSTANTS
    MAX_TRACKED = 0
    COUNTER_CAP = 0
    protect = protect
    other = other
    local = local
    Hosts <- MCHosts
    Loopback = {local}
    DEFAULT <- MCDefault
    RECONNECT_CEILING = 2
    Environments <- MCEnvironments
    DRAIN = 2
INVARIANTS ProcessTypeOK AcceptedConfigSound ReadyIsRecent
PROPERTIES ExitStatusTruthful DeadTaskEndsBridge StopsWhenAsked PathBackTurnsGreen
