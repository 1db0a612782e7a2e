\* Two sources that fit in the map: what was reported against what was
\* alerted, with a camera that repeats `active` among anything else.
SPECIFICATION RepeatingSpec
CONSTANTS
    Sources = {s1, s2}
    OVERFLOW = overflow
    MAX_SOURCES = 2
    COOLDOWN = 2
    REALERT = 3
    ACTIVE_TTL = 3
    AGE_CAP = 4
INVARIANT OwedIffPending
PROPERTIES EdgeAlertsSpaced AlertsNamedTruly OwedEventuallyAlerted
