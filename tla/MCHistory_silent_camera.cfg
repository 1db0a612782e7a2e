\* The camera may stop repeating: an owed edge has nothing to fire it.
SPECIFICATION ClockSpec
CONSTANTS
    Sources = {s1}
    OVERFLOW = overflow
    MAX_SOURCES = 1
    COOLDOWN = 2
    REALERT = 3
    ACTIVE_TTL = 3
    AGE_CAP = 4
PROPERTY CarriedOverEdgeFires
