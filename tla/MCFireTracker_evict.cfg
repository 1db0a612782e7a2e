\* Four sources on a map of two: every notification of a further source
\* evicts or falls back to the overflow slot.
SPECIFICATION TrackerSpec
CONSTANTS
    Sources = {s1, s2, s3, s4}
    OVERFLOW = overflow
    MAX_SOURCES = 2
    COOLDOWN = 2
    REALERT = 3
    ACTIVE_TTL = 3
    AGE_CAP = 4
SYMMETRY Symmetry
INVARIANTS TrackerTypeOK SourceMapBounded SilenceBounded
PROPERTY ImplementsContract
