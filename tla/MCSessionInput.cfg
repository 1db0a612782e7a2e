\* Every split of every stream of three parts, and of one document of up to
\* three elements.  The stream ends, or the session does.
SPECIFICATION InputSpec
CONSTANTS
    lt = lt
    e = e
    gt = gt
    slash = slash
    text = text
    Byte <- MCByte
    OPEN_TAG <- MCOpenTag
    CLOSE_TAG <- MCCloseTag
    Delimiters <- MCDelimiters
    Streams <- MCStreams
    SLICE = 3
    MAX = 16
    Names <- MCNames
    Texts <- MCTexts
    ActiveTexts <- MCActiveTexts
    InactiveTexts <- MCInactiveTexts
    SANITIZED <- MCSanitized
    Tokens <- MCTokens
    Blanks <- MCBlanks
    TAG_END = gt
    SELF_CLOSE <- MCSelfClose
INVARIANTS InputTypeOK ChunkingIrrelevant BufferBounded OverflowsInDocument FieldsReadTopLevel NoFireSilenced
CHECK_DEADLOCK FALSE
