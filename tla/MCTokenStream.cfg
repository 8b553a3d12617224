SPECIFICATION Spec
CONSTANTS
    stream = stream
    Streams <- MCStreams
    Words = 5
INVARIANTS
    StreamWellFormed
    OutcomeAgrees
    BubbleMatchesStore
PROPERTIES
    AfterAbortOnlyTheEnd
