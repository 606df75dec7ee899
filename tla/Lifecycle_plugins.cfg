\* Three streams in one xine process.
CONSTANT Plugin = {a, b, c}
SPECIFICATION Spec
INVARIANTS TypeOK OneSetOfThreads ThreadsHaveState
PROPERTY StopIsKept
CHECK_DEADLOCK FALSE
