SPECIFICATION DatabaseSpec
CONSTANTS
    Query = {q1, q2, q3}
    WithCallback = {q1, q2}
PROPERTIES
    ShutdownEndsWorker
CHECK_DEADLOCK FALSE
