\* P5 for two harness runs that the callers serialise: the second starts
\* only once the first has returned.
SPECIFICATION SerialSpec

\* Both runs return and the processes exit: a finished pair has no successor.
CHECK_DEADLOCK FALSE

INVARIANTS
    BothRestored
