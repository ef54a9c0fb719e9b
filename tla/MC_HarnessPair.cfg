\* P5 when two harness runs overlap on one manifest.
SPECIFICATION Spec

\* Both runs return and the processes exit: a finished pair has no successor.
CHECK_DEADLOCK FALSE

INVARIANTS
    BothRestored
