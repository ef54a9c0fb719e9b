\* P5 across a kill-and-rerun of the harness.
CONSTANTS
    MaxCrashes <- MCMaxCrashes

SPECIFICATION Spec

CHECK_DEADLOCK FALSE

INVARIANTS
    OriginalSurvives
