\* P5 across every exception when the harness is never killed.
CONSTANTS
    MaxCrashes <- MCNoCrashes

SPECIFICATION Spec

CHECK_DEADLOCK FALSE

INVARIANTS
    OriginalSurvives
