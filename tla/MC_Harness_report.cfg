\* Scenario 5: a passing run saw the missing file named in the tool output.
CONSTANTS
    MaxCrashes <- MCMaxCrashes

SPECIFICATION Spec

CHECK_DEADLOCK FALSE

INVARIANTS
    PassMeansFileReported
