\* The harness with one kill-and-rerun: the per-run restoration contract,
\* the exit status and termination.
CONSTANTS
    MaxCrashes <- MCMaxCrashes

SPECIFICATION Spec

\* main() returns and the process exits: a finished run has no successor.
CHECK_DEADLOCK FALSE

INVARIANTS
    TypeOK
    RestoredOnReturn
    PassMeansBuildFailed

PROPERTIES
    Terminates
    BackupRemovedOnlyWhenRestored
    ManifestWritesOnlyExpected
