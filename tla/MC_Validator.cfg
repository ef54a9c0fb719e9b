\* The validator's contract on small manifests, and main() against the
\* abstract validator under the mapping AV.
CONSTANTS
    Paths <- MCPaths
    MaxRefs <- MCMaxRefs
SPECIFICATION Spec
\* main() returns and the process exits: a run really stops.
CHECK_DEADLOCK FALSE
INVARIANTS
    TypeOK
    VerdictCorrect
    MissingReportExact
PROPERTIES
    ImplementsAbstract
