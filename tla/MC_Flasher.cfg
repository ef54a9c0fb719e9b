\* Every platform, method, firmware and tool presence, and every earlier
\* device state that does not hold the image.
SPECIFICATION Spec

\* The script ends (error() or main() returning): a finished run has no
\* successor.
CHECK_DEADLOCK FALSE

INVARIANTS
    FlashOutcomeReported

PROPERTIES
    ImplementsAbstract
