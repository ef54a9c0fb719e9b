\* Every extracted reference is a path as the manifest writes it.
CONSTANT Texts <- MCTexts

SPECIFICATION Spec

CHECK_DEADLOCK FALSE

INVARIANTS
    ExtractedAsWritten
