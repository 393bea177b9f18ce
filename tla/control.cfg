CONSTANTS
    Programs <- MCPrograms
SPECIFICATION Spec
INVARIANTS
    RefusedOnlyWhereLabelsMeet
PROPERTIES
    RunsAsWritten
