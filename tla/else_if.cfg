CONSTANTS
    Programs <- ElseIf
SPECIFICATION Spec
INVARIANTS
    AcceptedIsAssembled
