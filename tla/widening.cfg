SPECIFICATION Spec
CONSTANTS
  Bits <- MCBits
  Declared <- MCDeclared
  Inputs <- MCInputs
  Junk = 165
  Statements <- WidenStatements
INVARIANTS
  ReturnsImplicitCast
