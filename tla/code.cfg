SPECIFICATION Spec
CONSTANTS
  Bits <- MCBits
  Declared <- MCDeclared
  Inputs <- MCInputs
  Junk = 165
  Statements <- MCStatements
INVARIANTS
  TypeOK
  Assembles
  ComputesMeaning
  WarningsAreRight
