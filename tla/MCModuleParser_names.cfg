CONSTANTS
  Names = {"f", "g"}
  Signatures <- ThreeSignatures
  Codes <- FiveCodes
  Limit <- AtMostTwo
  MaxParameters = 1
  MaxResults = 1
  MaxLocals = 2
  MaxSize = 9
  MaxCustoms = 1
  MaxIndex = 1
SPECIFICATION Spec
INVARIANT ExportNamesUnique
CHECK_DEADLOCK FALSE
