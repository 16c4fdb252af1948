SPECIFICATION Spec
CONSTANTS
  MaxIterations = 5
  MaxRetries = 2
  MaxInputs = 3
  HasParent = TRUE
INVARIANTS
  RestIsQuiet
  RightlyBlamed
  RoundsBounded
PROPERTIES
  ContractSpec
  CancelledLeaves
CHECK_DEADLOCK FALSE
