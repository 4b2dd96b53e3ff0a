CONSTANTS
  Base = 128
  Full = 2
  Rest = 2
  Width32 = 1
  Width64 = 2
  MessageCapacity = 9
  UUIDLen = 2
  Peerings <- AllPeerings
  CallIDs = {200}
  Inputs <- MCInputs
  Outputs <- MCOutputs
  Texts <- MCTexts
SPECIFICATION Spec
INVARIANTS
  TypeOK
  ArgumentsArrive
  ResultArrives
  OnlyUnknownRefused
  OnlyLongVarintsPanic
CHECK_DEADLOCK FALSE
