CONSTANTS
  Base = 128
  Full = 2
  Rest = 2
  Width32 = 1
  Width64 = 2
  MessageCapacity = 9
  UUIDLen = 2
  Peerings <- HttpPeerings
  Inputs <- HttpInputs
  Outputs <- HttpOutputs
  Failures <- MCFailures
  NotFinite = {9}
  CanMarshal <- MarshalsAll
  TextOf <- Text
  ReadAs <- HttpReadAs
  MaxRuns = 2
SPECIFICATION Spec
INVARIANTS
  ResultIsGenuine
  RunsOnce
  RunsAsCalled
CHECK_DEADLOCK FALSE
