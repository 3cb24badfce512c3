SPECIFICATION Spec
CONSTANTS
  Contracts <- FourContracts
  Assertions <- TheirAssertions
  MaxPublications = 2
  MaxDbtRuns = 2
INVARIANTS ContractIsComplete SuccessHasEvidence VerifiedIsPassing
CHECK_DEADLOCK FALSE
