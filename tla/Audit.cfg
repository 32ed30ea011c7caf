CONSTANTS
  Jobs = {"j", "j|command"}
  Steps <- Rejecting
  Words <- MCWords
  Details <- Notes
  MaxEvents = 12
  NoHash = NoHash
SPECIFICATION Spec
INVARIANTS
  ChainSound
  TimelineMatchesJob
  VerifiesUnlessInterleaved
  EditsAreNoticed
PROPERTIES
  VerificationStable
CHECK_DEADLOCK FALSE
