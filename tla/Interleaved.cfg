CONSTANTS
  Jobs = {"j", "j|command"}
  Steps <- Straight
  Words <- MCWords
  Details <- Notes
  MaxEvents = 12
  NoHash = NoHash
SPECIFICATION Spec
INVARIANT PublishedVerifies
CHECK_DEADLOCK FALSE
