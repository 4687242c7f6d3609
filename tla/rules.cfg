SPECIFICATION Spec
CONSTANTS
  Failed = Failed
  TooMany = TooMany
  NoProfile = NoProfile
INVARIANTS EvidenceIsWhole ViewsAreTrue SlotsAreTrue
CHECK_DEADLOCK FALSE
