\* A planner run ends, so the absence of a successor state is no error.
CHECK_DEADLOCK FALSE
SPECIFICATION FairSpec
CONSTANTS
  N <- McN
  Programs <- McPrograms
  MaxInt64 <- McMaxInt64
INVARIANTS
  BytesAccounted
  FreeListCoalesced
  VerifierNeverRefuses
  PublishedSizeBounds
PROPERTIES
  EventuallyDecided
