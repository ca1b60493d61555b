SPECIFICATION FairSpec
CONSTANTS
  Callers = {"ui", "monitor"}
  MaxCalls = 4
INVARIANTS PreviewTruth  QuitAfterEncoders
PROPERTIES WokenAfterStop StopReturns ReleaseEnds
CHECK_DEADLOCK FALSE
