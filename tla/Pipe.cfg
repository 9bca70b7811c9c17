CONSTANTS
  SegSize = 2
  SegCount = 2
  MaxBytes = 5
  Counts = {3}
  Reasons = {"closed", "error"}
  MayFail = TRUE
  Word = 5
SPECIFICATION Spec
CHECK_DEADLOCK FALSE
INVARIANT PipeInv
INVARIANT NobodyWaitsInVain
PROPERTY RefinesBytePipe
PROPERTY EventuallyRead
PROPERTY EndReleases
