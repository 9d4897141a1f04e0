CONSTANTS
  NumAReg = 3
  LargeCopyByAReg = FALSE
  CachedFrameSize = FALSE
SPECIFICATION Spec
INVARIANTS
  CanonicalValue
  NoStaleUse
  ExitsRestored
