CONSTANTS
  NumAReg = 3
  LargeCopyByAReg = TRUE
  CachedFrameSize = TRUE
SPECIFICATION Spec
INVARIANT
  ReturnsToCaller
