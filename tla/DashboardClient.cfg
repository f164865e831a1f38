\* One button while the polls of a page overlap, over a backend in any state.
SPECIFICATION FairSpec
CONSTANTS
  None = None
  Timeout = 1
  MaxClicks = 1
  MaxProgress = 1
PROPERTIES ShowsRecent ReflectsClick ShownCatchesUp
