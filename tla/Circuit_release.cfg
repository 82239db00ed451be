SPECIFICATION FairSpec
CONSTANTS
  Calls = {c1, c2, c3}
  FailureMax = 1
  BaseBackoff = 1
  MaxBackoff = 2
PROPERTIES ClosedCallReleasesNothing
