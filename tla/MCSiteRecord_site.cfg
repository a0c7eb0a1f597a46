SPECIFICATION FairSpec
CONSTANTS
  Sites = {s1}
  Intervals = {"daily"}
  MaxFailures = 2
  MaxCrashes = 1
  MaxEdits = 1
  NoSite = NoSite
INVARIANT TypeOK
INVARIANT OnceForEachFailure
INVARIANT BlipSaysNothing
PROPERTY EnabledIsScanned
PROPERTY LastingFailureIsMailed
