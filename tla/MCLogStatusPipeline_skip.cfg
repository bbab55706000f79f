\* The claim about SKIPDATA.
CONSTANTS
  Flows = {"f1", "f2", "f3", "f4"}
  EndA <- OutsideEnds
  EndB <- OutsideEnds
  LinkOf <- MixedLinks
  ExcludedTags = {}
  MaxUpdates = 3
  MaxMessages = 2
SPECIFICATION Spec
INVARIANT SkipDataMeansLoss
CHECK_DEADLOCK FALSE
