\* Four tags, one of them excluded.
CONSTANTS
  Flows = {"f1", "f2", "f3", "f4"}
  EndA <- MixedA
  EndB <- MixedB
  LinkOf <- MixedLinks
  ExcludedTags = {"ingress"}
  MaxUpdates = 3
  MaxMessages = 3
SPECIFICATION Spec
INVARIANTS TypeOK KnownLinksCovered LossIsReported
           SilentInEveryTag StoredUnlessError
CHECK_DEADLOCK FALSE
