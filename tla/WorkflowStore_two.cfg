CONSTANTS
  w1 = w1
  w2 = w2
  w3 = w3
  t1 = t1
  t2 = t2
  Process = {p1, p2}
  Workflow = {w1, w2, w3}
  Text = {t1, t2}
  AdminText = {t1}
  Builtins <- MCBuiltinsTwo
  Releases <- MCReleases
  MaxVersions = 3
  MaxAudit = 4
SPECIFICATION FairSpec
CHECK_DEADLOCK FALSE
INVARIANTS
  ChainIntact
  PublishedIsStored
  ServingIsPublished
PROPERTIES
  MovesAudited
  ImplementsHistory
  RequestsEnd
