CONSTANTS
  w1 = w1
  w2 = w2
  w3 = w3
  t1 = t1
  t2 = t2
  Process = {p1}
  Workflow = {w1, w2}
  Text = {t1, t2}
  AdminText = {t1}
  Builtins <- MCBuiltinsOne
  Releases <- MCReleases
  MaxVersions = 4
  MaxAudit = 6
SPECIFICATION Spec
CHECK_DEADLOCK FALSE
INVARIANTS
  TypeOK
  AuditLineage
  NoBuiltinTwice
PROPERTIES
  AdminChoiceKept

