SPECIFICATION AccessSpec
CONSTANTS
  u1 = u1
  u2 = u2
  n1 = n1
  n2 = n2
  g1 = g1
  k1 = k1
  k2 = k2
  v1 = v1
  v2 = v2
  None = None
  Empty = Empty
  Users = {u1, u2}
  Nodes = {n1, n2}
  Groups = {g1}
  Jobs = {k1, k2}
  Creds = {c1}
  Versions = {v1, v2}
  Grants <- MCGrants
  Admin <- MCAdmin
  Before <- MCBefore
  KeyField <- MCKeyField
INVARIANTS
  AccessTypeOK
  AdminRemains
  ChangesAudited
  VisibleIsReadable
  SecretsRedacted
  UpgradeKeepsCredentials
SYMMETRY MCSymmetry
