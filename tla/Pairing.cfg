SPECIFICATION PairingSpec
CONSTANTS
  r1 = r1
  r2 = r2
  s1 = s1
  s2 = s2
  m1 = m1
  Requests = {r1, r2}
  Sessions = {s1, s2}
  Machines = {m1}
  n1 = n1
  n2 = n2
  Names = {n1, n2}
  Tokens = {t1}
  On <- MCOn
  MaxAttempts = 1
  MaxCode = 2
  NoNode = NoNode
  NoName = NoName
  NoToken = NoToken
  NoSession = NoSession
INVARIANTS
  PairingTypeOK
  TokenMakesOneNode
  VerifiedByCurrentCode
  ListedIsThere
PROPERTY
  ImplementsHandover
SYMMETRY MCSymmetry
