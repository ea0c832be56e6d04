SPECIFICATION Spec
CONSTANTS
  a1 = a1  a2 = a2  s1 = s1  s2 = s2  o1 = o1  n1 = n1  None = None
  qa1 = qa1  qa2 = qa2  qs1 = qs1  qs2 = qs2  qn1 = qn1  d1 = d1
  Requests = {a1, a2}
  Releases = {qa1, qa2}
  Destroys = {}
  Arrivals = {{a1, a2, qa1, qa2}}
  Kind <- KindOf
  Target <- TargetOf
  Concurrent = FALSE
INVARIANT NoRevokedCredentials
CHECK_DEADLOCK FALSE
