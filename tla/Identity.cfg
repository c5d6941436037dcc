SPECIFICATION Spec
CONSTANTS
  Replicas = {r1, r2}
  Changes = {c1, c2}
  Users = {admin, other}
  Admin = admin
  MaxStarts = 2
  MaxRetries = 2
  MaxClock = 4
  MaxSessions = 1
  Operator = Operator
  Stale = Stale
  Empty = Empty
  Old = Old
  None = None
SYMMETRY Symmetric
INVARIANTS
  TypeOK
  AnyReplicaAccepts
  SessionsRevoked
  CertificatesTrusted
  InitialCredentialWorks
  ChangesKept
CHECK_DEADLOCK FALSE
