SPECIFICATION Spec
CONSTANTS
  u1 = u1
  c1 = c1
  c2 = c2
  k1 = k1
  k2 = k2
  t1 = t1
  t2 = t2
  none = none
  Users = {u1}
  Clients = {c1, c2}
  Kids = {k1, k2}
  Groups <- MCGroups
  Tenants = {t1, t2}
  DefaultTenant = t1
  SeededConnectors <- MCSeeded
  TokenTtl = 1
  SessionTtl = 1
  JwksTtl = 2
  ClockSkew = 1
  FetchTimeout = 1
  MaxTime = 4
  MaxChanges = 1
  MaxSessions = 1
  MaxConnectors = 2
  None = none
SYMMETRY CallersAndKeys
INVARIANTS
  TypeOK
  AnswersFollowRotation
  AdminsWereAdmins
  SessionsShowLateRoles
