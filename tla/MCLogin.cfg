SPECIFICATION MCSpec
CONSTANTS
  c1 = c1
  c2 = c2
  c3 = c3
  l1 = l1
  l2 = l2
  l3 = l3
  NoClient = NoClient
  Clients <- ThreeClients
  Logins <- ThreeLogins
  Limit = 2
  MaxActive = 2
  MaxTracked = 2
  Window = 2
  Block = 2
  MaxTime = 5
  Slots = {1, 2}
  MaxLogins = 2
  MaxReloads = 1
INVARIANTS SessionIsTrue
PROPERTIES LimiterHolds EndIsNoticed
