SPECIFICATION MCSpec
CONSTANTS
  u1 = u1
  u2 = u2
  Users = {u1, u2}
  i1 = i1
  i2 = i2
  Identities = {i1, i2}
  EmailOf <- MCEmailOf
  Passwords = {p1}
  Unusable = Unusable
  Requests = {r1, r2}
  None = None
  MaxRequests = 4
  MaxFaults = 1
  Persons = {pa, pf}
  Clients = {pa}
  Deals = {d1, d2}
  MaxPosts = 2
  MaxActs = 6
  Nobody = Nobody
INVARIANTS PasswordChangeEndsSessions SessionIsWhole BadgeIsOfContract
PROPERTIES UseSpendsToken IdentityNeverMoves
CHECK_DEADLOCK FALSE
