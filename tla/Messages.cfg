SPECIFICATION Spec
CONSTANTS
  alice = alice
  bob = bob
  shared = shared
  market = market
  deploys = deploys
  p1 = p1
  p2 = p2
  c1 = c1
  c2 = c2
  Agents = {alice, bob}
  Sessions = {shared, market}
  Shared = shared
  AnySession = AnySession
  Channels = {deploys}
  Posts = {p1, p2}
  From <- MCFrom
  To <- MCTo
  Clients = {c1, c2}
  Identity <- MCIdentity
  Views <- MCViews
  Limits = {0, 5}
  MaxLimit = 3
  MaxCalls = 2
SYMMETRY Symmetry
INVARIANTS
  TypeOK
  ShownIsRead
  NothingElseSkipped
