SPECIFICATION Spec
CONSTANTS
  alice = alice
  bob = bob
  core = core
  market = market
  Names = {n1, n2}
  Agents = {alice, bob}
  Sessions = {core, market}
  Callers <- MCCallers
  Nobody = Nobody
  NoName = NoName
  NoPurpose = NoPurpose
  MinTtl = 1
  MaxTtl = 2
  TtlRequests <- MCTtlRequests
  MaxTime = 3
SYMMETRY Symmetry
CONSTRAINT Explored
INVARIANTS
  TypeOK
  ToldIsTrue
PROPERTIES
  ImplementsLease
