SPECIFICATION Spec
CONSTANTS
  t1 = t1
  t2 = t2
  alice = alice
  bob = bob
  core = core
  market = market
  shared = shared
  Tasks = {t1, t2}
  Agents = {alice, bob}
  Sessions = {core, market, shared}
  Callers <- MCCallers
  Nobody = Nobody
  NoTask = NoTask
  MinLease = 1
  MaxLease = 2
  LeaseRequests = {0, 3}
  Kept = {"completed"}
  MaxCalls = 2
  MaxTime = 2
SYMMETRY Symmetry
CONSTRAINT Explored
INVARIANTS
  TypeOK
  OneWorker
  HistoryMatchesResult
  WorkRemains
PROPERTIES
  DoneIsFinal
  ImplementsLease
