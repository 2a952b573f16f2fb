SPECIFICATION Spec
CONSTANTS
  r1 = r1
  r2 = r2
  e = e
  dm = dm
  h1 = h1
  h2 = h2
  Replicas = {r1, r2}
  Events = {e, dm}
  Direct = {dm}
  Hooks = {h1, h2}
  Subscriptions <- MCSubscriptions
  MaxAttempts = 2
  Batch = 2
  Concurrency = 1
  Hold = 2
  BackoffSteps = 2
  Backoff <- MCBackoff
  KeepSent = 1
  KeepFailed = 2
  MaxFlight = 1
  MaxFaults = 2
INVARIANTS
  TypeOK
  OneSender
  TriesAreBounded
PROPERTIES
  SettledStays
  EverythingSettles
