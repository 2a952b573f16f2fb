SPECIFICATION Spec
CONSTANTS
  k1 = k1
  k2 = k2
  a1 = a1
  Tokens = {k1, k2}
  Agents = {a1}
  AgentOf <- OneAgent
  Nobody = Nobody
  Quiet = Quiet
  GrantTtl = 2
  MaxChanges = 2
  MaxTime = 3
  Slots = {r1, r2}
INVARIANTS TypeOK ServedWasUsable PagesEnd
PROPERTY RevokedFallsSilent
CHECK_DEADLOCK FALSE
