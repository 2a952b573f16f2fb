SPECIFICATION Spec
CONSTANTS
  alice = alice
  bob = bob
  core = core
  market = market
  coreChannel = coreChannel
  deploys = deploys
  q = q
  a = a
  n = n
  b = b
  t = t
  c1 = c1
  Agents = {alice, bob}
  Sessions = {core, market}
  AnySession = AnySession
  Channels = {coreChannel, deploys}
  None = None
  Events = {q, a, n, b, t}
  Messages = {q, a, n, b}
  From <- MCFrom
  To <- MCTo
  Announced = {n}
  ReplyTo <- MCReplyTo
  Clients = {c1}
  Identity <- MCIdentity
  HomeChannel <- MCHomeChannel
  KindFilters <- MCKindFilters
  AskTo <- MCAskTo
  Question <- MCQuestion
  Capacity = 2
  MaxFaults = 1
INVARIANTS
  TypeOK
  NothingSlips
  AnswerWakes
PROPERTIES
  AnswerArrives
