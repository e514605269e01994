\* One service with two starts and overlapping polls; its access is revoked.
SPECIFICATION FairSpec
CONSTANTS
  a1 = a1  h1 = h1  h2 = h2  p1 = p1  p2 = p2  t1 = t1  t2 = t2
  done = done  review = review  none = none
  Agents = {}  Handlers = {}  Polls = {p1, p2}
  Tickets = {t1, t2}  NoTicket = none
  Transitions = {done, review}  DefaultTransition = done  NoTransition = none
  AgentTools = {}
  Items = {}
  Revocable = {"gmail"}
  Documents <- MCOpen
  Deliveries = {}
  ServiceOf <- MCServiceOf
  MaxTries = 2  MaxDocuments = 0  MaxFailures = 1  MaxDeliveries = 1  MaxStarts = 2

PROPERTY RevocationEndsPolling
CHECK_DEADLOCK FALSE
