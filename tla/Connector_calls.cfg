\* An agent and a handler of one merge with two tickets; one change of policy,
\* one failure, access to Drive or Jira revoked.
SPECIFICATION Spec
CONSTANTS
  a1 = a1  h1 = h1  h2 = h2  p1 = p1  p2 = p2  t1 = t1  t2 = t2
  done = done  review = review  none = none
  Agents = {a1}  Handlers = {h1}  Polls = {}
  Tickets = {t1, t2}  NoTicket = none
  Transitions = {done, review}  DefaultTransition = done  NoTransition = none
  AgentTools = {"jira_create", "gdrive_search", "github_issue_read"}
  Items <- MCItems
  Revocable = {"gdrive", "jira"}
  Documents <- MCDocuments
  Deliveries <- MCDeliveries
  ServiceOf <- MCServiceOf
  MaxTries = 2  MaxDocuments = 1  MaxFailures = 1  MaxDeliveries = 1  MaxStarts = 1
INVARIANTS TypeOK ReportIsTrue MergeActivityIsTrue
CHECK_DEADLOCK FALSE
