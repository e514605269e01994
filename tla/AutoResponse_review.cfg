\* Two messages, three configurations, one restart.
SPECIFICATION Spec
CONSTANTS
  slack = slack  email = email  boss = boss  peer = peer  m1 = m1  m2 = m2
  Messages = {m1, m2}
  Channels = {slack, email}
  Contacts = {boss, peer}
  Channel <- ChannelOf
  Sender <- SenderOf
  Scopes <- AllScopes
  InitialScope <- DefaultScope
  Unset = Unset
  MaxCalls = 2
  MaxRestarts = 1
INVARIANTS TypeOK EntryHasOneFate DecidedAsShown ReleasedIsAudited
PROPERTY RuleInForceWins
\* The bounded calls are used up and the system stops.
CHECK_DEADLOCK FALSE
