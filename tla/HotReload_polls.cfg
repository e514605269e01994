\* Two starts, overlapping polls, a stop at any point, one failure.
SPECIFICATION FairSpec
CONSTANTS
  actions = actions  models = models
  Policies = {actions}
  MaxUpdates = 4
  MaxStarts = 2
  MaxPolls = 2
  MaxFailures = 1
INVARIANTS TypeOK TimersAccountedFor StaleOnlyByOverlap
PROPERTY SavedBetweenPollsTakesEffect
