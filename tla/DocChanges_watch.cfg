\* Two events of two documents handled at once, from the change to the notice.
SPECIFICATION FairSpec
CONSTANTS
  Files = {report, plan}
  Polls = {p1}
  Monitors = {m1, m2}
  MaxChanges = 2  MaxStarts = 1  MaxFailures = 1
INVARIANT TypeOK
PROPERTY EveryChangeIsTold
