\* Two polls of the Drive poller at once, two starts, stops, a revocation and a failure.
SPECIFICATION FairPollerSpec
CONSTANTS
  Files = {report}
  Polls = {p1, p2}
  MaxChanges = 2  MaxStarts = 2  MaxFailures = 1
INVARIANT SkippedOnlyByPaging
PROPERTY RevocationStopsWatching
