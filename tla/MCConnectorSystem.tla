------------------------- MODULE MCConnectorSystem -------------------------
(* Instances of ConnectorSystem for TLC.                                   *)
EXTENDS ConnectorSystem

CONSTANTS a1, h1, h2, p1, p2, t1, t2, done, review, none

MCItems ==
  {[id |-> 1, type |-> "github", isPullRequest |-> FALSE, sensitivity |-> 0],
   [id |-> 2, type |-> "gdrive", isPullRequest |-> FALSE, sensitivity |-> 2],
   [id |-> 3, type |-> "gmail", isPullRequest |-> FALSE, sensitivity |-> 0]}

\* Everything is enabled but may be read only in Drive and Mail.
Open ==
  [permission |-> [t \in Types |-> IF t = "jira" THEN "write" ELSE "read"],
   models |-> 0..2, maxClassification |-> 2, allowedTransitions |-> {}]

\* Jira needs approval, Drive is off, and Mail has no entry.
Tight ==
  [Open EXCEPT !.permission = [t \in Types |->
      CASE t = "jira" -> "read" [] t = "gdrive" -> "disabled" [] OTHER -> "absent"],
    !.models = 0..0, !.maxClassification = 0, !.allowedTransitions = {review}]

Merge ==
  [valid |-> TRUE, event |-> "pull_request", action |-> "closed", merged |-> TRUE,
   branch |-> <<t1>>, title |-> <<t1, t2>>, description |-> <<>>]
Opened == [Merge EXCEPT !.action = "opened", !.merged = FALSE]

MCOpen == {Open}
MCDocuments == {Open, Tight}
MCDeliveries == {Merge, Opened, [Opened EXCEPT !.valid = FALSE]}
MCServiceOf == [p \in Polls |-> "gmail"]
=============================================================================
