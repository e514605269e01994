---------------------------- MODULE WorkTracking ----------------------------
(***************************************************************************)
(* plugins/work-tracking: a GitHub webhook emits an event, and the hook of *)
(* work-tracking comments the tickets a merged pull request names, moves   *)
(* them on and logs the activity that the standup summary is made of.      *)
(*                                                                         *)
(* The webhook answers 200 before the hook is done and does not notice     *)
(* what becomes of it; GitHub may deliver an event again, and deliveries   *)
(* of one or of several events are handled side by side.  A handler makes  *)
(* one connector call after another with the Jira writer that all share.   *)
(***************************************************************************)
EXTENDS Connector, Sequences

CONSTANTS
  Deliveries,         \* the webhook deliveries that GitHub may make
  MaxDeliveries,      \* bound: deliveries of one event
  DefaultTransition,  \* config.defaultMergeTransition
  NoTransition        \* no defaultMergeTransition is configured

VARIABLES
  handler,    \* the handlers of events
  delivered,  \* how often each delivery has been made
  activity,   \* activityLog
  responses   \* the status codes GitHub was answered with

trackingVars == <<handler, delivered, activity, responses>>

\* What GitHub sends: a pull request names its tickets in branch, title and
\* description, in that order.
Delivery ==
  [valid : BOOLEAN, event : {"pull_request", "issues", "push"},
   action : {"opened", "closed", "review_requested", "labeled"}, merged : BOOLEAN,
   branch : Seq(Tickets), title : Seq(Tickets), description : Seq(Tickets)]

ActivityTypes == {"pr_merged", "pr_opened", "pr_closed"}

\* A handler has handled the tickets before todo; now says what it awaits.
Handler ==
  [of : Deliveries, keys : Seq(Tickets), todo : Seq(Tickets),
   now : {"comment", "policy", "transition"}]

Idle == [now |-> "idle"]

ASSUME TrackingAssumption ==
  /\ Deliveries \subseteq Delivery
  /\ MaxDeliveries \in Nat
  /\ DefaultTransition \in Transitions \cup {NoTransition}

TrackingInit ==
  /\ handler = [h \in Handlers |-> Idle]
  /\ delivered = [d \in Deliveries |-> 0]
  /\ activity = {}
  /\ responses = {}
-----------------------------------------------------------------------------
\* classifyEvent
EventType(d) ==
  CASE d.event = "pull_request" /\ d.action = "opened" -> "pr_opened"
    [] d.event = "pull_request" /\ d.action = "closed" /\ d.merged -> "pr_merged"
    [] d.event = "pull_request" /\ d.action = "closed" -> "pr_closed"
    [] d.event = "pull_request" /\ d.action = "review_requested" -> "pr_review_requested"
    [] d.event = "issues" /\ d.action = "opened" -> "issue_opened"
    [] d.event = "issues" /\ d.action = "closed" -> "issue_closed"
    [] OTHER -> "unknown"

\* mapEventType
ActivityType(type) == IF type \in {"pr_merged", "pr_opened"} THEN type ELSE "pr_closed"

\* A key in several places counts once, where it comes first.
Distinct(s) ==
  LET first == {i \in DOMAIN s : \A j \in 1..(i - 1) : s[j] # s[i]}
      rank == [i \in first |-> Cardinality({j \in first : j <= i})]
      place == [n \in 1..Cardinality(first) |-> CHOOSE i \in first : rank[i] = n]
  IN  [n \in 1..Cardinality(first) |-> s[place[n]]]

\* correlatePrToJira.  The webhook does not pass the description on.
TicketKeys(d) == Distinct(d.branch \o d.title)

Activity(type, keys, by) == [type |-> type, keys |-> keys, by |-> by]
-----------------------------------------------------------------------------
\* handleWebhook: a delivery without payload, action or event header is refused.
Refuse(d) ==
  /\ ~d.valid
  /\ delivered[d] < MaxDeliveries
  /\ delivered' = [delivered EXCEPT ![d] = @ + 1]
  /\ responses' = responses \cup {[delivery |-> d, status |-> 400]}
  /\ UNCHANGED <<handler, activity, connectorVars>>

\* handleWebhook emits the event, the hook runs up to its first await, and GitHub
\* is answered.  A merged pull request with tickets begins with a comment, any
\* other one is logged, and an event without a pull request is not for the hook.
Accept(d, h) ==
  LET type == EventType(d)
      keys == TicketKeys(d)
      merge == type = "pr_merged" /\ keys # <<>>
  IN  /\ d.valid
      /\ delivered[d] < MaxDeliveries
      /\ handler[h] = Idle
      /\ call[h].at = "idle"
      /\ delivered' = [delivered EXCEPT ![d] = @ + 1]
      /\ responses' = responses \cup {[delivery |-> d, status |-> 200]}
      /\ IF merge
         THEN /\ handler' = [handler EXCEPT ![h] =
                   [of |-> d, keys |-> keys, todo |-> keys, now |-> "comment"]]
              /\ call' = [call EXCEPT ![h] = Entered(h, "jira_comment", Head(keys))]
              /\ UNCHANGED activity
         ELSE /\ activity' = activity \cup
                   (IF d.event = "pull_request"
                    THEN {Activity(ActivityType(type), keys, h)} ELSE {})
              /\ UNCHANGED <<handler, call>>
      /\ UNCHANGED <<doc, changes, revoked, failures, disabled, tries, effects, audit, reports, modelCalls>>

\* updateTicketsForMerge: the next ticket, or the end of the merge.
NextTicket(h) ==
  LET rest == Tail(handler[h].todo)
  IN  IF rest = <<>>
      THEN /\ handler' = [handler EXCEPT ![h] = Idle]
           /\ activity' = activity \cup {Activity("pr_merged", handler[h].keys, h)}
           /\ UNCHANGED call
      ELSE /\ handler' = [handler EXCEPT ![h].todo = rest, ![h].now = "comment"]
           /\ call' = [call EXCEPT ![h] = Entered(h, "jira_comment", Head(rest))]
           /\ UNCHANGED activity

Undisturbed ==
  UNCHANGED <<delivered, responses, doc, changes, revoked, disabled, tries, effects, audit, reports, modelCalls>>

\* The comment is answered: a denial ends the ticket, and without a transition
\* there is no more to do for it.
CommentAnswered(h) ==
  /\ handler[h].now = "comment"
  /\ call[h].at = "done"
  /\ call[h].outcome \in {"success", "denied"}
  /\ IF call[h].outcome = "success" /\ DefaultTransition # NoTransition
     THEN /\ handler' = [handler EXCEPT ![h].now = "policy"]
          /\ UNCHANGED <<activity, call>>
     ELSE NextTicket(h)
  /\ UNCHANGED failures
  /\ Undisturbed

\* checkTransitionPolicy: the transition must not be denied, and must be among
\* the allowed ones if the answer lists any.
TransitionAllowed ==
  LET listed == ListedTransitions(doc, "jira_transition")
  IN  /\ EvaluateTool(doc, "jira_transition") # "deny"
      /\ listed = {} \/ DefaultTransition \in listed

TransitionChecked(h) ==
  /\ handler[h].now = "policy"
  /\ EvaluateTool(doc, "jira_transition") # "error"
  /\ IF TransitionAllowed
     THEN /\ handler' = [handler EXCEPT ![h].now = "transition"]
          /\ call' = [call EXCEPT ![h] =
               Entered(h, "jira_transition", Head(handler[h].todo))]
          /\ UNCHANGED activity
     ELSE NextTicket(h)
  /\ UNCHANGED failures
  /\ Undisturbed

TransitionAnswered(h) ==
  /\ handler[h].now = "transition"
  /\ call[h].at = "done"
  /\ call[h].outcome \in {"success", "denied"}
  /\ NextTicket(h)
  /\ UNCHANGED failures
  /\ Undisturbed

\* Mutant: the tickets of a merge are updated side by side, with allSettled.
AbortTicket(h) ==
  /\ handler[h] # Idle
  /\ handler[h].now # "policy"
  /\ call[h].at = "done"
  /\ call[h].outcome \notin {"success", "denied"}
  /\ NextTicket(h)
  /\ UNCHANGED failures
  /\ Undisturbed

\* A call throws, and so does the hook: the tickets that are left stay as they
\* are, and nothing is logged.
Abort(h) ==
  /\ handler[h] # Idle
  /\ handler[h].now # "policy"
  /\ call[h].at = "done"
  /\ call[h].outcome \notin {"success", "denied"}
  /\ handler' = [handler EXCEPT ![h] = Idle]
  /\ UNCHANGED <<activity, call, failures>>
  /\ Undisturbed

\* The policy engine cannot answer the check of the transition.
AbortAtPolicy(h) ==
  /\ handler[h].now = "policy"
  /\ IF EvaluateTool(doc, "jira_transition") = "error" THEN UNCHANGED failures ELSE Fails
  /\ handler' = [handler EXCEPT ![h] = Idle]
  /\ UNCHANGED <<activity, call>>
  /\ Undisturbed

Webhook ==
  \E d \in Deliveries : Refuse(d) \/ \E h \in Handlers : Accept(d, h)

HandlerStep(h) ==
  \/ CommentAnswered(h)
  \/ TransitionChecked(h)
  \/ TransitionAnswered(h)
  \/ Abort(h)
  \/ AbortAtPolicy(h)
=============================================================================
