-------------------------- MODULE ConnectorSystem --------------------------
(***************************************************************************)
(* The connectors as a system: agents, the handlers of work-tracking and   *)
(* the token pollers call the connector tools side by side, while the      *)
(* policy changes, users revoke access and external services fail.         *)
(***************************************************************************)
EXTENDS WorkTracking, TokenPoller

vars == <<connectorVars, trackingVars, pollerVars>>

Init == ConnectorInit /\ TrackingInit /\ PollerInit

World == ChangePolicy \/ \E t \in Revocable : Revoke(t)

ConnectorNext ==
  /\ World \/ AgentStep \/ \E a \in Actors : CallStep(a)
  /\ UNCHANGED <<trackingVars, pollerVars>>

TrackingNext ==
  /\ Webhook \/ \E h \in Handlers : HandlerStep(h)
  /\ UNCHANGED pollerVars

PollerNext ==
  /\ \/ \E t \in PollTypes : Service(t) \/ \E p \in Polls : Tick(p, t)
     \/ \E p \in Polls : PollStep(p)
  /\ UNCHANGED trackingVars

Next == ConnectorNext \/ TrackingNext \/ PollerNext

Spec == Init /\ [][Next]_vars

\* The runtime fires an interval again and again, and every request of a poll is
\* answered: fetch and the gateway give up in the end.  Nobody else has to act.
Fairness ==
  /\ \A t \in PollTypes :
       WF_vars((\E p \in Polls : Tick(p, t)) /\ UNCHANGED trackingVars)
  /\ \A p \in Polls :
       /\ WF_vars(PollStep(p) /\ UNCHANGED trackingVars)
       /\ WF_vars(CallStep(p) /\ UNCHANGED <<trackingVars, pollerVars>>)

FairSpec == Spec /\ Fairness
-----------------------------------------------------------------------------
(* What the code keeps.                                                    *)

\* Every variable has its type.
TypeOK ==
  /\ doc \in Documents
  /\ changes \in 0..MaxDocuments
  /\ revoked \subseteq Types
  /\ failures \in 0..MaxFailures
  /\ disabled \subseteq Objects
  /\ call \in [Actors -> Call]
  /\ tries \in [Agents -> 0..MaxTries]
  /\ effects \subseteq Effect
  /\ audit \subseteq Record
  /\ reports \subseteq Record
  /\ modelCalls \subseteq [items : SUBSET ReadItem, model : {"external", "self_hosted"}]
  /\ \A h \in Handlers : handler[h] = Idle \/ handler[h].of \in Deliveries
  /\ delivered \in [Deliveries -> 0..MaxDeliveries]
  /\ \A e \in activity : e.type \in ActivityTypes
  /\ \A t \in PollTypes : poller[t] \in Poller /\ poller[t].intervals <= MaxStarts
  /\ \A p \in Polls : poll[p] = NoPoll \/ poll[p] \in Poll

SameCall(r, s) == r.actor = s.actor /\ r.try = s.try /\ r.tool = s.tool /\ r.ticket = s.ticket

\* Whatever fails in between, a caller is told the truth.  Success means that the
\* access is in the audit log, at a level no item it returned exceeds, and that a
\* write has been made; a caller who is told that the tool was refused, denied,
\* disabled or unavailable can be sure that nothing was written.  So an agent's intent is
\* carried out twice only after an attempt that ended in an error.
ReportIsTrue ==
  /\ \A r \in reports :
       /\ r.outcome = "success" =>
            /\ \E e \in audit :
                 /\ SameCall(e, r) /\ e.items = r.items /\ e.outcome = "success"
                 /\ \A i \in r.items : i.level <= e.level
            /\ r.tool \notin ReadTools => \E e \in effects : SameCall(e, r)
       /\ r.outcome \notin {"success", "error"} => ~\E e \in effects : SameCall(e, r)
  /\ \A a \in Agents :
       Cardinality({e \in effects : e.actor = a /\ e.new})
         <= 1 + Cardinality({r \in reports : r.actor = a /\ r.outcome = "error"})

\* A merge is logged only when every ticket of the pull request was commented by
\* its handler or policy denied the comment, and a ticket is moved on only after
\* the comment of the same handler was made and audited.
MergeActivityIsTrue ==
  /\ \A e \in activity : e.type = "pr_merged" =>
       \A i \in DOMAIN e.keys :
         \E r \in audit : r.actor = e.by /\ r.tool = "jira_comment" /\ r.ticket = e.keys[i]
  /\ \A e \in effects : e.tool = "jira_transition" /\ e.actor \in Handlers =>
       \E r \in audit : /\ r.actor = e.actor /\ r.tool = "jira_comment"
                        /\ r.ticket = e.ticket /\ r.outcome = "success"

\* A service that polls notices that its access was revoked and disables itself,
\* unless it is stopped, and a disabled one falls silent for good: overlapping
\* polls, an older token, failed refreshes and an interval that start sets after
\* all cannot keep it going.
RevocationEndsPolling ==
  \A t \in PollTypes :
    /\ t \in revoked /\ poller[t].intervals > 0
         ~> poller[t].disabled \/ poller[t].intervals = 0
    /\ poller[t].disabled ~> [](\A p \in Polls : ServiceOf[p] = t => poll[p] = NoPoll)
=============================================================================
