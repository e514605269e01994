----------------------------- MODULE Connector -----------------------------
(***************************************************************************)
(* The calls of connector tools: ConnectorBase of plugins/shared and the   *)
(* tool classes of the Gmail, Calendar, Jira, GitHub and Drive plugins.    *)
(*                                                                         *)
(* A call asks the policy engine, goes to the provider, classifies what it *)
(* has read and audits; each action below is the code between two awaits.  *)
(* An actor has one call at a time: an agent whose tool invocation first   *)
(* passes the policy engine's before_tool_execute hook and which may try   *)
(* again after an error; a handler of plugins/work-tracking; or a poll of  *)
(* a token poller.  The last two call the tool classes directly.           *)
(*                                                                         *)
(* The Drive plugin makes one connector object for all calls, and so does  *)
(* work-tracking for Jira; every other call has an object of its own.  The *)
(* host calls the Gmail and Calendar write classes, which no plugin        *)
(* registers, and asks the model router.                                   *)
(***************************************************************************)
EXTENDS PolicyEvaluation, FiniteSets

CONSTANTS
  Agents, Handlers, Polls,   \* the actors
  Tickets,                   \* Jira tickets
  NoTicket,                  \* a call that is not about a ticket of a merge
  AgentTools,                \* bound: the tools agents invoke
  Items,                     \* what the providers hold
  Revocable,                 \* bound: the connectors whose access is revoked
  Documents,                 \* the documents an administrator may save
  MaxTries,                  \* bound: invocations of a tool by one agent
  MaxDocuments,              \* bound: changes of OPA's document
  MaxFailures                \* bound: transient failures of external services

VARIABLES
  doc,        \* data.policy in OPA
  changes,    \* how often the document has been changed
  revoked,    \* connectors whose OAuth access the user has revoked
  failures,   \* transient failures so far
  disabled,   \* ConnectorBase.disabled of the objects that outlive a call
  call,       \* the last call of each actor
  tries,      \* how often an agent has invoked its tool
  effects,    \* the writes that providers have taken
  audit,      \* the entries in the audit log
  reports,    \* history: what callers were told
  modelCalls  \* history: the model calls made with what agents read

connectorVars ==
  <<doc, changes, revoked, failures, disabled, call, tries, effects, audit, reports, modelCalls>>

Actors == Agents \cup Handlers \cup Polls
Objects == {"gdrive_connector", "tracking_jira_writer"}

\* An item of a provider: sensitivity is what an AI reading it would find.
Item == [id : Nat, type : Types, isPullRequest : BOOLEAN, sensitivity : Levels]

\* An item as a read returns it.
ReadItem == [item : Items, level : Levels]

Outcomes == {"success", "refused", "denied", "disabled", "unavailable", "revoked", "error"}

Call ==
  [tool : Tools \cup {"none"}, ticket : Tickets \cup {NoTicket},
   at : {"idle", "hook", "policy", "provider", "classify", "audit", "done"},
   decision : Decisions \cup {"none"},
   todo : SUBSET Items, items : SUBSET ReadItem, outcome : Outcomes \cup {"none"}]

\* A write that a provider has taken: new says that it made something.
Effect ==
  [actor : Actors, try : 0..MaxTries, tool : Tools, ticket : Tickets \cup {NoTicket},
   new : BOOLEAN]

Record ==
  [actor : Actors, try : 0..MaxTries, tool : Tools, ticket : Tickets \cup {NoTicket},
   outcome : Outcomes, level : Levels, items : SUBSET ReadItem]

NoCall ==
  [tool |-> "none", ticket |-> NoTicket, at |-> "idle",
   decision |-> "none", todo |-> {}, items |-> {}, outcome |-> "none"]

ASSUME ConnectorAssumption ==
  /\ Agents \cap Handlers = {} /\ Polls \cap (Agents \cup Handlers) = {}
  /\ Items \subseteq Item
  /\ Revocable \subseteq Types
  /\ Documents \subseteq Document
  /\ AgentTools \subseteq Tools
  /\ NoTicket \notin Tickets
  /\ {MaxTries, MaxDocuments, MaxFailures} \subseteq Nat

ConnectorInit ==
  /\ doc \in Documents
  /\ changes = 0
  /\ revoked = {}
  /\ failures = 0
  /\ disabled = {}
  /\ call = [a \in Actors |-> NoCall]
  /\ tries = [a \in Agents |-> 0]
  /\ effects = {}
  /\ audit = {}
  /\ reports = {}
  /\ modelCalls = {}
-----------------------------------------------------------------------------
(* The world around the connectors.                                        *)

\* The hot reload puts another document into OPA.
ChangePolicy ==
  /\ changes < MaxDocuments
  /\ doc' \in Documents \ {doc}
  /\ changes' = changes + 1
  /\ UNCHANGED <<revoked, failures, disabled, call, tries, effects, audit, reports, modelCalls>>

\* The user revokes the OAuth access of a connector at its provider.
Revoke(type) ==
  /\ type \notin revoked
  /\ revoked' = revoked \cup {type}
  /\ UNCHANGED <<doc, changes, failures, disabled, call, tries, effects, audit, reports, modelCalls>>

\* A service fails in passing: OPA, the AI gateway, the audit log or a provider.
Fails == failures < MaxFailures /\ failures' = failures + 1
-----------------------------------------------------------------------------
(* Calls.                                                                  *)

Held(type) == {i \in Items : i.type = type}

\* GmailReadTools: one message, or a search that fetches every message it lists.
GmailFetched(tool) ==
  {s \in SUBSET Held("gmail") : tool = "email_read" => Cardinality(s) = 1}

\* GCalReadTools: the events of a time range, with or without a query.
GCalFetched(tool) == SUBSET Held("gcal")

\* JiraReadTools: both tools are a JQL search.
JiraFetched(tool) == SUBSET Held("jira")

\* GitHubReadTools: the issues endpoint mixes pull requests into its answer, and
\* the extraction drops them.
GitHubFetched(tool) ==
  SUBSET {i \in Held("github") : i.isPullRequest = (tool = "github_pr_read")}

\* GDriveReadConnector: one document, or a search.
GDriveFetched(tool) ==
  {s \in SUBSET Held("gdrive") : tool = "gdrive_read" => Cardinality(s) = 1}

Fetched(tool) ==
  LET type == ConnectorType(tool)
  IN  CASE type = "gmail" -> GmailFetched(tool)
        [] type = "gcal" -> GCalFetched(tool)
        [] type = "jira" -> JiraFetched(tool)
        [] type = "github" -> GitHubFetched(tool)
        [] type = "gdrive" -> GDriveFetched(tool)

\* The objects that a call shares with others.
ObjectOf(a, tool) ==
  CASE a \in Handlers -> {"tracking_jira_writer"}
    [] ConnectorType(tool) = "gdrive" -> {"gdrive_connector"}
    [] OTHER -> {}

TryOf(a) == IF a \in Agents THEN tries[a] ELSE 0

RecordOf(a, c, outcome, level) ==
  [actor |-> a, try |-> TryOf(a), tool |-> c.tool, ticket |-> c.ticket,
   outcome |-> outcome, level |-> level, items |-> c.items]

\* The caller of a is told the outcome; what a poll is told, it notes itself.
Finish(a, outcome) ==
  /\ call' = [call EXCEPT ![a].at = "done", ![a].outcome = outcome]
  /\ reports' = reports \cup
       (IF a \in Polls THEN {} ELSE {RecordOf(a, call[a], outcome, 0)})

\* executeRead and executeWrite begin: a disabled object throws at once.
Entered(a, tool, ticket) ==
  LET off == ObjectOf(a, tool) \cap disabled # {}
  IN  [NoCall EXCEPT !.tool = tool, !.ticket = ticket,
                     !.at = IF off THEN "done" ELSE "policy",
                     !.outcome = IF off THEN "disabled" ELSE "none"]

\* An agent invokes a tool, or invokes it again when it was not successful.
Invoke(a, tool) ==
  /\ tries[a] < MaxTries
  /\ \/ call[a].at = "idle"
     \/ call[a].at = "done" /\ call[a].outcome # "success" /\ call[a].tool = tool
  /\ call' = [call EXCEPT ![a] = [NoCall EXCEPT !.tool = tool, !.at = "hook"]]
  /\ tries' = [tries EXCEPT ![a] = @ + 1]
  /\ UNCHANGED <<doc, changes, revoked, failures, disabled, effects, audit, reports, modelCalls>>

\* PolicyEnforcementHook: only allow lets the tool execute; a denial, an approval
\* that is required and a policy engine that cannot answer throw.
HookAnswers(a) ==
  /\ call[a].at = "hook"
  /\ IF EvaluateTool(doc, call[a].tool) = "allow"
     THEN /\ call' = [call EXCEPT ![a] = Entered(a, call[a].tool, NoTicket)]
          /\ UNCHANGED reports
     ELSE Finish(a, "refused")
  /\ UNCHANGED <<doc, changes, revoked, failures, disabled, tries, effects, audit, modelCalls>>

HookFails(a) ==
  /\ call[a].at = "hook"
  /\ Fails
  /\ Finish(a, "refused")
  /\ UNCHANGED <<doc, changes, revoked, disabled, tries, effects, audit, modelCalls>>

\* Mutant: an answer without constraints is taken like any other.
PolicyAnswersAnyhow(a) ==
  LET c == call[a]
      decision == EvaluateTool(doc, c.tool)
  IN  /\ c.at = "policy"
      /\ CASE decision = "deny" /\ c.tool \in ReadTools -> Finish(a, "denied")
           [] OTHER ->
                /\ call' = [call EXCEPT
                     ![a].at = IF decision = "deny" THEN "audit" ELSE "provider",
                     ![a].decision = decision]
                /\ UNCHANGED reports
      /\ UNCHANGED <<doc, changes, revoked, failures, disabled, tries, effects, audit, modelCalls>>

\* executeRead answers a denial at once, executeWrite audits it first.  Nothing
\* but a denial keeps either from the provider.
PolicyAnswers(a) ==
  LET c == call[a]
      decision == EvaluateTool(doc, c.tool)
  IN  /\ c.at = "policy"
      /\ CASE decision = "error" -> Finish(a, "error")
           [] decision = "deny" /\ c.tool \in ReadTools -> Finish(a, "denied")
           [] OTHER ->
                /\ call' = [call EXCEPT
                     ![a].at = IF decision = "deny" THEN "audit" ELSE "provider",
                     ![a].decision = decision]
                /\ UNCHANGED reports
      /\ UNCHANGED <<doc, changes, revoked, failures, disabled, tries, effects, audit, modelCalls>>

PolicyFails(a) ==
  /\ call[a].at = "policy"
  /\ Fails
  /\ Finish(a, "error")
  /\ UNCHANGED <<doc, changes, revoked, disabled, tries, effects, audit, modelCalls>>
-----------------------------------------------------------------------------
(* executeRead.                                                            *)

\* The provider answers; with no item there is nothing to classify.
Fetch(a) ==
  /\ call[a].at = "provider"
  /\ call[a].tool \in ReadTools
  /\ ConnectorType(call[a].tool) \notin revoked
  /\ \E items \in Fetched(call[a].tool) :
       call' = [call EXCEPT ![a].at = IF items = {} THEN "audit" ELSE "classify",
                            ![a].todo = items]
  /\ UNCHANGED <<doc, changes, revoked, failures, disabled, tries, effects, audit, reports, modelCalls>>

\* The provider answers 401: the object is disabled, for as long as it lives.
FetchRevoked(a) ==
  /\ call[a].at = "provider"
  /\ call[a].tool \in ReadTools
  /\ ConnectorType(call[a].tool) \in revoked
  /\ disabled' = disabled \cup ObjectOf(a, call[a].tool)
  /\ Finish(a, "revoked")
  /\ UNCHANGED <<doc, changes, revoked, failures, tries, effects, audit, modelCalls>>

\* A step within the try block fails: with 503, a refused connection or a timeout
\* the caller gets an error status, any other error is rethrown.
ReadFails(a) ==
  /\ call[a].tool \in ReadTools
  /\ call[a].at \in {"provider", "classify", "audit"}
  /\ Fails
  /\ \E outcome \in {"unavailable", "error"} : Finish(a, outcome)
  /\ UNCHANGED <<doc, changes, revoked, disabled, tries, effects, audit, modelCalls>>

\* policy.classify has answered for an item.
Classify(a) ==
  /\ call[a].at = "classify"
  /\ \E item \in call[a].todo :
       \E level \in Classified(item.type, item.sensitivity) :
         call' = [call EXCEPT
           ![a].todo = @ \ {item},
           ![a].items = @ \cup {[item |-> item, level |-> level]},
           ![a].at = IF call[a].todo = {item} THEN "audit" ELSE "classify"]
  /\ UNCHANGED <<doc, changes, revoked, failures, disabled, tries, effects, audit, reports, modelCalls>>

\* getHighestClassification
HighestLevel(items) ==
  IF items = {} THEN 0 ELSE (CHOOSE i \in items : \A j \in items : j.level <= i.level).level

\* The access is in the audit log; the caller gets the items.
ReadLogged(a) ==
  /\ call[a].at = "audit"
  /\ call[a].tool \in ReadTools
  /\ audit' = audit \cup {RecordOf(a, call[a], "success", HighestLevel(call[a].items))}
  /\ Finish(a, "success")
  /\ UNCHANGED <<doc, changes, revoked, failures, disabled, tries, effects, modelCalls>>
-----------------------------------------------------------------------------
(* executeWrite.                                                           *)

\* GmailWriteTools: each draft and each message sent is a new one.
GmailMakes == {"email_draft", "email_send"}

\* GCalWriteTools: calendar_modify patches the event it is given.
GCalMakes == {"calendar_create"}

\* JiraWriteTools: a transition of an issue that is there already changes nothing.
JiraMakes == {"jira_comment", "jira_create"}

EffectOf(a, c) ==
  [actor |-> a, try |-> TryOf(a), tool |-> c.tool, ticket |-> c.ticket,
   new |-> c.tool \in GmailMakes \cup GCalMakes \cup JiraMakes]

\* The provider has taken the write and says so.
PerformWrite(a) ==
  /\ call[a].at = "provider"
  /\ call[a].tool \notin ReadTools
  /\ ConnectorType(call[a].tool) \notin revoked
  /\ effects' = effects \cup {EffectOf(a, call[a])}
  /\ call' = [call EXCEPT ![a].at = "audit"]
  /\ UNCHANGED <<doc, changes, revoked, failures, disabled, tries, audit, reports, modelCalls>>

\* The provider answers 401.  executeWrite has no try block: it throws, and the
\* object is not disabled.
WriteRevoked(a) ==
  /\ call[a].at = "provider"
  /\ call[a].tool \notin ReadTools
  /\ ConnectorType(call[a].tool) \in revoked
  /\ Finish(a, "error")
  /\ UNCHANGED <<doc, changes, revoked, failures, disabled, tries, effects, audit, modelCalls>>

\* The request fails, or the write was taken and its answer is lost.
WriteFails(a) ==
  /\ call[a].at = "provider"
  /\ call[a].tool \notin ReadTools
  /\ Fails
  /\ effects' \in {effects, effects \cup {EffectOf(a, call[a])}}
  /\ Finish(a, "error")
  /\ UNCHANGED <<doc, changes, revoked, disabled, tries, audit, modelCalls>>

\* The write, or its denial, is in the audit log.
WriteLogged(a) ==
  LET outcome == IF call[a].decision = "deny" THEN "denied" ELSE "success"
  IN  /\ call[a].at = "audit"
      /\ call[a].tool \notin ReadTools
      /\ audit' = audit \cup {RecordOf(a, call[a], outcome, 0)}
      /\ Finish(a, outcome)
      /\ UNCHANGED <<doc, changes, revoked, failures, disabled, tries, effects, modelCalls>>

\* Mutant: executeWrite treats errors the way executeRead does.
AuditOfWriteTimesOut(a) ==
  /\ call[a].at = "audit"
  /\ call[a].tool \notin ReadTools
  /\ Fails
  /\ \E outcome \in {"unavailable", "error"} : Finish(a, outcome)
  /\ UNCHANGED <<doc, changes, revoked, disabled, tries, effects, audit, modelCalls>>

\* audit.log rejects: the caller gets an error for a write that was made.
AuditOfWriteFails(a) ==
  /\ call[a].at = "audit"
  /\ call[a].tool \notin ReadTools
  /\ Fails
  /\ Finish(a, "error")
  /\ UNCHANGED <<doc, changes, revoked, disabled, tries, effects, audit, modelCalls>>
-----------------------------------------------------------------------------
\* An agent hands what it has read to a model.  The hook of the router leaves the
\* model it resolved in the context and throws nothing, so that is the one called.
CallModel(a, model) ==
  LET items == call[a].items
  IN  /\ call[a].at = "done"
      /\ call[a].outcome = "success"
      /\ items # {}
      /\ modelCalls' = modelCalls \cup
           {[items |-> items, model |-> Route(doc, model, HighestLevel(items))]}
      /\ call' = [call EXCEPT ![a].items = {}]
      /\ UNCHANGED <<doc, changes, revoked, failures, disabled, tries, effects, audit, reports>>

\* The call of a goes on.
CallStep(a) ==
  \/ HookAnswers(a)
  \/ HookFails(a)
  \/ PolicyAnswers(a)
  \/ PolicyFails(a)
  \/ Fetch(a)
  \/ FetchRevoked(a)
  \/ ReadFails(a)
  \/ Classify(a)
  \/ ReadLogged(a)
  \/ PerformWrite(a)
  \/ WriteRevoked(a)
  \/ WriteFails(a)
  \/ WriteLogged(a)
  \/ AuditOfWriteFails(a)

AgentStep ==
  \E a \in Agents :
    \/ \E tool \in AgentTools : Invoke(a, tool)
    \/ \E model \in {"external", "self_hosted"} : CallModel(a, model)
=============================================================================
