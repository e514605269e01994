-------------------------- MODULE PolicyEvaluation --------------------------
(***************************************************************************)
(* What plugins/policy-engine answers: PolicyEvaluator over the shipped    *)
(* Rego of the integrations and models domains, the classifier of          *)
(* connector items and the model router.  All of it is a function of OPA's *)
(* document data.policy, which the hot reload replaces; the state is in    *)
(* the modules that ask.                                                   *)
(***************************************************************************)
EXTENDS Naturals

CONSTANTS
  Transitions   \* names of ticket transitions a policy may list

\* CLASSIFICATION_LEVELS by index: public, internal, confidential, restricted
Levels == 0..3

Types == {"gmail", "gcal", "jira", "github", "gdrive"}

\* The tools of each connector; the Rego finds the connector by the prefix.
ConnectorTools ==
  [gmail |-> {"email_read", "email_search", "email_draft", "email_send"},
   gcal |-> {"calendar_read", "calendar_search", "calendar_create", "calendar_modify"},
   jira |-> {"jira_read", "jira_search", "jira_comment", "jira_transition", "jira_create"},
   github |-> {"github_pr_read", "github_issue_read"},
   gdrive |-> {"gdrive_read", "gdrive_search"}]

Tools == UNION {ConnectorTools[t] : t \in Types}
ConnectorType(tool) == CHOOSE t \in Types : tool \in ConnectorTools[t]

\* is_read_action: the name ends in _read or _search.
ReadTools ==
  {"email_read", "email_search", "calendar_read", "calendar_search", "jira_read",
   "jira_search", "github_pr_read", "github_issue_read", "gdrive_read", "gdrive_search"}

Decisions == {"allow", "require_approval", "deny"}

\* data.policy: a connector may be missing, disabled, or enabled with read or
\* with write (or admin) permissions.
Document ==
  [permission : [Types -> {"absent", "disabled", "read", "write"}],
   models : SUBSET Levels, maxClassification : Levels,
   allowedTransitions : SUBSET Transitions]
-----------------------------------------------------------------------------
\* integrations.rego.  Without an entry for the connector, constraints is
\* undefined, and so is the field that PolicyEvaluator reads of it: evaluate rejects.
Integrations(doc, tool) ==
  LET granted == doc.permission[ConnectorType(tool)]
  IN  [defined |-> granted # "absent",
       allow |-> granted = "write" \/ (granted = "read" /\ tool \in ReadTools),
       requireApproval |-> granted = "read" /\ tool \notin ReadTools]

\* models.rego
Models(doc, level) ==
  [defined |-> TRUE, allow |-> level \in doc.models, requireApproval |-> FALSE]

\* PolicyEvaluator.evaluate: approval is looked at before allow, and the rest is
\* denied; an answer OPA cannot give rejects.
Decision(result) ==
  IF ~result.defined THEN "error"
  ELSE IF result.requireApproval THEN "require_approval"
  ELSE IF result.allow THEN "allow"
  ELSE "deny"

EvaluateTool(doc, tool) == Decision(Integrations(doc, tool))

\* constraints.allowedTransitions of the answer: integrations.rego puts nothing but
\* the ceiling into its constraints, so the document's list never arrives.
ListedTransitions(doc, tool) == {}
-----------------------------------------------------------------------------
\* CONNECTOR_DEFAULT_CLASSIFICATION
DefaultClassification(type) == IF type = "github" THEN 0 ELSE 1

\* DataClassifier.classify: the AI, if there is one and it answers, can only raise
\* the default of the connector.
Classified(type, sensitivity) ==
  LET default == DefaultClassification(type)
  IN  {default} \cup {l \in {sensitivity} : l > default}
-----------------------------------------------------------------------------
\* EXTERNAL_BLOCKED_LEVELS: these data stay on self-hosted models.
BlockedLevels == {2, 3}

Reroute(doc, level) == level \in BlockedLevels \/ level > doc.maxClassification

\* ModelRouter.route: the model it resolves.  A denial leaves the requested one, and
\* only the text of the reason tells.
Route(doc, model, level) ==
  IF Decision(Models(doc, level)) # "deny" /\ model = "external" /\ Reroute(doc, level)
  THEN "self_hosted"
  ELSE model
=============================================================================
