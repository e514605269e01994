# OpenClaw Enterprise in TLA+

A verification development for the plugins and the operator of this repository: TLA+
modules translated from the TypeScript, Go and Rego sources, TLC configurations that model-check them
on small instances, and proofs that TLAPS checks for every value of the
constants. Paths below are relative to the root of the repository.

    Ocip.tla              the sessions_send hooks of plugins/ocip-protocol
    BoundedExchange.tla   what its round counter promises; Ocip implements it
    AutoResponse.tla      the pipeline and the approval queue of plugins/auto-response
    HotReload.tla         the policy watcher of plugins/policy-engine
    PolicyHierarchy.tla   the policy routes, the validator and the resolver of plugins/policy-engine
    PolicyEvaluation.tla  the evaluation of a tool call, the classifier and the model router
    Connector.tla         connector tools: plugins/shared's ConnectorBase and the tool classes
    WorkTracking.tla      the GitHub webhook and the merges of plugins/work-tracking
    TokenPoller.tla       the Gmail and Calendar services
    ConnectorSystem.tla   the four modules above, composed
    GDrivePoller.tla      the Drive service
    DocChanges.tla        the Drive service with the document monitor of plugins/org-intelligence
    Auth.tla              plugins/auth-enterprise
    Operator.tla          the Kubernetes operator and its admission webhook
    MC*.tla, *.cfg        the instances TLC checks
    *Proofs.tla           the theorems (ConnectorProofs: those of ConnectorSystem)

    tlc -workers 2 -config Ocip_sends.cfg MCOcip
    tlapm OcipProofs.tla

## The system

OpenClaw Enterprise is a set of plugins for the OpenClaw gateway and a
Kubernetes operator that deploys it. Every plugin is TypeScript in one Node.js
process; it registers hooks, gateway methods, HTTP routes and services, and
calls others through gateway methods (`policy.evaluate`, `policy.classify`,
`audit.log`). What makes it hard is the same everywhere: a handler is an async
function, state lives in memory between its awaits, other handlers run at every
await, any awaited call may reject, and a restart loses whatever was in memory.

| Component | State it keeps | Operations | What makes it correct |
|---|---|---|---|
| `ocip-protocol` | rounds, limit and transcript of each exchange, in memory | `sessions_send` hooks, outgoing and incoming | rounds ordered, bounded, final after an escalation; nothing leaves unaudited or above its classification; org and tenant boundary; no commitment without a human |
| `auto-response` | scope configuration, approval queue, id counter | process a message, list, approve, reject, update the configuration | a queued response has one fate; the rule in force decides; the user decides on what was shown; everything released is audited |
| `policy-engine`: hot reload | interval, running flag, time of the last check | start, stop, poll, push | every interval accounted for; a saved policy reaches OPA and stays there |
| `policy-engine`: hierarchy, routes | policies in a store | create, update, deprecate, validate against the parent, resolve | no child ever wider than its parent; every change audited or answered with an error |
| `policy-engine`: evaluation, model router, classifier, enforcement hook | none but the OPA client | evaluate, route a model call, classify | fails closed; a classification is raised, never lowered |
| `shared`: connector base | disabled flag and reason | read, write | policy before access, audit after it, nothing after a revocation, a caller told the truth |
| `connector-*` | tokens, page tokens, revision caches, intervals | poll, sync, webhook, tools | no change skipped; a revoked service falls silent |
| `work-tracking` | the activity log | pull request events, Jira comments and transitions, stand-ups | a merge is logged when its tickets were dealt with |
| `org-intelligence` | document cache, pending notifications | detect, notify, summarise, digest | every change is told |
| `auth-enterprise` | key cache, sessions, connector records | validate a token, map groups to roles, log in, administer | no key, role or session is used longer than its life |
| `operator` | Kubernetes objects | reconcile instances and policy bundles, admit policies | objects converge to what the specifications say |
| `audit-enterprise` | the append-only table | write, query, export | no entry changed or lost |
| `task-intelligence` | tasks, briefings | scan, correlate, score, retain, brief | each task counted once; retention removes only what is due |
| `visualization` | none | lay out graphs | pure functions |
| `db`, docs, scripts | tables and rules | | |

Components meet through the gateway: hooks of one agent's process send to
another agent's (OCIP); the auto-response pipeline asks the policy engine and
writes the audit log; the policy engine's routes store what the watcher reads
and pushes into the OPA sidecar, which the evaluator asks; every connector call, of
an agent, of a poll or of work-tracking, asks the evaluator and the classifier; the
GitHub webhook feeds work-tracking and the Drive poller the document monitor; the
operator mounts the policies that the gateway's pods start with. At this commit
`policy-engine/src/plugin.ts` gives the watcher a placeholder that fetches
nothing, and `auto-response/src/plugin.ts` an empty gateway: the models take
the classes as they are written and tested.

## Modelling conventions

* One action per stretch of code between two awaits. A call that waits is a
  record in a set (`sending`, `receiving`, `calls`, `deciding`, `loads`,
  `requests`, `resolutions`), so any
  number of calls overlap, in any order. A hook whose await resolves at once
  (a check within one org unit) still lets others run: it has an action too.
* An awaited gateway call may reject at any time: `OutgoingFails`,
  `IncomingFails`, `CallFails`, `DecisionFails`, `PushFails`, `StartFails`, `RequestFails`,
  `ResolveFails`, `HookFails`, `ReadFails`, `AuditOfWriteFails`, `ListFails`, `KeysFail` and the
  like. Where a failure is counted, `MaxFailures` or the operator's `MaxEvents` bounds it.
* What lives in memory is reset by `Restart`; the audit log, and what has left
  the process, stays.
* Data is abstract: a message is a draft with the fields the code branches on,
  a classification is its index in `CLASSIFICATION_LEVELS`, a policy's content is
  the time at which it was saved. Tenant, user and text fields that are only
  passed on are left out.
* A definition commented "Mutant" is no part of a specification. It is a
  plausible wrong form of the definition after it; putting it in that
  definition's place breaks the property the manifest pairs it with.

## Ocip

`exchange[a][x]` is `ExchangeRoundCounter.exchanges` of agent `a`. `sending`
holds the `handleOutgoing` calls that await `audit.log`, each with the message
it will send and the entry it has handed over; `receiving` holds the
`handleIncoming` calls that await the policy or the audit. `net` is what was handed to
the transport, which may lose, delay, reorder and repeat.

| Code | Actions |
|---|---|
| `handleOutgoing` up to the first await | `SendAll`, `SendFiltered`, `SendOverLimit` |
| after `logDataWithheld`, after `logExchange`, after the escalation's audit | `WithheldLogged`, `OutgoingLogged`, `EscalationLogged` |
| `handleIncoming` up to `enforce` | `BlockCrossEnterprise`, `ReceiveMessage` |
| after `enforce` | `PolicyDenies`, `CommitmentNeedsHuman`, `AcceptMessage` |
| after `logExchange` | `DenialLogged`, `IncomingLogged` |

`RoundsAreDistinctAndBounded` and `NoSendAfterEscalation` are the loop
prevention: sends of one agent that overlap carry different rounds in the order
of the calls, within one limit, and after an escalation no later send leaves.
`LimitIsNeverExtended` says that no receipt or redelivery resets a tracked
exchange. `WithheldIsAudited`, `AuditedBeforePassedOn` and `AuditRoundNotBehind`
tie what is on the wire to what the audit log holds, `AcceptedIsPermitted` what
is passed on to the boundary and commitment rules. All of them are stated per
process: a restart forgets the rounds, so a capped exchange starts anew.

`ImplementsBoundedExchange` says all of that about the rounds at once. In
`BoundedExchange` a side of an exchange, in one life of its agent's process, has one
limit, the number of rounds counted, the rounds granted to messages that wait and
those sent; it can be asked for a round, join at the round of the other side, let a
granted message leave or give it up, and be forgotten in a crash. `Sides` maps
`exchange`, `sending` and `net` to that: the limit and the count are the tracked state, the
rounds waiting are those of the calls that await an audit entry within the limit, the
rounds sent those of the messages in `net` of the running process. Every step of the
two hooks, with any overlap, failure, redelivery or restart, is then one of these four
operations or none. It is safety only: nothing has to be sent.

Two things the documents say that the code does not do: `contracts/ocip-protocol.md:66`
increments the round on every message of a conversation, while each side counts its
own sends and takes the round of an envelope only for an exchange it does not track, so
that a conversation with limit 3 may take five messages (`hooks.ts:243`, against
`counter.ts:32` and the specification's SC-008; the properties bound each side);
and `data-model.md:141` bounds `current_round`, while after the await of
`logDataWithheld` the state is read again by reference (`hooks.ts:166`), so a permitted
message may be audited as in progress with a round that another send has
raised beyond the limit (`AuditRoundNotBehind` says what is left).

Read and not modelled, for what it means to a reviewer: the commitment branch
says "Log and throw" and only throws (`hooks.ts:258`); a cross-enterprise message is
blocked without an audit entry; the responder's entries have an empty
transcript; the filter uses the receiver's levels as the caller gives them and
never the sender's own `maxClassificationShared`; nothing looks at
`expires_at`. A message without a well-formed envelope passes `handleIncoming`
unchanged and is left out of the model.

## AutoResponse

`processMessage` is `SkipMessage` or `ReceiveMessage`, then `Classified`,
`PolicyAnswers` and, when the draft is written, `RespondAtOnce`,
`BlockResponse` or `Enqueue` and `EnqueueLogged`. `ListPending` shows an entry to a
user; `Decide` is `approve` or `reject` up to the await (the entry is removed),
`DecisionLogged` and `DecisionFails` what follows. `UpdateScopeConfig` may come at any
moment: the model reads the configuration where the code does, on arrival for
the disabled channels and after the draft for the rules.

The call that queued an entry and the process it ran in are kept in the entry
although the code has neither: they say which response a reused id means. Users
are not told apart: every user may see and decide every entry of the model.

`EntryHasOneFate`: in whatever order enqueue, approve, reject and failing audits
come, an entry is pending, being decided, or decided once and one way, and a
running process loses none silently (`"lost"` is the fate of an entry whose
decision failed to be audited: it is gone from the queue and was not sent, and
its user has got an error). `DecidedAsShown`: as long as the process has not
restarted in between, a decision falls on the response its user was shown.
`ReleasedIsAudited`: nothing is reported as sent, queued or decided before its
entry is stored. `RuleInForceWins`: the override of the sender, or without one
of the channel, as it is when the response leaves, permits it.

Two things to know when changing this code: with the default configuration a message
classified as noise or critical is answered although the policy engine denies it,
because a classification override is looked at before the policy's answer
(`hooks.ts:94`; the tests block a denied message without an override only); and ids begin
again at 1 after a restart, so a user who was shown `approval-1` before it approves
another response with that id after it (`queue.ts:41`).

## HotReload

`Start` runs up to the fetch, `Push` and `PushFails` are the pushes one by one,
`SetInterval` ends `start`. `Tick` is an interval that fires, whether or not the poll
before it has ended; `PollDone` sets `lastCheckedAt`. `Stop` may come at any await.
A fetch is one step: PostgreSQL answers a query from one snapshot. A `Tick`
whose fetch rejects has changed nothing and is not a step of the model. Four variables are
history: `failedStart` (running was set by a start whose initial load failed),
`overtaken` (the starts a stop fell into), `dropped` (policies a failure kept from OPA or
removed from it) and `raced` (policies saved while a load was under way); a policy leaves
the last two when it is saved with nothing under way.

`TimersAccountedFor` counts the intervals the watcher loses: one at most for each start that a
stop fell into, none for any other reason; and a watcher that runs and has finished
starting has an interval that `stop` can clear, unless its initial load failed, which leaves
`running` set with no interval at all (`watcher.ts:30`).

`StaleOnlyByOverlap` is about the content OPA has. The interval does not wait for a poll, so
pushes of several polls mix, and `lastCheckedAt` is the time at which the pushes ended
(`watcher.ts:63`): a policy saved during them is skipped by every later poll, and an older
content may be pushed after a newer one. Either way OPA stays behind, not for a while but
until the policy is saved again or the watcher is started anew, although `watcher.ts:8` says
that changes take effect within 60 seconds; the same goes for a push that fails and for a
sidecar that restarts. The property says that nothing else makes a policy stale: when no load
is under way, OPA has what was last saved of every policy up to the last check that is
neither `raced` nor `dropped`. `SavedBetweenPollsTakesEffect` is liveness: a policy saved
while no poll is under way reaches OPA unless the watcher is stopped or a failure
intervenes, even when later polls overlap.

Fairness (`FairSpec`): some interval that is set fires again and again, as the
runtime's timers do; a load that has begun makes progress, because `loadPolicy`
carries a timeout and answers or fails within it. Nobody has to save, start, stop or
fail.

## PolicyHierarchy

`policies` is the table behind `PolicyStore`; `requests` holds the calls of the three
routes that change it, each waiting for `findById`, for the validator's
`findByFilter`, for the store or for `audit.log`:

| Code | Actions |
|---|---|
| a route up to its first await | `CreatePolicy`, `UpdatePolicy`, `DeprecatePolicy` |
| after `findById` | `Found`, `NotFound` |
| after `findByFilter`: `validate` | `Admit`, `Reject` |
| the store's write | `StoreCreate`, `StoreUpdate`, `StoreDeprecate` |
| after `audit.log`; any call that rejects | `AuditLogged`; `RequestFails` |
| `policy.resolve`: the chain, one scope after the other | `Resolve`, `PassOver`, `MergePolicy`, `ResolveFails` |

A parsed content is a value per field, and a value is what it permits: a list its
members, a flag something or nothing, a limit the numbers up to it, a level the
levels up to it. Then the three merges of `mergeRestrictive` (intersection, AND,
minimum) are one intersection, and the validator's comparisons are one inclusion;
what is not merged or compared (text, values of two kinds, and levels in the
merge) is kept apart by the kind. The order in which the store answers is not
known to the code, so the "first" parent policy is any active one of that scope.
`writes`, `checked` and `gone` are history: they say whether the scope above was
written since a content was validated, and what was deprecated when a
resolution began.

`WithinSomeCeiling`: with any number of requests validated and stored in
between, an active policy does not exceed every policy of the scope above it, as
long as that scope was not written since. `DeprecatedIsFinal`: an update that is stored
after the deprecation does not undo it, since `updatePolicy` passes no status on
(it ignores the one it is sent). `UnloggedIsReported`: a policy that was
created or deprecated has an entry that says so, or its request still waits for the log, or a
caller was answered with an error for it.
`DeprecatedIsNotEnforced`, `AcknowledgedIsAudited` and
`EffectiveWithinChain` say what a reader of policies, an administrator and a user's
request may rely on. What they leave open is what the code leaves open: a change
whose audit is rejected stays in force without an entry (`routes.ts:79`), while
`docs/getting-started/concepts.md:85` says that every policy change is logged;
and tightening a parent does not look at its children, so only the merge keeps
those within it.

`docs/admin-guide/policy-engine.md:22` promises more: "Lower levels can only restrict".
The merge takes a lower scope's text as it is, classification levels included
(`resolver.ts:152`), and the validator looks one scope up only, so a team policy
without an org policy above it raises the level of the enterprise; and it asks for
the active policies of the parent scope of whatever domain and unit and compares
with the first (`validator.ts:40`), which is why `WithinSomeCeiling` says "some".

`policy-engine/src/plugin.ts` registers neither the routes nor `policy.resolve` at
this commit; the classes are modelled as they are written. `listPolicies` and
`getPolicy` change nothing.

## Connectors

`Connector` holds the calls of connector tools. Three kinds of actors have one call at a
time: an agent, whose invocation first passes the `before_tool_execute` hook; a handler
of work-tracking; and a poll of a token service. The last two call the tool classes
directly, as their plugins do.

| Code | Actions |
|---|---|
| `PolicyEnforcementHook.beforeToolExecute` | `Invoke`, `HookAnswers`, `HookFails` |
| `executeRead`, `executeWrite`: `policy.evaluate` | `PolicyAnswers`, `PolicyFails` |
| `fetchRaw` and `extract`; `policy.classify`; `audit.log` | `Fetch`, `FetchRevoked`, `ReadFails`; `Classify`; `ReadLogged` |
| `performWrite`; `audit.log` | `PerformWrite`, `WriteRevoked`, `WriteFails`; `WriteLogged`, `AuditOfWriteFails` |
| the model router's hook on a model call, and the call | `CallModel` |

`PolicyEvaluation` is the stateless part: `Integrations` and `Models` are the two Rego
packages over `data.policy` (the constant `Documents` says which of it may be saved),
`EvaluateTool` the evaluator on them, `Classified` the
classifier (it raises the connector's default, never lowers it), `Route` the router. `disabled` is the flag of the
objects that outlive a call: the Drive plugin makes one object, work-tracking one Jira
writer; the other tools make an object per execution, so their flag is never seen
again. `effects` are the writes providers have taken, `reports` what callers were told.

`ReportIsTrue` is what a caller may conclude: success means a stored audit entry that
covers every item returned, and a write made; any answer but an error means nothing was
written. The error is the exception the code leaves: a write is performed and then
audited (`connector-base.ts:183`), so a caller who tries again writes twice, once per
error.

`CallModel` does what the router decides, and no property speaks of it. The policies and the
fixed list of `model-router.ts:44` deny an external model for confidential data, but the
denial resolves to the model that was requested (`:112`), the hook stores it like any other
(`:174-183`) and throws nothing; `:42` and `:109`, which say that the call is blocked and the
data stays on self-hosted models, and `docs/admin-guide/data-classification.md:133` rely
on a check that no code of the repository makes.

`WorkTracking` is the webhook (`Refuse`, `Accept`), which answers before its event is
handled, and the handler of a merge: per ticket a comment (`CommentAnswered`), the
transition policy (`TransitionChecked`) and the transition (`TransitionAnswered`). A call
that throws ends the handling (`Abort`, `AbortAtPolicy`): the tickets before it stay
commented and moved, and no activity is logged. `MergeActivityIsTrue` says that a logged
merge did deal with each of its tickets and that no ticket was moved without its comment.
The list of transitions a policy may allow never reaches the updater, since
`integrations.rego:58-60` answers without one, and an absent list allows every transition;
`work-tracking/SKILL.md:34` and `connector-jira/src/tools/write.ts:75` say otherwise.

`TokenPoller` is the structure that the Gmail and Calendar services share: `Start` awaits
a refresh and a first poll and then sets the interval; `Tick` begins a poll whether or
not the one before has ended; a refresh that fails disables the service
(`RefreshFails`), and the poll at hand goes on. `RevocationEndsPolling` is liveness: a
service whose access was revoked is disabled or stopped in the end, and a disabled one
stays silent. Fairness: an interval fires again and again, and each request of a poll is
answered; no one has to call start or stop.

What the code does that a reader might not expect: the Gmail and Calendar write classes
and the model router are registered by no plugin (the host is taken to call them as
their tests do), and the plugins' event callbacks are stubs that the host bridges; the
webhook passes no description on, although the correlator would read it; approval that
is required stops an agent's tool in the hook, but neither a read nor a write inside
`ConnectorBase` looks at it; a write that is answered 401 does not disable its object,
and the polls recognise no revocation but a failed refresh; a repeated delivery is
handled again. A connector without an entry in `data.policy`
makes an undefined answer, which the evaluator turns into an error, so it fails closed.

## DocChanges

`GDrivePoller`: the drive is `log`, its changes in order, and a page token is a position in
it. `Start` awaits the first token (`Started`, `StartRevoked`, `StartFails`); `Tick` begins
a poll, `Listed` takes the first page of the changes after its token, `Processed`, `Classify`
and `Emit` go through them, and `Polled` stores the `newStartPageToken` of the answer, that of
the end of the list; `Stop`, also of a poller that does not run, and a revocation may
come at any of these awaits. A page holds any number of the changes. The poller declares
`nextPageToken` (`poller.ts:24`) and never asks for the next page, so the changes of the later
pages are behind the token it stores (`:174`) and no event is ever emitted for them, while
`connector-gdrive/README.md:9` promises the detection of modifications: `unread` remembers them.
A client that leaves `newStartPageToken` out of all pages but the last, as it may by
Google's description and not by the type declared here, is not modelled.

`SkippedOnlyByPaging`: although polls overlap and may store an older token
after a newer one, no token in force lies past a change whose event was not emitted,
counted from the last start, unless the change was on a page that was not read.
`RevocationStopsWatching` is liveness. What the code leaves open besides:
two starts that overlap set two intervals of which one is never cleared, and the later
token skips the changes between (`since` says so); an event whose listener throws is
swallowed and lost.

`DocChanges` routes each emitted event to a `Monitor`: `ReadDocument`, the cache lookup and
`Compare`, `CacheSet`, `EvaluateNotice` and `Deliver` are `DocumentChangeDetector.detect` and
`notifyDocumentChange`, any number of them overlapping. The routing is the host's (the Drive
plugin says so, `plugin.ts:114`); `org-intelligence/src/plugin.ts` builds the notifier with
stubs and constructs no detector. `EveryChangeIsTold` follows a change from the drive to
the user: it, or a later version of its document, is told or suppressed by policy,
unless it is on a page that was not read, the poller stops, the document goes, the delivery is refused (it is then in the
pending queue, which nothing empties, `notifier.ts:219`) or fails. Fairness: calls are
answered or fail, an interval fires while it is set, the host hands every event on.

## Auth

A request (`request[c]`) is a login callback or a call of a route that the middleware
guards, and awaits the token endpoint (`Exchanged`, `ExchangeFails`) or the key endpoint
(`KeysArrive`, `KeysFail`); fetches of the keys overlap, and each `StoreKeys` overwrites the
cache. The provider answers with what it is at that time (`ProviderSendsKeys`) and the
answer may be a `FetchTimeout` old when it is stored. `past` is history: what the provider
was at each time, against which the properties are stated. `Reply` is the answer the last
step gave.

`AnswersFollowRotation`: a rotated key is refused, and a new one known, within the life of
the cache, whatever fetches overlap; the assumption `FetchTimeout < JwksTtl` is the default
of the runtime against the hour of `JWKS_CACHE_TTL_MS`. `AdminsWereAdmins`: an admin route lets
nobody in who did not have the role within the life of a token and the clock skew.
`SessionsShowLateRoles`: a session shows roles of the login, no older than its life and two fetches.

Where documents and code part: `docs/reference/api.md:37` lets a session cookie
authenticate a request, while the middleware demands a bearer token for all but the
bypassed paths; a key endpoint that fails is answered as an invalid token (401);
`tenantId` is always the configured default; `createAdminRoutes` is registered by no
plugin, the host is taken to mount it behind the middleware. Expired sessions are
never deleted, and sessions and connector records are lost on a restart (they are
`Map`s), which the model resets.

## Operator

`store` is the API server, `seen` the operator's cache, which `Watch` brings up to date one
object at a time; `worker[k]` is the reconciliation under way of an instance or a
bundle, with the copy it read; `queued[k]` its key in the work queue. A write takes the copy's
version along: `Taken` when it is the stored one, `Rejected` on a conflict, a
failure or a lost answer.

| Code | Actions |
|---|---|
| `OpenClawInstanceReconciler.Reconcile` | `Begin`, `AddFinalizer`, `ReconcileDelete`, `WriteObject` of the Deployment and the Service, `UpdateStatus`, `DegradedStep` |
| `PolicyBundleReconciler.Reconcile` | `Begin`, `WriteObject` of the ConfigMap, `NotReadyStep`, `NotSyncedStep`, `SyncedStep` |
| `PolicyBundleValidator.Handle` | `Admitted`, a guard of `Create` and `Edit` |
| users and Kubernetes | `Create`, `Edit`, `Delete`, `Drift`, `Collect`, `PodsStart`, `Resync`, `Restart` |

`Converges`: most errors of a reconciliation are not returned but written into a condition,
so no retry of the queue makes them good; still, with every event of the objects it
owns queued, every change, drift, failure and restart is made good in the end.
`StatusNeverAhead`: what a status says it has observed has been written, by this or a
later reconciliation. `NothingMadeForTheGone`: the finalizer keeps an instance until the
reconciliation under way has ended, so no Deployment is made for a name that
is free again. Fairness: caches catch up, queued keys are worked on, the garbage
collector and the pods make progress, and the manager's resync comes round; users may leave off.

`Operator_policies` is a disagreement with `docs/getting-started/quickstart.md:345`: the
policy controller writes the ConfigMap `<bundle>-opa-policies`, the pods mount
`<instance>-opa-policies`, and the quickstart names the two differently, so its pods wait for
a volume that nothing makes and no policy reaches OPA. With one name for both, OPA
still reads the files only when a pod starts, since it runs without `--watch`.

Also left as the code has it: `Degraded` and `PolicyReady=False` are set and never cleared;
the number of applied policies counts policies, not the files they become (two names that
sanitize alike share one); the webhook warns of a hierarchy it does not like and never
denies for it, while `docs/how-to/write-policies.md:313` says that it rejects.

## Runs and bounds

| Run | Shows | Bounds |
|---|---|---|
| `Ocip_sends` | rounds, escalation, withheld data, the refinement | 2 agents, 1 exchange, 3 sends, limits 1 and 3, 1 restart each |
| `Ocip_exchange` | boundary, commitments, redelivery | 3 agents in 2 tenants and 2 org units, 2 sends, each delivered up to twice |
| `AutoResponse_review` | queue, decisions, rules | 2 messages, 2 channels, 3 configurations, 1 restart |
| `HotReload_polls` | intervals, staleness, liveness | 1 policy, saved 3 times more, 2 starts, 2 overlapping polls, 1 failure |
| `PolicyHierarchy_changes` | validation, deprecation, audit and answers, merge | 1 policy at first, 3 changes of 2 scopes, 2 fields, 1 resolution |
| `Connector_calls` | calls, merges | 1 agent with 3 tools and 2 tries, 1 merge of 2 tickets and other deliveries, 2 policies, 1 failure, 2 revocable connectors |
| `Connector_polls` | liveness of the token services | 1 service, 2 starts, 2 overlapping polls, 1 failure, 1 revocation |
| `DocChanges_polls` | page token, liveness after a revocation | 1 file, 2 changes on pages of 1 or 2, 2 polls, 2 starts, 1 failure |
| `DocChanges_watch` | from a change to its notice | 2 files, 2 changes, 1 poll, 2 monitors, 1 start, 1 failure |
| `Auth_requests` | keys, roles, sessions | 2 requests at once, 1 user, 2 keys, 1 change at the provider, 5 instants |
| `Operator_reconcile` | convergence, status, finalizer | 1 instance and 1 bundle of one name, 2 specifications, 3 policy lists, one cached object behind, 2 user writes or 4 faults |
| `Operator_policies` | violation of `PoliciesReachOPA` | the names of the quickstart, the webhook on |

Three sends pass a limit of 1 twice over while another still waits; two sends
with two deliveries each hold every pair of a first receipt, a redelivery and a
send of the other side. Two messages are enough for any two entries of the
queue to meet, one restart to reuse an id. Two overlapping polls let an older
content or token overtake a newer one, two starts let one fall into another or
into a stop; with policies independent of one another, one
policy suffices for what happens to it. Three changes of a table that already has an
enterprise policy let a deprecation, a replacement and a lower policy meet, or an
update and a deprecation of one policy while another is created; two scopes are a parent
and a child, and the proofs cover four. Three tools are a write, a read of an object
that several calls share, and a read that others do not share; two tries show a retry, two tickets a
merge that ends half way, two policies a change between any two awaits. Five
instants let a token, a session and the key cache each pass their lives of one or two, the
skew and a fetch included. In the operator a user's write counts
twice against `MaxEvents`, a fault once: two writes are a creation and an edit, or a
name deleted and made anew; deletion, collection and pods are not bounded.

The new ids of policies, and the callers and keys of `Auth`, are symmetric in the runs that
declare them so, which check no liveness. The bounded counters are used up in the end, so most
runs do not check for deadlock: no handler of the code waits for another one. In
`Auth_requests`, `DocChanges_polls`, `DocChanges_watch` and `HotReload_polls` a step is always
possible (time, a stop, an interval), and deadlock is checked.

## Proofs

| Module | Theorems | From |
|---|---|---|
| `OcipProofs` | `TypeCorrect`, `Invariance`, `RoundsCorrect`, `EscalationIsFinal`, `AuditInvariance`, `WithheldCorrect`, `AuditBeforePassing`, `OnlyPermittedAccepted`, `AuditRoundCorrect`, `LimitIsFixed`, `Refinement` | `OcipAssumption`, `NoExchangeAssumption` |
| `AutoResponseProofs` | `AutoResponseTypeCorrect`, `QueueInvariance`, `OneFate`, `ShownIsDecided`, `ReleasedCorrect`, `RuleWins` | `AutoResponseAssumption` |
| `HotReloadProofs` | `WatcherTypeCorrect`, `WatcherInvariance`, `TimersCorrect`, `StaleCorrect` | `HotReloadAssumption` |
| `PolicyHierarchyProofs` | `PolicyInvariance`, `PolicyTypeCorrect`, `MergeIsRestrictive`, `ValidationCounts`, `DeprecationIsFinal`, `DeprecationIsEnforced`, `SuccessIsAudited`, `NothingUnreported` | `PolicyHierarchyAssumption` |
| `ConnectorProofs` | `ConnectorInvariance`, `TypeCorrect`, `ReportsTrue`, `MergesTrue` | `ConnectorAssumption`, `TrackingAssumption`, `PollerAssumption` |
| `DocChangesProofs` | `PollerTypeCorrect`, `SkippedByPagingOnly`, `DocTypeCorrect` | `PollerAssumption` of `GDrivePoller` |
| `AuthProofs` | `TypeCorrect`, `RotationFollowed`, `AdminsOnly`, `SessionsLate` | `AuthAssumption` |
| `OperatorProofs` | `OperatorInvariance`, `TypeCorrect`, `StatusCorrect`, `NothingMadeForGone` | `OperatorAssumption`, `NoneAssumption` |

With them every invariant and every action property that a run checks, and the
refinement of `BoundedExchange`, holds for every value of the constants. The assumptions
give the constants their types, keep a value that means nothing (`NoExchange`, `None`,
`Unset`, `NoTicket`) apart from those that mean something, and keep agents, handlers and
polls apart, which are processes of different kinds. One relates numbers: a fetch is given up
(after minutes at most) before keys fetched by it expire (an hour). The bounds are any
numbers.

*Ocip.* Neither property of the rounds is inductive: a message on the wire says
nothing of the calls that still wait. `RoundInv` speaks of tickets, the rounds
ever counted: one per waiting call, per message that left and per audited
escalation. A ticket of the running process is covered by the tracked state (its round
is not above `currentRound`, its limit is `maxRounds`); two tickets of one side are
ordered as their calls; and a call escalates exactly when its round is beyond the
limit. A new send adds a ticket one above the counter; every other action
moves tickets about or drops them, which one lemma covers; a restart starts a new
epoch. Then a message that left after an escalation would have a round both
above and within one limit.

`AuditInv` follows a message from the call that waits for the log to the wire: an id
names one message in one place (`IdsNameMessages`), it carries what its draft allows
(`MeansItsDraft`), the entry its call has handed over is its own (`CallIsAudited`), and an entry
that says `in_progress` is about a message that did leave (`ProgressIsSent`).
`ReceiptInv` says of a receipt under way that its message was sent, crossed no tenant
and, once at the log, commits nobody; `LimitInv` that every limit tracked or on the wire is one some
draft asks for, which makes a side that joins do so within `Limits`.

The refinement maps each step. `SidesUpdated` says that a step that touches one agent and one
exchange changes one side; then a send asks for a round (`BeginOutgoingAsks`), an answer of
the log lets a message leave or gives it up (`LeavingIsLeave`, `RoundGivenUp`), a receipt joins at the
round of its envelope or changes nothing (`AdoptRefines`), and a restart is `Crash`. It needs
the ids of `AuditInv`: without them a message that leaves might be one that has left.

*AutoResponse.* `QueueInv` says that an id names one entry of a process, that a call
queues at most once, that no entry is in two places, that the ids handed out
are all accounted for, and that a decision bears an id its user was shown.
`OneFate` and `ShownIsDecided` follow: an entry shown and an entry decided that have
the same id and the same process are the same entry. `ReleaseInv` says of each entry that waits or is
being decided that its generation is logged. `RuleWins` needs no invariant:
the autonomy is resolved and the response leaves without an await in between.

*HotReload.* `TimerInv` counts: the intervals that are set and the starts under way are
together no more than the starts a stop fell into, and one more while `running` is set by a
start that did not fail; that one has its interval or is still to set it. A stop then takes an
interval away or falls into a start that none had fallen into, so that the count goes on holding,
and the property follows by taking away the interval that `stop` knows of. `FreshInv` says of a
policy that was not raced and not dropped that whatever is still to be pushed of it is what was
last saved, and that OPA has that or a load is about to push it (`UpToDate`): a fetch reads the
table as it is, a save with a load under way makes the policy raced, and a save with
none is later than the last check.

*PolicyHierarchy.* `HierarchyInv` adds to the properties what a request knows at each
of its awaits (`RequestsAreFound`), that a request about to be stored was checked
as a stored policy is (`ContentsAreChecked`), and that the effective policy sets exactly the fields
that were read, within them where their kinds agree (`IsMerge`). Two lemmas carry the
interleavings: `TableGrows` (no step removes a policy, moves it or brings it back)
and `StaysChecked` (a write of the scope above makes a content outdated, a write
of any other scope leaves its ceilings alone), and a third says that a request leaves the
audit log with an entry or an error (`AccountingKept`). Every property of
`PolicyHierarchy_changes` is proved; `DeprecatedIsNotEnforced`, a part of the invariant, is
proved and not checked by a run of its own.

*Connectors.* `ConnectorInv` is stated per actor, over its call, its try and
its own effects, audit entries and reports, so that a step of one actor leaves what is known of the
others alone (`ActorInv`). While a call runs its try has no report, and no effect unless
the write was just made; a write is made when its call waits for the audit or has ended
well (`CallInv`). What was reported is true (`TruthInv`), and the writes of an agent
number at most the errors it was told of, plus one for a write made and not yet
reported (`CountInv`), which is what `ReportIsTrue` counts. A handler has commented every ticket
before the one at hand, has moved none that it did not comment, and meets no key twice, which
is why `Distinct` matters (`HandlerInv`). The intervals of a service and its starts
under way are together no more than its starts (`ServiceInv`).

*DocChanges.* `SkipInv` says that up to the token a poll will store, every change has
its event, was on a page that was not read, or is one that the poll has still to process. A poll that overtakes another one
and stores a later token has itself emitted what it read or knows what it left unread, and one that stores an older
token takes it back: changes are told twice, none is skipped by overlap. `DocInv` adds that a detection
works on a version of its own file that the drive has had.

*Auth.* `AuthInv` gives each value the instant it was true at the provider: the
cached keys were published at `expiry - JwksTtl` or later, a token in hand was issued, a
request waits no longer than `FetchTimeout`, a session's roles are those of its login. Since the
history only grows (`past`), each of these survives every other step, and the bounds
of the three properties are sums of those spans. Overlapping fetches may store older keys after newer
ones, but each set carries the instant of its own request.

*Operator.* `OperatorInv` is stated per resource: the cache's copy and the one a reconciler
works on are never newer than the API server's and the reconciler's never newer than the cache's
(`ResourceInv`); a status speaks of no generation that the cache and the worker do not know
(`StatusInv`); an object that is there was written for no earlier generation than the one the
status or the worker speaks of (`WrittenInv`). A stamp is a uid with a generation, compared in
that order, so a name deleted and made anew is later than anything of the old one. `HoldInv`: while the worker
writes an instance's objects its copy has the finalizer, and then the instance cannot be gone
(`NothingMadeForGone`).

Only model-checked, because liveness is beyond the prover:
`SavedBetweenPollsTakesEffect`, `RevocationEndsPolling`, `RevocationStopsWatching`,
`EveryChangeIsTold` and `Converges`, on the instances above and under the fairness stated with each
module. What the operators compute is proved as far as no induction over data is
needed: `Distinct` lists the tickets by rank and not by recursion for this reason.

## Hazards

`PROJECT.json` lists at its line what is hard to test here, with the properties
that watch over it; a note says where the property covers less than the whole of it. Ten have
no property, because the code lets them happen and nothing of them is left to state:

* the two sides of a conversation count apart (`ocip-protocol/src/hooks.ts:243`), and a restart
  forgets the rounds (`counter.ts:38`);
* ids of queued responses begin again after a restart (`queue.ts:41`), and a channel disabled
  while its message is processed is still answered (`auto-response/src/hooks.ts:151`), where
  the comment says "completely disabled" and not from when;
* a policy is stored against a ceiling that was replaced since it was validated
  (`routes.ts:59`), or against the ceiling of another domain or unit (`validator.ts:40`);
* a connector's policy changes or its object is disabled during a call, which goes on
  (`connector-base.ts:146`);
* a webhook delivered again is handled again (`webhook.ts:112`);
* a denied model call resolves to the requested model (`model-router.ts:112`);
* a notification that could not be delivered waits in a queue that nothing empties
  (`notifier.ts:219`).

## Plan

1. Proofs: lemmas on what `PolicyEvaluation` answers (a classifier never lowers a
   level, a document without the connector denies), an abstract specification of the approval
   queue, each entry decided once, that `AutoResponse` implements, and one of the policy
   table that `PolicyHierarchy` implements.
2. `Retention`: the passes of the retention service against tasks that change between
   its awaits, once the store says what a deletion checks.

## Not modelled

* `visualization`, scoring, digests, news, the consistency checker and stand-ups: functions
  of what they are given, for display.
* `task-intelligence`: its stores are interfaces without an implementation, so what two
  overlapping passes do to one task is not decided by this code.
* `audit-enterprise`: inserts and paged queries of one statement each; every module models
  `audit.log` as an await that stores an entry or rejects.
* The Rego packages `actions`, `audit`, `data` and `features`, which no modelled caller
  evaluates; `agent-exchange` is any answer in `Ocip`.
* The Jira webhook, which validates and hands its event to a stub; the bodies of requests
  and the text of items; health checks.
* The SQL migrations (no plugin connects to the database at this commit), docs, scripts.
