---------------------------- MODULE AutoResponse ----------------------------
(***************************************************************************)
(* The auto-response plugin: AutoResponseHook.processMessage classifies a  *)
(* message, asks the policy, drafts a response and routes it: sent, sent   *)
(* with a notice, queued for approval or blocked.  ApprovalQueue holds the *)
(* queued ones in memory until a user approves or rejects them.            *)
(*                                                                         *)
(* All of it runs in one process, interleaved at the awaits; every action  *)
(* is the code between two awaits.  The classification and response models,*)
(* the policy engine and the audit plugin are external: an awaited call    *)
(* answers anything, in any order, or rejects.                             *)
(***************************************************************************)
EXTENDS Naturals, FiniteSets

CONSTANTS
  Messages,        \* incoming messages
  Channels, Channel,
  Contacts, Sender,   \* the channel and the sender of each message
  Scopes,          \* the scope configurations updateScopeConfig may be given
  InitialScope,    \* the configuration the hook is built with
  Unset,           \* an override that is not configured
  MaxCalls,        \* bound: calls of processMessage
  MaxRestarts      \* bound: restarts of the process

Autonomy == {"autonomous", "notify", "approve", "block"}
Classifications == {"critical", "needs-response", "informational", "noise"}
Rule == Autonomy \cup {Unset}

\* hooks.ts: AutoResponseScopeConfig
ScopeConfig ==
  [contactOverrides : [Contacts -> Rule], channelOverrides : [Channels -> Rule],
   classificationOverrides : [Classifications -> Rule], defaultAutonomy : Autonomy,
   disabledChannels : SUBSET Channels, disabledContacts : SUBSET Contacts]

ASSUME AutoResponseAssumption ==
  /\ Channel \in [Messages -> Channels]
  /\ Sender \in [Messages -> Contacts]
  /\ Unset \notin Autonomy
  /\ Scopes \subseteq ScopeConfig
  /\ InitialScope \in ScopeConfig
  /\ MaxCalls \in Nat
  /\ MaxRestarts \in Nat

VARIABLES
  scope,     \* AutoResponseHook.scopeConfig
  calls,     \* processMessage calls that wait for an answer
  results,   \* how the finished calls ended
  pending,   \* ApprovalQueue.pending
  nextId,    \* ApprovalQueue.nextId
  deciding,  \* approve and reject calls that wait for audit.log
  decided,   \* how the finished approve and reject calls ended
  views,     \* what listPending has shown to the users
  audit,     \* the entries audit.log has stored
  nextCall,  \* the number of the next processMessage call
  epoch      \* restarts of the process

vars == <<scope, calls, results, pending, nextId, deciding, decided, views,
          audit, nextCall, epoch>>

Call ==
  [call : 1..MaxCalls, msg : Messages, pc : {"classify", "policy", "draft", "queue"},
   class : Classifications \cup {Unset}, policy : Rule]
Result ==
  [call : 1..MaxCalls, msg : Messages, policy : Rule,
   action : {"sent", "notified", "queued", "blocked", "skipped", "failed"}]

\* approval/queue.ts: PendingResponse.  The id is a number; call and epoch, the
\* call that queued it and the process it ran in, are not in the code.
PendingResponse == [id : Nat \ {0}, call : 1..MaxCalls, epoch : Nat]

\* A decision is taken on an entry the user was shown; the call carries its id only.
Decision ==
  [entry : PendingResponse, view : PendingResponse, action : {"approved", "rejected"}]
Decided ==
  [entry : PendingResponse, view : PendingResponse,
   fate : {"approved", "rejected", "lost"}]
AuditEntry ==
  [call : 1..MaxCalls,
   event : {"classified", "generated", "pending_approval", "approved", "rejected"}]
-----------------------------------------------------------------------------
Init ==
  /\ scope = InitialScope
  /\ calls = {}
  /\ results = {}
  /\ pending = {}
  /\ nextId = 1
  /\ deciding = {}
  /\ decided = {}
  /\ views = {}
  /\ audit = {}
  /\ nextCall = 1
  /\ epoch = 0
-----------------------------------------------------------------------------
(* The pure parts.                                                         *)

\* The channel or the contact is completely disabled.
Disabled(m) ==
  Channel[m] \in scope.disabledChannels \/ Sender[m] \in scope.disabledContacts

\* Mutant: the decision is taken for the level it names.
DecisionAsLevel(decision) ==
  IF decision = "allow" THEN "autonomous" ELSE decision

\* responder.ts: mapPolicyDecisionToAutonomy
MapPolicyDecision(decision) ==
  CASE decision = "allow" -> "autonomous"
    [] decision = "require_approval" -> "approve"
    [] decision = "deny" -> "block"
    [] OTHER -> "notify"

\* Mutant: the channel's rule comes before the contact's.
ResolveChannelFirst(s, c) ==
  IF s.channelOverrides[Channel[c.msg]] # Unset
    THEN s.channelOverrides[Channel[c.msg]]
  ELSE IF s.contactOverrides[Sender[c.msg]] # Unset
    THEN s.contactOverrides[Sender[c.msg]]
  ELSE IF s.classificationOverrides[c.class] # Unset
    THEN s.classificationOverrides[c.class]
  ELSE IF c.policy # "autonomous" THEN c.policy ELSE s.defaultAutonomy

\* hooks.ts: resolveAutonomyLevel: contact, channel, classification, a policy
\* stricter than autonomous, default: the first that says something.
ResolveAutonomyLevel(s, c) ==
  IF s.contactOverrides[Sender[c.msg]] # Unset
    THEN s.contactOverrides[Sender[c.msg]]
  ELSE IF s.channelOverrides[Channel[c.msg]] # Unset
    THEN s.channelOverrides[Channel[c.msg]]
  ELSE IF s.classificationOverrides[c.class] # Unset
    THEN s.classificationOverrides[c.class]
  ELSE IF c.policy # "autonomous" THEN c.policy ELSE s.defaultAutonomy

AuditLog(c, event) == audit' = audit \cup {[call |-> c.call, event |-> event]}

Finish(c, action) ==
  results' = results \cup
    {[call |-> c.call, msg |-> c.msg, policy |-> c.policy, action |-> action]}

Advance(c, d) == calls' = (calls \ {c}) \cup {d}
-----------------------------------------------------------------------------
(* processMessage.                                                         *)

NewCall(m) ==
  [call |-> nextCall, msg |-> m, pc |-> "classify", class |-> Unset, policy |-> Unset]

\* Disabled when the message arrives: skipped, nothing is awaited.
SkipMessage(m) ==
  /\ nextCall <= MaxCalls
  /\ Disabled(m)
  /\ nextCall' = nextCall + 1
  /\ Finish(NewCall(m), "skipped")
  /\ UNCHANGED <<scope, calls, pending, nextId, deciding, decided, views, audit, epoch>>

ReceiveMessage(m) ==
  /\ nextCall <= MaxCalls
  /\ ~Disabled(m)
  /\ nextCall' = nextCall + 1
  /\ calls' = calls \cup {NewCall(m)}
  /\ UNCHANGED <<scope, results, pending, nextId, deciding, decided, views, audit, epoch>>

\* MessageClassifier.classify resolves: the model has answered, the answer is
\* audited.
Classified(c, class) ==
  /\ c.pc = "classify"
  /\ AuditLog(c, "classified")
  /\ Advance(c, [c EXCEPT !.pc = "policy", !.class = class])
  /\ UNCHANGED <<scope, results, pending, nextId, deciding, decided, views, nextCall, epoch>>

\* The policy engine answers ResponseGenerator.generate.
PolicyAnswers(c, decision) ==
  /\ c.pc = "policy"
  /\ Advance(c, [c EXCEPT !.pc = "draft", !.policy = MapPolicyDecision(decision)])
  /\ UNCHANGED <<scope, results, pending, nextId, deciding, decided, views, audit,
                 nextCall, epoch>>

\* The draft is written and audited; the configuration read now routes it.
RespondAtOnce(c) ==
  /\ c.pc = "draft"
  /\ ResolveAutonomyLevel(scope, c) \in {"autonomous", "notify"}
  /\ AuditLog(c, "generated")
  /\ Finish(c, IF ResolveAutonomyLevel(scope, c) = "notify" THEN "notified" ELSE "sent")
  /\ calls' = calls \ {c}
  /\ UNCHANGED <<scope, pending, nextId, deciding, decided, views, nextCall, epoch>>

BlockResponse(c) ==
  /\ c.pc = "draft"
  /\ ResolveAutonomyLevel(scope, c) = "block"
  /\ AuditLog(c, "generated")
  /\ Finish(c, "blocked")
  /\ calls' = calls \ {c}
  /\ UNCHANGED <<scope, pending, nextId, deciding, decided, views, nextCall, epoch>>

\* Mutant: ids are counted from what is pending.
EntryBySize(c) ==
  [id |-> Cardinality(pending) + 1, call |-> c.call, epoch |-> epoch]

NewEntry(c) == [id |-> nextId, call |-> c.call, epoch |-> epoch]

\* enqueue: the entry can be decided from here on, before its queueing is audited.
Enqueue(c) ==
  /\ c.pc = "draft"
  /\ ResolveAutonomyLevel(scope, c) = "approve"
  /\ AuditLog(c, "generated")
  /\ pending' = {e \in pending : e.id # NewEntry(c).id} \cup {NewEntry(c)}
  /\ nextId' = nextId + 1
  /\ Advance(c, [c EXCEPT !.pc = "queue"])
  /\ UNCHANGED <<scope, results, deciding, decided, views, nextCall, epoch>>

EnqueueLogged(c) ==
  /\ c.pc = "queue"
  /\ AuditLog(c, "pending_approval")
  /\ Finish(c, "queued")
  /\ calls' = calls \ {c}
  /\ UNCHANGED <<scope, pending, nextId, deciding, decided, views, nextCall, epoch>>

\* A model, the policy engine or audit.log rejects: processMessage throws.  An
\* entry that is already queued stays queued.
CallFails(c) ==
  /\ Finish(c, "failed")
  /\ calls' = calls \ {c}
  /\ UNCHANGED <<scope, pending, nextId, deciding, decided, views, audit, nextCall, epoch>>
-----------------------------------------------------------------------------
(* The users and the policy.                                               *)

\* listPending shows an entry to a user.
ListPending(e) ==
  /\ views' = views \cup {e}
  /\ UNCHANGED <<scope, calls, results, pending, nextId, deciding, decided, audit,
                 nextCall, epoch>>

\* Mutant: the entry is removed when the decision has been audited, not before.
DecideKeeping(v, e, action) ==
  /\ e.id = v.id
  /\ deciding' = deciding \cup {[entry |-> e, view |-> v, action |-> action]}
  /\ UNCHANGED <<scope, calls, results, pending, nextId, decided, views, audit,
                 nextCall, epoch>>

\* approve and reject remove the entry that has the id, then await audit.log.
\* With no such entry they throw, and nothing changes.
Decide(v, e, action) ==
  /\ e.id = v.id
  /\ pending' = pending \ {e}
  /\ deciding' = deciding \cup {[entry |-> e, view |-> v, action |-> action]}
  /\ UNCHANGED <<scope, calls, results, nextId, decided, views, audit, nextCall, epoch>>

Settle(d, fate) ==
  /\ deciding' = deciding \ {d}
  /\ decided' = decided \cup {[entry |-> d.entry, view |-> d.view, fate |-> fate]}

\* Mutant: the decision is returned without waiting for audit.log.
DecisionNotAwaited(d) ==
  /\ Settle(d, d.action)
  /\ UNCHANGED <<scope, calls, results, pending, nextId, views, audit, nextCall, epoch>>

\* The decision is audited and the response body goes back to the caller.
DecisionLogged(d) ==
  /\ AuditLog(d.entry, d.action)
  /\ Settle(d, d.action)
  /\ UNCHANGED <<scope, calls, results, pending, nextId, views, nextCall, epoch>>

\* audit.log rejects: the caller gets an error, and the entry is gone.
DecisionFails(d) ==
  /\ Settle(d, "lost")
  /\ UNCHANGED <<scope, calls, results, pending, nextId, views, audit, nextCall, epoch>>

UpdateScopeConfig(s) ==
  /\ s # scope
  /\ scope' = s
  /\ UNCHANGED <<calls, results, pending, nextId, deciding, decided, views, audit,
                 nextCall, epoch>>

\* The process restarts: everything but the audit log and what has been seen or
\* sent is gone, and the ids of the queue begin again at 1.
Restart ==
  /\ epoch < MaxRestarts
  /\ epoch' = epoch + 1
  /\ scope' = InitialScope
  /\ calls' = {}
  /\ pending' = {}
  /\ deciding' = {}
  /\ nextId' = 1
  /\ UNCHANGED <<results, decided, views, audit, nextCall>>

ProcessMessage ==
  \/ \E m \in Messages : SkipMessage(m) \/ ReceiveMessage(m)
  \/ \E c \in calls :
       \/ \E class \in Classifications : Classified(c, class)
       \/ \E decision \in {"allow", "require_approval", "deny", "other"} :
            PolicyAnswers(c, decision)
       \/ RespondAtOnce(c)
       \/ BlockResponse(c)
       \/ Enqueue(c)
       \/ EnqueueLogged(c)
       \/ CallFails(c)

Review ==
  \/ \E e \in pending : ListPending(e)
  \/ \E v \in views, e \in pending, action \in {"approved", "rejected"} :
       Decide(v, e, action)
  \/ \E d \in deciding : DecisionLogged(d) \/ DecisionFails(d)

Next ==
  \/ ProcessMessage
  \/ Review
  \/ \E s \in Scopes : UpdateScopeConfig(s)
  \/ Restart

Spec == Init /\ [][Next]_vars
-----------------------------------------------------------------------------
(* What the code keeps.                                                    *)

\* Every variable has its type.
TypeOK ==
  /\ scope \in ScopeConfig
  /\ calls \subseteq Call
  /\ results \subseteq Result
  /\ pending \subseteq PendingResponse
  /\ nextId \in Nat \ {0}
  /\ deciding \subseteq Decision
  /\ decided \subseteq Decided
  /\ views \subseteq PendingResponse
  /\ audit \subseteq AuditEntry
  /\ nextCall \in 1..(MaxCalls + 1)
  /\ epoch \in Nat

\* Where the entries of the approval queue are, or how they ended.
PendingFate(e) == [place |-> "pending", entry |-> e, view |-> e, as |-> "pending"]
DecidingFate(d) ==
  [place |-> "deciding", entry |-> d.entry, view |-> d.view, as |-> d.action]
DecidedFate(d) ==
  [place |-> "decided", entry |-> d.entry, view |-> d.view, as |-> d.fate]

Fates ==
  {PendingFate(e) : e \in pending} \cup {DecidingFate(d) : d \in deciding}
    \cup {DecidedFate(d) : d \in decided}

\* However enqueue, approve and reject overlap, an entry has one fate: it is
\* pending, being decided, or decided once and one way; and while the process
\* runs none disappears (approve and reject remove it before they await).
EntryHasOneFate ==
  /\ \A f, g \in Fates : f.entry.call = g.entry.call => f = g
  /\ \A i \in 1..(nextId - 1) : \E f \in Fates :
       f.entry.id = i /\ f.entry.epoch = epoch

\* A decision falls on the response its user was shown, as long as the process
\* has not restarted in between: an id is never used for a second response.
DecidedAsShown ==
  \A d \in decided \cup deciding :
    d.view.epoch = d.entry.epoch => d.view = d.entry

Logged(call, event) == [call |-> call, event |-> event] \in audit

\* Whatever has left is in the audit log: a response sent at once with its
\* draft, a queued one with its queueing, an approved one with its draft and
\* its approval.
ReleasedIsAudited ==
  /\ \A r \in results :
       /\ r.action \in {"sent", "notified", "blocked"} => Logged(r.call, "generated")
       /\ r.action = "queued" => Logged(r.call, "pending_approval")
  /\ \A d \in decided : d.fate # "lost" =>
       Logged(d.entry.call, "generated") /\ Logged(d.entry.call, d.fate)

Permits(rule) == rule \in {"autonomous", "notify"}

\* A response leaves without approval only if the rule in force at that moment
\* for its sender, or without one for its channel, says so: also when the
\* configuration changed while the message was being processed.
RuleInForceWins ==
  [][\A r \in results' \ results : r.action \in {"sent", "notified"} =>
       LET contact == scope.contactOverrides[Sender[r.msg]]
           channel == scope.channelOverrides[Channel[r.msg]]
       IN  IF contact # Unset THEN Permits(contact)
                              ELSE channel # Unset => Permits(channel)]_vars
-----------------------------------------------------------------------------
(* The inductive invariant.                                                *)

\* The entries the queue knows or has known, and those the users have seen.
Entries == {f.entry : f \in Fates}
Seen == Entries \cup views

\* An id names one entry of a process, and a call queues one entry.
IdsAreUnique ==
  /\ \A e \in Seen : e.epoch <= epoch /\ (e.epoch = epoch => e.id < nextId)
  /\ \A e, f \in Seen : e.epoch = f.epoch /\ e.id = f.id => e = f
  /\ \A e, f \in Seen : e.call = f.call => e = f
  /\ \A e \in pending : e.epoch = epoch

\* No entry is in two places, and the running process has lost none.
EntriesAreKept ==
  /\ \A f, g \in Fates : f.entry = g.entry => f = g
  /\ \A i \in 1..(nextId - 1) : \E e \in Entries : e.id = i /\ e.epoch = epoch

\* A call that has not queued a response yet has no entry.
CallsQueueOnce ==
  /\ \A c, d \in calls : c.call = d.call => c = d
  /\ \A c \in calls : c.call < nextCall
  /\ \A e \in Seen : e.call < nextCall
  /\ \A c \in calls, e \in Seen : c.pc # "queue" => e.call # c.call

\* A decision carries an id its user was shown.
DecidedById ==
  \A d \in decided \cup deciding : d.view \in views /\ d.view.id = d.entry.id

QueueInv ==
  /\ IdsAreUnique
  /\ EntriesAreKept
  /\ CallsQueueOnce
  /\ DecidedById

\* The draft of an entry that can still be decided is in the audit log.
ReleaseInv ==
  /\ \A e \in pending : Logged(e.call, "generated")
  /\ \A d \in deciding : Logged(d.entry.call, "generated")
  /\ ReleasedIsAudited
=============================================================================
