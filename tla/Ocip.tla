-------------------------------- MODULE Ocip --------------------------------
(***************************************************************************)
(* The OCIP plugin: the sessions_send hooks of plugins/ocip-protocol/src.  *)
(* Every agent runs one OcipHooks object.  handleOutgoing counts a round,  *)
(* builds the envelope, filters the data and audits before the message     *)
(* leaves; handleIncoming checks the org boundary, adopts the exchange,    *)
(* looks for commitments and audits before the message is passed on.       *)
(*                                                                         *)
(* A hook is an async function: it runs without interruption up to an      *)
(* await, and any other hook call may run before it resumes.  A call that  *)
(* waits is a record in sending or receiving; each action below is the     *)
(* code between two awaits.  The transport, the audit plugin and the       *)
(* policy engine are external: a message may be lost, reordered or         *)
(* delivered again, and an awaited gateway call may reject.                *)
(***************************************************************************)
EXTENDS Naturals, FiniteSets

CONSTANTS
  Agents,            \* instance ids of the agents (AgentIdentity.instanceId)
  Tenant, OrgUnit,   \* the tenant and the org unit of each agent
  MaxShared,         \* AgentIdentity.maxClassificationShared of each agent
  Exchanges,         \* exchange ids
  Drafts,            \* the messages callers may hand to sessions_send
  DefaultMaxRounds,  \* OCIP_DEFAULT_MAX_ROUNDS
  Unset,             \* message.maxRounds is undefined
  NoExchange,        \* counter.getState returns undefined
  MaxSends,          \* bound: calls of handleOutgoing
  MaxDeliveries,     \* bound: deliveries of one message
  MaxRestarts        \* bound: restarts of one agent

\* CLASSIFICATION_LEVELS by index: public, internal, confidential, restricted
Levels == 0..3

ExchangeTypes ==
  {"information_query", "commitment_request", "meeting_scheduling"}

\* What a caller fills in: keywords stands for commitment language in content.
DraftRecord ==
  [exchangeType : ExchangeTypes, keywords : BOOLEAN, classification : Levels,
   data : SUBSET Levels, canShare : SUBSET Levels, maxRounds : Nat \cup {Unset}]

ASSUME OcipAssumption ==
  /\ DefaultMaxRounds \in Nat
  /\ Drafts \subseteq DraftRecord
  /\ Unset \notin Nat
  /\ MaxShared \in [Agents -> Levels]
  /\ MaxSends \in Nat

\* counter.ts: ExchangeState; the transcript is the set of its round numbers
ExchangeState ==
  [currentRound : Nat, maxRounds : Nat, transcript : SUBSET Nat]

\* undefined is no object: neither a state nor what stands for one below.
ASSUME NoExchangeAssumption ==
  /\ NoExchange \notin ExchangeState
  /\ NoExchange \notin
       [limit : Nat, counted : Nat, waiting : SUBSET Nat, sent : SUBSET Nat]

\* envelope/builder.ts: OcipEnvelope
Envelope ==
  [source : Agents, round : Nat, maxRounds : Nat, classification : Levels,
   canShare : SUBSET Levels, replyPolicy : {"agent-ok", "human-only"},
   requiresCommitment : BOOLEAN]

\* A message as it leaves handleOutgoing.  id names the call, epoch counts the
\* restarts of the sender: neither is in the code.
Message ==
  [id : 1..MaxSends, from : Agents, epoch : Nat, to : Agents, exchange : Exchanges,
   envelope : Envelope, shared : SUBSET Levels, draft : Drafts]

\* exchange-log/logger.ts: what an audit entry says of an exchange.  event is
\* the outcome, or "data_withheld"; id and epoch are those of the message.
AuditEntry ==
  [id : 1..MaxSends, epoch : Nat, agent : Agents, exchange : Exchanges,
   role : {"initiator", "responder"},
   event : {"in_progress", "escalated", "denied", "data_withheld"},
   round : Nat, maxRounds : Nat, transcript : SUBSET Nat]

VARIABLES
  exchange,    \* exchange[a][x]: ExchangeRoundCounter.exchanges of agent a
  sending,     \* handleOutgoing calls that wait for audit.log
  receiving,   \* handleIncoming calls that wait for the policy or audit.log
  net,         \* messages handed to the transport
  deliveries,  \* how often a message was handed to handleIncoming
  outcomes,    \* how the finished handleIncoming calls ended
  audit,       \* the entries audit.log has stored
  nextId,      \* the id of the next handleOutgoing call
  epoch        \* epoch[a]: restarts of agent a

vars == <<exchange, sending, receiving, net, deliveries, outcomes, audit,
          nextId, epoch>>
-----------------------------------------------------------------------------
Init ==
  /\ exchange = [a \in Agents |-> [x \in Exchanges |-> NoExchange]]
  /\ sending = {}
  /\ receiving = {}
  /\ net = {}
  /\ deliveries = [i \in 1..MaxSends |-> 0]
  /\ outcomes = {}
  /\ audit = {}
  /\ nextId = 1
  /\ epoch = [a \in Agents |-> 0]
-----------------------------------------------------------------------------
(* The pure parts of the hooks.                                            *)

\* The limit of an exchange that the draft opens: maxRounds ?? 3.
LimitOf(d) == IF d.maxRounds = Unset THEN DefaultMaxRounds ELSE d.maxRounds

\* ExchangeRoundCounter.initExchange
InitExchange(limit) ==
  [currentRound |-> 0, maxRounds |-> limit, transcript |-> {}]

\* Mutant: every send opens the exchange anew (no getState before initExchange).
StateAlwaysNew(a, x, d) == InitExchange(LimitOf(d))

\* The state handleOutgoing works on: the one tracked, or a new one.
StateFor(a, x, d) ==
  IF exchange[a][x] = NoExchange THEN InitExchange(LimitOf(d)) ELSE exchange[a][x]

\* ExchangeRoundCounter.incrementRound, before it compares with the limit.
IncrementRound(s) ==
  [currentRound |-> s.currentRound + 1, maxRounds |-> s.maxRounds,
   transcript |-> s.transcript \cup {s.currentRound + 1}]

\* Mutant: the reply policy is taken from the exchange type as it is.
EnvelopeWithTypeAsPolicy(a, d, s) ==
  [source |-> a, round |-> s.currentRound, maxRounds |-> s.maxRounds,
   classification |-> d.classification, canShare |-> 0..MaxShared[a],
   replyPolicy |-> d.exchangeType,
   requiresCommitment |->
     d.exchangeType \in {"commitment_request", "meeting_scheduling"}]

\* OcipEnvelopeBuilder.build
BuildEnvelope(a, d, s) ==
  [source |-> a, round |-> s.currentRound, maxRounds |-> s.maxRounds,
   classification |-> d.classification, canShare |-> 0..MaxShared[a],
   replyPolicy |-> IF d.exchangeType = "meeting_scheduling"
                     THEN "human-only" ELSE "agent-ok",
   requiresCommitment |->
     d.exchangeType \in {"commitment_request", "meeting_scheduling"}]

\* Mutant: the filter looks at the ceiling of the exchange only.
AllowedByCeiling(d) == {l \in d.data : l <= d.classification}

\* ClassificationFilter.filter: the items that may leave; the rest is withheld.
Allowed(d) == {l \in d.data : l <= d.classification /\ l \in d.canShare}
Withheld(d) == d.data \ Allowed(d)

\* Mutant: the flags of the envelope are read, the words are not.
RequiresHumanByFlag(m) == m.envelope.requiresCommitment

\* CommitmentDetector.detect
RequiresHuman(m) ==
  \/ m.envelope.requiresCommitment
  \/ m.envelope.replyPolicy = "human-only"
  \/ m.draft.keywords

\* Mutant: the entry is filled in before the round is counted.
EntryBeforeIncrement(m, role, event, s) ==
  [id |-> m.id, epoch |-> m.epoch,
   agent |-> IF role = "initiator" THEN m.from ELSE m.to,
   exchange |-> m.exchange, role |-> role, event |-> event,
   round |-> s.currentRound - 1, maxRounds |-> s.maxRounds,
   transcript |-> s.transcript]

\* What logExchange hands to audit.log.
Entry(m, role, event, s) ==
  [id |-> m.id, epoch |-> m.epoch,
   agent |-> IF role = "initiator" THEN m.from ELSE m.to,
   exchange |-> m.exchange, role |-> role, event |-> event, round |-> s.currentRound,
   maxRounds |-> s.maxRounds, transcript |-> s.transcript]
-----------------------------------------------------------------------------
(* handleOutgoing.  A waiting call holds the message it will send and the  *)
(* entry it has handed to audit.log.                                       *)

\* The message the next call will send if it may.
Outgoing(a, b, x, d) ==
  [id |-> nextId, from |-> a, epoch |-> epoch[a], to |-> b, exchange |-> x,
   envelope |-> BuildEnvelope(a, d, IncrementRound(StateFor(a, x, d))),
   shared |-> Allowed(d), draft |-> d]

\* The first segment: the round is counted, and what to audit is decided,
\* before the first await.
BeginOutgoing(a, b, x, d, pc, event) ==
  LET m == Outgoing(a, b, x, d)
      s == IncrementRound(StateFor(a, x, d))
  IN  /\ nextId <= MaxSends
      /\ nextId' = nextId + 1
      /\ exchange' = [exchange EXCEPT ![a][x] = s]
      /\ sending' = sending \cup
           {[pc |-> pc, msg |-> m, entry |-> Entry(m, "initiator", event, s)]}
      /\ UNCHANGED <<receiving, net, deliveries, outcomes, audit, epoch>>

\* Mutant: only the first round beyond the limit is noticed.
OverLimitOnce(a, x, d) ==
  LET s == IncrementRound(StateFor(a, x, d)) IN s.currentRound = s.maxRounds + 1

\* incrementRound throws ExchangeRoundLimitError.
OverLimit(a, x, d) ==
  LET s == IncrementRound(StateFor(a, x, d)) IN s.currentRound > s.maxRounds

\* The limit is exceeded: the escalation is attached, then audited.
SendOverLimit(a, b, x, d) ==
  /\ OverLimit(a, x, d)
  /\ BeginOutgoing(a, b, x, d, "escalate", "escalated")

\* Nothing is withheld: the envelope is attached and the exchange audited.
SendAll(a, b, x, d) ==
  /\ ~OverLimit(a, x, d)
  /\ Withheld(d) = {}
  /\ BeginOutgoing(a, b, x, d, "log", "in_progress")

\* Some data is withheld: that is audited first.
SendFiltered(a, b, x, d) ==
  /\ ~OverLimit(a, x, d)
  /\ Withheld(d) # {}
  /\ BeginOutgoing(a, b, x, d, "withheld", "data_withheld")

\* Mutant: the envelope is built after the await.
EnvelopeAfterAwait(c) ==
  LET m == [c.msg EXCEPT !.envelope.round =
                           exchange[c.msg.from][c.msg.exchange].currentRound]
  IN  /\ c.pc = "withheld"
      /\ audit' = audit \cup {c.entry}
      /\ sending' = (sending \ {c}) \cup
           {[pc |-> "log", msg |-> m,
             entry |-> Entry(m, "initiator", "in_progress", exchange[m.from][m.exchange])]}
      /\ UNCHANGED <<exchange, receiving, net, deliveries, outcomes, nextId, epoch>>

\* logDataWithheld resolves.  The call attaches the envelope it built before
\* the await, and hands audit.log the state's rounds as they are now.
WithheldLogged(c) ==
  /\ c.pc = "withheld"
  /\ audit' = audit \cup {c.entry}
  /\ sending' = (sending \ {c}) \cup
       {[pc |-> "log", msg |-> c.msg,
         entry |-> Entry(c.msg, "initiator", "in_progress",
                         exchange[c.msg.from][c.msg.exchange])]}
  /\ UNCHANGED <<exchange, receiving, net, deliveries, outcomes, nextId, epoch>>

\* logExchange resolves, the hook returns and the host sends the message.
OutgoingLogged(c) ==
  /\ c.pc = "log"
  /\ audit' = audit \cup {c.entry}
  /\ net' = net \cup {c.msg}
  /\ sending' = sending \ {c}
  /\ UNCHANGED <<exchange, receiving, deliveries, outcomes, nextId, epoch>>

\* The escalation is audited; the hook throws ExchangeRoundLimitError.
EscalationLogged(c) ==
  /\ c.pc = "escalate"
  /\ audit' = audit \cup {c.entry}
  /\ sending' = sending \ {c}
  /\ UNCHANGED <<exchange, receiving, net, deliveries, outcomes, nextId, epoch>>

\* audit.log rejects: the hook throws and nothing is sent.
OutgoingFails(c) ==
  /\ sending' = sending \ {c}
  /\ UNCHANGED <<exchange, receiving, net, deliveries, outcomes, audit, nextId, epoch>>
-----------------------------------------------------------------------------
(* handleIncoming.                                                         *)

Finish(m, n, result) ==
  outcomes' = outcomes \cup {[msg |-> m, delivery |-> n, result |-> result]}

Deliver(m) ==
  /\ deliveries[m.id] < MaxDeliveries
  /\ deliveries' = [deliveries EXCEPT ![m.id] = @ + 1]

\* enforce throws CrossEnterpriseBlockedError before it awaits anything.
BlockCrossEnterprise(m) ==
  /\ Tenant[m.envelope.source] # Tenant[m.to]
  /\ Deliver(m)
  /\ Finish(m, deliveries[m.id] + 1, "blocked")
  /\ UNCHANGED <<exchange, sending, receiving, net, audit, nextId, epoch>>

\* Same tenant: wait for enforce (within one org unit it resolves at once).
ReceiveMessage(m) ==
  /\ Tenant[m.envelope.source] = Tenant[m.to]
  /\ Deliver(m)
  /\ receiving' = receiving \cup
       {[pc |-> "policy", msg |-> m, delivery |-> deliveries[m.id] + 1]}
  /\ UNCHANGED <<exchange, sending, net, outcomes, audit, nextId, epoch>>

SameOrgUnit(m) == OrgUnit[m.envelope.source] = OrgUnit[m.to]

\* Another org unit, and the policy does not answer allow.
PolicyDenies(c) ==
  /\ c.pc = "policy"
  /\ ~SameOrgUnit(c.msg)
  /\ receiving' = (receiving \ {c}) \cup {[c EXCEPT !.pc = "deny"]}
  /\ UNCHANGED <<exchange, sending, net, deliveries, outcomes, audit, nextId, epoch>>

\* Mutant: the responder follows every envelope it receives.
AdoptAlways(m) ==
  [exchange EXCEPT ![m.to][m.exchange] =
     [InitExchange(m.envelope.maxRounds) EXCEPT !.currentRound = m.envelope.round]]

\* The responder tracks an exchange it does not know from the envelope on;
\* one it knows stays as it is.
Adopt(m) ==
  IF exchange[m.to][m.exchange] = NoExchange
    THEN [exchange EXCEPT ![m.to][m.exchange] =
            [InitExchange(m.envelope.maxRounds)
               EXCEPT !.currentRound = m.envelope.round]]
    ELSE exchange

\* Same org unit or allowed by policy, and a human has to decide: the hook
\* throws CommitmentRequiresHumanError.
CommitmentNeedsHuman(c) ==
  /\ c.pc = "policy"
  /\ RequiresHuman(c.msg)
  /\ exchange' = Adopt(c.msg)
  /\ receiving' = receiving \ {c}
  /\ Finish(c.msg, c.delivery, "commitment")
  /\ UNCHANGED <<sending, net, deliveries, audit, nextId, epoch>>

\* Same org unit or allowed by policy, and no commitment: audit the receipt.
AcceptMessage(c) ==
  /\ c.pc = "policy"
  /\ ~RequiresHuman(c.msg)
  /\ exchange' = Adopt(c.msg)
  /\ receiving' = (receiving \ {c}) \cup {[c EXCEPT !.pc = "log"]}
  /\ UNCHANGED <<sending, net, deliveries, outcomes, audit, nextId, epoch>>

ResponderEntry(m, event) ==
  Entry(m, "responder", event,
        [currentRound |-> m.envelope.round, maxRounds |-> m.envelope.maxRounds,
         transcript |-> {}])

\* The receipt is audited; the envelope is attached for the agent.
IncomingLogged(c) ==
  /\ c.pc = "log"
  /\ audit' = audit \cup {ResponderEntry(c.msg, "in_progress")}
  /\ Finish(c.msg, c.delivery, "accepted")
  /\ receiving' = receiving \ {c}
  /\ UNCHANGED <<exchange, sending, net, deliveries, nextId, epoch>>

\* Mutant: the denial is handed to audit.log and not awaited.
DenialNotAwaited(c) ==
  /\ c.pc = "deny"
  /\ Finish(c.msg, c.delivery, "denied")
  /\ receiving' = receiving \ {c}
  /\ UNCHANGED <<exchange, sending, net, deliveries, audit, nextId, epoch>>

\* The denial is audited; the hook returns and attaches nothing.
DenialLogged(c) ==
  /\ c.pc = "deny"
  /\ audit' = audit \cup {ResponderEntry(c.msg, "denied")}
  /\ Finish(c.msg, c.delivery, "denied")
  /\ receiving' = receiving \ {c}
  /\ UNCHANGED <<exchange, sending, net, deliveries, nextId, epoch>>

\* policy.evaluate (asked only across org units) or audit.log rejects: the hook
\* throws.
IncomingFails(c) ==
  /\ c.pc = "policy" => ~SameOrgUnit(c.msg)
  /\ Finish(c.msg, c.delivery, "failed")
  /\ receiving' = receiving \ {c}
  /\ UNCHANGED <<exchange, sending, net, deliveries, audit, nextId, epoch>>
-----------------------------------------------------------------------------
\* The agent's process restarts: the counter lives in memory, and the waiting
\* calls are gone.
Restart(a) ==
  /\ epoch[a] < MaxRestarts
  /\ epoch' = [epoch EXCEPT ![a] = @ + 1]
  /\ exchange' = [exchange EXCEPT ![a] = [x \in Exchanges |-> NoExchange]]
  /\ sending' = {c \in sending : c.msg.from # a}
  /\ receiving' = {c \in receiving : c.msg.to # a}
  /\ UNCHANGED <<net, deliveries, outcomes, audit, nextId>>

Request ==
  \E a \in Agents, x \in Exchanges, d \in Drafts : \E b \in Agents \ {a} :
    \/ SendOverLimit(a, b, x, d)
    \/ SendAll(a, b, x, d)
    \/ SendFiltered(a, b, x, d)

ResumeOutgoing ==
  \E c \in sending :
    \/ WithheldLogged(c)
    \/ OutgoingLogged(c)
    \/ EscalationLogged(c)
    \/ OutgoingFails(c)

Transport == \E m \in net : BlockCrossEnterprise(m) \/ ReceiveMessage(m)

ResumeIncoming ==
  \E c \in receiving :
    \/ PolicyDenies(c)
    \/ CommitmentNeedsHuman(c)
    \/ AcceptMessage(c)
    \/ IncomingLogged(c)
    \/ DenialLogged(c)
    \/ IncomingFails(c)

Next ==
  \/ Request
  \/ ResumeOutgoing
  \/ Transport
  \/ ResumeIncoming
  \/ \E a \in Agents : Restart(a)

Spec == Init /\ [][Next]_vars
-----------------------------------------------------------------------------
(* What the code keeps.                                                    *)

OutgoingCall ==
  [pc : {"withheld", "log", "escalate"}, msg : Message, entry : AuditEntry]
IncomingCall == [pc : {"policy", "deny", "log"}, msg : Message, delivery : Nat]
Outcome ==
  [msg : Message, delivery : Nat,
   result : {"blocked", "denied", "commitment", "accepted", "failed"}]

\* Every variable has its type.
TypeOK ==
  /\ exchange \in [Agents -> [Exchanges -> ExchangeState \cup {NoExchange}]]
  /\ sending \subseteq OutgoingCall
  /\ receiving \subseteq IncomingCall
  /\ net \subseteq Message
  /\ deliveries \in [1..MaxSends -> Nat]
  /\ outcomes \subseteq Outcome
  /\ audit \subseteq AuditEntry
  /\ nextId \in Nat \ {0}
  /\ epoch \in [Agents -> Nat]

SameSide(m, n) ==
  m.from = n.from /\ m.exchange = n.exchange /\ m.epoch = n.epoch

\* Loop prevention, one side of an exchange: however many sends of an agent
\* overlap at their awaits, the messages that leave carry different rounds in
\* the order of the calls, all within one and the same limit (incrementRound
\* runs before the first await of handleOutgoing).
RoundsAreDistinctAndBounded ==
  \A m, n \in net :
    /\ m.envelope.round \in 1..m.envelope.maxRounds
    /\ SameSide(m, n) => m.envelope.maxRounds = n.envelope.maxRounds
    /\ SameSide(m, n) /\ m.id < n.id => m.envelope.round < n.envelope.round

\* An escalation is final for the agent that escalated: a send that began
\* after the escalated one never reaches the transport, whatever still waited
\* at that moment (the counter is not reset and never falls).
NoSendAfterEscalation ==
  \A e \in audit, m \in net :
    /\ e.event = "escalated"
    /\ e.agent = m.from /\ e.exchange = m.exchange /\ e.epoch = m.epoch
    => m.id < e.id

\* Nothing leaves or is passed on unaudited: a message on the wire has its
\* initiator entry, an accepted or denied one its responder entry too.
AuditedBeforePassedOn ==
  /\ \A m \in net : \E e \in audit :
       e.id = m.id /\ e.role = "initiator" /\ e.event = "in_progress"
  /\ \A o \in outcomes : o.result \in {"accepted", "denied"} =>
       \E e \in audit :
         /\ e.id = o.msg.id /\ e.role = "responder" /\ e.agent = o.msg.to
         /\ e.event = IF o.result = "denied" THEN "denied" ELSE "in_progress"

\* A message that leaves without all of its data has an entry that says so,
\* stored before it left, and what it carries lies below the ceiling of the
\* exchange and within what the caller says the receiver accepts.
WithheldIsAudited ==
  \A m \in net :
    /\ \A l \in m.shared : l <= m.envelope.classification /\ l \in m.draft.canShare
    /\ m.shared # m.draft.data =>
         \E e \in audit : e.id = m.id /\ e.event = "data_withheld"

\* Only what may be passed on is: an accepted message came from an agent of
\* the same tenant, and what its sender meant with it, by type or in words,
\* commits nobody, however the policy answer, the redelivery and the other
\* messages interleave.
AcceptedIsPermitted ==
  \A o \in outcomes : o.result = "accepted" =>
    /\ Tenant[o.msg.from] = Tenant[o.msg.to]
    /\ o.msg.draft.exchangeType = "information_query"
    /\ ~o.msg.draft.keywords

\* Whoever reads the audit log never sees a round older than the message's: the
\* entry may have been taken after other sends, never before this one.
AuditRoundNotBehind ==
  \A e \in audit, m \in net :
    e.id = m.id /\ e.event = "in_progress" => e.round >= m.envelope.round

\* While the process runs, an exchange is never forgotten, its limit never
\* moves and its round never falls: no order of sends, first receipts and
\* redeliveries extends an exchange.
LimitIsNeverExtended ==
  [][\A a \in Agents, x \in Exchanges :
       exchange[a][x] # NoExchange /\ epoch'[a] = epoch[a] =>
         /\ exchange'[a][x] # NoExchange
         /\ exchange'[a][x].maxRounds = exchange[a][x].maxRounds
         /\ exchange'[a][x].currentRound >= exchange[a][x].currentRound]_vars
-----------------------------------------------------------------------------
(* The abstract specification the hooks implement, and what stands for its *)
(* state: the counter, the waiting calls and the messages of this life.    *)

WaitingRounds(a, x) ==
  {c.msg.envelope.round :
     c \in {k \in sending : k.msg.from = a /\ k.msg.exchange = x /\ k.pc # "escalate"}}

SentRounds(a, x) ==
  {m.envelope.round :
     m \in {n \in net : n.from = a /\ n.exchange = x /\ n.epoch = epoch[a]}}

SideOf(a, x) ==
  [limit |-> exchange[a][x].maxRounds, counted |-> exchange[a][x].currentRound,
   waiting |-> WaitingRounds(a, x), sent |-> SentRounds(a, x)]

Sides ==
  [a \in Agents |-> [x \in Exchanges |->
     IF exchange[a][x] = NoExchange THEN NoExchange ELSE SideOf(a, x)]]

Bounded ==
  INSTANCE BoundedExchange
    WITH Limits <- {LimitOf(d) : d \in Drafts}, NoSide <- NoExchange, side <- Sides

\* Whatever overlaps, fails, is lost, redelivered or restarted, the hooks do to the
\* rounds of an exchange only what BoundedExchange allows: a round once granted
\* is sent as it is or given up, and a side that is known never joins again.
ImplementsBoundedExchange == Bounded!Spec

-----------------------------------------------------------------------------
(* The inductive invariant.  A ticket is a counted round: of a call that   *)
(* waits, of a message that left, or of an escalation that is audited.     *)

TicketOf(m) ==
  [id |-> m.id, epoch |-> m.epoch, agent |-> m.from, exchange |-> m.exchange,
   round |-> m.envelope.round, maxRounds |-> m.envelope.maxRounds]

EscalationTicket(e) ==
  [id |-> e.id, epoch |-> e.epoch, agent |-> e.agent, exchange |-> e.exchange,
   round |-> e.round, maxRounds |-> e.maxRounds]

Escalations == {e \in audit : e.event = "escalated"}

Tickets ==
  {TicketOf(c.msg) : c \in sending} \cup {TicketOf(m) : m \in net}
    \cup {EscalationTicket(e) : e \in Escalations}

\* A ticket of the running process is covered by the state the agent tracks.
TicketIsCovered(t) ==
  /\ t.id < nextId
  /\ t.round >= 1
  /\ t.epoch <= epoch[t.agent]
  /\ t.epoch = epoch[t.agent] =>
       /\ exchange[t.agent][t.exchange] # NoExchange
       /\ t.round <= exchange[t.agent][t.exchange].currentRound
       /\ t.maxRounds = exchange[t.agent][t.exchange].maxRounds

\* Tickets of one side agree on the limit and count up in the order of the calls.
TicketsAreOrdered(t, u) ==
  /\ t.agent = u.agent /\ t.exchange = u.exchange /\ t.epoch = u.epoch
  => /\ t.maxRounds = u.maxRounds
     /\ t.id < u.id => t.round < u.round
     /\ t.id = u.id => t.round = u.round

TicketInv ==
  /\ \A t \in Tickets : TicketIsCovered(t)
  /\ \A t, u \in Tickets : TicketsAreOrdered(t, u)

\* A waiting call belongs to the running process, and it escalates exactly when
\* its round is beyond the limit.
CallInv(c) ==
  /\ c.msg.epoch = epoch[c.msg.from]
  /\ c.pc = "escalate" <=> c.msg.envelope.round > c.msg.envelope.maxRounds
  /\ c.pc = "escalate" => EscalationTicket(c.entry) = TicketOf(c.msg)
  /\ c.pc = "escalate" <=> c.entry.event = "escalated"

\* Every round ever counted lies where the counter says, in the order of the
\* calls, and has left exactly when it was within the limit.
RoundInv ==
  /\ TicketInv
  /\ \A c \in sending : CallInv(c)
  /\ \A m \in net : m.envelope.round <= m.envelope.maxRounds
  /\ \A e \in Escalations : e.round > e.maxRounds
-----------------------------------------------------------------------------
(* The inductive invariants of what is audited and of what is passed on.   *)

\* The messages that wait to leave, and those that have left.
InFlight == {c.msg : c \in sending} \cup net

\* An id names one message, in one place.
IdsNameMessages ==
  /\ \A m \in InFlight : m.id < nextId
  /\ \A c, d \in sending : c.msg.id = d.msg.id => c = d
  /\ \A c \in sending, m \in net : c.msg.id # m.id
  /\ \A m, n \in net : m.id = n.id => m = n

\* A message carries what its draft lets it, and its envelope says what the draft
\* means.
MeansItsDraft(m) ==
  /\ m.envelope.source = m.from
  /\ m.envelope.classification = m.draft.classification
  /\ m.envelope.requiresCommitment
       <=> m.draft.exchangeType \in {"commitment_request", "meeting_scheduling"}
  /\ m.shared = Allowed(m.draft)

WithheldLoggedFor(m) ==
  Withheld(m.draft) # {} => \E e \in audit : e.id = m.id /\ e.event = "data_withheld"

\* A waiting call has handed the entry of its own message to audit.log; the entry
\* on the exchange comes after the one on what is withheld.
CallIsAudited(c) ==
  /\ c.entry.id = c.msg.id /\ c.entry.role = "initiator"
  /\ c.pc = "withheld" => c.entry.event = "data_withheld"
  /\ c.pc = "log" =>
       /\ c.entry.event = "in_progress"
       /\ c.entry.round >= c.msg.envelope.round
       /\ WithheldLoggedFor(c.msg)

\* An entry that says an exchange is in progress is about a message that left, and
\* has a round no older than the message's.
ProgressIsSent(e) ==
  e.event = "in_progress" =>
    \E m \in net : m.id = e.id /\ e.round >= m.envelope.round

AuditInv ==
  /\ IdsNameMessages
  /\ \A m \in InFlight : MeansItsDraft(m)
  /\ \A c \in sending : CallIsAudited(c)
  /\ \A m \in net : WithheldLoggedFor(m)
  /\ \A e \in audit : ProgressIsSent(e)
  /\ AuditedBeforePassedOn

\* A received message was sent, crossed no tenant, and has been looked at for
\* commitments before its receipt is audited.
ReceiptInv ==
  /\ \A c \in receiving :
       /\ c.msg \in net
       /\ Tenant[c.msg.envelope.source] = Tenant[c.msg.to]
       /\ c.pc = "log" => ~RequiresHuman(c.msg)
  /\ AcceptedIsPermitted

\* The limits are those the drafts ask for, also where an exchange was adopted.
LimitInv ==
  LET Limits == {LimitOf(d) : d \in Drafts}
  IN  /\ \A a \in Agents, x \in Exchanges :
           exchange[a][x] # NoExchange => exchange[a][x].maxRounds \in Limits
      /\ \A m \in InFlight : m.envelope.maxRounds \in Limits
=============================================================================
